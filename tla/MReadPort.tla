----------------------------- MODULE MReadPort ------------------------------
(***************************************************************************)
(* The read ports (MReadPort, sysc/memu.cpp), one per data port and one    *)
(* per instruction port.  Port p reads rp_adr[p] while p \in rp_rd.        *)
(*                                                                         *)
(* hit is the set of ports with a BUSIF hit, tag the tag RAM output of     *)
(* each port's CPU.                                                        *)
(***************************************************************************)
EXTENDS MemuData

VARIABLES
  rp_state, rp_bank_sel,     \* registers of the ports
  rp_rd, rp_adr              \* request lines, driven by the CPUs

readPortVars == <<rp_state, rp_bank_sel>>

ReadPortState == {"init", "direct_wait_busif", "read_tag", "read_bank",
                  "miss_wait_busif", "miss_request_tag", "miss_read_tag",
                  "miss_replace"}

RpDirect(p) == rp_adr[p] \in DirectAdr

\* HitMethod.
BusIfHit(p, valid, adr) == GetBankOfAdr(rp_adr[p]) \in valid /\ rp_adr[p] = adr

-----------------------------------------------------------------------------
(* Output lines (MainMethod).                                              *)

\* A new request is taken up in the initial state and while the data of the
\* previous one is delivered.
NewRead(p) == p \in rp_rd /\ rp_state[p] \in {"init", "read_bank"}

RpReqTagR(p, hit) ==
  \/ rp_state[p] \in {"read_tag", "read_bank", "miss_request_tag",
                      "miss_read_tag"}
  \/ NewRead(p) /\ ~RpDirect(p) /\ p \notin hit

RpReqBank(p, tag) ==
  rp_state[p] \in {"read_tag", "miss_read_tag"} /\ tag.valid

RpReqBusIf(p) ==
  \/ rp_state[p] \in {"direct_wait_busif", "miss_wait_busif",
                      "miss_request_tag", "miss_read_tag", "miss_replace"}
  \/ NewRead(p) /\ RpDirect(p)

RpBusIfOp(p) ==
  IF rp_state[p] = "miss_replace" THEN "replace"
  ELSE IF rp_state[p] = "direct_wait_busif" \/ (NewRead(p) /\ RpDirect(p))
  THEN "direct_read"
  ELSE "nothing"

\* bank: the bank that is asked for has been granted.
RpAck(p, hit, tag, bank) ==
  \/ /\ p \in hit
     /\ \/ rp_state[p] \in {"direct_wait_busif", "miss_wait_busif",
                            "miss_replace"}
        \/ NewRead(p) /\ ~RpDirect(p)
  \/ RpReqBank(p, tag) /\ bank

\* The data of an acknowledged read, one clock later.
RpData(p, bank_data, busif_data) ==
  IF rp_state[p] = "read_bank" THEN bank_data ELSE busif_data

-----------------------------------------------------------------------------
(* Next state.                                                             *)

NextInit(p, hit, tagr, busif) ==
  IF p \notin rp_rd THEN "init"
  ELSE IF RpDirect(p)
  THEN IF busif THEN "direct_wait_busif" ELSE "init"
  ELSE IF p \notin hit /\ tagr THEN "read_tag" ELSE "init"

NextReadTag(p, tag, bank, miss) ==
  IF ~tag.valid THEN miss
  ELSE IF bank THEN "read_bank" ELSE rp_state[p]

\* A miss waits for the bus interface, then reads the tag again: another port
\* may have replaced the line meanwhile.
NextMissWait_NoRecheck(p, hit, free) ==     \* faulty variant
  IF p \in hit THEN "init"
  ELSE IF free THEN "miss_replace"
  ELSE "miss_wait_busif"
NextMissWait(p, hit, free) ==
  IF p \in hit THEN "init"
  ELSE IF free THEN "miss_request_tag"
  ELSE "miss_wait_busif"

RpNextState(p, hit, tag, tagr, bank, busif, busy) ==
  CASE rp_state[p] \in {"init", "read_bank"} -> NextInit(p, hit, tagr, busif)
    [] rp_state[p] = "read_tag" ->
         NextReadTag(p, tag, bank, "miss_wait_busif")
    [] rp_state[p] = "miss_wait_busif" -> NextMissWait(p, hit, busif /\ ~busy)
    [] rp_state[p] = "miss_request_tag" ->
         IF tagr THEN "miss_read_tag" ELSE "miss_request_tag"
    [] rp_state[p] = "miss_read_tag" ->
         NextReadTag(p, tag, bank, "miss_replace")
    [] rp_state[p] \in {"direct_wait_busif", "miss_replace"} ->
         IF p \in hit THEN "init" ELSE rp_state[p]

ReadPortInit ==
  /\ rp_state = [p \in RP |-> "init"]
  /\ rp_bank_sel = [p \in RP |-> 0]

\* tagr and busif are sets of granted ports, bank those whose bank is granted.
ReadPortEdge(hit, tag, tagr, bank, busif, busy) ==
  /\ rp_state' = [p \in RP |->
       RpNextState(p, hit, tag[p % CPU_CORES], p \in tagr, p \in bank,
                   p \in busif, busy)]
  /\ rp_bank_sel' = [p \in RP |->
       IF RpReqBank(p, tag[p % CPU_CORES]) /\ p \in bank
       THEN GetBankOfAdr(rp_adr[p]) ELSE rp_bank_sel[p]]

=============================================================================
