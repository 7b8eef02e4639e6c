----------------------------- MODULE IfuSystem ------------------------------
(***************************************************************************)
(* A CPU: its instruction fetch unit and its execution unit, between a     *)
(* read port and the load & store unit.                                    *)
(*                                                                         *)
(* A step is a clock edge.  The read port keeps to the contract of memu.h: *)
(* it acknowledges a request in the cycle in which it is made or later,    *)
(* and delivers the word one clock after that.  The load & store unit      *)
(* acknowledges the request it sees, at once or later.  Memory holds any   *)
(* program without a jump in a delay slot.                                 *)
(***************************************************************************)
EXTENDS MExu

CONSTANT
  Workloads         \* programs: kinds of instructions, flags they set, and
                    \* number of clocks in a row in which the port acknowledges

ASSUME IfuSystemAssumption ==
  \A w \in Workloads : /\ w.kinds \subseteq Kind \ {"zero"}
                       /\ w.kinds \cap OtherKind # {}
                       /\ w.sr \subseteq Range(SrLayout)
                       /\ w.acks \in Nat \ {0}

VARIABLES
  rp_pending,       \* the read port has a request it has not acknowledged
  acks,             \* clocks in a row with an acknowledgement
  flushed,          \* the LSU has acknowledged a flush one clock ago
  arch,             \* history: the program counters of the architecture
  saved             \* history: the flags when the last system call was taken

rpVars  == <<rp_ack, rp_data, rp_pending, acks>>
lsuEnv  == <<lsu_ack, lsu_wcond_ok, flushed>>
vars    == <<ifuVars, exuVars, rpVars, lsuEnv, arch, saved, workload, localID>>

-----------------------------------------------------------------------------
(* The architecture: npc is executed after pc; slot tells that pc is the   *)
(* delay slot of a system call or of a return from exception.              *)

TargetOf(i) ==
  CASE i.kind \in {"jump", "jal"} -> i.target
    [] i.kind = "branch" /\ ifu_jump' -> i.target
    [] i.kind = "sys" -> VECTOR
    [] i.kind = "rfe" -> regEPCR
    [] OTHER -> Succ(arch.npc)

ArchEdge ==
  /\ arch' = IF Takes
             THEN [pc |-> arch.npc, npc |-> TargetOf(ir),
                   slot |-> ir.kind \in {"sys", "rfe"}]
             ELSE arch
  /\ saved' = IF Takes /\ ir.kind = "sys" THEN sr ELSE saved

-----------------------------------------------------------------------------
(* The read port.                                                          *)

\* What memory holds at an address: no jump behind a jump.
Fetched(adr) ==
  LET before == IF last_rp_ack THEN rp_data ELSE insn_buf[insn_top - 1]
  IN  {[adr |-> adr, kind |-> k, target |-> t] :
         k \in IF IsJump(before) /\ before.kind # "zero"
               THEN workload.kinds \cap OtherKind
               ELSE workload.kinds,
         t \in Target}

\* An instruction without a target has none.
Normal(i) == i.kind \in {"jump", "branch", "jal"}
             \/ i.target = CHOOSE t \in Target : TRUE

\* A request that is withdrawn may have been taken up, and is acknowledged all
\* the same: a read port looks at port_rd in its first state only.
ReadPortEdge ==
  /\ rp_pending' = (~rp_ack /\ (rp_rd \/ rp_pending))
  /\ \/ rp_ack' = FALSE /\ acks' = 0
     \/ /\ rp_rd' \/ rp_pending'
        /\ acks < workload.acks
        /\ rp_ack' = TRUE /\ acks' = acks + 1
  /\ IF rp_ack THEN \E i \in Fetched(rp_adr) : Normal(i) /\ rp_data' = i
     ELSE UNCHANGED rp_data

-----------------------------------------------------------------------------
(* The load & store unit.  The state of the link comes from the memory     *)
(* unit and changes when it likes.                                         *)

LsuEdge ==
  /\ lsu_ack' \in {FALSE, lsu_op' # "none"}
  /\ lsu_wcond_ok' \in {FALSE, "sc" \in workload.kinds}
  /\ flushed' = (lsu_op = "flush" /\ lsu_ack)

-----------------------------------------------------------------------------
Init ==
  /\ workload \in Workloads
  /\ IfuInit
  /\ rp_ack = FALSE /\ rp_data = ZeroInsn /\ rp_pending = FALSE /\ acks = 0
  /\ ExuInit
  /\ lsu_ack = FALSE /\ lsu_wcond_ok = FALSE /\ flushed = FALSE
  /\ arch = [pc |-> Succ(adr_buf[0]), npc |-> Succ(Succ(adr_buf[0])),
             slot |-> FALSE]
  /\ saved = {}

Next == /\ IfuEdge /\ ExuEdge /\ ReadPortEdge /\ LsuEdge /\ ArchEdge
        /\ UNCHANGED <<workload, localID>>

Spec == Init /\ [][Next]_vars

\* The clock ticks, read port and LSU answer, an instruction comes to its end.
LiveSpec == /\ Spec /\ WF_vars(Next)
            /\ []<>(rp_rd => rp_ack) /\ []<>(lsu_op # "none" => lsu_ack)
            /\ []<>(exu_state # "execute")

-----------------------------------------------------------------------------
(* Properties.                                                             *)

\* Registers and lines are what ifu.h and exu.h declare; no buffer overflows
\* ("ASSERT (insn_top_var < IFU_BUF_SIZE)").
TypeOK ==
  /\ insn_buf \in [Entry -> Insn] /\ adr_buf \in [Entry -> Address]
  /\ insn_top \in 0 .. IFU_BUF_SIZE /\ adr_top \in 0 .. IFU_BUF_SIZE
  /\ last_rp_ack \in BOOLEAN /\ rp_rd \in BOOLEAN /\ rp_adr \in Address
  /\ rp_ack \in BOOLEAN /\ rp_data \in Insn /\ rp_pending \in BOOLEAN
  /\ insn \in Insn /\ regEPCR \in Address /\ mode \in BOOLEAN
  /\ sr \subseteq Range(SrLayout) /\ regCPUEN \subseteq CPU
  /\ regESR \subseteq 0 .. Len(SrLayout) - 1
  /\ ifu_next \in BOOLEAN /\ ifu_jump \in BOOLEAN /\ ifu_jump_adr \in Address
  /\ lsu_op \in {"none", "rd", "wr", "flush"} \cup CacheOp
  /\ lsu_adr \in Address /\ lsu_rlink_wcond \in BOOLEAN
  /\ arch.pc \in Address /\ arch.npc \in Address

\* "(1, 1) lets the (current + 2)'th instruction be the jump target" (ifu.h):
\* whatever has been prefetched when an instruction turns out to be a jump, the
\* EXU executes the instructions of the program in the order of the
\* architecture, delay slots included.
ProgramOrder ==
  exu_state = "main" /\ ir_valid => ir.adr = arch.pc

\* The EXU reads npc for the link address ("PC+8", ifu.h) and for EPCR, where
\* it does not look at npc_valid: npc is valid and right.
NpcRight ==
  /\ exu_state = "link_wait" /\ npc_valid => npc = Succ(Succ(insn.adr))
  /\ exu_state = "main" /\ ir_valid /\ ir.kind = "sys" =>
       npc_valid /\ npc = arch.npc

\* "All input ports must be held until 'port_ack' is asserted" (memu.h): the
\* IFU neither withdraws nor changes a request to the read port.
RequestHeld == [][rp_rd /\ ~rp_ack => rp_rd' /\ rp_adr' = rp_adr]_vars

\* Whatever comes before and after it, an instruction makes its requests to the
\* LSU as LsuSystem takes for granted: held until the acknowledgement, then
\* none for a clock, and a cache operation right after its flush and for the
\* same line.
Client == INSTANCE LsuClient WITH op <- lsu_op, adr <- lsu_adr, ack <- lsu_ack
LsuClientSpec == Client!Spec

\* Every instruction gets its own request acknowledged before the next one is
\* fetched: no cache operation is taken for done because of the acknowledgement
\* of its flush ("wait for 'lsu_ack' to go down", exu.cpp).
AccessMade ==
  [][exu_state' = "top" =>
       /\ insn'.kind \in {"load", "ll"} => lsu_op = "rd" /\ lsu_ack
       /\ insn'.kind = "store" => lsu_op = "wr" /\ lsu_ack
       /\ insn'.kind = "cache" => lsu_op \in CacheOp /\ lsu_ack]_vars

\* The flags survive an exception: the return brings back those that were set
\* when the system call was taken, although they go through the bits of ESR
\* (GetSpr, SetSpr) and the exception routine changes them as it likes.
FlagsRestored == [][Takes /\ ir.kind = "rfe" => sr' = saved]_vars

\* The EXU never waits for ever for an instruction that the IFU waits with
\* fetching, nor for an LSU that waits for its request, unless it is off.
Progress == []<>(ifu_next \/ exu_state = "halted" \/ ~Enabled)

=============================================================================
