------------------------------- MODULE MMemu --------------------------------
(***************************************************************************)
(* The memory unit (MMemu, sysc/memu.cpp): read ports, write ports, bus    *)
(* interface, tag RAM, bank RAMs and arbiter, wired together as in         *)
(* MMemu::InterconnectMethod.                                              *)
(*                                                                         *)
(* A state is one clock cycle, a step is a clock edge.  The CPUs drive the *)
(* ports by the rules of memu.h ("All input ports must be held until       *)
(* 'port_ack' is asserted"), and the external memory answers a strobe of   *)
(* the bus interface after any number of clocks.                           *)
(***************************************************************************)
EXTENDS MTagRam, MBusIf, MReadPort, MWritePort, ArbiterLogic, FiniteSets

CONSTANTS
  PRIO_CLOCKS,          \* 1 << ARBITER_METHOD
  Workloads             \* what the CPUs may ask for: the ports they use, the
                        \* addresses they read and write, the operations,
                        \* byte selects and bytes written to each address

ASSUME MemuAssumption ==
  /\ PRIO_CLOCKS \in Nat \ {0}
  /\ \A w \in Workloads :
       /\ w.readPorts \subseteq RP /\ w.writePorts \subseteq WP
       /\ w.readAdr \cup w.writeAdr \subseteq CachedAdr \cup DirectAdr
       /\ w.ops \subseteq {"write", "sc", "ll", "writeback", "invalidate", "flush"}
       /\ w.bytesels \subseteq SUBSET Lane /\ w.writes \subseteq w.writeAdr \X Byte

VARIABLES
  counter_reg, linelock_reg, tagr_reg, tagw_reg, bank_reg, busif_reg, \* MArbiter
  bank_ram, bankram_rdata,     \* MBankRam, per bank
  rp_busif_data_reg,           \* MMemu
  rp_done,                     \* read ports whose data arrives in this cycle
  workload,                    \* what the CPUs ask for in this behaviour
  mem,                         \* external memory
  wb_ack_i                     \* its acknowledgement in this cycle

arbiterVars == <<counter_reg, linelock_reg, tagr_reg, tagw_reg, bank_reg,
                 busif_reg>>
cpuVars == <<rp_rd, rp_adr, rp_done, wp_in, workload>>
vars == <<tagRamVars, busIfVars, readPortVars, writePortVars, arbiterVars,
          bank_ram, bankram_rdata, rp_busif_data_reg, mem, wb_ack_i,
          cpuVars>>

WayIndex == 0 .. CACHE_WAYS * CACHE_SETS - 1

-----------------------------------------------------------------------------
(* Request lines.                                                          *)

GetPrioCpu == (counter_reg \div PRIO_CLOCKS) % CPU_CORES

busif_hit == {p \in RP : BusIfHit(p, idata_valid_reg, busif_adr_out)}

rp_tag_in(p) == tag_out[p % CPU_CORES]

wiadr == [n \in Port |->
  IF n < RPORTS THEN GetWayIndexOfAdr(rp_adr[n], rp_tag_in(n).way)
  ELSE IF n < IDX_BUSIF
  THEN LET w == n - RPORTS
       IN  GetWayIndexOfAdr(wp_in[w].adr, WpTagOut(w, tag_out[w]).way)
  ELSE GetWayIndexOfAdr(busif_adr_out, bi_tag_out.way)]

lock_idx == [n \in Locker |-> IF n = LOCK_BUSIF THEN GetIndexOfAdr(busif_adr_out)
                              ELSE GetIndexOfAdr(wp_in[n].adr)]

req_bank == [b \in Bank |->
  {p \in RP : RpReqBank(p, rp_tag_in(p)) /\ GetBankOfAdr(rp_adr[p]) = b}
    \cup {IDX_WP(w) : w \in {v \in WP : WpReqBank(v)
                                        /\ GetBankOfAdr(wp_in[v].adr) = b}}
    \cup (IF b \in bi_bank_rd \cup bi_bank_wr THEN {IDX_BUSIF} ELSE {})]

LineLockRequests(banks) ==
  {w \in WP : WpReqLineLock(w, w \in banks)}
    \cup (IF bi_req_linelock THEN {LOCK_BUSIF} ELSE {})

req_tagr ==
  {p \in RP : RpReqTagR(p, busif_hit)}
    \cup {IDX_WP(w) : w \in {v \in WP : WpReqTagR(v, busif_busy)}}
    \cup (IF bi_tag_rd THEN {IDX_BUSIF} ELSE {})

req_tagw ==
  {w \in WP : WpReqTagW(w)} \cup (IF bi_req_tagw THEN {LOCK_BUSIF} ELSE {})

req_busif ==
  {p \in RP : RpReqBusIf(p)}
    \cup {IDX_WP(w) : w \in {v \in WP : WpReqBusIf(v)}}

-----------------------------------------------------------------------------
(* Grant lines.  The line lock request of a write port depends on its bank *)
(* grant; banks is the set of write ports whose bank is granted.           *)

gnt_bank == [b \in Bank |->
  BankGrant(bank_reg[b], req_bank[b], wiadr, GetPrioCpu)]

RpBanks(gb) == {p \in RP : p \in gb[GetBankOfAdr(rp_adr[p])]}
WpBanks(gb) == {w \in WP : IDX_WP(w) \in gb[GetBankOfAdr(wp_in[w].adr)]}

gnt_linelock(gb) ==
  LineLock(linelock_reg, LineLockRequests(WpBanks(gb)), lock_idx, GetPrioCpu)
gnt_tagr == TagReaders(tagram_ready, tagr_reg, req_tagr, req_tagw)
gnt_tagw(tagr) == TagWriters(tagram_ready, tagr, tagw_reg, req_tagw, GetPrioCpu)
gnt_busif == BusIfGrant(busif_reg, req_busif, GetPrioCpu)

rp_ack(gb) ==
  {p \in RP : RpAck(p, busif_hit, rp_tag_in(p), p \in RpBanks(gb))}
wp_ack(gb) == {w \in WP : WpAck(w, w \in WpBanks(gb), busif_busy)}

-----------------------------------------------------------------------------
(* To the tag RAM.                                                         *)

tagram_rd ==
  {n \in CPU : \/ RpReqTagR(IDX_RP(n), busif_hit)
               \/ RpReqTagR(IDX_IP(n), busif_hit)
               \/ WpReqTagR(n, busif_busy)
               \/ n = CPU_CORES - 1 /\ bi_tag_rd}

tagram_wr(tagw) ==
  {n \in CPU : \/ WpTagWr(n, n \in tagw)
               \/ n = CPU_CORES - 1 /\ bi_tag_wr}

tagram_adr(tagr, tagw) == [n \in CPU |->
  CASE n = CPU_CORES - 1 /\ (IDX_BUSIF \in tagr \/ LOCK_BUSIF \in tagw) ->
         busif_adr_out
    [] OTHER -> IF IDX_WP(n) \in tagr \/ n \in tagw THEN wp_in[n].adr
                ELSE IF IDX_RP(n) \in tagr THEN rp_adr[IDX_RP(n)]
                ELSE IF IDX_IP(n) \in tagr THEN rp_adr[IDX_IP(n)]
                ELSE DontCare]

tagram_tag_in(tagw) == [n \in CPU |->
  IF n = CPU_CORES - 1 /\ LOCK_BUSIF \in tagw THEN bi_tag_out
  ELSE WpTagOut(n, tag_out[n])]

-----------------------------------------------------------------------------
(* The bank RAMs: writes first, then reads (MBankRam::MainThread).         *)

BankWriters(b, gb) ==
  {w \in WP : IDX_WP(w) \in gb[b] /\ WpBankWr(w, w \in WpBanks(gb))}

\* The word port p of bank b is driven with, if it is written.
BankWData(b, p, gb) ==
  IF p = RAMPORT_BUSIF /\ IDX_BUSIF \in gb[b] THEN idata_reg[b]
  ELSE WpBankData(CHOOSE w \in BankWriters(b, gb) : RAMPORT(w) = p)

bankram_wiadr == [b \in Bank |-> [p \in RamPort |->
  BankAddress(p, bank_reg[b], req_bank[b], wiadr, GetPrioCpu)]]

bankram_wr(gb) == [b \in Bank |->
  {RAMPORT(w) : w \in BankWriters(b, gb)}
    \cup (IF IDX_BUSIF \in gb[b] /\ b \in bi_bank_wr THEN {RAMPORT_BUSIF} ELSE {})]

\* Every grant but one for a write of the bus interface reads.
bankram_rd(gb) == [b \in Bank |->
  {RAMPORT(n) : n \in {m \in gb[b] : m = IDX_BUSIF => b \in bi_bank_rd}}]

BankEdge(gb) ==
  LET adr == bankram_wiadr
      wr  == bankram_wr(gb)
      rd  == bankram_rd(gb)
      ram == [b \in Bank |-> [wi \in WayIndex |->
                LET ports == {p \in wr[b] : adr[b][p] = wi}
                IN  IF ports = {} THEN bank_ram[b][wi]
                    ELSE BankWData(b, CHOOSE p \in ports :
                                        \A q \in ports : q <= p, gb)]]
  IN  /\ bank_ram' = ram
      /\ bankram_rdata' = [b \in Bank |-> [p \in RamPort |->
           IF p \in rd[b] THEN ram[b][adr[b][p]] ELSE bankram_rdata[b][p]]]

-----------------------------------------------------------------------------
(* To the bus interface.                                                   *)

\* The operation of the port that has the bus interface.
Requester(gi) ==
  LET p == CHOOSE n \in gi : TRUE
      idle == [op |-> "nothing", nolinelock |-> FALSE, bsel |-> {}, adr |-> 0,
               data |-> [b \in Bank |-> bankram_rdata[b][RAMPORT_BUSIF]]]
  IN  IF gi = {} THEN idle
      ELSE IF p < RPORTS
      THEN [idle EXCEPT !.op = RpBusIfOp(p), !.adr = rp_adr[p], !.bsel = Lane]
      ELSE LET w == p - RPORTS
           IN  [op |-> WpBusIfOp(w), nolinelock |-> TRUE,
                bsel |-> wp_in[w].bsel, adr |-> wp_in[w].adr,
                data |-> [b \in Bank |-> wp_in[w].data]]

BusIfInputs(gb, gl, tagr, tagw, gi) ==
  LET req == Requester(gi)
  IN  [op |-> req.op, nolinelock |-> req.nolinelock, bsel |-> req.bsel,
       adr |-> req.adr, data |-> req.data,
       bank_data |-> [b \in Bank |-> bankram_rdata[b][RAMPORT_BUSIF]],
       tag |-> tag_out[CPU_CORES - 1],
       gnt_linelock |-> LOCK_BUSIF \in gl, gnt_tagr |-> IDX_BUSIF \in tagr,
       gnt_tagw |-> LOCK_BUSIF \in tagw,
       gnt_bank |-> {b \in Bank : IDX_BUSIF \in gb[b]},
       ack |-> wb_ack_i, dat |-> IF wb_stb_o THEN mem[wb_adr_o] ELSE AnyWord]

\* External memory: a write takes effect with its acknowledgement, which may
\* come in any cycle of a strobe.
MemoryEdge ==
  /\ mem' = IF wb_we_o /\ wb_ack_i
            THEN [mem EXCEPT ![wb_adr_o] = CombineData(wb_sel_o, @, wb_dat_o)]
            ELSE mem
  /\ \/ wb_ack_i' = FALSE
     \/ wb_stb_o' /\ wb_ack_i' = TRUE

-----------------------------------------------------------------------------
(* To the ports.                                                           *)

WpGrants(gb, gl, tagr, tagw, gi) == [w \in WP |->
  [linelock |-> w \in gl, tagr |-> IDX_WP(w) \in tagr, tagw |-> w \in tagw,
   bank |-> w \in WpBanks(gb), busif |-> IDX_WP(w) \in gi, busy |-> busif_busy]]

wp_bank_data_in == [w \in WP |->
  bankram_rdata[GetBankOfAdr(wp_in[w].adr)][RAMPORT(w)]]

rp_data(p) == RpData(p, bankram_rdata[rp_bank_sel[p]][RAMPORT(p)],
                     rp_busif_data_reg)

SnoopAdr(gl) == IF SnoopWriters(gl) = {} THEN DontCare
                ELSE wp_in[SnoopSource(gl)].adr

-----------------------------------------------------------------------------
(* The CPUs.                                                               *)

NoWrite == [op |-> "none", adr |-> 0, data |-> AnyWord, bsel |-> Lane]

\* What can be asked of a write port.  The selected bytes are equal; lines that
\* do not matter, such as the bytes that are not selected, keep a fixed value.
WriteRequest ==
  {NoWrite}
    \cup {[op |-> op, adr |-> wr[1], bsel |-> bsel,
            data |-> [l \in Lane |-> IF l \in bsel THEN wr[2] ELSE AnyWord[l]]] :
             op \in workload.ops \cap {"write"}, wr \in workload.writes,
             bsel \in workload.bytesels}
    \cup {[op |-> "sc", adr |-> wr[1], bsel |-> Lane,
            data |-> [l \in Lane |-> wr[2]]] :
             wr \in {x \in workload.writes : "sc" \in workload.ops
                                              /\ x[1] \notin DirectAdr}}
    \cup {[op |-> op, adr |-> a, data |-> AnyWord, bsel |-> Lane] :
            op \in workload.ops \ {"write", "sc"},
            a \in workload.writeAdr \ DirectAdr}

\* A request is held until it is acknowledged; a load linked takes one clock.
CpuEdge(racks, wacks) ==
  /\ \E new \in SUBSET (workload.readPorts \ (rp_rd \ racks)) :
     \E a \in [new -> workload.readAdr] :
       /\ rp_rd' = (rp_rd \ racks) \cup new
       /\ rp_adr' = [p \in RP |-> IF p \in new THEN a[p]
                                  ELSE IF p \in rp_rd \ racks THEN rp_adr[p]
                                  ELSE 0]
  /\ rp_done' = racks
  /\ LET free == {w \in workload.writePorts : wp_in[w].op \in {"none", "ll"}}
                   \cup wacks
     IN  \E new \in [free -> WriteRequest] :
           wp_in' = [w \in WP |-> IF w \in free THEN new[w] ELSE wp_in[w]]
  /\ UNCHANGED workload

-----------------------------------------------------------------------------
Init ==
  /\ TagRamInit /\ BusIfInit /\ ReadPortInit /\ WritePortInit
  /\ counter_reg = CPU_CORES * PRIO_CLOCKS - 1
  /\ linelock_reg = {} /\ tagr_reg = {} /\ tagw_reg = {} /\ busif_reg = {}
  /\ bank_reg = [b \in Bank |-> {}]
  /\ bank_ram = [b \in Bank |-> [wi \in WayIndex |-> AnyWord]]
  /\ bankram_rdata = [b \in Bank |-> [p \in RamPort |-> AnyWord]]
  /\ rp_busif_data_reg = AnyWord
  /\ mem = [a \in MemAdr |-> AnyWord] /\ wb_ack_i = FALSE
  /\ rp_rd = {} /\ rp_adr = [p \in RP |-> 0] /\ rp_done = {}
  /\ wp_in = [w \in WP |-> NoWrite]
  /\ workload \in Workloads

Tick == counter_reg' = (counter_reg + 1) % (CPU_CORES * PRIO_CLOCKS)

ArbiterEdge(gb, gl, tagr, tagw, gi) ==
  /\ Tick
  /\ linelock_reg' = gl
  /\ tagr_reg' = tagr
  /\ tagw_reg' = tagw
  /\ bank_reg' = gb
  /\ busif_reg' = gi

\* One clock edge.
Next ==
  LET gb   == gnt_bank
      gl   == gnt_linelock(gb)
      tagr == gnt_tagr
      tagw == gnt_tagw(tagr)
      gi   == gnt_busif
  IN  /\ ArbiterEdge(gb, gl, tagr, tagw, gi)
      /\ TagRamEdge(tagram_rd, tagram_wr(tagw), tagram_adr(tagr, tagw),
                    tagram_tag_in(tagw))
      /\ BankEdge(gb)
      /\ BusIfEdge(BusIfInputs(gb, gl, tagr, tagw, gi))
      /\ ReadPortEdge(busif_hit, tag_out, tagr, RpBanks(gb), gi, busif_busy)
      /\ WritePortEdge(tag_out, WpGrants(gb, gl, tagr, tagw, gi),
                       wp_bank_data_in, SnoopStrobe(gl), SnoopAdr(gl))
      /\ rp_busif_data_reg' = idata_reg[GetBankOfAdr(busif_adr_out)]
      /\ MemoryEdge
      /\ CpuEdge(rp_ack(gb), wp_ack(gb))

Spec == Init /\ [][Next]_vars

\* The clock ticks, and external memory answers every strobe in the end.
LiveSpec == Spec /\ WF_counter_reg(Tick) /\ []<>(wb_stb_o => wb_ack_i)

-----------------------------------------------------------------------------
\* Registers, RAMs and lines have the widths of their declarations in memu.h.
TypeOK ==
  /\ tagram_ready \in BOOLEAN /\ tag_busy \in BOOLEAN
  /\ tag_ram \in [Index -> [way : [Way -> [valid : BOOLEAN, dirty : BOOLEAN,
                                          tadr : TagAdr]],
                             use : 0 .. 63]]
  /\ use_reg \in [CPU -> [wr : BOOLEAN, iadr : Index, use : 0 .. 63]]
  /\ tag_out \in [CPU -> Tag]
  /\ bi_state \in BusIfState /\ bi_op \in BusIfOp
  /\ nolinelock_reg \in BOOLEAN /\ bsel_reg \subseteq Lane
  /\ adr_reg \in MemAdr \cup {0} /\ bi_tag_reg \in Tag
  /\ idata_reg \in [Bank -> Word] /\ idata_valid_reg \subseteq Bank
  /\ odata_reg \in [Bank -> Word] /\ write_victim \in BOOLEAN
  /\ bi_req_bank \subseteq Bank /\ banksLeft \subseteq Bank
  /\ bi_count \in 0 .. CACHE_BANKS
  /\ rp_state \in [RP -> ReadPortState] /\ rp_bank_sel \in [RP -> Bank]
  /\ rp_rd \subseteq workload.readPorts
  /\ rp_adr \in [RP -> workload.readAdr \cup {0}]
  /\ wp_state \in [WP -> WritePortState] /\ wp_tag_reg \in [WP -> Tag]
  /\ data_reg \in [WP -> Word] /\ link_valid_reg \in [WP -> BOOLEAN]
  /\ link_adr_reg \in [WP -> workload.writeAdr \cup {0}]
  /\ \A w \in WP : wp_in[w] \in WriteRequest
  /\ counter_reg \in 0 .. CPU_CORES * PRIO_CLOCKS - 1
  /\ linelock_reg \subseteq Locker /\ tagw_reg \subseteq Locker
  /\ tagr_reg \subseteq Port /\ busif_reg \subseteq Port
  /\ bank_reg \in [Bank -> SUBSET Port]
  /\ bank_ram \in [Bank -> [WayIndex -> Word]]
  /\ bankram_rdata \in [Bank -> [RamPort -> Word]]
  /\ rp_busif_data_reg \in Word /\ rp_done \subseteq workload.readPorts
  /\ mem \in [MemAdr -> Word] /\ wb_ack_i \in BOOLEAN

=============================================================================
