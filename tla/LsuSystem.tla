----------------------------- MODULE LsuSystem ------------------------------
(***************************************************************************)
(* A load & store unit between the execution unit of its CPU and memory,   *)
(* which other CPUs write, too.                                            *)
(*                                                                         *)
(* A step is a clock edge.  The EXU makes its requests as LsuClient says;  *)
(* in the clock without a request it reads the data of a load.  Memory is  *)
(* what SharedMemory promises: a store takes effect at one moment between  *)
(* its request and its acknowledgement, a load returns what memory holds   *)
(* when it is acknowledged, one clock later.                               *)
(***************************************************************************)
EXTENDS MLsu

CONSTANT
  Workloads         \* what is asked for: operations of the EXU, addresses, widths,
                    \* offsets and bytes, and words the other CPUs write

ASSUME SystemAssumption ==
  \A w \in Workloads :
    /\ w.ops \subseteq {"rd", "wr", "flush", "writeback", "invalidate",
                        "writeback_invalidate"}
    /\ w.adr \subseteq Adr /\ w.others \subseteq Adr
    /\ w.width \subseteq 0 .. 2 /\ w.offset \subseteq 0 .. 3
    /\ w.bytes \subseteq Byte

VARIABLES
  workload,       \* what is asked for in this behaviour
  mem,            \* memory
  wp_performed,   \* the store of the write port has taken effect
  flushed,        \* the EXU has just flushed the LSU
  loaded,         \* the data of a load arrives in this cycle
  image,          \* history: memory as the stores of the EXU would leave it
  owed            \* history: bytes stored by the EXU and not yet in memory

lsuVars    == <<wbuf, wbuf_dirty0>>
lineVars   == <<exu, rp_ack, rp_data, wp_ack>>
vars       == <<lsuVars, lineVars, workload, mem, wp_performed, flushed, loaded,
                image, owed>>

AnyWord   == CHOOSE w \in Word : TRUE
NoRequest == [exu EXCEPT !.op = "none"]
Bytes(adr, lanes) == {adr} \X lanes

-----------------------------------------------------------------------------
(* The EXU.                                                                *)

\* A request with an alignment error leaves OutputMethod with stale outputs;
\* the EXU, which does not look at align_err, makes none here.
Access == {a \in workload.width \X workload.offset : ~AlignErr(a[1], a[2])}

CacheOps == workload.ops \ {"rd", "wr", "flush"}

Requests ==
  {NoRequest}
    \cup {[exu EXCEPT !.op = op] : op \in CacheOps}
    \cup {[op |-> op, adr |-> a, width |-> x[1], ofs |-> x[2], wdata |-> AnyWord] :
            op \in workload.ops \cap {"rd", "flush"}, a \in workload.adr,
            x \in Access}
    \cup {[op |-> op, adr |-> a, width |-> x[1], ofs |-> x[2],
           wdata |-> [l \in Lane |-> b]] :
            op \in workload.ops \cap {"wr"}, a \in workload.adr,
            x \in Access, b \in workload.bytes}

\* MExu is shown to make its requests like this.
Client == INSTANCE LsuClient WITH op <- exu.op, adr <- exu.adr

ExuEdge ==
  /\ exu' \in IF exu.op = "none" THEN Requests ELSE {exu, NoRequest}
  /\ Client!Edge
  /\ loaded' = (exu.op = "rd" /\ ack)
  /\ UNCHANGED workload

-----------------------------------------------------------------------------
(* Memory and the other CPUs.                                              *)

\* The store of the write port takes effect at this edge.
Performs == wp_wr /\ ~wp_performed /\ (wp_ack \/ wp_performed')

\* It does so at the latest when it is acknowledged.  A read port shows no
\* particular word unless the data of a load is due.
MemoryEdge ==
  /\ wp_performed' \in IF wp_wr /\ ~wp_ack THEN {wp_performed, TRUE} ELSE {FALSE}
  /\ IF Performs THEN mem' = [mem EXCEPT ![wp_adr] = Over(wp_bytes, @)]
     ELSE \/ mem' = mem
          \/ \E a \in workload.others, l \in Lane, b \in Byte :
               mem' = [mem EXCEPT ![a][l] = b]
  /\ rp_data' = IF rp_ack THEN mem'[exu.adr] ELSE AnyWord

Lines ==
  /\ wp_ack' \in {FALSE, wp_wr' \/ wp_special'}
  /\ rp_ack' \in {FALSE, rp_rd'}

HistoryEdge ==
  LET stored == IF exu.op = "wr" /\ ack THEN Bytes(exu.adr, bsel) ELSE {}
  IN  /\ image' = IF stored = {} THEN image
                  ELSE [image EXCEPT ![exu.adr] =
                          Over(Restrict(exu.wdata, bsel), @)]
      /\ owed' = (owed \ (IF Performs THEN Bytes(wp_adr, DOMAIN wp_bytes)
                          ELSE {})) \cup stored

-----------------------------------------------------------------------------
Init ==
  /\ LsuInit
  /\ workload \in Workloads
  /\ exu = [op |-> "none", adr |-> CHOOSE a \in Adr : TRUE, width |-> 0,
            ofs |-> 0, wdata |-> AnyWord]
  /\ rp_ack = FALSE /\ rp_data = AnyWord /\ wp_ack = FALSE
  /\ mem = [a \in Adr |-> AnyWord] /\ wp_performed = FALSE
  /\ flushed = FALSE /\ loaded = FALSE
  /\ image = mem /\ owed = {}

Next == LsuEdge /\ ExuEdge /\ MemoryEdge /\ HistoryEdge /\ Lines

Spec == Init /\ [][Next]_vars

\* The clock ticks (in every state the EXU or memory can do something that is
\* not a stutter, so this is WF_vars(Next)), and memory answers every request in
\* the end.
LiveSpec == /\ Spec /\ []<><<TRUE>>_vars
            /\ []<>(wp_wr => wp_ack) /\ []<>(rp_rd => rp_ack)

-----------------------------------------------------------------------------
(* Properties.                                                             *)

\* Registers and lines are what lsu.h declares.
TypeOK ==
  /\ \A n \in Slot : /\ wbuf[n].adr \in Adr
                     /\ Valid(n) \subseteq Lane
                     /\ wbuf[n].bytes \in [Valid(n) -> Byte]
  /\ wbuf_dirty0 \in BOOLEAN
  /\ exu.op \in workload.ops \cup {"none"} /\ exu.adr \in Adr /\ exu.wdata \in Word
  /\ rp_ack \in BOOLEAN /\ rp_data \in Word /\ wp_ack \in BOOLEAN
  /\ mem \in [Adr -> Word] /\ image \in [Adr -> Word]
  /\ wp_performed \in BOOLEAN /\ flushed \in BOOLEAN /\ loaded \in BOOLEAN
  /\ owed \subseteq Adr \X Lane

\* "Forwarding capabilities to the respective read port" (lsu.h): in the cycle
\* in which the EXU takes the data of a load, every byte is the one it stored
\* last, wherever it is by then: in the buffer, in memory or on its way.
LoadsSeeStores ==
  loaded /\ exu.adr \notin workload.others =>
    \A l \in bsel : rdata[l] = image[exu.adr][l]

\* FindWbufHit takes the first entry that matches: there is only one.
OneEntryPerWord ==
  \A m, n \in Slot :
    Valid(m) # {} /\ Valid(n) # {} /\ wbuf[m].adr = wbuf[n].adr => m = n

\* A flush is acknowledged when all stores are in memory.
FlushWrites == exu.op = "flush" /\ ack => owed = {}

\* "All input ports must be held until 'port_ack' is asserted" (memu.h): the
\* buffer moves up, merges and takes in stores only behind the back of the
\* write port.  (For a CPU without cache operations: the buffer acknowledges
\* one at once, and the flush before the next one withdraws its request.)
WritePortHeld ==
  [][CacheOps = {} /\ wp_wr /\ ~wp_ack =>
       wp_wr' /\ wp_adr' = wp_adr /\ wp_bytes' = wp_bytes]_vars

\* I/O stores are not merged and not overtaken: one is taken in only when all
\* earlier stores are in memory, and no later store passes it.
SpecialInOrder ==
  [][/\ exu.op = "wr" /\ ack /\ exu.adr \in SpecialAdr =>
          owed' = Bytes(exu.adr, bsel)
     /\ Performs /\ owed \cap (SpecialAdr \X Lane) # {} =>
          wp_adr \in SpecialAdr]_vars

\* Every request of the EXU is acknowledged in the end.
RequestsAcked == exu.op # "none" ~> exu.op = "none"

\* The stores of a CPU that stops storing reach memory, whatever it loads.
StoresDrain == <>[](exu.op # "wr") => []<>(owed = {})

=============================================================================
