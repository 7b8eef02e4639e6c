----------------------------- MODULE LsuProofs ------------------------------
(***************************************************************************)
(* Proofs about the load & store unit, for write buffers of every size:    *)
(* there is one entry for a word, and a store that is being written is     *)
(* held until memory has it.                                               *)
(***************************************************************************)
EXTENDS LsuSystem, WellFoundedInduction, TLAPS

(***************************************************************************)
(* The inductive invariant.                                                *)

Operations == {"none", "rd", "wr", "flush", "writeback", "invalidate", "writeback_invalidate"}

ExuOK ==
  /\ exu \in [op : Operations, adr : Adr, width : 0..2, ofs : 0..3, wdata : Word]
  /\ exu.op \in workload.ops \cup {"none"}
  /\ workload \in Workloads

BufferOK == wbuf = [n \in Slot |-> wbuf[n]]

\* The entries in use come first.
Compact == \A m, n \in Slot : m < n /\ Valid(n) # {} => Valid(m) # {}

\* Bytes that memory does not have yet are in the buffer, and entry 0 has some
\* only as long as it is being written.
OwedInBuffer ==
  \A x \in owed :
    \E n \in Slot : /\ x \in Bytes(wbuf[n].adr, Valid(n))
                    /\ n = 0 => wbuf_dirty0 /\ ~wp_performed

IInv == ExuOK /\ BufferOK /\ Compact /\ OneEntryPerWord /\ OwedInBuffer

-----------------------------------------------------------------------------
(* The search for an entry.                                                *)

\* A non-empty set of natural numbers has a least element.
LEMMA LeastNatural ==
  ASSUME NEW T, T \subseteq Nat, T # {}
  PROVE  \E x \in T : \A y \in T : x <= y
  <1>1. IsWellFoundedOn(OpToRel(<, Nat), Nat)
    BY NatLessThanWellFounded
  <1>2. PICK x \in T : \A y \in T : ~(<<y, x>> \in OpToRel(<, Nat))
    BY <1>1, WFMin
  <1>3. \A y \in T : ~(y < x)
    BY <1>2 DEF OpToRel
  <1> QED
    BY <1>3

\* The loops of FindWbufHit and FindEmptyWbufEntry.
LEMMA LowestFound ==
  ASSUME NEW S, S \subseteq Slot
  PROVE  \/ S = {} /\ Lowest(S) = None
         \/ Lowest(S) \in S /\ \A m \in S : Lowest(S) <= m
  <1>1. S \subseteq Nat
    BY LsuAssumption DEF Slot
  <1>2. CASE S # {}
    <2>1. \E x \in S : \A m \in S : x <= m
      BY <1>1, <1>2, LeastNatural
    <2> QED
      BY <1>2, <2>1, Zenon DEF Lowest
  <1> QED
    BY <1>2 DEF Lowest

\* FindWbufHit.
LEMMA HitFound ==
  \/ WbufHit = None /\ \A n \in Slot : wbuf[n].adr = exu.adr => Valid(n) = {}
  \/ WbufHit \in Slot /\ wbuf[WbufHit].adr = exu.adr /\ Valid(WbufHit) # {}
  <1> DEFINE S == {n \in Slot : wbuf[n].adr = exu.adr /\ Valid(n) # {}}
  <1>1. S \subseteq Slot /\ WbufHit = Lowest(S)
    BY DEF WbufHit
  <1>2. \/ S = {} /\ Lowest(S) = None
        \/ Lowest(S) \in S
    BY <1>1, LowestFound
  <1> QED
    BY <1>1, <1>2

\* FindEmptyWbufEntry.
LEMMA EmptyFound ==
  \/ WbufEmpty = None /\ \A n \in Slot : Valid(n) # {}
  \/ /\ WbufEmpty \in Slot /\ Valid(WbufEmpty) = {}
     /\ \A n \in Slot : Valid(n) = {} => WbufEmpty <= n
  <1> DEFINE S == {n \in Slot : Valid(n) = {}}
  <1>1. S \subseteq Slot /\ WbufEmpty = Lowest(S)
    BY DEF WbufEmpty
  <1>2. \/ S = {} /\ Lowest(S) = None
        \/ Lowest(S) \in S /\ \A m \in S : Lowest(S) <= m
    BY <1>1, LowestFound
  <1> QED
    BY <1>1, <1>2

-----------------------------------------------------------------------------
(* What a clock edge does to the buffer.                                   *)

\* The buffer after the removal of entry 0, before a store is taken in.
kept == IF sig_wbuf_remove THEN MovedUp ELSE wbuf
ValidKept(n) == DOMAIN kept[n].bytes

LEMMA SlotFacts ==
  /\ 0 \in Slot /\ 1 \in Slot /\ Slot \subseteq Nat /\ None \notin Slot
  /\ \A n \in Slot : n # MAX_WBUF_SIZE - 1 => n + 1 \in Slot
  /\ MAX_WBUF_SIZE \in Nat /\ MAX_WBUF_SIZE > 1
  /\ \A n : n \in Slot <=> n \in Nat /\ n < MAX_WBUF_SIZE
  BY LsuAssumption DEF Slot, None

\* A store selects some byte.
LEMMA StoreSelects ==
  ASSUME ExuOK, exu.op = "wr"
  PROVE  bsel # {}
  <1>1. exu.width \in 0..2 /\ exu.ofs \in 0..3
    BY DEF ExuOK
  <1>2. ~CacheOp
    BY DEF CacheOp
  <1>3. CASE exu.width = 0
    BY <1>2, <1>3 DEF bsel, Bsel, Lane
  <1>4. CASE exu.width = 1
    BY <1>2, <1>4 DEF bsel, Bsel
  <1>5. CASE exu.width = 2
    <2>1. exu.ofs \in Bsel(2, exu.ofs)
      BY <1>1 DEF Bsel, Lane
    <2> QED
      BY <1>2, <1>5, <2>1 DEF bsel
  <1> QED
    BY <1>1, <1>3, <1>4, <1>5

\* An entry of kept is an entry of the buffer, or empty.
LEMMA KeptIs ==
  ASSUME BufferOK
  PROVE  /\ kept = [n \in Slot |-> kept[n]]
         /\ ~sig_wbuf_remove => kept = wbuf
         /\ sig_wbuf_remove =>
              /\ \A n \in Slot : n # MAX_WBUF_SIZE - 1 => kept[n] = wbuf[n + 1]
              /\ ValidKept(MAX_WBUF_SIZE - 1) = {}
  <1>1. CASE ~sig_wbuf_remove
    BY <1>1 DEF kept, BufferOK
  <1>2. CASE sig_wbuf_remove
    <2>1. kept = MovedUp
      BY <1>2 DEF kept
    <2>2. kept = [n \in Slot |-> kept[n]]
      BY <2>1 DEF MovedUp
    <2>3. \A n \in Slot : n # MAX_WBUF_SIZE - 1 => kept[n] = wbuf[n + 1]
      BY <2>1 DEF MovedUp
    <2>4. MAX_WBUF_SIZE - 1 \in Slot
      BY SlotFacts
    <2>5. kept[MAX_WBUF_SIZE - 1] = EmptyEntry(wbuf[MAX_WBUF_SIZE - 1].adr)
      BY <2>1, <2>4 DEF MovedUp
    <2>6. ValidKept(MAX_WBUF_SIZE - 1) = {}
      BY <2>5 DEF ValidKept, EmptyEntry
    <2> QED
      BY <1>2, <2>2, <2>3, <2>6
  <1> QED
    BY <1>1, <1>2

\* Moving up keeps the order and the words of the entries.
LEMMA KeptCompact ==
  ASSUME BufferOK, Compact, OneEntryPerWord
  PROVE  /\ \A m, n \in Slot : m < n /\ ValidKept(n) # {} => ValidKept(m) # {}
         /\ \A m, n \in Slot : /\ ValidKept(m) # {} /\ ValidKept(n) # {}
                               /\ kept[m].adr = kept[n].adr
                               => m = n
  <1>1. CASE ~sig_wbuf_remove
    BY <1>1, KeptIs DEF Compact, OneEntryPerWord, ValidKept, Valid
  <1>2. CASE sig_wbuf_remove
    <2>1. ASSUME NEW n \in Slot, ValidKept(n) # {}
          PROVE  n + 1 \in Slot /\ kept[n] = wbuf[n + 1] /\ Valid(n + 1) # {}
      BY <1>2, <2>1, KeptIs, SlotFacts DEF ValidKept, Valid
    <2>2. ASSUME NEW m \in Slot, NEW n \in Slot, m < n, ValidKept(n) # {}
          PROVE  ValidKept(m) # {}
      <3>1. m + 1 \in Slot /\ n + 1 \in Slot /\ m + 1 < n + 1
        BY <2>1, <2>2, SlotFacts
      <3>2. Valid(m + 1) # {}
        BY <2>1, <2>2, <3>1 DEF Compact
      <3>3. kept[m] = wbuf[m + 1]
        BY <1>2, <3>1, KeptIs, SlotFacts
      <3> QED
        BY <3>2, <3>3 DEF ValidKept, Valid
    <2>3. ASSUME NEW m \in Slot, NEW n \in Slot, ValidKept(m) # {}, ValidKept(n) # {},
                 kept[m].adr = kept[n].adr
          PROVE  m = n
      <3>1. m + 1 = n + 1
        BY <2>1, <2>3 DEF OneEntryPerWord
      <3> QED
        BY <3>1, SlotFacts
    <2> QED
      BY <2>2, <2>3
  <1> QED
    BY <1>1, <1>2

\* Only a store and a cache operation write to the buffer; a cache operation
\* finds it empty and leaves it empty.
LEMMA WriteOf ==
  ASSUME sig_wbuf_write
  PROVE  /\ sig_wbuf_entry_new \in Slot
         /\ \/ exu.op = "wr" /\ sig_wbuf_entry = WriteEntry
            \/ /\ CacheOp /\ IsFlushed /\ sig_wbuf_entry = 0 /\ sig_wbuf_entry_new = 0
               /\ ~sig_wbuf_remove
  <1>1. sig_wbuf_entry_new \in Slot
    BY DEF sig_wbuf_write
  <1>2. CASE exu.op = "wr"
    BY <1>1, <1>2 DEF sig_wbuf_entry, CacheOp
  <1>3. CASE CacheOp
    <2>1. exu.op # "wr"
      BY <1>3 DEF CacheOp
    <2>2. sig_wbuf_entry = IF IsFlushed THEN 0 ELSE None
      BY <1>3, <2>1 DEF sig_wbuf_entry
    <2>3. CASE IsFlushed
      BY <1>1, <1>3, <2>2, <2>3 DEF sig_wbuf_remove, sig_wbuf_entry_new
    <2>4. CASE ~IsFlushed
      BY <1>1, <2>2, <2>4, SlotFacts DEF sig_wbuf_entry_new, None
    <2> QED
      BY <2>3, <2>4
  <1>4. CASE exu.op # "wr" /\ ~CacheOp
    <2>1. sig_wbuf_entry = None
      BY <1>4 DEF sig_wbuf_entry
    <2> QED
      BY <1>1, <2>1, SlotFacts DEF sig_wbuf_entry_new, None
  <1> QED
    BY <1>2, <1>3, <1>4

\* Where a store goes: to the entry of its word, or behind the entries in use
\* if there is none; an I/O store to an empty buffer.
LEMMA StorePlaced ==
  ASSUME BufferOK, Compact, OneEntryPerWord, sig_wbuf_write, exu.op = "wr"
  PROVE  LET e == sig_wbuf_entry_new
         IN  /\ \/ ValidKept(e) = {} /\ DOMAIN OldBytes = {}
                \/ /\ kept[e].adr = exu.adr /\ OldBytes = kept[e].bytes
                   /\ ValidKept(e) # {}
             /\ \A n \in Slot : n < e => ValidKept(n) # {}
             /\ \A n \in Slot : n # e /\ ValidKept(n) # {} => kept[n].adr # exu.adr
             /\ exu.adr \in SpecialAdr => e = 0 /\ \A n \in Slot : ValidKept(n) = {}
  <1> DEFINE w == sig_wbuf_entry
             e == sig_wbuf_entry_new
  <1>1. e \in Slot /\ w = WriteEntry
    BY WriteOf DEF CacheOp
  <1>2. e = IF sig_wbuf_remove THEN w - 1 ELSE w
    BY DEF sig_wbuf_entry_new
  <1>3. sig_wbuf_remove => w # 0
    BY DEF sig_wbuf_remove
  <1>4. exu.adr \in SpecialAdr => e = 0
    BY DEF sig_wbuf_write
  <1> HIDE DEF w, e
  <1>5. CASE WbufHit # None /\ exu.adr \notin SpecialAdr
    <2>1. w = WbufHit /\ w \in Slot /\ wbuf[w].adr = exu.adr /\ Valid(w) # {}
      BY <1>1, <1>5, HitFound DEF WriteEntry
    <2>2. kept[e] = wbuf[w]
      BY <1>1, <1>2, <1>3, <2>1, KeptIs, SlotFacts
    <2>3. kept[e].adr = exu.adr /\ OldBytes = kept[e].bytes /\ ValidKept(e) # {}
      BY <2>1, <2>2 DEF OldBytes, ValidKept, Valid, w
    <2>4. \A n \in Slot : n < e => ValidKept(n) # {}
      BY <1>1, <2>3, KeptCompact
    <2>5. \A n \in Slot : n # e /\ ValidKept(n) # {} => kept[n].adr # exu.adr
      BY <1>1, <2>3, KeptCompact
    <2> QED
      BY <1>5, <2>3, <2>4, <2>5 DEF e
  <1>6. CASE ~(WbufHit # None /\ exu.adr \notin SpecialAdr)
    <2>1. w = IF WbufEmpty # None THEN WbufEmpty ELSE MAX_WBUF_SIZE
      BY <1>1, <1>6 DEF WriteEntry
    <2>2. /\ w \in Nat
          /\ \A n \in Slot : n < w => Valid(n) # {}
          /\ \A n \in Slot : n >= w => Valid(n) = {}
      <3>1. CASE WbufEmpty = None
        BY <2>1, <3>1, EmptyFound, SlotFacts
      <3>2. CASE WbufEmpty # None
        <4>1. w \in Slot /\ Valid(w) = {} /\ \A n \in Slot : Valid(n) = {} => w <= n
          BY <2>1, <3>2, EmptyFound
        <4>2. \A n \in Slot : n < w => Valid(n) # {}
          BY <4>1, SlotFacts
        <4>3. \A n \in Slot : n > w => Valid(n) = {}
          BY <4>1 DEF Compact
        <4> QED
          BY <4>1, <4>2, <4>3, SlotFacts
      <3> QED
        BY <3>1, <3>2
    <2>3. ASSUME NEW n \in Slot
          PROVE  n < e <=> ValidKept(n) # {}
      <3>1. CASE ~sig_wbuf_remove
        BY <1>2, <2>2, <3>1, KeptIs, SlotFacts DEF ValidKept, Valid
      <3>2. CASE sig_wbuf_remove /\ n # MAX_WBUF_SIZE - 1
        <4>1. n + 1 \in Slot /\ ValidKept(n) = Valid(n + 1)
          BY <3>2, KeptIs, SlotFacts DEF ValidKept, Valid
        <4>2. n < e <=> n + 1 < w
          BY <1>2, <2>2, <3>2, SlotFacts
        <4> QED
          BY <2>2, <4>1, <4>2, SlotFacts
      <3>3. CASE sig_wbuf_remove /\ n = MAX_WBUF_SIZE - 1
        <4>1. ValidKept(n) = {}
          BY <3>3, KeptIs
        <4>2. ~(n < e)
          BY <1>1, <3>3, SlotFacts
        <4> QED
          BY <4>1, <4>2
      <3> QED
        BY <3>1, <3>2, <3>3
    <2>4. ValidKept(e) = {}
      BY <1>1, <2>3, SlotFacts
    <2>6. DOMAIN OldBytes = {}
      BY <2>2, SlotFacts DEF OldBytes, Valid, w
    <2>7. exu.adr \in SpecialAdr => e = 0 /\ \A n \in Slot : ValidKept(n) = {}
      BY <1>4, <2>3, SlotFacts
    <2>5. ASSUME NEW n \in Slot, n # e, ValidKept(n) # {}
          PROVE  kept[n].adr # exu.adr
      <3>1. exu.adr \notin SpecialAdr
        BY <1>4, <2>3, <2>5, SlotFacts
      <3>2. \A k \in Slot : wbuf[k].adr = exu.adr => Valid(k) = {}
        BY <1>6, <3>1, HitFound, SlotFacts
      <3>3. CASE ~sig_wbuf_remove
        BY <2>5, <3>2, <3>3, KeptIs DEF ValidKept, Valid
      <3>4. CASE sig_wbuf_remove
        <4>1. n + 1 \in Slot /\ kept[n] = wbuf[n + 1]
          BY <2>5, <3>4, KeptIs, SlotFacts
        <4> QED
          BY <2>5, <3>2, <4>1 DEF ValidKept, Valid
      <3> QED
        BY <3>3, <3>4
    <2> QED
      BY <2>3, <2>4, <2>5, <2>6, <2>7 DEF e
  <1> QED
    BY <1>5, <1>6

\* The buffer after an edge.  Nothing that kept holds is lost, and a store is
\* there with all its bytes.
LEMMA EdgeBuffer ==
  ASSUME BufferOK, Compact, OneEntryPerWord, LsuEdge
  PROVE  LET e == sig_wbuf_entry_new
         IN  /\ ~sig_wbuf_write => wbuf' = kept
             /\ sig_wbuf_write =>
                  /\ e \in Slot
                  /\ wbuf' = [kept EXCEPT ![e] = NewEntry]
                  /\ wbuf'[e] = NewEntry
                  /\ \A n \in Slot : n # e => wbuf'[n] = kept[n]
             /\ BufferOK'
  <1>1. wbuf' = IF sig_wbuf_write THEN [kept EXCEPT ![sig_wbuf_entry_new] = NewEntry]
                ELSE kept
    BY DEF LsuEdge, kept
  <1>2. sig_wbuf_write => sig_wbuf_entry_new \in Slot
    BY DEF sig_wbuf_write
  <1>3. kept = [n \in Slot |-> kept[n]]
    BY KeptIs
  <1>4. BufferOK'
    BY <1>1, <1>3 DEF BufferOK, Slot
  <1> QED
    BY <1>1, <1>2, <1>3, <1>4

\* The bytes of the entry a store or a cache operation leaves.
LEMMA NewBytes ==
  /\ NewEntry.adr = exu.adr
  /\ DOMAIN NewEntry.bytes = bsel \cup DOMAIN OldBytes
  <1>1. DOMAIN Restrict(exu.wdata, bsel) = bsel
    BY DEF Restrict
  <1> QED
    BY <1>1 DEF NewEntry, Over

-----------------------------------------------------------------------------
(* The invariant is inductive.                                             *)

LEMMA AnyWordOK == AnyWord \in Word
  <1>1. PICK b : b \in Byte
    BY LsuAssumption
  <1>2. [l \in Lane |-> b] \in Word
    BY <1>1 DEF Word
  <1> QED
    BY <1>2, Zenon DEF AnyWord

\* Every request is one of the EXU.
LEMMA RequestsOK ==
  ASSUME ExuOK, NEW r \in Requests
  PROVE  /\ r \in [op : Operations, adr : Adr, width : 0..2, ofs : 0..3, wdata : Word]
         /\ r.op \in workload.ops \cup {"none"}
  <1>1. /\ workload.ops \subseteq {"rd", "wr", "flush", "writeback", "invalidate",
                                   "writeback_invalidate"}
        /\ workload.adr \subseteq Adr /\ workload.width \subseteq 0..2
        /\ workload.offset \subseteq 0..3 /\ workload.bytes \subseteq Byte
    BY SystemAssumption DEF ExuOK
  <1>2. CASE r = NoRequest
    BY <1>2 DEF NoRequest, ExuOK, Operations
  <1>3. ASSUME NEW op \in CacheOps, r = [exu EXCEPT !.op = op]
        PROVE  /\ r \in [op : Operations, adr : Adr, width : 0..2, ofs : 0..3, wdata : Word]
               /\ r.op \in workload.ops \cup {"none"}
    BY <1>1, <1>3 DEF ExuOK, Operations, CacheOps
  <1>4. ASSUME NEW op \in workload.ops, NEW a \in workload.adr, NEW x \in Access,
               NEW word \in Word,
               r = [op |-> op, adr |-> a, width |-> x[1], ofs |-> x[2], wdata |-> word]
        PROVE  /\ r \in [op : Operations, adr : Adr, width : 0..2, ofs : 0..3, wdata : Word]
               /\ r.op \in workload.ops \cup {"none"}
    <2>1. x[1] \in 0..2 /\ x[2] \in 0..3
      BY <1>1 DEF Access
    <2> QED
      BY <1>1, <1>4, <2>1 DEF Operations
  <1>5. \A b \in workload.bytes : [l \in Lane |-> b] \in Word
    BY <1>1 DEF Word
  <1> QED
    <2>1. CASE r \in {[exu EXCEPT !.op = op] : op \in CacheOps}
      BY <1>3, <2>1
    <2>2. CASE r \in {[op |-> op, adr |-> a, width |-> x[1], ofs |-> x[2], wdata |-> AnyWord] :
                         op \in workload.ops \cap {"rd", "flush"}, a \in workload.adr,
                         x \in Access}
      BY <1>4, <2>2, AnyWordOK
    <2>3. CASE r \in {[op |-> op, adr |-> a, width |-> x[1], ofs |-> x[2],
                        wdata |-> [l \in Lane |-> b]] :
                         op \in workload.ops \cap {"wr"}, a \in workload.adr,
                         x \in Access, b \in workload.bytes}
      <3>1. PICK op \in workload.ops \cap {"wr"}, a \in workload.adr, x \in Access,
                 b \in workload.bytes :
                   r = [op |-> op, adr |-> a, width |-> x[1], ofs |-> x[2],
                        wdata |-> [l \in Lane |-> b]]
        BY <2>3, SMT
      <3> QED
        BY <1>4, <1>5, <3>1
    <2> QED
      BY <1>2, <2>1, <2>2, <2>3 DEF Requests

LEMMA InitInv == Init => IInv
  <1> SUFFICES ASSUME Init PROVE IInv
    OBVIOUS
  <1>1. \A n \in Slot : Valid(n) = {}
    BY DEF Init, LsuInit, EmptyEntry, Valid
  <1>2. (CHOOSE a \in Adr : TRUE) \in Adr
    BY LsuAssumption
  <1>3. ExuOK
    <2>1. exu = [op |-> "none", adr |-> CHOOSE a \in Adr : TRUE, width |-> 0,
                 ofs |-> 0, wdata |-> AnyWord]
      BY DEF Init
    <2>2. exu \in [op : Operations, adr : Adr, width : 0..2, ofs : 0..3, wdata : Word]
      BY <1>2, <2>1, AnyWordOK DEF Operations
    <2> QED
      BY <2>1, <2>2 DEF Init, ExuOK
  <1>4. BufferOK
    BY DEF Init, LsuInit, BufferOK
  <1>5. Compact /\ OneEntryPerWord
    BY <1>1 DEF Compact, OneEntryPerWord
  <1>6. OwedInBuffer
    BY DEF Init, OwedInBuffer
  <1> QED
    BY <1>3, <1>4, <1>5, <1>6 DEF IInv

LEMMA ExuStep ==
  ASSUME ExuOK, ExuEdge
  PROVE  ExuOK'
  <1>1. exu' \in Requests \cup {exu}
    BY DEF ExuEdge, Requests
  <1>2. /\ exu' \in [op : Operations, adr : Adr, width : 0..2, ofs : 0..3, wdata : Word]
        /\ exu'.op \in workload.ops \cup {"none"}
    BY <1>1, RequestsOK DEF ExuOK
  <1> QED
    BY <1>2 DEF ExuOK, ExuEdge

\* OutputMethod finds room for a store so that the entries in use stay in front
\* and there is one for a word.
LEMMA BufferStep ==
  ASSUME ExuOK, BufferOK, Compact, OneEntryPerWord, LsuEdge
  PROVE  Compact' /\ OneEntryPerWord'
  <1> DEFINE e == sig_wbuf_entry_new
  <1>1. CASE ~sig_wbuf_write
    <2>1. wbuf' = kept
      BY <1>1, EdgeBuffer
    <2> QED
      BY <2>1, KeptCompact DEF Compact, OneEntryPerWord, Valid, ValidKept
  <1>2. CASE sig_wbuf_write
    <2>1. /\ e \in Slot /\ wbuf'[e] = NewEntry
          /\ \A n \in Slot : n # e => wbuf'[n] = kept[n]
      BY <1>2, EdgeBuffer
    <2>2. \A n \in Slot : n # e => Valid(n)' = ValidKept(n)
      BY <2>1 DEF Valid, ValidKept
    <2>3. CASE exu.op = "wr"
      <3>1. /\ \/ ValidKept(e) = {}
               \/ /\ kept[e].adr = exu.adr /\ OldBytes = kept[e].bytes
                  /\ ValidKept(e) # {}
            /\ \A n \in Slot : n < e => ValidKept(n) # {}
            /\ \A n \in Slot : n # e /\ ValidKept(n) # {} => kept[n].adr # exu.adr
        BY <1>2, <2>3, StorePlaced
      <3>2. wbuf'[e].adr = exu.adr /\ DOMAIN wbuf'[e].bytes # {}
        BY <2>1, <2>3, NewBytes, StoreSelects
      <3> HIDE DEF e
      <3>3. Compact'
        <4> SUFFICES ASSUME NEW m \in Slot, NEW n \in Slot, m < n, Valid(n)' # {}
                     PROVE  Valid(m)' # {}
          BY DEF Compact, Slot
        <4>1. CASE m = e
          BY <3>2, <4>1 DEF Valid
        <4>2. CASE m # e /\ n = e
          BY <2>2, <3>1, <4>2
        <4>3. CASE m # e /\ n # e
          BY <2>2, <4>3, KeptCompact
        <4> QED
          BY <4>1, <4>2, <4>3
      <3>4. OneEntryPerWord'
        <4> SUFFICES ASSUME NEW m \in Slot, NEW n \in Slot, Valid(m)' # {},
                            Valid(n)' # {}, wbuf'[m].adr = wbuf'[n].adr
                     PROVE  m = n
          BY DEF OneEntryPerWord, Slot
        <4>1. CASE m # e /\ n # e
          BY <2>1, <2>2, <4>1, KeptCompact
        <4>2. CASE m = e \/ n = e
          BY <2>1, <2>2, <3>1, <3>2, <4>2 DEF Valid
        <4> QED
          BY <4>1, <4>2
      <3> QED
        BY <3>3, <3>4
    <2>4. CASE exu.op # "wr"
      <3>1. CacheOp /\ IsFlushed /\ sig_wbuf_entry = 0 /\ e = 0 /\ ~sig_wbuf_remove
        BY <1>2, <2>4, WriteOf
      <3>2. \A n \in Slot : ValidKept(n) = {}
        BY <3>1, KeptIs DEF IsFlushed, ValidKept, Valid
      <3>3. DOMAIN OldBytes = {} /\ bsel = {}
        BY <3>1, SlotFacts DEF OldBytes, bsel, IsFlushed, Valid
      <3>4. DOMAIN wbuf'[e].bytes = {}
        BY <2>1, <3>3, NewBytes
      <3>5. \A n \in Slot : Valid(n)' = {}
        BY <2>2, <3>2, <3>4 DEF Valid
      <3> QED
        BY <3>5 DEF Compact, OneEntryPerWord, Slot
    <2> QED
      BY <2>3, <2>4
  <1> QED
    BY <1>1, <1>2

\* A write that goes on holds entry 0: it is neither removed nor stored to.
LEMMA Entry0Kept ==
  ASSUME wbuf_dirty0, ~wp_ack
  PROVE  ~sig_wbuf_remove /\ (exu.op = "wr" /\ sig_wbuf_write => sig_wbuf_entry_new # 0)
  BY DEF sig_wbuf_remove, sig_wbuf_write, sig_wbuf_entry_new, wbuf_dont_change0

\* Bytes that are neither in memory after the edge nor stored at it have an
\* entry in kept, and if that is entry 0 its write goes on or begins.
LEMMA OwedKept ==
  ASSUME BufferOK, OwedInBuffer, LsuEdge, MemoryEdge,
         NEW x \in owed, Performs => x \notin Bytes(wp_adr, DOMAIN wp_bytes)
  PROVE  \E n \in Slot : /\ x \in Bytes(kept[n].adr, ValidKept(n))
                         /\ n = 0 => wbuf_dirty0' /\ ~wp_performed'
  <1>1. PICK k \in Slot : /\ x \in Bytes(wbuf[k].adr, Valid(k))
                          /\ k = 0 => wbuf_dirty0 /\ ~wp_performed
    BY DEF OwedInBuffer
  <1>2. ~IsFlushed /\ ~wp_special /\ Valid(k) # {}
    BY <1>1 DEF IsFlushed, wp_special, Bytes
  <1>3. wp_performed' \in IF wp_wr /\ ~wp_ack THEN {wp_performed, TRUE} ELSE {FALSE}
    BY DEF MemoryEdge
  <1>4. wbuf_dirty0' = Dirty0
    BY DEF LsuEdge
  <1>5. CASE sig_wbuf_remove
    <2>1. k # 0
      <3>1. SUFFICES ASSUME k = 0 PROVE FALSE
        OBVIOUS
      <3>2. wbuf_dirty0 /\ ~wp_performed /\ wp_ack
        BY <1>1, <1>5, <3>1 DEF sig_wbuf_remove
      <3>3. Performs
        BY <1>2, <3>2 DEF Performs, wp_wr
      <3> QED
        BY <1>1, <3>1, <3>3 DEF wp_adr, wp_bytes, Valid
    <2>2. k - 1 \in Slot /\ k - 1 # MAX_WBUF_SIZE - 1 /\ (k - 1) + 1 = k
      BY <2>1, SlotFacts
    <2>3. kept[k - 1] = wbuf[k]
      BY <1>5, <2>2, KeptIs
    <2>4. x \in Bytes(kept[k - 1].adr, ValidKept(k - 1))
      BY <1>1, <2>3 DEF ValidKept, Valid
    <2>5. k - 1 = 0 => wbuf_dirty0'
      <3>1. k - 1 = 0 => Valid(1) # {}
        BY <1>2, <2>2
      <3> QED
        BY <1>4, <1>5, <3>1 DEF Dirty0
    <2>6. ~wp_performed'
      BY <1>3, <1>5, Entry0Kept DEF wp_wr
    <2> QED
      BY <2>2, <2>4, <2>5, <2>6
  <1>6. CASE ~sig_wbuf_remove
    <2>1. x \in Bytes(kept[k].adr, ValidKept(k))
      BY <1>1, <1>6, KeptIs DEF ValidKept, Valid
    <2>2. ASSUME k = 0
          PROVE  wbuf_dirty0' /\ ~wp_performed'
      <3>1. wbuf_dirty0 /\ ~wp_performed /\ wp_wr
        BY <1>1, <1>2, <2>2 DEF wp_wr
      <3>2. ~Performs
        BY <1>1, <2>2 DEF wp_adr, wp_bytes, Valid
      <3>3. ~wp_ack /\ ~wp_performed'
        BY <1>3, <3>1, <3>2 DEF Performs
      <3>4. Dirty0
        BY <1>6, <3>1, <3>3 DEF Dirty0
      <3> QED
        BY <1>4, <3>3, <3>4
    <2> QED
      BY <2>1, <2>2
  <1> QED
    BY <1>5, <1>6

\* A byte is owed from the store on until it is in memory.
LEMMA OwedStep ==
  ASSUME IInv, LsuEdge, MemoryEdge, HistoryEdge
  PROVE  OwedInBuffer'
  <1> DEFINE e == sig_wbuf_entry_new
             stored == IF exu.op = "wr" /\ ack THEN Bytes(exu.adr, bsel) ELSE {}
  <1>1. owed' = (owed \ (IF Performs THEN Bytes(wp_adr, DOMAIN wp_bytes) ELSE {}))
                  \cup stored
    BY DEF HistoryEdge
  <1>2. sig_wbuf_write =>
          /\ e \in Slot /\ wbuf'[e] = NewEntry
          /\ \A n \in Slot : n # e => wbuf'[n] = kept[n]
    BY EdgeBuffer DEF IInv
  <1>3. ASSUME NEW n \in Slot, NEW x \in Bytes(kept[n].adr, ValidKept(n))
        PROVE  x \in Bytes(wbuf'[n].adr, DOMAIN wbuf'[n].bytes)
    <2>1. ValidKept(n) # {}
      BY DEF Bytes
    <2>2. CASE ~sig_wbuf_write
      <3>1. wbuf' = kept
        BY <2>2, EdgeBuffer DEF IInv
      <3> QED
        BY <3>1 DEF ValidKept
    <2>3. CASE sig_wbuf_write /\ n # e
      BY <1>2, <2>3 DEF ValidKept
    <2>4. CASE sig_wbuf_write /\ n = e
      <3>1. CASE exu.op = "wr"
        <4>1. kept[n].adr = exu.adr /\ OldBytes = kept[n].bytes
          BY <2>1, <2>4, <3>1, StorePlaced DEF IInv
        <4>2. wbuf'[n].adr = exu.adr /\ ValidKept(n) \subseteq DOMAIN wbuf'[n].bytes
          BY <1>2, <2>4, <4>1, NewBytes DEF ValidKept
        <4> QED
          BY <4>1, <4>2 DEF Bytes
      <3>2. CASE exu.op # "wr"
        <4>1. IsFlushed /\ ~sig_wbuf_remove
          BY <2>4, <3>2, WriteOf
        <4>2. kept = wbuf
          BY <4>1, KeptIs DEF IInv
        <4> QED
          BY <2>1, <4>1, <4>2 DEF IsFlushed, Valid, ValidKept
      <3> QED
        BY <3>1, <3>2
    <2> QED
      BY <2>2, <2>3, <2>4
  <1>4. ASSUME NEW x \in owed', x \notin stored
        PROVE  \E n \in Slot : /\ x \in Bytes(wbuf'[n].adr, DOMAIN wbuf'[n].bytes)
                               /\ n = 0 => wbuf_dirty0' /\ ~wp_performed'
    <2>1. x \in owed /\ (Performs => x \notin Bytes(wp_adr, DOMAIN wp_bytes))
      BY <1>1, <1>4
    <2>2. PICK n \in Slot : /\ x \in Bytes(kept[n].adr, ValidKept(n))
                            /\ n = 0 => wbuf_dirty0' /\ ~wp_performed'
      BY <2>1, OwedKept DEF IInv
    <2> QED
      BY <1>3, <2>2
  <1>5. ASSUME NEW x \in stored
        PROVE  \E n \in Slot : /\ x \in Bytes(wbuf'[n].adr, DOMAIN wbuf'[n].bytes)
                               /\ n = 0 => wbuf_dirty0' /\ ~wp_performed'
    <2>1. exu.op = "wr" /\ ack /\ x \in Bytes(exu.adr, bsel)
      BY <1>5
    <2>2. sig_wbuf_write
      BY <2>1 DEF ack, wp_special, CacheOp
    <2>3. x \in Bytes(wbuf'[e].adr, DOMAIN wbuf'[e].bytes)
      BY <1>2, <2>1, <2>2, NewBytes DEF Bytes
    <2>4. e = 0 => wbuf_dirty0'
      BY <2>2 DEF LsuEdge, Dirty0
    <2>5. e = 0 => ~wp_performed'
      <3>1. e = 0 => ~(wbuf_dirty0 /\ ~wp_ack)
        BY <2>1, <2>2, Entry0Kept
      <3> QED
        BY <3>1 DEF MemoryEdge, wp_wr
    <2> QED
      BY <1>2, <2>2, <2>3, <2>4, <2>5
  <1> QED
    BY <1>4, <1>5 DEF OwedInBuffer, Slot, Valid

LEMMA NextInv ==
  ASSUME IInv, [Next]_vars
  PROVE  IInv'
  <1>1. CASE Next
    <2>1. LsuEdge /\ ExuEdge /\ MemoryEdge /\ HistoryEdge
      BY <1>1 DEF Next
    <2>2. ExuOK'
      BY <2>1, ExuStep DEF IInv
    <2>3. BufferOK'
      BY <2>1, EdgeBuffer DEF IInv
    <2>4. Compact' /\ OneEntryPerWord'
      BY <2>1, BufferStep DEF IInv
    <2>5. OwedInBuffer'
      BY <2>1, OwedStep
    <2> QED
      BY <2>2, <2>3, <2>4, <2>5 DEF IInv
  <1>2. CASE UNCHANGED vars
    BY <1>2 DEF vars, lsuVars, lineVars, IInv, ExuOK, BufferOK, Compact,
                OneEntryPerWord, OwedInBuffer, Slot, Valid
  <1> QED
    BY <1>1, <1>2

LEMMA Invariance == Spec => []IInv
  BY InitInv, NextInv, PTL DEF Spec

-----------------------------------------------------------------------------
(* Types.                                                                  *)

\* Bytes over bytes are bytes; over a word they leave a word.
LEMMA OverType ==
  ASSUME NEW g, NEW f, NEW S, NEW T, g \in [S -> Byte], f \in [T -> Byte]
  PROVE  /\ Over(g, f) \in [S \cup T -> Byte]
         /\ \A l \in S : Over(g, f)[l] = g[l]
         /\ \A l \in T \ S : Over(g, f)[l] = f[l]
  BY DEF Over

LEMMA BselInLane ==
  ASSUME ExuOK
  PROVE  bsel \subseteq Lane
  <1>1. exu.width \in 0..2 /\ exu.ofs \in 0..3
    BY DEF ExuOK
  <1>2. Bsel(exu.width, exu.ofs) \subseteq Lane
    <2>1. CASE exu.width = 0
      BY <2>1 DEF Bsel, Lane
    <2>2. CASE exu.width = 1
      BY <1>1, <2>2 DEF Bsel, Lane
    <2>3. CASE exu.width = 2
      <3>1. Bsel(2, exu.ofs) = {l \in Lane : l \in {exu.ofs, exu.ofs + 1}}
        BY DEF Bsel
      <3> QED
        BY <2>3, <3>1
    <2> QED
      BY <1>1, <2>1, <2>2, <2>3
  <1> QED
    BY <1>2 DEF bsel

EntriesOK ==
  \A n \in Slot : /\ wbuf[n].adr \in Adr
                  /\ Valid(n) \subseteq Lane
                  /\ wbuf[n].bytes \in [Valid(n) -> Byte]

\* The part of TypeOK that ExuOK does not state.
LinesOK ==
  /\ wbuf_dirty0 \in BOOLEAN
  /\ rp_ack \in BOOLEAN /\ rp_data \in Word /\ wp_ack \in BOOLEAN
  /\ mem \in [Adr -> Word] /\ image \in [Adr -> Word]
  /\ wp_performed \in BOOLEAN /\ flushed \in BOOLEAN /\ loaded \in BOOLEAN
  /\ owed \subseteq Adr \X Lane

LEMMA InitTypes == Init => EntriesOK /\ LinesOK
  <1> SUFFICES ASSUME Init PROVE EntriesOK /\ LinesOK
    OBVIOUS
  <1>1. (CHOOSE a \in Adr : TRUE) \in Adr
    BY LsuAssumption
  <1>2. EntriesOK
    <2>1. PICK a \in Adr : \A n \in Slot : wbuf[n] = EmptyEntry(a)
      BY <1>1 DEF Init, LsuInit
    <2>2. \A n \in Slot : wbuf[n].adr = a /\ wbuf[n].bytes = <<>>
      BY <2>1 DEF EmptyEntry
    <2>3. DOMAIN <<>> = {} /\ <<>> \in [{} -> Byte]
      OBVIOUS
    <2> QED
      BY <2>2, <2>3 DEF EntriesOK, Valid
  <1>3. LinesOK
    BY AnyWordOK DEF Init, LsuInit, LinesOK
  <1> QED
    BY <1>2, <1>3

\* An entry of the buffer after an edge.
LEMMA EntriesStep ==
  ASSUME IInv, EntriesOK, LsuEdge
  PROVE  EntriesOK'
  <1> DEFINE e == sig_wbuf_entry_new
             OK(n) == /\ kept[n].adr \in Adr
                      /\ ValidKept(n) \subseteq Lane
                      /\ kept[n].bytes \in [ValidKept(n) -> Byte]
  <1>1. ASSUME NEW n \in Slot
        PROVE  OK(n)
    <2>1. CASE ~sig_wbuf_remove
      BY <2>1, KeptIs DEF IInv, EntriesOK, Valid, ValidKept
    <2>2. CASE sig_wbuf_remove /\ n # MAX_WBUF_SIZE - 1
      BY <2>2, KeptIs, SlotFacts DEF IInv, EntriesOK, Valid, ValidKept
    <2>3. CASE sig_wbuf_remove /\ n = MAX_WBUF_SIZE - 1
      <3>1. kept[n] = EmptyEntry(wbuf[n].adr)
        BY <2>3 DEF kept, MovedUp
      <3> QED
        BY <3>1 DEF EmptyEntry, ValidKept, EntriesOK
    <2> QED
      BY <2>1, <2>2, <2>3
  <1>2. CASE ~sig_wbuf_write
    <2>1. wbuf' = kept
      BY <1>2, EdgeBuffer DEF IInv
    <2> QED
      BY <1>1, <2>1 DEF EntriesOK, Valid, ValidKept, Slot
  <1>3. CASE sig_wbuf_write
    <2>1. /\ e \in Slot /\ wbuf'[e] = NewEntry
          /\ \A n \in Slot : n # e => wbuf'[n] = kept[n]
      BY <1>3, EdgeBuffer DEF IInv
    <2>2. exu.adr \in Adr /\ exu.wdata \in [Lane -> Byte] /\ bsel \subseteq Lane
      BY BselInLane DEF IInv, ExuOK, Word
    <2>3. OldBytes \in [DOMAIN OldBytes -> Byte] /\ DOMAIN OldBytes \subseteq Lane
      BY DEF OldBytes, EntriesOK, Valid
    <2>4. Restrict(exu.wdata, bsel) \in [bsel -> Byte]
      BY <2>2 DEF Restrict
    <2>5. NewEntry.bytes \in [bsel \cup DOMAIN OldBytes -> Byte]
      BY <2>3, <2>4, OverType DEF NewEntry
    <2>6. /\ NewEntry.adr \in Adr /\ DOMAIN NewEntry.bytes \subseteq Lane
          /\ NewEntry.bytes \in [DOMAIN NewEntry.bytes -> Byte]
      BY <2>2, <2>3, <2>5 DEF NewEntry
    <2> HIDE DEF e
    <2>7. ASSUME NEW n \in Slot
          PROVE  /\ wbuf'[n].adr \in Adr
                 /\ DOMAIN wbuf'[n].bytes \subseteq Lane
                 /\ wbuf'[n].bytes \in [DOMAIN wbuf'[n].bytes -> Byte]
      <3>1. CASE n = e
        BY <2>1, <2>6, <3>1
      <3>2. CASE n # e
        BY <1>1, <2>1, <3>2 DEF ValidKept
      <3> QED
        BY <3>1, <3>2
    <2> QED
      BY <2>7 DEF EntriesOK, Valid, Slot
  <1> QED
    BY <1>2, <1>3

\* Memory after an edge.
LEMMA MemoryType ==
  ASSUME EntriesOK, LinesOK, MemoryEdge
  PROVE  /\ mem' \in [Adr -> Word]
         /\ Performs => /\ mem'[wp_adr] = Over(wp_bytes, mem[wp_adr])
                        /\ \A a \in Adr : a # wp_adr => mem'[a] = mem[a]
         /\ ~Performs => \A a \in Adr : a \notin workload.others => mem'[a] = mem[a]
  <1>1. /\ wp_adr \in Adr /\ DOMAIN wp_bytes \subseteq Lane
        /\ wp_bytes \in [DOMAIN wp_bytes -> Byte]
    BY SlotFacts DEF EntriesOK, wp_adr, wp_bytes, Valid
  <1>2. CASE Performs
    <2>1. mem' = [mem EXCEPT ![wp_adr] = Over(wp_bytes, mem[wp_adr])]
      BY <1>2 DEF MemoryEdge
    <2>2. mem[wp_adr] \in [Lane -> Byte]
      BY <1>1 DEF LinesOK, Word
    <2>3. Over(wp_bytes, mem[wp_adr]) \in [DOMAIN wp_bytes \cup Lane -> Byte]
      BY <1>1, <2>2, OverType
    <2>4. Over(wp_bytes, mem[wp_adr]) \in Word
      BY <1>1, <2>3 DEF Word
    <2> QED
      BY <1>1, <1>2, <2>1, <2>4 DEF LinesOK
  <1>3. CASE ~Performs
    <2>1. CASE mem' = mem
      BY <1>3, <2>1 DEF LinesOK
    <2>2. ASSUME NEW a \in workload.others, NEW l \in Lane, NEW b \in Byte,
                 mem' = [mem EXCEPT ![a][l] = b]
          PROVE  /\ mem' \in [Adr -> Word]
                 /\ \A c \in Adr : c \notin workload.others => mem'[c] = mem[c]
      BY <2>2 DEF LinesOK, Word
    <2> QED
      BY <1>3, <2>1, <2>2 DEF MemoryEdge
  <1> QED
    BY <1>2, <1>3

\* The image after an edge.
LEMMA ImageType ==
  ASSUME ExuOK, LinesOK, HistoryEdge
  PROVE  /\ image' \in [Adr -> Word]
         /\ \A a \in Adr, l \in Lane :
              image'[a][l] = IF exu.op = "wr" /\ ack /\ a = exu.adr /\ l \in bsel
                             THEN exu.wdata[l] ELSE image[a][l]
  <1>1. exu.adr \in Adr /\ exu.wdata \in [Lane -> Byte] /\ bsel \subseteq Lane
    BY BselInLane DEF ExuOK, Word
  <1>2. CASE exu.op = "wr" /\ ack
    <2>1. Bytes(exu.adr, bsel) # {}
      <3>1. PICK l \in bsel : TRUE
        BY <1>2, StoreSelects
      <3>2. <<exu.adr, l>> \in Bytes(exu.adr, bsel)
        BY <3>1 DEF Bytes
      <3> QED
        BY <3>2
    <2>2. image' = [image EXCEPT ![exu.adr] =
                      Over(Restrict(exu.wdata, bsel), image[exu.adr])]
      BY <1>2, <2>1 DEF HistoryEdge
    <2>3. Restrict(exu.wdata, bsel) \in [bsel -> Byte] /\ image[exu.adr] \in [Lane -> Byte]
      BY <1>1 DEF Restrict, LinesOK, Word
    <2>4. /\ Over(Restrict(exu.wdata, bsel), image[exu.adr]) \in [bsel \cup Lane -> Byte]
          /\ \A l \in bsel : Over(Restrict(exu.wdata, bsel), image[exu.adr])[l]
                               = Restrict(exu.wdata, bsel)[l]
          /\ \A l \in Lane \ bsel : Over(Restrict(exu.wdata, bsel), image[exu.adr])[l]
                                      = image[exu.adr][l]
      <3> DEFINE g == Restrict(exu.wdata, bsel)
                 f == image[exu.adr]
      <3>1. g \in [bsel -> Byte] /\ f \in [Lane -> Byte]
        BY <2>3
      <3> HIDE DEF g, f
      <3>2. /\ Over(g, f) \in [bsel \cup Lane -> Byte]
            /\ \A l \in bsel : Over(g, f)[l] = g[l]
            /\ \A l \in Lane \ bsel : Over(g, f)[l] = f[l]
        BY <3>1 DEF Over
      <3> QED
        BY <3>2 DEF g, f
    <2>5. \A l \in bsel : Restrict(exu.wdata, bsel)[l] = exu.wdata[l]
      BY DEF Restrict
    <2>6. Over(Restrict(exu.wdata, bsel), image[exu.adr]) \in Word
      BY <1>1, <2>4 DEF Word
    <2>7. image' \in [Adr -> Word]
      BY <2>2, <2>6 DEF LinesOK
    <2>8. ASSUME NEW a \in Adr, NEW l \in Lane
          PROVE  image'[a][l] = IF a = exu.adr /\ l \in bsel
                                THEN exu.wdata[l] ELSE image[a][l]
      <3>1. CASE a = exu.adr
        BY <2>2, <2>4, <2>5, <3>1 DEF LinesOK
      <3>2. CASE a # exu.adr
        BY <2>2, <3>2 DEF LinesOK
      <3> QED
        BY <3>1, <3>2
    <2> QED
      BY <1>2, <2>7, <2>8
  <1>3. CASE ~(exu.op = "wr" /\ ack)
    <2>1. image' = image
      BY <1>3 DEF HistoryEdge
    <2> QED
      BY <1>3, <2>1 DEF LinesOK
  <1> QED
    BY <1>2, <1>3

LEMMA LinesStep ==
  ASSUME IInv, EntriesOK, LinesOK, Next
  PROVE  LinesOK'
  <1>1. LsuEdge /\ ExuEdge /\ MemoryEdge /\ HistoryEdge /\ Lines
    BY DEF Next
  <1>2. ExuOK /\ ExuOK'
    BY <1>1, ExuStep DEF IInv
  <1>3. mem' \in [Adr -> Word] /\ image' \in [Adr -> Word]
    BY <1>1, <1>2, MemoryType, ImageType
  <1>4. rp_data' \in Word
    <2>1. rp_data' = IF rp_ack THEN mem'[exu.adr] ELSE AnyWord
      BY <1>1 DEF MemoryEdge
    <2>2. exu.adr \in Adr
      BY <1>2 DEF ExuOK
    <2> QED
      BY <1>3, <2>1, <2>2, AnyWordOK
  <1>5. owed' \subseteq Adr \X Lane
    <2>1. exu.adr \in Adr /\ bsel \subseteq Lane
      BY <1>2, BselInLane DEF ExuOK
    <2>2. owed' \subseteq owed \cup Bytes(exu.adr, bsel)
      BY <1>1 DEF HistoryEdge
    <2> QED
      BY <2>1, <2>2 DEF LinesOK, Bytes
  <1>6. wbuf_dirty0' \in BOOLEAN
    BY <1>1 DEF LsuEdge, Dirty0, LinesOK
  <1>7. wp_performed' \in BOOLEAN
    BY <1>1 DEF MemoryEdge, LinesOK
  <1>8. loaded' \in BOOLEAN
    BY <1>1 DEF ExuEdge
  <1>9. flushed' \in BOOLEAN
    BY <1>1 DEF ExuEdge, Client!Edge
  <1>10. wp_ack' \in BOOLEAN /\ rp_ack' \in BOOLEAN
    BY <1>1 DEF Lines, wp_wr, wp_special, rp_rd
  <1> QED
    BY <1>3, <1>4, <1>5, <1>6, <1>7, <1>8, <1>9, <1>10 DEF LinesOK

-----------------------------------------------------------------------------
(* What a load returns.                                                    *)

\* The buffer has a newer byte than memory.
Buffered(a, l) == \E n \in Slot : wbuf[n].adr = a /\ l \in Valid(n)

\* Entry 0 is in memory once its write is over or has taken effect.
Entry0InMemory ==
  /\ ~wbuf_dirty0 \/ wp_performed
  /\ wbuf[0].adr \notin workload.others
  => \A l \in Valid(0) : mem[wbuf[0].adr][l] = wbuf[0].bytes[l]

\* The bytes that the EXU has stored are in the buffer, the others in memory.
ImageKept ==
  \A a \in Adr \ workload.others, l \in Lane :
    /\ \A n \in Slot : wbuf[n].adr = a /\ l \in Valid(n) =>
         wbuf[n].bytes[l] = image[a][l]
    /\ ~Buffered(a, l) => mem[a][l] = image[a][l]

\* An entry that is no longer dirty is about to go: no load relies on it alone.
CleanNotForwarded ==
  ~wbuf_dirty0 /\ Valid(0) # {} /\ exu.op = "rd" => ~Forwarded

\* When the data of a load is due, the read port shows the bytes that the
\* buffer does not have.
LoadDue ==
  loaded /\ exu.adr \notin workload.others =>
    /\ exu.op = "none"
    /\ \A l \in bsel : ~Buffered(exu.adr, l) => rp_data[l] = mem[exu.adr][l]

DInv == /\ IInv /\ EntriesOK /\ LinesOK
        /\ Entry0InMemory /\ ImageKept /\ CleanNotForwarded /\ LoadDue

LEMMA InitData == Init => DInv
  <1> SUFFICES ASSUME Init PROVE DInv
    OBVIOUS
  <1>1. IInv /\ EntriesOK /\ LinesOK
    BY InitInv, InitTypes
  <1>2. \A n \in Slot : Valid(n) = {}
    BY DEF Init, LsuInit, EmptyEntry, Valid
  <1>3. Entry0InMemory /\ CleanNotForwarded
    BY <1>2, SlotFacts DEF Entry0InMemory, CleanNotForwarded
  <1>4. ImageKept
    BY <1>2 DEF Init, ImageKept
  <1>5. LoadDue
    BY DEF Init, LoadDue
  <1> QED
    BY <1>1, <1>3, <1>4, <1>5 DEF DInv

\* An edge leaves a valid entry 0 that is not dirty only when its write has just
\* been acknowledged while it is being read or stored to.
LEMMA CleanOnlyHeld ==
  ASSUME IInv, LsuEdge, ~wbuf_dirty0', Valid(0)' # {}
  PROVE  /\ wbuf_dirty0 /\ wp_ack /\ wbuf_dont_change0
         /\ wbuf' = wbuf /\ ~sig_wbuf_write /\ ~sig_wbuf_remove
  <1> DEFINE e == sig_wbuf_entry_new
  <1>1. ~Dirty0
    BY DEF LsuEdge
  <1>2. ~(sig_wbuf_write /\ e = 0)
    BY <1>1 DEF Dirty0
  <1>3. wbuf'[0] = kept[0]
    BY <1>2, EdgeBuffer, SlotFacts DEF IInv
  <1>4. ValidKept(0) # {}
    BY <1>3 DEF Valid, ValidKept
  <1>5. ~sig_wbuf_remove
    <2>1. SUFFICES ASSUME sig_wbuf_remove PROVE FALSE
      OBVIOUS
    <2>2. kept[0] = wbuf[1]
      <3>1. 0 \in Slot /\ 0 # MAX_WBUF_SIZE - 1 /\ 0 + 1 = 1
        BY SlotFacts
      <3>2. kept[0] = wbuf[0 + 1]
        BY <2>1, <3>1, KeptIs DEF IInv
      <3> QED
        BY <3>1, <3>2
    <2>3. Valid(1) # {}
      BY <1>4, <2>2 DEF Valid, ValidKept
    <2> QED
      BY <1>1, <2>1, <2>3 DEF Dirty0
  <1>6. kept = wbuf
    BY <1>5, KeptIs DEF IInv
  <1>7. Valid(0) # {} /\ ~IsFlushed
    BY <1>4, <1>6, SlotFacts DEF Valid, ValidKept, IsFlushed
  <1>8. wbuf_dont_change0
    <2>1. SUFFICES ASSUME ~wbuf_dont_change0 PROVE FALSE
      OBVIOUS
    <2>2. sig_wbuf_entry = 0
      BY <1>1, <1>5, <2>1 DEF sig_wbuf_remove, Dirty0
    <2>3. e = 0
      BY <1>5, <2>2 DEF sig_wbuf_entry_new
    <2>4. ~sig_wbuf_write
      BY <1>2, <2>3
    <2> QED
      BY <2>1, <2>3, <2>4, SlotFacts DEF sig_wbuf_write
  <1>9. wbuf_dirty0 /\ wp_ack
    BY <1>1, <1>5, <1>8 DEF wbuf_dont_change0, Dirty0
  <1>10. ~sig_wbuf_write
    BY <1>8 DEF sig_wbuf_write
  <1>11. wbuf' = wbuf
    BY <1>6, <1>10, EdgeBuffer DEF IInv
  <1> QED
    BY <1>5, <1>8, <1>9, <1>10, <1>11

\* Entry 0 stays while its write goes on.
LEMMA WritingStays ==
  ASSUME IInv, LsuEdge, wp_wr, ~wp_ack
  PROVE  wbuf'[0] = wbuf[0]
  <1>1. wbuf_dirty0 /\ ~wp_special
    BY DEF wp_wr
  <1>2. ~sig_wbuf_remove
    BY <1>1, Entry0Kept
  <1>3. sig_wbuf_write => sig_wbuf_entry_new # 0
    <2>1. sig_wbuf_write => exu.op = "wr"
      BY <1>1, WriteOf DEF wp_special
    <2> QED
      BY <1>1, <2>1, Entry0Kept
  <1>4. kept = wbuf
    BY <1>2, KeptIs DEF IInv
  <1> QED
    BY <1>3, <1>4, EdgeBuffer, SlotFacts DEF IInv

LEMMA Entry0Step ==
  ASSUME DInv, LsuEdge, ExuEdge, MemoryEdge
  PROVE  Entry0InMemory'
  <1> SUFFICES ASSUME ~wbuf_dirty0' \/ wp_performed', wbuf'[0].adr \notin workload'.others,
                      NEW l \in DOMAIN wbuf'[0].bytes
               PROVE  mem'[wbuf'[0].adr][l] = wbuf'[0].bytes[l]
    BY DEF Entry0InMemory, Valid
  <1>1. workload' = workload
    BY DEF ExuEdge
  <1>2. IInv /\ EntriesOK /\ LinesOK /\ Entry0InMemory
    BY DEF DInv
  <1>3. /\ wbuf'[0] = wbuf[0] /\ wp_wr
        /\ wp_performed \/ Performs
    <2>1. CASE wp_performed'
      <3>1. wp_wr /\ ~wp_ack
        BY <2>1 DEF MemoryEdge
      <3>2. wp_performed \/ Performs
        BY <2>1, <3>1 DEF Performs
      <3> QED
        BY <1>2, <3>1, <3>2, WritingStays
    <2>2. CASE ~wp_performed'
      <3>1. Valid(0)' # {}
        BY DEF Valid
      <3>2. wbuf_dirty0 /\ wp_ack /\ wbuf' = wbuf
        BY <1>2, <2>2, <3>1, CleanOnlyHeld
      <3>3. ~wp_special
        BY <3>1, <3>2, SlotFacts DEF wp_special, IsFlushed, Valid
      <3>4. wp_wr
        BY <3>2, <3>3 DEF wp_wr
      <3> QED
        BY <3>2, <3>4 DEF Performs
    <2> QED
      BY <2>1, <2>2
  <1>4. /\ wp_adr \in Adr /\ wp_adr \notin workload.others /\ DOMAIN wp_bytes \subseteq Lane
        /\ wp_bytes \in [DOMAIN wp_bytes -> Byte] /\ l \in DOMAIN wp_bytes
        /\ wp_adr = wbuf'[0].adr /\ wp_bytes = wbuf'[0].bytes
    BY <1>1, <1>2, <1>3, SlotFacts DEF EntriesOK, wp_adr, wp_bytes, Valid
  <1>5. CASE Performs
    <2>1. mem'[wp_adr] = Over(wp_bytes, mem[wp_adr])
      BY <1>2, <1>5, MemoryType
    <2>2. mem[wp_adr] \in [Lane -> Byte]
      BY <1>2, <1>4 DEF LinesOK, Word
    <2>3. Over(wp_bytes, mem[wp_adr])[l] = wp_bytes[l]
      BY <1>4, <2>2 DEF Over
    <2> QED
      BY <1>4, <2>1, <2>3
  <1>6. CASE ~Performs
    <2>1. wp_performed
      BY <1>3, <1>6
    <2>2. mem[wp_adr][l] = wp_bytes[l]
      BY <1>2, <1>4, <2>1 DEF Entry0InMemory, wp_adr, wp_bytes, Valid
    <2>3. mem'[wp_adr] = mem[wp_adr]
      BY <1>2, <1>4, <1>6, MemoryType
    <2> QED
      BY <1>4, <2>2, <2>3
  <1> QED
    BY <1>5, <1>6

\* Whatever is in kept is in the buffer after the edge.
LEMMA KeptStays ==
  ASSUME IInv, LsuEdge, NEW n \in Slot, NEW l \in ValidKept(n)
  PROVE  /\ wbuf'[n].adr = kept[n].adr
         /\ l \in DOMAIN wbuf'[n].bytes
  <1> DEFINE e == sig_wbuf_entry_new
  <1>1. CASE ~sig_wbuf_write \/ n # e
    <2>1. wbuf'[n] = kept[n]
      BY <1>1, EdgeBuffer DEF IInv
    <2> QED
      BY <2>1 DEF ValidKept
  <1>2. CASE sig_wbuf_write /\ n = e
    <2>1. wbuf'[n] = NewEntry
      BY <1>2, EdgeBuffer DEF IInv
    <2>2. CASE exu.op = "wr"
      <3>1. kept[n].adr = exu.adr /\ OldBytes = kept[n].bytes
        BY <1>2, <2>2, StorePlaced DEF IInv
      <3> QED
        BY <2>1, <3>1, NewBytes DEF ValidKept
    <2>3. CASE exu.op # "wr"
      <3>1. IsFlushed /\ ~sig_wbuf_remove
        BY <1>2, <2>3, WriteOf
      <3>2. kept = wbuf
        BY <3>1, KeptIs DEF IInv
      <3> QED
        BY <3>1, <3>2 DEF IsFlushed, Valid, ValidKept
    <2> QED
      BY <2>2, <2>3
  <1> QED
    BY <1>1, <1>2

\* What kept holds is what the image has.
LEMMA KeptImage ==
  ASSUME DInv, NEW a \in Adr \ workload.others, NEW n \in Slot,
         NEW l \in ValidKept(n), l \in Lane, kept[n].adr = a
  PROVE  kept[n].bytes[l] = image[a][l]
  <1>1. CASE ~sig_wbuf_remove
    <2>1. kept = wbuf
      BY <1>1, KeptIs DEF DInv, IInv
    <2> QED
      BY <2>1 DEF DInv, ImageKept, Valid, ValidKept
  <1>2. CASE sig_wbuf_remove
    <2>1. n # MAX_WBUF_SIZE - 1
      BY <1>2, KeptIs DEF DInv, IInv
    <2>2. n + 1 \in Slot /\ kept[n] = wbuf[n + 1]
      BY <1>2, <2>1, KeptIs, SlotFacts DEF DInv, IInv
    <2> QED
      BY <2>2 DEF DInv, ImageKept, Valid, ValidKept
  <1> QED
    BY <1>1, <1>2

\* The bytes of the buffer are those of the image.
LEMMA BufferImage ==
  ASSUME DInv, LsuEdge, HistoryEdge, NEW a \in Adr \ workload.others, NEW l \in Lane,
         NEW n \in Slot, wbuf'[n].adr = a, l \in DOMAIN wbuf'[n].bytes
  PROVE  wbuf'[n].bytes[l] = image'[a][l]
  <1> DEFINE e == sig_wbuf_entry_new
  <1>1. IInv /\ LinesOK /\ ExuOK
    BY DEF DInv, IInv
  <1>2. image'[a][l] = IF exu.op = "wr" /\ ack /\ a = exu.adr /\ l \in bsel
                       THEN exu.wdata[l] ELSE image[a][l]
    BY <1>1, ImageType
  <1>3. exu.op = "wr" => (ack <=> sig_wbuf_write)
    BY DEF ack, wp_special, CacheOp
  <1>4. CASE ~sig_wbuf_write
    <2>1. wbuf'[n] = kept[n]
      BY <1>1, <1>4, EdgeBuffer DEF IInv
    <2>2. kept[n].bytes[l] = image[a][l]
      BY <2>1, KeptImage DEF ValidKept
    <2> QED
      BY <1>2, <1>3, <1>4, <2>1, <2>2
  <1>5. CASE sig_wbuf_write /\ n # e
    <2>1. wbuf'[n] = kept[n]
      BY <1>1, <1>5, EdgeBuffer DEF IInv
    <2>2. kept[n].bytes[l] = image[a][l]
      BY <2>1, KeptImage DEF ValidKept
    <2>3. exu.op = "wr" => kept[n].adr # exu.adr
      <3>1. ValidKept(n) # {}
        BY <2>1 DEF ValidKept
      <3> QED
        BY <1>1, <1>5, <3>1, StorePlaced DEF IInv
    <2> QED
      BY <1>2, <2>1, <2>2, <2>3
  <1>6. CASE sig_wbuf_write /\ n = e
    <2>1. wbuf'[n] = NewEntry
      BY <1>1, <1>6, EdgeBuffer DEF IInv
    <2>2. exu.op = "wr"
      <3>1. SUFFICES ASSUME exu.op # "wr" PROVE FALSE
        OBVIOUS
      <3>2. CacheOp /\ IsFlushed /\ sig_wbuf_entry = 0
        BY <1>6, <3>1, WriteOf
      <3>3. DOMAIN OldBytes = {} /\ bsel = {}
        BY <3>2, SlotFacts DEF OldBytes, bsel, IsFlushed, Valid
      <3> QED
        BY <2>1, <3>3, NewBytes
    <2>3. a = exu.adr /\ l \in bsel \cup DOMAIN OldBytes
      BY <2>1, NewBytes
    <2>4. NewEntry.bytes[l] = IF l \in bsel THEN exu.wdata[l] ELSE OldBytes[l]
      BY <2>3 DEF NewEntry, Over, Restrict
    <2>5. l \notin bsel => OldBytes[l] = image[a][l]
      <3>1. SUFFICES ASSUME l \in DOMAIN OldBytes PROVE OldBytes[l] = image[a][l]
        BY <2>3
      <3>2. kept[n].adr = exu.adr /\ OldBytes = kept[n].bytes
        BY <1>1, <1>6, <2>2, <3>1, StorePlaced DEF IInv
      <3> QED
        BY <2>3, <3>1, <3>2, KeptImage DEF ValidKept
    <2> QED
      BY <1>2, <1>3, <1>6, <2>1, <2>2, <2>3, <2>4, <2>5
  <1> QED
    BY <1>4, <1>5, <1>6

\* A byte that is in the buffer no longer is in memory.
LEMMA MemoryImage ==
  ASSUME DInv, LsuEdge, MemoryEdge, HistoryEdge,
         NEW a \in Adr \ workload.others, NEW l \in Lane,
         \A n \in Slot : wbuf'[n].adr = a => l \notin DOMAIN wbuf'[n].bytes
  PROVE  mem'[a][l] = image'[a][l]
  <1> DEFINE e == sig_wbuf_entry_new
  <1>1. IInv /\ EntriesOK /\ LinesOK /\ ExuOK /\ BufferOK
    BY DEF DInv, IInv
  <1>2. image'[a][l] = image[a][l]
    <2>1. SUFFICES ASSUME exu.op = "wr", ack, a = exu.adr, l \in bsel PROVE FALSE
      BY <1>1, ImageType
    <2>2. sig_wbuf_write
      BY <2>1 DEF ack, wp_special, CacheOp
    <2>3. e \in Slot /\ wbuf'[e] = NewEntry
      BY <1>1, <2>2, EdgeBuffer DEF IInv
    <2> QED
      BY <2>1, <2>3, NewBytes
  <1>3. \A n \in Slot : kept[n].adr = a => l \notin ValidKept(n)
    BY <1>1, KeptStays
  <1>4. CASE ~Buffered(a, l)
    <2>1. mem[a][l] = image[a][l]
      BY <1>4 DEF DInv, ImageKept
    <2>2. mem'[a][l] = mem[a][l]
      <3>1. CASE Performs /\ wp_adr = a
        <4>1. mem'[a] = Over(wp_bytes, mem[a])
          BY <1>1, <3>1, MemoryType
        <4>2. l \notin DOMAIN wp_bytes
          BY <1>4, <3>1, SlotFacts DEF Buffered, Valid, wp_adr, wp_bytes
        <4>3. mem[a] \in [Lane -> Byte]
          BY <1>1 DEF LinesOK, Word
        <4> QED
          BY <4>1, <4>2, <4>3 DEF Over
      <3>2. CASE ~(Performs /\ wp_adr = a)
        BY <1>1, <3>2, MemoryType
      <3> QED
        BY <3>1, <3>2
    <2> QED
      BY <1>2, <2>1, <2>2
  <1>5. CASE Buffered(a, l)
    <2>1. PICK n \in Slot : wbuf[n].adr = a /\ l \in Valid(n)
      BY <1>5 DEF Buffered
    <2>2. sig_wbuf_remove /\ n = 0
      <3>1. sig_wbuf_remove
        BY <1>1, <1>3, <2>1, KeptIs DEF ValidKept, Valid
      <3>2. n # 0 => n - 1 \in Slot /\ n - 1 # MAX_WBUF_SIZE - 1 /\ (n - 1) + 1 = n
        BY SlotFacts
      <3>3. n # 0 => kept[n - 1] = wbuf[n]
        BY <1>1, <3>1, <3>2, KeptIs
      <3> QED
        BY <1>3, <2>1, <3>1, <3>2, <3>3 DEF ValidKept, Valid
    <2>3. a = wp_adr /\ l \in DOMAIN wp_bytes /\ wp_bytes[l] = image[a][l]
      BY <2>1, <2>2 DEF wp_adr, wp_bytes, Valid, DInv, ImageKept
    <2>4. ~wp_special
      BY <2>1 DEF wp_special, IsFlushed
    <2>5. CASE Performs
      <3>1. mem'[a] = Over(wp_bytes, mem[a])
        BY <1>1, <2>3, <2>5, MemoryType
      <3>2. mem'[a][l] = wp_bytes[l]
        BY <2>3, <3>1 DEF Over
      <3> QED
        BY <1>2, <2>3, <3>2
    <2>6. CASE ~Performs
      <3>1. ~wbuf_dirty0 \/ wp_performed
        BY <2>2, <2>4, <2>6 DEF Performs, wp_wr, sig_wbuf_remove
      <3>2. mem[a][l] = wp_bytes[l]
        BY <2>3, <3>1 DEF DInv, Entry0InMemory, wp_adr, wp_bytes, Valid
      <3>3. mem'[a] = mem[a]
        BY <1>1, <2>6, MemoryType
      <3> QED
        BY <1>2, <2>3, <3>2, <3>3
    <2> QED
      BY <2>5, <2>6
  <1> QED
    BY <1>4, <1>5

LEMMA ImageStep ==
  ASSUME DInv, LsuEdge, ExuEdge, MemoryEdge, HistoryEdge
  PROVE  ImageKept'
  <1> SUFFICES ASSUME NEW a \in Adr \ workload'.others, NEW l \in Lane
               PROVE  /\ \A n \in Slot : wbuf'[n].adr = a /\ l \in DOMAIN wbuf'[n].bytes =>
                           wbuf'[n].bytes[l] = image'[a][l]
                      /\ (\A n \in Slot : wbuf'[n].adr = a => l \notin DOMAIN wbuf'[n].bytes)
                           => mem'[a][l] = image'[a][l]
    BY DEF ImageKept, Buffered, Valid, Slot, Lane
  <1>1. workload' = workload
    BY DEF ExuEdge
  <1> QED
    BY <1>1, BufferImage, MemoryImage

\* A request that is acknowledged is withdrawn, another one is held.
LEMMA RequestStep ==
  ASSUME ExuOK, ExuEdge, exu.op # "none"
  PROVE  /\ ack => exu' = NoRequest
         /\ ~ack => exu' = exu
  <1>1. exu' \in {exu, NoRequest}
    BY DEF ExuEdge
  <1>2. NoRequest.op = "none"
    BY DEF NoRequest, ExuOK
  <1>3. /\ ack => exu'.op = "none"
        /\ ~ack => exu'.op = exu.op
    BY DEF ExuEdge, Client!Edge, Client!Hold, Client!Withdraw, Client!Request
  <1> QED
    BY <1>1, <1>2, <1>3

LEMMA CleanStep ==
  ASSUME DInv, LsuEdge, ExuEdge
  PROVE  CleanNotForwarded'
  <1> SUFFICES ASSUME ~wbuf_dirty0', Valid(0)' # {}, exu'.op = "rd"
               PROVE  ~Forwarded'
    BY DEF CleanNotForwarded
  <1>1. IInv /\ ExuOK
    BY DEF DInv, IInv
  <1>2. wbuf_dont_change0 /\ wbuf' = wbuf /\ ~sig_wbuf_write
    BY <1>1, CleanOnlyHeld
  <1>3. CASE exu.op = "rd"
    <2>1. ~ack /\ exu' = exu
      BY <1>1, <1>3, RequestStep DEF NoRequest, ExuOK
    <2>2. ~Forwarded
      BY <1>3, <2>1 DEF ack
    <2> QED
      BY <1>2, <2>1, <2>2 DEF Forwarded, WbufHit, bsel, Bsel, CacheOp, Valid, Lowest,
                              Slot, Lane
  <1>4. CASE exu.op = "wr"
    <2>1. ~ack
      BY <1>2, <1>4 DEF ack, wp_special, CacheOp
    <2> QED
      BY <1>1, <1>4, <2>1, RequestStep
  <1> QED
    BY <1>2, <1>3, <1>4 DEF wbuf_dont_change0

LEMMA LoadStep ==
  ASSUME DInv, LsuEdge, ExuEdge, MemoryEdge
  PROVE  LoadDue'
  <1>1. IInv /\ ExuOK /\ BufferOK
    BY DEF DInv, IInv
  <1>2. SUFFICES ASSUME exu.op = "rd", ack
                 PROVE  /\ exu'.op = "none"
                        /\ \A l \in bsel' :
                             (\A n \in Slot : wbuf'[n].adr = exu'.adr =>
                                                l \notin DOMAIN wbuf'[n].bytes)
                               => rp_data'[l] = mem'[exu'.adr][l]
    BY DEF ExuEdge, LoadDue, Buffered, Valid, Slot
  <1>3. exu' = NoRequest
    BY <1>1, <1>2, RequestStep
  <1>4. /\ exu'.op = "none" /\ exu'.adr = exu.adr
        /\ exu'.width = exu.width /\ exu'.ofs = exu.ofs
    BY <1>1, <1>3 DEF NoRequest, ExuOK
  <1>5. bsel' = bsel
    <2>1. ~CacheOp /\ ~CacheOp'
      BY <1>2, <1>4 DEF CacheOp
    <2> QED
      BY <1>4, <2>1 DEF bsel
  <1>6. ASSUME NEW l \in bsel,
               \A n \in Slot : wbuf'[n].adr = exu.adr => l \notin DOMAIN wbuf'[n].bytes
        PROVE  rp_data'[l] = mem'[exu.adr][l]
    <2>1. CASE rp_ack
      BY <2>1 DEF MemoryEdge
    <2>2. CASE ~rp_ack
      <3>1. Forwarded
        BY <1>2, <2>2 DEF ack, wp_special, CacheOp, sig_wbuf_write, sig_wbuf_entry_new,
                          sig_wbuf_entry, None, Slot
      <3>2. /\ WbufHit \in Slot /\ wbuf[WbufHit].adr = exu.adr
            /\ l \in Valid(WbufHit)
        BY <1>6, <3>1, HitFound DEF Forwarded
      <3>3. \E n \in Slot : kept[n].adr = exu.adr /\ l \in ValidKept(n)
        <4>1. CASE ~sig_wbuf_remove
          BY <1>1, <3>2, <4>1, KeptIs DEF Valid, ValidKept
        <4>2. CASE sig_wbuf_remove
          <5>1. WbufHit # 0
            BY <1>2, <3>1, <3>2, <4>2 DEF DInv, CleanNotForwarded, sig_wbuf_remove,
                                          wbuf_dont_change0
          <5>2. /\ WbufHit - 1 \in Slot /\ WbufHit - 1 # MAX_WBUF_SIZE - 1
                /\ (WbufHit - 1) + 1 = WbufHit
            BY <3>2, <5>1, SlotFacts
          <5>3. kept[WbufHit - 1] = wbuf[WbufHit]
            BY <1>1, <4>2, <5>2, KeptIs
          <5> QED
            BY <3>2, <5>2, <5>3 DEF Valid, ValidKept
        <4> QED
          BY <4>1, <4>2
      <3>4. \E n \in Slot : wbuf'[n].adr = exu.adr /\ l \in DOMAIN wbuf'[n].bytes
        BY <1>1, <3>3, KeptStays
      <3> QED
        BY <1>6, <3>4
    <2> QED
      BY <2>1, <2>2
  <1> QED
    BY <1>4, <1>5, <1>6

LEMMA NextData ==
  ASSUME DInv, [Next]_vars
  PROVE  DInv'
  <1>1. CASE Next
    <2>1. LsuEdge /\ ExuEdge /\ MemoryEdge /\ HistoryEdge
      BY <1>1 DEF Next
    <2>2. IInv'
      BY <1>1, NextInv DEF DInv
    <2>3. EntriesOK' /\ LinesOK'
      BY <1>1, <2>1, EntriesStep, LinesStep DEF DInv
    <2>4. Entry0InMemory'
      BY <2>1, Entry0Step
    <2>5. ImageKept'
      BY <2>1, ImageStep
    <2>6. CleanNotForwarded'
      BY <2>1, CleanStep
    <2>7. LoadDue'
      BY <2>1, LoadStep
    <2> QED
      BY <2>2, <2>3, <2>4, <2>5, <2>6, <2>7 DEF DInv
  <1>2. CASE UNCHANGED vars
    <2>1. UNCHANGED <<wbuf, wbuf_dirty0, exu, rp_ack, rp_data, wp_ack, workload, mem,
                      wp_performed, flushed, loaded, image, owed>>
      BY <1>2 DEF vars, lsuVars, lineVars
    <2>2. IInv'
      BY <1>2, NextInv DEF DInv
    <2>3. EntriesOK' /\ LinesOK' /\ Entry0InMemory'
      BY <2>1 DEF DInv, EntriesOK, LinesOK, Entry0InMemory, Valid
    <2>4. ImageKept'
      BY <2>1 DEF DInv, ImageKept, Buffered, Valid
    <2>5. CleanNotForwarded'
      BY <2>1 DEF DInv, CleanNotForwarded, Forwarded, WbufHit, bsel, Bsel, CacheOp, Valid,
                  Lowest
    <2>6. LoadDue'
      BY <2>1 DEF DInv, LoadDue, Buffered, bsel, Bsel, CacheOp, Valid
    <2> QED
      BY <2>2, <2>3, <2>4, <2>5, <2>6 DEF DInv
  <1> QED
    BY <1>1, <1>2

LEMMA DataInvariance == Spec => []DInv
  BY InitData, NextData, PTL DEF Spec

-----------------------------------------------------------------------------
(* I/O stores.                                                             *)

\* Only entry 0 is ever for an I/O address.
SpecialFirst ==
  \A n \in Slot \ {0} : Valid(n) # {} => wbuf[n].adr \notin SpecialAdr

LEMMA SpecialStep ==
  ASSUME IInv, SpecialFirst, LsuEdge
  PROVE  SpecialFirst'
  <1> DEFINE e == sig_wbuf_entry_new
  <1> SUFFICES ASSUME NEW n \in Slot \ {0}, DOMAIN wbuf'[n].bytes # {}
               PROVE  wbuf'[n].adr \notin SpecialAdr
    BY DEF SpecialFirst, Valid, Slot
  <1>1. ValidKept(n) # {} => kept[n].adr \notin SpecialAdr
    <2>1. CASE ~sig_wbuf_remove
      BY <2>1, KeptIs DEF IInv, SpecialFirst, Valid, ValidKept
    <2>2. CASE sig_wbuf_remove /\ n # MAX_WBUF_SIZE - 1
      <3>1. n + 1 \in Slot \ {0} /\ kept[n] = wbuf[n + 1]
        BY <2>2, KeptIs, SlotFacts DEF IInv
      <3> QED
        BY <3>1 DEF SpecialFirst, Valid, ValidKept
    <2>3. CASE sig_wbuf_remove /\ n = MAX_WBUF_SIZE - 1
      BY <2>3, KeptIs DEF IInv
    <2> QED
      BY <2>1, <2>2, <2>3
  <1>2. CASE ~sig_wbuf_write \/ n # e
    <2>1. wbuf'[n] = kept[n]
      BY <1>2, EdgeBuffer DEF IInv
    <2> QED
      BY <1>1, <2>1 DEF ValidKept
  <1>3. CASE sig_wbuf_write /\ n = e
    <2>1. exu.adr \notin SpecialAdr
      BY <1>3 DEF sig_wbuf_write
    <2>2. wbuf'[n] = NewEntry
      BY <1>3, EdgeBuffer DEF IInv
    <2> QED
      BY <2>1, <2>2, NewBytes
  <1> QED
    BY <1>2, <1>3

LEMMA SpecialInvariance == Spec => []SpecialFirst
  <1>1. Init => SpecialFirst
    BY DEF Init, LsuInit, EmptyEntry, SpecialFirst, Valid
  <1>2. IInv /\ SpecialFirst /\ [Next]_vars => SpecialFirst'
    <2>1. ASSUME IInv, SpecialFirst, Next PROVE SpecialFirst'
      BY <2>1, SpecialStep DEF Next
    <2>2. ASSUME SpecialFirst, UNCHANGED vars PROVE SpecialFirst'
      BY <2>2 DEF vars, lsuVars, SpecialFirst, Valid
    <2> QED
      BY <2>1, <2>2
  <1> QED
    BY <1>1, <1>2, Invariance, PTL DEF Spec

-----------------------------------------------------------------------------
(* The theorems.                                                           *)

\* FindWbufHit and FindEmptyWbufEntry never leave two entries for a word.
THEOREM OneEntry == Spec => []OneEntryPerWord
  <1>1. IInv => OneEntryPerWord
    BY DEF IInv
  <1> QED
    BY <1>1, Invariance, PTL

\* A flush is acknowledged when all stores are in memory.
THEOREM FlushComplete == Spec => []FlushWrites
  <1>1. IInv => FlushWrites
    <2> SUFFICES ASSUME IInv, exu.op = "flush", ack
                 PROVE  owed = {}
      BY DEF FlushWrites
    <2>1. ~CacheOp
      BY DEF CacheOp
    <2>2. ~sig_wbuf_write
      BY <2>1, WriteOf
    <2>3. IsFlushed
      BY <2>1, <2>2 DEF ack, wp_special
    <2> QED
      BY <2>3 DEF IInv, OwedInBuffer, IsFlushed, Bytes
  <1> QED
    BY <1>1, Invariance, PTL

\* The buffer changes only behind the back of the write port.
THEOREM WriteHeld == Spec => WritePortHeld
  <1> DEFINE Held == CacheOps = {} /\ wp_wr /\ ~wp_ack =>
                       wp_wr' /\ wp_adr' = wp_adr /\ wp_bytes' = wp_bytes
  <1>1. ASSUME IInv, Next, CacheOps = {}, wp_wr, ~wp_ack
        PROVE  wp_wr' /\ wp_adr' = wp_adr /\ wp_bytes' = wp_bytes
    <2>1. LsuEdge /\ ExuEdge /\ ExuOK
      BY <1>1 DEF Next, IInv
    <2>2. wbuf_dirty0
      BY <1>1 DEF wp_wr
    <2>3. workload' = workload /\ ExuOK'
      BY <2>1, ExuStep DEF ExuEdge
    <2>4. ~CacheOp /\ ~CacheOp'
      BY <1>1, <2>1, <2>3 DEF ExuOK, CacheOps, CacheOp
    <2>5. ~sig_wbuf_remove /\ (sig_wbuf_write => sig_wbuf_entry_new # 0)
      <3>1. sig_wbuf_write => exu.op = "wr"
        BY <2>4, WriteOf
      <3> QED
        BY <1>1, <2>2, <3>1, Entry0Kept
    <2>6. wbuf'[0] = wbuf[0]
      <3>1. kept = wbuf
        BY <2>5, KeptIs, <1>1 DEF IInv
      <3>2. wbuf'[0] = kept[0]
        BY <1>1, <2>1, <2>5, EdgeBuffer, SlotFacts DEF IInv
      <3> QED
        BY <3>1, <3>2
    <2>7. wbuf_dirty0'
      BY <1>1, <2>1, <2>2, <2>5 DEF LsuEdge, Dirty0
    <2>8. wp_wr'
      BY <2>4, <2>7 DEF wp_wr, wp_special
    <2> QED
      BY <2>6, <2>8 DEF wp_adr, wp_bytes
  <1>2. IInv /\ [Next]_vars => [Held]_vars
    BY <1>1
  <1>3. [][Held]_vars => WritePortHeld
    BY PTL DEF WritePortHeld
  <1> HIDE DEF Held
  <1> QED
    BY <1>2, <1>3, Invariance, PTL DEF Spec

\* The registers and lines of the load & store unit stay in their types.
THEOREM TypeCorrect == Spec => []TypeOK
  <1>1. DInv => TypeOK
    BY DEF DInv, IInv, ExuOK, EntriesOK, LinesOK, TypeOK
  <1> QED
    BY <1>1, DataInvariance, PTL

\* A load returns the bytes that the EXU stored last, whether they are in the
\* buffer, in memory or on their way, in all alignments of loads and stores.
THEOREM LoadsRight == Spec => []LoadsSeeStores
  <1>1. DInv => LoadsSeeStores
    <2> SUFFICES ASSUME DInv, loaded, exu.adr \notin workload.others, NEW l \in bsel
                 PROVE  rdata[l] = image[exu.adr][l]
      BY DEF LoadsSeeStores
    <2>1. exu.adr \in Adr \ workload.others /\ l \in Lane
      BY BselInLane DEF DInv, IInv, ExuOK
    <2>2. ~Buffered(exu.adr, l) => rp_data[l] = image[exu.adr][l]
      BY <2>1 DEF DInv, LoadDue, ImageKept
    <2>3. CASE WbufHit = None
      <3>1. ~Buffered(exu.adr, l)
        BY <2>3, HitFound, SlotFacts DEF Buffered
      <3> QED
        BY <2>2, <2>3, <3>1 DEF rdata
    <2>4. CASE WbufHit # None
      <3>1. WbufHit \in Slot /\ wbuf[WbufHit].adr = exu.adr /\ Valid(WbufHit) # {}
        BY <2>4, HitFound
      <3>2. rdata = Over(wbuf[WbufHit].bytes, rp_data)
        BY <2>4 DEF rdata
      <3>3. CASE l \in Valid(WbufHit)
        <4>1. rdata[l] = wbuf[WbufHit].bytes[l]
          BY <3>2, <3>3 DEF Over, Valid
        <4> QED
          BY <2>1, <3>1, <3>3, <4>1 DEF DInv, ImageKept
      <3>4. CASE l \notin Valid(WbufHit)
        <4>1. ~Buffered(exu.adr, l)
          BY <3>1, <3>4 DEF Buffered, DInv, IInv, OneEntryPerWord
        <4>2. l \in DOMAIN rp_data
          BY <2>1 DEF DInv, LinesOK, Word
        <4>3. rdata[l] = rp_data[l]
          BY <3>2, <3>4, <4>2 DEF Over, Valid
        <4> QED
          BY <2>2, <4>1, <4>3
      <3> QED
        BY <3>3, <3>4
    <2> QED
      BY <2>3, <2>4
  <1> QED
    BY <1>1, DataInvariance, PTL

\* An I/O store is taken in only when memory has all earlier stores, and no later
\* store is written before it.
THEOREM SpecialOrdered == Spec => SpecialInOrder
  <1> DEFINE Ordered ==
        /\ exu.op = "wr" /\ ack /\ exu.adr \in SpecialAdr => owed' = Bytes(exu.adr, bsel)
        /\ Performs /\ owed \cap (SpecialAdr \X Lane) # {} => wp_adr \in SpecialAdr
  <1>1. ASSUME IInv, Next, exu.op = "wr", ack, exu.adr \in SpecialAdr
        PROVE  owed' = Bytes(exu.adr, bsel)
    <2>1. LsuEdge /\ MemoryEdge /\ HistoryEdge
      BY <1>1 DEF Next
    <2>2. sig_wbuf_write
      BY <1>1 DEF ack, wp_special, CacheOp
    <2>3. \A n \in Slot : ValidKept(n) = {}
      BY <1>1, <2>2, StorePlaced DEF IInv
    <2>4. \A x \in owed : Performs /\ x \in Bytes(wp_adr, DOMAIN wp_bytes)
      <3> SUFFICES ASSUME NEW x \in owed, Performs => x \notin Bytes(wp_adr, DOMAIN wp_bytes)
                   PROVE  FALSE
        OBVIOUS
      <3>1. \E n \in Slot : x \in Bytes(kept[n].adr, ValidKept(n))
        BY <1>1, <2>1, OwedKept DEF IInv
      <3> QED
        BY <2>3, <3>1 DEF Bytes
    <2> QED
      BY <1>1, <2>1, <2>4 DEF HistoryEdge
  <1>2. ASSUME IInv, SpecialFirst, owed \cap (SpecialAdr \X Lane) # {}
        PROVE  wp_adr \in SpecialAdr
    <2>1. PICK x \in owed : x \in SpecialAdr \X Lane
      BY <1>2
    <2>2. PICK n \in Slot : x \in Bytes(wbuf[n].adr, Valid(n))
      BY <1>2 DEF IInv, OwedInBuffer
    <2>3. wbuf[n].adr \in SpecialAdr /\ Valid(n) # {}
      BY <2>1, <2>2 DEF Bytes
    <2>4. n = 0
      BY <1>2, <2>3 DEF SpecialFirst
    <2> QED
      BY <2>3, <2>4 DEF wp_adr
  <1>3. IInv /\ SpecialFirst /\ [Next]_vars => [Ordered]_vars
    BY <1>1, <1>2
  <1>4. [][Ordered]_vars => SpecialInOrder
    BY PTL DEF SpecialInOrder
  <1> HIDE DEF Ordered
  <1> QED
    BY <1>3, <1>4, Invariance, SpecialInvariance, PTL DEF Spec

=============================================================================
