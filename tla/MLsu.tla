-------------------------------- MODULE MLsu --------------------------------
(***************************************************************************)
(* The load & store unit of a CPU (MLsu, sysc/lsu.cpp): a write buffer     *)
(* between the execution unit (EXU) and a read and a write port of the     *)
(* memory unit.                                                            *)
(*                                                                         *)
(* Entry 0 of the buffer is the one being written to memory.  An entry     *)
(* holds the bytes that are valid, a function whose domain is wbuf_valid.  *)
(* The request of the EXU is the record exu: op ("none", "rd", "wr",       *)
(* "flush", "writeback", "invalidate" or "writeback_invalidate"), width    *)
(* (0 word, 1 byte, 2 half word), adr (a word), ofs (adr & 3) and wdata    *)
(* (as it is laid out on the four byte lanes).                             *)
(***************************************************************************)
EXTENDS Integers, Functions

CONSTANTS
  MAX_WBUF_SIZE,
  Byte,
  Adr,              \* word addresses
  SpecialAdr        \* I/O addresses (AdrIsSpecial)

ASSUME LsuAssumption ==
  /\ MAX_WBUF_SIZE \in Nat \ {0, 1}
  /\ Byte # {}
  /\ Adr # {} /\ SpecialAdr \subseteq Adr

VARIABLES
  wbuf, wbuf_dirty0,      \* registers
  exu,                    \* request lines of the EXU
  rp_ack, rp_data, wp_ack \* lines of the memory unit

Lane  == 0 .. 3
Word  == [Lane -> Byte]
Slot  == 0 .. MAX_WBUF_SIZE - 1
None  == -1

\* The bytes of g over those of f, and the merge of bytes into a word.
Over(g, f) == [l \in DOMAIN g \cup DOMAIN f |-> IF l \in DOMAIN g THEN g[l]
                                                ELSE f[l]]

-----------------------------------------------------------------------------
(* Byte selects.  In "adr & 3 != 0" the comparison binds first, so both    *)
(* alignment checks of the code look at bit 0 only.                        *)

AlignErr(width, ofs) == width # 1 /\ ofs % 2 # 0

Bsel(width, ofs) ==
  CASE width = 0 -> Lane
    [] width = 1 -> {ofs}
    [] width = 2 -> {l \in Lane : l \in {ofs, ofs + 1}}

CacheOp == exu.op \in {"writeback", "invalidate", "writeback_invalidate"}
bsel    == IF CacheOp THEN {} ELSE Bsel(exu.width, exu.ofs)

-----------------------------------------------------------------------------
(* The buffer (FindWbufHit, FindEmptyWbufEntry, IsFlushed).                *)

Valid(n) == DOMAIN wbuf[n].bytes

Lowest(S) == IF S = {} THEN None ELSE CHOOSE n \in S : \A m \in S : n <= m

WbufHit   == Lowest({n \in Slot : wbuf[n].adr = exu.adr /\ Valid(n) # {}})
WbufEmpty == Lowest({n \in Slot : Valid(n) = {}})

\* Faulty variant: the entry being written is left out.
IsFlushed_NotSlot0 == \A n \in Slot \ {0} : Valid(n) = {}

IsFlushed == \A n \in Slot : Valid(n) = {}

-----------------------------------------------------------------------------
(* OutputMethod.                                                           *)

\* All bytes of a read come from the buffer.
Forwarded == WbufHit # None /\ bsel \subseteq Valid(WbufHit)

rp_rd == exu.op = "rd" /\ ~Forwarded

rdata == IF WbufHit = None THEN rp_data ELSE Over(wbuf[WbufHit].bytes, rp_data)

\* Requests to the write port.
wp_special == IsFlushed /\ CacheOp
wp_wr      == wbuf_dirty0 /\ ~wp_special
wp_adr     == wbuf[0].adr
wp_bytes   == wbuf[0].bytes

\* Faulty variant: a new entry while the matching one is being written.
WriteEntry_NewWhileDirty ==
  IF WbufHit # None /\ exu.adr \notin SpecialAdr /\ ~(WbufHit = 0 /\ wbuf_dirty0)
  THEN WbufHit
  ELSE IF WbufEmpty # None THEN WbufEmpty
  ELSE MAX_WBUF_SIZE

\* sig_wbuf_entry: where a new entry goes, before the buffer moves up.
WriteEntry ==
  IF WbufHit # None /\ exu.adr \notin SpecialAdr THEN WbufHit
  ELSE IF WbufEmpty # None THEN WbufEmpty
  ELSE MAX_WBUF_SIZE
sig_wbuf_entry ==
  CASE exu.op = "wr" -> WriteEntry
    [] CacheOp       -> IF IsFlushed THEN 0 ELSE None
    [] OTHER         -> None

\* Faulty variants: entry 0 does not stay while it is read, while it is being
\* written, or never takes a store.
wbuf_dont_change0_Read ==
  wbuf_dirty0 /\ exu.op = "wr" /\ sig_wbuf_entry = 0
wbuf_dont_change0_Write ==
  wbuf_dirty0 /\ exu.op = "rd" /\ WbufHit = 0
wbuf_dont_change0_Clean ==
  \/ exu.op = "rd" /\ WbufHit = 0
  \/ exu.op = "wr" /\ sig_wbuf_entry = 0

\* Entry 0 stays while it is read and while it is being written.
wbuf_dont_change0 ==
  /\ wbuf_dirty0
  /\ \/ exu.op = "rd" /\ WbufHit = 0
     \/ exu.op = "wr" /\ sig_wbuf_entry = 0

sig_wbuf_remove ==
  /\ ~wbuf_dont_change0
  /\ ~wbuf_dirty0 \/ wp_ack
  /\ sig_wbuf_entry # 0

sig_wbuf_entry_new == IF sig_wbuf_remove THEN sig_wbuf_entry - 1
                      ELSE sig_wbuf_entry

\* Faulty variant: an I/O store does not wait for the earlier ones.
sig_wbuf_write_Special ==
  sig_wbuf_entry_new \in Slot /\ ~wbuf_dont_change0

sig_wbuf_write ==
  /\ sig_wbuf_entry_new \in Slot
  /\ exu.adr \in SpecialAdr => sig_wbuf_entry_new = 0
  /\ ~wbuf_dont_change0

ack ==
  \/ exu.op = "rd" /\ (Forwarded \/ rp_ack)
  \/ exu.op = "flush" /\ IsFlushed
  \/ wp_special /\ wp_ack
  \/ sig_wbuf_write

-----------------------------------------------------------------------------
(* TransitionThread.                                                       *)

EmptyEntry(adr) == [adr |-> adr, bytes |-> <<>>]

LsuInit ==
  /\ wbuf = [n \in Slot |-> EmptyEntry(CHOOSE a \in Adr : TRUE)]
  /\ wbuf_dirty0 = FALSE

\* The bytes of the entry that is merged with; a full buffer has none yet.
OldBytes == IF sig_wbuf_entry \in Slot THEN wbuf[sig_wbuf_entry].bytes ELSE <<>>

NewEntry ==
  [adr |-> exu.adr, bytes |-> Over(Restrict(exu.wdata, bsel), OldBytes)]

MovedUp ==
  [n \in Slot |-> IF n = MAX_WBUF_SIZE - 1 THEN EmptyEntry(wbuf[n].adr)
                  ELSE wbuf[n + 1]]

\* Faulty variant: the entry that moves to slot 0 is taken for written.
Dirty0_NotMoved ==
  \/ sig_wbuf_write /\ sig_wbuf_entry_new = 0
  \/ wbuf_dirty0 /\ ~wp_ack /\ ~sig_wbuf_remove

Dirty0 ==
  IF sig_wbuf_write /\ sig_wbuf_entry_new = 0 THEN TRUE
  ELSE IF sig_wbuf_remove THEN Valid(1) # {}
  ELSE wbuf_dirty0 /\ ~wp_ack

LsuEdge ==
  /\ wbuf' = LET kept == IF sig_wbuf_remove THEN MovedUp ELSE wbuf
             IN  IF sig_wbuf_write
                 THEN [kept EXCEPT ![sig_wbuf_entry_new] = NewEntry]
                 ELSE kept
  /\ wbuf_dirty0' = Dirty0

=============================================================================
