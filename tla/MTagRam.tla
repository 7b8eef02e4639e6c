------------------------------ MODULE MTagRam -------------------------------
(***************************************************************************)
(* The tag RAM with LRU replacement (MTagRam, sysc/memu.cpp).              *)
(*                                                                         *)
(* It has one port per CPU.  A read takes one clock, and a hit leaves a    *)
(* new 'use' word in a register of the port, from where it is written back *)
(* at an edge without an external write.  A write takes two clocks: at     *)
(* the edge that ends the second one the RAM serves nobody.                *)
(***************************************************************************)
EXTENDS MemuData

\* CACHE_WAYS_LD: "supported values are 0..2" (config.h).
ASSUME WaysAssumption == CACHE_WAYS \in {1, 2, 4}

VARIABLES
  tagram_ready,
  tag_ram,      \* index -> entry
  use_reg,      \* port -> pending 'use' word and its index
  tag_out,      \* port -> tag read last
  tag_busy      \* in the second clock of a write

tagRamVars == <<tagram_ready, tag_ram, use_reg, tag_out, tag_busy>>

-----------------------------------------------------------------------------
(* The 'use' word of a 4-way cache holds the ways in the order of their    *)
(* last use in bits 1:0, 3:2 and 5:4, least recently used first.  The most *)
(* recently used way is the one missing.                                   *)

Xor2(a, b) == ((a + b) % 2) + 2 * ((a \div 2 + b \div 2) % 2)

Field(use, n) == (use \div 4^n) % 4

\* Removes bits 2n+1:2n from the word.
DropField(use, n) == (use % 4^n) + (use \div 4^(n + 1)) * 4^n

\* Faulty variant of GetNewUse: a field too few is searched for the way.
GetNewUse_TwoFields(oldUse, way) ==
  LET missing == Xor2(Xor2(Field(oldUse, 2), Field(oldUse, 1)), Field(oldUse, 0))
      full    == oldUse + missing * 64
      found   == {n \in 0 .. 1 : Field(full, n) = way}
  IN  (IF found = {} THEN full
       ELSE DropField(full, CHOOSE n \in found : TRUE)) % 64

GetNewUse(oldUse, way) ==
  CASE CACHE_WAYS = 1 -> 0
    [] CACHE_WAYS = 2 -> 1 - way
    [] CACHE_WAYS = 4 ->
         LET missing == Xor2(Xor2(Field(oldUse, 2), Field(oldUse, 1)),
                             Field(oldUse, 0))
             full    == oldUse + missing * 64
             found   == {n \in 0 .. 2 : Field(full, n) = way}
         IN  (IF found = {} THEN full
              ELSE DropField(full, CHOOSE n \in found : TRUE)) % 64

-----------------------------------------------------------------------------
ResetUse == IF CACHE_WAYS = 4 THEN 36 ELSE 0    \* 0x24 = 10.01.00b

\* 'adr' of a port that nobody has been granted: index of all ones, a tag
\* address that no entry holds.
DontCare == -1
IndexOf(adr) == IF adr = DontCare THEN CACHE_SETS - 1 ELSE GetIndexOfAdr(adr)

HitWays(entry, adr) ==
  {w \in Way : /\ entry.way[w].valid
               /\ adr # DontCare
               /\ entry.way[w].tadr = GetTagOfAdr(adr)}

\* The way a read reports: the hit, or the least recently used one.
ReadWay(entry, adr) ==
  IF HitWays(entry, adr) # {} THEN CHOOSE w \in HitWays(entry, adr) : TRUE
  ELSE entry.use % CACHE_WAYS

ReadTag(entry, adr) ==
  LET w == ReadWay(entry, adr)
  IN  [valid |-> HitWays(entry, adr) # {},
       dirty |-> entry.way[w].dirty, tadr |-> entry.way[w].tadr, way |-> w]

NoUse == [wr |-> FALSE, iadr |-> 0, use |-> 0]

\* The port's use register after a read.
ReadUse(entry, adr, old) ==
  LET new == GetNewUse(entry.use, ReadWay(entry, adr))
  IN  IF HitWays(entry, adr) = {} THEN old
      ELSE IF new = entry.use THEN NoUse
      ELSE [wr |-> TRUE, iadr |-> IndexOf(adr), use |-> new]

\* Faulty variant: a tag is always written to the way to be replaced.
WriteEntry_LruWay(entry, tag) ==
  [way |-> [entry.way EXCEPT ![entry.use % CACHE_WAYS] =
              [valid |-> tag.valid, dirty |-> tag.dirty, tadr |-> tag.tadr]],
   use |-> GetNewUse(entry.use, tag.way)]

WriteEntry(entry, tag) ==
  [way |-> [entry.way EXCEPT ![tag.way] =
              [valid |-> tag.valid, dirty |-> tag.dirty, tadr |-> tag.tadr]],
   use |-> GetNewUse(entry.use, tag.way)]

-----------------------------------------------------------------------------
TagRamInit ==
  /\ tagram_ready = FALSE
  /\ tag_ram = [i \in Index |->
       [way |-> [w \in Way |-> [valid |-> FALSE, dirty |-> FALSE, tadr |-> 0]],
        use |-> ResetUse]]
  /\ use_reg = [n \in CPU |-> NoUse]
  /\ tag_out = [n \in CPU |-> NoTag]
  /\ tag_busy = FALSE

\* rd and wr are sets of ports, adr and tag_in functions of the port.
TagRamServe(rd, wr, adr, tag_in) ==
  LET Entry(n) == tag_ram[IndexOf(adr[n])]
      use      == [n \in CPU |-> IF n \in rd
                                 THEN ReadUse(Entry(n), adr[n], use_reg[n])
                                 ELSE use_reg[n]]
      \* Signals written at this edge are read at the next one.
      pending  == {n \in CPU : use_reg[n].wr}
      first    == CHOOSE n \in pending : \A m \in pending : n <= m
      writer   == CHOOSE n \in wr : \A m \in wr : m <= n
  IN  /\ tag_out' = [n \in CPU |-> IF n \in rd THEN ReadTag(Entry(n), adr[n])
                                   ELSE tag_out[n]]
      /\ IF wr # {}
         THEN /\ tag_ram' = [tag_ram EXCEPT ![IndexOf(adr[writer])] =
                               WriteEntry(@, tag_in[writer])]
              /\ use_reg' = use
              /\ tag_busy' = TRUE
         ELSE IF pending # {}
         THEN /\ tag_ram' = [tag_ram EXCEPT ![use_reg[first].iadr].use =
                               use_reg[first].use]
              /\ use_reg' = [use EXCEPT ![first] = NoUse]
              /\ tag_busy' = FALSE
         ELSE /\ UNCHANGED tag_ram
              /\ use_reg' = use
              /\ tag_busy' = FALSE

TagRamPause ==
  /\ tag_busy' = FALSE
  /\ UNCHANGED <<tag_ram, use_reg, tag_out>>

\* The RAM is ready from the first edge after reset on.
TagRamEdge(rd, wr, adr, tag_in) ==
  /\ tagram_ready' = TRUE
  /\ \/ tag_busy /\ TagRamPause
     \/ ~tag_busy /\ TagRamServe(rd, wr, adr, tag_in)

=============================================================================
