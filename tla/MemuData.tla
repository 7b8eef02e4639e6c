------------------------------ MODULE MemuData ------------------------------
(***************************************************************************)
(* The data the memory unit moves.  A word is a function from byte lanes   *)
(* to bytes, so that the byte selects of partial writes keep their         *)
(* meaning with few lanes and few byte values.                             *)
(***************************************************************************)
EXTENDS MemuConfig

CONSTANTS
  Lane,           \* byte lanes of a word
  Byte,           \* values of a byte
  CachedAdr,      \* word addresses that are accessed through the cache
  DirectAdr       \* word addresses that are accessed directly

Word == [Lane -> Byte]

\* What a register holds before it is written.
AnyWord == CHOOSE w \in Word : TRUE

\* Word addresses of the cache line that holds adr.
LineOf(adr) ==
  {ComposeAdress(GetTagOfAdr(adr), GetIndexOfAdr(adr), b) : b \in Bank}

\* External memory holds whole lines.
MemAdr == (UNION {LineOf(a) : a \in CachedAdr}) \cup DirectAdr

ASSUME DataAssumption ==
  /\ Byte # {}
  /\ Lane # {}
  /\ CachedAdr \subseteq {a \in Nat : a % 4 = 0}
  /\ DirectAdr \subseteq {a \in Nat : a % 4 = 0}
  /\ DirectAdr \cap UNION {LineOf(a) : a \in CachedAdr} = {}

\* SCacheTag: what the tag RAM returns and takes.
TagAdr == {GetTagOfAdr(a) : a \in CachedAdr} \cup {0}
Tag    == [valid : BOOLEAN, dirty : BOOLEAN, tadr : TagAdr, way : Way]

NoTag  == [valid |-> FALSE, dirty |-> FALSE, tadr |-> 0, way |-> 0]

CombineData(bsel, word0, word1) ==
  [l \in Lane |-> IF l \in bsel THEN word1[l] ELSE word0[l]]

=============================================================================
