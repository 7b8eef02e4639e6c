----------------------------- MODULE TagRamLru ------------------------------
(***************************************************************************)
(* The replacement policy of the tag RAM against its definition: the way   *)
(* a miss reports is the least recently used one.                          *)
(*                                                                         *)
(* One port reads and writes the tag RAM in the pattern of the ports of    *)
(* MMemu: a tag is read at one edge, or at two by a read port that waits   *)
(* for its bank, and a tag is written back in the way that was read.       *)
(* "order" is the reference: the ways, least recently used first.          *)
(***************************************************************************)
EXTENDS MTagRam

CONSTANT LruAdr         \* addresses the port accesses

ASSUME LruAssumption ==
  /\ CPU_CORES = 1 /\ CACHE_SETS = 1
  /\ CACHE_WAYS \in {2, 4}
  /\ LruAdr \subseteq CachedAdr

VARIABLES
  order,        \* the ways in the order of their last use
  adr,          \* address of the current access
  phase         \* "idle", "none": no access yet, "read": a tag was just read

vars == <<tagRamVars, order, adr, phase>>

\* The way comes last, and those behind it move up.
Used(way) ==
  [n \in 1 .. CACHE_WAYS |->
     IF n = CACHE_WAYS THEN way
     ELSE IF way \in {order[m] : m \in 1 .. n} THEN order[n + 1] ELSE order[n]]

\* One edge with read and write strobe of the only port.
Edge(rd, wr, a, valid) ==
  TagRamEdge(IF rd THEN {0} ELSE {}, IF wr THEN {0} ELSE {}, [n \in CPU |-> a],
             [n \in CPU |-> [valid |-> valid, dirty |-> FALSE,
                             tadr |-> GetTagOfAdr(a), way |-> tag_out[0].way]])

Init ==
  /\ TagRamInit
  /\ order = [n \in 1 .. CACHE_WAYS |-> n - 1]
  /\ adr = DontCare
  /\ phase = "none"

Read ==
  /\ phase # "read" /\ ~tag_busy
  /\ \E a \in LruAdr : Edge(TRUE, FALSE, a, FALSE) /\ adr' = a
  /\ phase' = "read"
  /\ UNCHANGED order

\* The clock after: the read port reads again, the write port does not.
Settle ==
  /\ phase = "read"
  /\ \E again \in BOOLEAN : Edge(again, FALSE, adr, FALSE)
  /\ phase' = "idle"
  /\ order' = IF tag_out[0].valid THEN Used(tag_out[0].way) ELSE order
  /\ UNCHANGED adr

\* The tag of the current access is written: marked dirty, or replaced, with
\* an invalid tag first.
Write ==
  /\ phase = "idle" /\ ~tag_busy
  /\ \E valid \in BOOLEAN : Edge(FALSE, TRUE, adr, valid)
  /\ order' = Used(tag_out[0].way)
  /\ UNCHANGED <<adr, phase>>

Pause ==
  /\ phase # "read"
  /\ Edge(FALSE, FALSE, DontCare, FALSE)
  /\ UNCHANGED <<order, adr, phase>>

Next == Read \/ Settle \/ Write \/ Pause

Spec == Init /\ [][Next]_vars

-----------------------------------------------------------------------------
\* The other policy, CACHE_REPLACE_LRU = 0, takes the way from a shift register
\* (MTagRam::MainThread).
Lfsr == INSTANCE MLfsr

\* Its sequence is as long as it can be, and so is that of the arbiter; of the
\* other "prime polynomials" (lfsr.cpp) up to degree 8 one is not prime.
ASSUME PrimePolynomials == Lfsr!PrimePolynomials

\* GetNewUse and the delayed write-back of 'use' words keep the ways in the
\* order of their last use, so that a miss always evicts the least recently
\* used one.
LeastRecentlyUsed ==
  phase = "idle" /\ ~use_reg[0].wr =>
    \A n \in 1 .. CACHE_WAYS - 1 : Field(tag_ram[0].use, n - 1) = order[n]

=============================================================================
