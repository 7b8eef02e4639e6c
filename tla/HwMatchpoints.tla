--------------------------- MODULE HwMatchpoints ----------------------------
(***************************************************************************)
(* Hardware breakpoints and watchpoints (GdbServerSC::rspInsertMatchpoint, *)
(* GdbServerSC::rspRemoveMatchpoint): eight pairs of registers of the      *)
(* debug unit, DCR what to compare with and DVR the address, and in DMR2   *)
(* the pairs that generate breakpoints.                                    *)
(*                                                                         *)
(* A pure algorithm on these registers.  The registers themselves are the  *)
(* hardware's: they keep what is written, if the processor has them, and   *)
(* otherwise read as 0.                                                    *)
(***************************************************************************)
EXTENDS Naturals

Pair == 0..7

MatchType == {"BP_HARDWARE", "WP_WRITE", "WP_READ", "WP_ACCESS"}

NoMatchpoints == [DCR |-> [n \in Pair |-> 0], DVR |-> [n \in Pair |-> 0], WGB |-> {}]

\* What insertion writes to DCR.
Control == [BP_HARDWARE |-> 34, WP_WRITE |-> 98, WP_READ |-> 66, WP_ACCESS |-> 194]

\* What removal looks for: the same with DP set, the bit that tells the pair is there.
Sought == [BP_HARDWARE |-> 35, WP_WRITE |-> 99, WP_READ |-> 67, WP_ACCESS |-> 195]

CompareTo(control) == (control \div 32) % 8

First(pairs) == CHOOSE n \in pairs : \A m \in pairs : n <= m

Free(du) == {n \in Pair : CompareTo(du.DCR[n]) = 0}

Stored(du, new, present) == IF present THEN new ELSE du

Insert(du, type, addr, present) ==
  IF Free(du) = {} THEN [reply |-> "", du |-> du]
  ELSE LET n == First(Free(du)) IN
         [reply |-> "OK",
          du |-> Stored(du, [DCR |-> [du.DCR EXCEPT ![n] = Control[type]],
                             DVR |-> [du.DVR EXCEPT ![n] = addr],
                             WGB |-> du.WGB \cup {n}], present)]

Found(du, type, addr) == {n \in Pair : du.DCR[n] = Sought[type] /\ du.DVR[n] = addr}

Remove(du, type, addr, present) ==
  IF Found(du, type, addr) = {} THEN [reply |-> "E02", du |-> du]
  ELSE LET n == First(Found(du, type, addr)) IN
         [reply |-> "OK",
          du |-> Stored(du, [DCR |-> [du.DCR EXCEPT ![n] = 0],
                             DVR |-> [du.DVR EXCEPT ![n] = 0],
                             WGB |-> du.WGB \ {n}], present)]

-----------------------------------------------------------------------------
(* Properties.                                                             *)

\* The registers after some insertions of one type.
Inserted(count, type, addr, present) ==
  LET after[n \in 0..count] ==
        IF n = 0 THEN NoMatchpoints ELSE Insert(after[n - 1], type, addr, present).du
  IN after[count]

\* No matchpoint can be removed: where the registers keep what is written they fill
\* up, where there are none every insertion is confirmed and none has an effect.
Stays(type, other, addr, count, present) ==
  LET du == Inserted(count, type, addr, present) IN
    /\ Remove(du, other, addr, present).reply = "E02"
    /\ Insert(du, other, addr, present).reply = IF present /\ count >= 8 THEN "" ELSE "OK"
    /\ ~present => du = NoMatchpoints

NeverRemoved ==
  \A type, other \in MatchType, addr \in 1..2, count \in 0..9, present \in BOOLEAN :
    Stays(type, other, addr, count, present)

=============================================================================
