------------------------------ MODULE LsuClient -----------------------------
(***************************************************************************)
(* How the execution unit makes requests to the load & store unit: what    *)
(* LsuSystem takes for granted and MExu keeps to.                          *)
(*                                                                         *)
(* A request is held until it is acknowledged, then there is none for a    *)
(* clock, in which the address stays.  A cache operation comes right after *)
(* that clock of a flush, for the address of the flush.                    *)
(***************************************************************************)
VARIABLES op, adr, ack, flushed

CacheOp == {"writeback", "invalidate", "writeback_invalidate"}

Hold     == op # "none" /\ ~ack /\ UNCHANGED <<op, adr>>
Withdraw == op # "none" /\ ack /\ op' = "none" /\ UNCHANGED adr
Request  == op = "none" /\ (op' \in CacheOp => flushed /\ adr' = adr)

Edge == /\ Hold \/ Withdraw \/ Request
        /\ flushed' = (op = "flush" /\ ack)

Init == op = "none" /\ ~flushed

Spec == Init /\ [][Edge]_<<op, adr, flushed>>

=============================================================================
