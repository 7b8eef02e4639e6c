------------------------------- MODULE MCLsu --------------------------------
(***************************************************************************)
(* Instances of the load & store unit: what the EXU and the other CPUs do. *)
(***************************************************************************)
EXTENDS LsuSystem

\* More words than entries.
Words == [ops |-> {"rd", "wr", "flush"}, adr |-> {0, 4, 8, 12}, width |-> {0},
          offset |-> {0}, bytes |-> {1}, others |-> {}]

\* Loads and stores of words and bytes of the same addresses.
WordsAndBytes == [Words EXCEPT !.ops = {"rd", "wr"}, !.adr = {0, 4}, !.width = {0, 1},
                                !.bytes = {0, 1}]

\* I/O stores and cache operations among ordinary stores.
Special == [ops |-> {"rd", "wr", "flush", "writeback", "invalidate"},
            adr |-> {0, 16}, width |-> {1}, offset |-> {0, 1}, bytes |-> {0, 1}, others |-> {}]

\* The same next to another CPU that writes one of the words.
Shared == [Special EXCEPT !.offset = {0}, !.others = {0}]

AllWorkloads == {Words, WordsAndBytes, Special, Shared}

=============================================================================
