---------------------------- MODULE MCCoherence -----------------------------
(***************************************************************************)
(* Instances of the memory unit: what the CPUs ask for.                    *)
(***************************************************************************)
EXTENDS Coherence

Load(readPorts, readAdr, writePorts, writeAdr) ==
  [readPorts |-> readPorts, readAdr |-> readAdr,
   writePorts |-> writePorts, writeAdr |-> writeAdr,
   ops |-> {"write"}, bytesels |-> {Lane}, writes |-> writeAdr \X {1}]

-----------------------------------------------------------------------------
(* Two CPUs, lines that evict each other.                                  *)

\* A reader of one CPU and a writer of the other, which reads the word to change a
\* byte of it, and evicts the line.
ReaderAndWriter ==
  [Load({0}, {0}, {1}, {0, 4}) EXCEPT !.bytesels = {{0}}]

\* Two writers that miss, replace and write back each other's lines.
TwoWriters == Load({}, {0}, {0, 1}, {0, 4})

\* Two writers on bytes of one word.
PartialWriters ==
  [Load({}, {0}, {0, 1}, {0}) EXCEPT !.bytesels = {{0}, {1}}]

\* Load linked and store conditional on a line that nothing evicts.
LinkedWriters ==
  [Load({}, {0}, {0, 1}, {0}) EXCEPT !.ops = {"write", "ll", "sc"}]

\* Three ports that meet in the tag RAM and in the line locks.
TwoReadersAndWriter == Load({0, 3}, {0}, {1}, {4})
ReaderAndTwoWriters == Load({0}, {0}, {0, 1}, {4})

SharedWorkloads == {ReaderAndWriter, TwoWriters, PartialWriters, LinkedWriters,
                    TwoReadersAndWriter, ReaderAndTwoWriters}

-----------------------------------------------------------------------------
(* Two ports of one CPU, two ways, lines of two words.                     *)

\* More lines than ways, and a writer of one byte, which reads the word first.
MoreLinesThanWays ==
  [Load({0}, {0}, {0}, {0, 8, 20}) EXCEPT !.bytesels = {{0}},
                                          !.writes = {<<0, 1>>, <<8, 0>>, <<20, 1>>}]

\* Either word of a line first, the other one forwarded from the bus.
EitherWordFirst ==
  [Load({0}, {0, 4}, {0}, {0, 12}) EXCEPT !.writes = {<<0, 0>>, <<0, 1>>, <<12, 1>>}]

\* Write-back and flush.
CacheOperations ==
  [Load({0}, {0}, {0}, {0}) EXCEPT !.ops = {"write", "writeback", "flush"}]

\* Uncached accesses between cached ones.
UncachedBetween == Load({0}, {0, 28}, {0}, {0, 8, 28})

WaysWorkloads == {MoreLinesThanWays, EitherWordFirst, CacheOperations, UncachedBetween}

-----------------------------------------------------------------------------
(* What the code does not keep.                                            *)

\* A link survives the store of the other CPU.
LinkedStores == {LinkedWriters}

\* A store conditional misses because a reader has evicted its line.
EvictedLinks ==
  {[Load({1}, {4}, {0, 1}, {0}) EXCEPT !.ops = {"ll", "sc"}]}

=============================================================================
