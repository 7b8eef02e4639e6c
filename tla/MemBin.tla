------------------------------- MODULE MemBin -------------------------------
(***************************************************************************)
(* The binary write of memory (GdbServerSC::rspWriteMemBin): the bytes of  *)
(* the packet are written in words, what is left over byte by byte.        *)
(*                                                                         *)
(* Memory is a function on byte addresses, and addr, where the write       *)
(* starts, is aligned: what the bus does with the words of other writes is *)
(* beyond this code.  Bytes read behind the packet are Junk.               *)
(***************************************************************************)
EXTENDS Integers

CONSTANT Junk

endBytes(addr, len) == (addr + len) % 4

\* Where the last partial word goes: base is already the end of the words, off
\* is counted from the start of the data.
LastBytes(addr, len) ==
  LET base == addr + len - endBytes(addr, len) IN
    [off \in (len - endBytes(addr, len))..(len - 1) |-> base + off]

\* The bulk is written in words up to and beyond the last byte.
BulkBytes(addr, len) == addr..(addr + 4 * ((len + 3) \div 4) - 1)

rspWriteMemBin(mem, addr, len, bindat) ==
  LET last == LastBytes(addr, len) IN
    [a \in DOMAIN mem |->
       IF \E off \in DOMAIN last : last[off] = a
       THEN bindat[CHOOSE off \in DOMAIN last : last[off] = a]
       ELSE IF a \in BulkBytes(addr, len)
       THEN IF a - addr < len THEN bindat[a - addr] ELSE Junk
       ELSE mem[a]]

\* What the client asked for.
Written(mem, addr, len, bindat) ==
  [a \in DOMAIN mem |-> IF a \in addr..(addr + len - 1) THEN bindat[a - addr] ELSE mem[a]]

\* A write does what it was asked for exactly if it is one of whole words: otherwise
\* the bulk overwrites what follows (off < len, off += 4), and the last bytes go
\* too far behind (base + off).
RightIfWholeWords(mem, addr, len, bindat) ==
  rspWriteMemBin(mem, addr, len, bindat) = Written(mem, addr, len, bindat) <=> len % 4 = 0

WholeWordsOnly(Memory, old) ==
  \A addr \in {a \in Memory : a % 4 = 0 /\ a + 16 \in Memory}, len \in 1..8 :
    RightIfWholeWords([a \in Memory |-> old], addr, len, [off \in 0..(len - 1) |-> off])

=============================================================================
