-------------------------------- MODULE MAlu --------------------------------
(***************************************************************************)
(* The ALU of the execution unit (RunAlu, sysc/exu.cpp): adder, compare    *)
(* flag, sign extension, shifter.                                          *)
(*                                                                         *)
(* The adder works on numbers, the shifter on words of WIDTH bits.  All    *)
(* widths are alike, whether 32 or small enough to try all words.          *)
(* Multiplication and the logical functions are those of the host.         *)
(***************************************************************************)
EXTENDS Integers

CONSTANTS WIDTH, HALF     \* bits of a word, and the value of the highest one

ASSUME WidthAssumption == WIDTH \in Nat \ {0}
ASSUME HalfAssumption  == HALF \in Nat \ {0}    \* it is 2 ^ (WIDTH - 1)

Word   == 0 .. 2 * HALF - 1
Bit    == 0 .. WIDTH - 1

Negative(x) == x >= HALF                  \* bit 31
Signed(x)   == IF Negative(x) THEN x - 2 * HALF ELSE x
InRange(x)  == -HALF <= x /\ x < HALF
Parity(p, q) == ~(p <=> q)                \* exclusive or of bits

-----------------------------------------------------------------------------
(* Adder.  'result' has one bit more than a word, and so has 'signedB'.    *)

Wide(x) == IF x < 0 THEN x + 4 * HALF ELSE x

result(func, inA, inB, regCY) ==
  IF func = "sub" THEN Wide(inA - inB)
  ELSE Wide(inA + inB + (IF func = "adc" THEN regCY ELSE 0))

Low(r)   == IF r >= 2 * HALF THEN r - 2 * HALF ELSE r
Carry(r) == r >= 2 * HALF

outRegD(func, inA, inB, regCY) == Low(result(func, inA, inB, regCY))
outCY(func, inA, inB, regCY)   == Carry(result(func, inA, inB, regCY))

\* Bit 31 of 'signedB', which for a subtraction is -inB.
NegativeB(func, inB) == IF func = "sub" THEN Negative(Low(Wide(-inB)))
                        ELSE Negative(inB)

outOV(func, inA, inB, regCY) ==
  LET out == Negative(outRegD(func, inA, inB, regCY))
  IN  \/ Negative(inA) /\ NegativeB(func, inB) /\ ~out
      \/ ~Negative(inA) /\ ~NegativeB(func, inB) /\ out

-----------------------------------------------------------------------------
(* Compare flag of l.sfxx: a condition is the set of the bits of its field *)
(* 'd' that are 1; bit 3 tells that the comparison is signed.              *)

sfeq  == {}
sfne  == {0}
sfgtu == {1}
sfgeu == {0, 1}
sfltu == {2}
sfleu == {0, 2}
sfgts == {1, 3}
sfges == {0, 1, 3}
sflts == {2, 3}
sfles == {0, 2, 3}

\* [mutant] Signed numbers are compared by the sign of their difference.
LessThan_NoOverflow(d, inA, inB) ==
  IF 3 \in d THEN Negative(outRegD("sub", inA, inB, 0)) ELSE outCY("sub", inA, inB, 0)

LessThan(d, inA, inB) ==
  LET cy == outCY("sub", inA, inB, 0)
  IN  IF 3 \in d
      THEN \/ cy /\ ~Parity(Negative(inA), Negative(inB))
           \/ Negative(inA) /\ ~Negative(inB)
      ELSE cy

outF(d, inA, inB) ==
  LET zero == outRegD("sub", inA, inB, 0) = 0
      lt   == LessThan(d, inA, inB)
      f    == IF 1 \in d THEN ~lt ELSE lt
  IN  IF d \subseteq {0} THEN Parity(0 \in d, zero)
      ELSE IF Parity(1 \in d, 0 \in d) THEN Parity(f, zero)
      ELSE f

-----------------------------------------------------------------------------
(* Sign extension of immediates, bytes and half words: (x ^ s) - s, where  *)
(* s is the value of the sign bit.                                         *)

Flip(x, s)    == IF x >= s THEN x - s ELSE x + s
SignExt(x, s) == IF Flip(x, s) >= s THEN Flip(x, s) - s
                 ELSE Flip(x, s) - s + 2 * HALF

-----------------------------------------------------------------------------
(* Shifter.  In all four cases what stays of the word is its part from bit *)
(* n or up to bit WIDTH - 1 - n on.  n is not 0.                           *)

BitWord == [Bit -> BOOLEAN]

Sll(w, n) == [i \in Bit |-> i >= n /\ w[i - n]]
Srl(w, n) == [i \in Bit |-> i + n < WIDTH /\ w[i + n]]
Sra(w, n) == [i \in Bit |-> IF i + n < WIDTH THEN w[i + n] ELSE w[WIDTH - 1]]

\* ( inA.range (31-n, 0), inA.range (31, n) ): 2 * (32 - n) bits, with zeros
\* above if these are less than a word.
Ror(w, n) == [i \in Bit |->
                IF i < WIDTH - n THEN w[i + n]
                ELSE i - (WIDTH - n) < WIDTH - n /\ w[i - (WIDTH - n)]]

-----------------------------------------------------------------------------
(* Properties.                                                             *)

\* Sum, carry and overflow of l.add and l.addc are those of the numbers.
AddRight ==
  \A a, b \in Word, cy \in 0 .. 1, func \in {"add", "adc"} :
    LET c   == IF func = "adc" THEN cy ELSE 0
        out == outRegD(func, a, b, cy)
    IN  /\ out \in Word
        /\ out + (IF outCY(func, a, b, cy) THEN 2 * HALF ELSE 0) = a + b + c
        /\ outOV(func, a, b, cy) <=> ~InRange(Signed(a) + Signed(b) + c)
        /\ ~outOV(func, a, b, cy) => Signed(out) = Signed(a) + Signed(b) + c

\* The carry of l.sub is the borrow; its overflow flag is right unless the
\* most negative number is subtracted, whose negative is no number: then it is
\* the opposite of what it should be.
SubRight ==
  \A a, b \in Word :
    LET out == outRegD("sub", a, b, 0)
        ov  == outOV("sub", a, b, 0)
    IN  /\ out \in Word
        /\ outCY("sub", a, b, 0) <=> a < b
        /\ InRange(Signed(a) - Signed(b)) => Signed(out) = Signed(a) - Signed(b)
        /\ b # HALF => (ov <=> ~InRange(Signed(a) - Signed(b)))
        /\ b = HALF => (ov <=> InRange(Signed(a) - Signed(b)))

\* Every set-flag instruction compares what its name says, also when the
\* subtraction it uses overflows.
SetFlagRight ==
  \A a, b \in Word :
    /\ outF(sfeq, a, b) <=> a = b
    /\ outF(sfne, a, b) <=> a # b
    /\ outF(sfgtu, a, b) <=> a > b
    /\ outF(sfgeu, a, b) <=> a >= b
    /\ outF(sfltu, a, b) <=> a < b
    /\ outF(sfleu, a, b) <=> a <= b
    /\ outF(sfgts, a, b) <=> Signed(a) > Signed(b)
    /\ outF(sfges, a, b) <=> Signed(a) >= Signed(b)
    /\ outF(sflts, a, b) <=> Signed(a) < Signed(b)
    /\ outF(sfles, a, b) <=> Signed(a) <= Signed(b)

\* Sign extension of a field keeps its value as a number.
SignExtRight ==
  \A s \in 1 .. HALF : \A x \in 0 .. 2 * s - 1 :
    /\ SignExt(x, s) \in Word
    /\ Signed(SignExt(x, s)) = (IF x >= s THEN x - 2 * s ELSE x)

\* A rotation by up to half a word is one; by more, it loses bits.
RotateRight(w, n) ==
  [i \in Bit |-> IF i + n < WIDTH THEN w[i + n] ELSE w[i + n - WIDTH]]

RotateByHalf ==
  \A w \in BitWord, n \in 1 .. WIDTH - 1 :
    /\ 2 * n <= WIDTH => Ror(w, n) = RotateRight(w, n)
    /\ \A i \in Bit : i >= 2 * (WIDTH - n) => ~Ror(w, n)[i]

\* The ALU computes what the instructions promise, and goes wrong nowhere but where
\* the comments above say (exu.cpp:334, exu.cpp:391).
AluRight == AddRight /\ SubRight /\ SetFlagRight /\ SignExtRight /\ RotateByHalf

=============================================================================
