------------------------------- MODULE MLfsr --------------------------------
(***************************************************************************)
(* The linear feedback shift registers that replace a cache way or arbitrate*)
(* at random, if so configured (lfsr.cpp).                                 *)
(*                                                                         *)
(* A pure algorithm: a word is the set of its bits that are 1, so that     *)
(* exclusive or is the symmetric difference.                               *)
(***************************************************************************)
EXTENDS Naturals, Sequences, FiniteSets

Xor(a, b) == (a \ b) \cup (b \ a)

Bits(word) == {n \in 0..15 : (word \div 2^n) % 2 = 1}

GetNextLfsrState(state, width, poly) ==
  LET oldBit0 == 0 \in state
      flipped == IF oldBit0 THEN Xor(state, poly) ELSE state
  IN {n \in 0..31 : n + 1 \in flipped \/ (oldBit0 /\ n = width - 1)}

\* primePolyListFewXors for the degrees 2 to 8, and the first one of degree 16.
FewXors(degree) ==
  CASE degree = 2  -> <<3>>
    [] degree = 3  -> <<3, 5>>
    [] degree = 4  -> <<3, 9>>
    [] degree = 5  -> <<5, 9, 15, 23, 27, 29>>
    [] degree = 6  -> <<3, 27, 33, 39, 45, 51>>
    [] degree = 7  -> <<3, 9, 15, 17, 29, 43, 57, 63, 65, 75, 77, 83, 85, 101, 113, 119>>
    [] degree = 8  -> <<29, 43, 45, 95, 77, 99, 101, 105, 113, 141, 135, 169, 195, 207, 231, 245>>
    [] degree = 16 -> <<45>>

\* For select below 16; from there on the other table, primePolyListManyXors, is used.
GetPrimePoly(degree, select) ==
  Bits(FewXors(degree)[(select % Len(FewXors(degree))) + 1])

-----------------------------------------------------------------------------
(* How long it takes until a register comes back to its state.             *)

\* Zero stays zero.
Repeat(F(_), word, times) ==
  LET after[n \in 0..times] ==
        IF n = 0 THEN [word |-> word]
        ELSE LET before == after[n - 1]
             IN IF before.word = {} THEN before ELSE [word |-> F(before.word)]
  IN after[times].word

\* So many steps (less than 2^16), one hexadecimal digit after the other.
Walk(state, count, width, poly) ==
  LET One(word)    == GetNextLfsrState(word, width, poly)
      By16(word)   == Repeat(One, word, 16)
      By256(word)  == Repeat(By16, word, 16)
      By4096(word) == Repeat(By256, word, 16)
      thousands == Repeat(By4096, state, count \div 4096)
      hundreds  == Repeat(By256, thousands, (count \div 256) % 16)
      tens      == Repeat(By16, hundreds, (count \div 16) % 16)
  IN Repeat(One, tens, count % 16)

\* The prime factors of 2^degree - 1.
PrimeFactors(degree) ==
  CASE degree \in {2, 3, 5, 7} -> {2^degree - 1}
    [] degree = 4  -> {3, 5}
    [] degree = 6  -> {3, 7}
    [] degree = 8  -> {3, 5, 17}
    [] degree = 16 -> {3, 5, 17, 257}

\* From every state but zero the register takes all others before it comes back.
FullPeriod(degree, poly) ==
  LET Returns(count) == Walk({0}, count, degree, poly) = {0}
      all == 2^degree - 1
  IN Returns(all) /\ \A prime \in PrimeFactors(degree) : ~Returns(all \div prime)

-----------------------------------------------------------------------------
(* Properties.                                                             *)

\* "prime polynomials" (lfsr.cpp:28): up to degree 8 all registers have the full
\* period, except with one polynomial of degree 7, which is not prime.  The one of
\* degree 16 that the arbiter uses is prime (MArbiter::TransitionThread).
PrimePolynomials ==
  /\ \A degree \in 2..8 : \A select \in 0..(Len(FewXors(degree)) - 1) :
       FullPeriod(degree, GetPrimePoly(degree, select)) <=> <<degree, select>> # <<7, 10>>
  /\ FullPeriod(16, GetPrimePoly(16, 0))

=============================================================================
