------------------------------- MODULE Bignum -------------------------------
(***************************************************************************)
(* bignum.c: numbers of Limbs limbs of LimbBits bits, kept in words of     *)
(* WordBits bits (9 limbs of 30 bits in words of 32 bits in the code), and *)
(* the arithmetic modulo a prime a little below 2^NumberBits.              *)
(*                                                                         *)
(* Every operation works on limbs as the code does; the properties compare *)
(* it with the numbers that the limbs stand for.  bn_inverse is a loop of  *)
(* its own: its two arrays, each of which holds one shrinking and one      *)
(* growing number, are the four numbers and the two lengths.               *)
(***************************************************************************)
EXTENDS Integers, Sequences, SequencesExt

CONSTANTS LimbBits,  \* 30
          Limbs,     \* 9
          BnPrime,   \* the prime, as a number
          Samples,   \* bound: the numbers that are calculated with
          Divisors   \* 58 and 1000

WordBits == LimbBits + 2                    \* uint32_t
NumberBits == (Limbs - 1) * WordBits        \* 256
TopBits == NumberBits - (Limbs - 1) * LimbBits
Limb == 2^LimbBits
Word32 == 2^WordBits
Word64 == 2^(2 * WordBits)

ASSUME BignumAssumption ==
  /\ LimbBits \in Nat \ {0} /\ Limbs \in Nat \ {0, 1}
  /\ BnPrime \in (2^NumberBits - 2^(NumberBits - WordBits))..(2^NumberBits - 1)
  /\ BnPrime % 4 = 3

VARIABLES bnX, bnY,   \* the operands: numbers
          bnLoop  \* the state of bn_inverse, or of nothing

bnVars == <<bnX, bnY, bnLoop>>

----------------------------------------------------------------------------
\* What limbs stand for, and the normalized limbs of a number.
ValueOf(a) == FoldRight(LAMBDA limb, rest : limb + (Limb * rest), a, 0)
LimbsOf(n) == [i \in 1..Limbs |-> (n \div Limb^(i - 1)) % Limb]
Normalized(a) == \A i \in 1..Limbs : a[i] < Limb
PrimeLimbs == LimbsOf(BnPrime)

\* One pass over the limbs from the lowest: temp starts with `first`, takes in
\* term(i), leaves its low bits in limb i, and is shifted.
BnPass(first, term(_), wide) ==
  FoldLeft(LAMBDA acc, i :
             LET temp == (acc.temp + term(i)) % wide
             IN [limbs |-> Append(acc.limbs, temp % Limb), temp |-> temp \div Limb],
           [limbs |-> <<>>, temp |-> first], [i \in 1..Limbs |-> i]).limbs

\* bn_add, bn_addi, bn_subtract and bn_subtractmod.
BnAdd(a, b) == BnPass(0, LAMBDA i : a[i] + b[i], Word32)
BnAddI(a, n) == BnPass(n, LAMBDA i : a[i], Word32)
BnSubtract(a, b) == BnPass(1, LAMBDA i : Limb - 1 + a[i] - b[i], Word32)
BnSubtractMod(a, b) == BnPass(1, LAMBDA i : Limb - 1 + a[i] + 2 * PrimeLimbs[i] - b[i], Word32)

\* conditional_negate (ecdsa.c): 2 * prime - a.
BnNegate(a) == BnSubtractMod(LimbsOf(0), a)

\* bn_subi: the lowest limb may wrap around; adding the prime puts it right.
BnSubI(a, n) == BnAdd([a EXCEPT ![1] = (@ - n) % Word32], PrimeLimbs)

\* bn_is_less: the sign bits of all limbs are compared as two numbers.
BnIsLess(a, b) ==
  LET bits(P(_)) == FoldRight(LAMBDA i, n : 2 * n + (IF P(i) THEN 1 ELSE 0), [i \in 1..Limbs |-> i], 0)
  IN bits(LAMBDA i : a[i] < b[i]) > bits(LAMBDA i : a[i] > b[i])

\* bn_mod: one subtraction of the prime at most.
BnMod(a) == IF BnIsLess(a, PrimeLimbs) THEN a ELSE BnSubtract(a, PrimeLimbs)

\* Mutant of BnFastMod: the quotient is rounded up.
BnFastModUp(a) ==
  LET coef == a[Limbs] \div 2^TopBits + 1
  IN BnPass(2^(2 * LimbBits + 1),
          LAMBDA i : a[i] - PrimeLimbs[i] * coef
                     + (IF i = 1 THEN 0 ELSE 2^(2 * LimbBits + 1) - 2^(LimbBits + 1)), Word64)

\* bn_fast_mod: the bits above NumberBits say how often the prime is subtracted.
BnFastMod(a) ==
  LET coef == a[Limbs] \div 2^TopBits
  IN BnPass(2^(2 * LimbBits + 1),
          LAMBDA i : a[i] - PrimeLimbs[i] * coef
                     + (IF i = 1 THEN 0 ELSE 2^(2 * LimbBits + 1) - 2^(LimbBits + 1)), Word64)

BnAddMod(a, b) == BnFastMod([i \in 1..Limbs |-> (a[i] + b[i]) % Word32])
BnMultK(a, k) == BnFastMod([i \in 1..Limbs |-> (k * a[i]) % Word32])

\* bn_lshift and bn_rshift; the bit that leaves the highest limb is lost.
BnLShift(a) == [i \in 1..Limbs |-> ((2 * a[i]) % Limb) + (IF i = 1 THEN 0 ELSE a[i - 1] \div (Limb \div 2))]
BnRShift(a) == [i \in 1..Limbs |-> a[i] \div 2 + (IF i = Limbs THEN 0 ELSE (a[i + 1] % 2) * (Limb \div 2))]

\* bn_mult_half: half of a, or of a + prime when a is odd.
BnMultHalf(a) ==
  LET n(i) == a[i] + (IF a[1] % 2 = 1 THEN PrimeLimbs[i] ELSE 0)
      turn(acc, i) ==
        LET tmp == acc.tmp + (n(i + 1) % 2) * (Limb \div 2)
        IN [limbs |-> Append(acc.limbs, tmp % Limb), tmp |-> tmp \div Limb + n(i + 1) \div 2]
      all == FoldLeft(turn, [limbs |-> <<>>, tmp |-> n(1) \div 2], [i \in 1..Limbs - 1 |-> i])
  IN Append(all.limbs, all.tmp)

----------------------------------------------------------------------------
\* bn_multiply_long: 2 * Limbs limbs.
BnMultiplyLong(a, b) ==
  LET column(k) == FoldLeft(+, 0, [i \in 1..k |-> IF i <= Limbs /\ k + 1 - i <= Limbs THEN a[i] * b[k + 1 - i] ELSE 0])
      turn(acc, k) == LET temp == (acc.temp + column(k)) % Word64
                      IN [limbs |-> Append(acc.limbs, temp % Limb), temp |-> temp \div Limb]
      all == FoldLeft(turn, [limbs |-> <<>>, temp |-> 0], [k \in 1..2 * Limbs - 1 |-> k])
  IN Append(all.limbs, all.temp % Word32)

\* The estimate of the quotient at limb i (counted from 0).
BnCoef(res, i) == (res[i + 1] \div 2^TopBits + res[i + 2] * 2^(LimbBits - TopBits)) % Word32

\* Mutant of BnReduceStep: the limb above the prime's is not brought up to date.
BnReduceStepShort(res, i) ==
  LET low == i - Limbs + 2
      cf == BnCoef(res, i)
      done == BnPass(2^(2 * LimbBits + 1),
                LAMBDA j : res[low + j - 1] - PrimeLimbs[j] * cf
                           + (IF j = 1 THEN 0 ELSE 2^(2 * LimbBits + 1) - 2^(LimbBits + 1)), Word64)
  IN [k \in DOMAIN res |-> IF k \in low..(low + Limbs - 1) THEN done[k - low + 1] ELSE res[k]]

\* bn_multiply_reduce_step: takes coef times the prime off at limb i - (Limbs - 1).
BnReduceStep(res, i) ==
  LET low == i - Limbs + 2                 \* the index of res[i - 8] here
      cf == BnCoef(res, i)
      term(j) == res[low + j - 1]
                 + (IF j = 1 THEN 2^(2 * LimbBits + 1) ELSE 2^(2 * LimbBits + 1) - 2^(LimbBits + 1))
                 - (IF j <= Limbs THEN PrimeLimbs[j] * cf ELSE 0)
      done == FoldLeft(LAMBDA acc, j :
                         LET temp == (acc.temp + term(j)) % Word64
                         IN [limbs |-> Append(acc.limbs, temp % Limb), temp |-> temp \div Limb],
                       [limbs |-> <<>>, temp |-> 0], [j \in 1..Limbs + 1 |-> j]).limbs
  IN [k \in DOMAIN res |-> IF k \in low..(low + Limbs) THEN done[k - low + 1] ELSE res[k]]

\* bn_multiply_reduce: the partial results, the first one unreduced.
BnReductions(long) ==
  FoldLeft(LAMBDA all, k : Append(all, BnReduceStep(Last(all), 2 * Limbs - 1 - k)),
           <<long>>, [k \in 1..Limbs |-> k])

BnMultiply(a, b) == SubSeq(Last(BnReductions(BnMultiplyLong(a, b))), 1, Limbs)

----------------------------------------------------------------------------
\* bn_read_be: the words of a number, the highest first, become limbs.
BnReadBe(words) ==
  LET turn(acc, i) ==
        LET limb == words[Limbs - 1 - i]
            temp == (acc.temp + limb * 2^(2 * i)) % Word32
        IN [limbs |-> Append(acc.limbs, temp % Limb), temp |-> limb \div 2^(LimbBits - 2 * i)]
      all == FoldLeft(turn, [limbs |-> <<>>, temp |-> 0], [i \in 1..Limbs - 1 |-> i - 1])
  IN Append(all.limbs, all.temp)

\* bn_write_be.
BnWriteBe(a) ==
  LET turn(acc, i) ==
        LET limb == a[Limbs - 1 - i]
        IN [words |-> Append(acc.words, acc.temp + limb \div 2^(LimbBits - WordBits + TopBits - 2 * i)),
            temp |-> (limb * 2^(2 * WordBits - LimbBits - TopBits + 2 * i)) % Word32]
  IN FoldLeft(turn, [words |-> <<>>, temp |-> (a[Limbs] * 2^(WordBits - TopBits)) % Word32],
              [i \in 1..Limbs - 1 |-> i - 1]).words

WordsOf(n) == [i \in 1..Limbs - 1 |-> (n \div Word32^(Limbs - 1 - i)) % Word32]

\* Mutant of BnDivMod: the remainder is carried as if a limb were a multiple of d.
BnDivModNoRem(a, d) ==
  FoldRight(LAMBDA limb, acc :
              [quot |-> <<acc.rem * (Limb \div d) + limb \div d>> \o acc.quot, rem |-> limb % d],
            Front(a), [quot |-> <<Last(a) \div d>>, rem |-> Last(a) % d])

\* bn_divmod58 and bn_divmod1000: the quotient's limbs and the remainder.
BnDivMod(a, d) ==
  FoldRight(LAMBDA limb, acc :
              LET tmp == acc.rem * (Limb % d) + limb
              IN [quot |-> <<acc.rem * (Limb \div d) + tmp \div d>> \o acc.quot, rem |-> tmp % d],
            Front(a), [quot |-> <<Last(a) \div d>>, rem |-> Last(a) % d])

----------------------------------------------------------------------------
(* bn_inverse: Schroeppel's almost inverse, then the division by 2^k.       *)

WordsIn(n) == CHOOSE l \in 0..Limbs : n < Word32^l /\ (l = 0 \/ n >= Word32^(l - 1))
Twos(n) == CHOOSE j \in 0..(2 * NumberBits) : n % 2^j = 0 /\ (n \div 2^j) % 2 = 1

BnNone == [at |-> "calculate"]

BnInit ==
  /\ bnX \in Samples /\ bnY \in Samples
  /\ bnLoop = BnNone

\* The input is reduced and the four numbers are set up.  Of 0 all limbs are 0, and the
\* length goes down until the limb before the first one is read: by what is there, the
\* function returns, or shifts limbs that are 0 for ever.
BnInverseStart ==
  /\ bnLoop.at = "calculate" /\ bnY = bnX
  /\ LET v == ValueOf(BnMod(BnFastMod(LimbsOf(bnX))))
     IN IF v = 0 THEN \E outcome \in {"returned", "spinning"} : bnLoop' = [at |-> outcome]
        ELSE bnLoop' = [at |-> "strip", u |-> BnPrime, s |-> 1, v |-> v, r |-> 0, k |-> 0,
                        uLen |-> Limbs - 1, vLen |-> Limbs - 1, even |-> "v"]
  /\ UNCHANGED <<bnX, bnY>>

\* Mutant of BnInverseStrip: only the even number is shifted.
BnInverseStripHalf ==
  /\ bnLoop.at = "strip"
  /\ LET j == Twos(IF bnLoop.even = "v" THEN bnLoop.v ELSE bnLoop.u)
     IN bnLoop' = IF bnLoop.even = "v"
                  THEN [bnLoop EXCEPT !.v = @ \div 2^j, !.k = @ + j, !.at = "subtract",
                                      !.vLen = WordsIn(bnLoop.v \div 2^j)]
                  ELSE [bnLoop EXCEPT !.u = @ \div 2^j, !.k = @ + j, !.at = "subtract",
                                      !.uLen = WordsIn(bnLoop.u \div 2^j)]
  /\ UNCHANGED <<bnX, bnY>>

\* The even number loses its zero bits, and its partner is shifted the same way.
BnInverseStrip ==
  /\ bnLoop.at = "strip"
  /\ LET j == Twos(IF bnLoop.even = "v" THEN bnLoop.v ELSE bnLoop.u)
     IN bnLoop' = IF bnLoop.even = "v"
                  THEN [bnLoop EXCEPT !.v = @ \div 2^j, !.r = @ * 2^j, !.k = @ + j, !.at = "subtract",
                                      !.vLen = WordsIn(bnLoop.v \div 2^j)]
                  ELSE [bnLoop EXCEPT !.u = @ \div 2^j, !.s = @ * 2^j, !.k = @ + j, !.at = "subtract",
                                      !.uLen = WordsIn(bnLoop.u \div 2^j)]
  /\ UNCHANGED <<bnX, bnY>>

\* The smaller number is taken from the larger one, or both are 1.
BnInverseSubtract ==
  /\ bnLoop.at = "subtract"
  /\ LET larger == \/ bnLoop.uLen > bnLoop.vLen
                   \/ bnLoop.uLen = bnLoop.vLen /\ bnLoop.u > bnLoop.v
     IN bnLoop' = IF bnLoop.uLen = bnLoop.vLen /\ bnLoop.u = bnLoop.v
                  THEN [bnLoop EXCEPT !.at = "divide"]
                  ELSE IF larger
                  THEN [bnLoop EXCEPT !.u = @ - bnLoop.v, !.r = @ + bnLoop.s, !.even = "u", !.at = "strip"]
                  ELSE [bnLoop EXCEPT !.v = @ - bnLoop.u, !.s = @ + bnLoop.r, !.even = "v", !.at = "strip"]
  /\ UNCHANGED <<bnX, bnY>>

\* Mutant of MinusInverse: the product stops after its first factor.
MinusInverseShort ==
  LET am == (((BnPrime - 1) % Word32) * ((BnPrime - 1) % Word32)) % Word32
  IN (((BnPrime - 2) % Word32) * (am + 1)) % Word32

\* -1 / prime modulo a word (the quadratic modular inverse of the code).
MinusInverse ==
  LET turn(acc, i) == LET am == (acc.am * acc.am) % Word32
                      IN IF acc.am = 0 THEN acc
                         ELSE [am |-> am, inv |-> (acc.inv * (am + 1)) % Word32]
  IN FoldLeft(turn, [am |-> (BnPrime - 1) % Word32, inv |-> (BnPrime - 2) % Word32],
              [i \in 1..WordBits |-> i]).inv

\* s / 2^k, a whole word at a time while k is that large.
BnInverseDivide ==
  /\ bnLoop.at = "divide"
  /\ IF bnLoop.k = 0 THEN bnLoop' = [bnLoop EXCEPT !.at = "inverse"]
     ELSE LET bits == IF bnLoop.k >= WordBits THEN WordBits ELSE bnLoop.k
              factor == (MinusInverse * (bnLoop.s % 2^bits)) % 2^bits
          IN bnLoop' = [bnLoop EXCEPT !.s = (@ + BnPrime * factor) \div 2^bits, !.k = @ - bits]
  /\ UNCHANGED <<bnX, bnY>>

\* Mutant of SqrtExponent: 1 is not added to the prime.
SqrtExponentOfPrime == BnRShift(BnRShift(PrimeLimbs))

\* bn_sqrt: x^((prime + 1) / 4), one bit of the exponent at a time; the highest
\* limb ends the loop early.
SqrtExponent == BnRShift(BnRShift(BnAddI(PrimeLimbs, 1)))

BnSqrtStart ==
  /\ bnLoop.at = "calculate" /\ bnY = bnX
  /\ bnLoop' = [at |-> "sqrt", res |-> LimbsOf(1), square |-> LimbsOf(bnX), bit |-> 0]
  /\ UNCHANGED <<bnX, bnY>>

BnSqrtBit ==
  /\ bnLoop.at = "sqrt"
  /\ LET i == bnLoop.bit \div LimbBits + 1
         limb == IF i > Limbs THEN 0 ELSE SqrtExponent[i] \div 2^(bnLoop.bit % LimbBits)
     IN bnLoop' = IF i >= Limbs /\ limb = 0
                  THEN [at |-> "root", root |-> BnMod(bnLoop.res)]
                  ELSE [bnLoop EXCEPT !.res = IF limb % 2 = 1 THEN BnMultiply(bnLoop.square, @) ELSE @,
                                      !.square = BnMultiply(@, @), !.bit = @ + 1]
  /\ UNCHANGED <<bnX, bnY>>

BnNext == \/ BnInverseStart \/ BnInverseStrip \/ BnInverseSubtract \/ BnInverseDivide
          \/ BnSqrtStart \/ BnSqrtBit

----------------------------------------------------------------------------
Operands == bnLoop.at = "calculate"

\* Products and powers modulo the prime, in steps that TLC's integers can hold.
TimesMod(n, m) ==
  LET a == n % BnPrime
      b == m % BnPrime
  IN (((a * (b \div 256)) % BnPrime) * 256 + a * (b % 256)) % BnPrime
RECURSIVE PowerMod(_, _)
PowerMod(n, e) ==
  IF e = 0 THEN 1
  ELSE LET root == PowerMod(n, e \div 2)
       IN TimesMod(TimesMod(root, root), IF e % 2 = 1 THEN n ELSE 1)

\* Sums, differences, halves and products are right modulo the prime, whatever
\* operands the callers are allowed to pass, and as reduced as the comments say:
\* the carries between limbs, the negative differences and the estimated
\* quotients never go wrong.
ArithmeticIsModular ==
  Operands =>
    LET a == LimbsOf(bnX)
        b == LimbsOf(bnY)
        isMod(res, n) == Normalized(res) /\ ValueOf(res) % BnPrime = n % BnPrime
        partly(res) == ValueOf(res) < 2 * BnPrime
    IN /\ isMod(BnSubtractMod(a, b), bnX - bnY)
       /\ isMod(BnAddMod(a, b), bnX + bnY) /\ partly(BnAddMod(a, b))
       /\ isMod(BnMultiply(a, b), TimesMod(bnX, bnY)) /\ partly(BnMultiply(a, b))
       /\ \A k \in 0..4 : isMod(BnMultK(a, k), k * bnX) /\ partly(BnMultK(a, k))
       /\ 2 * ValueOf(BnMultHalf(a)) = bnX + (IF bnX % 2 = 1 THEN BnPrime ELSE 0)
       /\ ValueOf(BnMod(a)) = bnX % BnPrime
       /\ \A n \in {0, 3} : isMod(BnSubI(a, n), bnX - n)
       /\ isMod(BnNegate(a), -bnX) /\ BnNegate(a)[Limbs] < 2^(TopBits + 1)
       /\ BnIsLess(a, b) <=> bnX < bnY

\* After each step of the reduction of a product the limb above is zero and the
\* estimate of the next quotient fits: the assertions of the code.
QuotientsFit ==
  Operands =>
    LET all == BnReductions(BnMultiplyLong(LimbsOf(bnX), LimbsOf(bnY)))
    IN \A n \in 1..Limbs :
         /\ BnCoef(all[n], 2 * Limbs - 1 - n) < 2^(LimbBits + 1)
         /\ all[n + 1][2 * Limbs + 1 - n] = 0

\* Reading, writing, shifting and dividing keep the number.
NumberIsKept ==
  Operands =>
    /\ bnX < 2^NumberBits => /\ BnReadBe(WordsOf(bnX)) = LimbsOf(bnX)
                           /\ BnWriteBe(LimbsOf(bnX)) = WordsOf(bnX)
    /\ ValueOf(BnLShift(LimbsOf(bnX))) = (2 * bnX) % Limb^Limbs
    /\ ValueOf(BnRShift(LimbsOf(bnX))) = bnX \div 2
    /\ \A d \in Divisors : LET q == BnDivMod(LimbsOf(bnX), d)
                           IN Normalized(q.quot) /\ ValueOf(q.quot) = bnX \div d /\ q.rem = bnX % d

\* The loop of bn_sqrt keeps what its comments say, and its result is the reduced
\* power, a root of x or of -x.
SqrtIsRoot ==
  /\ bnLoop.at = "sqrt" =>
       LET n == bnLoop.bit
           low == ValueOf(SqrtExponent) % 2^n
       IN /\ ValueOf(bnLoop.res) % BnPrime = PowerMod(bnX, low)
          /\ ValueOf(bnLoop.square) % BnPrime = PowerMod(bnX, 2^n)
  /\ bnLoop.at = "root" =>
       LET n == ValueOf(bnLoop.root)
       IN n < BnPrime /\ TimesMod(n, n) \in {bnX % BnPrime, (-bnX) % BnPrime}

\* The invariants that the comments of bn_inverse state, and that both halves of
\* an array fit into it: u and s, and v and r, share Limbs words.
InverseKeepsItsNumbers ==
  bnLoop.at \in {"strip", "subtract"} =>
    /\ bnLoop.u * bnLoop.s + bnLoop.v * bnLoop.r = BnPrime
    /\ TimesMod(bnLoop.v, PowerMod(2, bnLoop.k)) = TimesMod(bnX, bnLoop.s)
    /\ TimesMod(bnLoop.u, PowerMod(2, bnLoop.k)) = TimesMod(bnX, -bnLoop.r)
    /\ bnLoop.k <= 2 * NumberBits - 2
    /\ bnLoop.u < Word32^bnLoop.uLen /\ bnLoop.s < Word32^(Limbs - bnLoop.uLen)
    /\ bnLoop.v < Word32^bnLoop.vLen /\ bnLoop.r < Word32^(Limbs - bnLoop.vLen)

\* What bn_inverse ends with is the inverse, fully reduced.
InverseIsInverse ==
  bnLoop.at = "inverse" => bnLoop.s < BnPrime /\ TimesMod(bnX, bnLoop.s) = 1

\* The operations of bignum.c on partly reduced numbers are those modulo the prime,
\* none of them leaves the range the next one needs, and roots and inverses are such.
BignumIsModular ==
  /\ ArithmeticIsModular /\ QuotientsFit /\ NumberIsKept
  /\ SqrtIsRoot /\ InverseKeepsItsNumbers /\ InverseIsInverse
=============================================================================
