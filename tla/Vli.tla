-------------------------------- MODULE Vli --------------------------------
(***************************************************************************)
(* uECC.c, the part on very long integers: numbers of VliWords words, the  *)
(* lowest first.  The operations detect carries the way the code does, by  *)
(* comparing a sum with one of its terms; the properties compare them with *)
(* the numbers that the words stand for.  The reduction, the inverse, and  *)
(* the choice of a random number are loops.                                *)
(***************************************************************************)
EXTENDS Integers, Sequences, FiniteSets, SequencesExt

CONSTANTS VliBits,     \* bits of a word (uECC_WORD_BITS)
          VliWords,    \* words of a number
          ByteBits,    \* bits of a byte
          VliSamples,  \* bound: the operands that are tried
          Moduli,      \* the moduli: curve->p and curve->n
          RngMaxTries  \* uECC_RNG_MAX_TRIES

Word == 2^VliBits
VliSize == VliBits * VliWords

ASSUME VliAssumption ==
  /\ VliBits \in Nat \ {0} /\ VliWords \in Nat \ {0} /\ RngMaxTries \in Nat
  /\ ByteBits \in 1..VliBits /\ VliBits % ByteBits = 0
  /\ \A m \in Moduli : m % 2 = 1 /\ m > Word^(VliWords - 1) /\ m < Word^VliWords

VARIABLES left, right, \* the operands
          modulus,
          vliLoop      \* the state of a loop, or "start"

vliVars == <<left, right, modulus, vliLoop>>

----------------------------------------------------------------------------
Number(v) == FoldRight(LAMBDA word, rest : word + (Word * rest), v, 0)
ToWords(n, len) == [i \in 1..len |-> (n \div Word^(i - 1)) % Word]
Vli(n) == ToWords(n, VliWords)

\* Mutant of VliAdd: the carry is computed even when the sum is the left word.
VliAddAlwaysCarry(l, r) ==
  FoldLeft(LAMBDA acc, i :
             LET sum == (l[i] + r[i] + acc.carry) % Word
             IN [words |-> Append(acc.words, sum), carry |-> IF sum < l[i] THEN 1 ELSE 0],
           [words |-> <<>>, carry |-> 0], [i \in DOMAIN l |-> i])

\* uECC_vli_add: a sum that is the left word itself leaves the carry alone.
VliAdd(l, r) ==
  FoldLeft(LAMBDA acc, i :
             LET sum == (l[i] + r[i] + acc.carry) % Word
             IN [words |-> Append(acc.words, sum),
                 carry |-> IF sum = l[i] THEN acc.carry ELSE IF sum < l[i] THEN 1 ELSE 0],
           [words |-> <<>>, carry |-> 0], [i \in DOMAIN l |-> i])

\* uECC_vli_sub.
VliSub(l, r) ==
  FoldLeft(LAMBDA acc, i :
             LET diff == (l[i] - r[i] - acc.borrow) % Word
             IN [words |-> Append(acc.words, diff),
                 borrow |-> IF diff = l[i] THEN acc.borrow ELSE IF diff > l[i] THEN 1 ELSE 0],
           [words |-> <<>>, borrow |-> 0], [i \in DOMAIN l |-> i])

IsZero(v) == \A i \in DOMAIN v : v[i] = 0

\* uECC_vli_cmp, by subtraction, and uECC_vli_cmp_unsafe, word by word.
VliCmp(l, r) ==
  LET diff == VliSub(l, r)
  IN (IF IsZero(diff.words) THEN 0 ELSE 1) - 2 * diff.borrow

VliCmpUnsafe(l, r) ==
  LET unequal == {i \in DOMAIN l : l[i] # r[i]}
      top == CHOOSE i \in unequal : \A j \in unequal : i >= j
  IN IF unequal = {} THEN 0 ELSE IF l[top] > r[top] THEN 1 ELSE -1

\* vli_numDigits and uECC_vli_numBits.
NumDigits(v) == CHOOSE n \in 0..Len(v) : (n = 0 \/ v[n] # 0) /\ \A i \in n + 1..Len(v) : v[i] = 0
NumBits(v) ==
  LET n == NumDigits(v)
  IN IF n = 0 THEN 0
     ELSE (n - 1) * VliBits + (CHOOSE i \in 1..VliBits : 2^(i - 1) <= v[n] /\ v[n] < 2^i)

TestBit(v, bit) == (v[bit \div VliBits + 1] \div 2^(bit % VliBits)) % 2

\* uECC_vli_rshift1.
RShift1(v) == [i \in DOMAIN v |-> v[i] \div 2 + (IF i = Len(v) THEN 0 ELSE (v[i + 1] % 2) * (Word \div 2))]

----------------------------------------------------------------------------
\* muladd and mul2add: r is the three words r0, r1, r2.
MulAdd(a, b, r) ==
  LET r01 == (r[2] * Word + r[1] + a * b) % (Word * Word)
  IN <<r01 % Word, r01 \div Word, (r[3] + (IF r01 < a * b THEN 1 ELSE 0)) % Word>>

\* Mutant of Mul2Add: the bit that doubling the product loses is not counted.
Mul2AddLossy(a, b, r) ==
  LET p == (2 * a * b) % (Word * Word)
      r01 == (r[2] * Word + r[1] + p) % (Word * Word)
  IN <<r01 % Word, r01 \div Word, (r[3] + (IF r01 < p THEN 1 ELSE 0)) % Word>>

Mul2Add(a, b, r) ==
  LET p == (2 * a * b) % (Word * Word)
      r01 == (r[2] * Word + r[1] + p) % (Word * Word)
      top == (a * b) \div ((Word * Word) \div 2)
  IN <<r01 % Word, r01 \div Word, (r[3] + top + (IF r01 < p THEN 1 ELSE 0)) % Word>>

\* The words of a product, column by column; term(k, i, r) adds the i-th product.
Columns(term(_, _, _)) ==
  LET turn(acc, k) ==
        LET low == IF k < VliWords THEN 0 ELSE k + 1 - VliWords
            high == IF k < VliWords THEN k ELSE VliWords - 1
            r == FoldLeft(LAMBDA s, i : term(k, i, s), acc.r, [n \in 1..high - low + 1 |-> low + n - 1])
        IN [words |-> Append(acc.words, r[1]), r |-> <<r[2], r[3], 0>>]
      all == FoldLeft(turn, [words |-> <<>>, r |-> <<0, 0, 0>>], [n \in 1..2 * VliWords - 1 |-> n - 1])
  IN Append(all.words, all.r[1])

\* uECC_vli_mult and uECC_vli_square.
VliMult(l, r) == Columns(LAMBDA k, i, s : MulAdd(l[i + 1], r[k - i + 1], s))
VliSquare(l) ==
  Columns(LAMBDA k, i, s : IF i < k - i THEN Mul2Add(l[i + 1], l[k - i + 1], s)
                           ELSE IF i = k - i THEN MulAdd(l[i + 1], l[i + 1], s) ELSE s)

\* uECC_vli_modAdd and uECC_vli_modSub.
ModAdd(l, r, m) ==
  LET sum == VliAdd(l, r)
  IN IF sum.carry = 1 \/ VliCmpUnsafe(m, sum.words) # 1 THEN VliSub(sum.words, m).words ELSE sum.words

ModSub(l, r, m) ==
  LET diff == VliSub(l, r)
  IN IF diff.borrow = 1 THEN VliAdd(diff.words, m).words ELSE diff.words

----------------------------------------------------------------------------
\* uECC_vli_nativeToBytes and uECC_vli_bytesToNative, bytes of ByteBits bits.
WordBytes == VliBits \div ByteBits
NativeToBytes(v, n) ==
  [i \in 1..n |-> LET b == n - i
                  IN (v[b \div WordBytes + 1] \div 2^(ByteBits * (b % WordBytes))) % 2^ByteBits]
BytesToNative(bytes) ==
  LET n == Len(bytes)
      byte(b) == IF b < n THEN bytes[n - b] ELSE 0
  IN [w \in 1..(n + WordBytes - 1) \div WordBytes |->
        FoldLeft(LAMBDA sum, k : sum + byte((w - 1) * WordBytes + k) * 2^(ByteBits * k),
                 0, [k \in 1..WordBytes |-> k - 1])]

\* Mutant of BitsToInt: the bits that move from word to word are lost.
BitsToIntApart(bits, n) ==
  LET nBits == NumBits(n)
      nBytes == (nBits + ByteBits - 1) \div ByteBits
      used == IF Len(bits) > nBytes THEN SubSeq(bits, 1, nBytes) ELSE bits
      native == LET v == BytesToNative(used) IN [i \in 1..VliWords |-> IF i <= Len(v) THEN v[i] ELSE 0]
      shift == Len(used) * ByteBits - nBits
      moved == [i \in 1..VliWords |-> native[i] \div 2^shift]
  IN IF shift <= 0 THEN native
     ELSE IF VliCmpUnsafe(n, moved) # 1 THEN VliSub(moved, n).words ELSE moved

\* bits2int: the leading bits of a hash, moved down and reduced once; a hash that
\* is not longer than n is left as it is.
BitsToInt(bits, n) ==
  LET nBits == NumBits(n)
      nBytes == (nBits + ByteBits - 1) \div ByteBits
      used == IF Len(bits) > nBytes THEN SubSeq(bits, 1, nBytes) ELSE bits
      native == LET v == BytesToNative(used) IN [i \in 1..VliWords |-> IF i <= Len(v) THEN v[i] ELSE 0]
      shift == Len(used) * ByteBits - nBits
      moved == [i \in 1..VliWords |->
                  native[i] \div 2^shift
                  + (IF i = VliWords THEN 0 ELSE (native[i + 1] * 2^(VliBits - shift)) % Word)]
  IN IF shift <= 0 THEN native
     ELSE IF VliCmpUnsafe(n, moved) # 1 THEN VliSub(moved, n).words ELSE moved

----------------------------------------------------------------------------
VliInit ==
  /\ modulus \in Moduli
  /\ left \in VliSamples \cap 0..modulus - 1
  /\ right \in VliSamples \cap 0..modulus - 1
  /\ vliLoop = [at |-> "start"]

\* uECC_vli_mmod: the modulus is shifted to the top and taken off again and again.
MmodStart ==
  /\ vliLoop.at = "start"
  /\ LET shift == 2 * VliSize - NumBits(Vli(modulus))
     IN vliLoop' = [at |-> "mmod", rest |-> VliMult(Vli(left), Vli(right)),
                    multiple |-> ToWords(modulus * 2^shift, 2 * VliWords), shift |-> shift]
  /\ UNCHANGED <<left, right, modulus>>

\* Mutant of HalfMultiple: the halves are shifted independently.
HalfMultipleApart(v) == RShift1(SubSeq(v, 1, VliWords)) \o RShift1(SubSeq(v, VliWords + 1, 2 * VliWords))

\* The two halves of the multiple are shifted one after the other.
HalfMultiple(v) ==
  LET low == RShift1(SubSeq(v, 1, VliWords))
  IN [low EXCEPT ![VliWords] = @ + (v[VliWords + 1] % 2) * (Word \div 2)]
     \o RShift1(SubSeq(v, VliWords + 1, 2 * VliWords))

MmodTurn ==
  /\ vliLoop.at = "mmod"
  /\ LET diff == VliSub(vliLoop.rest, vliLoop.multiple)
         rest == IF diff.borrow = 1 THEN vliLoop.rest ELSE diff.words
     IN vliLoop' = IF vliLoop.shift < 0 THEN [at |-> "reduced", result |-> SubSeq(vliLoop.rest, 1, VliWords)]
                   ELSE [vliLoop EXCEPT !.rest = rest, !.multiple = HalfMultiple(@), !.shift = @ - 1]
  /\ UNCHANGED <<left, right, modulus>>

\* Mutant of Halved: the carry of the sum is lost.
HalvedNoCarry(uv) ==
  LET sum == IF uv[1] % 2 = 1 THEN VliAdd(uv, Vli(modulus)) ELSE [words |-> uv, carry |-> 0]
  IN RShift1(sum.words)

\* vli_modInv_update: half of uv modulo mod; the carry becomes the highest bit.
Halved(uv) ==
  LET sum == IF uv[1] % 2 = 1 THEN VliAdd(uv, Vli(modulus)) ELSE [words |-> uv, carry |-> 0]
  IN [RShift1(sum.words) EXCEPT ![VliWords] = @ + sum.carry * (Word \div 2)]

\* u - v modulo mod, as uECC_vli_modInv computes it.
Minus(u, v) == VliSub(IF VliCmpUnsafe(u, v) < 0 THEN VliAdd(u, Vli(modulus)).words ELSE u, v).words

\* uECC_vli_modInv: the operand is `left`; zero has the inverse zero.
ModInvStart ==
  /\ vliLoop.at = "start" /\ right = left
  /\ vliLoop' = IF IsZero(Vli(left)) THEN [at |-> "inverted", result |-> Vli(0)]
                ELSE [at |-> "invert", a |-> Vli(left), b |-> Vli(modulus), u |-> Vli(1), v |-> Vli(0)]
  /\ UNCHANGED <<left, right, modulus>>

ModInvTurn ==
  /\ vliLoop.at = "invert"
  /\ LET a == vliLoop.a
         b == vliLoop.b
         u == vliLoop.u
         v == vliLoop.v
         cmp == VliCmpUnsafe(a, b)
     IN vliLoop' =
          IF cmp = 0 THEN [at |-> "inverted", result |-> u]
          ELSE IF a[1] % 2 = 0 THEN [vliLoop EXCEPT !.a = RShift1(a), !.u = Halved(u)]
          ELSE IF b[1] % 2 = 0 THEN [vliLoop EXCEPT !.b = RShift1(b), !.v = Halved(v)]
          ELSE IF cmp > 0
          THEN [vliLoop EXCEPT !.a = RShift1(VliSub(a, b).words), !.u = Halved(Minus(u, v))]
          ELSE [vliLoop EXCEPT !.b = RShift1(VliSub(b, a).words), !.v = Halved(Minus(v, u))]
  /\ UNCHANGED <<left, right, modulus>>

\* uECC_generate_random_int: the generator fills the words with anything, or fails;
\* the bits above those of the modulus are cleared.
RandomStart ==
  /\ vliLoop.at = "start" /\ left = 0 /\ right = 0
  /\ vliLoop' = [at |-> "random", tries |-> 0]
  /\ UNCHANGED <<left, right, modulus>>

\* Mutant of RandomTry: zero and the modulus are taken.
RandomTryAll ==
  /\ vliLoop.at = "random"
  /\ \E n \in 0..(Word^VliWords - 1) :
       LET random == Vli(n % 2^NumBits(Vli(modulus)))
       IN vliLoop' = IF VliCmp(Vli(modulus), random) # -1
                     THEN [at |-> "a random", result |-> random]
                     ELSE [vliLoop EXCEPT !.tries = @ + 1]
  /\ UNCHANGED <<left, right, modulus>>

RandomTry ==
  /\ vliLoop.at = "random"
  /\ \/ vliLoop.tries = RngMaxTries /\ vliLoop' = [at |-> "no random"]
     \/ vliLoop.tries < RngMaxTries /\ vliLoop' = [at |-> "no random"]
     \/ /\ vliLoop.tries < RngMaxTries
        /\ \E n \in 0..(Word^VliWords - 1) :
             LET random == Vli(n % 2^NumBits(Vli(modulus)))
             IN vliLoop' = IF ~IsZero(random) /\ VliCmp(Vli(modulus), random) = 1
                           THEN [at |-> "a random", result |-> random]
                           ELSE [vliLoop EXCEPT !.tries = @ + 1]
  /\ UNCHANGED <<left, right, modulus>>

VliNext == MmodStart \/ MmodTurn \/ ModInvStart \/ ModInvTurn \/ RandomStart \/ RandomTry

----------------------------------------------------------------------------
\* Sums, differences and products of words are those of the numbers: carries and
\* borrows are detected in every case, also when a word stays the same.
WordsAreNumbers ==
  vliLoop.at = "start" =>
    LET l == Vli(left)
        r == Vli(right)
        m == Vli(modulus)
    IN /\ Number(VliAdd(l, r).words) + Word^VliWords * VliAdd(l, r).carry = left + right
       /\ Number(VliSub(l, r).words) = left - right + Word^VliWords * VliSub(l, r).borrow
       /\ VliCmp(l, r) = VliCmpUnsafe(l, r)
       /\ VliCmp(l, r) = IF left = right THEN 0 ELSE IF left > right THEN 1 ELSE -1
       /\ Number(VliMult(l, r)) = left * right
       /\ Number(ModAdd(l, r, m)) = (left + right) % modulus
       /\ Number(ModSub(l, r, m)) = (left - right) % modulus
       /\ BytesToNative(NativeToBytes(l, VliWords * WordBytes)) = l
       /\ NumBits(l) = Cardinality({i \in 0..VliSize - 1 : 2^i <= left})

\* A square is the product of the number with itself, although every mixed product
\* is added once and doubled.
SquareIsProduct ==
  vliLoop.at = "start" /\ right = left => VliSquare(Vli(left)) = VliMult(Vli(left), Vli(left))

\* The reduction keeps the product modulo the modulus, below twice the multiple, and
\* ends with the remainder.
ReductionIsRemainder ==
  /\ vliLoop.at = "mmod" =>
       /\ (Number(vliLoop.rest) - left * right) % modulus = 0
       /\ Number(vliLoop.rest) < 2 * modulus * 2^(vliLoop.shift + 1)
  /\ vliLoop.at = "reduced" => Number(vliLoop.result) = (left * right) % modulus

\* The inverse: u and v stay the multiples of a and b that they are, and the loop
\* ends with an inverse.
InverseKeepsMultiples ==
  /\ vliLoop.at = "invert" =>
       /\ (Number(vliLoop.u) * left - Number(vliLoop.a)) % modulus = 0
       /\ (Number(vliLoop.v) * left - Number(vliLoop.b)) % modulus = 0
       /\ Number(vliLoop.u) < modulus /\ Number(vliLoop.v) < modulus
  /\ vliLoop.at = "inverted" /\ left # 0 => (Number(vliLoop.result) * left) % modulus = 1

\* A random number is in the range of private keys.
RandomIsKey ==
  vliLoop.at = "a random" => Number(vliLoop.result) \in 1..modulus - 1

\* A hash of any length gives its leading bits modulo the order; the one subtraction is
\* enough to make them less than the order, except when this fills its last byte:
\* then nothing is moved and nothing subtracted.
HashIsReduced ==
  vliLoop.at = "start" =>
    LET nBits == NumBits(Vli(modulus))
        bytes(n) == NativeToBytes(ToWords(left + Word * right, 2 * VliWords), n)
        lead(n) == LET value == Number(BytesToNative(bytes(n)))
                   IN IF n * ByteBits <= nBits THEN value ELSE value \div 2^(n * ByteBits - nBits)
    IN \A n \in 1..(2 * VliWords * WordBytes - 1) :
         LET result == Number(BitsToInt(bytes(n), Vli(modulus)))
         IN /\ result % modulus = lead(n) % modulus
            /\ nBits % ByteBits # 0 => result < modulus

\* The operations of uECC.c on words, with their carries, are those on numbers and
\* modulo the moduli of the curves.
VliIsModular ==
  /\ WordsAreNumbers /\ SquareIsProduct /\ ReductionIsRemainder /\ InverseKeepsMultiples
  /\ RandomIsKey /\ HashIsReduced
=============================================================================
