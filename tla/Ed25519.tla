------------------------------ MODULE Ed25519 ------------------------------
(***************************************************************************)
(* ed25519.c with modm-donna-32bit.h and the scalar multiplications of     *)
(* ed25519-donna-impl-base.h: the keys and signatures of the nodes of      *)
(* bip32.c whose curve is Ed25519.                                         *)
(*                                                                         *)
(* Numbers modulo the order of the group are three limbs of 10 bits (nine  *)
(* of 30), bytes have 3 bits (8) and a scalar eight of them (32), so that  *)
(* every boundary inside a limb is where it is in the code: 21, 24 and 27  *)
(* bits stand for 248, 256 and 264.  A point is a multiple of the base     *)
(* point; what the code knows of its coordinates besides is kept.          *)
(***************************************************************************)
EXTENDS Integers, Sequences, SequencesExt, Functions

CONSTANTS EdM,        \* modm_m: the order
          EdMu,       \* modm_mu: 2^48 divided by it, as limbs
          EdSecrets,  \* bound: first halves of the hashes of secret keys
          EdHashes    \* bound: other hashes

VARIABLES edSecret,   \* extsk[0..31] before the clamping
          edHashR,    \* the hash that makes r
          edHram,     \* the hash of R, A and the message
          edA, edR,   \* the public key and R
          edS,        \* the second half of a signature
          edSlides,   \* slide1 and slide2
          edI,        \* i of the loops over them
          edPoint,    \* r of the loop over them
          edStage

edVars == <<edSecret, edHashR, edHram, edA, edR, edS, edSlides, edI, edPoint, edStage>>

EdLimb == 2^10
LimbIndex == 0..2
ScalarBytes == 8
ScalarBits == 24
EdLimbsOf(n) == [i \in LimbIndex |-> (n \div (2^(10 * i))) % EdLimb]
ModmM == EdLimbsOf(EdM)
ModmMu == EdLimbsOf(EdMu)

----------------------------------------------------------------------------
(* modm-donna-32bit.h                                                       *)

\* x - y limb by limb, and the last borrow: `top` bits are left in the last limb.
BorrowInto(x, y, top) ==
  LET b0 == IF x[0] < y[0] THEN 1 ELSE 0
      b1 == IF x[1] < y[1] + b0 THEN 1 ELSE 0
      b2 == IF x[2] < y[2] + b1 THEN 1 ELSE 0
  IN [difference |-> [i \in LimbIndex |-> CASE i = 0 -> x[0] - y[0] + (b0 * EdLimb)
                                            [] i = 1 -> x[1] - (y[1] + b0) + (b1 * EdLimb)
                                            [] i = 2 -> x[2] - (y[2] + b1) + (b2 * 2^top)],
      borrow |-> b2]

\* reduce256_modm: r, or r - m.
Reduce256(r) ==
  LET t == BorrowInto(r, ModmM, 4) IN IF t.borrow = 1 THEN r ELSE t.difference

\* The column n of a product, and the digits of the columns from n on, with the carries.
Column(x, y, n) ==
  LET term(i) == IF n - i \in LimbIndex THEN x[i] * y[n - i] ELSE 0 IN term(0) + term(1) + term(2)
RECURSIVE ColumnDigits(_, _, _, _)
ColumnDigits(x, y, n, carry) ==
  IF n = 5 THEN <<carry>>
  ELSE LET c == carry + Column(x, y, n)
       IN <<c % EdLimb>> \o ColumnDigits(x, y, n + 1, c \div EdLimb)

\* Three limbs of digits, from bit `shift` of the first on.
Shifted(digits, shift) ==
  [i \in LimbIndex |-> ((digits[i + 1] \div 2^shift) + (digits[i + 2] * 2^(10 - shift))) % EdLimb]
\* The lowest 27 bits (264).
Low27(digits) == [i \in LimbIndex |-> IF i = 2 THEN digits[3] % 2^7 ELSE digits[i + 1]]

\* Mutant of Barrett: r is taken to be below m.
BarrettOnce(q1, r1) ==
  LET q2 == ColumnDigits(ModmMu, q1, 2, Column(ModmMu, q1, 1) \div EdLimb)
      q3 == Shifted(q2, 7)
      r2 == Low27(ColumnDigits(q3, ModmM, 0, 0))
  IN BorrowInto(r1, r2, 7).difference

\* barrett_reduce256_modm: the columns of q2 below the 8th (here the 1st) are left out.
Barrett(q1, r1) ==
  LET q2 == ColumnDigits(ModmMu, q1, 2, Column(ModmMu, q1, 1) \div EdLimb)
      q3 == Shifted(q2, 7)
      r2 == Low27(ColumnDigits(q3, ModmM, 0, 0))
      r == BorrowInto(r1, r2, 7).difference
  IN Reduce256(Reduce256(r))

\* mul256_modm: q1 is the product from bit 21 (248) on.
Mul256(x, y) ==
  LET d == ColumnDigits(x, y, 0, 0)
  IN Barrett(Shifted(SubSeq(d, 3, 6), 1), Low27(d))

\* add256_modm
Add256(x, y) ==
  LET c0 == x[0] + y[0]
      c1 == x[1] + y[1] + (c0 \div EdLimb)
      c2 == x[2] + y[2] + (c1 \div EdLimb)
  IN Reduce256([i \in LimbIndex |-> CASE i = 0 -> c0 % EdLimb [] i = 1 -> c1 % EdLimb [] i = 2 -> c2])

\* Bits of bytes, least significant first; limbs of them.
EdBit(bytes, n) ==
  IF n < 3 * Len(bytes) THEN (bytes[(n \div 3) + 1] \div 2^(n % 3)) % 2 ELSE 0
BitLimb(bytes, from, count) ==
  FoldFunctionOnSet(+, 0, [n \in 0..count - 1 |-> EdBit(bytes, from + n) * 2^n], 0..count - 1)

\* expand256_modm: of bytes shorter than a scalar nothing is reduced.
Expand256(bytes) ==
  LET out == [i \in LimbIndex |-> BitLimb(bytes, 10 * i, IF i = 2 THEN 7 ELSE 10)]
      q1 == [i \in LimbIndex |-> BitLimb(bytes, 21 + 10 * i, 10)]
  IN IF Len(bytes) < ScalarBytes THEN out ELSE Barrett(q1, out)

\* expand_raw256_modm
ExpandRaw256(bytes) == [i \in LimbIndex |-> BitLimb(bytes, 10 * i, IF i = 2 THEN 4 ELSE 10)]

\* contract256_modm
LimbBit(x, n) == (x[n \div 10] \div 2^(n % 10)) % 2
Contract256(x) ==
  [b \in 1..ScalarBytes |-> LET n == 3 * (b - 1)
                            IN LimbBit(x, n) + 2 * LimbBit(x, n + 1) + 4 * LimbBit(x, n + 2)]

\* contract256_window4_modm: 2 quads of the first limb (7), its last two bits go before
\* the second one, 3 quads (8), and one of the last limb (4).
Quads(x) ==
  LET v == (x[0] \div 256) + (x[1] * 4)
  IN <<x[0] % 16, (x[0] \div 16) % 16, v % 16, (v \div 16) % 16, (v \div 256) % 16, x[2] % 16>>
RECURSIVE SignedQuads(_, _, _)
SignedQuads(r, i, carry) ==
  IF i = Len(r) THEN [r EXCEPT ![i] = @ + carry]
  ELSE LET n == r[i] + carry
           up == (n % 16) \div 8
       IN SignedQuads([r EXCEPT ![i] = (n % 16) - 16 * up, ![i + 1] = @ + (n \div 16)], i + 1, up)
Window4(x) == SignedQuads(Quads(x), 1, 0)

\* contract256_slidingwindow_modm, from the bits on; position j is r[j].
ScalarIndex == 0..ScalarBits - 1
\* The carry at position k: a run of ones becomes zeros and a one behind them.
CarryAt(r, k) ==
  LET free == {n \in k..ScalarBits - 1 : r[n] = 0}
      first == IF free = {} THEN ScalarBits ELSE CHOOSE n \in free : \A o \in free : n <= o
  IN [n \in ScalarIndex |-> IF n = first THEN 1 ELSE IF k <= n /\ n < first THEN 0 ELSE r[n]]

\* Mutant of Absorb: a bit that is subtracted carries nothing.
AbsorbNoCarry(r, j, b, m) ==
  LET bit == r[j + b] * 2^b
  IN IF r[j] + bit <= m THEN [r EXCEPT ![j] = @ + bit, ![j + b] = 0]
     ELSE IF r[j] - bit >= -m THEN [r EXCEPT ![j] = @ - bit, ![j + b] = 0]
     ELSE r

\* One turn of the loop over b; a bit that fits neither way ends the loop.
Absorb(r, j, b, m) ==
  LET bit == r[j + b] * 2^b
  IN IF r[j] + bit <= m THEN [r EXCEPT ![j] = @ + bit, ![j + b] = 0]
     ELSE IF r[j] - bit >= -m THEN CarryAt([r EXCEPT ![j] = @ - bit], j + b)
     ELSE r
RECURSIVE SlideOver(_, _, _, _)
SlideOver(r, j, b, m) ==
  IF b >= ScalarBits - j \/ b > 6 THEN r
  ELSE LET bit == r[j + b] * 2^b
           full == r[j] + bit > m /\ r[j] - bit < -m
       IN IF full THEN r ELSE SlideOver(Absorb(r, j, b, m), j, b + 1, m)
\* One turn of the loop over j.
SlideTurn(r, j, windowsize) ==
  IF r[j] = 0 THEN r ELSE SlideOver(r, j, 1, 2^(windowsize - 1) - 1)

----------------------------------------------------------------------------
(* ed25519-donna-impl-base.h.  Points are multiples of the base point; full *)
(* says that the coordinate t is that of x, y and z.  A sum that uses      *)
(* another t is no multiple of anything: n is then -1.                     *)

S1Window == 5
S2Window == 7
Neutral == [n |-> 0, full |-> TRUE]
Multiple(p) == IF p.n = -1 THEN -1 ELSE p.n % EdM

\* ge25519_nielsadd2 and the _p1p1 sums; withD: the niels point's t2d has the factor d.
SumWith(p, n, withD) ==
  [n |-> IF p.n = -1 \/ ~p.full \/ ~withD THEN -1 ELSE (p.n + n) % EdM, full |-> TRUE]
\* ge25519_double, ge25519_double_partial: no t is needed, none is made by the latter.
DoubleTo(p, full) == [n |-> IF p.n = -1 THEN -1 ELSE (2 * p.n) % EdM, full |-> full]

\* ge25519_scalarmult_base_choose_niels of position pos: |b| times 256^pos, or the neutral
\* point; the t2d of the first position's points have no factor d.
Chosen(pos, b) == ((IF b < 0 THEN -b ELSE b) * 256^pos) * (IF b < 0 THEN -1 ELSE 1)
HasD(pos, b) == pos > 0 \/ b = 0
TableHolds(b) == b \in -8..8

\* The sum of the quads i, i + 2, .. with those of a position above 0.
RECURSIVE AddQuads(_, _, _)
AddQuads(p, quads, i) ==
  IF i > 5 THEN p
  ELSE AddQuads(SumWith(p, Chosen(i \div 2, quads[i + 1]), HasD(i \div 2, quads[i + 1])), quads, i + 2)

\* Mutant of BaseMultiple: the fourth doubling makes no t.
BaseMultiplePartial(x) ==
  LET b == Window4(x)
      odd == AddQuads([n |-> Chosen(0, b[2]) % EdM, full |-> TRUE], b, 3)
      sixteen == DoubleTo(DoubleTo(DoubleTo(DoubleTo(odd, FALSE), FALSE), FALSE), FALSE)
      first == SumWith(sixteen, Chosen(0, b[1]), TRUE)
  IN AddQuads(first, b, 2)

\* ge25519_scalarmult_base_niels: the odd quads, times 16, and the even ones.  The first
\* point is taken from the table as it is; for b[0] the factor d is multiplied in.
BaseMultiple(x) ==
  LET b == Window4(x)
      odd == AddQuads([n |-> Chosen(0, b[2]) % EdM, full |-> TRUE], b, 3)
      sixteen == DoubleTo(DoubleTo(DoubleTo(DoubleTo(odd, FALSE), FALSE), FALSE), TRUE)
      first == SumWith(sixteen, Chosen(0, b[1]), TRUE)
  IN AddQuads(first, b, 2)

\* An entry of a table of odd multiples, by the digit that asks for it.
OddEntry(digit, windowsize) ==
  LET index == (IF digit < 0 THEN -digit ELSE digit) \div 2
  IN IF index < 2^(windowsize - 2) THEN (2 * index + 1) * (IF digit < 0 THEN -1 ELSE 1) ELSE 0

----------------------------------------------------------------------------
(* ed25519.c                                                                *)

\* ed25519_extsk: the lowest bits (3) and the highest are cleared, the next one set.
Clamped(bytes) ==
  [bytes EXCEPT ![1] = (@ \div 2) * 2, ![ScalarBytes] = (@ % 2) + 2]
SecretScalar == Expand256(Clamped(edSecret))

EdInit ==
  /\ edSecret \in EdSecrets /\ edHashR \in EdHashes /\ edHram \in EdHashes
  /\ edA = 0 /\ edR = 0 /\ edS = <<>> /\ edSlides = <<>> /\ edI = 0
  /\ edPoint = Neutral /\ edStage = "key"

\* ed25519_publickey
EdPublicKey ==
  /\ edStage = "key" /\ edStage' = "sign"
  /\ edA' = Multiple(BaseMultiple(SecretScalar))
  /\ UNCHANGED <<edSecret, edHashR, edHram, edR, edS, edSlides, edI, edPoint>>

\* curved25519_scalarmult_basepoint, of the same secret: the scalar is not reduced.
EdBasepoint ==
  /\ edStage = "key" /\ edStage' = "end"
  /\ edPoint' = BaseMultiple(ExpandRaw256(Clamped(edSecret)))
  /\ UNCHANGED <<edSecret, edHashR, edHram, edA, edR, edS, edSlides, edI>>

\* ed25519_sign
EdSign ==
  /\ edStage = "sign" /\ edStage' = "open"
  /\ LET r == Expand256(edHashR)
     IN /\ edR' = Multiple(BaseMultiple(r))
        /\ edS' = Contract256(Add256(Mul256(Expand256(edHram), SecretScalar), r))
  /\ UNCHANGED <<edSecret, edHashR, edHram, edA, edSlides, edI, edPoint>>

\* ed25519_sign_open, to ge25519_double_scalarmult_vartime; the highest bits (3) of S
\* must be clear.  The slides begin as the bits of the scalars.
EdOpen ==
  /\ edStage = "open"
  /\ IF edS[ScalarBytes] >= 4
     THEN edStage' = "refused" /\ UNCHANGED edSlides
     ELSE /\ edStage' = "slide"
          /\ edSlides' = [scalar \in 1..2 |->
               LET x == Expand256(IF scalar = 1 THEN edHram ELSE edS) IN [n \in ScalarIndex |-> LimbBit(x, n)]]
  /\ UNCHANGED <<edSecret, edHashR, edHram, edA, edR, edS, edI, edPoint>>

\* One turn of contract256_slidingwindow_modm of both scalars; at its end, i is at the
\* first digit that is not 0.
EdSlide ==
  /\ edStage = "slide"
  /\ IF edI < ScalarBits
     THEN /\ edSlides' = <<SlideTurn(edSlides[1], edI, S1Window), SlideTurn(edSlides[2], edI, S2Window)>>
          /\ edI' = edI + 1
          /\ UNCHANGED edStage
     ELSE LET used == {n \in ScalarIndex : edSlides[1][n] # 0 \/ edSlides[2][n] # 0}
          IN /\ edI' = IF used = {} THEN -1 ELSE CHOOSE n \in used : \A o \in used : o <= n
             /\ edStage' = "loop"
             /\ UNCHANGED edSlides
  /\ UNCHANGED <<edSecret, edHashR, edHram, edA, edR, edS, edPoint>>

\* One turn of the loop.  The key was unpacked as its negative.
EdTurn ==
  /\ edStage = "loop" /\ edI >= 0
  /\ LET d1 == edSlides[1][edI]
         d2 == edSlides[2][edI]
         doubled == DoubleTo(edPoint, TRUE)
         with1 == IF d1 = 0 THEN doubled ELSE SumWith(doubled, -(edA * OddEntry(d1, S1Window)), TRUE)
         with2 == IF d2 = 0 THEN with1 ELSE SumWith(with1, OddEntry(d2, S2Window), TRUE)
     IN edPoint' = [with2 EXCEPT !.full = FALSE]
  /\ edI' = edI - 1
  /\ UNCHANGED <<edSecret, edHashR, edHram, edA, edR, edS, edSlides, edStage>>

\* The end of ed25519_sign_open.
EdCheck ==
  /\ edStage = "loop" /\ edI = -1
  /\ edStage' = IF Multiple(edPoint) = edR THEN "accepted" ELSE "refused"
  /\ UNCHANGED <<edSecret, edHashR, edHram, edA, edR, edS, edSlides, edI, edPoint>>

EdNext == EdPublicKey \/ EdBasepoint \/ EdSign \/ EdOpen \/ EdSlide \/ EdTurn \/ EdCheck

----------------------------------------------------------------------------
(* The meaning of bytes, without limbs: their number modulo the order.      *)

RECURSIVE ModM(_)
ModM(bytes) ==
  IF bytes = <<>> THEN 0 ELSE (8 * ModM(Tail(bytes)) + Head(bytes)) % EdM
RECURSIVE ProductModM(_, _)
ProductModM(n, k) ==
  IF k = 0 THEN 0
  ELSE ((2 * ProductModM(n, k \div 2)) + (IF k % 2 = 1 THEN n ELSE 0)) % EdM

\* Public keys and the points of signatures are the multiples that the bytes mean, of
\* whatever length: no digit is too great for its table, no t is used that was not made,
\* and the scalar that is not reduced loses no carry at its end.
MultiplesAreMeant ==
  /\ edStage \notin {"key", "end"} => edA = ModM(Clamped(edSecret))
  /\ edStage = "end" => Multiple(edPoint) = ModM(Clamped(edSecret))
  /\ edStage \in {"open", "slide", "loop", "accepted", "refused"} => edR = ModM(edHashR)
  /\ edStage = "key" =>
       LET quads == Window4(ExpandRaw256(Clamped(edSecret)))
       IN \A i \in DOMAIN quads : TableHolds(quads[i])

\* The second half of a signature is r + H a modulo the order, and is reduced.
SecondHalfIsReduced ==
  edS # <<>> =>
    ModM(edHashR) + ProductModM(ModM(Clamped(edSecret)), ModM(edHram)) \in
      {n + (EdM * k) : n \in {BitLimb(edS, 0, 24)}, k \in {0, 1}}

\* In every turn the digits of the sliding windows make the two scalars; then every one
\* has an entry in its table, and what the loop has added up is the part of the scalars
\* that it has seen.
WindowsKeepScalars ==
  edStage \in {"slide", "loop"} =>
    LET value(slide, from) ==
          FoldFunctionOnSet(+, 0, [n \in from..ScalarBits - 1 |-> slide[n] * 2^(n - from)],
                            from..ScalarBits - 1)
        fits(slide, w) == \A n \in ScalarIndex : slide[n] # 0 => OddEntry(slide[n], w) = slide[n]
    IN /\ value(edSlides[1], 0) = ModM(edHram) /\ value(edSlides[2], 0) = BitLimb(edS, 0, 24)
       /\ edStage = "loop" =>
            /\ fits(edSlides[1], S1Window) /\ fits(edSlides[2], S2Window)
            /\ Multiple(edPoint) =
                 (value(edSlides[2], edI + 1) + ProductModM(EdM - edA, value(edSlides[1], edI + 1))) % EdM

\* A signature is accepted with the key of the one who made it.
EdSignatureIsAccepted == edStage # "refused"

\* The digits and limbs of scalars mean the scalars of the standard all the way from
\* the secret to the accepted signature (ed25519.c).
EdFollowsTheStandard ==
  MultiplesAreMeant /\ SecondHalfIsReduced /\ WindowsKeepScalars /\ EdSignatureIsAccepted
=============================================================================
