------------------------------- MODULE Ecdsa -------------------------------
(***************************************************************************)
(* ecdsa.c: points, the two scalar multiplications with signed windows,    *)
(* keys, signatures, recovery and DER.  Numbers are numbers here: that     *)
(* their limbs make them so is specified in Bignum.                        *)
(*                                                                         *)
(* The hazard is in the exceptional cases: the sum of two Jacobian points  *)
(* that are equal, or opposite, the scalar 0, an even scalar, which is     *)
(* replaced by a negative odd one, and the signs that are carried over     *)
(* from one window to the next.                                            *)
(***************************************************************************)
EXTENDS Integers, Sequences, SequencesExt

CONSTANTS EcP, EcA, EcB, EcN, EcG,  \* the curve; EcA is in -3..0
          EcWindow, EcWindows,      \* bits per window, and windows: 4 and 64 in the code
          EcByte,                   \* bits per byte of a signature: 8 in the code
          EcScalars, EcPoints,      \* bound: what is multiplied
          EcZs,                     \* bound: the random Z
          EcKeys, EcNonces,         \* bound: private keys and nonces
          EcDigests                 \* bound: digests

EcBits == EcWindow * EcWindows

EcRef == INSTANCE CurveGroup WITH CurveP <- EcP, CurveA <- EcA, CurveB <- EcB

ASSUME EcAssumption ==
  /\ EcA \in -3..0 /\ EcP % 4 = 3
  /\ EcN % 2 = 1 /\ EcN < 2^EcBits /\ 2^(EcBits - 1) < EcN
  /\ EcP < 2^EcBits /\ EcN < EcP
  /\ EcScalars \subseteq 0..EcN - 1 /\ EcZs \subseteq 1..EcP - 1

VARIABLES ecScalar, ecPoint, ecWork
ecVars == <<ecScalar, ecPoint, ecWork>>

\* point_set_infinity: both coordinates are 0.
EcInfinity == <<0, 0>>

EcInverse(n, m) == CHOOSE k \in 1..m - 1 : (n * k) % m = 1

----------------------------------------------------------------------------
(* Points.                                                                 *)

\* point_double
PointDouble(q) ==
  LET lambda == (((3 * q[1] * q[1] + EcA) % EcP) * EcInverse((2 * q[2]) % EcP, EcP)) % EcP
      x == (lambda * lambda - 2 * q[1]) % EcP
  IN IF q = EcInfinity \/ q[2] = 0 THEN EcInfinity
     ELSE <<x, (lambda * (q[1] - x) - q[2]) % EcP>>

\* point_is_negative_of
IsNegativeOf(p, q) == p[1] = q[1] /\ p[2] # 0 /\ p[2] # q[2]

\* point_add
PointAdd(p, q) ==
  LET lambda == (((q[2] - p[2]) % EcP) * EcInverse((q[1] - p[1]) % EcP, EcP)) % EcP
      x == (lambda * lambda - p[1] - q[1]) % EcP
  IN IF p = EcInfinity THEN q
     ELSE IF q = EcInfinity THEN p
     ELSE IF p = q THEN PointDouble(q)
     ELSE IF IsNegativeOf(p, q) THEN EcInfinity
     ELSE <<x, (lambda * (p[1] - x) - p[2]) % EcP>>

EcHalf(n) == IF n % 2 = 1 THEN (n + EcP) \div 2 ELSE n \div 2
Cube(n) == (((n * n) % EcP) * n) % EcP

\* curve_to_jacobian, with the random Z that it draws, and jacobian_to_curve.
ToJacobian(q, z) == [x |-> (q[1] * ((z * z) % EcP)) % EcP, y |-> (q[2] * Cube(z)) % EcP, z |-> z]
FromJacobian(j) ==
  LET inverse == EcInverse(j.z, EcP)
  IN <<(j.x * ((inverse * inverse) % EcP)) % EcP, (j.y * Cube(inverse)) % EcP>>

\* The end of point_jacobian_add, from the numerator and denominator of the slope.
JacobianChord(r, h, j, xs, ys) ==
  LET hsqx == (((h * h) % EcP) * xs) % EcP
      hcby == (Cube(h) * ys) % EcP
      x == (r * r - hsqx) % EcP
  IN [x |-> x, y |-> EcHalf((r * (hsqx - 2 * x) - hcby) % EcP), z |-> (h * j.z) % EcP]

\* a z^4
ScaledA(z) == (EcA * ((Cube(z) * z) % EcP)) % EcP

\* point_jacobian_add
JacobianAdd(p, j) ==
  LET x1 == (p[1] * ((j.z * j.z) % EcP)) % EcP
      y1 == (p[2] * Cube(j.z)) % EcP
  IN IF x1 = j.x
     THEN JacobianChord((3 * j.x * j.x + ScaledA(j.z)) % EcP, (y1 + j.y) % EcP, j, x1 + j.x, y1 + j.y)
     ELSE JacobianChord((y1 - j.y) % EcP, (x1 - j.x) % EcP, j, x1 + j.x, y1 + j.y)

\* point_jacobian_double
JacobianDouble(j) ==
  LET m == EcHalf((3 * j.x * j.x + ScaledA(j.z)) % EcP)
      ysq == (j.y * j.y) % EcP
      xysq == (j.x * ysq) % EcP
      x == (m * m - 2 * xysq) % EcP
  IN [x |-> x, y |-> (m * (xysq - x) - ysq * ysq) % EcP, z |-> (j.y * j.z) % EcP]

----------------------------------------------------------------------------
(* Scalars in signed windows.                                              *)

\* The scalar plus 2^256, made odd by taking the order from an even one.
Recoded(k) == k + 2^EcBits - (IF k % 2 = 0 THEN EcN ELSE 0)

\* The sign and the index in the table of odd multiples of window i: its bits and the
\* bit above them.
WindowBitsOf(a, i) == (a \div 2^(EcWindow * i)) % 2^(EcWindow + 1)
IsNegative(a, i) == WindowBitsOf(a, i) < 2^EcWindow
TableIndex(a, i) ==
  LET low == WindowBitsOf(a, i) % 2^EcWindow
  IN (IF IsNegative(a, i) THEN 2^EcWindow - 1 - low ELSE low) \div 2

\* pmult, by repeated addition of 2p; and the precomputed table of the curve.
RECURSIVE OddMultiple(_, _)
OddMultiple(p, i) == IF i = 0 THEN p ELSE PointAdd(OddMultiple(p, i - 1), PointDouble(p))
PrecomputedCp == [i \in 0..EcWindows - 1 |-> [j \in 0..2^(EcWindow - 1) - 1 |->
                    EcRef!Times((2 * j + 1) * 2^(EcWindow * i), EcG)]]

RECURSIVE Doubled(_, _)
Doubled(j, n) == IF n = 0 THEN j ELSE Doubled(JacobianDouble(j), n - 1)
NegateIf(c, n) == IF c THEN (-n) % EcP ELSE n

\* point_multiply: the top window, then one turn per window downwards.
MultiplyFirst(a, p, z) ==
  [j |-> ToJacobian(OddMultiple(p, TableIndex(a, EcWindows - 1)), z),
   neg |-> IsNegative(a, EcWindows - 1)]

MultiplyTurn(m, a, p, i) ==
  LET d == Doubled(m.j, EcWindow)
  IN [j |-> JacobianAdd(OddMultiple(p, TableIndex(a, i)),
                        [d EXCEPT !.z = NegateIf(m.neg # IsNegative(a, i), @)]),
      neg |-> IsNegative(a, i)]
MultiplyEnd(m) == FromJacobian([m.j EXCEPT !.z = NegateIf(m.neg, @)])

\* scalar_multiply: upwards, over the table of the generator.
ScalarFirst(a, z) == [j |-> ToJacobian(PrecomputedCp[0][TableIndex(a, 0)], z)]

\* Mutant of ScalarTurn: the sign is taken before the complement of the window.
ScalarTurnEarlySign(m, a, i) ==
  [j |-> JacobianAdd(PrecomputedCp[i][TableIndex(a, i)],
                     [m.j EXCEPT !.y = NegateIf(WindowBitsOf(a, i) % 2 = 0, @)])]

ScalarTurn(m, a, i) ==
  [j |-> JacobianAdd(PrecomputedCp[i][TableIndex(a, i)],
                     [m.j EXCEPT !.y = NegateIf(WindowBitsOf(a, i) % 2 = (IF IsNegative(a, i) THEN 1 ELSE 0), @)])]
ScalarEnd(m, a) == FromJacobian([m.j EXCEPT !.y = NegateIf(IsNegative(a, EcWindows - 1), @)])

\* Both as functions, with Z = 1, for the operations below.
PointMultiply(k, p) ==
  LET a == Recoded(k)
  IN IF k = 0 THEN EcInfinity
     ELSE MultiplyEnd(FoldLeft(LAMBDA m, i : MultiplyTurn(m, a, p, EcWindows - 1 - i),
                               MultiplyFirst(a, p, 1), [i \in 1..EcWindows - 1 |-> i]))
ScalarMultiply(k) ==
  LET a == Recoded(k)
  IN IF k = 0 THEN EcInfinity
     ELSE ScalarEnd(FoldLeft(LAMBDA m, i : ScalarTurn(m, a, i),
                             ScalarFirst(a, 1), [i \in 1..EcWindows - 1 |-> i]), a)

----------------------------------------------------------------------------
(* Keys.                                                                   *)

RECURSIVE EcPower(_, _)
EcPower(n, e) ==
  IF e = 0 THEN 1
  ELSE LET half == EcPower(n, e \div 2)
       IN (((half * half) % EcP) * (IF e % 2 = 1 THEN n ELSE 1)) % EcP

\* x^3 + a x + b, and its root: the power that bn_sqrt computes.
CurveSide(x) == (((x * x + EcA) % EcP) * (x % EcP) + EcB) % EcP

\* Mutant of UncompressCoords: the root that comes first.
UncompressCoordsFirst(odd, x) == EcPower(CurveSide(x), (EcP + 1) \div 4)

UncompressCoords(odd, x) ==
  LET y == EcPower(CurveSide(x), (EcP + 1) \div 4)
  IN IF odd % 2 # y % 2 THEN EcP - y ELSE y

\* ecdsa_validate_pubkey
ValidatePubkey(q) ==
  /\ q # EcInfinity /\ q[1] < EcP /\ q[2] < EcP
  /\ (q[2] * q[2]) % EcP = CurveSide(q[1])

\* ecdsa_get_public_key33 and ecdsa_get_public_key65
Compressed(q) == <<2 + (q[2] % 2), q[1]>>
PublicKey33(d) == Compressed(ScalarMultiply(d))
PublicKey65(d) == <<4>> \o ScalarMultiply(d)

\* ecdsa_read_pubkey: the point, or infinity when the key is refused.
ReadPubkey(key) ==
  LET q == IF key[1] = 4 THEN <<key[2], key[3]>>
           ELSE IF key[1] \in {2, 3} THEN <<key[2], UncompressCoords(key[1], key[2])>>
           ELSE EcInfinity
  IN IF ValidatePubkey(q) THEN q ELSE EcInfinity

----------------------------------------------------------------------------
(* Signatures.  Failing functions return a number, as in the code.         *)

\* ecdsa_sign_digest with the nonce k, whose multiple of the generator is R.
SignWithPoint(R, d, e, k) ==
  LET r == IF R[1] >= EcN THEN R[1] - EcN ELSE R[1]
      s == (((r * d + e) % EcN) * EcInverse(k, EcN)) % EcN
      by == (R[2] % 2) + (IF R[1] >= EcN THEN 2 ELSE 0)
      flipped == IF by % 2 = 1 THEN by - 1 ELSE by + 1
  IN IF r = 0 THEN [result |-> 2]
     ELSE IF s = 0 THEN [result |-> 3]
     ELSE IF s > EcN \div 2 THEN [result |-> 0, r |-> r, s |-> EcN - s, by |-> flipped]
     ELSE [result |-> 0, r |-> r, s |-> s, by |-> by]

SignDigest(d, e, k) == SignWithPoint(ScalarMultiply(k), d, e, k)

InRange(n) == n # 0 /\ n < EcN

\* Mutant of VerifyDigest: the sum is not reduced by the order.
VerifyDigestUnreduced(key, sig, e) ==
  LET pub == ReadPubkey(key)
      w == EcInverse(sig.s, EcN)
      z == (e * w) % EcN
      sum == PointAdd(PointMultiply((sig.r * w) % EcN, pub), ScalarMultiply(z))
  IN IF pub = EcInfinity THEN 1
     ELSE IF ~InRange(sig.r) \/ ~InRange(sig.s) THEN 2
     ELSE IF z = 0 THEN 3
     ELSE IF sum[1] # sig.r THEN 5 ELSE 0

\* ecdsa_verify_digest
VerifyDigest(key, sig, e) ==
  LET pub == ReadPubkey(key)
      w == EcInverse(sig.s, EcN)
      z == (e * w) % EcN
      sum == PointAdd(PointMultiply((sig.r * w) % EcN, pub), ScalarMultiply(z))
  IN IF pub = EcInfinity THEN 1
     ELSE IF ~InRange(sig.r) \/ ~InRange(sig.s) THEN 2
     ELSE IF z = 0 THEN 3
     ELSE IF sum[1] % EcN # sig.r THEN 5 ELSE 0

\* Of s R and e G: their difference is infinity, whose product point_multiply would
\* convert from Z = 0.  The inverse of 0 is not defined; it is left out here.
RecoverIsDefined(R, sig, e) == PointAdd(ScalarMultiply((-e) % EcN), PointMultiply(sig.s, R)) # EcInfinity

\* ecdsa_verify_digest_recover: the key, or <<>> when it fails.
Recover(sig, e, recid) ==
  LET x == sig.r + (IF recid >= 2 THEN EcN ELSE 0)
      R == <<x, UncompressCoords(recid % 2, x)>>
      sum == PointAdd(ScalarMultiply((-e) % EcN), PointMultiply(sig.s, R))
  IN IF ~InRange(sig.r) \/ ~InRange(sig.s) \/ x >= EcP \/ ~ValidatePubkey(R) THEN <<>>
     ELSE IF ~RecoverIsDefined(R, sig, e) THEN <<"undefined">>
     ELSE <<4>> \o PointMultiply(EcInverse(sig.r, EcN), sum)

----------------------------------------------------------------------------
(* DER: a sequence of two integers, minimal and not negative.  Here a byte *)
(* has EcByte bits and a number two bytes.                                 *)

BytesOf(n) == <<n \div 2^EcByte, n % 2^EcByte>>

\* The loops of ecdsa_sig_to_der over one number: leading zeros are skipped, a zero is
\* put back before a set top bit.
Stripped(bytes) == IF bytes[1] = 0 THEN Tail(bytes) ELSE bytes

\* Mutant of DerInteger: no zero before a top bit.
DerIntegerSigned(n) == <<2, Len(Stripped(BytesOf(n)))>> \o Stripped(BytesOf(n))

DerInteger(n) ==
  LET bytes == Stripped(BytesOf(n))
      body == (IF bytes[1] >= 2^(EcByte - 1) THEN <<0>> ELSE <<>>) \o bytes
  IN <<2, Len(body)>> \o body

\* ecdsa_sig_to_der
SigToDer(sig) ==
  LET body == DerInteger(sig.r) \o DerInteger(sig.s) IN <<48, Len(body)>> \o body

----------------------------------------------------------------------------
EcInit ==
  /\ ecScalar \in EcScalars /\ ecPoint \in EcPoints
  /\ ecWork = [at |-> "start"]

\* point_multiply
EcMultiplyStart ==
  /\ ecWork.at = "start"
  /\ IF ecScalar = 0 THEN ecWork' = [at |-> "product", of |-> ecPoint, q |-> EcInfinity]
     ELSE \E z \in EcZs :
            ecWork' = [at |-> "multiply", i |-> EcWindows - 1,
                       m |-> MultiplyFirst(Recoded(ecScalar), ecPoint, z)]
  /\ UNCHANGED <<ecScalar, ecPoint>>

EcMultiplyTurn ==
  /\ ecWork.at = "multiply"
  /\ ecWork' = IF ecWork.i = 0 THEN [at |-> "product", of |-> ecPoint, q |-> MultiplyEnd(ecWork.m)]
               ELSE [ecWork EXCEPT !.i = @ - 1,
                       !.m = MultiplyTurn(@, Recoded(ecScalar), ecPoint, ecWork.i - 1)]
  /\ UNCHANGED <<ecScalar, ecPoint>>

\* scalar_multiply
EcScalarStart ==
  /\ ecWork.at = "start" /\ ecPoint = EcG
  /\ IF ecScalar = 0 THEN ecWork' = [at |-> "product", of |-> EcG, q |-> EcInfinity]
     ELSE \E z \in EcZs :
            ecWork' = [at |-> "scalar", i |-> 0, m |-> ScalarFirst(Recoded(ecScalar), z)]
  /\ UNCHANGED <<ecScalar, ecPoint>>

EcScalarTurn ==
  /\ ecWork.at = "scalar"
  /\ ecWork' = IF ecWork.i = EcWindows - 1
               THEN [at |-> "product", of |-> EcG, q |-> ScalarEnd(ecWork.m, Recoded(ecScalar))]
               ELSE [ecWork EXCEPT !.i = @ + 1, !.m = ScalarTurn(@, Recoded(ecScalar), ecWork.i + 1)]
  /\ UNCHANGED <<ecScalar, ecPoint>>

\* ecdsa_sign_digest, with any nonce that generate_k_rfc6979 can return, and
\* ecdsa_sig_to_der of the result.
EcSign ==
  /\ ecWork.at = "start" /\ ecPoint = EcG /\ ecScalar \in EcKeys
  /\ \E e \in EcDigests, k \in EcNonces : \E sig \in {SignDigest(ecScalar, e, k)} :
       ecWork' = IF sig.result # 0 THEN [at |-> "refused"]
                 ELSE [at |-> "signed", e |-> e, sig |-> sig, der |-> SigToDer(sig)]
  /\ UNCHANGED <<ecScalar, ecPoint>>

\* ecdsa_verify_digest with either form of the key, and ecdsa_verify_digest_recover.
EcVerify ==
  /\ ecWork.at = "signed"
  /\ \E e \in EcDigests, key \in {PublicKey33(ecScalar), PublicKey65(ecScalar)} :
       ecWork' = [at |-> "verified", e |-> e, signed |-> ecWork.e, sig |-> ecWork.sig,
                  result |-> VerifyDigest(key, ecWork.sig, e)]
  /\ UNCHANGED <<ecScalar, ecPoint>>

EcRecover ==
  /\ ecWork.at = "signed"
  /\ \E recid \in 0..3 :
       ecWork' = [at |-> "recovered", e |-> ecWork.e, sig |-> ecWork.sig, recid |-> recid,
                  key |-> Recover(ecWork.sig, ecWork.e, recid)]
  /\ UNCHANGED <<ecScalar, ecPoint>>

EcNext == \/ EcMultiplyStart \/ EcMultiplyTurn \/ EcScalarStart \/ EcScalarTurn
          \/ EcSign \/ EcVerify \/ EcRecover

----------------------------------------------------------------------------
\* point_multiply and scalar_multiply keep, in every turn, the multiple that the
\* windows so far stand for, up to the sign that is carried to the next window, and
\* end with the multiple of the scalar: whatever its parity, the random Z, and when the
\* last sum is one of equal points.
ProductsAreMultiples ==
  /\ ecWork.at = "multiply" =>
       LET m == 2 * (Recoded(ecScalar) \div 2^(EcWindow * ecWork.i + 1)) + 1
                 - 2^(EcWindow * (EcWindows - ecWork.i))
       IN FromJacobian([ecWork.m.j EXCEPT !.z = NegateIf(ecWork.m.neg, @)])
            = EcRef!Times(m % EcN, ecPoint)
  /\ ecWork.at = "scalar" =>
       LET top == EcWindow * (ecWork.i + 1)
           m == (Recoded(ecScalar) % 2^(top + 1)) - 2^top
       IN FromJacobian(ecWork.m.j) \in {EcRef!Times(m % EcN, EcG), EcRef!Times((-m) % EcN, EcG)}
  /\ ecWork.at = "product" => ecWork.q = EcRef!Times(ecScalar, ecWork.of)

\* A signature is accepted for the digest it was made of, except when that is a
\* multiple of the order (the code refuses it as result 3), and for another digest
\* exactly when the equation of ECDSA holds; s is the smaller of its two values.
SignatureIsAccepted ==
  ecWork.at = "verified" =>
    LET w == EcInverse(ecWork.sig.s, EcN)
        sum == EcRef!Sum(EcRef!Times((ecWork.e * w) % EcN, EcG),
                         EcRef!Times((ecWork.sig.r * w * ecScalar) % EcN, EcG))
    IN /\ 2 * ecWork.sig.s < EcN
       /\ IF ecWork.e % EcN = 0 THEN ecWork.result = 3
          ELSE ecWork.result = 0 <=> sum # EcInfinity /\ sum[1] % EcN = ecWork.sig.r
       /\ ecWork.e = ecWork.signed /\ ecWork.e % EcN # 0 => ecWork.result = 0

\* The recovery id that is returned with a signature recovers the key that made it;
\* another one never does.
RecoveryFindsTheKey ==
  ecWork.at = "recovered" /\ ecWork.key # <<"undefined">> =>
    (ecWork.key = PublicKey65(ecScalar) <=> ecWork.recid = ecWork.sig.by)

\* The DER form of a signature has the lengths it states, and its integers are those of
\* the signature, not negative and without a superfluous byte.
DerIsCanonical ==
  ecWork.at = "signed" =>
    LET der == ecWork.der
        n == der[4]
        r == SubSeq(der, 5, 4 + n)
        s == SubSeq(der, 7 + n, Len(der))
        number(b) == FoldLeft(LAMBDA acc, x : acc * 2^EcByte + x, 0, b)
        minimal(b) == /\ b[1] < 2^(EcByte - 1)
                      /\ Len(b) > 1 /\ b[1] = 0 => b[2] >= 2^(EcByte - 1)
    IN /\ der[2] = Len(der) - 2 /\ der[6 + n] = Len(s) /\ der[3] = 2 /\ der[5 + n] = 2
       /\ minimal(r) /\ minimal(s) /\ number(r) = ecWork.sig.r /\ number(s) = ecWork.sig.s

\* The windows and what is built on them follow the group of the curve: products,
\* signatures, their recovery and their DER form (ecdsa.c).
EcdsaFollowsTheGroup ==
  ProductsAreMultiples /\ SignatureIsAccepted /\ RecoveryFindsTheKey /\ DerIsCanonical
=============================================================================
