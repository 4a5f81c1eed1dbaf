------------------------------ MODULE MicroEcc ------------------------------
(***************************************************************************)
(* uECC.c, the part on points, keys and signatures, for a curve with a = 0 *)
(* such as secp256k1.  Numbers are numbers here: that the words and their  *)
(* carries make them so is specified in Vli.                               *)
(*                                                                         *)
(* A scalar multiplication is the Montgomery ladder on points that share   *)
(* their Z coordinate; it has no case for equal or opposite points or for  *)
(* infinity, which makes three private keys unusable (see PublicKey).      *)
(***************************************************************************)
EXTENDS Integers, Sequences, SequencesExt

CONSTANTS EccP, EccB, EccN, EccG,  \* the curve
          EccBits,                 \* bits of n, and of the words that hold it
          EccKeys,                 \* bound: the private keys
          EccPoints,               \* bound: the points that are multiplied
          EccZs,                   \* bound: the random initial Z
          EccHashes                \* bound: the hashes that are signed

Ref == INSTANCE CurveGroup WITH CurveP <- EccP, CurveA <- 0, CurveB <- EccB

ASSUME EccAssumption ==
  /\ EccP % 4 = 3 /\ EccN % 2 = 1 /\ 2^(EccBits - 1) < EccN /\ EccN < 2^EccBits
  /\ EccKeys \subseteq 1..EccN - 1 /\ EccZs \subseteq 1..EccP - 1

VARIABLES eccKey, eccPoint, \* the private key and the point
          eccZ,             \* the initial Z, 1 when there is no generator
          ecc               \* what is being done

eccVars == <<eccKey, eccPoint, eccZ, ecc>>

Failed == <<>>
EccInverse(n, m) == IF n % m = 0 THEN 0 ELSE CHOOSE k \in 1..m - 1 : (n * k) % m = 1

----------------------------------------------------------------------------
\* apply_z: (x, y) => (x z^2, y z^3).
ApplyZ(q, z) ==
  LET zz == (z * z) % EccP
  IN <<(q[1] * zz) % EccP, (q[2] * ((zz * z) % EccP)) % EccP>>

\* double_jacobian_secp256k1.
DoubleJacobian(q, z) ==
  LET xyy == (q[1] * ((q[2] * q[2]) % EccP)) % EccP
      yyyy == (((q[2] * q[2]) % EccP) * ((q[2] * q[2]) % EccP)) % EccP
      xx3 == (3 * q[1] * q[1]) % EccP
      b == IF xx3 % 2 = 1 THEN (xx3 + EccP) \div 2 ELSE xx3 \div 2
      x3 == (b * b - 2 * xyy) % EccP
  IN IF z = 0 THEN [q |-> q, z |-> z]
     ELSE [q |-> <<x3, (b * (xyy - x3) - yyyy) % EccP>>, z |-> (q[2] * z) % EccP]

\* XYcZ_initial_double: <<2P, P'>> with the same Z.
InitialDouble(q, z) ==
  LET two == DoubleJacobian(ApplyZ(q, z), z)
  IN <<two.q, ApplyZ(q, two.z)>>

\* Mutant of AddZ: the first point keeps its old Z.
AddZKeepsFirst(p, q) ==
  LET a == ((q[1] - p[1]) * (q[1] - p[1])) % EccP
      b == (p[1] * a) % EccP
      c == (q[1] * a) % EccP
      dy == q[2] - p[2]
      x3 == (dy * dy - b - c) % EccP
      y1 == (p[2] * (c - b)) % EccP
  IN <<p, <<x3, (dy * (b - x3) - y1) % EccP>>>>

\* XYcZ_add: P => P', Q => P + Q.
AddZ(p, q) ==
  LET a == ((q[1] - p[1]) * (q[1] - p[1])) % EccP
      b == (p[1] * a) % EccP
      c == (q[1] * a) % EccP
      dy == q[2] - p[2]
      x3 == (dy * dy - b - c) % EccP
      y1 == (p[2] * (c - b)) % EccP
  IN <<<<b, y1>>, <<x3, (dy * (b - x3) - y1) % EccP>>>>

\* XYcZ_addC: P => P - Q, Q => P + Q.
AddC(p, q) ==
  LET a == ((q[1] - p[1]) * (q[1] - p[1])) % EccP
      b == (p[1] * a) % EccP
      c == (q[1] * a) % EccP
      e == (p[2] * (c - b)) % EccP
      dy == q[2] - p[2]
      sy == (q[2] + p[2]) % EccP
      x3 == (dy * dy - b - c) % EccP
      x4 == (sy * sy - b - c) % EccP
  IN <<<<x4, (sy * (x4 - b) - e) % EccP>>, <<x3, (dy * (b - x3) - e) % EccP>>>>

----------------------------------------------------------------------------
\* regularize_k, and the choice between k + n and k + 2n: the bit above the words
\* is always set, and is the one that the ladder starts with.  (RegularizedOnce is a
\* mutant: it never adds n a second time.)
RegularizedOnce(k) == (k + EccN) % 2^EccBits

Regularized(k) ==
  LET k0 == k + EccN
  IN (IF k0 >= 2^EccBits THEN k0 ELSE k0 + EccN) % 2^EccBits

Bit(n, i) == (n \div 2^i) % 2

\* One turn of the ladder: r is <<R0, R1>>, and nb = 1 - bit.
LadderSum(r, bit) == AddC(r[1 + bit], r[2 - bit])   \* R1-nb, Rnb => difference, sum
LadderTurn(r, bit) ==
  LET c == LadderSum(r, bit)
      d == AddZ(c[2], c[1])
  IN IF bit = 1 THEN <<d[1], d[2]>> ELSE <<d[2], d[1]>>

\* The end: the last bit, the division by Z, the last sum.
LadderEnd(r, bit, q) ==
  LET c == LadderSum(r, bit)              \* Rx[1 - nb] is c[1], Rx[nb] is c[2]
      x1 == IF bit = 1 THEN c[1][1] ELSE c[2][1]
      x0 == IF bit = 1 THEN c[2][1] ELSE c[1][1]
      inv == EccInverse(((((x1 - x0) * c[1][2]) % EccP) * q[1]) % EccP, EccP)
      z == (((inv * q[2]) % EccP) * c[1][1]) % EccP
      d == AddZ(c[2], c[1])
  IN ApplyZ(IF bit = 1 THEN d[1] ELSE d[2], z)

\* EccPoint_mult: the bits from EccBits - 1 down to 1, then the last one.
PointMult(q, scalar, z) ==
  LET start == LET two == InitialDouble(q, z) IN <<two[2], two[1]>>
  IN LadderEnd(FoldLeft(LAMBDA r, i : LadderTurn(r, Bit(scalar, EccBits - i)),
                        start, [i \in 1..EccBits - 1 |-> i]),
               Bit(scalar, 0), q)

\* uECC_compute_public_key.
PublicKey(d) ==
  IF d = 0 \/ d >= EccN THEN Failed
  ELSE LET q == PointMult(EccG, Regularized(d), 1)
       IN IF q = <<0, 0>> THEN Failed ELSE q

\* uECC_shared_secret: z is random when there is a generator.
SharedSecret(q, d, z) ==
  LET s == PointMult(q, Regularized(d), z)
  IN IF s = <<0, 0>> THEN Failed ELSE <<s[1]>>

\* uECC_valid_point.
ValidPoint(q) ==
  /\ q # <<0, 0>> /\ q[1] < EccP /\ q[2] < EccP
  /\ (q[2] * q[2]) % EccP = (((q[1] * q[1]) % EccP) * q[1] + EccB) % EccP

\* uECC_compress and uECC_decompress; the root is a power, whatever it is a root of.
RECURSIVE EccPower(_, _)
EccPower(n, e) ==
  IF e = 0 THEN 1
  ELSE LET half == EccPower(n, e \div 2)
       IN (((half * half) % EccP) * (IF e % 2 = 1 THEN n ELSE 1)) % EccP

Compress(q) == <<2 + (q[2] % 2), q[1]>>

\* Mutant of Decompress: the other root.
DecompressOther(c) ==
  LET root == EccPower((((c[2] * c[2]) % EccP) * c[2] + EccB) % EccP, (EccP + 1) \div 4)
  IN <<c[2], IF root % 2 = c[1] % 2 THEN EccP - root ELSE root>>

Decompress(c) ==
  LET root == EccPower((((c[2] * c[2]) % EccP) * c[2] + EccB) % EccP, (EccP + 1) \div 4)
  IN <<c[2], IF root % 2 # c[1] % 2 THEN EccP - root ELSE root>>

----------------------------------------------------------------------------
\* Mutant of ModAddN: only the carry is subtracted.
ModAddNLossy(e, n) == (e + n) % 2^EccBits

\* uECC_vli_modAdd: one operand may not be reduced (a hash).
ModAddN(e, n) ==
  LET sum == e + n
  IN IF sum >= 2^EccBits \/ sum >= EccN THEN (sum - EccN) % 2^EccBits ELSE sum

\* uECC_sign_with_k: r is the x coordinate as it is, not reduced modulo n.
SignWithK(d, e, k, blind) ==
  LET q == PointMult(EccG, Regularized(k), 1)
      inverse == (EccInverse((k * blind) % EccN, EccN) * blind) % EccN
  IN IF k = 0 \/ k >= EccN \/ q[1] = 0 THEN Failed
     ELSE <<q[1], (ModAddN(e, (q[1] * d) % EccN) * inverse) % EccN>>

\* uECC_verify: Shamir's trick.  `clean` records that no sum was one of equal or
\* opposite points, which XYcZ_add has no case for.
Verified(q, e, sig) ==
  LET r == sig[1]
      z == EccInverse(sig[2], EccN)
      u1 == (e * z) % EccN
      u2 == (r * z) % EccN
      sum == ApplyZ(AddZ(EccG, q)[2], EccInverse((q[1] - EccG[1]) % EccP, EccP))
      points == <<EccG, q, sum>>
      index(i) == Bit(u1, i) + 2 * Bit(u2, i)
      top == CHOOSE n \in 0..EccBits : index(n) # 0 /\ \A m \in n + 1..EccBits : index(m) = 0
      turn(acc, i) ==
        LET two == DoubleJacobian(acc.q, acc.z)
            t == ApplyZ(points[index(i)], two.z)
        IN IF index(i) = 0 THEN [q |-> two.q, z |-> two.z, clean |-> acc.clean]
           ELSE [q |-> AddZ(t, two.q)[2], z |-> (two.z * (two.q[1] - t[1])) % EccP,
                 clean |-> acc.clean /\ t[1] # two.q[1]]
      all == FoldLeft(turn, [q |-> points[index(top)], z |-> 1, clean |-> q[1] # EccG[1]],
                      [k \in 1..top |-> top - k])
      v == ApplyZ(all.q, EccInverse(all.z, EccP))[1]
  IN IF r = 0 \/ sig[2] = 0 \/ r >= EccN \/ sig[2] >= EccN THEN [ok |-> FALSE, clean |-> TRUE]
     ELSE [ok |-> (IF v >= EccN THEN v - EccN ELSE v) = r, clean |-> all.clean]

----------------------------------------------------------------------------
EccInit ==
  /\ eccKey \in EccKeys /\ eccPoint \in EccPoints /\ eccZ \in EccZs
  /\ ecc = [at |-> "start"]

EccMultStart ==
  /\ ecc.at = "start"
  /\ LET two == InitialDouble(eccPoint, eccZ)
     IN ecc' = [at |-> "ladder", r |-> <<two[2], two[1]>>, bit |-> EccBits - 1]
  /\ UNCHANGED <<eccKey, eccPoint, eccZ>>

EccMultTurn ==
  /\ ecc.at = "ladder"
  /\ LET bit == Bit(Regularized(eccKey), ecc.bit)
     IN ecc' = IF ecc.bit = 0 THEN [at |-> "product", q |-> LadderEnd(ecc.r, bit, eccPoint)]
               ELSE [ecc EXCEPT !.r = LadderTurn(@, bit), !.bit = @ - 1]
  /\ UNCHANGED <<eccKey, eccPoint, eccZ>>

\* uECC_sign: random nonces until one is accepted; the generator may fail.
EccSign ==
  /\ ecc.at = "start" /\ eccPoint = EccG
  /\ \E e \in EccHashes, k \in EccKeys :
       LET sig == SignWithK(eccKey, e, k, eccZ)
       IN /\ sig # Failed
          /\ ecc' = [at |-> "signed", e |-> e, sig |-> sig]
  /\ UNCHANGED <<eccKey, eccPoint, eccZ>>

\* uECC_verify, of this hash or of another one.
EccVerify ==
  /\ ecc.at = "signed"
  /\ \E e \in EccHashes :
       ecc' = [at |-> "verified", e |-> e, signed |-> ecc.e, sig |-> ecc.sig,
               result |-> Verified(Ref!Times(eccKey, EccG), e, ecc.sig)]
  /\ UNCHANGED <<eccKey, eccPoint, eccZ>>

EccNext == EccMultStart \/ EccMultTurn \/ EccSign \/ EccVerify

----------------------------------------------------------------------------
\* The keys whose ladder meets opposite points or infinity.
Degenerate == {1, EccN - 2, EccN - 1}

SameWithZ(r, q, z) == r = ApplyZ(q, z)

\* The two points of the ladder are always consecutive multiples of the point, with
\* one Z for both, and the product is the multiple: carries of k + n, the bit that
\* is not stored, and a random initial Z make no difference.
LadderKeepsMultiples ==
  /\ ecc.at = "ladder" /\ eccKey \notin Degenerate =>
       LET m == (2^EccBits + Regularized(eccKey)) \div 2^(ecc.bit + 1)
       IN \E z \in 1..EccP - 1 : /\ SameWithZ(ecc.r[1], Ref!Times(m, eccPoint), z)
                                 /\ SameWithZ(ecc.r[2], Ref!Times(m + 1, eccPoint), z)
  /\ ecc.at = "product" /\ eccKey \notin Degenerate => ecc.q = Ref!Times(eccKey, eccPoint)

\* A public key survives compression.
CompressionKeepsKeys ==
  ecc.at = "start" => /\ ValidPoint(eccPoint)
                      /\ Decompress(Compress(eccPoint)) = eccPoint

\* Two keys agree on their secret, whatever random Z each side used.
SecretsAgree ==
  ecc.at = "start" /\ eccKey \notin Degenerate =>
    \A d \in EccKeys \ Degenerate :
      SharedSecret(Ref!Times(d, eccPoint), eccKey, eccZ) = SharedSecret(Ref!Times(eccKey, eccPoint), d, 1)

\* A signature verifies for the hash that was signed, and for another one only
\* when the equation of ECDSA says so, unless Shamir's trick met equal points.
\* (The code neither reduces r nor refuses s = 0; such signatures do not verify.)
SignaturesVerify ==
  ecc.at = "verified" /\ ecc.result.clean =>
    LET r == ecc.sig[1]
        w == EccInverse(ecc.sig[2], EccN)
        sum == Ref!Sum(Ref!Times((ecc.e * w) % EccN, EccG),
                       Ref!Times((r * w * eccKey) % EccN, EccG))
        usable == r < EccN /\ ecc.sig[2] # 0
    IN /\ ecc.result.ok <=> (usable /\ sum # Ref!Infinity /\ sum[1] % EccN = r)
       /\ usable /\ ecc.e = ecc.signed => ecc.result.ok

\* The ladder and what is built on it follow the group of the curve: products,
\* compressed keys, shared secrets and signatures (uECC.c).
UeccFollowsTheGroup ==
  LadderKeepsMultiples /\ CompressionKeepsKeys /\ SecretsAgree /\ SignaturesVerify
=============================================================================
