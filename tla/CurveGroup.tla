----------------------------- MODULE CurveGroup -----------------------------
(***************************************************************************)
(* The group of the points of y^2 = x^3 + a x + b over a prime field, by   *)
(* chords and tangents: the reference for the point operations of uECC.c   *)
(* and ecdsa.c, which share none of these formulas' divisions.             *)
(***************************************************************************)
EXTENDS Integers

CONSTANTS CurveP, CurveA, CurveB

\* The point at infinity is represented as in the code; (0, 0) is on no curve here.
Infinity == <<0, 0>>

InverseOf == [n \in 0..CurveP - 1 |->
                IF n = 0 THEN 0 ELSE CHOOSE m \in 1..CurveP - 1 : (n * m) % CurveP = 1]

Side(n) == (((n * n) % CurveP) * n + CurveA * n + CurveB) % CurveP
OnCurve(q) == q # Infinity /\ (q[2] * q[2]) % CurveP = Side(q[1])
Negative(q) == <<q[1], (-q[2]) % CurveP>>

Sum(q, r) ==
  LET slope == IF q = r
               THEN (((3 * q[1] * q[1] + CurveA) % CurveP) * InverseOf[(2 * q[2]) % CurveP]) % CurveP
               ELSE (((r[2] - q[2]) % CurveP) * InverseOf[(r[1] - q[1]) % CurveP]) % CurveP
      n == (slope * slope - q[1] - r[1]) % CurveP
  IN IF q = Infinity THEN r
     ELSE IF r = Infinity THEN q
     ELSE IF q = Negative(r) THEN Infinity
     ELSE <<n, (slope * (q[1] - n) - q[2]) % CurveP>>

RECURSIVE Times(_, _)
Times(k, q) ==
  IF k = 0 THEN Infinity
  ELSE LET half == Times(k \div 2, q)
       IN IF k % 2 = 1 THEN Sum(Sum(half, half), q) ELSE Sum(half, half)
=============================================================================
