----------------------------- MODULE LinesProofs -----------------------------
(***************************************************************************)
(* What a filter does to the lines of a file, however long it is.          *)
(***************************************************************************)
EXTENDS Lines, WellFoundedInduction, SequenceTheorems, TLAPS

\* A set of natural numbers has a least one.
LEMMA LeastOf ==
  ASSUME NEW T, T \subseteq Nat, T # {}
  PROVE  \E m \in T : \A n \in T : m <= n
<1>1. PICK m \in T : \A n \in T : <<n, m>> \notin OpToRel(<, Nat)
  BY WFMin, NatLessThanWellFounded, Zenon
<1>2. \A n \in T : n < m => <<n, m>> \in OpToRel(<, Nat)
  BY DEF OpToRel
<1>3. \A n \in T : ~(n < m)  BY <1>1, <1>2, Zenon
<1> QED  BY <1>3

----------------------------------------------------------------------------
\* g is the course of the filter over the first m lines: what it has kept after
\* each of them.
IsCourse(f, S, m, g) ==
  g = [n \in 0..m |->
         IF n = 0 THEN <<>>
         ELSE IF f[n] \in S THEN Append(g[n - 1], f[n]) ELSE g[n - 1]]

\* t has those of the first m lines that are in S, in their order: at tells where
\* each one was.
Embeds(f, S, m, t, at) ==
  /\ at \in [1..Len(t) -> 1..m]
  /\ \A k \in 1..Len(t) : t[k] = f[at[k]] /\ t[k] \in S
  /\ \A k, l \in 1..Len(t) : k < l => at[k] < at[l]
  /\ \A i \in 1..m : f[i] \in S => \E k \in 1..Len(t) : at[k] = i

\* After m lines the filter is defined, and has kept those of S.
GoodFor(f, R, S, m) ==
  /\ \E g : IsCourse(f, S, m, g)
  /\ \A g : IsCourse(f, S, m, g) =>
       g[m] \in Seq(R) /\ \E at : Embeds(f, S, m, g[m], at)

\* Nothing is kept of no lines.
LEMMA GoodForNone ==
  ASSUME NEW R, NEW f \in Seq(R), NEW S
  PROVE  GoodFor(f, R, S, 0)
<1>1. IsCourse(f, S, 0, [n \in 0..0 |-> <<>>])  BY DEF IsCourse
<1>2. ASSUME NEW g, IsCourse(f, S, 0, g)
      PROVE  g[0] \in Seq(R) /\ \E at : Embeds(f, S, 0, g[0], at)
  <2> DEFINE at == [k \in 1..0 |-> 0]
  <2>1. g[0] = <<>>  BY <1>2 DEF IsCourse
  <2>2. <<>> \in Seq(R) /\ Len(<<>>) = 0  OBVIOUS
  <2>3. Embeds(f, S, 0, <<>>, at)  BY <2>2 DEF Embeds
  <2> QED  BY <2>1, <2>2, <2>3
<1> QED  BY <1>1, <1>2 DEF GoodFor

\* One more line is kept, or is not.
LEMMA GoodForNext ==
  ASSUME NEW R, NEW f \in Seq(R), NEW S, NEW m \in 0..(Len(f) - 1), GoodFor(f, R, S, m)
  PROVE  GoodFor(f, R, S, m + 1)
<1>1. m + 1 \in 1..Len(f) /\ f[m + 1] \in R /\ m \in Nat
  BY ElementOfSeq, LenProperties
<1> DEFINE Next(g) == IF f[m + 1] \in S THEN Append(g[m], f[m + 1]) ELSE g[m]
<1>2. \E h : IsCourse(f, S, m + 1, h)
  <2>1. PICK g : IsCourse(f, S, m, g)  BY DEF GoodFor
  <2> DEFINE h == [n \in 0..(m + 1) |-> IF n = m + 1 THEN Next(g) ELSE g[n]]
             line(n) == IF n = 0 THEN <<>>
                        ELSE IF f[n] \in S THEN Append(h[n - 1], f[n]) ELSE h[n - 1]
  <2>2. \A n \in 0..m : g[n] = IF n = 0 THEN <<>>
                               ELSE IF f[n] \in S THEN Append(g[n - 1], f[n]) ELSE g[n - 1]
    BY <2>1 DEF IsCourse
  <2>3. ASSUME NEW n \in 0..(m + 1)  PROVE h[n] = line(n)
    <3>1. CASE n = m + 1
      <4>1. h[n - 1] = g[m] /\ n # 0  BY <1>1, <3>1
      <4> QED  BY <3>1, <4>1
    <3>2. CASE n = 0  BY <3>2, <2>2, <1>1
    <3>3. CASE n \in 1..m
      <4>1. h[n] = g[n] /\ h[n - 1] = g[n - 1] /\ n \in 0..m /\ n # 0  BY <3>3, <1>1
      <4> QED  BY <2>2, <4>1
    <3> QED  BY <3>1, <3>2, <3>3, <1>1
  <2>4. h = [n \in 0..(m + 1) |-> line(n)]  BY <2>3
  <2> QED  BY <2>4 DEF IsCourse
<1>3. ASSUME NEW h, IsCourse(f, S, m + 1, h)
      PROVE  h[m + 1] \in Seq(R) /\ \E b : Embeds(f, S, m + 1, h[m + 1], b)
  <2> DEFINE g == [n \in 0..m |-> h[n]]
             line(n) == IF n = 0 THEN <<>>
                        ELSE IF f[n] \in S THEN Append(g[n - 1], f[n]) ELSE g[n - 1]
  <2>1. \A n \in 0..(m + 1) :
          h[n] = IF n = 0 THEN <<>>
                 ELSE IF f[n] \in S THEN Append(h[n - 1], f[n]) ELSE h[n - 1]
    BY <1>3 DEF IsCourse
  <2>2. ASSUME NEW n \in 0..m  PROVE g[n] = line(n)
    <3>1. CASE n = 0  BY <3>1, <2>1, <1>1
    <3>2. CASE n # 0
      <4>1. n - 1 \in 0..m /\ n \in 0..(m + 1)  BY <3>2, <1>1
      <4> QED  BY <2>1, <3>2, <4>1
    <3> QED  BY <3>1, <3>2
  <2>3. g = [n \in 0..m |-> line(n)]  BY <2>2
  <2>4. IsCourse(f, S, m, g)  BY <2>3 DEF IsCourse
  <2>5. PICK at : g[m] \in Seq(R) /\ Embeds(f, S, m, g[m], at)  BY <2>4 DEF GoodFor
  <2>6. h[m + 1] = Next(g)
    <3>1. m + 1 \in 0..(m + 1) /\ m + 1 # 0 /\ (m + 1) - 1 = m /\ g[m] = h[m]  BY <1>1
    <3> QED  BY <2>1, <3>1
  <2> HIDE DEF g
  <2>7. CASE f[m + 1] \notin S
    <3>1. Embeds(f, S, m + 1, g[m], at)  BY <2>5, <1>1, <2>7 DEF Embeds
    <3> QED  BY <2>5, <2>6, <2>7, <3>1
  <2>8. CASE f[m + 1] \in S
    <3>1. PICK n \in Nat : Len(g[m]) = n
      BY <2>5, LenProperties
    <3> DEFINE t == Append(g[m], f[m + 1])
               b == [k \in 1..(n + 1) |-> IF k = n + 1 THEN m + 1 ELSE at[k]]
    <3>2. /\ t \in Seq(R) /\ Len(t) = n + 1
          /\ \A k \in 1..n : t[k] = g[m][k]
          /\ t[n + 1] = f[m + 1]
      BY <1>1, <2>5, <3>1, AppendProperties
    <3>3. /\ at \in [1..n -> 1..m]
          /\ \A k \in 1..n : g[m][k] = f[at[k]] /\ g[m][k] \in S
          /\ \A k, l \in 1..n : k < l => at[k] < at[l]
          /\ \A i \in 1..m : f[i] \in S => \E k \in 1..n : at[k] = i
      BY <2>5, <3>1 DEF Embeds
    <3>4. /\ \A k \in 1..n : b[k] = at[k] /\ b[k] \in 1..m
          /\ b[n + 1] = m + 1
          /\ b \in [1..(n + 1) -> 1..(m + 1)]
      BY <1>1, <3>3
    <3> HIDE DEF t, b
    <3>5. ASSUME NEW k \in 1..(n + 1)
          PROVE  t[k] = f[b[k]] /\ t[k] \in S
      <4>1. CASE k = n + 1  BY <2>8, <3>2, <3>4, <4>1
      <4>2. CASE k \in 1..n  BY <3>2, <3>3, <3>4, <4>2
      <4> QED  BY <4>1, <4>2
    <3>6. ASSUME NEW k \in 1..(n + 1), NEW l \in 1..(n + 1), k < l
          PROVE  b[k] < b[l]
      <4>1. k \in 1..n /\ b[k] \in 1..m  BY <3>4, <3>6
      <4>2. CASE l = n + 1  BY <1>1, <3>4, <4>1, <4>2
      <4>3. CASE l \in 1..n  BY <3>3, <3>4, <3>6, <4>1, <4>3
      <4> QED  BY <4>2, <4>3
    <3>7. ASSUME NEW i \in 1..(m + 1), f[i] \in S
          PROVE  \E k \in 1..(n + 1) : b[k] = i
      <4>1. CASE i = m + 1  BY <3>4, <4>1
      <4>2. CASE i \in 1..m  BY <3>3, <3>4, <3>7, <4>2
      <4> QED  BY <1>1, <4>1, <4>2
    <3>8. Embeds(f, S, m + 1, t, b)
      BY <3>2, <3>4, <3>5, <3>6, <3>7 DEF Embeds
    <3> QED  BY <2>6, <2>8, <3>2, <3>8 DEF t
  <2> QED  BY <2>7, <2>8
<1> QED  BY <1>2, <1>3 DEF GoodFor

\* A filter keeps the lines of S and no others, in their order.
LEMMA KeptEmbeds ==
  ASSUME NEW R, NEW f \in Seq(R), NEW S
  PROVE  /\ Kept(f, S) \in Seq(R)
         /\ \E at : Embeds(f, S, Len(f), Kept(f, S), at)
<1>1. GoodFor(f, R, S, Len(f))
  <2> DEFINE Wrong == {m \in 0..Len(f) : ~GoodFor(f, R, S, m)}
  <2>1. SUFFICES ASSUME Wrong # {} PROVE FALSE
    BY LenProperties
  <2>2. Wrong \subseteq Nat  OBVIOUS
  <2>3. PICK m \in Wrong : \A n \in Wrong : m <= n
    BY <2>1, <2>2, LeastOf
  <2>4. m # 0  BY <2>3, GoodForNone
  <2>5. m - 1 \in 0..(Len(f) - 1) /\ (m - 1) + 1 = m /\ ~(m <= m - 1)
    BY <2>3, <2>4, LenProperties
  <2>6. GoodFor(f, R, S, m - 1)  BY <2>3, <2>5, LenProperties
  <2> QED  BY <2>3, <2>5, <2>6, GoodForNext
<1>2. PICK g : IsCourse(f, S, Len(f), g)
  BY <1>1 DEF GoodFor
<1> DEFINE kept[n \in 0..Len(f)] ==
             IF n = 0 THEN <<>>
             ELSE IF f[n] \in S THEN Append(kept[n - 1], f[n]) ELSE kept[n - 1]
<1>3. IsCourse(f, S, Len(f), kept)  BY <1>2 DEF IsCourse
<1>4. Kept(f, S) = kept[Len(f)]  BY DEF Kept
<1> QED  BY <1>1, <1>3, <1>4 DEF GoodFor
=============================================================================
