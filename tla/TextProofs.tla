----------------------------- MODULE TextProofs -----------------------------
(***************************************************************************)
(* What is decoded, signed and hashed in pieces, for pieces of any length: *)
(* the decoder of forms, the signer of texts, the hashes of the address    *)
(* generator with their HMAC, and the nonces and random numbers made of    *)
(* them.  The components do not interact and have an invariant each.       *)
(***************************************************************************)
EXTENDS UrlDecode, ClearSign, Hash, Nonce, LinesProofs, FiniteSetTheorems, TLAPS

----------------------------------------------------------------------------
(***************************************************************************)
(* Forms.  What the decoder has written and holds is what the text means   *)
(* up to the escape that is open, whatever follows: this is why a chunk    *)
(* may end anywhere.  So the meaning of the whole is what was written,     *)
(* followed by what the open escape means, which is nothing.               *)
(***************************************************************************)

Meanings == [kind : {"whole", "open", "bad"}, out : Seq(Nat)]

\* g tells what the first n characters of s mean, from the j-th and each later one on.
IsParse(s, n, j, g) ==
  g = [i \in j..(n + 3) |-> MeaningAt(s, n, i, g[i + 1], g[i + 3])]

\* A digit is a number.
LEMMA DigitsAreNumbers ==
  ASSUME NEW c \in Nat
  PROVE  UrlDigit(c) \in Nat \/ UrlDigit(c) = -1
<1>1. CASE c \in 48..57  BY <1>1 DEF UrlDigit
<1>2. CASE c \in 65..70  BY <1>2 DEF UrlDigit
<1>3. CASE c \in 97..102  BY <1>3 DEF UrlDigit
<1>4. CASE c \notin 48..57 /\ c \notin 65..70 /\ c \notin 97..102  BY <1>4 DEF UrlDigit
<1> QED  BY <1>1, <1>2, <1>3, <1>4

LEMMA MeaningAtType ==
  ASSUME NEW s \in Seq(Nat), NEW n \in 0..Len(s), NEW i \in 1..(n + 3), NEW next, NEW behind,
         i <= n => next \in Meanings /\ behind \in Meanings
  PROVE  MeaningAt(s, n, i, next, behind) \in Meanings
<1>1. \A kind \in {"whole", "open", "bad"} : Nothing(kind) \in Meanings
  BY DEF Nothing, Meanings
<1>2. \A c \in Nat, m \in Meanings : Follows(c, m) \in Meanings
  <2> SUFFICES ASSUME NEW c \in Nat, NEW m \in Meanings  PROVE Follows(c, m) \in Meanings
    OBVIOUS
  <2>1. <<c>> \o m.out \in Seq(Nat)  BY ConcatProperties DEF Meanings
  <2> QED  BY <2>1 DEF Follows, Meanings
<1>3. CASE i > n  BY <1>1, <1>3 DEF MeaningAt
<1>4. CASE i <= n
  <2>1. next \in Meanings /\ behind \in Meanings /\ s[i] \in Nat  BY <1>4, LenProperties, ElementOfSeq
  <2>2. EscapeAt(s, n, i) => 16 * UrlDigit(s[i + 1]) + UrlDigit(s[i + 2]) \in Nat
    <3>1. SUFFICES ASSUME EscapeAt(s, n, i)
          PROVE 16 * UrlDigit(s[i + 1]) + UrlDigit(s[i + 2]) \in Nat
      OBVIOUS
    <3>2. s[i + 1] \in Nat /\ s[i + 2] \in Nat  BY <3>1, LenProperties, ElementOfSeq DEF EscapeAt
    <3>3. UrlDigit(s[i + 1]) # -1 /\ UrlDigit(s[i + 2]) # -1  BY <3>1 DEF EscapeAt
    <3>4. UrlDigit(s[i + 1]) \in Nat /\ UrlDigit(s[i + 2]) \in Nat
      BY <3>2, <3>3, DigitsAreNumbers
    <3> QED  BY <3>4
  <2>3. Space \in Nat  BY DEF Space
  <2> DEFINE escape == 16 * UrlDigit(s[i + 1]) + UrlDigit(s[i + 2])
  <2>4. /\ Follows(s[i], next) \in Meanings /\ Follows(Space, next) \in Meanings
        /\ EscapeAt(s, n, i) => Follows(escape, behind) \in Meanings
        /\ Nothing("open") \in Meanings /\ Nothing("bad") \in Meanings
    BY <1>1, <1>2, <2>1, <2>2, <2>3
  <2> HIDE DEF escape
  <2>5. MeaningAt(s, n, i, next, behind) \in
          {Follows(s[i], next), Follows(Space, next), Nothing("open"), Nothing("bad")}
          \cup (IF EscapeAt(s, n, i) THEN {Follows(escape, behind)} ELSE {})
    BY <1>4 DEF MeaningAt, escape
  <2> QED  BY <2>4, <2>5
<1> QED  BY <1>3, <1>4, LenProperties

LEMMA ParseExists ==
  ASSUME NEW s \in Seq(Nat), NEW n \in 0..Len(s)
  PROVE  \E g : IsParse(s, n, 1, g)
<1> DEFINE Wrong == {k \in 0..(n + 2) : ~\E g : IsParse(s, n, n + 3 - k, g)}
<1>0. n \in Nat  BY LenProperties
<1>1. SUFFICES ASSUME Wrong # {}  PROVE FALSE
  <2>1. n + 2 \in 0..(n + 2) /\ n + 3 - (n + 2) = 1  BY <1>0
  <2> QED  BY <2>1
<1>2. PICK k \in Wrong : \A l \in Wrong : k <= l
  <2>1. Wrong \subseteq Nat  BY <1>0
  <2> QED  BY <1>1, <2>1, LeastOf
<1> DEFINE j == n + 3 - k
<1>3. k \in 0..(n + 2) /\ j \in 1..(n + 3) /\ ~\E g : IsParse(s, n, j, g)  BY <1>0, <1>2
<1>4. CASE k = 0
  <2> DEFINE g == [i \in j..(n + 3) |-> Nothing("whole")]
  <2>1. \A i \in j..(n + 3) : MeaningAt(s, n, i, g[i + 1], g[i + 3]) = Nothing("whole")
    BY <1>0, <1>4 DEF MeaningAt
  <2>2. IsParse(s, n, j, g)  BY <2>1 DEF IsParse
  <2> QED  BY <1>3, <2>2
<1>5. CASE k # 0
  <2>1. k - 1 \in 0..(n + 2) /\ ~(k <= k - 1) /\ n + 3 - (k - 1) = j + 1 BY <1>0, <1>3, <1>5
  <2>2. PICK g : IsParse(s, n, j + 1, g)  BY <1>2, <2>1
  <2> DEFINE first == MeaningAt(s, n, j, g[j + 1], g[j + 3])
             h == [i \in j..(n + 3) |-> IF i = j THEN first ELSE g[i]]
  <2>3. ASSUME NEW i \in j..(n + 3)
        PROVE  h[i] = MeaningAt(s, n, i, h[i + 1], h[i + 3])
    <3>1. i \in Nat /\ j \in Nat /\ i >= j BY <1>0, <1>3
    <3>2. CASE i > n
      <4>1. CASE i = j  BY <1>0, <3>2, <4>1 DEF MeaningAt
      <4>2. CASE i # j
        <5>1. i \in (j + 1)..(n + 3)  BY <3>1, <4>2, <1>0
        <5>2. g[i] = MeaningAt(s, n, i, g[i + 1], g[i + 3])  BY <2>2, <5>1 DEF IsParse
        <5> QED  BY <1>0, <3>2, <4>2, <5>2 DEF MeaningAt
      <4> QED  BY <4>1, <4>2
    <3>3. CASE i <= n
      <4>1. h[i + 1] = g[i + 1] /\ h[i + 3] = g[i + 3]  BY <1>0, <3>1, <3>3
      <4>2. CASE i = j  BY <4>1, <4>2
      <4>3. CASE i # j
        <5>1. i \in (j + 1)..(n + 3)  BY <3>1, <4>3, <1>0
        <5>2. g[i] = MeaningAt(s, n, i, g[i + 1], g[i + 3])  BY <2>2, <5>1 DEF IsParse
        <5> QED  BY <4>1, <4>3, <5>2
      <4> QED  BY <4>2, <4>3
    <3> QED  BY <3>1, <3>2, <3>3, <1>0
  <2> HIDE DEF first
  <2>4. IsParse(s, n, j, h)  BY <2>3 DEF IsParse
  <2> QED  BY <1>3, <2>4
<1> QED  BY <1>4, <1>5

\* A completed escape stands for the character that its digits make.
LEMMA EscapeMeans ==
  ASSUME NEW s, NEW n \in Nat, NEW i \in Nat, NEW next, NEW behind, NEW c,
         s[i] = Percent, EscapeAt(s, n, i),
         16 * UrlDigit(s[i + 1]) + UrlDigit(s[i + 2]) = c
  PROVE  MeaningAt(s, n, i, next, behind) = Follows(c, behind)
<1>1. i <= n /\ ~(i > n) /\ ~CutAt(s, n, i)  BY DEF EscapeAt, CutAt
<1> QED  BY <1>1 DEF MeaningAt, Percent, Plus

\* UrlParse is what its definition says, and what it says is a meaning.
LEMMA ParseUnfolds ==
  ASSUME NEW s \in Seq(Nat), NEW n \in 0..Len(s), NEW i \in 1..(n + 3)
  PROVE  /\ UrlParse(s, n)[i] =
              MeaningAt(s, n, i, UrlParse(s, n)[i + 1], UrlParse(s, n)[i + 3])
         /\ UrlParse(s, n)[i] \in Meanings
<1> DEFINE parse == UrlParse(s, n)
           Wrong == {k \in 0..(n + 2) : parse[n + 3 - k] \notin Meanings}
<1>0. n \in Nat  BY LenProperties
<1>1. IsParse(s, n, 1, parse)
  <2> DEFINE from[l \in 1..(n + 3)] == MeaningAt(s, n, l, from[l + 1], from[l + 3])
  <2>1. PICK g : IsParse(s, n, 1, g)  BY ParseExists
  <2>2. IsParse(s, n, 1, from)  BY <2>1 DEF IsParse
  <2>3. UrlParse(s, n) = from  BY DEF UrlParse
  <2> QED  BY <2>2, <2>3
<1> HIDE DEF parse
<1>2. \A l \in 1..(n + 3) : parse[l] = MeaningAt(s, n, l, parse[l + 1], parse[l + 3])
  BY <1>1 DEF IsParse
<1>3. Wrong = {}
  <2>1. SUFFICES ASSUME Wrong # {}  PROVE FALSE  OBVIOUS
  <2>2. PICK k \in Wrong : \A l \in Wrong : k <= l
    <3>1. Wrong \subseteq Nat  BY <1>0
    <3> QED  BY <2>1, <3>1, LeastOf
  <2> DEFINE j == n + 3 - k
  <2>3. k \in 0..(n + 2) /\ j \in 1..(n + 3) /\ parse[j] \notin Meanings  BY <1>0, <2>2
  <2>4. ASSUME j <= n  PROVE parse[j + 1] \in Meanings /\ parse[j + 3] \in Meanings
    <3>1. /\ k - 1 \in 0..(n + 2) /\ ~(k <= k - 1) /\ n + 3 - (k - 1) = j + 1
          /\ k - 3 \in 0..(n + 2) /\ ~(k <= k - 3) /\ n + 3 - (k - 3) = j + 3
      BY <1>0, <2>3, <2>4
    <3> QED  BY <2>2, <3>1
  <2>5. MeaningAt(s, n, j, parse[j + 1], parse[j + 3]) \in Meanings
    BY <2>3, <2>4, MeaningAtType
  <2> QED  BY <1>2, <2>3, <2>5
<1>4. parse[i] \in Meanings
  <2>1. n + 3 - i \in 0..(n + 2) /\ n + 3 - (n + 3 - i) = i  BY <1>0
  <2> QED  BY <1>3, <2>1
<1> QED  BY <1>2, <1>4 DEF parse

LEMMA ConcatOfNumbers ==
  ASSUME NEW p \in Seq(Nat), NEW q \in Seq(Nat), NEW r \in Seq(Nat)
  PROVE  (p \o q) \o r = p \o (q \o r)
BY ConcatAssociative, SMTT(30)

\* What is decoded of a chunk moves from what follows to what has been decoded.
Moves(a, b, c, x) == (a \o b) \o (<<c>> \o x) = (a \o Append(b, c)) \o x

LEMMA DecodedMoves ==
  ASSUME NEW a \in Seq(Nat), NEW b \in Seq(Nat), NEW c \in Nat, NEW x \in Seq(Nat)
  PROVE  Moves(a, b, c, x)
<1>1. <<c>> \in Seq(Nat)  OBVIOUS
<1>2. Append(b, c) = b \o <<c>>  BY AppendIsConcat
<1>3. a \o b \in Seq(Nat)  BY ConcatProperties
<1>4. \A p, q, r \in Seq(Nat) : (p \o q) \o r = p \o (q \o r)  BY ConcatOfNumbers
<1>5. (a \o b) \o (<<c>> \o x) = ((a \o b) \o <<c>>) \o x  BY <1>1, <1>3, <1>4, Zenon
<1>6. (a \o b) \o <<c>> = a \o (b \o <<c>>)  BY <1>1, ConcatOfNumbers, SMTT(30)
<1> QED  BY <1>2, <1>5, <1>6, Zenon DEF Moves

\* An escape that nothing follows stands for nothing, and so does the end.
LEMMA NothingIsOpen ==
  ASSUME UrlTypeOK, EscapeIsOpen, decoder.state # "refused"
  PROVE  /\ UrlParse(urlIn, urlPos)[OpenAt].kind # "bad"
         /\ UrlParse(urlIn, urlPos)[OpenAt].out = <<>>
<1>1. urlIn \in Seq(Nat) /\ urlPos \in 0..Len(urlIn) /\ urlPos \in Nat
  <2>1. urlPos \in Nat /\ urlEnd \in Nat /\ urlPos <= urlEnd /\ urlEnd <= Len(urlIn)
        /\ urlIn \in Seq(Nat)
    BY UrlAssumption, SeqMonotonic DEF UrlTypeOK
  <2> QED  BY <2>1, LenProperties
<1>2. OpenAt \in 1..(urlPos + 3)
  <2>1. CASE decoder.state = "sym"  BY <1>1, <2>1 DEF OpenAt
  <2>2. CASE decoder.state = "percent"  BY <1>1, <2>2 DEF OpenAt, EscapeIsOpen
  <2>3. CASE decoder.state = "digit"  BY <1>1, <2>3 DEF OpenAt, EscapeIsOpen
  <2> QED  BY <2>1, <2>2, <2>3 DEF UrlTypeOK
<1> DEFINE next == UrlParse(urlIn, urlPos)[OpenAt + 1]
           behind == UrlParse(urlIn, urlPos)[OpenAt + 3]
<1>3. UrlParse(urlIn, urlPos)[OpenAt] = MeaningAt(urlIn, urlPos, OpenAt, next, behind)
  BY <1>1, <1>2, ParseUnfolds
<1> HIDE DEF next, behind
<1>4. CASE decoder.state = "sym"
  <2>1. OpenAt > urlPos /\ ~(OpenAt <= urlPos)  BY <1>1, <1>4 DEF OpenAt
  <2>2. MeaningAt(urlIn, urlPos, OpenAt, next, behind) = Nothing("whole")
    BY <2>1 DEF MeaningAt
  <2> QED  BY <1>3, <2>2 DEF Nothing
<1>5. CASE decoder.state \in {"percent", "digit"}
  <2>1. OpenAt <= urlPos /\ ~(OpenAt > urlPos) /\ urlIn[OpenAt] = Percent
    BY <1>1, <1>5 DEF OpenAt, EscapeIsOpen
  <2>2. ~EscapeAt(urlIn, urlPos, OpenAt)  BY <1>1, <1>5 DEF OpenAt, EscapeAt
  <2>3. CutAt(urlIn, urlPos, OpenAt)
    <3>1. CASE decoder.state = "percent"  BY <1>1, <3>1 DEF OpenAt, CutAt
    <3>2. CASE decoder.state = "digit"
      <4>1. OpenAt = urlPos - 1 /\ urlIn[urlPos] \notin {Percent, Plus}
        BY <3>2 DEF OpenAt, EscapeIsOpen
      <4>2. \A k \in (OpenAt + 1)..urlPos : k = urlPos  BY <1>1, <4>1
      <4> QED  BY <1>1, <4>1, <4>2 DEF CutAt
    <3> QED  BY <1>5, <3>1, <3>2
  <2>4. MeaningAt(urlIn, urlPos, OpenAt, next, behind) = Nothing("open")
    BY <2>1, <2>2, <2>3 DEF MeaningAt, Percent, Plus
  <2> QED  BY <1>3, <2>4 DEF Nothing
<1> QED  BY <1>4, <1>5 DEF UrlTypeOK

LEMMA UrlInvInit == UrlInit => UrlInv
<1> SUFFICES ASSUME UrlInit  PROVE UrlInv  OBVIOUS
<1>1. urlIn \in Seq(UrlAlphabet)
  <2>1. PICK m \in 0..MaxUrl : urlIn \in [1..m -> UrlAlphabet]
    BY DEF UrlInit, BoundedSeq, SeqOf
  <2> QED  BY <2>1, UrlAssumption, IsASeq
<1>2. Len(urlIn) \in Nat /\ urlIn \in Seq(Nat)
  BY <1>1, LenProperties, UrlAssumption, SeqMonotonic
<1>3. UrlTypeOK  BY <1>1, <1>2 DEF UrlInit, UrlTypeOK
<1>4. EscapeIsOpen  BY DEF UrlInit, EscapeIsOpen
<1>5. OpenAt = 1 /\ urlPos = 0 /\ urlOut = <<>> /\ urlAt = "read" /\ decoder.state # "refused"
  BY DEF UrlInit, OpenAt
<1>6. DecodedSoFar
  <2> SUFFICES ASSUME NEW m \in 0..Len(urlIn)
               PROVE  UrlParse(urlIn, m)[1].out = <<>> \o UrlParse(urlIn, m)[1].out
    BY <1>5 DEF DecodedSoFar
  <2>1. UrlParse(urlIn, m)[1] \in Meanings  BY <1>2, ParseUnfolds
  <2> QED  BY <2>1, ConcatEmptySeq DEF Meanings
<1>7. UrlOutputIsMeaning  BY <1>3, <1>4, <1>5, NothingIsOpen DEF UrlOutputIsMeaning
<1> QED  BY <1>3, <1>4, <1>6, <1>7 DEF UrlInv

\* A chunk begins, and nothing changes of what has been decoded.
LEMMA ReadStep == ASSUME UrlInv, NEW n \in 1..MaxUrl, ReadChunk(n)  PROVE UrlInv'
<1>1. UrlTypeOK'
  <2>1. n \in Nat /\ urlEnd' \in Nat  BY UrlAssumption DEF ReadChunk, UrlInv, UrlTypeOK
  <2> QED  BY <2>1, UrlAssumption DEF UrlInv, UrlTypeOK, ReadChunk
<1>2. EscapeIsOpen'  BY DEF UrlInv, EscapeIsOpen, ReadChunk, UrlTypeOK
<1>3. urlOut' \o decoder'.out = urlOut
  BY ConcatEmptySeq DEF UrlInv, UrlTypeOK, ReadChunk
<1>4. OpenAt' = OpenAt  BY DEF OpenAt, ReadChunk
<1>5. urlAt = "read" /\ urlAt' = "decode" /\ decoder'.state = decoder.state
      /\ urlIn' = urlIn /\ urlPos' = urlPos
  BY DEF ReadChunk
<1>6. DecodedSoFar'  BY <1>3, <1>4, <1>5 DEF UrlInv, DecodedSoFar
<1>7. UrlOutputIsMeaning'  BY <1>5 DEF UrlOutputIsMeaning
<1> QED  BY <1>1, <1>2, <1>6, <1>7 DEF UrlInv

LEMMA EndStep == ASSUME UrlInv, ReadEnds  PROVE UrlInv'
<1>1. UrlTypeOK' /\ EscapeIsOpen'
  BY DEF UrlInv, UrlTypeOK, EscapeIsOpen, ReadEnds
<1>2. DecodedSoFar' /\ UrlOutputIsMeaning'
  BY DEF UrlInv, DecodedSoFar, UrlOutputIsMeaning, ReadEnds
<1> QED  BY <1>1, <1>2 DEF UrlInv

\* What has been written is what the part read so far means, because what is still
\* open means nothing.
LEMMA WriteStep == ASSUME UrlInv, WriteChunk  PROVE UrlInv'
<1>1. UrlTypeOK'
  <2>1. urlOut \o decoder.out \in Seq(Nat)
    BY ConcatProperties DEF UrlInv, UrlTypeOK
  <2> QED  BY <2>1 DEF UrlInv, UrlTypeOK, WriteChunk
<1>2. EscapeIsOpen'  BY DEF UrlInv, EscapeIsOpen, WriteChunk
<1>3. OpenAt' = OpenAt  BY DEF OpenAt, WriteChunk
<1>4. /\ urlAt = "decode" /\ urlAt' \in {"1", "read"} /\ urlOut' = urlOut \o decoder.out
      /\ decoder' = decoder /\ urlIn' = urlIn /\ urlPos' = urlPos
      /\ urlAt' = "1" => decoder.out = <<>>
  BY DEF WriteChunk
<1>5. DecodedSoFar'  BY <1>3, <1>4 DEF UrlInv, DecodedSoFar
<1>6. UrlOutputIsMeaning'
  <2>1. decoder.state # "refused"  BY <1>4 DEF UrlInv, DecodedSoFar
  <2>2. /\ UrlParse(urlIn, urlPos)[OpenAt].kind # "bad"
        /\ UrlParse(urlIn, urlPos)[OpenAt].out = <<>>
    BY <2>1, NothingIsOpen DEF UrlInv
  <2>3. urlPos \in urlPos..Len(urlIn)
    BY UrlAssumption, LenProperties DEF UrlInv, UrlTypeOK
  <2>4. /\ UrlParse(urlIn, urlPos)[1].kind = UrlParse(urlIn, urlPos)[OpenAt].kind
        /\ UrlParse(urlIn, urlPos)[1].out = urlOut' \o UrlParse(urlIn, urlPos)[OpenAt].out
    BY <1>4, <2>3 DEF UrlInv, DecodedSoFar
  <2>5. urlOut' \o <<>> = urlOut'  BY <1>1, ConcatEmptySeq DEF UrlTypeOK
  <2> QED  BY <1>4, <2>2, <2>4, <2>5 DEF UrlOutputIsMeaning
<1> QED  BY <1>1, <1>2, <1>5, <1>6 DEF UrlInv

\* The cases of a character.
StartsEscape(d, c) == d.state = "sym" /\ c = Percent
IsSpace(d, c) == d.state = "sym" /\ c = Plus
IsItself(d, c) == d.state = "sym" /\ c \notin {Percent, Plus} /\ IsUnreserved(c)
FirstDigit(d, c) == d.state = "percent" /\ c \notin {Percent, Plus}
SecondDigit(d, c) == d.state = "digit" /\ UrlDigit(d.sym) >= 0 /\ UrlDigit(c) >= 0
IsRefused(d, c) ==
  /\ ~StartsEscape(d, c) /\ ~IsSpace(d, c) /\ ~IsItself(d, c)
  /\ ~FirstDigit(d, c) /\ ~SecondDigit(d, c)

LEMMA CharacterCases ==
  ASSUME NEW d, NEW c
  PROVE  /\ StartsEscape(d, c) => UrlStep(d, c) = Goto(d, "percent", d.sym)
         /\ IsSpace(d, c) => UrlStep(d, c) = Emit(d, Space)
         /\ IsItself(d, c) => UrlStep(d, c) = Emit(d, c)
         /\ FirstDigit(d, c) => UrlStep(d, c) = Goto(d, "digit", c)
         /\ SecondDigit(d, c) =>
              UrlStep(d, c) = Emit(d, 16 * UrlDigit(d.sym) + UrlDigit(c))
         /\ IsRefused(d, c) => UrlStep(d, c) = Refuse(d)
BY DEF UrlStep, StartsEscape, IsSpace, IsItself, FirstDigit, SecondDigit, IsRefused,
       Percent, Plus

\* What a character c stands for that completes one, of the next one or an escape.
LEMMA EmitStep ==
  ASSUME UrlInv, DecodeChar, NEW c \in Nat, decoder' = Emit(decoder, c),
         \A m \in (urlPos + 1)..Len(urlIn) :
           UrlParse(urlIn, m)[OpenAt] = Follows(c, UrlParse(urlIn, m)[urlPos + 2])
  PROVE  UrlInv'
<1>1. /\ urlPos \in Nat /\ urlEnd \in Nat /\ urlPos < urlEnd /\ urlEnd <= Len(urlIn)
      /\ urlIn \in Seq(Nat) /\ urlOut \in Seq(Nat) /\ decoder.out \in Seq(Nat)
  BY UrlAssumption, SeqMonotonic DEF UrlInv, UrlTypeOK, DecodeChar
<1>2. /\ decoder'.state = "sym" /\ decoder'.out = Append(decoder.out, c)
      /\ decoder'.sym = decoder.sym
  BY DEF Emit
<1>3. urlAt = "decode" /\ urlAt' = "decode" /\ urlIn' = urlIn /\ urlOut' = urlOut
      /\ urlPos' = urlPos + 1 /\ urlEnd' = urlEnd
  BY <1>2 DEF DecodeChar
<1>4. UrlTypeOK'
  <2>1. Append(decoder.out, c) \in Seq(Nat)  BY <1>1, AppendProperties
  <2>2. decoder' \in [state : {"sym", "percent", "digit", "refused"}, sym : Nat, out : Seq(Nat)]
    BY <2>1 DEF Emit, UrlInv, UrlTypeOK
  <2> QED  BY <1>1, <1>3, <2>2 DEF UrlInv, UrlTypeOK
<1>5. EscapeIsOpen'  BY <1>2 DEF EscapeIsOpen
<1>6. OpenAt' = urlPos + 2  BY <1>1, <1>2, <1>3 DEF OpenAt
<1>7. DecodedSoFar'
  <2> SUFFICES ASSUME NEW m \in (urlPos + 1)..Len(urlIn)
               PROVE  /\ UrlParse(urlIn, m)[1].kind = UrlParse(urlIn, m)[urlPos + 2].kind
                      /\ UrlParse(urlIn, m)[1].out =
                           (urlOut \o Append(decoder.out, c)) \o UrlParse(urlIn, m)[urlPos + 2].out
    BY <1>2, <1>3, <1>6 DEF DecodedSoFar
  <2> DEFINE rest == UrlParse(urlIn, m)[urlPos + 2]
  <2>1. /\ m \in urlPos..Len(urlIn) /\ m \in 0..Len(urlIn) /\ urlPos + 2 \in 1..(m + 3)
    BY <1>1, LenProperties
  <2>2. rest \in Meanings  BY <1>1, <2>1, ParseUnfolds
  <2>3. /\ UrlParse(urlIn, m)[1].kind = UrlParse(urlIn, m)[OpenAt].kind
        /\ UrlParse(urlIn, m)[1].out =
             (urlOut \o decoder.out) \o UrlParse(urlIn, m)[OpenAt].out
    BY <1>3, <2>1 DEF UrlInv, DecodedSoFar
  <2>4. UrlParse(urlIn, m)[OpenAt] = Follows(c, rest)  OBVIOUS
  <2> HIDE DEF rest
  <2>5. /\ Follows(c, rest).kind = rest.kind /\ Follows(c, rest).out = <<c>> \o rest.out
        /\ rest.out \in Seq(Nat)
    BY <2>2 DEF Follows, Meanings
  <2>6. (urlOut \o decoder.out) \o (<<c>> \o rest.out) =
          (urlOut \o Append(decoder.out, c)) \o rest.out
    <3>1. Moves(urlOut, decoder.out, c, rest.out)  BY <1>1, <2>5, DecodedMoves
    <3> QED  BY <3>1, Zenon DEF Moves
  <2> QED  BY <2>3, <2>4, <2>5, <2>6 DEF rest
<1>8. UrlOutputIsMeaning'  BY <1>3 DEF UrlOutputIsMeaning
<1> QED  BY <1>4, <1>5, <1>7, <1>8 DEF UrlInv

\* A character that only goes on with an escape.
LEMMA GotoStep ==
  ASSUME UrlInv, DecodeChar, NEW c \in Nat, NEW state \in {"percent", "digit"},
         decoder' = Goto(decoder, state, c), OpenAt' = OpenAt, EscapeIsOpen'
  PROVE  UrlInv'
<1>1. /\ urlPos \in Nat /\ urlEnd \in Nat /\ urlPos < urlEnd /\ urlEnd <= Len(urlIn)
      /\ Len(urlIn) \in Nat
  BY LenProperties DEF UrlInv, UrlTypeOK, DecodeChar
<1>2. decoder'.state = state /\ decoder'.out = decoder.out /\ decoder'.sym = c
  BY DEF Goto
<1>3. urlAt = "decode" /\ urlAt' = "decode" /\ urlIn' = urlIn /\ urlOut' = urlOut
      /\ urlPos' = urlPos + 1 /\ urlEnd' = urlEnd
  BY <1>2 DEF DecodeChar
<1>4. UrlTypeOK'
  <2>1. decoder' \in [state : {"sym", "percent", "digit", "refused"}, sym : Nat, out : Seq(Nat)]
    BY DEF Goto, UrlInv, UrlTypeOK
  <2> QED  BY <1>1, <1>3, <2>1 DEF UrlInv, UrlTypeOK
<1>5. DecodedSoFar'
  <2>1. \A m \in urlPos'..Len(urlIn) : m \in urlPos..Len(urlIn)  BY <1>1, <1>3
  <2> QED  BY <1>2, <1>3, <2>1 DEF UrlInv, DecodedSoFar
<1>6. UrlOutputIsMeaning'  BY <1>3 DEF UrlOutputIsMeaning
<1> QED  BY <1>4, <1>5, <1>6 DEF UrlInv

LEMMA DecodeStep == ASSUME UrlInv, DecodeChar  PROVE UrlInv'
<1> DEFINE c == urlIn[urlPos + 1]
<1>1. /\ urlPos \in Nat /\ urlEnd \in Nat /\ urlPos < urlEnd /\ urlEnd <= Len(urlIn)
      /\ urlIn \in Seq(Nat) /\ Len(urlIn) \in Nat
  BY UrlAssumption, SeqMonotonic, LenProperties DEF UrlInv, UrlTypeOK, DecodeChar
<1>2. c \in Nat /\ decoder.sym \in Nat /\ urlPos + 1 \in 1..Len(urlIn)
  BY <1>1, ElementOfSeq DEF UrlInv, UrlTypeOK
<1>3. /\ decoder' = UrlStep(decoder, c) /\ urlAt = "decode" /\ urlPos' = urlPos + 1
      /\ urlIn' = urlIn
  BY DEF DecodeChar
<1>4. decoder.state \in {"sym", "percent", "digit"} /\ EscapeIsOpen
  BY <1>3 DEF UrlInv, UrlTypeOK, DecodedSoFar
\* What the text means from the open escape on.
<1> DEFINE meant(m) == MeaningAt(urlIn, m, OpenAt, UrlParse(urlIn, m)[OpenAt + 1],
                                 UrlParse(urlIn, m)[OpenAt + 3])
<1>5. ASSUME NEW m \in (urlPos + 1)..Len(urlIn)
      PROVE  /\ m \in Nat /\ OpenAt \in 1..(m + 3) /\ OpenAt <= m /\ ~(OpenAt > m)
             /\ UrlParse(urlIn, m)[OpenAt] = meant(m)
  <2>1. m \in 0..Len(urlIn) /\ m \in Nat /\ urlPos < m  BY <1>1
  <2>2. OpenAt \in 1..(m + 3) /\ OpenAt <= m
    <3>1. CASE decoder.state = "sym"  BY <1>1, <2>1, <3>1 DEF OpenAt
    <3>2. CASE decoder.state = "percent"  BY <1>1, <1>4, <2>1, <3>2 DEF OpenAt, EscapeIsOpen
    <3>3. CASE decoder.state = "digit"
      <4>1. OpenAt = urlPos - 1 /\ urlPos >= 2  BY <1>4, <3>3 DEF OpenAt, EscapeIsOpen
      <4> QED  BY <1>1, <2>1, <4>1
    <3> QED  BY <1>4, <3>1, <3>2, <3>3
  <2>3. ~(OpenAt > m)  BY <2>1, <2>2
  <2> QED  BY <1>1, <2>1, <2>2, <2>3, ParseUnfolds
<1>6. CASE StartsEscape(decoder, c)
  <2>1. decoder' = Goto(decoder, "percent", decoder.sym)  BY <1>3, <1>6, CharacterCases
  <2>2. decoder'.state = "percent" /\ c = Percent /\ decoder.state = "sym"
    BY <1>6, <2>1 DEF Goto, StartsEscape
  <2>3. OpenAt' = OpenAt  BY <1>3, <2>2 DEF OpenAt
  <2>4. EscapeIsOpen'  BY <1>1, <1>3, <2>2 DEF EscapeIsOpen
  <2> QED  BY <1>2, <2>1, <2>3, <2>4, GotoStep
<1>7. CASE FirstDigit(decoder, c)
  <2>1. decoder' = Goto(decoder, "digit", c)  BY <1>3, <1>7, CharacterCases
  <2>2. /\ decoder'.state = "digit" /\ c \notin {Percent, Plus} /\ decoder.state = "percent"
        /\ decoder'.sym = c
    BY <1>7, <2>1 DEF Goto, FirstDigit
  <2>3. OpenAt' = OpenAt  BY <1>1, <1>3, <2>2 DEF OpenAt
  <2>4. EscapeIsOpen'
    <3>1. urlPos >= 1 /\ urlIn[urlPos] = Percent /\ urlPos' >= 2 /\ urlPos' - 1 = urlPos
      BY <1>1, <1>3, <1>4, <2>2 DEF EscapeIsOpen
    <3> QED  BY <1>1, <1>3, <2>2, <3>1 DEF EscapeIsOpen
  <2> QED  BY <1>2, <2>1, <2>3, <2>4, GotoStep
<1>8. CASE IsSpace(decoder, c)
  <2>1. decoder' = Emit(decoder, Space) /\ Space \in Nat
    BY <1>3, <1>8, CharacterCases DEF Space
  <2>2. OpenAt = urlPos + 1 /\ c = Plus  BY <1>8 DEF IsSpace, OpenAt
  <2>3. ASSUME NEW m \in (urlPos + 1)..Len(urlIn)
        PROVE  UrlParse(urlIn, m)[OpenAt] = Follows(Space, UrlParse(urlIn, m)[urlPos + 2])
    <3>1. OpenAt + 1 = urlPos + 2 /\ urlIn[OpenAt] = Plus  BY <1>1, <2>2
    <3> QED  BY <1>5, <3>1 DEF MeaningAt, Percent, Plus
  <2> QED  BY <2>1, <2>3, EmitStep
<1>9. CASE IsItself(decoder, c)
  <2>1. decoder' = Emit(decoder, c)  BY <1>3, <1>9, CharacterCases
  <2>2. OpenAt = urlPos + 1 /\ c \notin {Percent, Plus} /\ IsUnreserved(c)
    BY <1>9 DEF IsItself, OpenAt
  <2>3. ASSUME NEW m \in (urlPos + 1)..Len(urlIn)
        PROVE  UrlParse(urlIn, m)[OpenAt] = Follows(c, UrlParse(urlIn, m)[urlPos + 2])
    <3>1. OpenAt + 1 = urlPos + 2 /\ urlIn[OpenAt] = c  BY <1>1, <2>2
    <3> HIDE DEF c
    <3> QED  BY <1>5, <2>2, <3>1 DEF MeaningAt
  <2> QED  BY <1>2, <2>1, <2>3, EmitStep
<1>10. CASE SecondDigit(decoder, c)
  <2> DEFINE e == 16 * UrlDigit(decoder.sym) + UrlDigit(c)
  <2>1. decoder' = Emit(decoder, e)  BY <1>3, <1>10, CharacterCases
  <2>2. /\ OpenAt = urlPos - 1 /\ UrlDigit(decoder.sym) >= 0 /\ UrlDigit(c) >= 0
        /\ urlPos >= 2 /\ urlIn[urlPos - 1] = Percent /\ urlIn[urlPos] = decoder.sym
    BY <1>4, <1>10 DEF SecondDigit, OpenAt, EscapeIsOpen
  <2>3. e \in Nat
    <3>1. UrlDigit(decoder.sym) # -1 /\ UrlDigit(c) # -1  BY <2>2
    <3>2. UrlDigit(decoder.sym) \in Nat /\ UrlDigit(c) \in Nat
      BY <1>2, <3>1, DigitsAreNumbers
    <3> QED  BY <3>2
  <2>4. ASSUME NEW m \in (urlPos + 1)..Len(urlIn)
        PROVE  UrlParse(urlIn, m)[OpenAt] = Follows(e, UrlParse(urlIn, m)[urlPos + 2])
    <3>1. /\ OpenAt + 1 = urlPos /\ OpenAt + 2 = urlPos + 1 /\ OpenAt + 3 = urlPos + 2
          /\ OpenAt + 2 <= m
      <4>1. urlPos \in Nat /\ m \in (urlPos + 1)..Len(urlIn)  BY <1>1
      <4>2. m \in Nat /\ urlPos < m  BY <4>1
      <4>3. OpenAt = urlPos - 1  BY <2>2
      <4> HIDE DEF OpenAt
      <4> QED  BY <4>1, <4>2, <4>3
    <3>2. EscapeAt(urlIn, m, OpenAt)  BY <2>2, <3>1 DEF EscapeAt
    <3>3. 16 * UrlDigit(urlIn[OpenAt + 1]) + UrlDigit(urlIn[OpenAt + 2]) = e
      BY <2>2, <3>1
    <3>4. urlIn[OpenAt] = Percent  BY <2>2
    <3> HIDE DEF e
    <3>5. meant(m) = Follows(e, UrlParse(urlIn, m)[OpenAt + 3])
      <4>1. OpenAt \in Nat /\ m \in Nat  BY <1>5
      <4> QED  BY <4>1, <3>2, <3>3, <3>4, EscapeMeans
    <3> QED  BY <1>5, <3>1, <3>5
  <2> HIDE DEF e
  <2> QED  BY <2>1, <2>3, <2>4, EmitStep
<1>11. CASE IsRefused(decoder, c)
  <2>1. decoder' = Refuse(decoder)  BY <1>3, <1>11, CharacterCases
  <2>2. /\ decoder'.state = "refused" /\ decoder'.out = decoder.out
        /\ decoder'.sym = decoder.sym
    BY <2>1 DEF Refuse, Goto
  <2>3. urlAt' = "1" /\ urlEnd' = urlEnd /\ urlOut' = urlOut  BY <2>2 DEF DecodeChar
  <2>4. UrlTypeOK'
    <3>1. decoder' \in [state : {"sym", "percent", "digit", "refused"}, sym : Nat, out : Seq(Nat)]
      BY <2>1 DEF Refuse, Goto, UrlInv, UrlTypeOK
    <3> QED  BY <1>1, <1>3, <2>3, <3>1 DEF UrlInv, UrlTypeOK
  <2>5. EscapeIsOpen' /\ DecodedSoFar'  BY <2>2, <2>3 DEF EscapeIsOpen, DecodedSoFar
  <2> DEFINE m == urlPos + 1
  <2>6. m \in (urlPos + 1)..Len(urlIn) /\ m \in urlPos..Len(urlIn)  BY <1>1, <1>2
  <2>7. meant(m) = Nothing("bad")
    <3>1. OpenAt <= m /\ ~(OpenAt > m)  BY <1>5, <2>6
    <3>2. CASE decoder.state = "sym"
      <4>1. OpenAt = m /\ urlIn[OpenAt] \notin {Percent, Plus} /\ ~IsUnreserved(urlIn[OpenAt])
        BY <1>11, <3>2 DEF IsRefused, StartsEscape, IsSpace, IsItself, OpenAt
      <4> QED  BY <3>1, <4>1 DEF MeaningAt
    <3>3. CASE decoder.state = "percent"
      <4>1. OpenAt = urlPos /\ urlIn[OpenAt] = Percent /\ urlIn[m] \in {Percent, Plus}
        BY <1>4, <1>11, <3>3 DEF IsRefused, FirstDigit, OpenAt, EscapeIsOpen
      <4>2. ~EscapeAt(urlIn, m, OpenAt) /\ ~CutAt(urlIn, m, OpenAt)
        BY <1>1, <4>1 DEF EscapeAt, CutAt
      <4> QED  BY <3>1, <4>1, <4>2 DEF MeaningAt, Percent, Plus
    <3>4. CASE decoder.state = "digit"
      <4>0. OpenAt = urlPos - 1 /\ urlIn[OpenAt] = Percent /\ urlIn[urlPos] = decoder.sym
        BY <1>4, <3>4 DEF OpenAt, EscapeIsOpen
      <4>1. /\ OpenAt = urlPos - 1 /\ urlIn[OpenAt] = Percent
            /\ OpenAt + 1 = urlPos /\ OpenAt + 2 = m
            /\ urlIn[urlPos] = decoder.sym
        BY <1>1, <4>0
      <4>2. ~(UrlDigit(decoder.sym) >= 0 /\ UrlDigit(urlIn[m]) >= 0)
        BY <1>11, <3>4 DEF IsRefused, SecondDigit
      <4>3. ~EscapeAt(urlIn, m, OpenAt)  BY <4>1, <4>2 DEF EscapeAt
      <4>4. ~CutAt(urlIn, m, OpenAt)  BY <1>1, <4>1 DEF CutAt
      <4> QED  BY <3>1, <4>1, <4>3, <4>4 DEF MeaningAt, Percent, Plus
    <3> QED  BY <1>4, <3>2, <3>3, <3>4
  <2>8. UrlParse(urlIn, m)[OpenAt].kind = "bad"
    BY <1>5, <2>6, <2>7 DEF Nothing
  <2>9. UrlParse(urlIn, m)[1].kind = "bad"
    BY <1>3, <2>6, <2>8 DEF UrlInv, DecodedSoFar
  <2>10. UrlOutputIsMeaning'  BY <1>3, <2>3, <2>9 DEF UrlOutputIsMeaning
  <2> QED  BY <2>4, <2>5, <2>10 DEF UrlInv
<1> QED  BY <1>6, <1>7, <1>8, <1>9, <1>10, <1>11 DEF IsRefused

\* However the input is cut into chunks, what has been written is what the part read so
\* far means, and a text that means nothing is not accepted: urldecode.c over any
\* alphabet of bytes, any length of the input and any size of its buffer.
THEOREM UrlOutputIsMeaningHolds == UrlSpec => []UrlOutputIsMeaning
<1>1. UrlInv /\ [UrlNext]_urlVars => UrlInv'
  <2> SUFFICES ASSUME UrlInv, [UrlNext]_urlVars  PROVE UrlInv'  OBVIOUS
  <2>1. ASSUME NEW n \in 1..MaxUrl, ReadChunk(n)  PROVE UrlInv'  BY <2>1, ReadStep
  <2>2. CASE ReadEnds  BY <2>2, EndStep
  <2>3. CASE DecodeChar  BY <2>3, DecodeStep
  <2>4. CASE WriteChunk  BY <2>4, WriteStep
  <2>5. CASE UNCHANGED urlVars
    BY <2>5 DEF urlVars, UrlInv, UrlTypeOK, EscapeIsOpen, DecodedSoFar, OpenAt,
                UrlOutputIsMeaning
  <2> QED  BY <2>1, <2>2, <2>3, <2>4, <2>5 DEF UrlNext
<1>2. UrlInv => UrlOutputIsMeaning  BY DEF UrlInv
<1> QED  BY <1>1, <1>2, UrlInvInit, PTL DEF UrlSpec

----------------------------------------------------------------------------
(***************************************************************************)
(* Signed texts.  As long as the output is not full, what has been written *)
(* splits, for a reader, into the lines that went into the hash, and they  *)
(* are those of the document as far as it has been read (SignedSoFar).     *)
(* The lines of a text are a function on its characters; what follows a    *)
(* text leaves its complete lines (Extends), so that a line that the       *)
(* document ends with, or a part of one, is told apart by the whole.       *)
(***************************************************************************)

Text == Seq(Int)
LineLists == Seq(Text) \ {<<>>}

\* c is a, of length n, and then b, of length m.
IsConcat(c, a, b, n, m) ==
  /\ c \in Text /\ Len(c) = n + m
  /\ \A i \in 1..(n + m) : c[i] = IF i <= n THEN a[i] ELSE b[i - n]

\* A concatenation has the characters of both parts.
LEMMA ConcatHas ==
  ASSUME NEW a \in Text, NEW b \in Text, NEW n, NEW m, Len(a) = n, Len(b) = m
  PROVE  IsConcat(a \o b, a, b, n, m)
BY ConcatProperties DEF Text, IsConcat

\* g is defined by recursion over 0..n.
Recursion(g, n, a, step) ==
  g = [k \in 0..n |-> IF k = 0 THEN a ELSE step[<<k, g[k - 1]>>]]

\* A recursion over 0..n is defined.
LEMMA RecursionExists ==
  ASSUME NEW S, NEW a \in S, NEW n \in Nat, NEW step \in [(1..n) \X S -> S]
  PROVE  \E g \in [0..n -> S] : Recursion(g, n, a, step)
<1> DEFINE Line(g, k) == IF k = 0 THEN a ELSE step[<<k, g[k - 1]>>]
           Is(m, g) == g \in [0..m -> S] /\ \A k \in 0..m : g[k] = Line(g, k)
           Wrong == {m \in 0..n : ~\E g : Is(m, g)}
<1>1. SUFFICES ASSUME Wrong # {}  PROVE FALSE
  <2>1. PICK g : Is(n, g)  BY <1>1
  <2>2. g = [k \in 0..n |-> Line(g, k)]  BY <2>1
  <2>3. Recursion(g, n, a, step)  BY <2>2 DEF Recursion
  <2> QED  BY <2>1, <2>3
<1>2. PICK m \in Wrong : \A l \in Wrong : m <= l
  <2>1. Wrong \subseteq Nat  OBVIOUS
  <2> HIDE DEF Wrong
  <2> QED  BY <1>1, <2>1, LeastOf
<1>3. m # 0
  <2>1. Is(0, [k \in 0..0 |-> a])  OBVIOUS
  <2> QED  BY <2>1
<1>4. m - 1 \in 0..n /\ m - 1 \notin Wrong /\ m \in 1..n
  <2>1. m \in 0..n  BY <1>2
  <2> HIDE DEF Wrong
  <2>2. m \in 1..n /\ m - 1 \in 0..n /\ ~(m <= m - 1)  BY <1>3, <2>1
  <2> QED  BY <1>2, <2>2
<1>5. PICK g : Is(m - 1, g)  BY <1>4
<1> DEFINE h == [k \in 0..m |-> IF k = m THEN step[<<m, g[m - 1]>>] ELSE g[k]]
<1>6. g[m - 1] \in S /\ \A k \in 0..(m - 1) : g[k] \in S /\ g[k] = Line(g, k)  BY <1>4, <1>5
<1>7. step[<<m, g[m - 1]>>] \in S  BY <1>4, <1>6
<1>8. h \in [0..m -> S]
  <2> SUFFICES ASSUME NEW k \in 0..m
               PROVE  (IF k = m THEN step[<<m, g[m - 1]>>] ELSE g[k]) \in S
    OBVIOUS
  <2>1. k # m => k \in 0..(m - 1)  BY <1>4
  <2> QED  BY <1>6, <1>7, <2>1
<1>9. ASSUME NEW k \in 0..m  PROVE h[k] = Line(h, k)
  <2>1. CASE k = m
    <3>1. h[k - 1] = g[m - 1] /\ k # 0  BY <1>4, <2>1
    <3> QED  BY <2>1, <3>1
  <2>2. CASE k # m
    <3>1. k \in 0..(m - 1) /\ h[k] = g[k]  BY <1>4, <2>2
    <3>2. k # 0 => h[k - 1] = g[k - 1]  BY <1>4, <2>2
    <3> QED  BY <1>6, <3>1, <3>2
  <2> QED  BY <2>1, <2>2
<1> HIDE DEF h
<1>10. Is(m, h)  BY <1>8, <1>9
<1> QED  BY <1>2, <1>10

\* A character more is a list of lines again.
LEMMA AddCharIs ==
  ASSUME NEW lines \in LineLists, NEW c \in Int
  PROVE  AddChar(lines, c) \in LineLists
<1>1. lines \in Seq(Text) /\ Len(lines) \in Nat \ {0}  BY EmptySeq DEF LineLists
<1>2. lines[Len(lines)] \in Text /\ Len(lines) \in 1..Len(lines)  BY <1>1, ElementOfSeq
<1>3. CASE c = Lf
  <2>1. <<>> \in Text  BY DEF Text
  <2>2. Append(lines, <<>>) \in Seq(Text) /\ Append(lines, <<>>) # <<>>
    BY <1>1, <2>1, AppendProperties
  <2> QED  BY <1>3, <2>2 DEF AddChar, LineLists
<1>4. CASE c # Lf
  <2> DEFINE x == Append(lines[Len(lines)], c)
             new == [lines EXCEPT ![Len(lines)] = x]
  <2>1. x \in Text  BY <1>2, AppendProperties DEF Text
  <2>2. new \in Seq(Text) /\ Len(new) = Len(lines)
    <3> HIDE DEF x
    <3> QED  BY <1>1, <1>2, <2>1, ExceptSeq
  <2>3. AddChar(lines, c) = new  BY <1>4 DEF AddChar
  <2> HIDE DEF new
  <2>4. new # <<>>  BY <1>1, <2>2
  <2> QED  BY <2>2, <2>3, <2>4 DEF LineLists
<1> QED  BY <1>3, <1>4

\* g says what the lines are up to each character of s.
IsSplit(s, g) ==
  /\ g \in [0..Len(s) -> LineLists] /\ g[0] = <<<<>>>>
  /\ \A k \in 1..Len(s) : g[k] = AddChar(g[k - 1], s[k])

\* The lines of a text come about character by character.
LEMMA SplitUnfolds ==
  ASSUME NEW s \in Text
  PROVE  \E g : IsSplit(s, g) /\ SplitLines(s) = g[Len(s)]
<1> DEFINE n == Len(s)
           a == <<<<>>>>
           S == LineLists
           step == [x \in (1..n) \X S |-> AddChar(x[2], s[x[1]])]
           upto[k \in 0..n] == IF k = 0 THEN <<<<>>>> ELSE AddChar(upto[k - 1], s[k])
<1>1. n \in Nat /\ \A k \in 1..n : s[k] \in Int  BY LenProperties, ElementOfSeq DEF Text
<1>2. a \in S
  <2>1. <<>> \in Text  BY DEF Text
  <2>2. a \in Seq(Text) /\ a # <<>>  BY <2>1
  <2> QED  BY <2>2 DEF LineLists
<1>3. \A k \in 1..n, x \in S : step[<<k, x>>] = AddChar(x, s[k])  OBVIOUS
<1>4. step \in [(1..n) \X S -> S]
  <2>1. \A k \in 1..n, x \in S : AddChar(x, s[k]) \in S  BY <1>1, AddCharIs
  <2> QED  BY <2>1
<1> HIDE DEF step, S, n, a
<1>5. PICK g \in [0..n -> S] : Recursion(g, n, a, step)
  BY <1>1, <1>2, <1>4, RecursionExists
<1>6. \A k \in 1..n : g[k] = AddChar(g[k - 1], s[k])
  <2> TAKE k \in 1..n
  <2>1. k \in 0..n /\ k - 1 \in 0..n /\ k # 0  BY <1>1
  <2>2. g[k] = step[<<k, g[k - 1]>>] /\ g[k - 1] \in S  BY <1>5, <2>1 DEF Recursion
  <2> QED  BY <1>3, <2>2
<1>7. g[0] = a  BY <1>1, <1>5 DEF Recursion
<1>8. g = [k \in 0..n |-> IF k = 0 THEN <<<<>>>> ELSE AddChar(g[k - 1], s[k])]
  <2>1. ASSUME NEW k \in 0..n
        PROVE  g[k] = IF k = 0 THEN <<<<>>>> ELSE AddChar(g[k - 1], s[k])
    <3>1. CASE k = 0  BY <1>7, <3>1 DEF a
    <3>2. CASE k # 0
      <4>1. k \in 1..n  BY <1>1, <3>2
      <4> QED  BY <1>6, <3>2, <4>1
    <3> QED  BY <3>1, <3>2
  <2>2. g = [k \in 0..n |-> g[k]]  BY <1>5
  <2> QED  BY <2>1, <2>2
<1>9. upto = [k \in 0..n |-> IF k = 0 THEN <<<<>>>> ELSE AddChar(upto[k - 1], s[k])]
  BY <1>8
<1> HIDE DEF upto
<1>10. ASSUME NEW k \in 0..n  PROVE upto[k] = g[k]
  <2> DEFINE Wrong == {l \in 0..n : upto[l] # g[l]}
  <2>1. SUFFICES ASSUME Wrong # {}  PROVE FALSE  OBVIOUS
  <2>2. PICK m \in Wrong : \A l \in Wrong : m <= l
    <3>1. Wrong \subseteq Nat  BY <1>1
    <3> HIDE DEF Wrong
    <3> QED  BY <2>1, <3>1, LeastOf
  <2>3. m # 0  BY <1>7, <1>9, <1>1 DEF a
  <2>4. m \in 1..n /\ m - 1 \in 0..n /\ m - 1 \notin Wrong  BY <1>1, <2>2, <2>3
  <2>5. upto[m] = AddChar(upto[m - 1], s[m])  BY <1>9, <2>4
  <2> QED  BY <1>6, <2>2, <2>4, <2>5
<1>11. SplitLines(s) = upto[n]  BY DEF SplitLines, upto, n
<1>12. SplitLines(s) = g[n]  BY <1>1, <1>10, <1>11
<1>13. IsSplit(s, g)  BY <1>5, <1>6, <1>7 DEF IsSplit, n, S, a
<1> QED  BY <1>12, <1>13 DEF n

\* Without a character there is one line, which is empty.
LEMMA SplitOfEmpty == SplitLines(<<>>) = <<<<>>>>
<1>1. <<>> \in Text /\ Len(<<>>) = 0  BY DEF Text
<1>2. PICK g : IsSplit(<<>>, g) /\ SplitLines(<<>>) = g[0]  BY <1>1, SplitUnfolds
<1> QED  BY <1>2 DEF IsSplit

\* A text has at least one line.
LEMMA SplitIs == ASSUME NEW s \in Text  PROVE SplitLines(s) \in LineLists
<1>1. PICK g : IsSplit(s, g) /\ SplitLines(s) = g[Len(s)]  BY SplitUnfolds
<1>2. Len(s) \in 0..Len(s)  BY LenProperties DEF Text
<1> QED  BY <1>1, <1>2 DEF IsSplit

\* The lines of a text that is one character longer.
LEMMA SplitOfMore ==
  ASSUME NEW s \in Text, NEW c \in Int
  PROVE  SplitLines(Append(s, c)) = AddChar(SplitLines(s), c)
<1> DEFINE n == Len(s)
           t == Append(s, c)
<1>1. /\ n \in Nat /\ t \in Text /\ Len(t) = n + 1 /\ t[n + 1] = c
      /\ \A k \in 1..n : t[k] = s[k]
  BY AppendProperties, LenProperties DEF Text
<1> HIDE DEF t
<1>2. PICK g : IsSplit(s, g) /\ SplitLines(s) = g[n]  BY SplitUnfolds
<1>3. PICK h : IsSplit(t, h) /\ SplitLines(t) = h[n + 1]  BY <1>1, SplitUnfolds
<1>4. ASSUME NEW k \in 0..n  PROVE h[k] = g[k]
  <2> DEFINE Wrong == {l \in 0..n : h[l] # g[l]}
  <2>1. SUFFICES ASSUME Wrong # {}  PROVE FALSE  OBVIOUS
  <2>2. PICK m \in Wrong : \A l \in Wrong : m <= l
    <3>1. Wrong \subseteq Nat  BY <1>1
    <3> HIDE DEF Wrong
    <3> QED  BY <2>1, <3>1, LeastOf
  <2>3. m # 0  BY <1>2, <1>3, <2>2 DEF IsSplit
  <2>4. m \in 1..n /\ m \in 1..(n + 1) /\ m - 1 \in 0..n /\ m - 1 \notin Wrong  BY <1>1, <2>2, <2>3
  <2>5. h[m] = AddChar(h[m - 1], t[m])  BY <1>1, <1>3, <2>4 DEF IsSplit
  <2>6. g[m] = AddChar(g[m - 1], s[m])  BY <1>2, <2>4 DEF IsSplit
  <2> QED  BY <1>1, <2>2, <2>4, <2>5, <2>6
<1>5. h[n + 1] = AddChar(h[n], c)
  <2>1. n + 1 \in 1..(n + 1) /\ (n + 1) - 1 = n  BY <1>1
  <2> QED  BY <1>1, <1>3, <2>1 DEF IsSplit
<1>6. h[n] = g[n]  BY <1>1, <1>4
<1> QED  BY <1>2, <1>3, <1>5, <1>6 DEF t

\* The lines go on with x: the last one is longer.
Longer(lines, new, x) ==
  /\ Len(new) = Len(lines)
  /\ \A k \in 1..(Len(lines) - 1) : new[k] = lines[k]
  /\ new[Len(lines)] = lines[Len(lines)] \o x

\* A text goes on with a character.
LEMMA ConcatOfAppend ==
  ASSUME NEW s \in Text, NEW u \in Text, NEW c \in Int
  PROVE  s \o Append(u, c) = Append(s \o u, c)
<1>1. Append(u, c) = u \o <<c>> /\ <<c>> \in Text  BY AppendIsConcat DEF Text
<1>2. s \o u \in Text  BY ConcatProperties DEF Text
<1>3. Append(s \o u, c) = (s \o u) \o <<c>>  BY <1>2, AppendIsConcat DEF Text
<1>4. (s \o u) \o <<c>> = s \o (u \o <<c>>)  BY <1>1, ConcatAssociative, SMTT(30) DEF Text
<1> QED  BY <1>1, <1>3, <1>4

\* The first n + 1 characters are the first n and one more.
LEMMA OneMore ==
  ASSUME NEW s \in Text, NEW n \in 0..(Len(s) - 1)
  PROVE  /\ SubSeq(s, 1, n) \in Text /\ n + 1 \in 1..Len(s) /\ s[n + 1] \in Int
         /\ SubSeq(s, 1, n + 1) = Append(SubSeq(s, 1, n), s[n + 1])
<1>1. Len(s) \in Nat /\ n + 1 \in 1..Len(s) /\ 1 \in 1..Len(s) /\ n + 1 \in 1..Len(s) /\ (n + 1) - 1 = n
  BY LenProperties DEF Text
<1>2. s[n + 1] \in Int  BY <1>1, ElementOfSeq DEF Text
<1>3. SubSeq(s, 1, n) \in Text
  <2>1. \A i \in 1..n : s[i] \in Int  BY <1>1, ElementOfSeq DEF Text
  <2> QED  BY <1>1, <2>1, SubSeqProperties DEF Text
<1>4. SubSeq(s, 1, n + 1) = SubSeq(s, 1, (n + 1) - 1) \o <<s[n + 1]>>
  BY <1>1, SubSeqRecursiveSecond DEF Text
<1>5. Append(SubSeq(s, 1, n), s[n + 1]) = SubSeq(s, 1, n) \o <<s[n + 1]>>
  BY <1>2, <1>3, AppendIsConcat DEF Text
<1> QED  BY <1>1, <1>2, <1>3, <1>4, <1>5

\* A character that is no line feed makes the last line longer.
LEMMA AddToLine ==
  ASSUME NEW lines \in LineLists, NEW c \in Int, c # Lf
  PROVE  Longer(lines, AddChar(lines, c), <<c>>)
<1>1. lines \in Seq(Text) /\ Len(lines) \in Nat \ {0}  BY EmptySeq DEF LineLists
<1>2. lines[Len(lines)] \in Text /\ Len(lines) \in 1..Len(lines)  BY <1>1, ElementOfSeq
<1> DEFINE x == Append(lines[Len(lines)], c)
           new == [lines EXCEPT ![Len(lines)] = x]
<1>3. x \in Text /\ x = lines[Len(lines)] \o <<c>>
  BY <1>2, AppendProperties, AppendIsConcat DEF Text
<1>4. AddChar(lines, c) = new  BY DEF AddChar
<1> HIDE DEF x
<1>5. /\ Len(new) = Len(lines)
      /\ \A j \in 1..Len(lines) : new[j] = IF j = Len(lines) THEN x ELSE lines[j]
  BY <1>1, <1>2, <1>3, ExceptSeq
<1> HIDE DEF new
<1>6. /\ new[Len(lines)] = x
      /\ \A k \in 1..(Len(lines) - 1) : new[k] = lines[k]
  BY <1>1, <1>2, <1>5
<1> QED  BY <1>3, <1>4, <1>5, <1>6 DEF Longer

\* After a line feed there is one more line.
OneMoreLine(lines, new) ==
  /\ Len(new) = Len(lines) + 1
  /\ \A k \in 1..Len(lines) : new[k] = lines[k]
  /\ new[Len(lines) + 1] = <<>>

\* A line feed begins a new line.
LEMMA AddLine ==
  ASSUME NEW lines \in LineLists
  PROVE  OneMoreLine(lines, AddChar(lines, Lf))
<1>1. lines \in Seq(Text) /\ Len(lines) \in Nat \ {0}  BY EmptySeq DEF LineLists
<1>2. <<>> \in Text  BY DEF Text
<1> QED  BY <1>1, <1>2, AppendProperties DEF AddChar, OneMoreLine

\* Characters that are no line feeds are added to the last line.
LEMMA SplitOfLine ==
  ASSUME NEW s \in Text, NEW l \in Text, \A j \in 1..Len(l) : l[j] # Lf
  PROVE  Longer(SplitLines(s), SplitLines(s \o l), l)
<1> DEFINE n == Len(l)
           L == SplitLines(s)
           First(k) == SubSeq(l, 1, k)
           M(k) == SplitLines(s \o First(k))
           Wrong == {k \in 0..n : ~Longer(L, M(k), First(k))}
<1>1. n \in Nat /\ SubSeq(l, 1, n) = l  BY LenProperties, SubSeqFull DEF Text
<1>2. SUFFICES ASSUME Wrong # {}  PROVE FALSE
  <2>1. Longer(L, M(n), First(n))  BY <1>1, <1>2
  <2> QED  BY <1>1, <2>1
<1>3. PICK m \in Wrong : \A k \in Wrong : m <= k
  <2>1. Wrong \subseteq Nat  BY <1>1
  <2> HIDE DEF Wrong
  <2> QED  BY <1>2, <2>1, LeastOf
<1>4. L \in LineLists  BY SplitIs
<1>5. L \in Seq(Text) /\ Len(L) \in Nat \ {0} /\ L[Len(L)] \in Text
  <2>1. L \in Seq(Text) /\ Len(L) \in Nat \ {0}  BY <1>4, EmptySeq DEF LineLists
  <2>2. Len(L) \in 1..Len(L)  BY <2>1
  <2> QED  BY <2>1, <2>2, ElementOfSeq
<1>6. m # 0
  <2>1. First(0) = <<>>  BY SubSeqEmpty
  <2>2. s \o <<>> = s /\ L[Len(L)] \o <<>> = L[Len(L)]  BY <1>5, ConcatEmptySeq DEF Text
  <2>3. Longer(L, M(0), First(0))
    <3> HIDE DEF First, L
    <3>1. s \o First(0) = s /\ L[Len(L)] \o First(0) = L[Len(L)]  BY <2>1, <2>2
    <3> QED  BY <3>1 DEF Longer, L
  <2> QED  BY <2>3
<1>7. m \in 0..n /\ m - 1 \in 0..(n - 1) /\ m - 1 \in 0..n /\ m - 1 \notin Wrong
  <2>1. m \in 0..n  BY <1>3
  <2> HIDE DEF Wrong
  <2>2. m - 1 \in 0..(n - 1) /\ m - 1 \in 0..n /\ ~(m <= m - 1)  BY <1>1, <1>6, <2>1
  <2> QED  BY <1>3, <2>1, <2>2
<1> DEFINE c == l[m]
           a == First(m - 1)
<1>8. a \in Text /\ c \in Int /\ c # Lf /\ First(m) = Append(a, c)
  <2>1. (m - 1) + 1 = m  BY <1>7
  <2>2. m - 1 \in 0..(Len(l) - 1)  BY <1>7
  <2>3. /\ SubSeq(l, 1, m - 1) \in Text /\ m \in 1..Len(l) /\ l[m] \in Int
        /\ SubSeq(l, 1, m) = Append(SubSeq(l, 1, m - 1), l[m])
    BY <2>1, <2>2, OneMore
  <2> QED  BY <2>3
<1>9. Longer(L, M(m - 1), a)  BY <1>7
<1>10. M(m) = AddChar(M(m - 1), c) /\ M(m - 1) \in LineLists
  <2> HIDE DEF a, c, First, L
  <2>1. s \o a \in Text  BY <1>8, ConcatProperties DEF Text
  <2>2. s \o First(m) = Append(s \o a, c)  BY <1>8, ConcatOfAppend
  <2>3. SplitLines(Append(s \o a, c)) = AddChar(SplitLines(s \o a), c)  BY <1>8, <2>1, SplitOfMore
  <2>4. SplitLines(s \o a) \in LineLists  BY <2>1, SplitIs
  <2> QED  BY <2>2, <2>3, <2>4 DEF a
<1> HIDE DEF L, M, a, c, First
<1>11. Longer(M(m - 1), M(m), <<c>>)  BY <1>8, <1>10, AddToLine
<1>12. M(m)[Len(L)] = (L[Len(L)] \o a) \o <<c>>  BY <1>5, <1>9, <1>11 DEF Longer
<1>13. (L[Len(L)] \o a) \o <<c>> = L[Len(L)] \o First(m)
  <2>1. <<c>> \in Text /\ Append(a, c) = a \o <<c>>  BY <1>8, AppendIsConcat DEF Text
  <2> DEFINE z == L[Len(L)]
  <2>2. z \in Text  BY <1>5
  <2> HIDE DEF z
  <2>3. (z \o a) \o <<c>> = z \o (a \o <<c>>)
    BY <1>8, <2>1, <2>2, ConcatAssociative, SMTT(30) DEF Text
  <2> QED  BY <1>8, <2>1, <2>3 DEF z
<1>14. Longer(L, M(m), First(m))  BY <1>5, <1>9, <1>11, <1>12, <1>13 DEF Longer
<1> QED  BY <1>3, <1>14

\* The lines of a text that goes on: only the last one may still grow.
Extends(lines, new) ==
  /\ Len(lines) <= Len(new)
  /\ \A k \in 1..(Len(lines) - 1) : new[k] = lines[k]
  /\ Len(lines[Len(lines)]) <= Len(new[Len(lines)])

\* Lines are texts.
LEMMA LinesAre ==
  ASSUME NEW L \in LineLists
  PROVE  /\ L \in Seq(Text) /\ Len(L) \in Nat \ {0} /\ L[Len(L)] \in Text
         /\ \A k \in 1..Len(L) : L[k] \in Text /\ Len(L[k]) \in Nat
<1>1. L \in Seq(Text) /\ Len(L) \in Nat \ {0}  BY EmptySeq DEF LineLists
<1>2. \A k \in 1..Len(L) : L[k] \in Text  BY <1>1, ElementOfSeq
<1>3. \A k \in 1..Len(L) : Len(L[k]) \in Nat  BY <1>2, LenProperties DEF Text
<1> QED  BY <1>1, <1>2, <1>3

\* A character more leaves the lines that were complete.
LEMMA ExtendsOneMore ==
  ASSUME NEW L \in LineLists, NEW M \in LineLists, NEW c \in Int, Extends(L, M)
  PROVE  Extends(L, AddChar(M, c))
<1>1. AddChar(M, c) \in LineLists  BY AddCharIs
<1>2. /\ Len(L) \in Nat \ {0} /\ Len(M) \in Nat \ {0} /\ M[Len(M)] \in Text
      /\ \A k \in 1..Len(L) : Len(L[k]) \in Nat
      /\ \A k \in 1..Len(M) : Len(M[k]) \in Nat
  BY LinesAre
<1>3. CASE c = Lf
  <2>1. OneMoreLine(M, AddChar(M, c))  BY <1>3, AddLine
  <2> QED  BY <1>2, <2>1 DEF Extends, OneMoreLine
<1>4. CASE c # Lf
  <2>1. Longer(M, AddChar(M, c), <<c>>)  BY <1>4, AddToLine
  <2> DEFINE z == M[Len(M)] \o <<c>>
  <2>2. Len(z) \in Nat /\ Len(M[Len(M)]) \in Nat /\ Len(z) >= Len(M[Len(M)])
    <3>1. <<c>> \in Text /\ Len(<<c>>) = 1  BY DEF Text
    <3> QED  BY <1>2, <3>1, ConcatProperties, LenProperties DEF Text
  <2> HIDE DEF z
  <2>3. AddChar(M, c)[Len(M)] = z  BY <2>1 DEF Longer, z
  <2>4. CASE Len(L) = Len(M)
    <3>1. Len(L[Len(L)]) <= Len(z)  BY <1>2, <2>2, <2>4 DEF Extends
    <3> QED  BY <1>2, <2>1, <2>3, <2>4, <3>1 DEF Extends, Longer
  <2>5. CASE Len(L) < Len(M)
    <3>0. Len(L) \in 1..(Len(M) - 1)  BY <1>2, <2>5
    <3>1. AddChar(M, c)[Len(L)] = M[Len(L)]  BY <2>1, <3>0 DEF Longer
    <3> QED  BY <1>2, <2>1, <2>5, <3>1 DEF Extends, Longer
  <2> QED  BY <1>2, <2>4, <2>5 DEF Extends
<1> QED  BY <1>3, <1>4

\* Whatever follows, the complete lines of a text stay what they are.
LEMMA SplitExtends ==
  ASSUME NEW s \in Text, NEW u \in Text
  PROVE  Extends(SplitLines(s), SplitLines(s \o u))
<1> DEFINE n == Len(u)
           L == SplitLines(s)
           First(k) == SubSeq(u, 1, k)
           M(k) == SplitLines(s \o First(k))
           Wrong == {k \in 0..n : ~Extends(L, M(k))}
<1>1. n \in Nat /\ SubSeq(u, 1, n) = u  BY LenProperties, SubSeqFull DEF Text
<1>2. SUFFICES ASSUME Wrong # {}  PROVE FALSE
  <2>1. Extends(L, M(n))  BY <1>1, <1>2
  <2> QED  BY <1>1, <2>1
<1>3. PICK m \in Wrong : \A k \in Wrong : m <= k
  <2>1. Wrong \subseteq Nat  BY <1>1
  <2> HIDE DEF Wrong
  <2> QED  BY <1>2, <2>1, LeastOf
<1>4. L \in LineLists  BY SplitIs
<1>5. m # 0
  <2>1. First(0) = <<>>  BY SubSeqEmpty
  <2>2. s \o <<>> = s  BY ConcatEmptySeq DEF Text
  <2>3. /\ Len(L) \in Nat \ {0} /\ Len(L[Len(L)]) \in Nat
    BY <1>4, LinesAre
  <2>4. M(0) = L  BY <2>1, <2>2
  <2>5. Extends(L, L)
    <3> HIDE DEF L
    <3> QED  BY <2>3 DEF Extends
  <2> QED  BY <2>4, <2>5
<1>6. m \in 0..n /\ m - 1 \in 0..(n - 1) /\ m - 1 \in 0..n /\ m - 1 \notin Wrong
  <2>1. m \in 0..n  BY <1>3
  <2> HIDE DEF Wrong
  <2>2. m - 1 \in 0..(n - 1) /\ m - 1 \in 0..n /\ ~(m <= m - 1)  BY <1>1, <1>5, <2>1
  <2> QED  BY <1>3, <2>1, <2>2
<1> DEFINE c == u[m]
           a == First(m - 1)
<1>7. a \in Text /\ c \in Int /\ First(m) = Append(a, c)
  <2>1. (m - 1) + 1 = m  BY <1>6
  <2>2. m - 1 \in 0..(Len(u) - 1)  BY <1>6
  <2>3. /\ SubSeq(u, 1, m - 1) \in Text /\ m \in 1..Len(u) /\ u[m] \in Int
        /\ SubSeq(u, 1, m) = Append(SubSeq(u, 1, m - 1), u[m])
    BY <2>1, <2>2, OneMore
  <2> QED  BY <2>3
<1>8. Extends(L, M(m - 1))  BY <1>6
<1>9. M(m) = AddChar(M(m - 1), c) /\ M(m - 1) \in LineLists
  <2> HIDE DEF a, c, First, L
  <2>1. s \o a \in Text  BY <1>7, ConcatProperties DEF Text
  <2>2. s \o First(m) = Append(s \o a, c)  BY <1>7, ConcatOfAppend
  <2>3. SplitLines(Append(s \o a, c)) = AddChar(SplitLines(s \o a), c)  BY <1>7, <2>1, SplitOfMore
  <2>4. SplitLines(s \o a) \in LineLists  BY <2>1, SplitIs
  <2> QED  BY <2>2, <2>3, <2>4 DEF a
<1> HIDE DEF L, M, a, c, First
<1>10. Extends(L, M(m))  BY <1>4, <1>7, <1>8, <1>9, ExtendsOneMore
<1> QED  BY <1>3, <1>10

\* A whole line is one more line, and a new one begins.
LEMMA SplitOfWholeLine ==
  ASSUME NEW s \in Text, NEW l \in Text, \A j \in 1..Len(l) : l[j] # Lf,
         Last(SplitLines(s)) = <<>>
  PROVE  LET lines == SplitLines(s)
             new == SplitLines(s \o (l \o <<Lf>>))
         IN /\ new \in LineLists /\ Len(new) = Len(lines) + 1
            /\ \A k \in 1..(Len(lines) - 1) : new[k] = lines[k]
            /\ new[Len(lines)] = l /\ Last(new) = <<>>
<1> DEFINE lines == SplitLines(s)
           mid == SplitLines(s \o l)
           new == SplitLines(s \o (l \o <<Lf>>))
<1>1. Lf \in Int /\ <<Lf>> \in Text  BY DEF Text, Lf
<1>2. s \o l \in Text  BY ConcatProperties DEF Text
<1>3. s \o (l \o <<Lf>>) = Append(s \o l, Lf)
  <2>1. Append(l, Lf) = l \o <<Lf>>  BY <1>1, AppendIsConcat DEF Text
  <2> QED  BY <1>1, <2>1, ConcatOfAppend
<1>4. new = AddChar(mid, Lf)  BY <1>1, <1>2, <1>3, SplitOfMore
<1>5. lines \in LineLists /\ mid \in LineLists  BY <1>2, SplitIs
<1>6. new \in LineLists  BY <1>1, <1>4, <1>5, AddCharIs
<1>7. OneMoreLine(mid, new)  BY <1>4, <1>5, AddLine
<1>8. Longer(lines, mid, l)  BY SplitOfLine
<1>9. lines[Len(lines)] \o l = l  BY ConcatEmptySeq DEF Text, Last
<1>10. Len(lines) \in Nat \ {0} /\ Len(mid) = Len(lines)
  BY <1>5, <1>8, LinesAre DEF Longer
<1> HIDE DEF lines, mid, new
<1>11. /\ Len(new) = Len(lines) + 1
       /\ \A k \in 1..(Len(lines) - 1) : new[k] = lines[k]
       /\ new[Len(lines)] = l /\ Last(new) = <<>>
  BY <1>7, <1>8, <1>9, <1>10 DEF OneMoreLine, Longer, Last
<1> QED  BY <1>6, <1>11 DEF lines, new

Crlf == <<Cr, Lf>>

\* Concatenation is associative.
LEMMA ConcatOfTexts ==
  ASSUME NEW a \in Text, NEW b \in Text, NEW c \in Text
  PROVE  (a \o b) \o c = a \o (b \o c)
BY ConcatAssociative, SMTT(30) DEF Text

\* g is what the first lines are, joined.
IsJoin(lines, g) ==
  /\ g \in [0..Len(lines) -> Text] /\ g[0] = <<>>
  /\ \A k \in 1..Len(lines) : g[k] = (IF k = 1 THEN <<>> ELSE g[k - 1] \o Crlf) \o lines[k]

\* A part of a joined text is a text.
LEMMA JoinStep ==
  ASSUME NEW x \in Text, NEW y \in Text, NEW k
  PROVE  (IF k = 1 THEN <<>> ELSE x \o Crlf) \o y \in Text
<1>1. <<>> \in Text /\ Crlf \in Text  BY DEF Text, Crlf, Cr, Lf
<1>2. x \o Crlf \in Text  BY <1>1, ConcatProperties DEF Text
<1> DEFINE z == IF k = 1 THEN <<>> ELSE x \o Crlf
<1>3. z \in Text  BY <1>1, <1>2
<1> HIDE DEF z
<1>4. z \o y \in Text  BY <1>3, ConcatProperties DEF Text
<1> QED  BY <1>4 DEF z

\* Lines are joined one after the other.
LEMMA JoinUnfolds ==
  ASSUME NEW lines \in Seq(Text)
  PROVE  \E g : IsJoin(lines, g) /\ Joined(lines) = g[Len(lines)]
<1> DEFINE n == Len(lines)
           S == Text
           a == <<>>
           Next(k, x) == (IF k = 1 THEN <<>> ELSE x \o Crlf) \o lines[k]
           step == [p \in (1..n) \X S |-> Next(p[1], p[2])]
           upto[k \in 0..n] ==
             IF k = 0 THEN <<>>
             ELSE (IF k = 1 THEN <<>> ELSE upto[k - 1] \o <<Cr, Lf>>) \o lines[k]
<1>1. n \in Nat /\ \A k \in 1..n : lines[k] \in Text  BY LenProperties, ElementOfSeq
<1>2. a \in S  BY DEF Text
<1>3. \A k \in 1..n, x \in S : step[<<k, x>>] = Next(k, x)  OBVIOUS
<1>4. step \in [(1..n) \X S -> S]
  <2>1. \A k \in 1..n, x \in S : Next(k, x) \in S  BY <1>1, JoinStep
  <2> HIDE DEF Next
  <2> QED  BY <2>1
<1> HIDE DEF step, S, n, a, Next, upto
<1>5. PICK g \in [0..n -> S] : Recursion(g, n, a, step)
  <2>1. n \in Nat  BY <1>1
  <2> QED  BY <2>1, <1>2, <1>4, RecursionExists
<1>6. \A k \in 1..n : g[k] = Next(k, g[k - 1])
  <2> TAKE k \in 1..n
  <2>1. k \in 0..n /\ k - 1 \in 0..n /\ k # 0  BY <1>1
  <2>2. g[k] = step[<<k, g[k - 1]>>] /\ g[k - 1] \in S  BY <1>5, <2>1 DEF Recursion
  <2> QED  BY <1>3, <2>2
<1>7. g[0] = a  BY <1>1, <1>5 DEF Recursion
<1> DEFINE Line(h, k) == IF k = 0 THEN <<>>
                         ELSE (IF k = 1 THEN <<>> ELSE h[k - 1] \o <<Cr, Lf>>) \o lines[k]
<1>8. g = [k \in 0..n |-> Line(g, k)]
  <2>1. ASSUME NEW k \in 0..n
        PROVE  g[k] = Line(g, k)
    <3>1. CASE k = 0  BY <1>7, <3>1 DEF a
    <3>2. CASE k # 0
      <4>1. k \in 1..n  BY <1>1, <3>2
      <4> QED  BY <1>6, <3>2, <4>1 DEF Next, Crlf
    <3> QED  BY <3>1, <3>2
  <2> HIDE DEF Line
  <2>2. g = [k \in 0..n |-> g[k]]  BY <1>5
  <2> QED  BY <2>1, <2>2
<1>9. upto = [k \in 0..n |-> Line(upto, k)]
  BY <1>8 DEF upto
<1>10. ASSUME NEW k \in 0..n  PROVE upto[k] = g[k]
  <2> DEFINE Wrong == {l \in 0..n : upto[l] # g[l]}
  <2>1. SUFFICES ASSUME Wrong # {}  PROVE FALSE  OBVIOUS
  <2>2. PICK m \in Wrong : \A l \in Wrong : m <= l
    <3>1. Wrong \subseteq Nat  BY <1>1
    <3> HIDE DEF Wrong
    <3> QED  BY <2>1, <3>1, LeastOf
  <2>3. m # 0  BY <1>7, <1>9, <1>1 DEF a
  <2>4. m \in 1..n /\ m \in 0..n /\ m - 1 \in 0..n /\ m - 1 \notin Wrong  BY <1>1, <2>2, <2>3
  <2>5. upto[m] = Line(upto, m) /\ g[m] = Line(g, m)  BY <1>8, <1>9, <2>4
  <2>6. upto[m - 1] = g[m - 1]  BY <2>4
  <2> QED  BY <2>2, <2>5, <2>6
<1>11. Joined(lines) = upto[n]  BY DEF Joined, upto, n
<1>12. Joined(lines) = g[n]  BY <1>1, <1>10, <1>11
<1>13. IsJoin(lines, g)  BY <1>5, <1>6, <1>7 DEF IsJoin, n, S, a, Next
<1> QED  BY <1>12, <1>13 DEF n

\* The text goes on with a line.
LEMMA JoinOfOneMore ==
  ASSUME NEW n \in Nat, NEW A \in Seq(Text), NEW B \in Seq(Text), NEW t \in Text,
         Len(A) = n + 1, Len(B) = n + 2, \A k \in 1..n : B[k] = A[k],
         A[n + 1] = <<>>, B[n + 1] = t, B[n + 2] = <<>>
  PROVE  Joined(B) = Joined(A) \o (t \o Crlf)
<1>1. PICK g : IsJoin(A, g) /\ Joined(A) = g[n + 1]  BY JoinUnfolds
<1>2. PICK h : IsJoin(B, h) /\ Joined(B) = h[n + 2]  BY JoinUnfolds
<1>3. ASSUME NEW k \in 0..n  PROVE h[k] = g[k]
  <2> DEFINE Wrong == {l \in 0..n : h[l] # g[l]}
  <2>1. SUFFICES ASSUME Wrong # {}  PROVE FALSE  OBVIOUS
  <2>2. PICK m \in Wrong : \A l \in Wrong : m <= l
    <3>1. Wrong \subseteq Nat  OBVIOUS
    <3> HIDE DEF Wrong
    <3> QED  BY <2>1, <3>1, LeastOf
  <2>3. m # 0  BY <1>1, <1>2, <2>2 DEF IsJoin
  <2>4. m \in 1..n /\ m \in 1..Len(A) /\ m \in 1..Len(B) /\ m - 1 \in 0..n /\ m - 1 \notin Wrong
    BY <2>2, <2>3
  <2>5. g[m] = (IF m = 1 THEN <<>> ELSE g[m - 1] \o Crlf) \o A[m]  BY <1>1, <2>4 DEF IsJoin
  <2>6. h[m] = (IF m = 1 THEN <<>> ELSE h[m - 1] \o Crlf) \o B[m]  BY <1>2, <2>4 DEF IsJoin
  <2>7. h[m - 1] = g[m - 1] /\ B[m] = A[m]  BY <2>4
  <2> QED  BY <2>2, <2>5, <2>6, <2>7
<1> DEFINE p == IF n + 1 = 1 THEN <<>> ELSE g[n] \o Crlf
<1>4. p \in Text
  <2>1. g[n] \in Text /\ Crlf \in Text /\ <<>> \in Text  BY <1>1 DEF IsJoin, Text, Crlf, Cr, Lf
  <2>2. g[n] \o Crlf \in Text  BY <2>1, ConcatProperties DEF Text
  <2> QED  BY <2>1, <2>2
<1>5. g[n + 1] = p
  <2>1. n + 1 \in 1..Len(A) /\ (n + 1) - 1 = n  OBVIOUS
  <2>2. g[n + 1] = p \o A[n + 1]  BY <1>1, <2>1 DEF IsJoin
  <2> HIDE DEF p
  <2> QED  BY <1>4, <2>2, ConcatEmptySeq DEF Text
<1>6. h[n + 1] = p \o t
  <2>1. n + 1 \in 1..Len(B) /\ (n + 1) - 1 = n /\ h[n] = g[n]  BY <1>3
  <2> QED  BY <1>2, <2>1 DEF IsJoin
<1> HIDE DEF p
<1>7. p \o t \in Text /\ (p \o t) \o Crlf \in Text
  <2>1. Crlf \in Text  BY DEF Text, Crlf, Cr, Lf
  <2>2. p \o t \in Text  BY <1>4, ConcatProperties DEF Text
  <2> QED  BY <2>1, <2>2, ConcatProperties DEF Text
<1>8. h[n + 2] = (p \o t) \o Crlf
  <2>1. n + 2 \in 1..Len(B) /\ (n + 2) - 1 = n + 1 /\ n + 2 # 1  OBVIOUS
  <2>2. h[n + 2] = (h[n + 1] \o Crlf) \o B[n + 2]  BY <1>2, <2>1 DEF IsJoin
  <2> QED  BY <1>6, <1>7, <2>2, ConcatEmptySeq DEF Text
<1>9. (p \o t) \o Crlf = p \o (t \o Crlf)
  <2>1. Crlf \in Text  BY DEF Text, Crlf, Cr, Lf
  <2> QED  BY <1>4, <2>1, ConcatOfTexts
<1> QED  BY <1>1, <1>2, <1>5, <1>8, <1>9

\* One empty line is nothing.
LEMMA JoinOfNone == Joined(<<<<>>>>) = <<>>
<1> DEFINE A == <<<<>>>>
<1>1. A \in Seq(Text) /\ Len(A) = 1 /\ A[1] = <<>>
  <2>1. <<>> \in Text  BY DEF Text
  <2> QED  BY <2>1
<1> HIDE DEF A
<1>2. PICK g : IsJoin(A, g) /\ Joined(A) = g[1]  BY <1>1, JoinUnfolds
<1>3. g[1] = <<>> \o <<>>  BY <1>1, <1>2 DEF IsJoin
<1>4. <<>> \o <<>> = <<>>  BY ConcatEmptySeq, EmptySeq
<1> QED  BY <1>2, <1>3, <1>4 DEF A

----------------------------------------------------------------------------
(* Parts of a line.                                                         *)

\* What is left of the line without its end are its first k characters.
IsEnd(s, W, k) ==
  /\ k \in 0..Len(s)
  /\ k > 0 => s[k] \notin W
  /\ \A j \in (k + 1)..Len(s) : s[j] \in W

\* Where the end of a line begins is determined.
LEMMA TrimmedIs ==
  ASSUME NEW s \in Text, NEW W, NEW k, IsEnd(s, W, k)
  PROVE  Trimmed(s, W) = SubSeq(s, 1, k)
<1> DEFINE c == CHOOSE l \in 0..Len(s) : /\ l > 0 => s[l] \notin W
                                         /\ \A j \in (l + 1)..Len(s) : s[j] \in W
<1>1. Len(s) \in Nat  BY LenProperties DEF Text
<1>2. /\ c \in 0..Len(s)
      /\ c > 0 => s[c] \notin W
      /\ \A j \in (c + 1)..Len(s) : s[j] \in W
  BY DEF IsEnd
<1>3. Trimmed(s, W) = SubSeq(s, 1, c)  BY DEF Trimmed
<1> HIDE DEF c
<1>4. ~(c < k)
  <2> SUFFICES ASSUME c < k  PROVE FALSE  OBVIOUS
  <2>1. k \in (c + 1)..Len(s) /\ k > 0  BY <1>1, <1>2 DEF IsEnd
  <2> QED  BY <1>2, <2>1 DEF IsEnd
<1>5. ~(k < c)
  <2> SUFFICES ASSUME k < c  PROVE FALSE  OBVIOUS
  <2>1. c \in (k + 1)..Len(s) /\ c > 0  BY <1>1, <1>2 DEF IsEnd
  <2> QED  BY <1>2, <2>1 DEF IsEnd
<1>6. c = k  BY <1>1, <1>2, <1>4, <1>5 DEF IsEnd
<1> QED  BY <1>3, <1>6

\* A line has an end that may be empty.
LEMMA EndExists ==
  ASSUME NEW s \in Text, NEW W
  PROVE  \E k : IsEnd(s, W, k)
<1> DEFINE T == {k \in 0..Len(s) : \A j \in (k + 1)..Len(s) : s[j] \in W}
<1>1. Len(s) \in Nat  BY LenProperties DEF Text
<1>2. T \subseteq Nat /\ Len(s) \in T  BY <1>1
<1>3. PICK k \in T : \A l \in T : k <= l
  <2> HIDE DEF T
  <2> QED  BY <1>2, LeastOf
<1>4. k \in 0..Len(s) /\ \A j \in (k + 1)..Len(s) : s[j] \in W  BY <1>3
<1>5. ASSUME k > 0, s[k] \in W  PROVE FALSE
  <2>1. ASSUME NEW j \in ((k - 1) + 1)..Len(s)  PROVE s[j] \in W
    <3>1. j = k \/ j \in (k + 1)..Len(s)  BY <1>1, <1>4
    <3> QED  BY <1>4, <1>5, <3>1
  <2>2. k - 1 \in 0..Len(s) /\ ~(k <= k - 1)  BY <1>1, <1>4, <1>5
  <2>3. k - 1 \in T  BY <2>1, <2>2
  <2> HIDE DEF T
  <2> QED  BY <1>3, <2>2, <2>3
<1>6. IsEnd(s, W, k)  BY <1>4, <1>5 DEF IsEnd
<1> QED  BY <1>6

\* The first k characters are the C string.
IsCString(s, k) ==
  /\ k \in 0..Len(s)
  /\ k < Len(s) => s[k + 1] = 0
  /\ \A j \in 1..k : s[j] # 0

\* A text has a C string in it.
LEMMA CStringIs ==
  ASSUME NEW s \in Text
  PROVE  \E k : IsCString(s, k) /\ CString(s) = SubSeq(s, 1, k)
<1> DEFINE T == {k \in 0..Len(s) : k < Len(s) => s[k + 1] = 0}
<1>1. Len(s) \in Nat  BY LenProperties DEF Text
<1>2. T \subseteq Nat /\ Len(s) \in T  BY <1>1
<1>3. PICK k \in T : \A l \in T : k <= l
  <2> HIDE DEF T
  <2> QED  BY <1>2, LeastOf
<1>4. k \in 0..Len(s) /\ (k < Len(s) => s[k + 1] = 0)  BY <1>3
<1>5. ASSUME NEW j \in 1..k  PROVE s[j] # 0
  <2>1. j - 1 \in 0..Len(s) /\ (j - 1) + 1 = j /\ ~(k <= j - 1)  BY <1>1, <1>4
  <2>2. j - 1 \notin T
    <3> HIDE DEF T
    <3> QED  BY <1>3, <2>1
  <2> QED  BY <2>1, <2>2
<1>6. \E l \in 0..Len(s) : /\ l < Len(s) => s[l + 1] = 0
                           /\ \A j \in 1..l : s[j] # 0
  BY <1>4, <1>5
<1> DEFINE c == CHOOSE l \in 0..Len(s) : /\ l < Len(s) => s[l + 1] = 0
                                         /\ \A j \in 1..l : s[j] # 0
<1>7. /\ c \in 0..Len(s)
      /\ c < Len(s) => s[c + 1] = 0
      /\ \A j \in 1..c : s[j] # 0
  BY <1>6
<1>8. CString(s) = SubSeq(s, 1, c)  BY DEF CString
<1> HIDE DEF c
<1> QED  BY <1>7, <1>8 DEF IsCString

NoLf(s) == \A j \in 1..Len(s) : s[j] # Lf

\* The first k characters.
LEMMA FirstOf ==
  ASSUME NEW s \in Text, NEW k \in 0..Len(s)
  PROVE  /\ SubSeq(s, 1, k) \in Text /\ Len(SubSeq(s, 1, k)) = k /\ k \in Nat
         /\ \A j \in 1..k : SubSeq(s, 1, k)[j] = s[j] /\ s[j] \in Int
<1>1. Len(s) \in Nat /\ k \in Nat /\ k \in Int  BY LenProperties DEF Text
<1>2. \A j \in 1..k : s[j] \in Int  BY <1>1, ElementOfSeq DEF Text
<1>3. /\ SubSeq(s, 1, k) \in Seq(Int) /\ Len(SubSeq(s, 1, k)) = IF 1 <= k THEN k - 1 + 1 ELSE 0
      /\ \A j \in 1..(k - 1 + 1) : SubSeq(s, 1, k)[j] = s[1 + j - 1]
  BY <1>1, <1>2, SubSeqProperties
<1> QED  BY <1>1, <1>2, <1>3 DEF Text

\* line is what has been read of the document: m with or without a line feed; one
\* without it fills the buffer or is the end of the document.
IsLine(line, m) ==
  /\ m \in Text /\ NoLf(m)
  /\ line = m \/ line = m \o <<Lf>>
  /\ Len(line) <= LineLen - 1 /\ docPos + Len(line) <= Len(doc)
  /\ SubSeq(doc, 1, docPos + Len(line)) = SubSeq(doc, 1, docPos) \o line
  /\ line = m => Len(m) = LineLen - 1 \/ docPos + Len(m) = Len(doc)

\* What cbgets returns is a line, or a part of one.
LEMMA CbGetsIs ==
  ASSUME doc \in Text, docPos \in 0..Len(doc)
  PROVE  \E m : IsLine(CbGets(LineLen), m)
<1> DEFINE rest == SubSeq(doc, docPos + 1, Len(doc))
           most == IF LineLen - 1 < Len(rest) THEN LineLen - 1 ELSE Len(rest)
           got == CHOOSE k \in 0..most : /\ k < most => k > 0 /\ rest[k] = Lf
                                         /\ \A j \in 1..(k - 1) : rest[j] # Lf
           line == SubSeq(rest, 1, got)
<1>1. CbGets(LineLen) = line  BY DEF CbGets
<1>2. Len(doc) \in Nat /\ docPos \in Nat /\ LineLen \in Nat \ {0}
  BY LenProperties, SignAssumption DEF Text
<1>3. /\ rest \in Text /\ Len(rest) = Len(doc) - docPos /\ Len(rest) \in Nat
      /\ \A i \in 1..Len(rest) : rest[i] = doc[docPos + i]
  <2>1. \A i \in (docPos + 1)..Len(doc) : doc[i] \in Int  BY <1>2, ElementOfSeq DEF Text
  <2>2. /\ rest \in Text
        /\ Len(rest) = IF docPos + 1 <= Len(doc) THEN Len(doc) - (docPos + 1) + 1 ELSE 0
        /\ \A i \in 1..(Len(doc) - (docPos + 1) + 1) : rest[i] = doc[(docPos + 1) + i - 1]
    BY <1>2, <2>1, SubSeqProperties DEF Text
  <2> HIDE DEF rest
  <2>3. Len(rest) = Len(doc) - docPos  BY <1>2, <2>2
  <2> QED  BY <1>2, <2>2, <2>3
<1> HIDE DEF rest
<1>4. most \in Nat /\ most <= Len(rest) /\ most <= LineLen - 1
      /\ (most = LineLen - 1 \/ most = Len(rest))
  BY <1>2, <1>3
<1> HIDE DEF most
<1>5. /\ got \in 0..most
      /\ got < most => got > 0 /\ rest[got] = Lf
      /\ \A j \in 1..(got - 1) : rest[j] # Lf
  <2> DEFINE T == {k \in 0..most : k < most => k > 0 /\ rest[k] = Lf}
  <2>1. T \subseteq Nat /\ most \in T  BY <1>4
  <2>2. PICK k \in T : \A l \in T : k <= l
    <3> HIDE DEF T
    <3> QED  BY <2>1, LeastOf
  <2>3. k \in 0..most /\ (k < most => k > 0 /\ rest[k] = Lf)  BY <2>2
  <2>4. ASSUME NEW j \in 1..(k - 1)  PROVE rest[j] # Lf
    <3>1. j \in 0..most /\ j < most /\ j > 0 /\ ~(k <= j)  BY <1>4, <2>3
    <3>2. j \notin T
      <4> HIDE DEF T
      <4> QED  BY <2>2, <3>1
    <3> QED  BY <3>1, <3>2
  <2>5. \E l \in 0..most : /\ l < most => l > 0 /\ rest[l] = Lf
                           /\ \A j \in 1..(l - 1) : rest[j] # Lf
    BY <2>3, <2>4
  <2> QED  BY <2>5
<1> HIDE DEF got
<1>6. got \in 0..Len(rest) /\ got \in Nat  BY <1>3, <1>4, <1>5
<1>7. line \in Text /\ Len(line) = got /\ \A j \in 1..got : line[j] = rest[j]
  BY <1>3, <1>6, FirstOf
<1> HIDE DEF line
<1>8. SubSeq(doc, 1, docPos + got) = SubSeq(doc, 1, docPos) \o line
  <2> DEFINE p == SubSeq(doc, 1, docPos)
             q == SubSeq(doc, 1, docPos + got)
  <2>1. docPos + got \in 0..Len(doc)  BY <1>2, <1>3, <1>6
  <2>2. p \in Text /\ Len(p) = docPos /\ \A j \in 1..docPos : p[j] = doc[j]  BY FirstOf
  <2>3. q \in Text /\ Len(q) = docPos + got /\ \A j \in 1..(docPos + got) : q[j] = doc[j]
    BY <2>1, FirstOf
  <2> HIDE DEF p, q
  <2>4. /\ p \o line \in Text /\ Len(p \o line) = docPos + got
        /\ \A i \in 1..(docPos + got) : (p \o line)[i] = IF i <= docPos THEN p[i] ELSE line[i - docPos]
    BY <1>7, <2>2, ConcatProperties DEF Text
  <2>5. ASSUME NEW i \in 1..(docPos + got)  PROVE (p \o line)[i] = q[i]
    <3>1. CASE i <= docPos
      <4>1. i \in 1..docPos  BY <1>2, <3>1
      <4> QED  BY <2>2, <2>3, <2>4, <3>1, <4>1
    <3>2. CASE ~(i <= docPos)
      <4>1. i - docPos \in 1..got /\ docPos + (i - docPos) = i /\ i - docPos \in 1..Len(rest)
        BY <1>2, <1>6, <3>2
      <4>2. line[i - docPos] = doc[i]  BY <1>3, <1>7, <4>1
      <4> QED  BY <2>3, <2>4, <3>2, <4>2
    <3> QED  BY <3>1, <3>2
  <2>6. p \o line = q
    <3> DEFINE r == p \o line
    <3> HIDE DEF r
    <3>1. r \in Text /\ Len(r) = Len(q) /\ \A i \in 1..Len(r) : r[i] = q[i]
      BY <2>3, <2>4, <2>5 DEF r
    <3>2. r = q  BY <2>3, <3>1, SeqEqual DEF Text
    <3> QED  BY <3>2 DEF r
  <2> QED  BY <2>6 DEF p, q
<1>9. CASE got > 0 /\ rest[got] = Lf
  <2> DEFINE m == SubSeq(rest, 1, got - 1)
  <2>1. got - 1 \in 0..Len(rest) /\ got - 1 \in 0..(Len(rest) - 1) /\ (got - 1) + 1 = got
    BY <1>6, <1>9
  <2>2. m \in Text /\ Len(m) = got - 1 /\ \A j \in 1..(got - 1) : m[j] = rest[j]
    BY <1>3, <2>1, FirstOf
  <2>3. SubSeq(rest, 1, got) = Append(m, rest[got])
    BY <1>3, <2>1, OneMore
  <2> HIDE DEF m
  <2>4. line = m \o <<Lf>>
    <3>1. Append(m, Lf) = m \o <<Lf>>  BY <2>2, AppendIsConcat DEF Text, Lf
    <3> QED  BY <1>9, <2>3, <3>1 DEF line
  <2>5. NoLf(m)  BY <1>5, <2>2 DEF NoLf
  <2>6. line # m  BY <1>7, <2>2, <1>6
  <2>7. Len(line) <= LineLen - 1 /\ docPos + Len(line) <= Len(doc)
    BY <1>2, <1>3, <1>4, <1>5, <1>7
  <2>8. SubSeq(doc, 1, docPos + Len(line)) = SubSeq(doc, 1, docPos) \o line  BY <1>7, <1>8
  <2>9. IsLine(line, m)
    BY <2>2, <2>4, <2>5, <2>6, <2>7, <2>8 DEF IsLine
  <2> QED  BY <1>1, <2>9
<1>10. CASE ~(got > 0 /\ rest[got] = Lf)
  <2>1. got = most  BY <1>4, <1>5, <1>10
  <2>2. NoLf(line)
    <3> SUFFICES ASSUME NEW j \in 1..got  PROVE line[j] # Lf  BY <1>7 DEF NoLf
    <3>1. j = got \/ j \in 1..(got - 1)  BY <1>6
    <3> QED  BY <1>5, <1>7, <1>10, <3>1, <1>6
  <2>3. Len(line) = LineLen - 1 \/ docPos + Len(line) = Len(doc)
    BY <1>2, <1>3, <1>4, <1>7, <2>1
  <2>4. IsLine(line, line)
    BY <1>2, <1>3, <1>4, <1>6, <1>7, <1>8, <2>1, <2>2, <2>3 DEF IsLine
  <2> QED  BY <1>1, <2>4
<1> QED  BY <1>9, <1>10

----------------------------------------------------------------------------
\* The white space that a line loses, that a reader does not count, and that may
\* be at the end of a line of the document.
Whites == {Blank, 9, Cr, Lf}
ReaderWhites == {Blank, 9}
LineWhites == {Blank, 9, Cr}

\* A line of the signed text has no white space at its end and no line feed.
IsPlain(t) ==
  /\ t \in Text /\ NoLf(t)
  /\ t # <<>> => t[Len(t)] \notin Whites

\* The canonical form of a line has no white space at its end, and is that of the
\* document when the line has no '\0' in it.
LEMMA CanonOfLine ==
  ASSUME NEW line, NEW m \in Text, NoLf(m), line = m \/ line = m \o <<Lf>>
  PROVE  /\ IsPlain(Trimmed(CString(line), Whites))
         /\ CString(m) = m =>
              Trimmed(CString(line), Whites) = Trimmed(m, LineWhites)
<1>1. <<Lf>> \in Text /\ Len(<<Lf>>) = 1 /\ <<Lf>>[1] = Lf /\ Len(m) \in Nat
  BY LenProperties DEF Text, Lf
<1>2. /\ line \in Text /\ Len(line) \in Nat
      /\ Len(line) = Len(m) \/ (Len(line) = Len(m) + 1 /\ line[Len(m) + 1] = Lf)
      /\ \A j \in 1..Len(m) : line[j] = m[j]
  <2>1. CASE line = m  BY <1>1, <2>1
  <2>2. CASE line = m \o <<Lf>>
    <3>1. /\ line \in Text /\ Len(line) = Len(m) + 1
          /\ \A i \in 1..(Len(m) + 1) : line[i] = IF i <= Len(m) THEN m[i] ELSE <<Lf>>[i - Len(m)]
      BY <1>1, <2>2, ConcatProperties DEF Text
    <3>2. \A j \in 1..Len(m) : line[j] = m[j]
      <4> TAKE j \in 1..Len(m)
      <4>1. j \in 1..(Len(m) + 1) /\ j <= Len(m)  BY <1>1
      <4> QED  BY <3>1, <4>1
    <3>3. line[Len(m) + 1] = Lf
      <4>1. Len(m) + 1 \in 1..(Len(m) + 1) /\ ~(Len(m) + 1 <= Len(m)) /\ (Len(m) + 1) - Len(m) = 1
        BY <1>1
      <4> QED  BY <1>1, <3>1, <4>1
    <3> QED  BY <1>1, <3>1, <3>2, <3>3
  <2> QED  BY <2>1, <2>2
<1>3. PICK k : IsCString(line, k) /\ CString(line) = SubSeq(line, 1, k)  BY <1>2, CStringIs
<1> DEFINE c == CString(line)
<1>4. c \in Text /\ Len(c) = k /\ k \in 0..Len(line) /\ k \in Nat
      /\ \A j \in 1..k : c[j] = line[j]
  <2>1. k \in 0..Len(line)  BY <1>3 DEF IsCString
  <2> QED  BY <1>2, <1>3, <2>1, FirstOf
<1> HIDE DEF c
<1>5. PICK e : IsEnd(c, Whites, e)  BY <1>4, EndExists
<1> DEFINE t == Trimmed(c, Whites)
<1>6. t = SubSeq(c, 1, e)  BY <1>4, <1>5, TrimmedIs
<1>7. e \in 0..k /\ e \in Nat  BY <1>4, <1>5 DEF IsEnd
<1>8. t \in Text /\ Len(t) = e /\ \A j \in 1..e : t[j] = c[j]
  BY <1>4, <1>6, <1>7, FirstOf
<1> HIDE DEF t
<1>9. t # <<>> => t[Len(t)] \notin Whites
  <2> SUFFICES ASSUME t # <<>>  PROVE t[Len(t)] \notin Whites  OBVIOUS
  <2>1. e > 0 /\ e \in 1..e
    <3>1. Len(t) \in Nat \ {0}  BY <1>8, EmptySeq DEF Text
    <3> QED  BY <1>7, <1>8, <3>1
  <2>2. c[e] \notin Whites  BY <1>5, <2>1 DEF IsEnd
  <2> QED  BY <1>8, <2>1, <2>2
<1>10. NoLf(t)
  <2> SUFFICES ASSUME NEW j \in 1..e  PROVE t[j] # Lf  BY <1>8 DEF NoLf
  <2>1. t[j] = line[j] /\ j \in 1..k /\ j \in 1..Len(line)  BY <1>2, <1>4, <1>7, <1>8
  <2>2. CASE j \in 1..Len(m)  BY <1>2, <2>1, <2>2 DEF NoLf
  <2>3. CASE j \notin 1..Len(m)
    <3>1. j = Len(line) /\ j = e  BY <1>1, <1>2, <1>4, <1>7, <2>1, <2>3
    <3>2. e > 0 /\ c[e] \notin Whites  BY <1>5, <3>1, <2>1 DEF IsEnd
    <3>3. t[j] \notin Whites  BY <1>8, <3>1, <3>2
    <3> QED  BY <3>3 DEF Whites
  <2> QED  BY <2>2, <2>3
<1>11. IsPlain(t)  BY <1>8, <1>9, <1>10 DEF IsPlain
<1>12. ASSUME CString(m) = m  PROVE t = Trimmed(m, LineWhites)
  <2>1. PICK z : IsCString(m, z) /\ CString(m) = SubSeq(m, 1, z)  BY CStringIs
  <2>2. z = Len(m)
    <3>1. z \in 0..Len(m)  BY <2>1 DEF IsCString
    <3>2. Len(SubSeq(m, 1, z)) = z  BY <3>1, FirstOf
    <3> QED  BY <1>12, <2>1, <3>2
  <2>3. \A j \in 1..Len(m) : m[j] # 0  BY <2>1, <2>2 DEF IsCString
  <2>4. k = Len(line)
    <3> SUFFICES ASSUME k < Len(line)  PROVE FALSE  BY <1>2, <1>4
    <3>1. line[k + 1] = 0 /\ k + 1 \in 1..Len(line)  BY <1>2, <1>3, <1>4 DEF IsCString
    <3>2. CASE k + 1 \in 1..Len(m)  BY <1>2, <2>3, <3>1, <3>2
    <3>3. CASE k + 1 \notin 1..Len(m)
      <4>1. k + 1 = Len(m) + 1 /\ line[Len(m) + 1] = Lf  BY <1>1, <1>2, <1>4, <3>1, <3>3
      <4> QED  BY <3>1, <4>1 DEF Lf
    <3> QED  BY <3>2, <3>3
  <2>5. e \in 0..Len(m)
    <3> SUFFICES ASSUME ~(e <= Len(m))  PROVE FALSE  BY <1>1, <1>7
    <3>1. e = Len(m) + 1 /\ e = Len(line) /\ line[e] = Lf /\ e \in 1..k  BY <1>1, <1>2, <1>4, <1>7, <2>4
    <3>2. e > 0 /\ c[e] = Lf  BY <1>1, <1>4, <3>1
    <3>3. c[e] \notin Whites  BY <1>5, <3>2 DEF IsEnd
    <3> QED  BY <3>2, <3>3 DEF Whites
  <2>6. IsEnd(m, LineWhites, e)
    <3>1. ASSUME e > 0  PROVE m[e] \notin LineWhites
      <4>1. e \in 1..Len(m) /\ e \in 1..k  BY <1>7, <2>5, <3>1
      <4>2. c[e] = m[e]  BY <1>2, <1>4, <4>1
      <4>3. c[e] \notin Whites  BY <1>5, <3>1 DEF IsEnd
      <4> QED  BY <4>2, <4>3 DEF Whites, LineWhites
    <3>2. ASSUME NEW j \in (e + 1)..Len(m)  PROVE m[j] \in LineWhites
      <4>1. j \in 1..Len(m) /\ j \in (e + 1)..Len(c) /\ j \in 1..k
        BY <1>1, <1>2, <1>4, <1>7, <2>4, <2>5
      <4>2. c[j] = m[j]  BY <1>2, <1>4, <4>1
      <4>3. c[j] \in Whites  BY <1>5, <4>1 DEF IsEnd
      <4>4. m[j] # Lf  BY <4>1 DEF NoLf
      <4> QED  BY <4>2, <4>3, <4>4 DEF Whites, LineWhites
    <3> QED  BY <2>5, <3>1, <3>2 DEF IsEnd
  <2>7. Trimmed(m, LineWhites) = SubSeq(m, 1, e)  BY <2>6, TrimmedIs
  <2>8. SubSeq(m, 1, e) \in Text /\ Len(SubSeq(m, 1, e)) = e
        /\ \A j \in 1..e : SubSeq(m, 1, e)[j] = m[j]
    BY <2>5, FirstOf
  <2> DEFINE u == SubSeq(m, 1, e)
  <2> HIDE DEF u
  <2>9. \A j \in 1..e : t[j] = u[j]
    <3> TAKE j \in 1..e
    <3>1. j \in 1..k /\ j \in 1..Len(m)  BY <1>1, <1>4, <1>7, <2>5
    <3> QED  BY <1>2, <1>4, <1>8, <2>8, <3>1 DEF u
  <2>10. t = u  BY <1>8, <2>8, <2>9, SeqEqual DEF u, Text
  <2> QED  BY <2>7, <2>10 DEF u
<1> QED  BY <1>11, <1>12 DEF t, c

Escaped(t) == IF t # <<>> /\ t[1] = Dash THEN <<Dash, Blank>> \o t ELSE t

\* The length of a text.
LEMMA TextIs ==
  ASSUME NEW t \in Text
  PROVE  /\ Len(t) \in Nat /\ DOMAIN t = 1..Len(t)
         /\ t # <<>> <=> Len(t) > 0
         /\ \A j \in 1..Len(t) : t[j] \in Int
<1>1. Len(t) \in Nat /\ DOMAIN t = 1..Len(t)  BY LenProperties DEF Text
<1>2. t # <<>> => Len(t) \in Nat \ {0}  BY EmptySeq DEF Text
<1>3. t = <<>> => Len(t) = 0  BY EmptySeq
<1>4. \A j \in 1..Len(t) : t[j] \in Int  BY ElementOfSeq DEF Text
<1> QED  BY <1>1, <1>2, <1>3, <1>4

\* A reader takes off the escape that was put on.
LEMMA EscapedIs ==
  ASSUME NEW t \in Text, NoLf(t)
  PROVE  /\ Escaped(t) \in Text /\ NoLf(Escaped(t))
         /\ Unescaped(Escaped(t)) = t
<1>1. Len(t) \in Nat /\ (t # <<>> <=> Len(t) > 0)  BY TextIs
<1> DEFINE d == <<Dash, Blank>>
<1>2. d \in Text /\ Len(d) = 2 /\ d[1] = Dash /\ d[2] = Blank  BY DEF Text, Dash, Blank
<1>3. SubSeq(d, 1, 2) = d  BY <1>2, SubSeqFull DEF Text
<1> HIDE DEF d
<1>4. CASE t # <<>> /\ t[1] = Dash
  <2> DEFINE u == d \o t
  <2>1. Escaped(t) = u  BY <1>4 DEF Escaped, d
  <2>2. /\ u \in Text /\ Len(u) = Len(t) + 2
        /\ \A i \in 1..(2 + Len(t)) : u[i] = IF i <= 2 THEN d[i] ELSE t[i - 2]
    <3>0. d \in Text /\ 2 \in Nat /\ Len(t) \in Nat /\ Len(d) = 2  BY <1>1, <1>2
    <3>1. /\ u \in Text /\ Len(u) = 2 + Len(t)
          /\ \A i \in 1..(2 + Len(t)) : u[i] = IF i <= 2 THEN d[i] ELSE t[i - 2]
      <4>1. IsConcat(u, d, t, 2, Len(t))  BY <3>0, ConcatHas
      <4> QED  BY <4>1 DEF IsConcat
    <3> QED  BY <1>1, <3>1
  <2> HIDE DEF u
  <2>3. NoLf(u)
    <3> SUFFICES ASSUME NEW j \in 1..(2 + Len(t))  PROVE u[j] # Lf
      BY <1>1, <2>2 DEF NoLf
    <3>1. CASE j <= 2
      <4>1. j = 1 \/ j = 2  BY <1>1, <3>1
      <4> QED  BY <1>2, <2>2, <3>1, <4>1 DEF Lf, Dash, Blank
    <3>2. CASE ~(j <= 2)
      <4>1. j - 2 \in 1..Len(t)  BY <1>1, <3>2
      <4> QED  BY <2>2, <3>2, <4>1 DEF NoLf
    <3> QED  BY <3>1, <3>2
  <2>4. SubSeq(u, 1, 2) = d
    <3>1. 2 \in 0..Len(u)  BY <1>1, <2>2
    <3>2. SubSeq(u, 1, 2) \in Text /\ Len(SubSeq(u, 1, 2)) = 2
          /\ \A j \in 1..2 : SubSeq(u, 1, 2)[j] = u[j]
      BY <2>2, <3>1, FirstOf
    <3>3. \A j \in 1..2 : SubSeq(u, 1, 2)[j] = d[j]  BY <1>1, <2>2, <3>2
    <3> QED  BY <1>2, <3>2, <3>3, SeqEqual DEF Text
  <2>5. SubSeq(u, 3, Len(u)) = t
    <3> DEFINE v == SubSeq(u, 3, Len(u))
    <3>1. \A i \in 3..Len(u) : u[i] \in Int  BY <1>1, <2>2, TextIs
    <3>2. 3 \in Int /\ Len(u) \in Int  BY <1>1, <2>2
    <3>3. /\ v \in Text /\ Len(v) = IF 3 <= Len(u) THEN Len(u) - 3 + 1 ELSE 0
          /\ \A i \in 1..(Len(u) - 3 + 1) : v[i] = u[3 + i - 1]
      BY <3>1, <3>2, SubSeqProperties DEF Text
    <3> HIDE DEF v
    <3>4. Len(v) = Len(t)  BY <1>1, <2>2, <3>3
    <3>5. ASSUME NEW i \in 1..Len(t)  PROVE v[i] = t[i]
      <4>1. i \in 1..(Len(u) - 3 + 1) /\ 3 + i - 1 = i + 2  BY <1>1, <2>2
      <4>2. i + 2 \in 1..(2 + Len(t)) /\ ~(i + 2 <= 2) /\ (i + 2) - 2 = i  BY <1>1
      <4> QED  BY <2>2, <3>3, <4>1, <4>2
    <3>6. v = t  BY <3>3, <3>4, <3>5, SeqEqual DEF Text
    <3> QED  BY <3>6 DEF v
  <2>6. IsPrefix(d, u)
    <3>1. Len(d) <= Len(u)  BY <1>1, <1>2, <2>2
    <3> QED  BY <1>2, <1>3, <2>4, <3>1 DEF IsPrefix
  <2> QED  BY <2>1, <2>2, <2>3, <2>5, <2>6 DEF Unescaped, d
<1>5. CASE ~(t # <<>> /\ t[1] = Dash)
  <2>1. Escaped(t) = t  BY <1>5 DEF Escaped
  <2>2. ~IsPrefix(d, t)
    <3> SUFFICES ASSUME IsPrefix(d, t)  PROVE FALSE  OBVIOUS
    <3>1. 2 <= Len(t) /\ SubSeq(t, 1, 2) = d  BY <1>2, <1>3 DEF IsPrefix
    <3>2. 2 \in 0..Len(t)  BY <1>1, <3>1
    <3>3. \A j \in 1..2 : SubSeq(t, 1, 2)[j] = t[j]  BY <3>2, FirstOf
    <3>4. t[1] = Dash  BY <1>2, <3>1, <3>3
    <3> QED  BY <1>1, <1>5, <3>1, <3>4
  <2> QED  BY <2>1, <2>2 DEF Unescaped, d
<1> QED  BY <1>4, <1>5

\* What is written for a line.
LEMMA DashEscLineIs ==
  ASSUME NEW t \in Text
  PROVE  DashEscLine(t \o <<Cr, Lf>>) = Escaped(t) \o <<Lf>>
<1> DEFINE w == <<Cr, Lf>>
           z == <<Lf>>
           d == <<Dash, Blank>>
           canon == t \o w
<1>1. w \in Text /\ Len(w) = 2 /\ z \in Text /\ Len(z) = 1 /\ z[1] = Lf /\ d \in Text
  BY DEF Text, Cr, Lf, Dash, Blank
<1> HIDE DEF w, z, d
<1>2. Len(t) \in Nat /\ (t # <<>> <=> Len(t) > 0)  BY TextIs
<1>3. /\ canon \in Text /\ Len(canon) = Len(t) + 2
      /\ \A i \in 1..(Len(t) + 2) : canon[i] = IF i <= Len(t) THEN t[i] ELSE w[i - Len(t)]
  <2>1. IsConcat(canon, t, w, Len(t), 2)  BY <1>1, ConcatHas
  <2> QED  BY <2>1 DEF IsConcat
<1>4. SubSeq(canon, 1, Len(canon) - 2) = t
  <2>1. Len(canon) - 2 = Len(t) /\ Len(t) \in 0..Len(canon)  BY <1>2, <1>3
  <2> HIDE DEF canon
  <2>2. /\ SubSeq(canon, 1, Len(t)) \in Text /\ Len(SubSeq(canon, 1, Len(t))) = Len(t)
        /\ \A j \in 1..Len(t) : SubSeq(canon, 1, Len(t))[j] = canon[j]
    BY <1>3, <2>1, FirstOf
  <2>3. \A j \in 1..Len(t) : SubSeq(canon, 1, Len(t))[j] = t[j]
    <3> TAKE j \in 1..Len(t)
    <3>1. j \in 1..(Len(t) + 2) /\ j <= Len(t)  BY <1>2
    <3> QED  BY <1>3, <2>2, <3>1
  <2>4. SubSeq(canon, 1, Len(t)) = t  BY <2>2, <2>3, SeqEqual DEF Text
  <2> QED  BY <2>1, <2>4
<1> HIDE DEF canon
<1> DEFINE line == t \o z
<1>5. /\ Len(line) = Len(t) + 1
      /\ \A i \in 1..(Len(t) + 1) : line[i] = IF i <= Len(t) THEN t[i] ELSE z[i - Len(t)]
  <2>1. IsConcat(line, t, z, Len(t), 1)  BY <1>1, ConcatHas
  <2> QED  BY <2>1 DEF IsConcat
<1>6. DashEscLine(canon) = IF line[1] = Dash THEN d \o line ELSE line
  BY <1>4 DEF DashEscLine, z, d
<1>7. CASE t = <<>>
  <2>1. line[1] = z[1]  BY <1>2, <1>5, <1>7
  <2>2. line[1] # Dash  BY <1>1, <2>1 DEF Lf, Dash
  <2>3. Escaped(t) = t  BY <1>7 DEF Escaped
  <2> QED  BY <1>6, <2>2, <2>3 DEF canon, w, z
<1>8. CASE t # <<>>
  <2>1. line[1] = t[1]  BY <1>2, <1>5, <1>8
  <2>2. d \o line = (d \o t) \o z  BY <1>1, ConcatOfTexts
  <2> HIDE DEF line
  <2>3. CASE t[1] = Dash
    <3>1. Escaped(t) = d \o t  BY <1>8, <2>3 DEF Escaped, d
    <3> QED  BY <1>6, <2>1, <2>2, <2>3, <3>1 DEF canon, w, z
  <2>4. CASE t[1] # Dash
    <3>1. Escaped(t) = t  BY <2>4 DEF Escaped
    <3> QED  BY <1>6, <2>1, <2>4, <3>1 DEF canon, w, z, line
  <2> QED  BY <2>3, <2>4
<1> QED  BY <1>7, <1>8

\* A reader does not take anything from a line that has no white space at its end.
LEMMA PlainIsKept ==
  ASSUME NEW t, IsPlain(t)
  PROVE  Trimmed(t, ReaderWhites) = t
<1>1. t \in Text /\ Len(t) \in Nat /\ (t # <<>> <=> Len(t) > 0)  BY TextIs DEF IsPlain
<1>2. IsEnd(t, ReaderWhites, Len(t))
  BY <1>1 DEF IsEnd, IsPlain, Whites, ReaderWhites
<1>3. Trimmed(t, ReaderWhites) = SubSeq(t, 1, Len(t))  BY <1>1, <1>2, TrimmedIs
<1> QED  BY <1>1, <1>3, SubSeqFull DEF Text

\* What is left of a line is a text.
LEMMA TrimmedIsText ==
  ASSUME NEW s \in Text, NEW W
  PROVE  Trimmed(s, W) \in Text
<1>1. PICK k : IsEnd(s, W, k)  BY EndExists
<1>2. k \in 0..Len(s)  BY <1>1 DEF IsEnd
<1>3. SubSeq(s, 1, k) \in Text  BY <1>2, FirstOf
<1> QED  BY <1>1, <1>3, TrimmedIs

\* What an escape is taken off from is a text.
LEMMA UnescapedIsText ==
  ASSUME NEW s \in Text
  PROVE  Unescaped(s) \in Text
<1>1. \A i \in 3..Len(s) : s[i] \in Int  BY TextIs
<1>2. SubSeq(s, 3, Len(s)) \in Text
  <2>1. 3 \in Int /\ Len(s) \in Int  BY TextIs
  <2> QED  BY <1>1, <2>1, SubSeqProperties DEF Text
<1> QED  BY <1>2 DEF Unescaped

\* An empty line stays empty.
LEMMA NothingIsNothing == Unescaped(<<>>) = <<>> /\ \A W : Trimmed(<<>>, W) = <<>>
<1>1. <<>> \in Text /\ Len(<<>>) = 0  BY DEF Text
<1>2. Unescaped(<<>>) = <<>>
  <2>1. Escaped(<<>>) = <<>> /\ NoLf(<<>>)  BY <1>1 DEF Escaped, NoLf
  <2> QED  BY <1>1, <2>1, EscapedIs
<1>3. ASSUME NEW W  PROVE Trimmed(<<>>, W) = <<>>
  <2>1. IsEnd(<<>>, W, 0)  BY <1>1 DEF IsEnd
  <2>2. Trimmed(<<>>, W) = SubSeq(<<>>, 1, 0)  BY <1>1, <2>1, TrimmedIs
  <2> QED  BY <2>2, SubSeqEmpty
<1> QED  BY <1>2, <1>3

\* What goes into the hash, line by line.
CanonicalLines(body) ==
  LET lines == ReadLines(body) IN [k \in DOMAIN lines |-> Trimmed(lines[k], ReaderWhites)]

\* A reader has as many lines as were written.
LEMMA ReadLinesAre ==
  ASSUME NEW body \in Text
  PROVE  LET lines == SplitLines(body)
             read == ReadLines(body)
             canon == CanonicalLines(body)
         IN /\ read \in Seq(Text) /\ Len(read) = Len(lines)
            /\ canon \in Seq(Text) /\ Len(canon) = Len(lines)
            /\ \A k \in 1..Len(lines) : /\ read[k] = Unescaped(lines[k])
                                        /\ canon[k] = Trimmed(read[k], ReaderWhites)
            /\ Canonical(body) = Joined(canon)
<1> DEFINE lines == SplitLines(body)
           read == ReadLines(body)
           canon == CanonicalLines(body)
           n == Len(lines)
<1>1. lines \in LineLists  BY SplitIs
<1>2. lines \in Seq(Text) /\ n \in Nat /\ \A k \in 1..n : lines[k] \in Text
  BY <1>1, LinesAre
<1>3. DOMAIN lines = 1..n  BY <1>2, LenProperties
<1>4. read = [k \in 1..n |-> Unescaped(lines[k])]  BY <1>3 DEF ReadLines
<1>5. \A k \in 1..n : Unescaped(lines[k]) \in Text  BY <1>2, UnescapedIsText
<1> HIDE DEF read, lines, n
<1>6. read \in Seq(Text)
  <2>1. [k \in 1..n |-> Unescaped(lines[k])] \in Seq(Text)  BY <1>2, <1>5, IsASeq
  <2> QED  BY <1>4, <2>1
<1>7. DOMAIN read = 1..n /\ Len(read) = n /\ \A k \in 1..n : read[k] = Unescaped(lines[k])
  <2>1. DOMAIN read = 1..n /\ \A k \in 1..n : read[k] = Unescaped(lines[k])  BY <1>4
  <2>2. DOMAIN read = 1..Len(read) /\ Len(read) \in Nat  BY <1>6, LenProperties
  <2> QED  BY <1>2, <2>1, <2>2
<1>8. canon = [k \in 1..n |-> Trimmed(read[k], ReaderWhites)]
  BY <1>7 DEF CanonicalLines, read
<1>9. \A k \in 1..n : Trimmed(read[k], ReaderWhites) \in Text
  BY <1>5, <1>7, TrimmedIsText
<1>10. Canonical(body) = Joined(canon)
  BY DEF Canonical, CanonicalLines, canon, ReaderWhites
<1> HIDE DEF canon
<1>11. canon \in Seq(Text)
  <2>1. [k \in 1..n |-> Trimmed(read[k], ReaderWhites)] \in Seq(Text)  BY <1>2, <1>9, IsASeq
  <2> QED  BY <1>8, <2>1
<1>12. Len(canon) = n /\ \A k \in 1..n : canon[k] = Trimmed(read[k], ReaderWhites)
  <2>1. DOMAIN canon = 1..n /\ \A k \in 1..n : canon[k] = Trimmed(read[k], ReaderWhites)  BY <1>8
  <2>2. DOMAIN canon = 1..Len(canon) /\ Len(canon) \in Nat  BY <1>11, LenProperties
  <2> QED  BY <1>2, <2>1, <2>2
<1> QED  BY <1>6, <1>7, <1>10, <1>11, <1>12 DEF lines, read, canon, n

\* All lines but the last one, and one more.
LEMMA FrontGrows ==
  ASSUME NEW n \in Nat, NEW A \in Seq(Text), NEW B \in Seq(Text), NEW t \in Text,
         Len(A) = n + 1, Len(B) = n + 2, \A k \in 1..n : B[k] = A[k], B[n + 1] = t
  PROVE  Front(B) = Append(Front(A), t)
<1> DEFINE F == SubSeq(A, 1, n)
           G == SubSeq(B, 1, n + 1)
           H == Append(F, t)
<1>1. Front(A) = F /\ Front(B) = G
  <2>1. Len(A) - 1 = n /\ Len(B) - 1 = n + 1  OBVIOUS
  <2> QED  BY <2>1 DEF Front
<1>2. F \in Seq(Text) /\ Len(F) = n /\ \A k \in 1..n : F[k] = A[k]
  <2>1. \A k \in 1..n : A[k] \in Text
    <3> TAKE k \in 1..n
    <3>1. k \in 1..Len(A)  OBVIOUS
    <3> QED  BY <3>1, ElementOfSeq
  <2>2. 1 \in Int /\ n \in Int  OBVIOUS
  <2>3. /\ F \in Seq(Text) /\ Len(F) = IF 1 <= n THEN n - 1 + 1 ELSE 0
        /\ \A k \in 1..(n - 1 + 1) : F[k] = A[1 + k - 1]
    BY <2>1, <2>2, SubSeqProperties
  <2> HIDE DEF F
  <2> QED  BY <2>3
<1>3. G \in Seq(Text) /\ Len(G) = n + 1 /\ \A k \in 1..(n + 1) : G[k] = B[k]
  <2> DEFINE m == n + 1
  <2>1. \A k \in 1..m : B[k] \in Text
    <3> TAKE k \in 1..m
    <3>1. k \in 1..Len(B)  OBVIOUS
    <3> QED  BY <3>1, ElementOfSeq
  <2>2. 1 \in Int /\ m \in Int /\ m \in Nat  OBVIOUS
  <2> HIDE DEF m
  <2>3. /\ SubSeq(B, 1, m) \in Seq(Text) /\ Len(SubSeq(B, 1, m)) = IF 1 <= m THEN m - 1 + 1 ELSE 0
        /\ \A k \in 1..(m - 1 + 1) : SubSeq(B, 1, m)[k] = B[1 + k - 1]
    BY <2>1, <2>2, SubSeqProperties
  <2>4. SubSeq(B, 1, m) \in Seq(Text) /\ Len(SubSeq(B, 1, m)) = m
        /\ \A k \in 1..m : SubSeq(B, 1, m)[k] = B[k]
    BY <2>2, <2>3
  <2> QED  BY <2>4 DEF m
<1> HIDE DEF F, G
<1>4. /\ H \in Seq(Text) /\ Len(H) = n + 1 /\ H[n + 1] = t
      /\ \A k \in 1..n : H[k] = F[k]
  BY <1>2, AppendProperties
<1> HIDE DEF H
<1>5. \A k \in 1..(n + 1) : G[k] = H[k]
  <2> TAKE k \in 1..(n + 1)
  <2>1. k = n + 1 \/ k \in 1..n  OBVIOUS
  <2> QED  BY <1>2, <1>3, <1>4, <2>1
<1>6. G = H  BY <1>3, <1>4, <1>5, SeqEqual
<1> QED  BY <1>1, <1>6 DEF H

\* A line that has been written is read as it was.
LEMMA ReadOneMore ==
  ASSUME NEW body \in Text, Last(SplitLines(body)) = <<>>, NEW t, IsPlain(t)
  PROVE  LET new == body \o (Escaped(t) \o <<Lf>>)
         IN /\ Last(SplitLines(new)) = <<>>
            /\ Canonical(new) = Canonical(body) \o (t \o Crlf)
            /\ Front(ReadLines(new)) = Append(Front(ReadLines(body)), t)
<1> DEFINE new == body \o (Escaped(t) \o <<Lf>>)
           L == SplitLines(body)
           M == SplitLines(new)
           n == Len(L) - 1
<1>1. t \in Text /\ NoLf(t)  BY DEF IsPlain
<1>2. Escaped(t) \in Text /\ NoLf(Escaped(t)) /\ Unescaped(Escaped(t)) = t  BY <1>1, EscapedIs
<1>3. new \in Text
  <2>1. <<Lf>> \in Text  BY DEF Text, Lf
  <2>2. Escaped(t) \o <<Lf>> \in Text  BY <1>2, <2>1, ConcatProperties DEF Text
  <2> QED  BY <2>2, ConcatProperties DEF Text
<1>4. /\ M \in LineLists /\ Len(M) = Len(L) + 1
      /\ \A k \in 1..(Len(L) - 1) : M[k] = L[k]
      /\ M[Len(L)] = Escaped(t) /\ Last(M) = <<>>
  BY <1>2, SplitOfWholeLine DEF NoLf
<1>5. L \in LineLists /\ Len(L) \in Nat \ {0}  BY SplitIs, LinesAre
<1> DEFINE rL == ReadLines(body)
           rM == ReadLines(new)
           cL == CanonicalLines(body)
           cM == CanonicalLines(new)
<1>6. /\ rL \in Seq(Text) /\ Len(rL) = Len(L) /\ cL \in Seq(Text) /\ Len(cL) = Len(L)
      /\ \A k \in 1..Len(L) : rL[k] = Unescaped(L[k]) /\ cL[k] = Trimmed(rL[k], ReaderWhites)
      /\ Canonical(body) = Joined(cL)
  BY ReadLinesAre
<1> HIDE DEF new
<1>7. /\ rM \in Seq(Text) /\ Len(rM) = Len(M) /\ cM \in Seq(Text) /\ Len(cM) = Len(M)
      /\ \A k \in 1..Len(M) : rM[k] = Unescaped(M[k]) /\ cM[k] = Trimmed(rM[k], ReaderWhites)
      /\ Canonical(new) = Joined(cM)
  BY <1>3, ReadLinesAre
<1>8. L[Len(L)] = <<>> /\ M[Len(M)] = <<>>  BY <1>4 DEF Last
<1> HIDE DEF L, M, rL, rM, cL, cM
<1>9. n \in Nat /\ Len(L) = n + 1 /\ Len(M) = n + 2  BY <1>4, <1>5
<1> HIDE DEF n
<1>10. rM[n + 1] = t /\ cM[n + 1] = t
  <2>1. n + 1 \in 1..Len(M) /\ M[n + 1] = Escaped(t)  BY <1>4, <1>9
  <2>2. rM[n + 1] = t  BY <1>2, <1>7, <2>1
  <2>3. cM[n + 1] = Trimmed(t, ReaderWhites)  BY <1>7, <2>1, <2>2
  <2> QED  BY <2>2, <2>3, PlainIsKept
<1>11. cL[n + 1] = <<>> /\ cM[n + 2] = <<>>
  <2>1. n + 1 \in 1..Len(L) /\ L[n + 1] = <<>>  BY <1>8, <1>9
  <2>2. n + 2 \in 1..Len(M) /\ M[n + 2] = <<>>  BY <1>8, <1>9
  <2>3. rL[n + 1] = <<>> /\ rM[n + 2] = <<>>  BY <1>6, <1>7, <2>1, <2>2, NothingIsNothing
  <2> QED  BY <1>6, <1>7, <2>1, <2>2, <2>3, NothingIsNothing
<1>12. ASSUME NEW k \in 1..n  PROVE rM[k] = rL[k] /\ cM[k] = cL[k]
  <2>1. k \in 1..Len(L) /\ k \in 1..Len(M) /\ k \in 1..(Len(L) - 1)  BY <1>9
  <2>2. M[k] = L[k]  BY <1>4, <2>1
  <2> QED  BY <1>6, <1>7, <2>1, <2>2
<1>13. Joined(cM) = Joined(cL) \o (t \o Crlf)
  <2>1. \A k \in 1..n : cM[k] = cL[k]  BY <1>12
  <2>2. Len(cL) = n + 1 /\ Len(cM) = n + 2  BY <1>6, <1>7, <1>9
  <2> QED  BY <1>1, <1>6, <1>7, <1>9, <1>10, <1>11, <2>1, <2>2, JoinOfOneMore
<1>14. Front(rM) = Append(Front(rL), t)
  <2>1. \A k \in 1..n : rM[k] = rL[k]  BY <1>12
  <2>2. Len(rL) = n + 1 /\ Len(rM) = n + 2  BY <1>6, <1>7, <1>9
  <2>3. rL \in Seq(Text) /\ rM \in Seq(Text) /\ rM[n + 1] = t  BY <1>6, <1>7, <1>10
  <2> QED  BY <1>1, <1>9, <2>1, <2>2, <2>3, FrontGrows
<1> QED  BY <1>4, <1>6, <1>7, <1>13, <1>14 DEF new, L, M, rL, rM

\* The lines of a text are those of all, without the white space at their ends.
LEMMA LinesOfIs ==
  ASSUME NEW body, NEW all \in Seq(Text),
         all = IF Last(SplitLines(body)) = <<>> THEN Front(SplitLines(body)) ELSE SplitLines(body)
  PROVE  LinesOf(body) = [k \in 1..Len(all) |-> Trimmed(all[k], LineWhites)]
<1>1. LinesOf(body) = [k \in DOMAIN all |-> Trimmed(all[k], LineWhites)]
  BY DEF LinesOf, LineWhites
<1>2. DOMAIN all = 1..Len(all)  BY LenProperties
<1> QED  BY <1>1, <1>2

\* All lines but the last one.
LEMMA FrontIs ==
  ASSUME NEW n \in Nat, NEW A \in Seq(Text), Len(A) = n + 1
  PROVE  Front(A) \in Seq(Text) /\ Len(Front(A)) = n /\ \A k \in 1..n : Front(A)[k] = A[k]
<1> DEFINE F == SubSeq(A, 1, n)
<1>1. Front(A) = F
  <2>1. Len(A) - 1 = n  OBVIOUS
  <2> QED  BY <2>1 DEF Front
<1>2. \A k \in 1..n : A[k] \in Text
  <2> TAKE k \in 1..n
  <2>1. k \in 1..Len(A)  OBVIOUS
  <2> QED  BY <2>1, ElementOfSeq
<1>3. 1 \in Int /\ n \in Int  OBVIOUS
<1>4. /\ F \in Seq(Text) /\ Len(F) = IF 1 <= n THEN n - 1 + 1 ELSE 0
      /\ \A k \in 1..(n - 1 + 1) : F[k] = A[1 + k - 1]
  BY <1>2, <1>3, SubSeqProperties
<1> HIDE DEF F
<1> QED  BY <1>1, <1>4

\* The text has one more line, m.
LEMMA LinesOfGrow ==
  ASSUME NEW n \in Nat, NEW A \in Seq(Text), NEW B \in Seq(Text), NEW m \in Text,
         Len(A) = n, Len(B) = n + 1, \A k \in 1..n : B[k] = A[k], B[n + 1] = m
  PROVE  [k \in 1..Len(B) |-> Trimmed(B[k], LineWhites)]
           = Append([k \in 1..Len(A) |-> Trimmed(A[k], LineWhites)], Trimmed(m, LineWhites))
<1> DEFINE F == [k \in 1..n |-> Trimmed(A[k], LineWhites)]
           G == [k \in 1..(n + 1) |-> Trimmed(B[k], LineWhites)]
           t == Trimmed(m, LineWhites)
           H == Append(F, t)
<1>1. \A k \in 1..n : Trimmed(A[k], LineWhites) \in Text
  <2>1. \A k \in 1..n : A[k] \in Text  BY ElementOfSeq
  <2> QED  BY <2>1, TrimmedIsText
<1>2. \A k \in 1..(n + 1) : Trimmed(B[k], LineWhites) \in Text
  <2>1. \A k \in 1..(n + 1) : B[k] \in Text  BY ElementOfSeq
  <2> QED  BY <2>1, TrimmedIsText
<1>3. t \in Text  BY TrimmedIsText
<1>4. F \in Seq(Text) /\ Len(F) = n
  <2>1. F \in Seq(Text)  BY <1>1, IsASeq
  <2>2. DOMAIN F = 1..n /\ DOMAIN F = 1..Len(F) /\ Len(F) \in Nat
    <3>1. DOMAIN F = 1..n  OBVIOUS
    <3> HIDE DEF F
    <3> QED  BY <2>1, <3>1, LenProperties
  <2> HIDE DEF F
  <2> QED  BY <2>1, <2>2
<1>5. G \in Seq(Text) /\ Len(G) = n + 1
  <2>0. n + 1 \in Nat  OBVIOUS
  <2>1. G \in Seq(Text)  BY <1>2, <2>0, IsASeq
  <2>2. DOMAIN G = 1..(n + 1) /\ DOMAIN G = 1..Len(G) /\ Len(G) \in Nat
    <3>1. DOMAIN G = 1..(n + 1)  OBVIOUS
    <3> HIDE DEF G
    <3> QED  BY <2>1, <3>1, LenProperties
  <2> HIDE DEF G
  <2> QED  BY <2>1, <2>2
<1>6. \A k \in 1..n : F[k] = Trimmed(A[k], LineWhites)  OBVIOUS
<1>7. \A k \in 1..(n + 1) : G[k] = Trimmed(B[k], LineWhites)  OBVIOUS
<1> HIDE DEF F, G
<1>8. /\ H \in Seq(Text) /\ Len(H) = n + 1 /\ H[n + 1] = t
      /\ \A k \in 1..n : H[k] = F[k]
  BY <1>3, <1>4, AppendProperties
<1> HIDE DEF H
<1>9. \A k \in 1..(n + 1) : G[k] = H[k]
  <2> TAKE k \in 1..(n + 1)
  <2>1. k = n + 1 \/ k \in 1..n  OBVIOUS
  <2> QED  BY <1>6, <1>7, <1>8, <2>1
<1>10. G = H  BY <1>5, <1>8, <1>9, SeqEqual
<1> QED  BY <1>10 DEF F, G, H

\* A line of the document is one more of its lines.
LEMMA LinesOneMore ==
  ASSUME NEW P \in Text, Last(SplitLines(P)) = <<>>, NEW m \in Text, NoLf(m)
  PROVE  /\ LET new == P \o (m \o <<Lf>>)
            IN /\ Last(SplitLines(new)) = <<>>
               /\ LinesOf(new) = Append(LinesOf(P), Trimmed(m, LineWhites))
         /\ m # <<>> => LinesOf(P \o m) = Append(LinesOf(P), Trimmed(m, LineWhites))
<1> DEFINE L == SplitLines(P)
           n == Len(L) - 1
           t == Trimmed(m, LineWhites)
           A == Front(L)
<1>1. L \in LineLists /\ L \in Seq(Text) /\ Len(L) \in Nat \ {0}  BY SplitIs, LinesAre
<1>2. n \in Nat /\ Len(L) = n + 1 /\ Last(L) = <<>>  BY <1>1
<1>2a. L[n + 1] = <<>>  BY <1>2 DEF Last
<1> HIDE DEF L, n
<1>3. A \in Seq(Text) /\ Len(A) = n /\ \A k \in 1..n : A[k] = L[k]
  <2>1. n \in Nat /\ L \in Seq(Text) /\ Len(L) = n + 1  BY <1>1, <1>2 DEF L
  <2> QED  BY <2>1, FrontIs
<1>4. LinesOf(P) = [k \in 1..Len(A) |-> Trimmed(A[k], LineWhites)]
  <2>1. A = IF Last(L) = <<>> THEN Front(L) ELSE L  BY <1>2
  <2> HIDE DEF A
  <2> QED  BY <1>3, <2>1, LinesOfIs DEF L
<1> HIDE DEF A
<1> DEFINE new == P \o (m \o <<Lf>>)
           M == SplitLines(new)
<1>5. /\ M \in LineLists /\ Len(M) = n + 2
      /\ \A k \in 1..n : M[k] = L[k]
      /\ M[n + 1] = m /\ Last(M) = <<>>
  <2>1. /\ M \in LineLists /\ Len(M) = Len(L) + 1
        /\ \A k \in 1..(Len(L) - 1) : M[k] = L[k]
        /\ M[Len(L)] = m /\ Last(M) = <<>>
    BY SplitOfWholeLine DEF NoLf, L
  <2> HIDE DEF M
  <2> QED  BY <1>2, <2>1
<1>6. LinesOf(new) = Append(LinesOf(P), t)
  <2> DEFINE B == Front(M)
  <2>0. M \in Seq(Text) /\ Len(M) = (n + 1) + 1 /\ n + 1 \in Nat  BY <1>2, <1>5 DEF LineLists
  <2>1. B \in Seq(Text) /\ Len(B) = n + 1 /\ \A k \in 1..(n + 1) : B[k] = M[k]
    BY <2>0, FrontIs
  <2>2. B = IF Last(M) = <<>> THEN Front(M) ELSE M  BY <1>5
  <2> HIDE DEF B
  <2>3. LinesOf(new) = [k \in 1..Len(B) |-> Trimmed(B[k], LineWhites)]
    BY <2>1, <2>2, LinesOfIs
  <2> HIDE DEF M
  <2>4. \A k \in 1..n : B[k] = A[k]
    <3> TAKE k \in 1..n
    <3>1. k \in 1..(n + 1)  BY <1>2
    <3> QED  BY <1>3, <1>5, <2>1, <3>1
  <2>5. B[n + 1] = m  BY <1>2, <1>5, <2>1
  <2>6. [k \in 1..Len(B) |-> Trimmed(B[k], LineWhites)]
           = Append([k \in 1..Len(A) |-> Trimmed(A[k], LineWhites)], t)
    BY <1>2, <1>3, <2>1, <2>4, <2>5, LinesOfGrow
  <2> QED  BY <1>4, <2>3, <2>6
<1>7. ASSUME m # <<>>  PROVE LinesOf(P \o m) = Append(LinesOf(P), t)
  <2> DEFINE B == SplitLines(P \o m)
  <2>1. P \o m \in Text  BY ConcatProperties DEF Text
  <2>2. B \in LineLists  BY <2>1, SplitIs
  <2>3. Longer(L, B, m)  BY SplitOfLine DEF NoLf, L
  <2>4. B \in Seq(Text)  BY <2>2 DEF LineLists
  <2>4a. <<>> \o m = m  BY ConcatEmptySeq DEF Text
  <2>5. Len(B) = n + 1 /\ (\A k \in 1..n : B[k] = L[k]) /\ B[n + 1] = m
    <3> HIDE DEF B
    <3>1. Len(L) - 1 = n  BY <1>2
    <3> QED  BY <1>2, <1>2a, <2>3, <2>4a, <3>1 DEF Longer
  <2>6. B = IF Last(B) = <<>> THEN Front(B) ELSE B  BY <1>7, <2>5 DEF Last
  <2>7. LinesOf(P \o m) = [k \in 1..Len(B) |-> Trimmed(B[k], LineWhites)]
    BY <2>4, <2>6, LinesOfIs
  <2> HIDE DEF B
  <2>8. \A k \in 1..n : B[k] = A[k]  BY <1>3, <2>5
  <2>9. [k \in 1..Len(B) |-> Trimmed(B[k], LineWhites)]
           = Append([k \in 1..Len(A) |-> Trimmed(A[k], LineWhites)], t)
    BY <1>2, <1>3, <2>4, <2>5, <2>8, LinesOfGrow
  <2> QED  BY <1>4, <2>7, <2>9
<1> QED  BY <1>5, <1>6, <1>7

SignTypeOK ==
  /\ doc \in Text /\ docPos \in 0..Len(doc)
  /\ hashed \in Text /\ clear \in Text
  /\ room \in Nat /\ Len(clear) <= room
  /\ signState \in {"start", "lines", "done", "failed"}

\* What has been written of the text.
Body == SubSeq(clear, 2, Len(clear))

\* As long as the output is not full, what has been written is read as it was
\* hashed, and it is the document as far as that has been read.
SignedSoFar ==
  signState = "lines" /\ Len(clear) < room =>
    /\ Len(clear) >= 1 /\ Last(SplitLines(Body)) = <<>>
    /\ hashed = Canonical(Body)
    /\ LinesFit =>
         /\ Front(ReadLines(Body)) = LinesOf(SubSeq(doc, 1, docPos))
         /\ docPos < Len(doc) => Last(SplitLines(SubSeq(doc, 1, docPos))) = <<>>

NothingYet ==
  /\ signState = "start" => docPos = 0 /\ hashed = <<>> /\ clear = <<>>
  /\ signState \in {"start", "lines"} => packet = <<>>

SignInv == SignTypeOK /\ NothingYet /\ SignedSoFar /\ SignedTextIsReadable

\* As long as the output is not full, everything has been written.
LEMMA CbPutsIs ==
  ASSUME SignTypeOK, NEW s \in Text
  PROVE  /\ CbPuts(s) \in Text /\ Len(CbPuts(s)) <= room
         /\ Len(CbPuts(s)) < room => CbPuts(s) = clear \o s /\ Len(clear) < room
         /\ Fits(s) => CbPuts(s) = clear \o s
<1> DEFINE free == room - Len(clear)
           p == IF Len(s) <= free THEN s ELSE SubSeq(s, 1, free)
<1>1. Len(s) \in Nat /\ Len(clear) \in Nat /\ room \in Nat /\ free \in Nat /\ clear \in Text
  BY TextIs DEF SignTypeOK
<1>2. CbPuts(s) = clear \o p  BY DEF CbPuts
<1>3. CASE Len(s) <= free
  <2>1. p = s  BY <1>3
  <2>2. clear \o s \in Text /\ Len(clear \o s) = Len(clear) + Len(s)
    BY <1>1, ConcatProperties DEF Text
  <2> HIDE DEF p
  <2>3. CbPuts(s) = clear \o s  BY <1>2, <2>1
  <2>4. Len(clear) + Len(s) <= room /\ (Len(clear) + Len(s) < room => Len(clear) < room)
    BY <1>1, <1>3
  <2> QED  BY <2>2, <2>3, <2>4
<1>4. CASE ~(Len(s) <= free)
  <2>1. p = SubSeq(s, 1, free) /\ free \in 0..Len(s)  BY <1>1, <1>4
  <2>2. p \in Text /\ Len(p) = free
    <3> HIDE DEF free, p
    <3> QED  BY <2>1, FirstOf
  <2> HIDE DEF p
  <2>3. clear \o p \in Text /\ Len(clear \o p) = Len(clear) + Len(p)
    BY <1>1, <2>2, ConcatProperties DEF Text
  <2>4. Len(CbPuts(s)) = room  BY <1>1, <1>2, <2>2, <2>3
  <2>5. ~Fits(s)  BY <1>1, <1>4 DEF Fits
  <2> QED  BY <1>1, <1>2, <2>3, <2>4, <2>5
<1> QED  BY <1>3, <1>4

\* The body goes on.
LEMMA BodyGrows ==
  ASSUME NEW c \in Text, Len(c) >= 1, NEW x \in Text
  PROVE  /\ SubSeq(c, 2, Len(c)) \in Text
         /\ SubSeq(c \o x, 2, Len(c)) = SubSeq(c, 2, Len(c))
         /\ SubSeq(c \o x, 2, Len(c \o x)) = SubSeq(c, 2, Len(c)) \o x
<1> DEFINE n == Len(c)
           l == Len(x)
           y == c \o x
           b == SubSeq(c, 2, n)
           d == SubSeq(y, 2, n)
           e == SubSeq(y, 2, n + l)
           f == b \o x
<1>1. n \in Nat /\ l \in Nat /\ n >= 1 /\ n \in Int /\ n + l \in Int /\ 2 \in Int  BY TextIs
<1>2. y \in Text /\ Len(y) = n + l
      /\ \A i \in 1..(n + l) : y[i] = IF i <= n THEN c[i] ELSE x[i - n]
  BY ConcatProperties DEF Text
<1> HIDE DEF y
<1>3. /\ b \in Text /\ Len(b) = n - 1 /\ \A i \in 1..(n - 1) : b[i] = c[i + 1]
  <2>1. \A i \in 2..n : c[i] \in Int  BY <1>1, TextIs
  <2>2. /\ b \in Text /\ Len(b) = IF 2 <= n THEN n - 2 + 1 ELSE 0
        /\ \A i \in 1..(n - 2 + 1) : b[i] = c[2 + i - 1]
    BY <1>1, <2>1, SubSeqProperties DEF Text
  <2> HIDE DEF n, b
  <2>3. \A i \in 1..(n - 1) : i \in 1..(n - 2 + 1) /\ 2 + i - 1 = i + 1  BY <1>1
  <2> QED  BY <1>1, <2>2, <2>3
<1>4. /\ d \in Text /\ Len(d) = n - 1 /\ \A i \in 1..(n - 1) : d[i] = y[i + 1]
  <2>1. \A i \in 2..n : y[i] \in Int  BY <1>1, <1>2, TextIs
  <2>2. /\ d \in Text /\ Len(d) = IF 2 <= n THEN n - 2 + 1 ELSE 0
        /\ \A i \in 1..(n - 2 + 1) : d[i] = y[2 + i - 1]
    BY <1>1, <2>1, SubSeqProperties DEF Text
  <2> HIDE DEF n, d
  <2>3. \A i \in 1..(n - 1) : i \in 1..(n - 2 + 1) /\ 2 + i - 1 = i + 1  BY <1>1
  <2> QED  BY <1>1, <2>2, <2>3
<1>5. /\ e \in Text /\ Len(e) = n + l - 1 /\ \A i \in 1..(n + l - 1) : e[i] = y[i + 1]
  <2> DEFINE k == n + l
  <2>0. k \in Int /\ k \in Nat /\ k >= 1  BY <1>1
  <2>1. \A i \in 2..k : y[i] \in Int
    <3>1. Len(y) = k  BY <1>2
    <3> HIDE DEF k
    <3> TAKE i \in 2..k
    <3>2. i \in 1..Len(y)  BY <2>0, <3>1
    <3> QED  BY <1>2, <3>2, TextIs
  <2>2. /\ e \in Text /\ Len(e) = IF 2 <= k THEN k - 2 + 1 ELSE 0
        /\ \A i \in 1..(k - 2 + 1) : e[i] = y[2 + i - 1]
    <3> HIDE DEF k
    <3>1. /\ SubSeq(y, 2, k) \in Text /\ Len(SubSeq(y, 2, k)) = IF 2 <= k THEN k - 2 + 1 ELSE 0
          /\ \A i \in 1..(k - 2 + 1) : SubSeq(y, 2, k)[i] = y[2 + i - 1]
      BY <1>1, <2>0, <2>1, SubSeqProperties DEF Text
    <3> QED  BY <3>1 DEF k
  <2> HIDE DEF e
  <2>3. \A i \in 1..(k - 1) : i \in 1..(k - 2 + 1) /\ 2 + i - 1 = i + 1
    <3> HIDE DEF k
    <3> QED  BY <2>0
  <2>4. Len(e) = k - 1 /\ \A i \in 1..(k - 1) : e[i] = y[i + 1]
    <3> HIDE DEF k
    <3> QED  BY <2>0, <2>2, <2>3
  <2> QED  BY <2>2, <2>4
<1>6. /\ f \in Text /\ Len(f) = n + l - 1
      /\ \A i \in 1..(n + l - 1) : f[i] = IF i <= n - 1 THEN b[i] ELSE x[i - (n - 1)]
  <2>1. n - 1 \in Nat /\ (n - 1) + l = n + l - 1  BY <1>1
  <2> DEFINE k == n - 1
  <2> HIDE DEF b
  <2>2. /\ f \in Text /\ Len(f) = k + l
        /\ \A i \in 1..(k + l) : f[i] = IF i <= k THEN b[i] ELSE x[i - k]
    <3>1. k \in Nat /\ l \in Nat /\ Len(b) = k /\ Len(x) = l /\ b \in Text  BY <1>1, <1>3, <2>1
    <3> HIDE DEF k, l
    <3>2. /\ f \in Seq(Int) /\ Len(f) = Len(b) + Len(x)
          /\ \A i \in 1..(Len(b) + Len(x)) : f[i] = IF i <= Len(b) THEN b[i] ELSE x[i - Len(b)]
      BY <3>1, ConcatProperties DEF Text
    <3> HIDE DEF f
    <3> QED  BY <3>1, <3>2 DEF Text
  <2> QED  BY <2>1, <2>2
<1> HIDE DEF b, d, e, f
<1>7. d = b
  <2>1. \A i \in 1..(n - 1) : d[i] = b[i]
    <3> TAKE i \in 1..(n - 1)
    <3>1. i + 1 \in 1..(n + l) /\ i + 1 <= n  BY <1>1
    <3> QED  BY <1>2, <1>3, <1>4, <3>1
  <2> QED  BY <1>3, <1>4, <2>1, SeqEqual DEF Text
<1>8. e = f
  <2>1. ASSUME NEW i \in 1..(n + l - 1)  PROVE e[i] = f[i]
    <3>0. i + 1 \in 1..(n + l)  BY <1>1
    <3>1. CASE i <= n - 1
      <4>1. i + 1 <= n /\ i \in 1..(n - 1)  BY <1>1, <3>1
      <4> QED  BY <1>2, <1>3, <1>5, <1>6, <3>0, <3>1, <4>1
    <3>2. CASE ~(i <= n - 1)
      <4>1. ~(i + 1 <= n) /\ (i + 1) - n = i - (n - 1)  BY <1>1, <3>2
      <4>2. e[i] = y[i + 1]  BY <1>5
      <4>3. y[i + 1] = x[(i + 1) - n]  BY <1>2, <3>0, <4>1
      <4>4. f[i] = x[i - (n - 1)]  BY <1>6, <3>2
      <4> QED  BY <4>1, <4>2, <4>3, <4>4
    <3> QED  BY <3>1, <3>2
  <2> QED  BY <1>5, <1>6, <2>1, SeqEqual DEF Text
<1> QED  BY <1>2, <1>3, <1>7, <1>8 DEF y, b, d, e, f

\* pkt has s in it, after m characters.
HasPart(pkt, s, m) ==
  /\ m + Len(s) <= Len(pkt)
  /\ \A i \in 1..Len(s) : pkt[m + i] = s[i]

\* What pkt has after m characters is the whole of s.
LEMMA PartIs ==
  ASSUME NEW pkt \in Text, NEW s \in Text, NEW m \in Nat, HasPart(pkt, s, m)
  PROVE  SubSeq(pkt, m + 1, m + Len(s)) = s
<1> DEFINE l == Len(s)
           n == m + l
           p == SubSeq(pkt, m + 1, n)
<1>1. l \in Nat /\ Len(pkt) \in Nat /\ n \in Nat /\ n <= Len(pkt)
      /\ \A i \in 1..l : pkt[m + i] = s[i]
  BY TextIs DEF HasPart
<1>2. \A i \in (m + 1)..n : pkt[i] \in Int
  <2> HIDE DEF n
  <2> TAKE i \in (m + 1)..n
  <2>1. i \in 1..Len(pkt)  BY <1>1
  <2> QED  BY <2>1, TextIs
<1>3. m + 1 \in Int /\ n \in Int  BY <1>1
<1> HIDE DEF n
<1>4. /\ p \in Text /\ Len(p) = IF m + 1 <= n THEN n - (m + 1) + 1 ELSE 0
      /\ \A i \in 1..(n - (m + 1) + 1) : p[i] = pkt[(m + 1) + i - 1]
  BY <1>2, <1>3, SubSeqProperties DEF Text
<1> HIDE DEF p, l
<1>5. Len(p) = l  BY <1>1, <1>4 DEF n
<1>6. ASSUME NEW i \in 1..l  PROVE p[i] = s[i]
  <2>1. i \in 1..(n - (m + 1) + 1) /\ (m + 1) + i - 1 = m + i  BY <1>1 DEF n
  <2>2. p[i] = pkt[(m + 1) + i - 1]  BY <1>4, <2>1
  <2> QED  BY <1>1, <2>1, <2>2
<1>7. p = s  BY <1>4, <1>5, <1>6, SeqEqual DEF Text, l
<1> QED  BY <1>7 DEF p, n, l

\* The numbers and the parts of the packet.
LEMMA PacketIs ==
  ASSUME NEW h \in Text, Len(h) = 2
  PROVE  LET body == PacketBody(h)
             pkt == <<136, Len(body)>> \o body
         IN /\ pkt \in Text /\ pkt[2] = Len(pkt) - 2
            /\ pkt[7] = 0 /\ pkt[8] = 6 /\ pkt[9] = 5
            /\ pkt[15] = 0 /\ pkt[16] = 10 /\ pkt[17] = 9
            /\ SubSeq(pkt, 3, 14) = PacketHead
            /\ SubSeq(pkt, 19, 26) = SubSeq(Fingerprint, 13, 20)
            /\ SubSeq(pkt, 29, Len(pkt)) = Mpis
<1> DEFINE A == <<0, 10, 9, 16>>
           F == SubSeq(Fingerprint, 13, 20)
           k == Len(Mpis)
           a1 == PacketHead \o A
           a2 == a1 \o F
           a3 == a2 \o SubSeq(h, 1, 2)
           body == a3 \o Mpis
           front == <<136, Len(body)>>
           pkt == front \o body
<1>1. /\ PacketHead \in Text /\ Len(PacketHead) = 12
      /\ PacketHead[5] = 0 /\ PacketHead[6] = 6 /\ PacketHead[7] = 5
  BY DEF PacketHead, Text
<1>2. A \in Text /\ Len(A) = 4 /\ A[1] = 0 /\ A[2] = 10 /\ A[3] = 9  BY DEF Text
<1>3. F \in Text /\ Len(F) = 8
  <2>1. \A i \in 13..20 : Fingerprint[i] \in Int
    <3> TAKE i \in 13..20
    <3>1. i \in 1..Len(Fingerprint) /\ Fingerprint \in Seq(0..255)  BY SignAssumption
    <3>2. Fingerprint[i] \in 0..255  BY <3>1, ElementOfSeq
    <3> QED  BY <3>2
  <2>2. F \in Seq(Int) /\ Len(F) = IF 13 <= 20 THEN 20 - 13 + 1 ELSE 0
    BY <2>1, SubSeqProperties
  <2> QED  BY <2>2 DEF Text
<1>4. Mpis \in Text /\ k \in Nat
  <2>1. Mpis \in Seq(0..255) /\ 0..255 \subseteq Int  BY SignAssumption
  <2>2. Mpis \in Text  BY <2>1, SeqMonotonic DEF Text
  <2> QED  BY <2>2, TextIs
<1>5. SubSeq(h, 1, 2) \in Text /\ Len(SubSeq(h, 1, 2)) = 2
  <2>1. SubSeq(h, 1, 2) = h  BY SubSeqFull DEF Text
  <2> QED  BY <2>1
<1> DEFINE H == SubSeq(h, 1, 2)
<1> HIDE DEF A, F, k, H
<1>6. /\ a1 \in Text /\ Len(a1) = 16
      /\ \A i \in 1..16 : a1[i] = IF i <= 12 THEN PacketHead[i] ELSE A[i - 12]
  <2>1. 12 \in Nat /\ 4 \in Nat /\ 12 + 4 = 16  OBVIOUS
  <2>2. IsConcat(a1, PacketHead, A, 12, 4)  BY <1>1, <1>2, ConcatHas
  <2> QED  BY <2>1, <2>2 DEF IsConcat
<1> HIDE DEF a1
<1>7. /\ a2 \in Text /\ Len(a2) = 24
      /\ \A i \in 1..24 : a2[i] = IF i <= 16 THEN a1[i] ELSE F[i - 16]
  <2>1. 16 \in Nat /\ 8 \in Nat /\ 16 + 8 = 24  OBVIOUS
  <2>2. IsConcat(a2, a1, F, 16, 8)  BY <1>3, <1>6, ConcatHas
  <2> QED  BY <2>1, <2>2 DEF IsConcat
<1> HIDE DEF a2
<1>8. /\ a3 \in Text /\ Len(a3) = 26
      /\ \A i \in 1..26 : a3[i] = IF i <= 24 THEN a2[i] ELSE H[i - 24]
  <2>1. 24 \in Nat /\ 2 \in Nat /\ 24 + 2 = 26 /\ H \in Text /\ Len(H) = 2  BY <1>5 DEF H
  <2>2. IsConcat(a2 \o H, a2, H, 24, 2)  BY <1>7, <2>1, ConcatHas
  <2> QED  BY <2>1, <2>2 DEF H, IsConcat
<1> HIDE DEF a3
<1>9. /\ body \in Text /\ Len(body) = 26 + k
      /\ \A i \in 1..(26 + k) : body[i] = IF i <= 26 THEN a3[i] ELSE Mpis[i - 26]
  <2>1. IsConcat(body, a3, Mpis, 26, k)  BY <1>4, <1>8, ConcatHas DEF k
  <2> QED  BY <2>1 DEF IsConcat
<1>10. PacketBody(h) = body  BY DEF PacketBody, body, a3, a2, a1, A, F
<1> HIDE DEF body
<1>11. front \in Text /\ Len(front) = 2 /\ front[2] = Len(body)  BY <1>4, <1>9 DEF Text
<1> HIDE DEF front
<1>12. /\ pkt \in Text /\ Len(pkt) = 2 + (26 + k)
       /\ \A i \in 1..(2 + (26 + k)) : pkt[i] = IF i <= 2 THEN front[i] ELSE body[i - 2]
  <2> DEFINE m == 26 + k
  <2>1. Len(body) = m  BY <1>9
  <2> HIDE DEF m
  <2>2. IsConcat(pkt, front, body, 2, m)  BY <1>9, <1>11, <2>1, ConcatHas
  <2> QED  BY <2>2 DEF m, IsConcat
<1> HIDE DEF pkt
<1>13. \A j \in 1..(26 + k) : pkt[2 + j] = body[j]
  <2> TAKE j \in 1..(26 + k)
  <2>1. 2 + j \in 1..(2 + (26 + k)) /\ ~(2 + j <= 2) /\ (2 + j) - 2 = j  BY <1>4
  <2> QED  BY <1>12, <2>1
<1>14. \A j \in 1..16 : pkt[2 + j] = a1[j]
  <2> TAKE j \in 1..16
  <2>1. j \in 1..(26 + k) /\ j \in 1..26 /\ j \in 1..24 /\ j <= 26 /\ j <= 24 /\ j <= 16  BY <1>4
  <2>2. body[j] = a3[j]  BY <1>9, <2>1
  <2>3. a3[j] = a2[j]  BY <1>8, <2>1
  <2>4. a2[j] = a1[j]  BY <1>7, <2>1
  <2> QED  BY <1>13, <2>1, <2>2, <2>3, <2>4
<1>15. \A j \in 1..12 : pkt[2 + j] = PacketHead[j]  BY <1>6, <1>14
<1>16. pkt[7] = 0 /\ pkt[8] = 6 /\ pkt[9] = 5
  <2>1. pkt[2 + 5] = PacketHead[5] /\ pkt[2 + 6] = PacketHead[6] /\ pkt[2 + 7] = PacketHead[7]
    BY <1>15
  <2> QED  BY <1>1, <2>1
<1>17. pkt[15] = 0 /\ pkt[16] = 10 /\ pkt[17] = 9
  <2>1. pkt[2 + 13] = a1[13] /\ pkt[2 + 14] = a1[14] /\ pkt[2 + 15] = a1[15]  BY <1>14
  <2>2. a1[13] = A[13 - 12] /\ a1[14] = A[14 - 12] /\ a1[15] = A[15 - 12]  BY <1>6
  <2> QED  BY <1>2, <2>1, <2>2
<1>18. SubSeq(pkt, 3, 14) = PacketHead
  <2>1. HasPart(pkt, PacketHead, 2)  BY <1>1, <1>4, <1>12, <1>15 DEF HasPart
  <2>2. SubSeq(pkt, 2 + 1, 2 + Len(PacketHead)) = PacketHead  BY <1>1, <1>12, <2>1, PartIs
  <2> QED  BY <1>1, <2>2
<1>19. SubSeq(pkt, 19, 26) = F
  <2>1. 18 + 8 <= Len(pkt)  BY <1>4, <1>12
  <2>2. \A i \in 1..8 : pkt[18 + i] = F[i]
    <3> TAKE i \in 1..8
    <3>1. 16 + i \in 1..(26 + k) /\ 16 + i \in 1..26 /\ 16 + i \in 1..24 /\ 16 + i <= 26 /\ 16 + i <= 24
          /\ ~(16 + i <= 16) /\ (16 + i) - 16 = i /\ 2 + (16 + i) = 18 + i
      BY <1>4
    <3>2. body[16 + i] = a3[16 + i]  BY <1>9, <3>1
    <3>3. a3[16 + i] = a2[16 + i]  BY <1>8, <3>1
    <3>4. a2[16 + i] = F[i]  BY <1>7, <3>1
    <3>5. pkt[2 + (16 + i)] = body[16 + i]  BY <1>13, <3>1
    <3> QED  BY <3>1, <3>2, <3>3, <3>4, <3>5
  <2>3. HasPart(pkt, F, 18)  BY <1>3, <2>1, <2>2 DEF HasPart
  <2>4. SubSeq(pkt, 18 + 1, 18 + Len(F)) = F  BY <1>3, <1>12, <2>3, PartIs
  <2> QED  BY <1>3, <2>4
<1>20. SubSeq(pkt, 29, Len(pkt)) = Mpis
  <2>1. Len(pkt) \in Nat /\ Len(pkt) = 28 + Len(Mpis) /\ Len(Mpis) = k
    BY <1>4, <1>12 DEF k
  <2>2. \A i \in 1..k : pkt[28 + i] = Mpis[i]
    <3> TAKE i \in 1..k
    <3>1. 26 + i \in 1..(26 + k) /\ ~(26 + i <= 26) /\ (26 + i) - 26 = i /\ 2 + (26 + i) = 28 + i
      BY <1>4
    <3> QED  BY <1>9, <1>13, <3>1
  <2>3. HasPart(pkt, Mpis, 28)  BY <2>1, <2>2 DEF HasPart
  <2>4. SubSeq(pkt, 28 + 1, 28 + Len(Mpis)) = Mpis  BY <1>4, <1>12, <2>3, PartIs
  <2> QED  BY <2>1, <2>4
<1>21. pkt[2] = Len(pkt) - 2
  <2>1. 2 \in 1..(2 + (26 + k))  BY <1>4
  <2>2. pkt[2] = Len(body)  BY <1>11, <1>12, <2>1
  <2> QED  BY <1>4, <1>9, <1>12, <2>2
<1>22. pkt = <<136, Len(PacketBody(h))>> \o PacketBody(h)  BY <1>10 DEF pkt, front
<1> QED  BY <1>12, <1>16, <1>17, <1>18, <1>19, <1>20, <1>21, <1>22 DEF F

\* What a line of the document means for its lines, when they fit: m is one of them.
LEMMA LineFits ==
  ASSUME SignTypeOK, NEW line, NEW m, IsLine(line, m), line # <<>>, LinesFit,
         Last(SplitLines(SubSeq(doc, 1, docPos))) = <<>>
  PROVE  LET old == SubSeq(doc, 1, docPos)
             new == SubSeq(doc, 1, docPos + Len(line))
         IN /\ LinesOf(new) = Append(LinesOf(old), Trimmed(m, LineWhites))
            /\ docPos + Len(line) < Len(doc) => Last(SplitLines(new)) = <<>>
            /\ CString(m) = m
<1> DEFINE P == SubSeq(doc, 1, docPos)
           q == docPos + Len(line)
           Q == SubSeq(doc, 1, q)
           L == SplitLines(P)
           M == SplitLines(Q)
           D == SplitLines(doc)
           R == SubSeq(doc, q + 1, Len(doc))
<1>1. /\ doc \in Text /\ Len(doc) \in Nat /\ docPos \in Nat /\ docPos <= Len(doc)
      /\ m \in Text /\ NoLf(m) /\ Len(m) \in Nat /\ LineLen \in Nat \ {0}
  BY TextIs, SignAssumption DEF SignTypeOK, IsLine
<1>2. <<Lf>> \in Text /\ m \o <<Lf>> \in Text
  <2>1. <<Lf>> \in Text  BY DEF Text, Lf
  <2> QED  BY <1>1, <2>1, ConcatProperties DEF Text
<1>3. line \in Text /\ Len(line) \in Nat /\ q \in Nat /\ q <= Len(doc)
  <2>1. line \in Text  BY <1>1, <1>2 DEF IsLine
  <2> QED  BY <1>1, <2>1, TextIs DEF IsLine
<1>4. P \in Text /\ Q \in Text
  <2>1. docPos \in 0..Len(doc) /\ q \in 0..Len(doc)  BY <1>1, <1>3
  <2> HIDE DEF q
  <2> QED  BY <1>1, <2>1, FirstOf
<1>5. Q = P \o line  BY DEF IsLine
<1>6. R \in Text /\ doc = Q \o R
  <2>1. \A i \in (q + 1)..Len(doc) : doc[i] \in Int
    <3> TAKE i \in (q + 1)..Len(doc)
    <3>1. i \in 1..Len(doc)  BY <1>1, <1>3
    <3> QED  BY <1>1, <3>1, TextIs
  <2>2. q + 1 \in Int /\ Len(doc) \in Int  BY <1>1, <1>3
  <2> HIDE DEF q
  <2>3. R \in Text  BY <2>1, <2>2, SubSeqProperties DEF Text
  <2>4. 1 \in 1..(Len(doc) + 1) /\ q \in (1 - 1)..Len(doc) /\ Len(doc) \in q..Len(doc)
    BY <1>1, <1>3
  <2>5. SubSeq(doc, 1, q) \o SubSeq(doc, q + 1, Len(doc)) = SubSeq(doc, 1, Len(doc))
    BY <1>1, <2>4, ConcatAdjacentSubSeq DEF Text
  <2>6. SubSeq(doc, 1, Len(doc)) = doc  BY <1>1, SubSeqFull DEF Text
  <2> QED  BY <2>3, <2>5, <2>6
<1>7. L \in LineLists /\ M \in LineLists /\ D \in LineLists  BY <1>1, <1>4, SplitIs
<1>8. Extends(M, D)
  <2> DEFINE c == Q \o R
  <2>1. Extends(SplitLines(Q), SplitLines(c))  BY <1>4, <1>6, SplitExtends
  <2> QED  BY <1>6, <2>1
<1>9. /\ Len(L) \in Nat \ {0} /\ Len(M) \in Nat \ {0} /\ Len(D) \in Nat \ {0}
      /\ DOMAIN D = 1..Len(D) /\ L[Len(L)] = <<>>
  <2>1. DOMAIN D = 1..Len(D)
    <3>1. D \in Seq(Text)  BY <1>7, LinesAre
    <3> HIDE DEF D
    <3> QED  BY <3>1, LenProperties
  <2> QED  BY <1>7, <2>1, LinesAre DEF Last
<1>10. \A k \in 1..Len(D) : Len(D[k]) < LineLen - 1 /\ CString(D[k]) = D[k]
  BY <1>9 DEF LinesFit
<1>11. \A k \in 1..Len(D) : Len(D[k]) \in Nat  BY <1>7, LinesAre
<1>12. Last(L) = <<>>  OBVIOUS
<1> HIDE DEF L, M, D, R
<1>13. CASE line = m \o <<Lf>>
  <2>1. /\ M \in LineLists /\ Len(M) = Len(L) + 1 /\ M[Len(L)] = m /\ Last(M) = <<>>
    <3> HIDE DEF P, Q, q
    <3>1. Q = P \o (m \o <<Lf>>)  BY <1>5, <1>13
    <3> QED  BY <1>1, <1>4, <1>12, <3>1, SplitOfWholeLine DEF NoLf, L, M
  <2>2. D[Len(L)] = m /\ Len(L) \in 1..Len(D)
    <3>1. Len(L) \in 1..(Len(M) - 1) /\ Len(M) <= Len(D)  BY <1>8, <1>9, <2>1 DEF Extends
    <3>2. D[Len(L)] = M[Len(L)]  BY <1>8, <3>1 DEF Extends
    <3> QED  BY <1>9, <2>1, <3>1, <3>2
  <2>3. CString(m) = m  BY <1>10, <2>2
  <2>4. LinesOf(Q) = Append(LinesOf(P), Trimmed(m, LineWhites))
    <3> HIDE DEF P, Q, q
    <3>1. Q = P \o (m \o <<Lf>>)  BY <1>5, <1>13
    <3> QED  BY <1>1, <1>4, <1>12, <3>1, LinesOneMore DEF L
  <2> QED  BY <2>1, <2>3, <2>4 DEF M
<1>14. CASE line = m
  <2>1. m # <<>>  BY <1>14
  <2>2. Longer(L, M, m)
    <3> HIDE DEF P, Q, q
    <3>1. Q = P \o m  BY <1>5, <1>14
    <3> QED  BY <1>1, <1>4, <3>1, SplitOfLine DEF NoLf, L, M
  <2>3. Len(M) = Len(L) /\ M[Len(L)] = m
    <3>1. <<>> \o m = m  BY <1>1, ConcatEmptySeq DEF Text
    <3> QED  BY <1>9, <2>2, <3>1 DEF Longer
  <2>4. Len(D[Len(L)]) >= Len(m) /\ Len(L) \in 1..Len(D)
    BY <1>1, <1>8, <1>9, <1>11, <2>3 DEF Extends
  <2>5. Len(m) # LineLen - 1  BY <1>1, <1>10, <1>11, <2>4
  <2>6. q = Len(doc)  BY <1>14, <2>5 DEF IsLine
  <2>7. D[Len(L)] = m
    <3>1. Q = doc
      <4>1. SubSeq(doc, 1, Len(doc)) = doc  BY <1>1, SubSeqFull DEF Text
      <4> QED  BY <2>6, <4>1
    <3>2. M = D  BY <3>1 DEF M, D
    <3> QED  BY <2>3, <3>2
  <2>8. CString(m) = m  BY <1>10, <2>4, <2>7
  <2>9. LinesOf(Q) = Append(LinesOf(P), Trimmed(m, LineWhites))
    <3> HIDE DEF P, Q, q
    <3>1. Q = P \o m  BY <1>5, <1>14
    <3> QED  BY <1>1, <1>4, <1>12, <2>1, <3>1, LinesOneMore DEF L
  <2>10. ~(q < Len(doc))  BY <1>1, <2>6
  <2> QED  BY <2>8, <2>9, <2>10
<1> QED  BY <1>13, <1>14 DEF IsLine

\* A line is written.
LEMMA SignLineStep == ASSUME SignInv, SignLine  PROVE SignInv'
<1> DEFINE line == CbGets(LineLen)
           canon == CanonLine(line)
           t == Trimmed(CString(line), Whites)
           x == Escaped(t) \o <<Lf>>
<1>1. SignTypeOK /\ doc \in Text /\ docPos \in 0..Len(doc) /\ hashed \in Text /\ clear \in Text
  BY DEF SignInv, SignTypeOK
<1>2. PICK m : IsLine(line, m)  BY <1>1, CbGetsIs
<1>3. /\ line # <<>> /\ docPos' = docPos + Len(line)
      /\ hashed' = hashed \o canon /\ clear' = CbPuts(DashEscLine(canon))
      /\ signState = "lines"
      /\ doc' = doc /\ room' = room /\ packet' = packet /\ signState' = signState
  BY DEF SignLine
<1> HIDE DEF line
<1>4. m \in Text /\ NoLf(m) /\ (line = m \/ line = m \o <<Lf>>)  BY <1>2 DEF IsLine
<1>5. IsPlain(t) /\ (CString(m) = m => t = Trimmed(m, LineWhites))
  <2> HIDE DEF t
  <2>1. /\ IsPlain(Trimmed(CString(line), Whites))
        /\ CString(m) = m => Trimmed(CString(line), Whites) = Trimmed(m, LineWhites)
    BY <1>4, CanonOfLine
  <2> QED  BY <2>1 DEF t
<1>6. canon = t \o Crlf  BY DEF CanonLine, Crlf, Whites
<1> HIDE DEF t
<1>7. t \in Text /\ NoLf(t)  BY <1>5 DEF IsPlain
<1>8. Crlf \in Text /\ <<Lf>> \in Text  BY DEF Crlf, Cr, Lf, Text
<1>9. canon \in Text  BY <1>6, <1>7, <1>8, ConcatProperties DEF Text
<1>10. DashEscLine(canon) = x  BY <1>6, <1>7, DashEscLineIs DEF Crlf
<1>11. x \in Text
  <2>1. Escaped(t) \in Text  BY <1>7, EscapedIs
  <2> QED  BY <1>8, <2>1, ConcatProperties DEF Text
<1> HIDE DEF canon, x
<1>12. /\ clear' \in Text /\ Len(clear') <= room
       /\ Len(clear') < room => clear' = clear \o x /\ Len(clear) < room
  <2>1. /\ CbPuts(x) \in Text /\ Len(CbPuts(x)) <= room
        /\ Len(CbPuts(x)) < room => CbPuts(x) = clear \o x /\ Len(clear) < room
    BY <1>1, <1>11, CbPutsIs
  <2> QED  BY <1>3, <1>10, <2>1
<1>13. docPos' \in 0..Len(doc)
  <2>1. line \in Text
    <3>1. m \o <<Lf>> \in Text  BY <1>4, <1>8, ConcatProperties DEF Text
    <3> QED  BY <1>4, <3>1
  <2>2. Len(line) \in Nat /\ Len(doc) \in Nat  BY <1>1, <2>1, TextIs
  <2> QED  BY <1>1, <1>2, <1>3, <2>2 DEF IsLine
<1>14. SignTypeOK'
  <2>1. hashed' \in Text  BY <1>1, <1>3, <1>9, ConcatProperties DEF Text
  <2> QED  BY <1>1, <1>3, <1>12, <1>13, <2>1 DEF SignTypeOK
<1>15. NothingYet'  BY <1>3 DEF SignInv, NothingYet
<1>16. SignedSoFar'
  <2> SUFFICES ASSUME Len(clear') < room
               PROVE  /\ Len(clear') >= 1 /\ Last(SplitLines(Body')) = <<>>
                      /\ hashed' = Canonical(Body')
                      /\ LinesFit' =>
                           /\ Front(ReadLines(Body')) = LinesOf(SubSeq(doc', 1, docPos'))
                           /\ docPos' < Len(doc') =>
                                Last(SplitLines(SubSeq(doc', 1, docPos'))) = <<>>
    BY <1>3 DEF SignedSoFar, Body
  <2>1. clear' = clear \o x /\ Len(clear) < room  BY <1>12
  <2>2. /\ Len(clear) >= 1 /\ Last(SplitLines(Body)) = <<>>
        /\ hashed = Canonical(Body)
        /\ LinesFit =>
             /\ Front(ReadLines(Body)) = LinesOf(SubSeq(doc, 1, docPos))
             /\ docPos < Len(doc) => Last(SplitLines(SubSeq(doc, 1, docPos))) = <<>>
    BY <1>3, <2>1 DEF SignInv, SignedSoFar
  <2>3. Body \in Text /\ Body' = Body \o x
    BY <1>1, <1>11, <2>1, <2>2, BodyGrows DEF Body
  <2>4. Len(clear') >= 1
    <3>1. Len(clear \o x) = Len(clear) + Len(x)  BY <1>1, <1>11, ConcatProperties DEF Text
    <3>2. Len(x) \in Nat /\ Len(clear) \in Nat  BY <1>1, <1>11, TextIs
    <3> QED  BY <2>1, <2>2, <3>1, <3>2
  <2>5. /\ Last(SplitLines(Body')) = <<>>
        /\ Canonical(Body') = Canonical(Body) \o (t \o Crlf)
        /\ Front(ReadLines(Body')) = Append(Front(ReadLines(Body)), t)
    <3> DEFINE b == Body
    <3>1. b \in Text /\ Last(SplitLines(b)) = <<>>  BY <2>2, <2>3
    <3> HIDE DEF b
    <3> DEFINE new == b \o (Escaped(t) \o <<Lf>>)
    <3>2. /\ Last(SplitLines(new)) = <<>>
          /\ Canonical(new) = Canonical(b) \o (t \o Crlf)
          /\ Front(ReadLines(new)) = Append(Front(ReadLines(b)), t)
      BY <1>5, <3>1, ReadOneMore
    <3>3. Body' = new  BY <2>3 DEF b, x
    <3> QED  BY <3>2, <3>3 DEF b
  <2>6. hashed' = Canonical(Body')  BY <1>3, <1>6, <2>2, <2>5
  <2>7. ASSUME LinesFit'
        PROVE  /\ Front(ReadLines(Body')) = LinesOf(SubSeq(doc', 1, docPos'))
               /\ docPos' < Len(doc') => Last(SplitLines(SubSeq(doc', 1, docPos'))) = <<>>
    <3>1. LinesFit  BY <1>3, <2>7 DEF LinesFit
    <3>2. docPos < Len(doc)
      <4>1. Len(line) > 0
        <5>1. m \o <<Lf>> \in Text  BY <1>4, <1>8, ConcatProperties DEF Text
        <5>2. line \in Text  BY <1>4, <5>1
        <5> QED  BY <1>3, <5>2, TextIs
      <4>2. docPos + Len(line) <= Len(doc)  BY <1>2 DEF IsLine
      <4>3. Len(line) \in Int /\ docPos \in Int /\ Len(doc) \in Int
        <5>1. m \o <<Lf>> \in Text  BY <1>4, <1>8, ConcatProperties DEF Text
        <5>2. line \in Text  BY <1>4, <5>1
        <5> QED  BY <1>1, <5>2, TextIs
      <4> QED  BY <4>1, <4>2, <4>3
    <3>3. Last(SplitLines(SubSeq(doc, 1, docPos))) = <<>>  BY <2>2, <3>1, <3>2
    <3>4. /\ LinesOf(SubSeq(doc, 1, docPos + Len(line)))
               = Append(LinesOf(SubSeq(doc, 1, docPos)), Trimmed(m, LineWhites))
          /\ docPos + Len(line) < Len(doc)
               => Last(SplitLines(SubSeq(doc, 1, docPos + Len(line)))) = <<>>
          /\ CString(m) = m
      BY <1>1, <1>2, <1>3, <3>1, <3>3, LineFits
    <3> QED  BY <1>3, <1>5, <2>2, <2>5, <3>1, <3>4
  <2> QED  BY <2>2, <2>4, <2>5, <2>6, <2>7
<1>17. SignedTextIsReadable'
  <2>1. signState' # "done" /\ packet' = <<>>  BY <1>3 DEF SignInv, NothingYet
  <2> QED  BY <2>1 DEF SignedTextIsReadable, ReaderHashesTheSame, TextIsKept, PacketIsWellFormed
<1> QED  BY <1>14, <1>15, <1>16, <1>17 DEF SignInv

\* The invariant holds before anything is signed.
LEMMA SignInvInit == SignInit => SignInv
<1> SUFFICES ASSUME SignInit  PROVE SignInv  OBVIOUS
<1>1. doc \in Text
  <2>1. PICK m \in 0..MaxDoc : doc \in [1..m -> DocAlphabet]
    BY DEF SignInit, BoundedSeq, SeqOf
  <2>2. m \in Nat /\ DocAlphabet \subseteq Int  BY SignAssumption, <2>1
  <2>3. \A i \in 1..m : doc[i] \in Int  BY <2>1, <2>2
  <2>4. [i \in 1..m |-> doc[i]] \in Seq(Int)  BY <2>2, <2>3, IsASeq
  <2> QED  BY <2>1, <2>4 DEF Text
<1>2. <<>> \in Text /\ Len(<<>>) = 0  BY DEF Text
<1>3. SignTypeOK
  <2>1. Len(doc) \in Nat /\ room \in Nat  BY <1>1, TextIs, SignAssumption DEF SignInit
  <2> QED  BY <1>1, <1>2, <2>1 DEF SignInit, SignTypeOK
<1>4. NothingYet /\ SignedSoFar /\ SignedTextIsReadable
  BY DEF SignInit, NothingYet, SignedSoFar, SignedTextIsReadable, ReaderHashesTheSame,
         TextIsKept, PacketIsWellFormed
<1> QED  BY <1>3, <1>4 DEF SignInv

\* Nothing but the header is written.
LEMMA SignHeaderStep == ASSUME SignInv, SignHeader  PROVE SignInv'
<1> DEFINE x == <<Header>>
<1>1. SignTypeOK /\ clear = <<>> /\ hashed = <<>> /\ docPos = 0 /\ packet = <<>>
  BY DEF SignInv, NothingYet, SignHeader
<1>2. x \in Text /\ Len(x) = 1  BY DEF Text, Header
<1>3. /\ clear' = CbPuts(x) /\ signState' = "lines" /\ doc' = doc /\ docPos' = docPos
      /\ hashed' = hashed /\ room' = room /\ packet' = packet
  BY DEF SignHeader
<1> HIDE DEF x
<1>4. /\ clear' \in Text /\ Len(clear') <= room
      /\ Len(clear') < room => clear' = clear \o x
  <2>1. /\ CbPuts(x) \in Text /\ Len(CbPuts(x)) <= room
        /\ Len(CbPuts(x)) < room => CbPuts(x) = clear \o x /\ Len(clear) < room
    BY <1>1, <1>2, CbPutsIs
  <2> QED  BY <1>3, <2>1
<1>5. SignTypeOK'  BY <1>1, <1>3, <1>4 DEF SignTypeOK
<1>6. NothingYet'  BY <1>1, <1>3 DEF NothingYet
<1>7. SignedSoFar'
  <2> SUFFICES ASSUME Len(clear') < room
               PROVE  /\ Len(clear') >= 1 /\ Last(SplitLines(Body')) = <<>>
                      /\ hashed' = Canonical(Body')
                      /\ LinesFit' =>
                           /\ Front(ReadLines(Body')) = LinesOf(SubSeq(doc', 1, docPos'))
                           /\ docPos' < Len(doc') =>
                                Last(SplitLines(SubSeq(doc', 1, docPos'))) = <<>>
    BY <1>3 DEF SignedSoFar, Body
  <2>1. clear' = x /\ Len(clear') = 1
    <3>1. <<>> \o x = x  BY <1>2, ConcatEmptySeq DEF Text
    <3> QED  BY <1>1, <1>2, <1>4, <3>1
  <2>2. Body' = <<>>
    <3>1. SubSeq(clear', 2, 1) = <<>>  BY SubSeqEmpty
    <3> QED  BY <2>1, <3>1 DEF Body
  <2> DEFINE one == <<<<>>>>
  <2>3. one \in Seq(Text) /\ Len(one) = 1 /\ one[1] = <<>> /\ <<>> \in Text
    <3>1. <<>> \in Text  BY DEF Text
    <3> QED  BY <3>1
  <2>4. SplitLines(<<>>) = one  BY SplitOfEmpty
  <2> HIDE DEF one
  <2>5. Last(one) = <<>> /\ Front(one) = <<>>
    <3>1. SubSeq(one, 1, 0) = <<>>  BY SubSeqEmpty
    <3> QED  BY <2>3, <3>1 DEF Last, Front
  <2> DEFINE read == ReadLines(<<>>)
             canon == CanonicalLines(<<>>)
  <2>6. /\ read \in Seq(Text) /\ Len(read) = Len(one)
        /\ canon \in Seq(Text) /\ Len(canon) = Len(one)
        /\ \A k \in 1..Len(one) : /\ read[k] = Unescaped(one[k])
                                  /\ canon[k] = Trimmed(read[k], ReaderWhites)
        /\ Canonical(<<>>) = Joined(canon)
    BY <2>3, <2>4, ReadLinesAre
  <2> HIDE DEF read, canon
  <2>7. read[1] = <<>> /\ canon[1] = <<>>  BY <2>3, <2>6, NothingIsNothing
  <2>8. canon = one  BY <2>3, <2>6, <2>7, SeqEqual
  <2>9. Canonical(<<>>) = <<>>  BY <2>6, <2>8, JoinOfNone DEF one
  <2>10. Front(read) = <<>>
    <3>1. Len(read) - 1 = 0 /\ SubSeq(read, 1, 0) = <<>>  BY <2>3, <2>6, SubSeqEmpty
    <3> QED  BY <3>1 DEF Front
  <2>11. SubSeq(doc', 1, docPos') = <<>>
    <3>1. SubSeq(doc', 1, 0) = <<>>  BY SubSeqEmpty
    <3> QED  BY <1>1, <1>3, <3>1
  <2>12. LinesOf(<<>>) = <<>>
    <3> DEFINE all == <<>>
    <3>1. all \in Seq(Text) /\ Len(all) = 0  OBVIOUS
    <3>2. all = IF Last(SplitLines(<<>>)) = <<>> THEN Front(SplitLines(<<>>)) ELSE SplitLines(<<>>)
      BY <2>4, <2>5
    <3>3. LinesOf(<<>>) = [k \in 1..Len(all) |-> Trimmed(all[k], LineWhites)]
      <4> HIDE DEF all
      <4> QED  BY <3>1, <3>2, LinesOfIs
    <3> DEFINE F == [k \in 1..0 |-> Trimmed(all[k], LineWhites)]
    <3>4. F \in Seq(Text)
      <4>1. \A k \in 1..0 : Trimmed(all[k], LineWhites) \in Text  OBVIOUS
      <4>2. 0 \in Nat  OBVIOUS
      <4> QED  BY <4>1, <4>2, IsASeq
    <3>5. DOMAIN F = 1..0 /\ DOMAIN F = 1..Len(F) /\ Len(F) \in Nat
      <4>1. DOMAIN F = 1..0  OBVIOUS
      <4> HIDE DEF F
      <4> QED  BY <3>4, <4>1, LenProperties
    <3>6. F = <<>>
      <4> HIDE DEF F
      <4>1. Len(F) = 0  BY <3>5
      <4> QED  BY <3>4, <4>1, EmptySeq
    <3> QED  BY <3>1, <3>3, <3>6
  <2>13. Len(clear') >= 1 /\ Last(SplitLines(Body')) = <<>>  BY <2>1, <2>2, <2>4, <2>5
  <2>14. hashed' = Canonical(Body')  BY <1>1, <1>3, <2>2, <2>9
  <2>15. Front(ReadLines(Body')) = LinesOf(SubSeq(doc', 1, docPos'))
    <3>1. ReadLines(Body') = read  BY <2>2 DEF read
    <3> QED  BY <2>10, <2>11, <2>12, <3>1
  <2>16. Last(SplitLines(SubSeq(doc', 1, docPos'))) = <<>>  BY <2>4, <2>5, <2>11
  <2> QED  BY <2>13, <2>14, <2>15, <2>16
<1>8. SignedTextIsReadable'
  <2>1. signState' # "done" /\ packet' = <<>>  BY <1>1, <1>3
  <2> QED  BY <2>1 DEF SignedTextIsReadable, ReaderHashesTheSame, TextIsKept, PacketIsWellFormed
<1> QED  BY <1>5, <1>6, <1>7, <1>8 DEF SignInv

\* The signature is written.
LEMMA SignEndStep == ASSUME SignInv, SignEnd  PROVE SignInv'
<1>1. /\ SignTypeOK /\ signState = "lines" /\ docPos = Len(doc) /\ packet = <<>>
      /\ doc' = doc /\ docPos' = docPos /\ room' = room
  BY DEF SignInv, NothingYet, SignEnd
<1>2. /\ doc \in Text /\ Len(doc) \in Nat /\ clear \in Text /\ hashed \in Text
      /\ Len(clear) \in Nat /\ room \in Nat /\ Len(clear) <= room
  BY <1>1, TextIs DEF SignTypeOK
<1>3. CASE ~Fits(<<Lf>>)
  <2>1. /\ signState' = "failed" /\ hashed' = hashed /\ packet' = packet /\ clear' = clear
    BY <1>3 DEF SignEnd
  <2>2. SignTypeOK'  BY <1>1, <2>1 DEF SignTypeOK
  <2>3. NothingYet' /\ SignedSoFar' /\ SignedTextIsReadable'
    BY <1>1, <2>1 DEF NothingYet, SignedSoFar, SignedTextIsReadable, ReaderHashesTheSame,
                      TextIsKept, PacketIsWellFormed
  <2> QED  BY <2>2, <2>3 DEF SignInv
<1>4. CASE Fits(<<Lf>>)
  <2> DEFINE x == <<Lf, Signature>>
             h == <<1, 2>>
             body == PacketBody(h)
             pkt == <<136, Len(body)>> \o body
  <2>1. x \in Text /\ Len(x) = 2 /\ h \in Text /\ Len(h) = 2  BY DEF Text, Lf, Signature
  <2>2. /\ hashed' = hashed \o HashTrailer /\ packet' = pkt /\ clear' = CbPuts(x)
        /\ signState' = IF Fits(x) THEN "done" ELSE "failed"
    BY <1>4 DEF SignEnd
  <2>3. /\ pkt \in Text /\ pkt[2] = Len(pkt) - 2
        /\ pkt[7] = 0 /\ pkt[8] = 6 /\ pkt[9] = 5
        /\ pkt[15] = 0 /\ pkt[16] = 10 /\ pkt[17] = 9
        /\ SubSeq(pkt, 3, 14) = PacketHead
        /\ SubSeq(pkt, 19, 26) = SubSeq(Fingerprint, 13, 20)
        /\ SubSeq(pkt, 29, Len(pkt)) = Mpis
    <3> HIDE DEF h
    <3> QED  BY <2>1, PacketIs
  <2> HIDE DEF x, pkt
  <2>4. clear' \in Text /\ Len(clear') <= room
    <3>1. CbPuts(x) \in Text /\ Len(CbPuts(x)) <= room  BY <1>1, <2>1, CbPutsIs
    <3> QED  BY <2>2, <3>1
  <2>5. HashTrailer \in Text  BY DEF HashTrailer, PacketHead, Text
  <2>6. SignTypeOK'
    <3>1. hashed' \in Text  BY <1>2, <2>2, <2>5, ConcatProperties DEF Text
    <3> QED  BY <1>1, <2>2, <2>4, <3>1 DEF SignTypeOK
  <2>7. NothingYet' /\ SignedSoFar'  BY <2>2 DEF NothingYet, SignedSoFar
  <2>8. PacketIsWellFormed'
    <3> DEFINE n == 256 * pkt[7] + pkt[8]
               u == 256 * pkt[9 + n] + pkt[10 + n]
    <3>1. packet' = pkt  BY <2>2
    <3>2. n = 6  BY <2>3
    <3> HIDE DEF n
    <3>3. 9 + n = 15 /\ 10 + n = 16 /\ 11 + n = 17 /\ 13 + n = 19  BY <3>2
    <3>4. u = 10
      <4>1. pkt[9 + n] = 0 /\ pkt[10 + n] = 10  BY <2>3, <3>3
      <4> QED  BY <4>1
    <3> HIDE DEF u
    <3>5. 10 + n + u = 26 /\ 13 + n + u = 29  BY <3>2, <3>4
    <3>6. pkt[9] + 1 = n  BY <2>3, <3>2
    <3>7. pkt[11 + n] + 1 = u
      <4>1. pkt[11 + n] = 9  BY <2>3, <3>3
      <4> QED  BY <3>4, <4>1
    <3>8. SubSeq(pkt, 13 + n, 10 + n + u) = SubSeq(Fingerprint, 13, 20)  BY <2>3, <3>3, <3>5
    <3>9. SubSeq(pkt, 13 + n + u, Len(pkt)) = Mpis  BY <2>3, <3>5
    <3>10. /\ pkt[2] = Len(pkt) - 2
           /\ pkt[9] + 1 = n /\ pkt[11 + n] + 1 = u
           /\ SubSeq(pkt, 13 + n, 10 + n + u) = SubSeq(Fingerprint, 13, 20)
           /\ SubSeq(pkt, 13 + n + u, Len(pkt)) = Mpis
      BY <2>3, <3>6, <3>7, <3>8, <3>9
    <3>11. WellFormed(pkt)  BY <3>10 DEF WellFormed, n, u
    <3> QED  BY <3>1, <3>11 DEF PacketIsWellFormed
  <2>9. ASSUME signState' = "done"
        PROVE  /\ hashed' = Canonical(SignedText(clear')) \o TrailerOf(packet')
               /\ LinesFit' => Front(ReadLines(SignedText(clear'))) = LinesOf(doc')
    <3>1. Fits(x)  BY <2>2, <2>9
    <3>2. clear' = clear \o x
      <4>1. Fits(x) => CbPuts(x) = clear \o x  BY <1>1, <2>1, CbPutsIs
      <4> QED  BY <2>2, <3>1, <4>1
    <3>3. Len(clear) < room  BY <1>2, <2>1, <3>1 DEF Fits
    <3>4. /\ Len(clear) >= 1 /\ hashed = Canonical(Body)
          /\ LinesFit => Front(ReadLines(Body)) = LinesOf(SubSeq(doc, 1, docPos))
      BY <1>1, <3>3 DEF SignInv, SignedSoFar
    <3>5. SignedText(clear') = Body
      <4>1. Len(clear \o x) - 2 = Len(clear)
        <5>1. Len(clear \o x) = Len(clear) + Len(x)  BY <1>2, <2>1, ConcatProperties DEF Text
        <5> QED  BY <1>2, <2>1, <5>1
      <4>2. SubSeq(clear \o x, 2, Len(clear)) = SubSeq(clear, 2, Len(clear))
        BY <1>2, <2>1, <3>4, BodyGrows
      <4> QED  BY <3>2, <4>1, <4>2 DEF SignedText, Body
    <3>6. TrailerOf(pkt) = HashTrailer
      <4>1. 6 + 256 * pkt[7] + pkt[8] = 12 /\ 12 \div 256 = 0 /\ 12 % 256 = 12  BY <2>3
      <4>2. SubSeq(pkt, 3, 2 + 12) = PacketHead  BY <2>3
      <4> DEFINE n == 6 + 256 * pkt[7] + pkt[8]
      <4>3. TrailerOf(pkt) = SubSeq(pkt, 3, 2 + n) \o <<4, 255, 0, 0, n \div 256, n % 256>>
        BY DEF TrailerOf
      <4>4. n = 12  BY <4>1
      <4> HIDE DEF n
      <4> QED  BY <4>1, <4>2, <4>3, <4>4 DEF HashTrailer
    <3>7. SubSeq(doc, 1, docPos) = doc  BY <1>1, <1>2, SubSeqFull DEF Text
    <3>8. LinesFit' => LinesFit  BY <1>1 DEF LinesFit
    <3> QED  BY <1>1, <2>2, <3>4, <3>5, <3>6, <3>7, <3>8
  <2>10. SignedTextIsReadable'
    BY <2>8, <2>9 DEF SignedTextIsReadable, ReaderHashesTheSame, TextIsKept
  <2> QED  BY <2>6, <2>7, <2>10 DEF SignInv
<1> QED  BY <1>3, <1>4

\* A step of something else leaves the invariant.
LEMMA SignStutter == ASSUME SignInv, UNCHANGED signVars  PROVE SignInv'
<1>1. /\ doc' = doc /\ docPos' = docPos /\ hashed' = hashed /\ clear' = clear
      /\ room' = room /\ packet' = packet /\ signState' = signState
  BY DEF signVars
<1>2. SignTypeOK' /\ NothingYet'  BY <1>1 DEF SignInv, SignTypeOK, NothingYet
<1>3. LinesFit' = LinesFit /\ Body' = Body  BY <1>1 DEF LinesFit, Body
<1>4. SignedSoFar'  BY <1>1, <1>3 DEF SignInv, SignedSoFar
<1>5. ReaderHashesTheSame' /\ TextIsKept'
  BY <1>1, <1>3 DEF SignInv, SignedTextIsReadable, ReaderHashesTheSame, TextIsKept
<1>6. PacketIsWellFormed'
  BY <1>1 DEF SignInv, SignedTextIsReadable, PacketIsWellFormed
<1> QED  BY <1>2, <1>4, <1>5, <1>6 DEF SignInv, SignedTextIsReadable

\* A document of any length and any characters, signed with a line buffer and an
\* output of any size: a reader of what is written hashes what was hashed, sees the
\* lines of the document when they fit, and finds the key in the packet
\* (clearsign_buffer, canonline, dashescline).
THEOREM SignedTextIsReadableHolds == SignSpec => []SignedTextIsReadable
<1>1. SignInv /\ [SignNext]_signVars => SignInv'
  BY SignHeaderStep, SignLineStep, SignEndStep, SignStutter DEF SignNext
<1>2. SignInv => SignedTextIsReadable  BY DEF SignInv
<1> QED  BY SignInvInit, <1>1, <1>2, PTL DEF SignSpec

----------------------------------------------------------------------------
(***************************************************************************)
(* Hashes.  A context holds the data that it was given: the whole blocks   *)
(* have been compressed, the buffer has what is left, and the counter says *)
(* how long it is, modulo its width (Holds).  Update keeps this, whatever  *)
(* the buffer holds and however many blocks the piece has, with a loop     *)
(* whose course is a function on the number of blocks.  Final then makes   *)
(* the last one or two blocks of the padded message of the standard.  So   *)
(* does an HMAC, whose pads are a first piece of one block.                *)
(***************************************************************************)

(* Quotients and remainders.                                                *)

\* Multiples of c are c apart.
LEMMA MultiplesApart ==
  ASSUME NEW c \in Nat \ {0}, NEW p \in Int, NEW q \in Int, p < q
  PROVE  p * c + c <= q * c
<1>1. PICK k \in Nat : q = p + 1 + k
  <2>1. q - p - 1 \in Nat /\ q = p + 1 + (q - p - 1)  OBVIOUS
  <2> QED  BY <2>1
<1>2. q * c = p * c + c + k * c  BY <1>1
<1>3. k * c \in Nat /\ p * c \in Int  OBVIOUS
<1> QED  BY <1>2, <1>3

\* A number is its quotient times the divisor, and its remainder.
LEMMA DivModOf ==
  ASSUME NEW a \in Int, NEW c \in Nat \ {0}
  PROVE  /\ a \div c \in Int /\ a % c \in 0..(c - 1)
         /\ a = (a \div c) * c + (a % c)
<1>1. a \div c \in Int /\ a % c \in 0..(c - 1)  OBVIOUS
<1>2. a = c * (a \div c) + (a % c)  OBVIOUS
<1>3. c * (a \div c) = (a \div c) * c  BY <1>1
<1> QED  BY <1>1, <1>2, <1>3

\* And they are the only ones.
LEMMA DivModIs ==
  ASSUME NEW a \in Int, NEW c \in Nat \ {0}, NEW q \in Int, NEW r \in 0..(c - 1),
         a = q * c + r
  PROVE  a \div c = q /\ a % c = r
<1>1. /\ a \div c \in Int /\ a % c \in 0..(c - 1)
      /\ a = (a \div c) * c + (a % c)
  BY DivModOf
<1>2. ~(q < a \div c)  BY <1>1, MultiplesApart
<1>3. ~(a \div c < q)  BY <1>1, MultiplesApart
<1> QED  BY <1>1, <1>2, <1>3

\* The quotient of a natural number is one.
LEMMA DivOfNat ==
  ASSUME NEW a \in Nat, NEW c \in Nat \ {0}
  PROVE  a \div c \in Nat
<1>1. /\ a \div c \in Int /\ a % c \in 0..(c - 1)
      /\ a = (a \div c) * c + (a % c)
  BY DivModOf
<1>2. CASE a \div c < 0
  <2>1. (a \div c) * c + c <= 0 * c  BY <1>1, <1>2, MultiplesApart
  <2> QED  BY <1>1, <2>1
<1> QED  BY <1>1, <1>2

\* The remainder of a sum, of which one summand has been reduced already.
LEMMA ModOfSum ==
  ASSUME NEW a \in Int, NEW b \in Int, NEW c \in Nat \ {0}
  PROVE  ((a % c) + b) % c = (a + b) % c
<1>1. /\ a \div c \in Int /\ a % c \in 0..(c - 1)
      /\ a = (a \div c) * c + (a % c)
  BY DivModOf
<1> DEFINE q == a \div c
           s == a + b
<1>2. /\ s \div c \in Int /\ s % c \in 0..(c - 1)
      /\ s = (s \div c) * c + (s % c)
  BY DivModOf
<1>3. (a % c) + b = (s \div c - q) * c + (s % c)
  <2>1. (s \div c - q) * c = (s \div c) * c - q * c  BY <1>1, <1>2
  <2>2. q * c \in Int /\ (s \div c) * c \in Int  BY <1>1, <1>2
  <2> QED  BY <1>1, <1>2, <2>1, <2>2
<1> QED
  <2> HIDE DEF s, q
  <2>1. s \div c - q \in Int  BY <1>1, <1>2 DEF q
  <2>2. (a % c) + b \in Int  BY <1>1
  <2>3. ((a % c) + b) % c = s % c  BY <1>2, <1>3, <2>1, <2>2, DivModIs
  <2> QED  BY <2>3 DEF s

----------------------------------------------------------------------------
(* Constants and blocks.                                                    *)

\* The sizes of the code.
LEMMA Sizes ==
  /\ HashBlock \in Nat \ {0} /\ HashWord \in Nat \ {0} /\ HashCount \in Nat \ {0}
  /\ 2 * HashWord < HashBlock /\ 8 * HashBlock < HashCount
  /\ HashDigest \in 1..HashBlock
  /\ AllWords \in Nat \ {0} /\ HashBlock = AllWords * HashWord
  /\ \E k \in Nat \ {0} : HashCount = k * (8 * HashBlock)
<1>1. /\ HashBlock \in Nat \ {0} /\ HashWord \in Nat \ {0} /\ HashCount \in Nat \ {0}
      /\ 2 * HashWord < HashBlock /\ 8 * HashBlock < HashCount
      /\ HashDigest \in 1..HashBlock
      /\ HashBlock % HashWord = 0 /\ HashCount % (8 * HashBlock) = 0
  BY HashAssumption
<1>2. HashBlock = AllWords * HashWord /\ AllWords \in Int
  BY <1>1, DivModOf DEF AllWords
<1>3. AllWords \in Nat /\ AllWords # 0
  BY <1>1, <1>2, DivOfNat DEF AllWords
<1> DEFINE k == HashCount \div (8 * HashBlock)
<1>4. 8 * HashBlock \in Nat \ {0}  BY <1>1
<1>5. HashCount = k * (8 * HashBlock) /\ k \in Nat
  <2>1. HashCount = k * (8 * HashBlock) + (HashCount % (8 * HashBlock)) /\ k \in Int
    <3>1. HashCount \in Int  BY <1>1
    <3> QED  BY <3>1, <1>4, DivModOf
  <2>2. k \in Nat
    <3>1. HashCount \in Nat  BY <1>1
    <3> QED  BY <3>1, <1>4, DivOfNat
  <2>3. k * (8 * HashBlock) \in Int  BY <1>4, <2>2
  <2> HIDE DEF k
  <2> QED  BY <1>1, <2>1, <2>2, <2>3
<1>6. k # 0  BY <1>1, <1>5
<1> QED  BY <1>1, <1>2, <1>3, <1>5, <1>6

\* The last byte of a word when it is read from the other end.
Mirror(i) == LET w == (i - 1) \div HashWord IN 2 * w * HashWord + HashWord + 1 - i

\* It is in the same word, and its own is the byte itself.
LEMMA MirrorIs ==
  ASSUME NEW w \in Nat, NEW r \in 0..(HashWord - 1)
  PROVE  Mirror(w * HashWord + r + 1) = w * HashWord + (HashWord - r)
<1>1. w * HashWord \in Nat /\ HashWord \in Nat \ {0}  BY Sizes
<1>2. (w * HashWord + r) \div HashWord = w
  <2>1. w * HashWord + r \in Int  BY <1>1
  <2> QED  BY <1>1, <2>1, DivModIs
<1>3. (w * HashWord + r + 1) - 1 = w * HashWord + r  BY <1>1
<1>4. 2 * w * HashWord = w * HashWord + w * HashWord  BY <1>1
<1> QED  BY <1>1, <1>2, <1>3, <1>4 DEF Mirror

LEMMA WordOf ==
  ASSUME NEW i \in 1..HashBlock
  PROVE  \E w \in 0..(AllWords - 1), r \in 0..(HashWord - 1) : i = w * HashWord + r + 1
<1> DEFINE w == (i - 1) \div HashWord
           r == (i - 1) % HashWord
<1>1. i - 1 \in Nat /\ HashWord \in Nat \ {0} /\ HashBlock = AllWords * HashWord /\ AllWords \in Nat
  BY Sizes
<1>2. w \in Nat /\ r \in 0..(HashWord - 1) /\ i - 1 = w * HashWord + r
  <2>1. i - 1 \in Nat /\ i - 1 \in Int /\ HashWord \in Nat \ {0}  BY <1>1
  <2>2. w \in Nat  BY <2>1, DivOfNat
  <2>3. r \in 0..(HashWord - 1) /\ i - 1 = w * HashWord + r  BY <2>1, DivModOf
  <2> QED  BY <2>2, <2>3
<1> HIDE DEF w, r
<1>3. w * HashWord \in Nat  BY <1>1, <1>2
<1>4. i = w * HashWord + r + 1  BY <1>2, <1>3, <1>1
<1>5. w < AllWords
  <2>1. CASE AllWords = w  BY <1>1, <1>2, <1>3, <2>1, Sizes
  <2>2. CASE AllWords < w
    <3>1. AllWords * HashWord + HashWord <= w * HashWord  BY <1>1, <1>2, <2>2, MultiplesApart
    <3> QED  BY <1>1, <1>2, <1>3, <3>1, Sizes
  <2> QED  BY <1>1, <1>2, <2>1, <2>2
<1>6. w \in 0..(AllWords - 1)
  <2>1. AllWords \in Nat  BY <1>1
  <2> QED  BY <2>1, <1>2, <1>5
<1> QED  BY <1>2, <1>4, <1>6

LEMMA MirrorFacts ==
  ASSUME NEW i \in 1..HashBlock
  PROVE  /\ Mirror(i) \in 1..HashBlock /\ Mirror(Mirror(i)) = i
         /\ (i - 1) \div HashWord < AllWords
<1>1. PICK w \in 0..(AllWords - 1), r \in 0..(HashWord - 1) : i = w * HashWord + r + 1
  BY WordOf
<1>2. /\ HashWord \in Nat \ {0} /\ AllWords \in Nat /\ HashBlock = AllWords * HashWord
      /\ w \in Nat /\ w * HashWord \in Nat
  BY <1>1, Sizes
<1>3. Mirror(i) = w * HashWord + (HashWord - r)  BY <1>1, <1>2, MirrorIs
<1>4. w * HashWord + HashWord <= HashBlock  BY <1>1, <1>2, MultiplesApart
<1>5. Mirror(i) = w * HashWord + (HashWord - 1 - r) + 1 /\ HashWord - 1 - r \in 0..(HashWord - 1)
  BY <1>2, <1>3
<1>6. Mirror(Mirror(i)) = w * HashWord + (HashWord - (HashWord - 1 - r))
  BY <1>2, <1>5, MirrorIs
<1>7. (i - 1) \div HashWord = w
  <2>1. i - 1 = w * HashWord + r  BY <1>1, <1>2
  <2> QED  BY <1>2, <2>1, DivModIs
<1> QED  BY <1>1, <1>2, <1>3, <1>4, <1>6, <1>7

\* A block of bytes of S.
BlockOf(S) == [1..HashBlock -> S]

\* Blocks of the same bytes are the same.
LEMMA SameBlock ==
  ASSUME NEW S, NEW b \in BlockOf(S), NEW c \in BlockOf(S), \A i \in 1..HashBlock : b[i] = c[i]
  PROVE  b = c
<1>1. b = [i \in 1..HashBlock |-> b[i]] /\ c = [i \in 1..HashBlock |-> c[i]]  BY DEF BlockOf
<1> QED  BY <1>1

\* The words of a block that have been reversed twice are as they were.
LEMMA ReversedTwice ==
  ASSUME NEW S, NEW b \in BlockOf(S)
  PROVE  /\ ReversedWords(b, AllWords) \in BlockOf(S)
         /\ \A i \in 1..HashBlock : ReversedWords(b, AllWords)[i] = b[Mirror(i)]
         /\ ReversedWords(ReversedWords(b, AllWords), AllWords) = b
<1> DEFINE R(c) == ReversedWords(c, AllWords)
<1>1. ASSUME NEW c \in BlockOf(S), NEW i \in 1..HashBlock
      PROVE  R(c)[i] = c[Mirror(i)] /\ R(c)[i] \in S
  <2>1. Mirror(i) \in 1..HashBlock /\ (i - 1) \div HashWord < AllWords  BY MirrorFacts
  <2>2. R(c)[i] = c[Mirror(i)]  BY <2>1 DEF ReversedWords, Mirror
  <2> QED  BY <2>1, <2>2 DEF BlockOf
<1>2. ASSUME NEW c \in BlockOf(S)  PROVE R(c) \in BlockOf(S)
  <2>1. R(c) = [i \in 1..HashBlock |-> R(c)[i]]  BY DEF ReversedWords
  <2> HIDE DEF R
  <2> QED  BY <1>1, <2>1 DEF BlockOf
<1> HIDE DEF R
<1>3. R(R(b)) = b
  <2>1. R(b) \in BlockOf(S) /\ R(R(b)) \in BlockOf(S)  BY <1>2
  <2>2. ASSUME NEW i \in 1..HashBlock  PROVE R(R(b))[i] = b[i]
    <3>1. Mirror(i) \in 1..HashBlock /\ Mirror(Mirror(i)) = i  BY MirrorFacts
    <3> QED  BY <1>1, <2>1, <3>1
  <2> QED  BY <2>1, <2>2, SameBlock
<1> QED  BY <1>1, <1>2, <1>3 DEF R

----------------------------------------------------------------------------
(* Contexts.                                                                *)

Contexts(S) ==
  [buffer : BlockOf(S), count : 0..(HashCount - 1), high : 0..(HashCount - 1),
   state : Seq(BlockOf(S))]

\* What the counter counts: bytes, or bits.
Counter(kind, n) == IF kind = "ripemd160" THEN n ELSE 8 * n

\* The counter says n bytes.
Counts(kind, ctx, n) ==
  /\ ctx.count = Counter(kind, n) % HashCount
  /\ ctx.high = (Counter(kind, n) \div HashCount) % HashCount

\* The first q blocks of the data have been compressed.
Stored(ctx, data, q) ==
  /\ Len(ctx.state) = q
  /\ \A b \in 1..q : \A i \in 1..HashBlock : ctx.state[b][i] = data[(b - 1) * HashBlock + i]

\* And the u bytes that follow are in the buffer.
Buffered(ctx, data, q, u) ==
  \A i \in 1..u : ctx.buffer[i] = data[q * HashBlock + i]

\* The context has been given the data.
Holds(S, kind, ctx, data) ==
  /\ ctx \in Contexts(S) /\ data \in Seq(S)
  /\ Counts(kind, ctx, Len(data))
  /\ \E q \in Nat, u \in 0..(HashBlock - 1) :
       Len(data) = q * HashBlock + u /\ Stored(ctx, data, q) /\ Buffered(ctx, data, q, u)

\* n is added to a number of two words: the carry is right.
LEMMA Carries ==
  ASSUME NEW n \in Nat, NEW m \in Nat, m < HashCount,
         NEW sum, sum = ((n % HashCount) + m) % HashCount
  PROVE  /\ sum = (n + m) % HashCount
         /\ sum < m <=> (n % HashCount) + m >= HashCount
         /\ ((n % HashCount) + m) \div HashCount = (IF sum < m THEN 1 ELSE 0)
         /\ (n + m) \div HashCount = n \div HashCount + (IF sum < m THEN 1 ELSE 0)
<1> DEFINE C == HashCount
           q == n \div C
           r == n % C
<1>1. C \in Nat \ {0} /\ n \in Int  BY Sizes
<1>2. q \in Nat /\ r \in 0..(C - 1) /\ n = q * C + r
  BY <1>1, DivModOf, DivOfNat
<1> HIDE DEF C, q, r
<1>3. q * C \in Nat  BY <1>1, <1>2
<1>4. sum = (r + m) % C  BY DEF C, r
<1>5. CASE r + m < C
  <2>1. r + m = 0 * C + (r + m) /\ r + m \in 0..(C - 1)  BY <1>1, <1>2, <1>5
  <2>2. (r + m) \div C = 0 /\ (r + m) % C = r + m
    BY <1>1, <2>1, DivModIs
  <2>3. n + m = q * C + (r + m)  BY <1>1, <1>2, <1>3
  <2>4. (n + m) \div C = q /\ (n + m) % C = r + m
    <3>1. n + m \in Int /\ C \in Nat \ {0} /\ q \in Int  BY <1>1, <1>2
    <3> QED  BY <2>1, <2>3, <3>1, DivModIs
  <2>5. sum = r + m /\ ~(sum < m)  BY <1>1, <1>2, <1>4, <2>2
  <2> QED  BY <1>1, <1>2, <1>4, <1>5, <2>2, <2>4, <2>5 DEF C, q, r
<1>6. CASE r + m >= C
  <2>1. r + m = 1 * C + (r + m - C) /\ r + m - C \in 0..(C - 1)
    BY <1>1, <1>2, <1>6 DEF C
  <2>2. (r + m) \div C = 1 /\ (r + m) % C = r + m - C
    <3>1. r + m \in Int /\ C \in Nat \ {0} /\ 1 \in Int  BY <1>1, <1>2
    <3> QED  BY <2>1, <3>1, DivModIs, Zenon
  <2>3. n + m = (q + 1) * C + (r + m - C)
    <3>1. (q + 1) * C = q * C + C  BY <1>1, <1>2
    <3> QED  BY <1>1, <1>2, <1>3, <3>1
  <2>4. (n + m) \div C = q + 1 /\ (n + m) % C = r + m - C
    <3>1. n + m \in Int /\ C \in Nat \ {0} /\ q + 1 \in Int  BY <1>1, <1>2
    <3> QED  BY <2>1, <2>3, <3>1, DivModIs
  <2>5. sum = r + m - C /\ sum < m  BY <1>1, <1>2, <1>4, <2>2
  <2> QED  BY <1>1, <1>2, <1>4, <1>6, <2>2, <2>4, <2>5 DEF C, q, r
<1> QED  BY <1>1, <1>2, <1>5, <1>6

\* Counted counts.
LEMMA CountedCounts ==
  ASSUME NEW S, NEW kind \in HashKinds, NEW ctx \in Contexts(S),
         NEW n \in Nat, Counts(kind, ctx, n), NEW m \in Nat, Counter(kind, m) < HashCount
  PROVE  /\ Counted(kind, ctx, m) \in Contexts(S)
         /\ Counts(kind, Counted(kind, ctx, m), n + m)
         /\ Counted(kind, ctx, m).state = ctx.state
         /\ Counted(kind, ctx, m).buffer = ctx.buffer
<1> DEFINE c == Counted(kind, ctx, m)
           N == Counter(kind, n)
           add == Counter(kind, m)
           sum == (ctx.count + add) % HashCount
           carry == IF sum < add THEN 1 ELSE 0
           h == (ctx.high + carry) % HashCount
<1>1. N \in Nat /\ add \in Nat /\ add < HashCount /\ Counter(kind, n + m) = N + add
  BY DEF Counter
<1>2. HashCount \in Nat \ {0}  BY Sizes
<1>3. ctx.count = N % HashCount /\ ctx.high = (N \div HashCount) % HashCount
  BY DEF Counts
<1>4. add = IF kind = "ripemd160" THEN m ELSE 8 * m  BY DEF Counter
<1> HIDE DEF N, add
<1>5. /\ sum = (N + add) % HashCount
      /\ (ctx.count + add) \div HashCount = carry
      /\ (N + add) \div HashCount = N \div HashCount + carry
  BY <1>1, <1>3, Carries
<1>6. c = [ctx EXCEPT !.count = sum, !.high = h]
  BY <1>4, <1>5 DEF Counted
<1>7. ctx.high \in Int /\ carry \in Int /\ N \div HashCount \in Int
  BY <1>1, <1>2, DivOfNat DEF Contexts
<1>8. h = ((N + add) \div HashCount) % HashCount
  <2> HIDE DEF carry
  <2>1. h = ((N \div HashCount) + carry) % HashCount
    BY <1>2, <1>3, <1>7, ModOfSum
  <2> QED  BY <1>5, <2>1
<1>9. sum \in 0..(HashCount - 1) /\ h \in 0..(HashCount - 1)
  <2>1. ctx.count + add \in Int /\ ctx.high + carry \in Int  BY <1>1, <1>7 DEF Contexts
  <2> HIDE DEF carry
  <2> QED  BY <1>2, <2>1, DivModOf
<1> HIDE DEF sum, h
<1>10. /\ c \in Contexts(S) /\ c.state = ctx.state /\ c.buffer = ctx.buffer
       /\ c.count = sum /\ c.high = h
  BY <1>6, <1>9 DEF Contexts
<1>11. Counts(kind, c, n + m)
  BY <1>1, <1>5, <1>8, <1>10 DEF Counts
<1> QED  BY <1>10, <1>11

\* The buffer holds what is left of the whole blocks.
LEMMA UsedIs ==
  ASSUME NEW kind \in HashKinds, NEW ctx, NEW q \in Nat, NEW u \in 0..(HashBlock - 1),
         Counts(kind, ctx, q * HashBlock + u)
  PROVE  UsedSpace(kind, ctx) = u
<1>1. PICK k \in Nat \ {0} : HashCount = k * (8 * HashBlock)  BY Sizes
<1> DEFINE B == HashBlock
           C == HashCount
           n == q * B + u
<1>2. B \in Nat \ {0} /\ C \in Nat \ {0} /\ n \in Nat /\ u \in 0..(B - 1)  BY Sizes
<1>3. CASE kind = "ripemd160"
  <2>1. ctx.count = n % C /\ UsedSpace(kind, ctx) = ctx.count % B
    BY <1>3 DEF Counts, Counter, UsedSpace
  <2> DEFINE p == n \div C
  <2>2. p \in Int /\ ctx.count \in Int /\ n = p * C + ctx.count
    <3>1. n \in Int /\ C \in Nat \ {0}  BY <1>2
    <3>2. n % C \in 0..(C - 1) => n % C \in Int  BY <1>2
    <3> QED  BY <2>1, <3>1, <3>2, DivModOf, Zenon
  <2>3. ctx.count = (q - p * (8 * k)) * B + u
    <3>1. p * C = (p * (8 * k)) * B  BY <1>1, <1>2, <2>2
    <3>2. (q - p * (8 * k)) * B = q * B - (p * (8 * k)) * B  BY <1>2, <2>2
    <3>3. q * B \in Int /\ p * C \in Int  BY <1>2, <2>2
    <3> HIDE DEF p
    <3> QED  BY <1>2, <2>2, <3>1, <3>2, <3>3
  <2>4. q - p * (8 * k) \in Int  BY <2>2
  <2> HIDE DEF p
  <2>5. ctx.count % B = u
    <3>1. ctx.count \in Int /\ B \in Nat \ {0}  BY <1>2, <2>2
    <3> QED  BY <2>3, <2>4, <3>1, DivModIs
  <2> QED  BY <2>1, <2>5
<1>4. CASE kind # "ripemd160"
  <2>1. ctx.count = (8 * n) % C /\ UsedSpace(kind, ctx) = (ctx.count \div 8) % B
    BY <1>4 DEF Counts, Counter, UsedSpace
  <2> DEFINE p == (8 * n) \div C
             t == n - p * (k * B)
  <2>2. p \in Int /\ ctx.count \in Int /\ 8 * n = p * C + ctx.count
    <3>1. 8 * n \in Int  BY <1>2
    <3> QED  BY <1>2, <2>1, <3>1, DivModOf
  <2>3. t \in Int /\ ctx.count = t * 8 + 0
    <3>1. p * C = 8 * (p * (k * B))  BY <1>1, <1>2, <2>2
    <3>2. p * (k * B) \in Int  BY <1>2, <2>2
    <3> HIDE DEF p
    <3> QED  BY <1>2, <2>2, <3>1, <3>2
  <2>4. t = (q - p * k) * B + u
    <3>1. (q - p * k) * B = q * B - p * (k * B)
      <4> HIDE DEF p
      <4>1. p * k \in Int /\ (p * k) * B = p * (k * B)  BY <1>2, <2>2
      <4>2. (q - p * k) * B = q * B - (p * k) * B  BY <1>2, <4>1
      <4> QED  BY <4>1, <4>2
    <3>2. q * B \in Int /\ p * (k * B) \in Int  BY <1>2, <2>2
    <3> HIDE DEF p
    <3> QED  BY <1>2, <2>2, <3>1, <3>2
  <2>5. q - p * k \in Int  BY <2>2
  <2> HIDE DEF p, t
  <2>6. ctx.count \div 8 = t  BY <2>2, <2>3, DivModIs
  <2>7. t % B = u  BY <1>2, <2>3, <2>4, <2>5, DivModIs
  <2> QED  BY <2>1, <2>6, <2>7
<1> QED  BY <1>3, <1>4

----------------------------------------------------------------------------
(* What a piece of data does to a context.                                  *)

\* A full buffer is compressed, as it is.
LEMMA ProcessAppends ==
  ASSUME NEW S, NEW kind \in HashKinds, NEW ctx \in Contexts(S)
  PROVE  /\ Process(kind, ctx) \in Contexts(S)
         /\ Process(kind, ctx).state = Append(ctx.state, ctx.buffer)
         /\ Process(kind, ctx).count = ctx.count /\ Process(kind, ctx).high = ctx.high
<1> DEFINE B == ctx.buffer
           rev == ReversedWords(B, AllWords)
           b == IF kind = "ripemd160" THEN B ELSE rev
<1>1. B \in BlockOf(S) /\ ctx.state \in Seq(BlockOf(S))  BY DEF Contexts
<1>2. rev \in BlockOf(S) /\ ReversedWords(rev, AllWords) = B  BY <1>1, ReversedTwice
<1>3. Transform(kind, ctx.state, b) = Append(ctx.state, B)  BY <1>2 DEF Transform
<1>4. b \in BlockOf(S)  BY <1>1, <1>2
<1>5. Process(kind, ctx) = [ctx EXCEPT !.state = Append(ctx.state, B), !.buffer = b]
  BY <1>3 DEF Process
<1>6. Append(ctx.state, B) \in Seq(BlockOf(S))  BY <1>1, AppendProperties
<1> HIDE DEF b
<1> QED  BY <1>4, <1>5, <1>6 DEF Contexts

\* A state to which the next block of the data is appended.
LEMMA StoredNext ==
  ASSUME NEW S, NEW state \in Seq(BlockOf(S)), NEW block \in BlockOf(S), NEW data, NEW q \in Nat,
         NEW ctx, ctx.state = state, Stored(ctx, data, q),
         \A i \in 1..HashBlock : block[i] = data[q * HashBlock + i],
         NEW next, next.state = Append(state, block)
  PROVE  Stored(next, data, q + 1)
<1>1. Len(state) = q  BY DEF Stored
<1>2. /\ Len(next.state) = q + 1 /\ next.state[q + 1] = block
      /\ \A b \in 1..q : next.state[b] = state[b]
  BY <1>1, AppendProperties
<1>3. ASSUME NEW b \in 1..(q + 1), NEW i \in 1..HashBlock
      PROVE  next.state[b][i] = data[(b - 1) * HashBlock + i]
  <2>1. CASE b = q + 1
    <3>1. b - 1 = q /\ next.state[b] = block  BY <1>2, <2>1
    <3> QED  BY <3>1
  <2>2. CASE b \in 1..q
    <3>1. next.state[b] = state[b]  BY <1>2, <2>2
    <3>2. state[b][i] = data[(b - 1) * HashBlock + i]  BY <2>2 DEF Stored
    <3> QED  BY <3>1, <3>2
  <2>3. b = q + 1 \/ b \in 1..q  OBVIOUS
  <2> QED  BY <2>1, <2>2, <2>3, Zenon
<1> QED  BY <1>2, <1>3 DEF Stored

\* Data that fits is put behind what the buffer holds.
LEMMA FilledHolds ==
  ASSUME NEW S, NEW ctx \in Contexts(S), NEW data \in Seq(S),
         NEW used \in Nat, used + Len(data) <= HashBlock
  PROVE  /\ Filled(ctx, used, data) \in Contexts(S)
         /\ Filled(ctx, used, data).state = ctx.state
         /\ Filled(ctx, used, data).count = ctx.count /\ Filled(ctx, used, data).high = ctx.high
         /\ \A i \in 1..used : Filled(ctx, used, data).buffer[i] = ctx.buffer[i]
         /\ \A i \in 1..Len(data) : Filled(ctx, used, data).buffer[used + i] = data[i]
<1>1. HashBlock \in Nat \ {0} /\ Len(data) \in Nat  BY Sizes
<1> DEFINE new == [i \in 1..HashBlock |->
                     IF used < i /\ i <= used + Len(data) THEN data[i - used] ELSE ctx.buffer[i]]
<1>2. ctx.buffer \in BlockOf(S)  BY DEF Contexts
<1>3. ASSUME NEW i \in 1..HashBlock  PROVE new[i] \in S
  <2>1. CASE used < i /\ i <= used + Len(data)
    <3>1. i - used \in 1..Len(data)  BY <1>1, <2>1
    <3>2. data[i - used] \in S  BY <3>1, ElementOfSeq
    <3> QED  BY <2>1, <3>2
  <2>2. CASE ~(used < i /\ i <= used + Len(data))  BY <1>2, <2>2 DEF BlockOf
  <2> QED  BY <2>1, <2>2
<1>4. \A i \in 1..used : new[i] = ctx.buffer[i]  BY <1>1
<1>5. \A i \in 1..Len(data) : new[used + i] = data[i]
  <2> TAKE i \in 1..Len(data)
  <2>1. used + i \in 1..HashBlock /\ used < used + i /\ used + i <= used + Len(data)
        /\ (used + i) - used = i
    BY <1>1
  <2> QED  BY <2>1
<1>6. new \in BlockOf(S)
  <2>1. new = [i \in 1..HashBlock |-> new[i]]  OBVIOUS
  <2> HIDE DEF new
  <2> QED  BY <1>3, <2>1 DEF BlockOf
<1>7. Filled(ctx, used, data) = [ctx EXCEPT !.buffer = new]
  BY DEF Filled
<1> HIDE DEF new
<1> QED  BY <1>4, <1>5, <1>6, <1>7 DEF Contexts

\* Where a whole block is in the data.
LEMMA InBlock ==
  ASSUME NEW q \in Nat, NEW n \in Nat, q * HashBlock <= n, NEW b \in 1..q, NEW i \in 1..HashBlock
  PROVE  (b - 1) * HashBlock + i \in 1..n
<1>1. HashBlock \in Nat \ {0} /\ b - 1 \in Nat /\ b - 1 < q /\ b - 1 \in Int  BY Sizes
<1>2. (b - 1) * HashBlock + HashBlock <= q * HashBlock  BY <1>1, MultiplesApart
<1>3. (b - 1) * HashBlock \in Nat /\ q * HashBlock \in Nat  BY <1>1
<1> QED  BY <1>1, <1>2, <1>3

\* What is stored of the data is stored of the data and more.
LEMMA StoredOfMore ==
  ASSUME NEW S, NEW data \in Seq(S), NEW more \in Seq(S), NEW ctx, NEW q \in Nat,
         q * HashBlock <= Len(data), Stored(ctx, data, q)
  PROVE  Stored(ctx, data \o more, q)
<1>1. ASSUME NEW b \in 1..q, NEW i \in 1..HashBlock
      PROVE  (data \o more)[(b - 1) * HashBlock + i] = data[(b - 1) * HashBlock + i]
  <2>1. Len(data) \in Nat /\ Len(more) \in Nat  OBVIOUS
  <2>2. (b - 1) * HashBlock + i \in 1..Len(data)  BY <2>1, InBlock
  <2> DEFINE j == (b - 1) * HashBlock + i
  <2> HIDE DEF j
  <2>3. j \in 1..(Len(data) + Len(more)) /\ j <= Len(data)  BY <2>1, <2>2 DEF j
  <2>4. (data \o more)[j] = data[j]  BY <2>3, ConcatProperties
  <2> QED  BY <2>4 DEF j
<1>2. ASSUME NEW b \in 1..q, NEW i \in 1..HashBlock
      PROVE  ctx.state[b][i] = (data \o more)[(b - 1) * HashBlock + i]
  <2> DEFINE j == (b - 1) * HashBlock + i
  <2>1. ctx.state[b][i] = data[j]  BY DEF Stored
  <2>2. (data \o more)[j] = data[j]  BY <1>1
  <2> HIDE DEF j
  <2>3. ctx.state[b][i] = (data \o more)[j]  BY <2>1, <2>2
  <2> QED  BY <2>3 DEF j
<1>3. Len(ctx.state) = q  BY DEF Stored
<1> QED  BY <1>2, <1>3 DEF Stored

----------------------------------------------------------------------------
(* The loop over the whole blocks.                                          *)

\* c has stored q blocks of all the data; the counter of a SHA-2 has followed, that of
\* RIPEMD-160 is still what it was.
AtBlock(S, kind, ctx, c, all, q) ==
  /\ c \in Contexts(S) /\ Stored(c, all, q)
  /\ IF kind = "ripemd160" THEN c.count = ctx.count /\ c.high = ctx.high
     ELSE Counts(kind, c, q * HashBlock)
  /\ kind = "ripemd160" => c.buffer = ctx.buffer

\* One block more.
LEMMA OneBlockStep ==
  ASSUME NEW S, NEW kind \in HashKinds, NEW ctx, NEW c, NEW all, NEW q \in Nat,
         AtBlock(S, kind, ctx, c, all, q),
         NEW block \in Seq(S), Len(block) = HashBlock,
         \A i \in 1..HashBlock : block[i] = all[q * HashBlock + i]
  PROVE  AtBlock(S, kind, ctx, OneBlock(kind, c, block), all, q + 1)
<1>1. HashBlock \in Nat \ {0}  BY Sizes
<1>2. block \in BlockOf(S)  BY <1>1 DEF BlockOf
<1>3. c \in Contexts(S) /\ c.state \in Seq(BlockOf(S)) /\ Stored(c, all, q)
  BY DEF AtBlock, Contexts
<1> DEFINE next == OneBlock(kind, c, block)
<1>4. CASE kind = "ripemd160"
  <2>1. next = [c EXCEPT !.state = Append(c.state, block)]  BY <1>4 DEF OneBlock, Transform
  <2>2. Append(c.state, block) \in Seq(BlockOf(S))  BY <1>2, <1>3, AppendProperties
  <2> HIDE DEF next
  <2>3. /\ next \in Contexts(S) /\ next.state = Append(c.state, block)
        /\ next.count = c.count /\ next.high = c.high /\ next.buffer = c.buffer
    BY <1>3, <2>1, <2>2 DEF Contexts
  <2>4. Stored(next, all, q + 1)  BY <1>2, <1>3, <2>3, StoredNext
  <2>5. next.count = ctx.count /\ next.high = ctx.high /\ next.buffer = ctx.buffer
    BY <1>4, <2>3 DEF AtBlock
  <2>6. AtBlock(S, kind, ctx, next, all, q + 1)  BY <1>4, <2>3, <2>4, <2>5 DEF AtBlock
  <2> QED  BY <2>6 DEF next
<1>5. CASE kind # "ripemd160"
  <2> DEFINE filled == Filled(c, 0, block)
             done == Process(kind, filled)
  <2>1. /\ filled \in Contexts(S) /\ filled.state = c.state
        /\ filled.count = c.count /\ filled.high = c.high
        /\ \A i \in 1..Len(block) : filled.buffer[0 + i] = block[i]
    <3>1. 0 \in Nat /\ 0 + Len(block) <= HashBlock  BY <1>1
    <3> QED  BY <1>3, <3>1, FilledHolds
  <2> HIDE DEF filled
  <2>2. filled.buffer = block
    <3>1. filled.buffer \in BlockOf(S)  BY <2>1 DEF Contexts
    <3>2. \A i \in 1..HashBlock : filled.buffer[i] = block[i]  BY <1>1, <2>1
    <3> QED  BY <1>2, <3>1, <3>2, SameBlock
  <2>3. /\ done \in Contexts(S) /\ done.state = Append(c.state, block)
        /\ done.count = c.count /\ done.high = c.high
    BY <2>1, <2>2, ProcessAppends
  <2> HIDE DEF done
  <2>4. Stored(done, all, q + 1)  BY <1>2, <1>3, <2>3, StoredNext
  <2>5. Counts(kind, done, q * HashBlock)
    <3>1. Counts(kind, c, q * HashBlock)  BY <1>5 DEF AtBlock
    <3> QED  BY <2>3, <3>1 DEF Counts
  <2>6. q * HashBlock \in Nat /\ (q + 1) * HashBlock = q * HashBlock + HashBlock  BY <1>1
  <2>7. Counter(kind, HashBlock) < HashCount /\ HashBlock \in Nat  BY Sizes, <1>5 DEF Counter
  <2>8. /\ Counted(kind, done, HashBlock) \in Contexts(S)
        /\ Counts(kind, Counted(kind, done, HashBlock), (q + 1) * HashBlock)
        /\ Counted(kind, done, HashBlock).state = done.state
    <3> DEFINE n == q * HashBlock
    <3>1. n \in Nat /\ (q + 1) * HashBlock = n + HashBlock  BY <2>6
    <3>2. Counts(kind, done, n) /\ done \in Contexts(S) /\ HashBlock \in Nat  BY <2>3, <2>5, <2>7
    <3> HIDE DEF n
    <3>3. /\ Counted(kind, done, HashBlock) \in Contexts(S)
          /\ Counts(kind, Counted(kind, done, HashBlock), n + HashBlock)
          /\ Counted(kind, done, HashBlock).state = done.state
      BY <2>7, <3>1, <3>2, CountedCounts
    <3> QED  BY <3>1, <3>3
  <2>9. next = Counted(kind, done, HashBlock)  BY <1>5 DEF OneBlock, done, filled
  <2> HIDE DEF next
  <2>10. Stored(next, all, q + 1)  BY <2>4, <2>8, <2>9 DEF Stored
  <2>11. AtBlock(S, kind, ctx, next, all, q + 1)  BY <1>5, <2>8, <2>9, <2>10 DEF AtBlock
  <2> QED  BY <2>11 DEF next
<1> QED  BY <1>4, <1>5

\* The block of the data that the loop takes next.
BlockAt(data, b) == SubSeq(data, (b - 1) * HashBlock + 1, b * HashBlock)

\* g is the course of the loop over the first m blocks.
IsLoop(kind, ctx, data, m, g) ==
  g = [b \in 0..m |-> IF b = 0 THEN ctx ELSE OneBlock(kind, g[b - 1], BlockAt(data, b))]

\* After m blocks the loop is defined, and has stored them.
GoodLoop(S, kind, ctx, data, all, q, m) ==
  /\ \E g : IsLoop(kind, ctx, data, m, g)
  /\ \A g : IsLoop(kind, ctx, data, m, g) => AtBlock(S, kind, ctx, g[m], all, q + m)

\* The data is what is left of all, from the block q on.
IsRest(S, data, all, q) ==
  /\ data \in Seq(S) /\ all \in Seq(S) /\ Len(all) = q * HashBlock + Len(data)
  /\ \A j \in 1..Len(data) : all[q * HashBlock + j] = data[j]

LEMMA LoopStarts ==
  ASSUME NEW S, NEW kind, NEW ctx, NEW data, NEW all, NEW q \in Nat,
         AtBlock(S, kind, ctx, ctx, all, q)
  PROVE  GoodLoop(S, kind, ctx, data, all, q, 0)
<1>1. IsLoop(kind, ctx, data, 0, [b \in 0..0 |-> ctx])  BY DEF IsLoop
<1>2. ASSUME NEW g, IsLoop(kind, ctx, data, 0, g)
      PROVE  AtBlock(S, kind, ctx, g[0], all, q + 0)
  <2>1. g[0] = ctx /\ q + 0 = q  BY <1>2 DEF IsLoop
  <2> QED  BY <2>1
<1> QED  BY <1>1, <1>2 DEF GoodLoop

LEMMA BlockAtIs ==
  ASSUME NEW S, NEW data, NEW all, NEW q \in Nat, IsRest(S, data, all, q),
         NEW b \in Nat, (b + 1) * HashBlock <= Len(data)
  PROVE  /\ BlockAt(data, b + 1) \in Seq(S) /\ Len(BlockAt(data, b + 1)) = HashBlock
         /\ \A i \in 1..HashBlock : BlockAt(data, b + 1)[i] = all[(q + b) * HashBlock + i]
<1> DEFINE B == HashBlock
           from == b * B
<1>1. /\ B \in Nat \ {0} /\ from \in Nat /\ q * B \in Nat /\ (b + 1) - 1 = b
      /\ (b + 1) * B = from + B /\ (q + b) * B = q * B + from
  BY Sizes
<1>2. BlockAt(data, b + 1) = SubSeq(data, from + 1, from + B)  BY <1>1 DEF BlockAt
<1> HIDE DEF from
<1>3. data \in Seq(S) /\ Len(data) \in Nat /\ from + B <= Len(data)  BY <1>1 DEF IsRest
<1>4. \A i \in (from + 1)..(from + B) : data[i] \in S
  <2> TAKE i \in (from + 1)..(from + B)
  <2>1. i \in 1..Len(data)  BY <1>1, <1>3
  <2> QED  BY <1>3, <2>1, ElementOfSeq
<1> DEFINE s == SubSeq(data, from + 1, from + B)
<1>5. from + 1 \in Int /\ from + B \in Int  BY <1>1
<1>6. /\ s \in Seq(S)
      /\ Len(s) = IF from + 1 <= from + B THEN (from + B) - (from + 1) + 1 ELSE 0
      /\ \A i \in 1..((from + B) - (from + 1) + 1) : s[i] = data[from + 1 + i - 1]
  BY <1>4, <1>5, SubSeqProperties
<1> HIDE DEF s
<1>7. Len(s) = B  BY <1>1, <1>6
<1>8. ASSUME NEW i \in 1..B  PROVE s[i] = all[(q + b) * B + i]
  <2>1. /\ i \in 1..((from + B) - (from + 1) + 1) /\ from + 1 + i - 1 = from + i
        /\ from + i \in 1..Len(data)
    BY <1>1, <1>3
  <2>2. s[i] = data[from + i]  BY <1>6, <2>1
  <2>3. all[q * B + (from + i)] = data[from + i]  BY <2>1 DEF IsRest
  <2>4. q * B + (from + i) = (q + b) * B + i
    <3>1. ASSUME NEW x \in Nat, NEW y, y = x + from  PROVE x + (from + i) = y + i
      BY <1>1, <3>1
    <3> QED  BY <1>1, <3>1
  <2> QED  BY <2>2, <2>3, <2>4
<1> QED  BY <1>2, <1>6, <1>7, <1>8 DEF s

LEMMA LoopGoesOn ==
  ASSUME NEW S, NEW kind \in HashKinds, NEW ctx, NEW data, NEW all, NEW q \in Nat,
         IsRest(S, data, all, q), NEW m \in Nat, (m + 1) * HashBlock <= Len(data),
         GoodLoop(S, kind, ctx, data, all, q, m)
  PROVE  GoodLoop(S, kind, ctx, data, all, q, m + 1)
<1> DEFINE line(g, b) == IF b = 0 THEN ctx ELSE OneBlock(kind, g[b - 1], BlockAt(data, b))
<1>1. \E h : IsLoop(kind, ctx, data, m + 1, h)
  <2>1. PICK g : IsLoop(kind, ctx, data, m, g)  BY DEF GoodLoop
  <2> DEFINE last == OneBlock(kind, g[m], BlockAt(data, m + 1))
             h == [b \in 0..(m + 1) |-> IF b = m + 1 THEN last ELSE g[b]]
  <2>2. \A b \in 0..m : g[b] = line(g, b)  BY <2>1 DEF IsLoop
  <2>3. ASSUME NEW b \in 0..(m + 1)  PROVE h[b] = line(h, b)
    <3>1. CASE b = m + 1
      <4>1. h[b - 1] = g[m] /\ b # 0  BY <3>1
      <4> QED  BY <3>1, <4>1
    <3>2. CASE b = 0  BY <3>2, <2>2
    <3>3. CASE b \in 1..m
      <4>1. h[b] = g[b] /\ h[b - 1] = g[b - 1] /\ b \in 0..m /\ b # 0  BY <3>3
      <4> QED  BY <2>2, <4>1
    <3> QED  BY <3>1, <3>2, <3>3
  <2>4. h = [b \in 0..(m + 1) |-> line(h, b)]  BY <2>3
  <2> QED  BY <2>4 DEF IsLoop
<1>2. ASSUME NEW h, IsLoop(kind, ctx, data, m + 1, h)
      PROVE  AtBlock(S, kind, ctx, h[m + 1], all, q + (m + 1))
  <2> DEFINE g == [b \in 0..m |-> h[b]]
  <2>1. \A b \in 0..(m + 1) : h[b] = line(h, b)  BY <1>2 DEF IsLoop
  <2>2. ASSUME NEW b \in 0..m  PROVE g[b] = line(g, b)
    <3>1. CASE b = 0  BY <3>1, <2>1
    <3>2. CASE b # 0
      <4>1. b - 1 \in 0..m /\ b \in 0..(m + 1)  BY <3>2
      <4> QED  BY <2>1, <3>2, <4>1
    <3> QED  BY <3>1, <3>2
  <2>3. g = [b \in 0..m |-> line(g, b)]  BY <2>2
  <2>4. IsLoop(kind, ctx, data, m, g)  BY <2>3 DEF IsLoop
  <2>5. AtBlock(S, kind, ctx, g[m], all, q + m)  BY <2>4 DEF GoodLoop
  <2>6. h[m + 1] = OneBlock(kind, g[m], BlockAt(data, m + 1))
    <3>1. m + 1 \in 0..(m + 1) /\ m + 1 # 0 /\ (m + 1) - 1 = m /\ g[m] = h[m]  OBVIOUS
    <3> QED  BY <2>1, <3>1
  <2> HIDE DEF g
  <2>7. q + m \in Nat /\ (q + m) + 1 = q + (m + 1)  OBVIOUS
  <2> DEFINE block == BlockAt(data, m + 1)
  <2>8. /\ block \in Seq(S) /\ Len(block) = HashBlock
        /\ \A i \in 1..HashBlock : block[i] = all[(q + m) * HashBlock + i]
    BY BlockAtIs
  <2> HIDE DEF block
  <2>9. AtBlock(S, kind, ctx, OneBlock(kind, g[m], block), all, (q + m) + 1)
    BY <2>5, <2>7, <2>8, OneBlockStep
  <2> QED  BY <2>6, <2>7, <2>9 DEF block
<1> QED  BY <1>1, <1>2 DEF GoodLoop

\* The loop and the copy of what is left: all the data is in the context.
LEMMA BlocksHold ==
  ASSUME NEW S, NEW kind \in HashKinds, NEW ctx, NEW data, NEW all, NEW q \in Nat,
         IsRest(S, data, all, q), AtBlock(S, kind, ctx, ctx, all, q)
  PROVE  /\ Blocks(kind, ctx, data) \in Contexts(S)
         /\ \E p \in Nat, u \in 0..(HashBlock - 1) :
              /\ Len(all) = p * HashBlock + u
              /\ Stored(Blocks(kind, ctx, data), all, p)
              /\ Buffered(Blocks(kind, ctx, data), all, p, u)
         /\ IF kind = "ripemd160" THEN /\ Blocks(kind, ctx, data).count = ctx.count
                                       /\ Blocks(kind, ctx, data).high = ctx.high
            ELSE Counts(kind, Blocks(kind, ctx, data), Len(all))
<1> DEFINE B == HashBlock
           w == Len(data) \div B
           u == Len(data) % B
<1>1. B \in Nat \ {0} /\ data \in Seq(S) /\ all \in Seq(S) /\ Len(data) \in Nat
  BY Sizes DEF IsRest
<1>2. w \in Nat /\ u \in 0..(B - 1) /\ Len(data) = w * B + u
  <2>1. Len(data) \in Int  BY <1>1
  <2> QED  BY <1>1, <2>1, DivModOf, DivOfNat
<1> HIDE DEF w, u
<1>3. w * B \in Nat /\ w * B <= Len(data)
  <2>1. w * B \in Nat  BY <1>1, <1>2
  <2> QED  BY <1>2, <2>1
<1>4. GoodLoop(S, kind, ctx, data, all, q, w)
  <2> DEFINE Wrong == {m \in 0..w : ~GoodLoop(S, kind, ctx, data, all, q, m)}
  <2>1. SUFFICES ASSUME Wrong # {} PROVE FALSE
    BY <1>2
  <2>2. Wrong \subseteq Nat  BY <1>2
  <2>3. PICK m \in Wrong : \A n \in Wrong : m <= n
    BY <2>1, <2>2, LeastOf
  <2>4. m # 0  BY <2>3, LoopStarts
  <2>5. m - 1 \in 0..w /\ m - 1 \in Nat /\ (m - 1) + 1 = m /\ ~(m <= m - 1)
    BY <1>2, <2>3, <2>4
  <2>6. GoodLoop(S, kind, ctx, data, all, q, m - 1)  BY <2>3, <2>5
  <2>7. m * B <= Len(data)
    <3>1. m \in Int /\ w \in Int /\ m <= w  BY <1>2, <2>3
    <3>2. m * B <= w * B
      <4>1. CASE m < w
        <5>1. m * B + B <= w * B  BY <1>1, <3>1, <4>1, MultiplesApart
        <5>2. m * B \in Int  BY <1>1, <3>1
        <5> QED  BY <1>1, <1>3, <5>1, <5>2
      <4>2. CASE m = w  BY <1>3, <4>2
      <4> QED  BY <3>1, <4>1, <4>2
    <3>3. m * B \in Int  BY <1>1, <3>1
    <3> QED  BY <1>1, <1>3, <3>2, <3>3
  <2>8. GoodLoop(S, kind, ctx, data, all, q, m)  BY <2>5, <2>6, <2>7, LoopGoesOn
  <2> QED  BY <2>3, <2>8
<1>5. PICK g : IsLoop(kind, ctx, data, w, g)  BY <1>4 DEF GoodLoop
<1> DEFINE after[b \in 0..w] ==
             IF b = 0 THEN ctx
             ELSE OneBlock(kind, after[b - 1], SubSeq(data, (b - 1) * HashBlock + 1, b * HashBlock))
<1>6. IsLoop(kind, ctx, data, w, after)  BY <1>5 DEF IsLoop, BlockAt
<1> DEFINE c == after[w]
           rest == SubSeq(data, w * B + 1, Len(data))
           kept == Filled(c, 0, rest)
           result == Blocks(kind, ctx, data)
<1>7. result = IF kind = "ripemd160" THEN kept ELSE Counted(kind, kept, Len(rest))
  BY DEF Blocks, w
<1>8. AtBlock(S, kind, ctx, c, all, q + w)  BY <1>4, <1>6 DEF GoodLoop
<1> HIDE DEF after, c
<1>9. /\ rest \in Seq(S) /\ Len(rest) = u
      /\ \A i \in 1..u : rest[i] = all[(q + w) * B + i]
  <2> DEFINE from == w * B
  <2> HIDE DEF from
  <2>1. from \in Nat /\ from <= Len(data) /\ Len(data) = from + u /\ q * B \in Nat
        /\ (q + w) * B = q * B + from
    BY <1>1, <1>2, <1>3 DEF from
  <2>2. \A i \in (from + 1)..Len(data) : data[i] \in S
    <3> TAKE i \in (from + 1)..Len(data)
    <3>1. i \in 1..Len(data)  BY <1>1, <2>1
    <3> QED  BY <1>1, <3>1, ElementOfSeq
  <2>3. from + 1 \in Int /\ Len(data) \in Int  BY <1>1, <2>1
  <2> DEFINE s == SubSeq(data, from + 1, Len(data))
  <2>4. /\ s \in Seq(S)
        /\ Len(s) = IF from + 1 <= Len(data) THEN Len(data) - (from + 1) + 1 ELSE 0
        /\ \A i \in 1..(Len(data) - (from + 1) + 1) : s[i] = data[from + 1 + i - 1]
    BY <2>2, <2>3, SubSeqProperties
  <2> HIDE DEF s
  <2>5. Len(s) = u
    <3>1. from \in Nat /\ u \in Nat /\ Len(data) = from + u  BY <1>1, <1>2, <2>1
    <3>2. Len(s) = IF from + 1 <= Len(data) THEN Len(data) - (from + 1) + 1 ELSE 0  BY <2>4
    <3> QED  BY <3>1, <3>2
  <2>6. ASSUME NEW i \in 1..u  PROVE s[i] = all[(q + w) * B + i]
    <3>1. /\ i \in 1..(Len(data) - (from + 1) + 1) /\ from + 1 + i - 1 = from + i
          /\ from + i \in 1..Len(data)
      BY <1>1, <1>2, <2>1
    <3>2. s[i] = data[from + i]  BY <2>4, <3>1
    <3>3. all[q * B + (from + i)] = data[from + i]  BY <3>1 DEF IsRest
    <3>4. q * B + (from + i) = (q + w) * B + i
      <4>1. ASSUME NEW x \in Nat, NEW y, y = x + from  PROVE x + (from + i) = y + i
        BY <1>2, <2>1, <4>1
      <4> QED  BY <2>1, <4>1
    <3> QED  BY <3>2, <3>3, <3>4
  <2>7. s = rest  BY DEF s, from
  <2> QED  BY <2>4, <2>5, <2>6, <2>7
<1> HIDE DEF rest
<1>10. c \in Contexts(S) /\ Stored(c, all, q + w)  BY <1>8 DEF AtBlock
<1>11. /\ kept \in Contexts(S) /\ kept.state = c.state
       /\ kept.count = c.count /\ kept.high = c.high
       /\ \A i \in 1..u : kept.buffer[i] = rest[i]
  <2>1. 0 \in Nat /\ 0 + Len(rest) <= HashBlock  BY <1>1, <1>2, <1>9
  <2>2. /\ kept \in Contexts(S) /\ kept.state = c.state
        /\ kept.count = c.count /\ kept.high = c.high
        /\ \A i \in 1..Len(rest) : kept.buffer[0 + i] = rest[i]
    BY <1>9, <1>10, <2>1, FilledHolds
  <2> HIDE DEF kept
  <2> QED  BY <1>2, <1>9, <2>2
<1> HIDE DEF kept
<1>12. /\ result \in Contexts(S) /\ result.state = kept.state /\ result.buffer = kept.buffer
       /\ IF kind = "ripemd160" THEN result.count = ctx.count /\ result.high = ctx.high
          ELSE Counts(kind, result, Len(all))
  <2>1. CASE kind = "ripemd160"
    <3>1. result = kept  BY <1>7, <2>1
    <3>2. c.count = ctx.count /\ c.high = ctx.high  BY <1>8, <2>1 DEF AtBlock
    <3> QED  BY <1>11, <2>1, <3>1, <3>2
  <2>2. CASE kind # "ripemd160"
    <3>1. result = Counted(kind, kept, u)  BY <1>7, <1>9, <2>2
    <3>2. Counts(kind, c, (q + w) * B)  BY <1>8, <2>2 DEF AtBlock
    <3>3. Counts(kind, kept, (q + w) * B)  BY <1>11, <3>2 DEF Counts
    <3>4. (q + w) * B \in Nat /\ (q + w) * B + u = Len(all)
      <4>1. q * B \in Nat /\ w * B \in Nat /\ (q + w) * B = q * B + w * B  BY <1>1, <1>2
      <4>2. Len(all) = q * B + Len(data)  BY DEF IsRest
      <4> QED  BY <1>2, <4>1, <4>2
    <3>5. u \in Nat /\ Counter(kind, u) < HashCount
      <4>1. u \in Nat /\ u < B  BY <1>1, <1>2
      <4> QED  BY <2>2, <4>1, Sizes DEF Counter
    <3>6. /\ Counted(kind, kept, u) \in Contexts(S)
          /\ Counts(kind, Counted(kind, kept, u), (q + w) * B + u)
          /\ Counted(kind, kept, u).state = kept.state
          /\ Counted(kind, kept, u).buffer = kept.buffer
      BY <1>11, <3>3, <3>4, <3>5, CountedCounts
    <3> QED  BY <2>2, <3>1, <3>4, <3>6
  <2> QED  BY <2>1, <2>2
<1> HIDE DEF result
<1>13. Stored(result, all, q + w)  BY <1>10, <1>11, <1>12 DEF Stored
<1>14. Buffered(result, all, q + w, u)  BY <1>9, <1>11, <1>12 DEF Buffered
<1>15. q + w \in Nat /\ Len(all) = (q + w) * B + u
  <2>1. q * B \in Nat /\ w * B \in Nat /\ (q + w) * B = q * B + w * B  BY <1>1, <1>2
  <2>2. Len(all) = q * B + Len(data)  BY DEF IsRest
  <2> QED  BY <1>2, <2>1, <2>2
<1>16. \E p \in Nat, v \in 0..(HashBlock - 1) :
         /\ Len(all) = p * HashBlock + v
         /\ Stored(result, all, p) /\ Buffered(result, all, p, v)
  BY <1>2, <1>13, <1>14, <1>15
<1> QED  BY <1>12, <1>16 DEF result

----------------------------------------------------------------------------
(* Update.                                                                  *)

\* The first n bytes of the data, and the rest.
LEMMA Pieces ==
  ASSUME NEW S, NEW data \in Seq(S), NEW n \in 0..Len(data)
  PROVE  /\ SubSeq(data, 1, n) \in Seq(S) /\ Len(SubSeq(data, 1, n)) = n
         /\ \A i \in 1..n : SubSeq(data, 1, n)[i] = data[i]
         /\ SubSeq(data, n + 1, Len(data)) \in Seq(S)
         /\ Len(SubSeq(data, n + 1, Len(data))) = Len(data) - n
         /\ \A i \in 1..(Len(data) - n) : SubSeq(data, n + 1, Len(data))[i] = data[n + i]
<1>1. Len(data) \in Nat /\ n \in Nat /\ n <= Len(data)  OBVIOUS
<1>2. \A i \in 1..Len(data) : data[i] \in S  BY ElementOfSeq
<1>3. /\ SubSeq(data, 1, n) \in Seq(S)
      /\ Len(SubSeq(data, 1, n)) = IF 1 <= n THEN n - 1 + 1 ELSE 0
      /\ \A i \in 1..(n - 1 + 1) : SubSeq(data, 1, n)[i] = data[1 + i - 1]
  <2>1. \A i \in 1..n : data[i] \in S  BY <1>1, <1>2
  <2>2. 1 \in Int /\ n \in Int  BY <1>1
  <2> QED  BY <2>1, <2>2, SubSeqProperties
<1> DEFINE s == SubSeq(data, n + 1, Len(data))
           l == Len(data)
<1>4. /\ s \in Seq(S) /\ Len(s) = IF n + 1 <= l THEN l - (n + 1) + 1 ELSE 0
      /\ \A i \in 1..(l - (n + 1) + 1) : s[i] = data[n + 1 + i - 1]
  <2>1. \A i \in (n + 1)..l : data[i] \in S  BY <1>1, <1>2
  <2>2. n + 1 \in Int /\ l \in Int  BY <1>1
  <2> QED  BY <2>1, <2>2, SubSeqProperties
<1> HIDE DEF s
<1>5. Len(s) = l - n /\ \A i \in 1..(l - n) : s[i] = data[n + i]
  <2>1. Len(s) = l - n  BY <1>1, <1>4
  <2>2. ASSUME NEW i \in 1..(l - n)  PROVE s[i] = data[n + i]
    <3>1. i \in 1..(l - (n + 1) + 1) /\ n + 1 + i - 1 = n + i  BY <1>1
    <3> QED  BY <1>4, <3>1
  <2> QED  BY <2>1, <2>2
<1>6. Len(SubSeq(data, 1, n)) = n /\ \A i \in 1..n : SubSeq(data, 1, n)[i] = data[i]
  <2>1. Len(SubSeq(data, 1, n)) = n  BY <1>1, <1>3
  <2>2. ASSUME NEW i \in 1..n  PROVE SubSeq(data, 1, n)[i] = data[i]
    <3>1. i \in 1..(n - 1 + 1) /\ 1 + i - 1 = i  BY <1>1
    <3> QED  BY <1>3, <3>1
  <2> QED  BY <2>1, <2>2
<1> QED  BY <1>3, <1>4, <1>5, <1>6 DEF s

\* The bytes of a concatenation.
LEMMA JoinedBytes ==
  ASSUME NEW S, NEW s \in Seq(S), NEW t \in Seq(S)
  PROVE  /\ s \o t \in Seq(S) /\ Len(s \o t) = Len(s) + Len(t)
         /\ \A i \in 1..Len(s) : (s \o t)[i] = s[i]
         /\ \A i \in 1..Len(t) : (s \o t)[Len(s) + i] = t[i]
<1>1. Len(s) \in Nat /\ Len(t) \in Nat  OBVIOUS
<1>2. \A i \in 1..(Len(s) + Len(t)) : (s \o t)[i] = IF i <= Len(s) THEN s[i] ELSE t[i - Len(s)]
  BY ConcatProperties
<1>3. ASSUME NEW i \in 1..Len(s)  PROVE (s \o t)[i] = s[i]
  <2>1. i \in 1..(Len(s) + Len(t)) /\ i <= Len(s)  BY <1>1
  <2> QED  BY <1>2, <2>1
<1>4. ASSUME NEW i \in 1..Len(t)  PROVE (s \o t)[Len(s) + i] = t[i]
  <2>1. Len(s) + i \in 1..(Len(s) + Len(t)) /\ ~(Len(s) + i <= Len(s)) /\ (Len(s) + i) - Len(s) = i
    BY <1>1
  <2> QED  BY <1>2, <2>1
<1> QED  BY <1>3, <1>4, ConcatProperties

\* After an Update the context holds the data that it held, and the new data.
LEMMA UpdateHolds ==
  ASSUME NEW S, NEW kind \in HashKinds, NEW ctx, NEW old, Holds(S, kind, ctx, old),
         NEW data \in Seq(S), kind = "ripemd160" => Len(data) < HashCount
  PROVE  Holds(S, kind, Update(kind, ctx, data), old \o data)
<1> DEFINE B == HashBlock
           all == old \o data
           n == Len(data)
           whole == IF kind = "ripemd160" THEN Counted(kind, ctx, n) ELSE ctx
           new == Update(kind, ctx, data)
<1>1. /\ ctx \in Contexts(S) /\ old \in Seq(S) /\ Counts(kind, ctx, Len(old))
      /\ n \in Nat /\ Len(old) \in Nat /\ B \in Nat \ {0}
  BY Sizes DEF Holds
<1>2. PICK q \in Nat, u \in 0..(B - 1) :
        Len(old) = q * B + u /\ Stored(ctx, old, q) /\ Buffered(ctx, old, q, u)
  BY DEF Holds
<1>3. /\ all \in Seq(S) /\ Len(all) = Len(old) + n
      /\ \A i \in 1..Len(old) : all[i] = old[i]
      /\ \A i \in 1..n : all[Len(old) + i] = data[i]
  BY <1>1, JoinedBytes
<1>4. q * B \in Nat /\ (q + 1) * B = q * B + B  BY <1>1
<1>5. UsedSpace(kind, ctx) = u  BY <1>1, <1>2, UsedIs
<1>6. /\ whole \in Contexts(S) /\ whole.state = ctx.state /\ whole.buffer = ctx.buffer
      /\ kind = "ripemd160" => Counts(kind, whole, Len(all))
      /\ kind # "ripemd160" => whole = ctx
  <2>1. CASE kind = "ripemd160"
    <3>1. Counter(kind, n) < HashCount  BY <2>1 DEF Counter
    <3> QED  BY <1>1, <1>3, <2>1, <3>1, CountedCounts
  <2>2. CASE kind # "ripemd160"  BY <1>1, <2>2
  <2> QED  BY <2>1, <2>2
<1>7. Stored(ctx, all, q)  BY <1>1, <1>2, <1>4, StoredOfMore
<1>8. \A i \in 1..u : ctx.buffer[i] = all[q * B + i]
  <2> TAKE i \in 1..u
  <2>1. q * B + i \in 1..Len(old)  BY <1>1, <1>2, <1>4
  <2> QED  BY <1>2, <1>3, <2>1 DEF Buffered
<1>9. \A i \in 1..n : all[q * B + u + i] = data[i]  BY <1>2, <1>3
<1> HIDE DEF all, whole
<1>10. CASE data = <<>>
  <2>1. new = ctx /\ all = old  BY <1>1, <1>10, ConcatEmptySeq DEF Update, all
  <2> QED  BY <2>1 DEF all
\* What Holds asks for.
<1>11. SUFFICES ASSUME data # <<>>
       PROVE  /\ new \in Contexts(S) /\ Counts(kind, new, Len(all))
              /\ \E p \in Nat, v \in 0..(B - 1) :
                   Len(all) = p * B + v /\ Stored(new, all, p) /\ Buffered(new, all, p, v)
  BY <1>3, <1>10 DEF Holds, all
\* The loop leaves such a context.
<1>12. ASSUME NEW c, NEW rest, NEW p \in Nat, new = Blocks(kind, c, rest),
              c \in Contexts(S), Stored(c, all, p), IsRest(S, rest, all, p),
              IF kind = "ripemd160" THEN Counts(kind, c, Len(all)) ELSE Counts(kind, c, p * B)
       PROVE  /\ new \in Contexts(S) /\ Counts(kind, new, Len(all))
              /\ \E r \in Nat, v \in 0..(B - 1) :
                   Len(all) = r * B + v /\ Stored(new, all, r) /\ Buffered(new, all, r, v)
  <2>1. AtBlock(S, kind, c, c, all, p)  BY <1>12 DEF AtBlock
  <2> DEFINE b == Blocks(kind, c, rest)
  <2>2. /\ b \in Contexts(S)
        /\ \E r \in Nat, v \in 0..(HashBlock - 1) :
             Len(all) = r * HashBlock + v /\ Stored(b, all, r) /\ Buffered(b, all, r, v)
        /\ IF kind = "ripemd160" THEN b.count = c.count /\ b.high = c.high
           ELSE Counts(kind, b, Len(all))
    BY <1>12, <2>1, BlocksHold
  <2> HIDE DEF b
  <2>3. Counts(kind, b, Len(all))  BY <1>12, <2>2 DEF Counts
  <2> HIDE DEF new
  <2>4. new = b  BY <1>12 DEF b
  <2> QED  BY <2>2, <2>3, <2>4
<1>13. CASE u = 0
  <2>1. new = Blocks(kind, whole, data)
    BY <1>5, <1>11, <1>13 DEF Update, whole
  <2>2. IsRest(S, data, all, q)
    <3>1. \A j \in 1..n : all[q * B + j] = data[j]
      <4> TAKE j \in 1..n
      <4>1. q * B + u + j = q * B + j  BY <1>4, <1>13
      <4> QED  BY <1>9, <4>1
    <3>2. Len(all) = q * B + n  BY <1>1, <1>2, <1>3, <1>4, <1>13
    <3> QED  BY <1>3, <3>1, <3>2 DEF IsRest
  <2>3. Stored(whole, all, q)  BY <1>6, <1>7 DEF Stored
  <2>4. kind # "ripemd160" => Counts(kind, whole, q * B)
    <3>1. Len(old) = q * B  BY <1>2, <1>4, <1>13
    <3> QED  BY <1>1, <1>6, <3>1
  <2> QED  BY <1>6, <1>12, <2>1, <2>2, <2>3, <2>4
\* The buffer takes m bytes.
<1> DEFINE part(m) == LET f == Filled(whole, u, SubSeq(data, 1, m))
                      IN IF kind = "ripemd160" THEN f ELSE Counted(kind, f, m)
<1>14. ASSUME NEW m \in 0..n, u + m <= B
       PROVE  /\ part(m) \in Contexts(S) /\ part(m).state = ctx.state
              /\ \A i \in 1..(u + m) : part(m).buffer[i] = all[q * B + i]
              /\ IF kind = "ripemd160" THEN Counts(kind, part(m), Len(all))
                 ELSE Counts(kind, part(m), Len(old) + m)
  <2> DEFINE s == SubSeq(data, 1, m)
             f == Filled(whole, u, s)
  <2>1. s \in Seq(S) /\ Len(s) = m /\ \A i \in 1..m : s[i] = data[i]  BY Pieces
  <2> HIDE DEF s
  <2>2. /\ f \in Contexts(S) /\ f.state = whole.state
        /\ f.count = whole.count /\ f.high = whole.high
        /\ \A i \in 1..u : f.buffer[i] = whole.buffer[i]
        /\ \A i \in 1..m : f.buffer[u + i] = s[i]
    <3>1. u \in Nat /\ u + Len(s) <= HashBlock  BY <1>1, <1>14, <2>1
    <3>2. /\ f \in Contexts(S) /\ f.state = whole.state
          /\ f.count = whole.count /\ f.high = whole.high
          /\ \A i \in 1..u : f.buffer[i] = whole.buffer[i]
          /\ \A i \in 1..Len(s) : f.buffer[u + i] = s[i]
      <4>1. whole \in Contexts(S) /\ s \in Seq(S)  BY <1>6, <2>1
      <4> QED  BY <3>1, <4>1, FilledHolds
    <3> HIDE DEF f
    <3> QED  BY <2>1, <3>2
  <2> HIDE DEF f
  <2>3. ASSUME NEW i \in 1..(u + m)  PROVE f.buffer[i] = all[q * B + i]
    <3>1. CASE i <= u
      <4>1. i \in 1..u  BY <3>1
      <4> QED  BY <1>6, <1>8, <2>2, <4>1
    <3>2. CASE i > u
      <4>1. i - u \in 1..m /\ u + (i - u) = i /\ i - u \in 1..n /\ q * B + u + (i - u) = q * B + i
        BY <1>1, <1>4, <3>2
      <4>2. f.buffer[i] = data[i - u]  BY <2>1, <2>2, <4>1
      <4>3. all[q * B + i] = data[i - u]  BY <1>9, <4>1
      <4> QED  BY <4>2, <4>3
    <3> QED  BY <3>1, <3>2
  <2>4. CASE kind = "ripemd160"
    <3>1. part(m) = f  BY <2>4 DEF f, s
    <3>2. Counts(kind, f, Len(all))  BY <1>6, <2>2, <2>4 DEF Counts
    <3> HIDE DEF part
    <3> QED  BY <1>6, <2>2, <2>3, <2>4, <3>1, <3>2
  <2>5. CASE kind # "ripemd160"
    <3>1. part(m) = Counted(kind, f, m)  BY <2>5 DEF f, s
    <3>2. Counts(kind, f, Len(old))  BY <1>1, <1>6, <2>2, <2>5 DEF Counts
    <3>3. m \in Nat /\ Counter(kind, m) < HashCount
      <4>1. m \in Nat /\ m <= B  BY <1>1, <1>14
      <4> QED  BY <2>5, <4>1, Sizes DEF Counter
    <3>4. /\ Counted(kind, f, m) \in Contexts(S)
          /\ Counts(kind, Counted(kind, f, m), Len(old) + m)
          /\ Counted(kind, f, m).state = f.state
          /\ Counted(kind, f, m).buffer = f.buffer
      BY <1>1, <2>2, <3>2, <3>3, CountedCounts
    <3> HIDE DEF part
    <3> QED  BY <1>6, <2>2, <2>3, <2>5, <3>1, <3>4
  <2> QED  BY <2>4, <2>5
<1>15. CASE u # 0 /\ n < B - u
  <2>1. new = part(n)
    BY <1>5, <1>11, <1>15 DEF Update, whole
  <2>2. n \in 0..n /\ u + n <= B /\ u + n \in 0..(B - 1)  BY <1>1, <1>15
  <2>3. /\ part(n) \in Contexts(S) /\ part(n).state = ctx.state
        /\ \A i \in 1..(u + n) : part(n).buffer[i] = all[q * B + i]
        /\ IF kind = "ripemd160" THEN Counts(kind, part(n), Len(all))
           ELSE Counts(kind, part(n), Len(old) + n)
    BY <1>14, <2>2
  <2> HIDE DEF part, new
  <2>4. Counts(kind, new, Len(all))  BY <1>3, <2>1, <2>3
  <2>5. Stored(new, all, q)  BY <1>7, <2>1, <2>3 DEF Stored
  <2>6. Buffered(new, all, q, u + n)  BY <2>1, <2>3 DEF Buffered
  <2>7. Len(all) = q * B + (u + n)  BY <1>1, <1>2, <1>3, <1>4
  <2> QED  BY <2>1, <2>2, <2>3, <2>4, <2>5, <2>6, <2>7
<1>16. CASE u # 0 /\ n >= B - u
  <2> DEFINE free == B - u
             rest == SubSeq(data, free + 1, n)
             full == part(free)
             c == Process(kind, full)
  <2>1. new = Blocks(kind, c, rest)
    <3>1. ~(n < B - u)  BY <1>1, <1>16
    <3> QED  BY <1>5, <1>11, <1>16, <3>1 DEF Update, whole
  <2>2. free \in 0..n /\ u + free = B /\ free \in Nat  BY <1>1, <1>16
  <2> HIDE DEF free
  <2>3. /\ full \in Contexts(S) /\ full.state = ctx.state
        /\ \A i \in 1..B : full.buffer[i] = all[q * B + i]
        /\ IF kind = "ripemd160" THEN Counts(kind, full, Len(all))
           ELSE Counts(kind, full, Len(old) + free)
    BY <1>1, <1>14, <2>2
  <2> HIDE DEF full, part
  <2>4. /\ c \in Contexts(S) /\ c.state = Append(full.state, full.buffer)
        /\ c.count = full.count /\ c.high = full.high
    BY <2>3, ProcessAppends
  <2> HIDE DEF c
  <2>5. Stored(c, all, q + 1)
    <3>1. full.buffer \in BlockOf(S) /\ full.state \in Seq(BlockOf(S))  BY <2>3 DEF Contexts
    <3>2. Stored(full, all, q)  BY <1>7, <2>3 DEF Stored
    <3> QED  BY <2>3, <2>4, <3>1, <3>2, StoredNext
  <2>6. Len(old) + free = (q + 1) * B /\ q + 1 \in Nat
    BY <1>1, <1>2, <1>4, <2>2
  <2>7. IsRest(S, rest, all, q + 1)
    <3>1. rest \in Seq(S) /\ Len(rest) = n - free /\ \A i \in 1..(n - free) : rest[i] = data[free + i]
      BY <2>2, Pieces
    <3> HIDE DEF rest
    <3>2. Len(all) = (q + 1) * B + Len(rest)
      <4>1. Len(old) + n = (Len(old) + free) + (n - free)  BY <1>1, <2>2
      <4> QED  BY <1>3, <2>6, <3>1, <4>1
    <3>3. ASSUME NEW j \in 1..Len(rest)  PROVE all[(q + 1) * B + j] = rest[j]
      <4>1. j \in 1..(n - free) /\ free + j \in 1..n  BY <1>1, <2>2, <3>1
      <4>2. rest[j] = data[free + j]  BY <3>1, <4>1
      <4>3. all[q * B + u + (free + j)] = data[free + j]  BY <1>9, <4>1
      <4>4. q * B + u + (free + j) = (q + 1) * B + j  BY <1>1, <1>4, <2>2, <4>1
      <4> QED  BY <4>2, <4>3, <4>4
    <3> QED  BY <1>3, <3>1, <3>2, <3>3 DEF IsRest
  <2>8. IF kind = "ripemd160" THEN Counts(kind, c, Len(all)) ELSE Counts(kind, c, (q + 1) * B)
    BY <2>3, <2>4, <2>6 DEF Counts
  <2> HIDE DEF rest, new
  <2> QED  BY <1>12, <2>1, <2>4, <2>5, <2>6, <2>7, <2>8
<1>17. n < B - u \/ n >= B - u  BY <1>1
<1> QED  BY <1>13, <1>15, <1>16, <1>17

----------------------------------------------------------------------------
(* What the standard hashes.                                                *)

HasConstants(S) == \A n \in Nat : Const(n) \in S

\* The zeros of the padding.
PadOf(n) == (-(n + 1 + 2 * HashWord)) % HashBlock

LowOf(n) == (8 * n) % HashCount
HighOf(n) == ((8 * n) \div HashCount) % HashCount

\* The length field of n bytes.
FieldOf(kind, n) ==
  IF kind = "ripemd160" THEN LengthWord(LowOf(n)) \o LengthWord(HighOf(n))
  ELSE (Zeros(HashWord - 1) \o <<Const(HighOf(n))>>) \o (Zeros(HashWord - 1) \o <<Const(LowOf(n))>>)

LEMMA ZerosAre ==
  ASSUME NEW S, HasConstants(S), NEW n \in Nat
  PROVE  Zeros(n) \in Seq(S) /\ Len(Zeros(n)) = n /\ \A i \in 1..n : Zeros(n)[i] = Const(0)
<1>1. Const(0) \in S  BY DEF HasConstants
<1>2. Zeros(n) = [i \in 1..n |-> Const(0)]  BY DEF Zeros
<1> HIDE DEF Const
<1>3. Zeros(n) \in [1..n -> S]  BY <1>1, <1>2
<1>4. Zeros(n) \in Seq(S) /\ Len(Zeros(n)) = n  BY <1>3
<1> QED  BY <1>2, <1>4

LEMMA PadIs ==
  ASSUME NEW n \in Nat
  PROVE  /\ PadOf(n) \in 0..(HashBlock - 1)
         /\ \E m \in Nat \ {0} : n + 1 + PadOf(n) + 2 * HashWord = m * HashBlock
<1> DEFINE B == HashBlock
           x == n + 1 + 2 * HashWord
           d == (-x) \div B
           z == (-x) % B
<1>1. B \in Nat \ {0} /\ x \in Nat \ {0} /\ -x \in Int /\ HashWord \in Nat  BY Sizes
<1>2. d \in Int /\ z \in 0..(B - 1) /\ -x = d * B + z  BY <1>1, DivModOf
<1>3. z = PadOf(n)  BY DEF PadOf
<1> DEFINE m == -d
<1>4. x + z = m * B /\ m \in Int
  <2> HIDE DEF d, z, x
  <2>1. m * B = -(d * B) /\ d * B \in Int  BY <1>1, <1>2
  <2> QED  BY <1>1, <1>2, <2>1
<1> HIDE DEF m, d
<1>5. m > 0
  <2>1. CASE m <= 0
    <3>1. m * B <= 0
      <4>1. CASE m < 0
        <5>1. m * B + B <= 0 * B  BY <1>1, <1>4, <4>1, MultiplesApart
        <5>2. m * B \in Int  BY <1>1, <1>4
        <5> QED  BY <1>1, <5>1, <5>2
      <4>2. CASE m = 0  BY <1>1, <4>2
      <4> QED  BY <1>4, <2>1, <4>1, <4>2
    <3> HIDE DEF x, z
    <3> QED  BY <1>1, <1>2, <1>4, <3>1
  <2> QED  BY <1>4, <2>1
<1> HIDE DEF z
<1>6. n + 1 + z + 2 * HashWord = m * B  BY <1>1, <1>2, <1>4
<1> QED  BY <1>2, <1>3, <1>4, <1>5, <1>6

LEMMA WordsOfLength ==
  ASSUME NEW n \in Nat
  PROVE  LowOf(n) \in 0..(HashCount - 1) /\ HighOf(n) \in 0..(HashCount - 1)
<1>1. 8 * n \in Nat /\ HashCount \in Nat \ {0} /\ 8 * n \in Int  BY Sizes
<1>2. (8 * n) \div HashCount \in Int  BY <1>1, DivModOf
<1> QED  BY <1>1, <1>2, DivModOf DEF LowOf, HighOf

\* One word of the length field.
LEMMA WordIs ==
  ASSUME NEW S, HasConstants(S), NEW n \in Nat
  PROVE  /\ LengthWord(n) \in Seq(S) /\ Len(LengthWord(n)) = HashWord
         /\ \A i \in 1..HashWord : LengthWord(n)[i] = IF i = 1 THEN Const(n) ELSE Const(0)
         /\ Zeros(HashWord - 1) \o <<Const(n)>> \in Seq(S)
         /\ Len(Zeros(HashWord - 1) \o <<Const(n)>>) = HashWord
         /\ \A i \in 1..HashWord :
              (Zeros(HashWord - 1) \o <<Const(n)>>)[i] = IF i = HashWord THEN Const(n) ELSE Const(0)
<1> DEFINE W == HashWord
           z == Zeros(W - 1)
           c == <<Const(n)>>
<1>1. W \in Nat \ {0} /\ W - 1 \in Nat  BY Sizes
<1>2. z \in Seq(S) /\ Len(z) = W - 1 /\ \A i \in 1..(W - 1) : z[i] = Const(0)
  BY <1>1, ZerosAre
<1>3. c \in Seq(S) /\ Len(c) = 1 /\ c[1] = Const(n)
  BY DEF HasConstants
<1> HIDE DEF z, c
<1>4. /\ c \o z \in Seq(S) /\ Len(c \o z) = W
      /\ \A i \in 1..W : (c \o z)[i] = IF i = 1 THEN Const(n) ELSE Const(0)
  <2>1. /\ c \o z \in Seq(S) /\ Len(c \o z) = 1 + (W - 1)
        /\ \A i \in 1..(1 + (W - 1)) : (c \o z)[i] = IF i <= 1 THEN c[i] ELSE z[i - 1]
    <3>1. c \in Seq(S) /\ z \in Seq(S)  BY <1>2, <1>3
    <3>2. /\ c \o z \in Seq(S) /\ Len(c \o z) = Len(c) + Len(z)
          /\ \A i \in 1..(Len(c) + Len(z)) : (c \o z)[i] = IF i <= Len(c) THEN c[i] ELSE z[i - Len(c)]
      BY <3>1, ConcatProperties, Zenon
    <3>3. Len(c) = 1 /\ Len(z) = W - 1  BY <1>2, <1>3
    <3> QED  BY <3>2, <3>3, Zenon
  <2>2. 1 + (W - 1) = W  BY <1>1
  <2>3. ASSUME NEW i \in 1..W  PROVE (c \o z)[i] = IF i = 1 THEN Const(n) ELSE Const(0)
    <3>1. CASE i = 1  BY <1>1, <1>3, <2>1, <2>2, <3>1
    <3>2. CASE i # 1
      <4>1. ~(i <= 1) /\ i - 1 \in 1..(W - 1)  BY <1>1, <3>2
      <4> QED  BY <1>2, <2>1, <2>2, <3>2, <4>1
    <3> QED  BY <3>1, <3>2
  <2> QED  BY <2>1, <2>2, <2>3
<1>5. /\ z \o c \in Seq(S) /\ Len(z \o c) = W
      /\ \A i \in 1..W : (z \o c)[i] = IF i = W THEN Const(n) ELSE Const(0)
  <2>1. /\ z \o c \in Seq(S) /\ Len(z \o c) = (W - 1) + 1
        /\ \A i \in 1..((W - 1) + 1) : (z \o c)[i] = IF i <= W - 1 THEN z[i] ELSE c[i - (W - 1)]
    <3>1. c \in Seq(S) /\ z \in Seq(S)  BY <1>2, <1>3
    <3>2. /\ z \o c \in Seq(S) /\ Len(z \o c) = Len(z) + Len(c)
          /\ \A i \in 1..(Len(z) + Len(c)) : (z \o c)[i] = IF i <= Len(z) THEN z[i] ELSE c[i - Len(z)]
      BY <3>1, ConcatProperties, Zenon
    <3>3. Len(c) = 1 /\ Len(z) = W - 1  BY <1>2, <1>3
    <3> QED  BY <3>2, <3>3, Zenon
  <2>2. (W - 1) + 1 = W  BY <1>1
  <2>3. ASSUME NEW i \in 1..W  PROVE (z \o c)[i] = IF i = W THEN Const(n) ELSE Const(0)
    <3>1. CASE i = W
      <4>1. ~(i <= W - 1) /\ i - (W - 1) = 1  BY <1>1, <3>1
      <4> QED  BY <1>3, <2>1, <2>2, <3>1, <4>1
    <3>2. CASE i # W
      <4>1. i <= W - 1 /\ i \in 1..(W - 1)  BY <1>1, <3>2
      <4> QED  BY <1>2, <2>1, <2>2, <3>2, <4>1
    <3> QED  BY <3>1, <3>2
  <2> QED  BY <2>1, <2>2, <2>3
<1>6. LengthWord(n) = c \o z  BY DEF LengthWord, z, c
<1> QED  BY <1>4, <1>5, <1>6 DEF z, c

LEMMA FieldIs ==
  ASSUME NEW S, HasConstants(S), NEW kind \in HashKinds, NEW n \in Nat
  PROVE  FieldOf(kind, n) \in Seq(S) /\ Len(FieldOf(kind, n)) = 2 * HashWord
<1>1. LowOf(n) \in Nat /\ HighOf(n) \in Nat /\ HashWord \in Nat  BY WordsOfLength, Sizes
<1>2. ASSUME NEW s \in Seq(S), NEW t \in Seq(S), Len(s) = HashWord, Len(t) = HashWord
      PROVE  s \o t \in Seq(S) /\ Len(s \o t) = 2 * HashWord
  <2>1. s \o t \in Seq(S) /\ Len(s \o t) = Len(s) + Len(t)  BY ConcatProperties
  <2> QED  BY <1>1, <1>2, <2>1
<1>3. CASE kind = "ripemd160"
  <2>1. FieldOf(kind, n) = LengthWord(LowOf(n)) \o LengthWord(HighOf(n))  BY <1>3 DEF FieldOf
  <2>2. ASSUME NEW m \in Nat  PROVE LengthWord(m) \in Seq(S) /\ Len(LengthWord(m)) = HashWord
    BY WordIs
  <2>3. LengthWord(LowOf(n)) \o LengthWord(HighOf(n)) \in Seq(S)
        /\ Len(LengthWord(LowOf(n)) \o LengthWord(HighOf(n))) = 2 * HashWord
    BY <1>1, <1>2, <2>2, Zenon
  <2> QED  BY <2>1, <2>3
<1>4. CASE kind # "ripemd160"
  <2>1. FieldOf(kind, n) = (Zeros(HashWord - 1) \o <<Const(HighOf(n))>>)
                           \o (Zeros(HashWord - 1) \o <<Const(LowOf(n))>>)
    BY <1>4 DEF FieldOf
  <2> DEFINE word(m) == Zeros(HashWord - 1) \o <<Const(m)>>
  <2>2. ASSUME NEW m \in Nat  PROVE word(m) \in Seq(S) /\ Len(word(m)) = HashWord
    BY WordIs
  <2> HIDE DEF word
  <2>3. word(HighOf(n)) \o word(LowOf(n)) \in Seq(S)
        /\ Len(word(HighOf(n)) \o word(LowOf(n))) = 2 * HashWord
    BY <1>1, <1>2, <2>2, Zenon
  <2> QED  BY <2>1, <2>3 DEF word
<1> QED  BY <1>3, <1>4

\* The padded message: the message, the padding, the length field.
LEMMA PaddedIs ==
  ASSUME NEW S, HasConstants(S), NEW kind \in HashKinds, NEW data \in Seq(S)
  PROVE  PaddedMessage(kind, data) =
           (data \o (<<Const(128)>> \o Zeros(PadOf(Len(data))))) \o FieldOf(kind, Len(data))
<1> DEFINE n == Len(data)
           W == HashWord
           low == <<Const(LowOf(n))>>
           high == <<Const(HighOf(n))>>
           mark == <<Const(128)>>
           z == Zeros(W - 1)
           pad == Zeros(PadOf(n))
<1>1. n \in Nat /\ LowOf(n) \in Nat /\ HighOf(n) \in Nat /\ W - 1 \in Nat /\ PadOf(n) \in Nat
  BY WordsOfLength, Sizes, PadIs
<1>2. low \in Seq(S) /\ high \in Seq(S) /\ mark \in Seq(S)
  BY <1>1 DEF HasConstants
<1>3. z \in Seq(S) /\ pad \in Seq(S)  BY <1>1, ZerosAre
<1>4. PaddedMessage(kind, data) =
        ((data \o mark) \o pad)
          \o (IF kind = "ripemd160" THEN ((low \o z) \o high) \o z ELSE ((z \o high) \o z) \o low)
  BY DEF PaddedMessage, PadOf, LowOf, HighOf
<1>5. FieldOf(kind, n) = IF kind = "ripemd160" THEN (low \o z) \o (high \o z)
                         ELSE (z \o high) \o (z \o low)
  BY DEF FieldOf, LengthWord
<1> HIDE DEF low, high, mark, z, pad
<1>6. ((low \o z) \o high) \o z = (low \o z) \o (high \o z)
      /\ ((z \o high) \o z) \o low = (z \o high) \o (z \o low)
  <2> DEFINE lz == low \o z
             zh == z \o high
  <2>1. lz \in Seq(S) /\ zh \in Seq(S)  BY <1>2, <1>3, ConcatProperties
  <2> HIDE DEF lz, zh
  <2>2. low \in Seq(S) /\ high \in Seq(S) /\ z \in Seq(S)  BY <1>2, <1>3
  <2>3. (lz \o high) \o z = lz \o (high \o z)  BY <2>1, <2>2, ConcatAssociative, SMTT(30)
  <2>4. (zh \o z) \o low = zh \o (z \o low)  BY <2>1, <2>2, ConcatAssociative, SMTT(30)
  <2> QED  BY <2>3, <2>4 DEF lz, zh
<1>7. (data \o mark) \o pad = data \o (mark \o pad)  BY <1>2, <1>3, ConcatAssociative, SMTT(30)
<1>8. PaddedMessage(kind, data) = (data \o (mark \o pad)) \o FieldOf(kind, n)
  <2>1. CASE kind = "ripemd160"  BY <1>4, <1>5, <1>6, <1>7, <2>1
  <2>2. CASE kind # "ripemd160"  BY <1>4, <1>5, <1>6, <1>7, <2>2
  <2> QED  BY <2>1, <2>2
<1> QED  BY <1>8 DEF mark, pad

\* It consists of whole blocks; its bytes.
LEMMA PaddedBytes ==
  ASSUME NEW S, HasConstants(S), NEW kind \in HashKinds, NEW data \in Seq(S)
  PROVE  LET all == PaddedMessage(kind, data)
             n == Len(data)
             z == PadOf(n)
         IN /\ all \in Seq(S) /\ n \in Nat /\ Len(all) = n + 1 + z + 2 * HashWord
            /\ \A i \in 1..n : all[i] = data[i]
            /\ all[n + 1] = Const(128)
            /\ \A i \in (n + 2)..(n + 1 + z) : all[i] = Const(0)
            /\ \A i \in 1..(2 * HashWord) : all[n + 1 + z + i] = FieldOf(kind, n)[i]
<1> DEFINE n == Len(data)
           p == PadOf(n)
           f == FieldOf(kind, n)
           mark == <<Const(128)>>
           zeros == Zeros(p)
           pad == mark \o zeros
           front == data \o pad
           all == front \o f
<1>1. n \in Nat /\ p \in Nat /\ HashWord \in Nat  BY PadIs, Sizes
<1>2. f \in Seq(S) /\ Len(f) = 2 * HashWord  BY <1>1, FieldIs
<1>3. mark \in Seq(S) /\ Len(mark) = 1 /\ mark[1] = Const(128)  BY DEF HasConstants
<1>4. zeros \in Seq(S) /\ Len(zeros) = p /\ \A i \in 1..p : zeros[i] = Const(0)  BY <1>1, ZerosAre
<1>5. PaddedMessage(kind, data) = all  BY PaddedIs
<1> HIDE DEF mark, zeros, p, f
<1>6. /\ pad \in Seq(S) /\ Len(pad) = 1 + p
      /\ \A i \in 1..1 : pad[i] = mark[i]
      /\ \A i \in 1..p : pad[1 + i] = zeros[i]
  <2>1. mark \in Seq(S) /\ zeros \in Seq(S)  BY <1>3, <1>4
  <2>2. /\ pad \in Seq(S) /\ Len(pad) = Len(mark) + Len(zeros)
        /\ \A i \in 1..Len(mark) : pad[i] = mark[i]
        /\ \A i \in 1..Len(zeros) : pad[Len(mark) + i] = zeros[i]
    BY <2>1, JoinedBytes
  <2>3. Len(mark) = 1 /\ Len(zeros) = p  BY <1>3, <1>4
  <2> QED  BY <2>2, <2>3, Zenon
<1> HIDE DEF pad
<1>7. /\ front \in Seq(S) /\ Len(front) = n + (1 + p)
      /\ \A i \in 1..n : front[i] = data[i]
      /\ \A i \in 1..(1 + p) : front[n + i] = pad[i]
  <2>1. data \in Seq(S) /\ pad \in Seq(S)  BY <1>6
  <2>2. /\ front \in Seq(S) /\ Len(front) = Len(data) + Len(pad)
        /\ \A i \in 1..Len(data) : front[i] = data[i]
        /\ \A i \in 1..Len(pad) : front[Len(data) + i] = pad[i]
    BY <2>1, JoinedBytes
  <2>3. Len(pad) = 1 + p  BY <1>6
  <2> QED  BY <2>2, <2>3, Zenon
<1> HIDE DEF front
<1>8. /\ all \in Seq(S) /\ Len(all) = (n + (1 + p)) + 2 * HashWord
      /\ \A i \in 1..(n + (1 + p)) : all[i] = front[i]
      /\ \A i \in 1..(2 * HashWord) : all[(n + (1 + p)) + i] = f[i]
  <2>1. front \in Seq(S) /\ f \in Seq(S)  BY <1>2, <1>7
  <2>2. /\ all \in Seq(S) /\ Len(all) = Len(front) + Len(f)
        /\ \A i \in 1..Len(front) : all[i] = front[i]
        /\ \A i \in 1..Len(f) : all[Len(front) + i] = f[i]
    BY <2>1, JoinedBytes
  <2>3. Len(front) = n + (1 + p) /\ Len(f) = 2 * HashWord  BY <1>2, <1>7
  <2> QED  BY <2>2, <2>3, Zenon
<1> HIDE DEF all, n
<1>9. \A i \in 1..n : all[i] = data[i]
  <2> TAKE i \in 1..n
  <2>1. i \in 1..(n + (1 + p))  BY <1>1
  <2> QED  BY <1>7, <1>8, <2>1
<1>10. all[n + 1] = Const(128)
  <2>1. n + 1 \in 1..(n + (1 + p)) /\ 1 \in 1..(1 + p) /\ 1 \in 1..1  BY <1>1
  <2> QED  BY <1>3, <1>6, <1>7, <1>8, <2>1
<1>11. ASSUME NEW i \in (n + 2)..(n + 1 + p)  PROVE all[i] = Const(0)
  <2> DEFINE j == i - n - 1
  <2>1. j \in 1..p /\ 1 + j \in 1..(1 + p) /\ n + (1 + j) = i /\ i \in 1..(n + (1 + p))  BY <1>1
  <2> HIDE DEF j
  <2>2. all[i] = front[i]  BY <1>8, <2>1
  <2>3. front[n + (1 + j)] = pad[1 + j]  BY <1>7, <2>1
  <2>4. pad[1 + j] = Const(0)  BY <1>4, <1>6, <2>1
  <2> QED  BY <2>1, <2>2, <2>3, <2>4
<1>12. n + (1 + p) = n + 1 + p /\ (n + (1 + p)) + 2 * HashWord = n + 1 + p + 2 * HashWord
  BY <1>1
<1>13. /\ all \in Seq(S) /\ n \in Nat /\ Len(all) = n + 1 + p + 2 * HashWord
       /\ \A i \in 1..n : all[i] = data[i]
       /\ all[n + 1] = Const(128)
       /\ \A i \in (n + 2)..(n + 1 + p) : all[i] = Const(0)
       /\ \A i \in 1..(2 * HashWord) : all[n + 1 + p + i] = f[i]
  BY <1>1, <1>8, <1>9, <1>10, <1>11, <1>12
<1> QED  BY <1>5, <1>13, Zenon DEF n, p, f

\* A state that has stored the whole padded message is the standard's.
LEMMA StoredIsStandard ==
  ASSUME NEW S, HasConstants(S), NEW kind \in HashKinds, NEW data \in Seq(S),
         NEW ctx, ctx.state \in Seq(BlockOf(S)), NEW m \in Nat,
         Len(PaddedMessage(kind, data)) = m * HashBlock,
         Stored(ctx, PaddedMessage(kind, data), m)
  PROVE  ctx.state = StandardHash(kind, data)
<1> DEFINE all == PaddedMessage(kind, data)
           st == ctx.state
           B == HashBlock
           piece(b) == SubSeq(all, (b - 1) * B + 1, b * B)
<1>1. B \in Nat \ {0} /\ all \in Seq(S)  BY Sizes, PaddedBytes
<1>2. Len(all) \div B = m
  <2>1. Len(all) = m * B + 0 /\ Len(all) \in Int /\ 0 \in 0..(B - 1) /\ m * B \in Int  BY <1>1
  <2> QED  BY <1>1, <2>1, DivModIs
<1>3. StandardHash(kind, data) = [b \in 1..m |-> piece(b)]  BY <1>2 DEF StandardHash
<1>4. Len(st) = m /\ \A b \in 1..m : \A i \in 1..B : st[b][i] = all[(b - 1) * B + i]
  BY DEF Stored
<1>5. Len(all) = m * B  OBVIOUS
<1> HIDE DEF all, st
<1>6. st \in Seq(BlockOf(S))  BY DEF st
<1>7. ASSUME NEW b \in 1..m  PROVE st[b] = piece(b)
  <2> DEFINE from == (b - 1) * B
  <2>1. from \in Nat /\ b * B = from + B /\ b - 1 \in Nat  BY <1>1
  <2>2. \A i \in 1..B : from + i \in 1..Len(all)
    <3>1. m * B <= Len(all) /\ Len(all) \in Nat  BY <1>1, <1>5
    <3> QED  BY <3>1, InBlock
  <2>3. piece(b) = SubSeq(all, from + 1, from + B)  BY <2>1
  <2> HIDE DEF from, piece
  <2>4. \A i \in (from + 1)..(from + B) : all[i] \in S
    <3> TAKE i \in (from + 1)..(from + B)
    <3>1. i - from \in 1..B /\ from + (i - from) = i  BY <1>1, <2>1
    <3>2. i \in 1..Len(all)  BY <2>2, <3>1
    <3> QED  BY <1>1, <3>2, ElementOfSeq
  <2> DEFINE s == SubSeq(all, from + 1, from + B)
  <2>5. from + 1 \in Int /\ from + B \in Int  BY <1>1, <2>1
  <2>6. /\ s \in Seq(S)
        /\ Len(s) = IF from + 1 <= from + B THEN (from + B) - (from + 1) + 1 ELSE 0
        /\ \A i \in 1..((from + B) - (from + 1) + 1) : s[i] = all[from + 1 + i - 1]
    BY <2>4, <2>5, SubSeqProperties
  <2> HIDE DEF s
  <2>7. Len(s) = B  BY <1>1, <2>1, <2>6
  <2>8. s \in BlockOf(S)  BY <2>6, <2>7 DEF BlockOf
  <2>9. st[b] \in BlockOf(S)  BY <1>4, <1>6, ElementOfSeq
  <2>10. ASSUME NEW i \in 1..B  PROVE st[b][i] = s[i]
    <3>1. i \in 1..((from + B) - (from + 1) + 1) /\ from + 1 + i - 1 = from + i  BY <1>1, <2>1
    <3>2. s[i] = all[from + i]  BY <2>6, <3>1
    <3>3. st[b][i] = all[from + i]  BY <1>4 DEF from
    <3> QED  BY <3>2, <3>3
  <2>11. st[b] = s  BY <2>8, <2>9, <2>10, SameBlock
  <2> QED  BY <2>3, <2>11 DEF s
<1>8. st = [b \in 1..m |-> st[b]]  BY <1>4, <1>6
<1>9. st = [b \in 1..m |-> piece(b)]
  <2> HIDE DEF piece
  <2> QED  BY <1>7, <1>8
<1> QED  BY <1>3, <1>9 DEF st

----------------------------------------------------------------------------
(* Final.                                                                   *)

\* The shifts of ripemd160_Final make a number of bits of a number of bytes.
LEMMA BitsOfBytes ==
  ASSUME NEW n \in Nat
  PROVE  /\ (8 * (n % HashCount)) % HashCount = LowOf(n)
         /\ (8 * (n % HashCount)) \div HashCount + ((8 * ((n \div HashCount) % HashCount)) % HashCount)
              = HighOf(n)
<1> DEFINE C == HashCount
           h == n \div C
           c == n % C
           k == (8 * c) \div C
           r == (8 * c) % C
           g == h \div C
           e == h % C
           j == (8 * e) \div C
           t == (8 * e) % C
<1>1. PICK K \in Nat \ {0} : C = 8 * K
  <2>1. PICK m \in Nat \ {0} : C = m * (8 * HashBlock)  BY Sizes
  <2>2. HashBlock \in Nat \ {0}  BY Sizes
  <2>3. m * HashBlock \in Nat /\ m * HashBlock # 0 /\ m * (8 * HashBlock) = 8 * (m * HashBlock)  BY <2>2
  <2> QED  BY <2>1, <2>3
<1>2. C \in Nat \ {0} /\ n \in Int  BY Sizes
<1>3. h \in Nat /\ c \in 0..(C - 1) /\ n = h * C + c  BY <1>2, DivModOf, DivOfNat
<1>4. k \in Int /\ r \in 0..(C - 1) /\ 8 * c = k * C + r
  <2>1. 8 * c \in Int  BY <1>2, <1>3
  <2> QED  BY <1>2, <2>1, DivModOf
<1>5. g \in Nat /\ e \in 0..(C - 1) /\ h = g * C + e
  <2>1. h \in Int /\ h \in Nat  BY <1>3
  <2> HIDE DEF h
  <2> QED  BY <1>2, <2>1, DivModOf, DivOfNat
<1>6. j \in Int /\ t \in 0..(C - 1) /\ 8 * e = j * C + t
  <2>1. 8 * e \in Int  BY <1>2, <1>5
  <2> QED  BY <1>2, <2>1, DivModOf
<1>7. /\ LowOf(n) = (8 * n) % C /\ HighOf(n) = ((8 * n) \div C) % C
  BY DEF LowOf, HighOf
<1> HIDE DEF C, h, c, k, r, g, e, j, t
<1>8. /\ h * C \in Nat /\ k * C \in Int /\ g * C \in Nat /\ j * C \in Int
      /\ (8 * h + k) * C = 8 * (h * C) + k * C
      /\ (8 * g + j) * C = 8 * (g * C) + j * C
  BY <1>2, <1>3, <1>4, <1>5, <1>6
<1>9. (8 * n) \div C = 8 * h + k /\ (8 * n) % C = r
  <2>1. 8 * n = (8 * h + k) * C + r  BY <1>2, <1>3, <1>4, <1>8
  <2>2. 8 * n \in Int /\ 8 * h + k \in Int  BY <1>2, <1>3, <1>4
  <2> QED  BY <1>2, <1>4, <2>1, <2>2, DivModIs
<1>10. k \in 0..7
  <2>1. CASE k < 0
    <3>1. k * C + C <= 0 * C  BY <1>2, <1>4, <2>1, MultiplesApart
    <3> QED  BY <1>2, <1>3, <1>4, <1>8, <3>1
  <2>2. CASE k > 7
    <3>1. 7 * C + C <= k * C  BY <1>2, <1>4, <2>2, MultiplesApart
    <3> QED  BY <1>2, <1>3, <1>4, <1>8, <3>1
  <2> QED  BY <1>4, <2>1, <2>2
<1>11. t + k \in 0..(C - 1)
  <2>1. t = 8 * (e - j * K)
    <3>1. j * C = 8 * (j * K) /\ j * K \in Int  BY <1>1, <1>6
    <3> QED  BY <1>2, <1>5, <1>6, <1>8, <3>1
  <2>2. e - j * K \in Int  BY <1>1, <1>2, <1>5, <1>6
  <2> QED  BY <1>1, <1>2, <1>6, <1>10, <2>1, <2>2
<1>12. (8 * h + k) % C = t + k
  <2>1. 8 * h + k = (8 * g + j) * C + (t + k)  BY <1>2, <1>4, <1>5, <1>6, <1>8
  <2>2. 8 * h + k \in Int /\ 8 * g + j \in Int  BY <1>3, <1>4, <1>5, <1>6
  <2> QED  BY <1>2, <1>11, <2>1, <2>2, DivModIs
<1>13. LowOf(n) = r /\ HighOf(n) = k + t  BY <1>4, <1>6, <1>7, <1>9, <1>12
<1> QED  BY <1>13 DEF C, h, c, k, r, g, e, j, t

\* How many zeros fill the last block.
LEMMA PadOfUsed ==
  ASSUME NEW q \in Nat, NEW u \in 0..(HashBlock - 1)
  PROVE  LET short == HashBlock - 2 * HashWord
             n == q * HashBlock + u
         IN /\ u + 1 <= short => PadOf(n) = short - u - 1
            /\ ~(u + 1 <= short) => PadOf(n) = HashBlock + short - u - 1
<1> DEFINE B == HashBlock
           W == HashWord
           short == B - 2 * W
           n == q * B + u
           x == -(n + 1 + 2 * W)
<1>1. /\ B \in Nat \ {0} /\ W \in Nat \ {0} /\ 2 * W < B /\ q * B \in Nat /\ x \in Int
      /\ PadOf(n) = x % B
  BY Sizes DEF PadOf
<1>2. CASE u + 1 <= short
  <2>1. x = (-(q + 1)) * B + (short - u - 1)
    <3>1. (-(q + 1)) * B = -(q * B) - B  BY <1>1
    <3> QED  BY <1>1, <3>1
  <2>2. short - u - 1 \in 0..(B - 1) /\ -(q + 1) \in Int  BY <1>1, <1>2
  <2> HIDE DEF x, n
  <2>3. PadOf(n) = short - u - 1  BY <1>1, <2>1, <2>2, DivModIs
  <2> QED  BY <1>2, <2>3 DEF n
<1>3. CASE ~(u + 1 <= short)
  <2>1. x = (-(q + 2)) * B + (B + short - u - 1)
    <3>1. (-(q + 2)) * B = -(q * B) - B - B  BY <1>1
    <3> QED  BY <1>1, <3>1
  <2>2. B + short - u - 1 \in 0..(B - 1) /\ -(q + 2) \in Int  BY <1>1, <1>3
  <2> HIDE DEF x, n
  <2>3. PadOf(n) = B + short - u - 1  BY <1>1, <2>1, <2>2, DivModIs
  <2> QED  BY <1>3, <2>3 DEF n
<1> QED  BY <1>2, <1>3

\* RIPEMD-160: the padding and the length field are two more pieces.
LEMMA RipemdFinalIs ==
  ASSUME NEW S, HasConstants(S), NEW ctx, NEW data, Holds(S, "ripemd160", ctx, data)
  PROVE  RipemdFinal(ctx) = StandardHash("ripemd160", data)
<1> DEFINE kind == "ripemd160"
           n == Len(data)
           B == HashBlock
           short == B - 2 * HashWord
           last == ctx.count % B
           padn == IF last < short THEN short - last ELSE B + short - last
           pad == <<Const(128)>> \o Zeros(padn - 1)
           low == (8 * ctx.count) % HashCount
           high == ((8 * ctx.count) \div HashCount) + ((8 * ctx.high) % HashCount)
           field == LengthWord(low) \o LengthWord(high)
           padded == Update(kind, ctx, pad)
           done == Update(kind, padded, field)
           all == PaddedMessage(kind, data)
<1>1. RipemdFinal(ctx) = done.state  BY DEF RipemdFinal
<1>2. /\ ctx \in Contexts(S) /\ data \in Seq(S) /\ Counts(kind, ctx, n) /\ n \in Nat
      /\ kind \in HashKinds /\ B \in Nat \ {0} /\ HashWord \in Nat /\ 2 * HashWord < B
      /\ 8 * B < HashCount
  BY Sizes DEF Holds, HashKinds
<1>3. PICK q \in Nat, u \in 0..(B - 1) : n = q * B + u  BY DEF Holds
<1>4. last = u
  <2>1. UsedSpace(kind, ctx) = u  BY <1>2, <1>3, UsedIs
  <2> QED  BY <2>1 DEF UsedSpace
<1>5. padn - 1 = PadOf(n)
  <2>1. CASE u + 1 <= short
    <3>1. PadOf(n) = short - u - 1  BY <1>3, <2>1, PadOfUsed
    <3>2. u < short  BY <1>2, <2>1
    <3> QED  BY <1>2, <1>4, <3>1, <3>2
  <2>2. CASE ~(u + 1 <= short)
    <3>1. PadOf(n) = B + short - u - 1  BY <1>3, <2>2, PadOfUsed
    <3>2. ~(u < short)  BY <1>2, <2>2
    <3> QED  BY <1>2, <1>4, <3>1, <3>2
  <2> QED  BY <2>1, <2>2
<1>6. low = LowOf(n) /\ high = HighOf(n)
  <2>1. ctx.count = n % HashCount /\ ctx.high = (n \div HashCount) % HashCount
    BY <1>2 DEF Counts, Counter
  <2> QED  BY <1>2, <2>1, BitsOfBytes
<1>7. field = FieldOf(kind, n)  BY <1>6 DEF FieldOf
<1> HIDE DEF last, padn, low, high
<1>8. pad = <<Const(128)>> \o Zeros(PadOf(n))  BY <1>5
<1>9. all = (data \o pad) \o field
  <2>1. all = (data \o (<<Const(128)>> \o Zeros(PadOf(n)))) \o FieldOf(kind, n)
    BY <1>2, PaddedIs
  <2> QED  BY <1>7, <1>8, <2>1
<1>10. pad \in Seq(S) /\ Len(pad) < HashCount
  <2>1. PadOf(n) \in 0..(B - 1)  BY <1>2, PadIs
  <2> DEFINE z == Zeros(PadOf(n))
             mark == <<Const(128)>>
  <2>2. z \in Seq(S) /\ Len(z) = PadOf(n)  BY <1>2, <2>1, ZerosAre
  <2>3. mark \in Seq(S) /\ Len(mark) = 1  BY DEF HasConstants
  <2> HIDE DEF z, mark
  <2>4. mark \in Seq(S) /\ z \in Seq(S)  BY <2>2, <2>3
  <2>5. mark \o z \in Seq(S) /\ Len(mark \o z) = Len(mark) + Len(z)  BY <2>4, ConcatProperties
  <2>6. pad = mark \o z  BY <1>8 DEF mark, z
  <2> HIDE DEF pad
  <2>7. 1 + PadOf(n) < HashCount /\ Len(pad) = 1 + PadOf(n)
    <3>1. Len(pad) = 1 + PadOf(n)  BY <2>2, <2>3, <2>5, <2>6
    <3>2. HashCount \in Nat  BY Sizes
    <3>3. 1 + PadOf(n) < HashCount  BY <1>2, <2>1, <3>2
    <3> QED  BY <3>1, <3>3
  <2> QED  BY <2>5, <2>6, <2>7
<1>11. field \in Seq(S) /\ Len(field) < HashCount
  <2>1. FieldOf(kind, n) \in Seq(S) /\ Len(FieldOf(kind, n)) = 2 * HashWord  BY <1>2, FieldIs
  <2>2. 2 * HashWord < HashCount  BY <1>2, Sizes
  <2> HIDE DEF field
  <2> QED  BY <1>7, <2>1, <2>2
<1> HIDE DEF pad, field
<1>12. Holds(S, kind, padded, data \o pad)  BY <1>2, <1>10, UpdateHolds
<1> HIDE DEF padded
<1>13. Holds(S, kind, done, all)
  <2>1. Holds(S, kind, done, (data \o pad) \o field)  BY <1>2, <1>11, <1>12, UpdateHolds
  <2> QED  BY <1>9, <2>1
<1> HIDE DEF done
<1>14. PICK p \in Nat, v \in 0..(B - 1) : Len(all) = p * B + v /\ Stored(done, all, p)
  BY <1>13 DEF Holds
<1>15. v = 0
  <2>1. PICK m \in Nat \ {0} : n + 1 + PadOf(n) + 2 * HashWord = m * B  BY <1>2, PadIs
  <2>2. Len(all) = n + 1 + PadOf(n) + 2 * HashWord  BY <1>2, PaddedBytes
  <2>3. m * B = m * B + 0 /\ 0 \in 0..(B - 1) /\ m * B \in Int  BY <1>2
  <2>4. (m * B) % B = 0  BY <1>2, <2>3, DivModIs
  <2>5. (p * B + v) % B = v
    <3>1. p * B + v \in Int  BY <1>2, <1>14
    <3> QED  BY <1>2, <3>1, DivModIs
  <2> QED  BY <1>14, <2>1, <2>2, <2>4, <2>5
<1>16. Len(all) = p * B
  <2>1. p * B \in Int  BY <1>2
  <2> QED  BY <1>14, <1>15, <2>1
<1>17. done.state \in Seq(BlockOf(S))  BY <1>13 DEF Holds, Contexts
<1>18. done.state = StandardHash(kind, data)
  BY <1>2, <1>14, <1>16, <1>17, StoredIsStandard
<1> QED  BY <1>1, <1>18

\* SHA-2: the last block is what the buffer holds and the two words of the length.
LEMMA LastBlockIs ==
  ASSUME NEW S, HasConstants(S), NEW kind \in HashKinds, kind # "ripemd160",
         NEW last \in Contexts(S), NEW data \in Seq(S), NEW p \in Nat,
         Counts(kind, last, Len(data)),
         Stored(last, PaddedMessage(kind, data), p),
         Len(PaddedMessage(kind, data)) = (p + 1) * HashBlock,
         \A i \in 1..(HashBlock - 2 * HashWord) :
           last.buffer[i] = PaddedMessage(kind, data)[p * HashBlock + i]
  PROVE  Transform(kind, last.state,
                   SubSeq(ReversedWords(last.buffer, AllWords), 1, HashBlock - 2 * HashWord)
                     \o LengthWord(last.high) \o LengthWord(last.count))
           = StandardHash(kind, data)
<1> DEFINE B == HashBlock
           W == HashWord
           short == B - 2 * W
           n == Len(data)
           all == PaddedMessage(kind, data)
           rev == ReversedWords(last.buffer, AllWords)
           body == SubSeq(rev, 1, short)
           h == LengthWord(last.high)
           l == LengthWord(last.count)
           x == (body \o h) \o l
           next == [last EXCEPT !.state = Append(last.state, ReversedWords(x, AllWords))]
<1>1. /\ B \in Nat \ {0} /\ W \in Nat \ {0} /\ 2 * W < B /\ short \in Nat /\ short < B
      /\ AllWords \in Nat /\ B = AllWords * W /\ n \in Nat
  BY Sizes
<1>2. AllWords - 2 \in Nat /\ AllWords - 1 \in Nat
      /\ (AllWords - 2) * W = short /\ (AllWords - 1) * W = short + W
  <2>1. (AllWords - 2) * W = AllWords * W - 2 * W /\ (AllWords - 1) * W = AllWords * W - W
    BY <1>1
  <2>2. AllWords > 2
    <3>1. CASE AllWords < 2
      <4>1. AllWords * W + W <= 2 * W  BY <1>1, <3>1, MultiplesApart
      <4> QED  BY <1>1, <4>1
    <3>2. CASE AllWords = 2  BY <1>1, <3>2
    <3> QED  BY <1>1, <3>1, <3>2
  <2> QED  BY <1>1, <2>1, <2>2
<1>3. last.buffer \in BlockOf(S) /\ last.state \in Seq(BlockOf(S))
      /\ last.high \in Nat /\ last.count \in Nat
  BY <1>1, Sizes DEF Contexts
<1>4. last.count = LowOf(n) /\ last.high = HighOf(n)
  BY DEF Counts, Counter, LowOf, HighOf
<1>5. /\ rev \in BlockOf(S) /\ \A i \in 1..B : rev[i] = last.buffer[Mirror(i)]
  BY <1>3, ReversedTwice
<1> HIDE DEF rev
<1>6. /\ h \in Seq(S) /\ Len(h) = W /\ \A i \in 1..W : h[i] = IF i = 1 THEN Const(HighOf(n)) ELSE Const(0)
      /\ l \in Seq(S) /\ Len(l) = W /\ \A i \in 1..W : l[i] = IF i = 1 THEN Const(LowOf(n)) ELSE Const(0)
  <2>1. LowOf(n) \in Nat /\ HighOf(n) \in Nat  BY <1>3, <1>4
  <2> QED  BY <1>4, <2>1, WordIs
<1>7. body \in Seq(S) /\ Len(body) = short /\ \A i \in 1..short : body[i] = rev[i]
  <2>1. rev \in Seq(S) /\ Len(rev) = B  BY <1>1, <1>5 DEF BlockOf
  <2>2. short \in 0..Len(rev)  BY <1>1, <2>1
  <2> HIDE DEF short
  <2> QED  BY <2>1, <2>2, Pieces
<1> HIDE DEF h, l, body
<1>8. /\ body \o h \in Seq(S) /\ Len(body \o h) = short + W
      /\ \A i \in 1..short : (body \o h)[i] = body[i]
      /\ \A i \in 1..W : (body \o h)[short + i] = h[i]
  <2> HIDE DEF short
  <2>1. body \in Seq(S) /\ h \in Seq(S)  BY <1>6, <1>7
  <2>2. /\ body \o h \in Seq(S) /\ Len(body \o h) = Len(body) + Len(h)
        /\ \A i \in 1..Len(body) : (body \o h)[i] = body[i]
        /\ \A i \in 1..Len(h) : (body \o h)[Len(body) + i] = h[i]
    BY <2>1, JoinedBytes
  <2>3. Len(body) = short /\ Len(h) = W  BY <1>6, <1>7
  <2> QED  BY <2>2, <2>3, Zenon
<1> DEFINE front == body \o h
<1> HIDE DEF front
<1>9. /\ x \in Seq(S) /\ Len(x) = B
      /\ \A i \in 1..(short + W) : x[i] = front[i]
      /\ \A i \in 1..W : x[short + W + i] = l[i]
  <2>1. front \in Seq(S) /\ l \in Seq(S) /\ Len(front) = short + W /\ Len(l) = W
    BY <1>6, <1>8 DEF front
  <2>2. x = front \o l  BY DEF front
  <2> HIDE DEF x
  <2>3. /\ front \o l \in Seq(S) /\ Len(front \o l) = Len(front) + Len(l)
        /\ \A i \in 1..Len(front) : (front \o l)[i] = front[i]
        /\ \A i \in 1..Len(l) : (front \o l)[Len(front) + i] = l[i]
    <3>1. front \in Seq(S) /\ l \in Seq(S)  BY <2>1
    <3> QED  BY <3>1, JoinedBytes
  <2>4. (short + W) + W = B  BY <1>1
  <2> HIDE DEF short
  <2> QED  BY <2>1, <2>2, <2>3, <2>4
<1>10. \A i \in 1..short : x[i] = rev[i]
  <2> TAKE i \in 1..short
  <2>1. i \in 1..(short + W)  BY <1>1
  <2> QED  BY <1>7, <1>8, <1>9, <2>1 DEF front
<1>11. \A i \in 1..W : x[short + i] = h[i]
  <2> TAKE i \in 1..W
  <2>1. short + i \in 1..(short + W)  BY <1>1
  <2> QED  BY <1>8, <1>9, <2>1 DEF front
<1> HIDE DEF x
<1>12. x \in BlockOf(S)  BY <1>1, <1>9 DEF BlockOf
<1> DEFINE blk == ReversedWords(x, AllWords)
<1>13. blk \in BlockOf(S) /\ \A i \in 1..B : blk[i] = x[Mirror(i)]
  BY <1>12, ReversedTwice
<1> HIDE DEF blk
\* The bytes that are mirrored within the field, and within the body.
<1>14. ASSUME NEW i \in 1..W
       PROVE  Mirror(short + i) = short + (W + 1 - i) /\ Mirror(short + W + i) = short + W + (W + 1 - i)
  <2>1. i - 1 \in 0..(W - 1)  BY <1>1
  <2>2. Mirror((AllWords - 2) * W + (i - 1) + 1) = (AllWords - 2) * W + (W - (i - 1))
    BY <1>2, <2>1, MirrorIs
  <2>3. Mirror((AllWords - 1) * W + (i - 1) + 1) = (AllWords - 1) * W + (W - (i - 1))
    BY <1>2, <2>1, MirrorIs
  <2>4. /\ short + (i - 1) + 1 = short + i /\ short + (W - (i - 1)) = short + (W + 1 - i)
        /\ (short + W) + (i - 1) + 1 = short + W + i
        /\ (short + W) + (W - (i - 1)) = short + W + (W + 1 - i)
    BY <1>1
  <2> HIDE DEF short
  <2> QED  BY <1>2, <2>2, <2>3, <2>4
<1>15. ASSUME NEW i \in 1..short  PROVE Mirror(i) \in 1..short
  <2>1. i \in 1..B  BY <1>1
  <2>2. Mirror(i) \in 1..B /\ Mirror(Mirror(i)) = i  BY <2>1, MirrorFacts
  <2>3. CASE Mirror(i) > short + W
    <3> DEFINE k == Mirror(i) - short - W
    <3>1. k \in 1..W /\ short + W + k = Mirror(i)  BY <1>1, <2>2, <2>3
    <3> HIDE DEF k
    <3>2. i = short + W + (W + 1 - k)  BY <1>14, <2>2, <3>1
    <3> QED  BY <1>1, <3>1, <3>2
  <2>4. CASE Mirror(i) > short /\ ~(Mirror(i) > short + W)
    <3> DEFINE k == Mirror(i) - short
    <3>1. k \in 1..W /\ short + k = Mirror(i)  BY <1>1, <2>2, <2>4
    <3> HIDE DEF k
    <3>2. i = short + (W + 1 - k)  BY <1>14, <2>2, <3>1
    <3> QED  BY <1>1, <3>1, <3>2
  <2> QED  BY <1>1, <2>2, <2>3, <2>4
<1>16. /\ all \in Seq(S) /\ Len(all) = n + 1 + PadOf(n) + 2 * W
       /\ \A i \in 1..(2 * W) : all[n + 1 + PadOf(n) + i] = FieldOf(kind, n)[i]
  BY PaddedBytes, SMTT(30)
<1>17. n + 1 + PadOf(n) = p * B + short /\ p * B \in Nat
  <2>1. (p + 1) * B = p * B + B /\ p * B \in Nat  BY <1>1
  <2>2. PadOf(n) \in Int  BY <1>1, PadIs
  <2>3. n + 1 + PadOf(n) + 2 * W = p * B + B  BY <1>16, <2>1
  <2> DEFINE P == p * B
             y == PadOf(n)
  <2>4. P \in Nat /\ y \in Int /\ n + 1 + y + 2 * W = P + B  BY <2>1, <2>2, <2>3
  <2>5. W \in Nat /\ B \in Nat /\ n \in Nat  BY <1>1
  <2> HIDE DEF n, P, y, B, W
  <2>6. n + 1 + y = P + (B - 2 * W)  BY <2>4, <2>5
  <2> QED  BY <2>4, <2>6 DEF P, y
<1>18. \A i \in 1..W : /\ FieldOf(kind, n)[i] = IF i = W THEN Const(HighOf(n)) ELSE Const(0)
                       /\ FieldOf(kind, n)[W + i] = IF i = W THEN Const(LowOf(n)) ELSE Const(0)
  <2> DEFINE z(m) == Zeros(W - 1) \o <<Const(m)>>
             zh == z(HighOf(n))
             zl == z(LowOf(n))
  <2>1. HighOf(n) \in Nat /\ LowOf(n) \in Nat  BY <1>1, WordsOfLength
  <2>2. ASSUME NEW m \in Nat
        PROVE  /\ z(m) \in Seq(S) /\ Len(z(m)) = W
               /\ \A i \in 1..W : z(m)[i] = IF i = W THEN Const(m) ELSE Const(0)
    BY WordIs
  <2>3. FieldOf(kind, n) = zh \o zl  BY DEF FieldOf
  <2> HIDE DEF z
  <2>4. /\ zh \in Seq(S) /\ Len(zh) = W /\ zl \in Seq(S) /\ Len(zl) = W
        /\ \A i \in 1..W : zh[i] = IF i = W THEN Const(HighOf(n)) ELSE Const(0)
        /\ \A i \in 1..W : zl[i] = IF i = W THEN Const(LowOf(n)) ELSE Const(0)
    BY <2>1, <2>2
  <2> HIDE DEF zh, zl
  <2>5. /\ \A i \in 1..Len(zh) : (zh \o zl)[i] = zh[i]
        /\ \A i \in 1..Len(zl) : (zh \o zl)[Len(zh) + i] = zl[i]
    BY <2>4, JoinedBytes
  <2> QED  BY <2>3, <2>4, <2>5
<1>19. ASSUME NEW i \in 1..B  PROVE blk[i] = all[p * B + i]
  <2>1. CASE i \in 1..short
    <3>1. Mirror(i) \in 1..short /\ Mirror(Mirror(i)) = i  BY <1>15, <2>1, MirrorFacts
    <3>2. Mirror(i) \in 1..B  BY <1>1, <3>1
    <3>3. blk[i] = x[Mirror(i)]  BY <1>13
    <3>4. x[Mirror(i)] = rev[Mirror(i)]  BY <1>10, <3>1
    <3>5. rev[Mirror(i)] = last.buffer[i]  BY <1>5, <3>1, <3>2
    <3> QED  BY <2>1, <3>3, <3>4, <3>5
  <2>2. CASE i > short /\ i <= short + W
    <3> DEFINE k == i - short
    <3>1. k \in 1..W /\ short + k = i /\ W + 1 - k \in 1..W  BY <1>1, <2>2
    <3> HIDE DEF k
    <3>2. blk[i] = h[W + 1 - k]  BY <1>11, <1>13, <1>14, <3>1
    <3>3. h[W + 1 - k] = IF k = W THEN Const(HighOf(n)) ELSE Const(0)
      <4>1. W + 1 - k = 1 <=> k = W  BY <1>1, <3>1
      <4> QED  BY <1>6, <3>1, <4>1
    <3>4. all[p * B + short + k] = FieldOf(kind, n)[k]
      <4>1. k \in 1..(2 * W)
        <5>1. W \in Nat /\ k \in 1..W  BY <1>1, <3>1
        <5> HIDE DEF W
        <5> QED  BY ONLY <5>1
      <4> QED  BY <1>16, <1>17, <4>1
    <3>5. p * B + short + k = p * B + i  BY <1>1, <1>17, <3>1
    <3> QED  BY <1>18, <3>1, <3>2, <3>3, <3>4, <3>5
  <2>3. CASE i > short + W
    <3> DEFINE k == i - short - W
    <3>1. k \in 1..W /\ short + W + k = i /\ W + 1 - k \in 1..W  BY <1>1, <2>3
    <3> HIDE DEF k
    <3>2. blk[i] = l[W + 1 - k]
      <4>1. blk[i] = x[short + W + (W + 1 - k)]  BY <1>13, <1>14, <3>1
      <4> QED  BY <1>9, <3>1, <4>1
    <3>3. l[W + 1 - k] = IF k = W THEN Const(LowOf(n)) ELSE Const(0)
      <4>1. W + 1 - k = 1 <=> k = W
        <5>1. W \in Nat /\ k \in 1..W  BY <1>1, <3>1
        <5> HIDE DEF W
        <5> QED  BY ONLY <5>1
      <4> QED  BY <1>6, <3>1, <4>1
    <3>4. all[p * B + short + (W + k)] = FieldOf(kind, n)[W + k]
      <4>1. W + k \in 1..(2 * W)
        <5>1. W \in Nat /\ k \in 1..W  BY <1>1, <3>1
        <5> HIDE DEF W
        <5> QED  BY ONLY <5>1
      <4> QED  BY <1>16, <1>17, <4>1
    <3>5. p * B + short + (W + k) = p * B + i  BY <1>1, <1>17, <3>1
    <3> QED  BY <1>18, <3>1, <3>2, <3>3, <3>4, <3>5
  <2> QED  BY <1>1, <2>1, <2>2, <2>3
<1>20. Transform(kind, last.state, x) = Append(last.state, blk)
  BY DEF Transform, blk
<1>21. Append(last.state, blk) \in Seq(BlockOf(S))  BY <1>3, <1>13, AppendProperties
<1>22. next.state = Append(last.state, blk)  BY DEF blk, Contexts
<1> HIDE DEF next, all
<1>23. Stored(next, all, p + 1)
  <2>1. Stored(last, all, p)  BY DEF all
  <2> QED  BY <1>3, <1>13, <1>19, <1>22, <2>1, StoredNext
<1>24. next.state = StandardHash(kind, data)
  <2>1. p + 1 \in Nat /\ Len(all) = (p + 1) * HashBlock  BY DEF all
  <2> QED  BY <1>21, <1>22, <1>23, <2>1, StoredIsStandard DEF all
<1> QED  BY <1>20, <1>22, <1>24 DEF x, body, h, l, rev

LEMMA ShaFinalIs ==
  ASSUME NEW S, HasConstants(S), NEW kind \in HashKinds, kind # "ripemd160",
         NEW ctx, NEW data, Holds(S, kind, ctx, data)
  PROVE  ShaFinal(kind, ctx) = StandardHash(kind, data)
<1> DEFINE B == HashBlock
           W == HashWord
           short == B - 2 * W
           n == Len(data)
           all == PaddedMessage(kind, data)
           z == PadOf(n)
           used == UsedSpace(kind, ctx) + 1
           marked == [ctx.buffer EXCEPT ![used] = Const(128)]
           whole == [ctx EXCEPT !.buffer = Cleared(marked, used, B)]
           done == Process(kind, whole)
           last == IF used <= short THEN [ctx EXCEPT !.buffer = Cleared(marked, used, short)]
                   ELSE [done EXCEPT !.buffer = Cleared(done.buffer, 0, short)]
           result == Transform(kind, last.state,
                               SubSeq(ReversedWords(last.buffer, AllWords), 1, short)
                                 \o LengthWord(last.high) \o LengthWord(last.count))
<1>1. ShaFinal(kind, ctx) = result  BY DEF ShaFinal, ShaPadded
<1>2. /\ ctx \in Contexts(S) /\ data \in Seq(S) /\ Counts(kind, ctx, n) /\ n \in Nat
      /\ B \in Nat \ {0} /\ W \in Nat \ {0} /\ 2 * W < B /\ short \in Nat /\ short < B
      /\ Const(0) \in S /\ Const(128) \in S
  BY Sizes DEF Holds, HasConstants
<1>3. PICK q \in Nat, u \in 0..(B - 1) :
        n = q * B + u /\ Stored(ctx, data, q) /\ Buffered(ctx, data, q, u)
  BY DEF Holds
<1>4. used = u + 1 /\ used \in 1..B
  <2>1. UsedSpace(kind, ctx) = u  BY <1>2, <1>3, UsedIs
  <2> QED  BY <1>2, <2>1
<1>5. /\ all \in Seq(S) /\ Len(all) = n + 1 + z + 2 * W /\ z \in Nat
      /\ \A i \in 1..n : all[i] = data[i]
      /\ all[n + 1] = Const(128)
      /\ \A i \in (n + 2)..(n + 1 + z) : all[i] = Const(0)
  <2>1. z \in Nat  BY <1>2, PadIs
  <2>2. data \in Seq(S)  BY <1>2
  <2>3. /\ all \in Seq(S) /\ Len(all) = n + 1 + z + 2 * W
        /\ \A i \in 1..n : all[i] = data[i]
        /\ all[n + 1] = Const(128)
        /\ \A i \in (n + 2)..(n + 1 + z) : all[i] = Const(0)
    BY <2>2, PaddedBytes, SMTT(30)
  <2> QED  BY <2>1, <2>3
<1>6. q * B \in Nat /\ (q + 1) * B = q * B + B /\ ((q + 1) + 1) * B = q * B + B + B  BY <1>2
<1>7. Stored(ctx, all, q)
  <2> DEFINE more == (<<Const(128)>> \o Zeros(z)) \o FieldOf(kind, n)
  <2>1. ASSUME NEW b \in 1..q, NEW i \in 1..B
        PROVE  all[(b - 1) * B + i] = data[(b - 1) * B + i]
    <3>1. q * B <= n  BY <1>2, <1>3, <1>6
    <3>2. (b - 1) * B + i \in 1..n  BY <1>2, <3>1, InBlock
    <3> QED  BY <1>5, <3>2
  <2>2. Len(ctx.state) = q /\ \A b \in 1..q : \A i \in 1..B : ctx.state[b][i] = data[(b - 1) * B + i]
    BY <1>3 DEF Stored
  <2> HIDE DEF all
  <2>3. \A b \in 1..q : \A i \in 1..B : ctx.state[b][i] = all[(b - 1) * B + i]
    BY <2>1, <2>2
  <2> QED  BY <2>2, <2>3 DEF Stored
\* The bytes in front of the mark, and the mark.
<1>8. /\ marked \in BlockOf(S) /\ ctx.buffer \in BlockOf(S)
      /\ \A i \in 1..used : marked[i] = all[q * B + i]
  <2>1. ctx.buffer \in BlockOf(S)  BY <1>2 DEF Contexts
  <2>2. marked \in BlockOf(S)  BY <1>2, <1>4, <2>1 DEF BlockOf
  <2>3. ASSUME NEW i \in 1..used  PROVE marked[i] = all[q * B + i]
    <3>1. CASE i = used
      <4>1. marked[i] = Const(128)  BY <1>4, <2>1, <3>1 DEF BlockOf
      <4>2. q * B + i = n + 1  BY <1>2, <1>3, <1>4, <1>6, <3>1
      <4> QED  BY <1>5, <4>1, <4>2
    <3>2. CASE i # used
      <4>1. i \in 1..u /\ i \in 1..B  BY <1>2, <1>4, <3>2
      <4>2. marked[i] = ctx.buffer[i]  BY <2>1, <3>2, <4>1 DEF BlockOf
      <4>3. ctx.buffer[i] = data[q * B + i]  BY <1>3, <4>1 DEF Buffered
      <4>4. q * B + i \in 1..n  BY <1>2, <1>3, <1>6, <4>1
      <4> QED  BY <1>5, <4>2, <4>3, <4>4
    <3> QED  BY <3>1, <3>2
  <2> QED  BY <2>1, <2>2, <2>3
<1> HIDE DEF marked, all, used, z
<1>9. ASSUME NEW b \in BlockOf(S), NEW from, NEW to
      PROVE  Cleared(b, from, to) \in BlockOf(S)
  <2>1. \A i \in 1..B : b[i] \in S  BY DEF BlockOf
  <2> QED  BY <1>2, <2>1 DEF BlockOf, Cleared
\* It is enough to come to the last block.
<1>10. ASSUME NEW p \in Nat, last \in Contexts(S), Counts(kind, last, n), Stored(last, all, p),
              Len(all) = (p + 1) * B, \A i \in 1..short : last.buffer[i] = all[p * B + i]
       PROVE  result = StandardHash(kind, data)
  <2> HIDE DEF last
  <2>1. Stored(last, PaddedMessage(kind, data), p) /\ Counts(kind, last, Len(data))
        /\ Len(PaddedMessage(kind, data)) = (p + 1) * HashBlock
        /\ \A i \in 1..(HashBlock - 2 * HashWord) :
             last.buffer[i] = PaddedMessage(kind, data)[p * HashBlock + i]
    BY <1>10 DEF all
  <2>2. Transform(kind, last.state,
                  SubSeq(ReversedWords(last.buffer, AllWords), 1, HashBlock - 2 * HashWord)
                    \o LengthWord(last.high) \o LengthWord(last.count))
          = StandardHash(kind, data)
    BY <1>2, <1>10, <2>1, LastBlockIs
  <2> QED  BY <2>2
<1>11. CASE used <= short
  <2> DEFINE new == Cleared(marked, used, short)
             one == [ctx EXCEPT !.buffer = new]
  <2>1. z = short - u - 1
    <3>1. u + 1 <= short  BY <1>4, <1>11
    <3> QED  BY <1>3, <3>1, PadOfUsed DEF z
  <2>2. \A i \in 1..short : new[i] = all[q * B + i]
    <3> TAKE i \in 1..short
    <3>1. i \in 1..B  BY <1>2
    <3>2. CASE used < i
      <4>1. new[i] = Const(0)  BY <3>1, <3>2 DEF Cleared
      <4>2. q * B + i \in (n + 2)..(n + 1 + z)  BY <1>2, <1>3, <1>4, <1>6, <2>1, <3>2
      <4> QED  BY <1>5, <4>1, <4>2
    <3>3. CASE ~(used < i)
      <4>1. new[i] = marked[i]  BY <3>1, <3>3 DEF Cleared
      <4>2. i \in 1..used  BY <1>4, <3>3
      <4> QED  BY <1>8, <4>1, <4>2
    <3> QED  BY <3>2, <3>3
  <2>3. new \in BlockOf(S)  BY <1>8, <1>9
  <2> HIDE DEF new
  <2>4. /\ one \in Contexts(S) /\ one.state = ctx.state /\ one.buffer = new
        /\ one.count = ctx.count /\ one.high = ctx.high
    BY <1>2, <2>3 DEF Contexts
  <2>5. last = one  BY <1>11 DEF new
  <2> HIDE DEF one, last
  <2>6. Counts(kind, last, n)  BY <1>2, <2>4, <2>5 DEF Counts
  <2>7. Stored(last, all, q)  BY <1>7, <2>4, <2>5 DEF Stored
  <2>8. Len(all) = (q + 1) * B
    <3>1. n + 1 + z + 2 * W = q * B + B  BY <1>2, <1>3, <1>6, <2>1
    <3> QED  BY <1>5, <1>6, <3>1
  <2>9. \A i \in 1..short : last.buffer[i] = all[q * B + i]  BY <2>2, <2>4, <2>5
  <2>10. last \in Contexts(S)  BY <2>4, <2>5
  <2> HIDE DEF result
  <2> QED  BY <1>1, <1>10, <2>6, <2>7, <2>8, <2>9, <2>10
<1>12. CASE ~(used <= short)
  <2> DEFINE new == Cleared(marked, used, B)
             zeroed == Cleared(done.buffer, 0, short)
             two == [done EXCEPT !.buffer = zeroed]
  <2>1. z = B + short - u - 1
    <3>1. ~(u + 1 <= short)  BY <1>4, <1>12
    <3> QED  BY <1>3, <3>1, PadOfUsed DEF z
  <2>2. \A i \in 1..B : new[i] = all[q * B + i]
    <3> TAKE i \in 1..B
    <3>1. CASE used < i
      <4>1. new[i] = Const(0)  BY <1>2, <3>1 DEF Cleared
      <4>2. q * B + i \in (n + 2)..(n + 1 + z)  BY <1>2, <1>3, <1>4, <1>6, <2>1, <3>1
      <4> QED  BY <1>5, <4>1, <4>2
    <3>2. CASE ~(used < i)
      <4>1. new[i] = marked[i]  BY <3>2 DEF Cleared
      <4>2. i \in 1..used  BY <1>4, <3>2
      <4> QED  BY <1>8, <4>1, <4>2
    <3> QED  BY <3>1, <3>2
  <2>3. new \in BlockOf(S)  BY <1>8, <1>9
  <2>4. whole = [ctx EXCEPT !.buffer = new]  OBVIOUS
  <2> HIDE DEF new, whole
  <2>5. /\ whole \in Contexts(S) /\ whole.state = ctx.state /\ whole.buffer = new
        /\ whole.count = ctx.count /\ whole.high = ctx.high
    BY <1>2, <2>3, <2>4 DEF Contexts
  <2>6. /\ done \in Contexts(S) /\ done.state = Append(ctx.state, new)
        /\ done.count = ctx.count /\ done.high = ctx.high
    BY <2>5, ProcessAppends
  <2> HIDE DEF done
  <2>7. zeroed \in BlockOf(S)
    <3>1. done.buffer \in BlockOf(S)  BY <2>6 DEF Contexts
    <3> QED  BY <1>9, <3>1
  <2>8. \A i \in 1..short : zeroed[i] = all[(q + 1) * B + i]
    <3> TAKE i \in 1..short
    <3>1. i \in 1..B /\ 0 < i /\ i <= short  BY <1>2
    <3>2. zeroed[i] = Const(0)  BY <3>1 DEF Cleared
    <3>3. (q + 1) * B + i \in (n + 2)..(n + 1 + z)  BY <1>2, <1>3, <1>6, <2>1, <3>1
    <3> QED  BY <1>5, <3>2, <3>3
  <2>9. last = two
    <3> HIDE DEF two
    <3>1. last = [done EXCEPT !.buffer = Cleared(done.buffer, 0, short)]  BY <1>12
    <3> QED  BY <3>1 DEF two
  <2> HIDE DEF zeroed
  <2>10. /\ two \in Contexts(S) /\ two.state = done.state /\ two.buffer = zeroed
         /\ two.count = ctx.count /\ two.high = ctx.high
    BY <2>6, <2>7 DEF Contexts
  <2> HIDE DEF two, last
  <2>11. Counts(kind, last, n)  BY <1>2, <2>9, <2>10 DEF Counts
  <2>12. Stored(last, all, q + 1)
    <3>1. ctx.state \in Seq(BlockOf(S))  BY <1>2 DEF Contexts
    <3>2. last.state = Append(ctx.state, new)  BY <2>6, <2>9, <2>10
    <3> QED  BY <1>7, <2>2, <2>3, <3>1, <3>2, StoredNext
  <2>13. Len(all) = ((q + 1) + 1) * B
    <3>1. n + 1 + z + 2 * W = q * B + B + B  BY <1>2, <1>3, <1>6, <2>1
    <3> QED  BY <1>5, <1>6, <3>1
  <2>14. \A i \in 1..short : last.buffer[i] = all[(q + 1) * B + i]  BY <2>8, <2>9, <2>10
  <2>15. last \in Contexts(S) /\ q + 1 \in Nat  BY <2>9, <2>10
  <2> HIDE DEF result
  <2> QED  BY <1>1, <1>10, <2>11, <2>12, <2>13, <2>14, <2>15
<1> QED  BY <1>1, <1>11, <1>12

\* Whatever has been put into a context, its digest is that of the standard.
LEMMA FinalIs ==
  ASSUME NEW S, HasConstants(S), NEW kind \in HashKinds, NEW ctx, NEW data,
         Holds(S, kind, ctx, data)
  PROVE  FinalState(kind, ctx) = StandardHash(kind, data)
<1>1. CASE kind = "ripemd160"  BY <1>1, RipemdFinalIs DEF FinalState
<1>2. CASE kind # "ripemd160"  BY <1>2, ShaFinalIs DEF FinalState
<1> QED  BY <1>1, <1>2

----------------------------------------------------------------------------
(* Bytes of any kind.                                                       *)

\* The context has been given the data, whatever its bytes are.
Held(kind, ctx, data) == \E S : HasConstants(S) /\ Holds(S, kind, ctx, data)

LEMMA HoldsInMore ==
  ASSUME NEW S, NEW T, S \subseteq T, NEW kind, NEW ctx, NEW data, Holds(S, kind, ctx, data)
  PROVE  Holds(T, kind, ctx, data)
<1>1. BlockOf(S) \subseteq BlockOf(T)  BY DEF BlockOf
<1>2. ctx \in Contexts(S) /\ data \in Seq(S)  BY DEF Holds
<1>3. data \in Seq(T)  BY <1>2, SeqMonotonic
<1>4. ctx.state \in Seq(BlockOf(T))
  <2>1. ctx.state \in Seq(BlockOf(S))  BY <1>2 DEF Contexts
  <2> QED  BY <1>1, <2>1, SeqMonotonic
<1>5. ctx \in Contexts(T)  BY <1>1, <1>2, <1>4 DEF Contexts
<1> QED  BY <1>3, <1>5 DEF Holds

LEMMA UpdateIsHeld ==
  ASSUME NEW kind \in HashKinds, NEW ctx, NEW old, Held(kind, ctx, old),
         NEW T, NEW data \in Seq(T), kind = "ripemd160" => Len(data) < HashCount
  PROVE  Held(kind, Update(kind, ctx, data), old \o data)
<1>1. PICK S : HasConstants(S) /\ Holds(S, kind, ctx, old)  BY DEF Held
<1> DEFINE U == S \union T
<1>2. HasConstants(U)  BY <1>1 DEF HasConstants
<1>3. S \subseteq U /\ T \subseteq U  OBVIOUS
<1> HIDE DEF U
<1>4. Holds(U, kind, ctx, old)  BY <1>1, <1>3, HoldsInMore
<1>5. data \in Seq(U)  BY <1>3, SeqMonotonic
<1>6. Holds(U, kind, Update(kind, ctx, data), old \o data)  BY <1>4, <1>5, UpdateHolds
<1> QED  BY <1>2, <1>6 DEF Held

LEMMA HeldIsFinal ==
  ASSUME NEW kind \in HashKinds, NEW ctx, NEW data, Held(kind, ctx, data)
  PROVE  FinalState(kind, ctx) = StandardHash(kind, data) /\ StandardHash(kind, data) # <<>>
<1>1. PICK S : HasConstants(S) /\ Holds(S, kind, ctx, data)  BY DEF Held
<1>2. FinalState(kind, ctx) = StandardHash(kind, data)  BY <1>1, FinalIs
<1>3. StandardHash(kind, data) # <<>>
  <2> DEFINE all == PaddedMessage(kind, data)
             B == HashBlock
             m == Len(all) \div B
  <2>1. data \in Seq(S) /\ Len(data) \in Nat /\ B \in Nat \ {0}  BY <1>1, Sizes DEF Holds
  <2>2. Len(all) = Len(data) + 1 + PadOf(Len(data)) + 2 * HashWord  BY <1>1, <2>1, PaddedBytes
  <2>3. PICK p \in Nat \ {0} : Len(all) = p * B  BY <2>1, <2>2, PadIs
  <2>4. m = p
    <3>1. p * B \in Int /\ p * B = p * B + 0 /\ 0 \in 0..(B - 1)  BY <2>1
    <3> QED  BY <2>1, <2>3, <3>1, DivModIs
  <2> DEFINE st == StandardHash(kind, data)
  <2>5. DOMAIN st = 1..m  BY DEF StandardHash
  <2> HIDE DEF m, st
  <2>6. 1 \in DOMAIN st  BY <2>4, <2>5
  <2>7. st # <<>>  BY <2>6
  <2> QED  BY <2>7 DEF st
<1> QED  BY <1>2, <1>3

\* Nothing has been given to a new context.
LEMMA InitialIsHeld ==
  ASSUME NEW kind \in HashKinds
  PROVE  Held(kind, HashInitial, <<>>)
<1> DEFINE S == {Const(n) : n \in Nat}
           zeros == Zeros(HashBlock)
<1>1. HasConstants(S) /\ Const(0) \in S  BY DEF HasConstants
<1>2. HashBlock \in Nat \ {0} /\ HashCount \in Nat \ {0}  BY Sizes
<1>3. zeros \in BlockOf(S)  BY <1>1 DEF Zeros, BlockOf
<1> HIDE DEF S, zeros
<1>4. HashInitial = [buffer |-> zeros, count |-> 0, high |-> 0, state |-> <<>>]
  BY DEF HashInitial, zeros
<1>5. <<>> \in Seq(BlockOf(S)) /\ <<>> \in Seq(S) /\ Len(<<>>) = 0  OBVIOUS
<1>6. HashInitial \in Contexts(S)  BY <1>2, <1>3, <1>4, <1>5 DEF Contexts
<1>7. Counts(kind, HashInitial, 0)
  <2>1. 0 = 0 * HashCount + 0 /\ 0 \in 0..(HashCount - 1) /\ 0 \in Int  BY <1>2
  <2>2. 0 \div HashCount = 0 /\ 0 % HashCount = 0  BY <1>2, <2>1, DivModIs
  <2>3. Counter(kind, 0) = 0  BY DEF Counter
  <2> QED  BY <1>4, <2>2, <2>3 DEF Counts
<1>8. /\ 0 \in Nat /\ 0 \in 0..(HashBlock - 1) /\ Len(<<>>) = 0 * HashBlock + 0
      /\ Stored(HashInitial, <<>>, 0) /\ Buffered(HashInitial, <<>>, 0, 0)
  BY <1>2, <1>4, <1>5 DEF Stored, Buffered
<1>9. Holds(S, kind, HashInitial, <<>>)  BY <1>5, <1>6, <1>7, <1>8 DEF Holds
<1> QED  BY <1>1, <1>9 DEF Held

\* What an Update puts into a new context.
LEMMA FirstIsHeld ==
  ASSUME NEW kind \in HashKinds, NEW T, NEW data \in Seq(T),
         kind = "ripemd160" => Len(data) < HashCount
  PROVE  Held(kind, Update(kind, HashInitial, data), data)
<1>1. Held(kind, Update(kind, HashInitial, data), <<>> \o data)
  BY InitialIsHeld, UpdateIsHeld
<1>2. <<>> \o data = data  BY ConcatEmptySeq
<1> QED  BY <1>1, <1>2

----------------------------------------------------------------------------
(* HMAC.                                                                    *)

\* The key of the standard: hashed when it is longer than a block, and padded.
StandardKey(kind, key) ==
  LET k == IF Len(key) > HashBlock THEN DigestOf(StandardHash(kind, key)) ELSE key
  IN k \o Zeros(HashBlock - Len(k))

\* The bytes of a digest.
DigestBytes(state) == {DigestOf(state)[i] : i \in 1..HashDigest}

LEMMA DigestIs ==
  ASSUME NEW state
  PROVE  DigestOf(state) \in Seq(DigestBytes(state)) /\ Len(DigestOf(state)) = HashDigest
<1> DEFINE d == DigestOf(state)
<1>1. HashDigest \in Nat /\ d = [i \in 1..HashDigest |-> d[i]]  BY Sizes DEF DigestOf
<1> HIDE DEF d
<1>2. d \in [1..HashDigest -> DigestBytes(state)]  BY <1>1 DEF DigestBytes, d
<1>3. d \in Seq(DigestBytes(state)) /\ Len(d) = HashDigest  BY <1>1, <1>2
<1> QED  BY <1>3 DEF d

LEMMA KeyIs ==
  ASSUME NEW kind \in HashKinds, kind # "ripemd160", NEW T, NEW key \in Seq(T)
  PROVE  /\ PaddedKey(kind, key) = StandardKey(kind, key)
         /\ \E U : StandardKey(kind, key) \in BlockOf(U) /\ StandardKey(kind, key) \in Seq(U)
         /\ Len(StandardKey(kind, key)) = HashBlock
<1> DEFINE hash == StandardHash(kind, key)
           k == IF Len(key) > HashBlock THEN DigestOf(hash) ELSE key
           U == (T \union DigestBytes(hash)) \union {Const(n) : n \in Nat}
           z == Zeros(HashBlock - Len(k))
<1>1. HashBlock \in Nat \ {0} /\ HashDigest \in 1..HashBlock /\ Len(key) \in Nat  BY Sizes
<1>2. Raw(kind, key) = hash
  <2>1. Held(kind, Update(kind, HashInitial, key), key)  BY FirstIsHeld
  <2> QED  BY <2>1, HeldIsFinal DEF Raw
<1>3. PaddedKey(kind, key) = k \o z  BY <1>2 DEF PaddedKey
<1>4. StandardKey(kind, key) = k \o z  BY DEF StandardKey
<1>5. HasConstants(U) /\ T \subseteq U /\ DigestBytes(hash) \subseteq U  BY DEF HasConstants
<1> HIDE DEF U, hash
<1>6. k \in Seq(U) /\ Len(k) \in 0..HashBlock
  <2>1. CASE Len(key) > HashBlock
    <3>1. DigestOf(hash) \in Seq(DigestBytes(hash)) /\ Len(DigestOf(hash)) = HashDigest
      BY DigestIs
    <3>2. DigestOf(hash) \in Seq(U)  BY <1>5, <3>1, SeqMonotonic
    <3>3. k = DigestOf(hash)  BY <2>1
    <3> HIDE DEF k
    <3> QED  BY <1>1, <3>1, <3>2, <3>3
  <2>2. CASE ~(Len(key) > HashBlock)
    <3>1. key \in Seq(U)  BY <1>5, SeqMonotonic
    <3> QED  BY <1>1, <2>2, <3>1
  <2> QED  BY <2>1, <2>2
<1> HIDE DEF k
<1>7. z \in Seq(U) /\ Len(z) = HashBlock - Len(k)
  <2>1. HashBlock - Len(k) \in Nat  BY <1>1, <1>6
  <2> QED  BY <1>5, <2>1, ZerosAre
<1> HIDE DEF z
<1>8. k \o z \in Seq(U) /\ Len(k \o z) = HashBlock
  <2>1. k \o z \in Seq(U) /\ Len(k \o z) = Len(k) + Len(z)  BY <1>6, <1>7, ConcatProperties
  <2>2. Len(k) + (HashBlock - Len(k)) = HashBlock  BY <1>1, <1>6
  <2> QED  BY <1>7, <2>1, <2>2
<1>9. k \o z \in BlockOf(U)
  <2> DEFINE s == k \o z
  <2>1. s \in Seq(U) /\ Len(s) = HashBlock  BY <1>8
  <2> HIDE DEF s
  <2>2. s \in [1..HashBlock -> U]  BY <1>1, <2>1
  <2> QED  BY <2>2 DEF BlockOf, s
<1> QED  BY <1>3, <1>4, <1>8, <1>9

XorBytes(pad, U) == {<<"x", pad, b>> : b \in U}

\* An exclusive or is taken byte by byte.
LEMMA XoredIs ==
  ASSUME NEW U, NEW pad, NEW key \in BlockOf(U)
  PROVE  /\ Xored(pad, key) \in Seq(XorBytes(pad, U))
         /\ Xored(pad, key) \in BlockOf(XorBytes(pad, U))
         /\ Len(Xored(pad, key)) = HashBlock
         /\ \A i \in 1..HashBlock : Xored(pad, key)[i] = <<"x", pad, key[i]>>
<1> DEFINE V == XorBytes(pad, U)
           x == Xored(pad, key)
<1>1. HashBlock \in Nat /\ DOMAIN key = 1..HashBlock /\ \A i \in 1..HashBlock : key[i] \in U
  BY Sizes DEF BlockOf
<1>2. x = [i \in 1..HashBlock |-> <<"x", pad, key[i]>>]  BY <1>1 DEF Xored
<1> HIDE DEF x
<1>3. \A i \in 1..HashBlock : x[i] = <<"x", pad, key[i]>> /\ x[i] \in V  BY <1>1, <1>2 DEF XorBytes
<1> HIDE DEF V
<1>4. x = [i \in 1..HashBlock |-> x[i]]  BY <1>2
<1>5. x \in [1..HashBlock -> V]  BY <1>3, <1>4
<1>6. x \in Seq(V) /\ Len(x) = HashBlock  BY <1>1, <1>5
<1> QED  BY <1>3, <1>5, <1>6 DEF V, x, BlockOf

\* After HmacInit the context holds the inner pad; the prepared state is its state.
LEMMA HmacStarts ==
  ASSUME NEW kind \in HashKinds, kind # "ripemd160", NEW T, NEW key \in Seq(T)
  PROVE  Held(kind, HmacInitial(kind, key), Xored("ipad", PaddedKey(kind, key)))
<1> DEFINE x == Xored("ipad", PaddedKey(kind, key))
<1>1. PICK U : PaddedKey(kind, key) \in BlockOf(U)  BY KeyIs
<1>2. x \in Seq(XorBytes("ipad", U))  BY <1>1, XoredIs
<1> HIDE DEF x
<1>3. Held(kind, Update(kind, HashInitial, x), x)  BY <1>2, FirstIsHeld
<1> QED  BY <1>3 DEF HmacInitial, x

LEMMA HmacPrepares ==
  ASSUME NEW kind \in HashKinds, kind # "ripemd160", NEW T, NEW key \in Seq(T),
         NEW ctx, Held(kind, ctx, Xored("ipad", PaddedKey(kind, key)))
  PROVE  HmacPrepare(kind, key).ipad = ctx.state
<1> DEFINE pk == PaddedKey(kind, key)
           x == Xored("ipad", pk)
           rev == ReversedWords(pk, AllWords)
           xr == Xored("ipad", rev)
<1>1. PICK U : pk \in BlockOf(U)  BY KeyIs
<1> HIDE DEF pk
<1>2. rev \in BlockOf(U) /\ \A i \in 1..HashBlock : rev[i] = pk[Mirror(i)]
  BY <1>1, ReversedTwice
<1> HIDE DEF rev
<1> DEFINE V == XorBytes("ipad", U)
<1>3. /\ x \in BlockOf(V) /\ Len(x) = HashBlock
      /\ \A i \in 1..HashBlock : x[i] = <<"x", "ipad", pk[i]>>
  <2>1. pk \in BlockOf(U)  BY <1>1
  <2>2. /\ Xored("ipad", pk) \in BlockOf(XorBytes("ipad", U))
        /\ Len(Xored("ipad", pk)) = HashBlock
        /\ \A i \in 1..HashBlock : Xored("ipad", pk)[i] = <<"x", "ipad", pk[i]>>
    <3> HIDE DEF x, V
    <3> QED  BY <2>1, XoredIs
  <2> QED  BY <2>2
<1>4. /\ xr \in BlockOf(V)
      /\ \A i \in 1..HashBlock : xr[i] = <<"x", "ipad", rev[i]>>
  <2>1. rev \in BlockOf(U)  BY <1>2
  <2>2. /\ Xored("ipad", rev) \in BlockOf(XorBytes("ipad", U))
        /\ \A i \in 1..HashBlock : Xored("ipad", rev)[i] = <<"x", "ipad", rev[i]>>
    <3> HIDE DEF xr, V
    <3> QED  BY <2>1, XoredIs
  <2> QED  BY <2>2
<1> DEFINE back == ReversedWords(xr, AllWords)
<1>5. back \in BlockOf(V) /\ \A i \in 1..HashBlock : back[i] = xr[Mirror(i)]
  <2> HIDE DEF xr, V
  <2> QED  BY <1>4, ReversedTwice
<1>6. HmacPrepare(kind, key).ipad = Append(<<>>, back)
  BY DEF HmacPrepare, Transform, xr, rev, pk
<1>7. PICK S : Holds(S, kind, ctx, x)
  <2>1. Held(kind, ctx, x)  BY DEF x, pk
  <2> HIDE DEF x
  <2> QED  BY <2>1 DEF Held
<1> HIDE DEF x, xr, back, V
<1>8. back = x
  <2>1. ASSUME NEW i \in 1..HashBlock  PROVE back[i] = x[i]
    <3>1. Mirror(i) \in 1..HashBlock /\ Mirror(Mirror(i)) = i  BY MirrorFacts
    <3> QED  BY <1>2, <1>3, <1>4, <1>5, <3>1
  <2> QED  BY <1>3, <1>5, <2>1, SameBlock
<1>9. PICK q \in Nat, u \in 0..(HashBlock - 1) : Len(x) = q * HashBlock + u /\ Stored(ctx, x, q)
  BY <1>7 DEF Holds
<1>10. q = 1
  <2>1. HashBlock \in Nat \ {0} /\ HashBlock = 1 * HashBlock + 0 /\ 0 \in 0..(HashBlock - 1)
        /\ HashBlock \in Int /\ 1 \in Int
    BY Sizes
  <2>2. HashBlock \div HashBlock = 1  BY <2>1, DivModIs, Zenon
  <2>3. HashBlock \div HashBlock = q  BY <1>3, <1>9, <2>1, DivModIs
  <2> QED  BY <2>2, <2>3
<1> DEFINE st == ctx.state
<1>11. Len(st) = 1 /\ \A i \in 1..HashBlock : st[1][i] = x[i]
  <2>1. Len(st) = 1  BY <1>9, <1>10 DEF Stored
  <2>2. ASSUME NEW i \in 1..HashBlock  PROVE st[1][i] = x[i]
    <3>1. 1 \in 1..q /\ (1 - 1) * HashBlock + i = i  BY <1>10, Sizes
    <3>2. st[1][i] = x[(1 - 1) * HashBlock + i]  BY <1>9, <3>1 DEF Stored
    <3> QED  BY <3>1, <3>2
  <2> QED  BY <2>1, <2>2
<1>12. st \in Seq(BlockOf(S))  BY <1>7 DEF Holds, Contexts
<1> HIDE DEF st
<1>13. st[1] = x
  <2>1. st[1] \in BlockOf(S)
    <3>1. 1 \in 1..Len(st)  BY <1>11
    <3> QED  BY <1>12, <3>1, ElementOfSeq
  <2> DEFINE W == S \union V
  <2>2. st[1] \in BlockOf(W) /\ x \in BlockOf(W)  BY <1>3, <2>1 DEF BlockOf
  <2> HIDE DEF W
  <2> QED  BY <1>11, <2>2, SameBlock
<1>14. st = <<x>>
  <2>1. st = [i \in 1..1 |-> st[i]]  BY <1>11, <1>12
  <2>2. st = [i \in 1..1 |-> x]  BY <1>13, <2>1
  <2> QED  BY <2>2
<1> QED  BY <1>6, <1>8, <1>14 DEF st

\* The HMAC of the standard.
LEMMA HmacFinalIs ==
  ASSUME NEW kind \in HashKinds, kind # "ripemd160", NEW T, NEW key \in Seq(T), NEW ctx, NEW data,
         Held(kind, ctx, Xored("ipad", PaddedKey(kind, key)) \o data)
  PROVE  HmacFinal(kind, key, ctx) = StandardHmac(kind, key, data)
         /\ StandardHmac(kind, key, data) # <<>>
<1> DEFINE pk == PaddedKey(kind, key)
           i == Xored("ipad", pk)
           o == Xored("opad", pk)
           inner == StandardHash(kind, i \o data)
           d == DigestOf(inner)
           outer == Update(kind, HashInitial, o)
<1>1. pk = StandardKey(kind, key)  BY KeyIs
<1>2. StandardHmac(kind, key, data) = StandardHash(kind, o \o d)
  BY <1>1 DEF StandardHmac, StandardKey
<1>3. FinalState(kind, ctx) = inner  BY HeldIsFinal
<1>4. HmacFinal(kind, key, ctx) = FinalState(kind, Update(kind, outer, d))
  BY <1>3 DEF HmacFinal
<1> HIDE DEF inner
<1>5. d \in Seq(DigestBytes(inner))  BY DigestIs
<1>6. PICK U : pk \in BlockOf(U)  BY KeyIs
<1>7. o \in Seq(XorBytes("opad", U))  BY <1>6, XoredIs
<1> HIDE DEF o, d
<1>8. Held(kind, outer, o)  BY <1>7, FirstIsHeld
<1> HIDE DEF outer
<1>9. Held(kind, Update(kind, outer, d), o \o d)  BY <1>5, <1>8, UpdateIsHeld
<1> QED  BY <1>2, <1>4, <1>9, HeldIsFinal

----------------------------------------------------------------------------
(* The hashes of the address generator: HashInv is inductive.               *)

\* What an HMAC has put in front of the message.
Prefix ==
  IF hashKey = -1 THEN <<>> ELSE Xored("ipad", PaddedKey(hashKind, KeyBytes(hashKey)))

HashTypeOK ==
  /\ hashKind \in HashKinds /\ hashKey \in HashKeys \union {-1} /\ hashLen \in Nat
  /\ hashKind = "ripemd160" => hashKey = -1

\* Up to the digest the context holds the pieces as if they had come at once.
HashHeld == hashOut = <<>> => Held(hashKind, hashCtx, Prefix \o MessageBytes(0, hashLen))

\* Then the digest is that of the standard.
HashDone ==
  hashOut # <<>> =>
    hashOut = IF hashKey = -1 THEN StandardHash(hashKind, MessageBytes(0, hashLen))
              ELSE StandardHmac(hashKind, KeyBytes(hashKey), MessageBytes(0, hashLen))

HashInv == HashTypeOK /\ HashHeld /\ HashDone

MessageSet == {<<"m", i>> : i \in Nat}

LEMMA MessageIs ==
  ASSUME NEW from \in Nat, NEW n \in Nat
  PROVE  /\ MessageBytes(from, n) \in Seq(MessageSet) /\ Len(MessageBytes(from, n)) = n
         /\ \A i \in 1..n : MessageBytes(from, n)[i] = <<"m", from + i>>
<1> DEFINE s == MessageBytes(from, n)
<1>1. s = [i \in 1..n |-> <<"m", from + i>>]  BY DEF MessageBytes
<1> HIDE DEF s
<1>2. \A i \in 1..n : s[i] = <<"m", from + i>> /\ s[i] \in MessageSet  BY <1>1 DEF MessageSet
<1>3. s = [i \in 1..n |-> s[i]]  BY <1>1
<1>4. s \in [1..n -> MessageSet]  BY <1>2, <1>3
<1>5. s \in Seq(MessageSet) /\ Len(s) = n  BY <1>4
<1> QED  BY <1>2, <1>5 DEF s

LEMMA MessageGrows ==
  ASSUME NEW len \in Nat, NEW n \in Nat
  PROVE  MessageBytes(0, len) \o MessageBytes(len, n) = MessageBytes(0, len + n)
<1> DEFINE a == MessageBytes(0, len)
           b == MessageBytes(len, n)
           c == MessageBytes(0, len + n)
<1>0. len + n \in Nat /\ 0 \in Nat  OBVIOUS
<1>1. /\ a \in Seq(MessageSet) /\ Len(a) = len /\ \A i \in 1..len : a[i] = <<"m", 0 + i>>
      /\ b \in Seq(MessageSet) /\ Len(b) = n /\ \A i \in 1..n : b[i] = <<"m", len + i>>
      /\ c \in Seq(MessageSet) /\ Len(c) = len + n /\ \A i \in 1..(len + n) : c[i] = <<"m", 0 + i>>
  <2>1. a \in Seq(MessageSet) /\ Len(a) = len /\ \A i \in 1..len : a[i] = <<"m", 0 + i>>
    BY <1>0, MessageIs
  <2>2. b \in Seq(MessageSet) /\ Len(b) = n /\ \A i \in 1..n : b[i] = <<"m", len + i>>
    BY MessageIs
  <2>3. c \in Seq(MessageSet) /\ Len(c) = len + n /\ \A i \in 1..(len + n) : c[i] = <<"m", 0 + i>>
    BY <1>0, MessageIs
  <2> QED  BY <2>1, <2>2, <2>3
<1> HIDE DEF a, b, c
<1>2. /\ a \o b \in Seq(MessageSet) /\ Len(a \o b) = len + n
      /\ \A i \in 1..(len + n) : (a \o b)[i] = IF i <= len THEN a[i] ELSE b[i - len]
  BY <1>1, ConcatProperties
<1>3. ASSUME NEW i \in 1..(len + n)  PROVE (a \o b)[i] = c[i]
  <2>1. CASE i <= len
    <3>1. i \in 1..len  BY <2>1
    <3> QED  BY <1>1, <1>2, <2>1, <3>1
  <2>2. CASE ~(i <= len)
    <3>1. i - len \in 1..n /\ len + (i - len) = 0 + i  BY <2>2
    <3> QED  BY <1>1, <1>2, <2>2, <3>1
  <2> QED  BY <2>1, <2>2
<1>4. a \o b = c  BY <1>1, <1>2, <1>3, SeqEqual
<1> QED  BY <1>4 DEF a, b, c

LEMMA KeyBytesIs ==
  ASSUME NEW n \in Nat
  PROVE  KeyBytes(n) \in Seq({<<"k", i>> : i \in Nat})
<1> DEFINE s == KeyBytes(n)
           K == {<<"k", i>> : i \in Nat}
<1>1. \A i \in 1..n : <<"k", i>> \in K  OBVIOUS
<1> HIDE DEF K
<1>2. [i \in 1..n |-> <<"k", i>>] \in [1..n -> K]  BY <1>1
<1>3. [i \in 1..n |-> <<"k", i>>] \in Seq(K)  BY <1>2
<1> QED  BY <1>3 DEF KeyBytes, K

LEMMA KeysAreNumbers ==
  ASSUME HashTypeOK, hashKey # -1
  PROVE  hashKey \in Nat /\ hashKind # "ripemd160"
BY HashAssumption DEF HashTypeOK

LEMMA HashInvInit == HashInit => HashInv
<1> SUFFICES ASSUME HashInit  PROVE HashInv
  OBVIOUS
<1>1. HashTypeOK
  BY DEF HashInit, HashTypeOK, HashKinds
<1>2. hashOut = <<>> /\ hashLen = 0  BY DEF HashInit
<1>3. MessageBytes(0, 0) = <<>>
  <2>1. MessageBytes(0, 0) \in Seq(MessageSet) /\ Len(MessageBytes(0, 0)) = 0  BY MessageIs
  <2> QED  BY <2>1, EmptySeq
<1>4. Held(hashKind, hashCtx, Prefix \o MessageBytes(0, hashLen))
  <2>1. CASE hashKey = -1
    <3>1. hashCtx = HashInitial /\ Prefix = <<>>  BY <2>1 DEF HashInit, Prefix
    <3>2. Prefix \o MessageBytes(0, hashLen) = <<>>  BY <1>2, <1>3, <3>1
    <3> QED  BY <1>1, <3>1, <3>2, InitialIsHeld DEF HashTypeOK
  <2>2. CASE hashKey # -1
    <3> DEFINE key == KeyBytes(hashKey)
    <3>1. hashKey \in Nat /\ hashKind # "ripemd160" /\ hashKind \in HashKinds
      BY <1>1, <2>2, KeysAreNumbers DEF HashTypeOK
    <3>2. key \in Seq({<<"k", i>> : i \in Nat})  BY <3>1, KeyBytesIs
    <3>3. hashCtx = HmacInitial(hashKind, key) /\ Prefix = Xored("ipad", PaddedKey(hashKind, key))
      BY <2>2 DEF HashInit, Prefix
    <3> HIDE DEF key
    <3>4. Held(hashKind, hashCtx, Prefix)  BY <3>1, <3>2, <3>3, HmacStarts
    <3>5. Prefix \o MessageBytes(0, hashLen) = Prefix
      <4>1. PICK S : Holds(S, hashKind, hashCtx, Prefix)  BY <3>4 DEF Held
      <4>2. Prefix \in Seq(S)  BY <4>1 DEF Holds
      <4> QED  BY <1>2, <1>3, <4>2, ConcatEmptySeq
    <3> QED  BY <3>4, <3>5
  <2> QED  BY <2>1, <2>2
<1> QED  BY <1>1, <1>2, <1>4 DEF HashInv, HashHeld, HashDone

LEMMA FeedStep ==
  ASSUME HashInv, NEW kind \in HashKinds, Feed(kind)
  PROVE  HashInv'
<1>1. PICK n \in HashChunks :
        hashLen' = hashLen + n /\ hashCtx' = Update(kind, hashCtx, MessageBytes(hashLen, n))
  BY DEF Feed
<1>2. /\ hashKind = kind /\ hashOut = <<>> /\ hashKind' = hashKind /\ hashKey' = hashKey
      /\ hashOut' = hashOut
  BY DEF Feed
<1>3. n \in Nat /\ n < HashCount /\ hashLen \in Nat
  BY HashAssumption DEF HashInv, HashTypeOK
<1>4. HashTypeOK'  BY <1>1, <1>2, <1>3 DEF HashInv, HashTypeOK
<1> DEFINE old == MessageBytes(0, hashLen)
           new == MessageBytes(hashLen, n)
<1>5. old \in Seq(MessageSet) /\ new \in Seq(MessageSet) /\ Len(new) = n
  BY <1>3, MessageIs
<1>6. old \o new = MessageBytes(0, hashLen')  BY <1>1, <1>3, MessageGrows
<1>7. Held(kind, hashCtx, Prefix \o old)  BY <1>2 DEF HashInv, HashHeld
<1> HIDE DEF old, new
<1>8. Held(kind, hashCtx', (Prefix \o old) \o new)
  <2>1. hashCtx' = Update(kind, hashCtx, new)  BY <1>1 DEF new
  <2> QED  BY <1>3, <1>5, <1>7, <2>1, UpdateIsHeld
<1>9. Prefix' = Prefix  BY <1>2 DEF Prefix
<1>10. (Prefix \o old) \o new = Prefix \o (old \o new)
  <2>1. PICK P : Prefix \in Seq(P)
    <3>1. CASE hashKey = -1
      <4>1. Prefix = <<>> /\ <<>> \in Seq({})  BY <3>1 DEF Prefix
      <4> QED  BY <4>1
    <3>2. CASE hashKey # -1
      <4>1. hashKey \in Nat /\ hashKind # "ripemd160"  BY <3>2, KeysAreNumbers DEF HashInv
      <4>2. KeyBytes(hashKey) \in Seq({<<"k", i>> : i \in Nat})  BY <4>1, KeyBytesIs
      <4>3. PICK U : PaddedKey(hashKind, KeyBytes(hashKey)) \in BlockOf(U)
        BY <1>2, <4>1, <4>2, KeyIs
      <4>4. Xored("ipad", PaddedKey(hashKind, KeyBytes(hashKey))) \in Seq(XorBytes("ipad", U))
        BY <4>3, XoredIs
      <4> QED  BY <3>2, <4>4 DEF Prefix
    <3> QED  BY <3>1, <3>2
  <2> DEFINE Q == P \union MessageSet
  <2>2. Prefix \in Seq(Q) /\ old \in Seq(Q) /\ new \in Seq(Q)
    <3>1. P \subseteq Q /\ MessageSet \subseteq Q  OBVIOUS
    <3> HIDE DEF Q
    <3> QED  BY <1>5, <2>1, <3>1, SeqMonotonic
  <2> HIDE DEF Q
  <2> QED  BY <2>2, ConcatAssociative
<1>11. HashHeld'  BY <1>2, <1>6, <1>8, <1>9, <1>10 DEF HashHeld
<1>12. HashDone'  BY <1>2 DEF HashDone
<1> QED  BY <1>4, <1>11, <1>12 DEF HashInv

LEMMA FinishStep ==
  ASSUME HashInv, NEW kind \in HashKinds, NEW hmac \in BOOLEAN, NEW out, Finish(kind, hmac, out),
         hmac = FALSE => out = FinalState(kind, hashCtx),
         hmac = TRUE => out = HmacFinal(kind, KeyBytes(hashKey), hashCtx)
  PROVE  HashInv'
<1>1. /\ hashKind = kind /\ hashOut = <<>> /\ hmac = (hashKey # -1) /\ hashOut' = out
      /\ hashKind' = hashKind /\ hashKey' = hashKey /\ hashLen' = hashLen
  BY DEF Finish
<1>2. HashTypeOK'  BY <1>1 DEF HashInv, HashTypeOK
<1> DEFINE data == MessageBytes(0, hashLen)
<1>3. Held(kind, hashCtx, Prefix \o data)  BY <1>1 DEF HashInv, HashHeld
<1>4. data \in Seq(MessageSet)
  <2>1. hashLen \in Nat /\ 0 \in Nat  BY DEF HashInv, HashTypeOK
  <2> QED  BY <2>1, MessageIs
<1>5. data' = data  BY <1>1
<1> HIDE DEF data
<1>6. CASE hashKey = -1
  <2>1. Prefix \o data = data  BY <1>4, <1>6, ConcatEmptySeq DEF Prefix
  <2>2. out = StandardHash(kind, data) /\ out # <<>>  BY <1>1, <1>3, <1>6, <2>1, HeldIsFinal
  <2>3. HashDone'  BY <1>1, <1>5, <1>6, <2>2 DEF HashDone, data
  <2>4. HashHeld'  BY <1>1, <2>2 DEF HashHeld
  <2> QED  BY <1>2, <2>3, <2>4 DEF HashInv
<1>7. CASE hashKey # -1
  <2> DEFINE key == KeyBytes(hashKey)
  <2>1. hashKey \in Nat /\ hashKind # "ripemd160"  BY <1>7, KeysAreNumbers DEF HashInv
  <2>2. key \in Seq({<<"k", i>> : i \in Nat})  BY <2>1, KeyBytesIs
  <2>3. Prefix = Xored("ipad", PaddedKey(kind, key))  BY <1>1, <1>7 DEF Prefix
  <2>4. out = HmacFinal(kind, key, hashCtx)  BY <1>1, <1>7
  <2>5. key' = key  BY <1>1
  <2> HIDE DEF key
  <2>6. out = StandardHmac(kind, key, data) /\ out # <<>>
    BY <1>1, <1>3, <2>1, <2>2, <2>3, <2>4, HmacFinalIs
  <2>7. HashDone'  BY <1>1, <1>5, <1>7, <2>5, <2>6 DEF HashDone, data, key
  <2>8. HashHeld'  BY <1>1, <2>6 DEF HashHeld
  <2> QED  BY <1>2, <2>7, <2>8 DEF HashInv
<1> QED  BY <1>6, <1>7

LEMMA HashInvNext == HashInv /\ [HashNext]_hashVars => HashInv'
<1> SUFFICES ASSUME HashInv, [HashNext]_hashVars  PROVE HashInv'
  OBVIOUS
<1>1. "sha256" \in HashKinds /\ "sha512" \in HashKinds /\ "ripemd160" \in HashKinds
  BY DEF HashKinds
<1>2. CASE UNCHANGED hashVars
  <2>1. Prefix' = Prefix  BY <1>2 DEF hashVars, Prefix
  <2> QED  BY <1>2, <2>1 DEF hashVars, HashInv, HashTypeOK, HashHeld, HashDone
<1>3. CASE Sha256Update  BY <1>1, <1>3, FeedStep DEF Sha256Update
<1>4. CASE Sha512Update  BY <1>1, <1>4, FeedStep DEF Sha512Update
<1>5. CASE Ripemd160Update  BY <1>1, <1>5, FeedStep DEF Ripemd160Update
<1>6. CASE Sha256Final
  <2>1. ShaFinal("sha256", hashCtx) = FinalState("sha256", hashCtx)  BY DEF FinalState
  <2> QED  BY <1>1, <1>6, <2>1, FinishStep DEF Sha256Final
<1>7. CASE Sha512Final
  <2>1. ShaFinal("sha512", hashCtx) = FinalState("sha512", hashCtx)  BY DEF FinalState
  <2> QED  BY <1>1, <1>7, <2>1, FinishStep DEF Sha512Final
<1>8. CASE Ripemd160Final
  <2>1. RipemdFinal(hashCtx) = FinalState("ripemd160", hashCtx)  BY DEF FinalState
  <2> QED  BY <1>1, <1>8, <2>1, FinishStep DEF Ripemd160Final
<1>9. CASE HmacSha256Final  BY <1>1, <1>9, FinishStep DEF HmacSha256Final
<1>10. CASE HmacSha512Final  BY <1>1, <1>10, FinishStep DEF HmacSha512Final
<1> QED  BY <1>2, <1>3, <1>4, <1>5, <1>6, <1>7, <1>8, <1>9, <1>10 DEF HashNext

LEMMA HashesFollow == HashInv => StreamingIsOneShot /\ HmacIsStandard
<1> SUFFICES ASSUME HashInv  PROVE StreamingIsOneShot /\ HmacIsStandard
  OBVIOUS
<1>1. StreamingIsOneShot  BY DEF HashInv, HashDone, StreamingIsOneShot
<1>2. ASSUME hashOut # <<>>, hashKey # -1
      PROVE  hashOut = StandardHmac(hashKind, KeyBytes(hashKey), MessageBytes(0, hashLen))
  BY <1>2 DEF HashInv, HashDone
<1>3. ASSUME hashLen = 0, hashOut = <<>>, hashKey # -1
      PROVE  HmacPrepare(hashKind, KeyBytes(hashKey)).ipad = hashCtx.state
  <2> DEFINE key == KeyBytes(hashKey)
             x == Xored("ipad", PaddedKey(hashKind, key))
  <2>1. hashKey \in Nat /\ hashKind # "ripemd160" /\ hashKind \in HashKinds
    BY <1>3, KeysAreNumbers DEF HashInv, HashTypeOK
  <2>2. key \in Seq({<<"k", i>> : i \in Nat})  BY <2>1, KeyBytesIs
  <2>3. Prefix = x  BY <1>3 DEF Prefix
  <2> HIDE DEF key
  <2>4. MessageBytes(0, 0) = <<>>
    <3>1. MessageBytes(0, 0) \in Seq(MessageSet) /\ Len(MessageBytes(0, 0)) = 0  BY MessageIs
    <3> QED  BY <3>1, EmptySeq
  <2>5. PICK U : PaddedKey(hashKind, key) \in BlockOf(U)  BY <2>1, <2>2, KeyIs
  <2>6. x \in Seq(XorBytes("ipad", U))  BY <2>5, XoredIs
  <2>7. x \o <<>> = x
    <3> HIDE DEF x
    <3> QED  BY <2>6, ConcatEmptySeq
  <2>8. Held(hashKind, hashCtx, x)
    <3>1. Held(hashKind, hashCtx, Prefix \o MessageBytes(0, hashLen))
      BY <1>3 DEF HashInv, HashHeld
    <3> QED  BY <1>3, <2>3, <2>4, <2>7, <3>1
  <2>9. HmacPrepare(hashKind, key).ipad = hashCtx.state  BY <2>1, <2>2, <2>8, HmacPrepares
  <2> QED  BY <2>9 DEF key
<1> QED  BY <1>1, <1>2, <1>3 DEF HmacIsStandard

\* However a message is cut into pieces, sha2.c, ripemd160.c and hmac.c feed the blocks
\* of the padded message of the standard to their compression functions: for any sizes
\* of blocks and words, any width of the counters, any message, also one whose length
\* makes the counters carry or wrap, any pieces that a length of 32 bits can state, and
\* any key.
THEOREM HashesAreStandardHolds == HashSpec => []HashesAreStandard
<1>1. HashInv => HashesAreStandard  BY HashesFollow DEF HashesAreStandard
<1> QED  BY <1>1, HashInvInit, HashInvNext, PTL DEF HashSpec

----------------------------------------------------------------------------
(***************************************************************************)
(* Nonces.  uECC hashes in a buffer whose pad it overwrites with the byte  *)
(* behind V, and yet what the hash has been given is the message of an     *)
(* HMAC: so the memory is the state of RFC 6979, for each candidate.  Then *)
(* the random numbers, and the orders of random_permute, whose draws can   *)
(* be told from the order, from the last letter to the first.              *)
(***************************************************************************)

\* What holds of 0 and of the next one of each holds of all.
LEMMA Upwards ==
  ASSUME NEW n \in Nat, NEW T, 0 \in T, \A k \in 0..(n - 1) : k \in T => k + 1 \in T
  PROVE  \A k \in 0..n : k \in T
<1> DEFINE Wrong == {k \in 0..n : k \notin T}
<1>1. SUFFICES ASSUME Wrong # {}  PROVE FALSE  OBVIOUS
<1>2. PICK k \in Wrong : \A l \in Wrong : k <= l
  <2>1. Wrong \subseteq Nat  OBVIOUS
  <2> QED  BY <1>1, <2>1, LeastOf
<1>3. k - 1 \in 0..(n - 1) /\ ~(k <= k - 1) /\ k - 1 + 1 = k  BY <1>2
<1> QED  BY <1>2, <1>3

\* And downwards, to 1.
LEMMA Downwards ==
  ASSUME NEW n \in Nat \ {0}, NEW T, n \in T, \A k \in 2..n : k \in T => k - 1 \in T
  PROVE  \A k \in 1..n : k \in T
<1> DEFINE U == {j \in 0..(n - 1) : n - j \in T}
<1>1. \A j \in 0..(n - 2) : j \in U => j + 1 \in U
  <2> SUFFICES ASSUME NEW j \in 0..(n - 2), n - j \in T  PROVE n - (j + 1) \in T /\ j + 1 \in 0..(n - 1)
    OBVIOUS
  <2>1. n - j \in 2..n /\ n - j - 1 = n - (j + 1)  OBVIOUS
  <2> QED  BY <2>1
<1>2. n - 1 \in Nat /\ 0 \in U /\ n - 1 - 1 = n - 2  OBVIOUS
<1>3. \A j \in 0..(n - 1) : j \in U
  <2> HIDE DEF U
  <2> QED  BY <1>1, <1>2, Upwards
<1> SUFFICES ASSUME NEW k \in 1..n  PROVE k \in T  OBVIOUS
<1>4. n - k \in 0..(n - 1) /\ n - (n - k) = k  OBVIOUS
<1> QED  BY <1>3, <1>4

----------------------------------------------------------------------------
\* A sequence of whatever.
IsSeq(s) == \E S : s \in Seq(S)

LEMMA ConcatOfAny ==
  ASSUME NEW s, IsSeq(s), NEW t, IsSeq(t)
  PROVE  IsSeq(s \o t)
<1>1. PICK S, T : s \in Seq(S) /\ t \in Seq(T)  BY DEF IsSeq
<1>2. s \in Seq(S \cup T) /\ t \in Seq(S \cup T)  BY <1>1, SeqMonotonic
<1> HIDE DEF IsSeq
<1>3. s \o t \in Seq(S \cup T)  BY <1>2, ConcatProperties
<1> QED  BY <1>3 DEF IsSeq

LEMMA AssocOfAny ==
  ASSUME NEW s, IsSeq(s), NEW t, IsSeq(t), NEW u, IsSeq(u)
  PROVE  (s \o t) \o u = s \o (t \o u)
<1>1. PICK S, T, U : s \in Seq(S) /\ t \in Seq(T) /\ u \in Seq(U)  BY DEF IsSeq
<1> DEFINE A == S \cup T \cup U
<1>2. s \in Seq(A) /\ t \in Seq(A) /\ u \in Seq(A)  BY <1>1, SeqMonotonic
<1> HIDE DEF A
<1> QED  BY <1>2, ConcatAssociative

LEMMA PairIsSeq == \A x, y : IsSeq(<<x, y>>)
<1> SUFFICES ASSUME NEW x, NEW y  PROVE IsSeq(<<x, y>>)  OBVIOUS
<1>1. <<x, y>> \in Seq({x, y})  OBVIOUS
<1> QED  BY <1>1 DEF IsSeq

LEMMA OneIsSeq == \A x : IsSeq(<<x>>)
<1> SUFFICES ASSUME NEW x  PROVE IsSeq(<<x>>)  OBVIOUS
<1>1. <<x>> \in Seq({x})  OBVIOUS
<1> QED  BY <1>1 DEF IsSeq

\* What the terms are.
LEMMA TermsAreSeqs ==
  /\ \A k, m : IsSeq(Hmac(k, m)) /\ Hmac(k, m) # <<>>
  /\ \A n, k : IsSeq(Pad(n, k))
  /\ \A n : IsSeq(Fill(n))
  /\ IsSeq(PrivKey) /\ IsSeq(MsgHash) /\ IsSeq(Reduced(MsgHash))
<1>1. ASSUME NEW k, NEW m  PROVE IsSeq(Hmac(k, m)) /\ Hmac(k, m) # <<>>
  BY OneIsSeq DEF Hmac, Hashed
<1>2. ASSUME NEW n, NEW k  PROVE IsSeq(Pad(n, k))  BY PairIsSeq DEF Pad
<1>3. ASSUME NEW n  PROVE IsSeq(Fill(n))  BY OneIsSeq DEF Fill
<1> QED  BY <1>1, <1>2, <1>3, OneIsSeq DEF PrivKey, MsgHash, Reduced

\* The message of a seed is hashed behind the pad, piece by piece.
LEMMA SeedMessage ==
  ASSUME NEW k, NEW v, IsSeq(v), NEW byte
  PROVE  (((Pad(54, k) \o v) \o <<Byte(byte)>>) \o PrivKey) \o MsgHash
           = Pad(54, k) \o (((v \o <<Byte(byte)>>) \o PrivKey) \o MsgHash)
<1>1. IsSeq(Pad(54, k)) /\ IsSeq(<<Byte(byte)>>) /\ IsSeq(PrivKey) /\ IsSeq(MsgHash)
  BY OneIsSeq, TermsAreSeqs
<1>2. PICK p, b, q, m : p = Pad(54, k) /\ b = <<Byte(byte)>> /\ q = PrivKey /\ m = MsgHash
  OBVIOUS
<1>3. IsSeq(p) /\ IsSeq(b) /\ IsSeq(q) /\ IsSeq(m)  BY <1>1, <1>2
<1>4. (((p \o v) \o b) \o q) \o m = p \o (((v \o b) \o q) \o m)
  <2>1. PICK x : x = v \o b  OBVIOUS
  <2>2. IsSeq(x)  BY <1>3, <2>1, ConcatOfAny
  <2>3. PICK y : y = x \o q  OBVIOUS
  <2>4. IsSeq(y)  BY <1>3, <2>2, <2>3, ConcatOfAny
  <2>5. (p \o v) \o b = p \o x  BY <1>3, <2>1, AssocOfAny
  <2>6. (p \o x) \o q = p \o y  BY <1>3, <2>2, <2>3, AssocOfAny
  <2>7. (p \o y) \o m = p \o (y \o m)  BY <1>3, <2>4, AssocOfAny
  <2> QED  BY <2>1, <2>3, <2>5, <2>6, <2>7
<1> QED  BY <1>2, <1>4

\* The memory of uECC.
Mem(k, v, p, c) == [k |-> k, v |-> v, pad |-> p, ctx |-> c]

LEMMA HmacInitIs ==
  ASSUME NEW k, NEW v, NEW p, NEW c
  PROVE  HmacInit(Mem(k, v, p, c)) = Mem(k, v, Pad(54, k), Pad(54, k))
BY DEF HmacInit, Mem

LEMMA UpdateVAndIs ==
  ASSUME NEW k, NEW v, NEW x, NEW y, NEW c, NEW byte
  PROVE  UpdateVAnd(Mem(k, v, <<x, y>>, c), byte)
           = Mem(k, v, <<Byte(byte), y>>, (c \o v) \o <<Byte(byte)>>)
<1> DEFINE m == Mem(k, v, <<x, y>>, c)
           n == [m EXCEPT !.pad[1] = Byte(byte)]
<1>1. n = Mem(k, v, <<Byte(byte), y>>, c)
  <2>1. [<<x, y>> EXCEPT ![1] = Byte(byte)] = <<Byte(byte), y>>  OBVIOUS
  <2> QED  BY <2>1 DEF Mem
<1>2. UpdateVAnd(m, byte) = [n EXCEPT !.ctx = (n.ctx \o n.v) \o <<n.pad[1]>>]
  BY DEF UpdateVAnd
<1>3. n.v = v /\ n.ctx = c /\ n.pad[1] = Byte(byte)  BY <1>1 DEF Mem
<1> QED  BY <1>1, <1>2, <1>3 DEF Mem

LEMMA UpdateWithIs ==
  ASSUME NEW k, NEW v, NEW p, NEW c, NEW bytes
  PROVE  UpdateWith(Mem(k, v, p, c), bytes) = Mem(k, v, p, c \o bytes)
BY DEF UpdateWith, Mem

\* What has been given to the hash is the message of an HMAC.
LEMMA FinishIs ==
  ASSUME NEW k, NEW v, NEW p, NEW m
  PROVE  /\ FinishToK(Mem(k, v, p, Pad(54, k) \o m)) = Mem(Hmac(k, m), v, Pad(92, k), Pad(54, k) \o m)
         /\ FinishToV(Mem(k, v, p, Pad(54, k) \o m)) = Mem(k, Hmac(k, m), Pad(92, k), Pad(54, k) \o m)
<1> DEFINE c == Pad(54, k) \o m
<1>1. HmacFinish(Mem(k, v, p, c)) = Hmac(k, m)  BY DEF HmacFinish, Hmac, Mem
<1> HIDE DEF c
<1>2. FinishToK(Mem(k, v, p, c)) = Mem(Hmac(k, m), v, Pad(92, k), c)
  BY <1>1 DEF FinishToK, Mem
<1>3. FinishToV(Mem(k, v, p, c)) = Mem(k, Hmac(k, m), Pad(92, k), c)
  BY <1>1 DEF FinishToV, Mem
<1> QED  BY <1>2, <1>3 DEF c

LEMMA UpdateVIs ==
  ASSUME NEW k, NEW v, NEW p, NEW c
  PROVE  UpdateV(Mem(k, v, p, c)) = Mem(k, Hmac(k, v), Pad(92, k), Pad(54, k) \o v)
<1> DEFINE i == Pad(54, k)
<1>1. HmacInit(Mem(k, v, p, c)) = Mem(k, v, i, i)  BY HmacInitIs
<1>2. UpdateWith(Mem(k, v, i, i), v) = Mem(k, v, i, i \o v)  BY UpdateWithIs
<1>3. FinishToV(Mem(k, v, i, i \o v)) = Mem(k, Hmac(k, v), Pad(92, k), i \o v)  BY FinishIs
<1>4. Mem(k, v, p, c).v = v  BY DEF Mem
<1> HIDE DEF i
<1>5. UpdateV(Mem(k, v, p, c)) = Mem(k, Hmac(k, v), Pad(92, k), i \o v)
  BY <1>1, <1>2, <1>3, <1>4 DEF UpdateV
<1> QED  BY <1>5 DEF i

\* A round of the seed: K and V are those of the RFC.
LEMMA UeccSeedIs ==
  ASSUME NEW k, NEW v, IsSeq(v), NEW p, NEW c, NEW byte
  PROVE  \E q, d : LET s == RfcSeed([k |-> k, v |-> v], byte, MsgHash)
                   IN UeccSeed(Mem(k, v, p, c), byte) = Mem(s.k, s.v, q, d)
<1> DEFINE b == <<Byte(byte)>>
           msg == ((v \o b) \o PrivKey) \o MsgHash
           pad == Pad(54, k)
           key == Hmac(k, msg)
<1>0. IsSeq(b) /\ IsSeq(pad) /\ IsSeq(PrivKey) /\ IsSeq(MsgHash)  BY OneIsSeq, TermsAreSeqs
<1>1. (((pad \o v) \o b) \o PrivKey) \o MsgHash = pad \o msg
  BY SeedMessage
<1> DEFINE y == <<"xor", 54, Byte(0)>>
           p2 == <<Byte(byte), y>>
<1>2. UpdateVAnd(HmacInit(Mem(k, v, p, c)), byte) = Mem(k, v, p2, (pad \o v) \o b)
  <2>1. pad = <<<<"xor", 54, k[1]>>, y>>  BY DEF Pad
  <2>2. HmacInit(Mem(k, v, p, c)) = Mem(k, v, pad, pad)  BY HmacInitIs
  <2> HIDE DEF y, pad
  <2> QED  BY <2>1, <2>2, UpdateVAndIs
<1> HIDE DEF b, pad, p2, msg
<1>3. UpdateWith(UpdateWith(Mem(k, v, p2, (pad \o v) \o b), PrivKey), MsgHash) = Mem(k, v, p2, pad \o msg)
  <2> DEFINE half == (pad \o v) \o b
  <2>1. UpdateWith(Mem(k, v, p2, half), PrivKey) = Mem(k, v, p2, half \o PrivKey)
    BY UpdateWithIs
  <2>2. UpdateWith(Mem(k, v, p2, half \o PrivKey), MsgHash) = Mem(k, v, p2, (half \o PrivKey) \o MsgHash)
    BY UpdateWithIs
  <2> QED  BY <1>1, <2>1, <2>2
<1>4. FinishToK(Mem(k, v, p2, pad \o msg)) = Mem(key, v, Pad(92, k), pad \o msg)
  BY FinishIs DEF pad
<1>5. UpdateV(Mem(key, v, Pad(92, k), pad \o msg)) = Mem(key, Hmac(key, v), Pad(92, key), Pad(54, key) \o v)
  BY UpdateVIs
<1>6. RfcSeed([k |-> k, v |-> v], byte, MsgHash) = [k |-> key, v |-> Hmac(key, v)]
  BY DEF RfcSeed, msg, b
<1>7. UeccSeed(Mem(k, v, p, c), byte) = Mem(key, Hmac(key, v), Pad(92, key), Pad(54, key) \o v)
  BY <1>2, <1>3, <1>4, <1>5 DEF UeccSeed
<1> HIDE DEF key
<1> QED  BY <1>6, <1>7

\* A refused candidate: the same without the key and the digest.
LEMMA UeccRefusedIs ==
  ASSUME NEW k, NEW v, IsSeq(v), NEW p, NEW c
  PROVE  LET key == Hmac(k, v \o <<Byte(0)>>)
         IN UeccRefused(Mem(k, v, p, c)) = Mem(key, Hmac(key, v), Pad(92, key), Pad(54, key) \o v)
<1> DEFINE b == <<Byte(0)>>
           pad == Pad(54, k)
           key == Hmac(k, v \o b)
           y == <<"xor", 54, Byte(0)>>
           p2 == <<Byte(0), y>>
<1>1. (pad \o v) \o b = pad \o (v \o b)
  <2>1. IsSeq(b) /\ IsSeq(pad)  BY OneIsSeq, TermsAreSeqs
  <2> HIDE DEF b, pad
  <2> QED  BY <2>1, AssocOfAny
<1>2. UpdateVAnd(HmacInit(Mem(k, v, p, c)), 0) = Mem(k, v, p2, (pad \o v) \o b)
  <2>1. pad = <<<<"xor", 54, k[1]>>, y>>  BY DEF Pad
  <2>2. HmacInit(Mem(k, v, p, c)) = Mem(k, v, pad, pad)  BY HmacInitIs
  <2> HIDE DEF y, pad
  <2> QED  BY <2>1, <2>2, UpdateVAndIs
<1> HIDE DEF b, pad, p2
<1>3. FinishToK(Mem(k, v, p2, pad \o (v \o b))) = Mem(key, v, Pad(92, k), pad \o (v \o b))
  BY FinishIs DEF pad
<1>4. UpdateV(Mem(key, v, Pad(92, k), pad \o (v \o b))) = Mem(key, Hmac(key, v), Pad(92, key), Pad(54, key) \o v)
  BY UpdateVIs
<1>5. UeccRefused(Mem(k, v, p, c)) = Mem(key, Hmac(key, v), Pad(92, key), Pad(54, key) \o v)
  BY <1>1, <1>2, <1>3, <1>4 DEF UeccRefused
<1> QED  BY <1>5 DEF b

\* The states of the RFC, one by one.
LEMMA RfcStateIs ==
  ASSUME NEW digest, NEW halves, NonceTries \in Nat
  PROVE  /\ RfcState(digest, halves, 0) = RfcStart(digest)
         /\ \A t \in 0..(NonceTries - 1) :
              RfcState(digest, halves, t + 1) = RfcRefused(RfcState(digest, halves, t), halves)
<1> DEFINE first == RfcStart(digest)
           next(s) == RfcRefused(s, halves)
           Unfolded(f, n) == [t \in 0..n |-> IF t = 0 THEN first ELSE next(f[t - 1])]
           Have == {n \in 0..NonceTries : \E f : f = Unfolded(f, n)}
<1> HIDE DEF first, next
<1>1. 0 \in Have
  <2>1. PICK f : f = [t \in 0..0 |-> first]  OBVIOUS
  <2>2. f = Unfolded(f, 0)  BY <2>1
  <2>3. 0 \in 0..NonceTries  OBVIOUS
  <2> HIDE DEF Unfolded
  <2> QED  BY <2>2, <2>3
<1>2. \A n \in 0..(NonceTries - 1) : n \in Have => n + 1 \in Have
  <2> SUFFICES ASSUME NEW n \in 0..(NonceTries - 1), n \in Have
               PROVE  n + 1 \in Have
    OBVIOUS
  <2>1. PICK f : f = Unfolded(f, n)  OBVIOUS
  <2> DEFINE g == [t \in 0..(n + 1) |-> IF t \in 0..n THEN f[t] ELSE next(f[n])]
  <2>2. ASSUME NEW t \in 0..(n + 1)
        PROVE  g[t] = IF t = 0 THEN first ELSE next(g[t - 1])
    <3>1. CASE t = 0
      <4>1. t \in 0..n /\ f[t] = first  BY <2>1, <3>1
      <4> QED  BY <3>1, <4>1
    <3>2. CASE t \in 1..n
      <4>1. t \in 0..n /\ t - 1 \in 0..n /\ t - 1 \in 0..(n + 1) /\ t # 0  BY <3>2
      <4>2. f[t] = next(f[t - 1])  BY <2>1, <4>1
      <4> QED  BY <4>1, <4>2
    <3>3. CASE t = n + 1
      <4>1. ~(t \in 0..n) /\ t - 1 \in 0..n /\ t - 1 \in 0..(n + 1) /\ t # 0 /\ t - 1 = n  BY <3>3
      <4> QED  BY <4>1
    <3> QED  BY <3>1, <3>2, <3>3
  <2> HIDE DEF g
  <2>3. g = Unfolded(g, n + 1)
    <3>1. g = [t \in 0..(n + 1) |-> g[t]]  BY DEF g
    <3> QED  BY <2>2, <3>1
  <2> QED  BY <2>3
<1>3. \A n \in 0..NonceTries : n \in Have
  <2> HIDE DEF Have
  <2> QED  BY <1>1, <1>2, Upwards
<1>4. PICK f : f = CHOOSE g : g = Unfolded(g, NonceTries)  OBVIOUS
<1>5. f = Unfolded(f, NonceTries)
  <2>1. \E g : g = Unfolded(g, NonceTries)  BY <1>3
  <2> QED  BY <1>4, <2>1
<1>6. \A t : RfcState(digest, halves, t) = f[t]
  BY <1>4 DEF RfcState, first, next
<1>7. f[0] = first  BY <1>5
<1>8. \A t \in 0..(NonceTries - 1) : f[t + 1] = next(f[t])
  <2> SUFFICES ASSUME NEW t \in 0..(NonceTries - 1)  PROVE f[t + 1] = next(f[t])  OBVIOUS
  <2>1. t + 1 \in 0..NonceTries /\ t + 1 # 0 /\ t + 1 - 1 = t  OBVIOUS
  <2> QED  BY <1>5, <2>1
<1> QED  BY <1>6, <1>7, <1>8 DEF first, next

\* They have a V that is one digest.
LEMMA RfcStateShape ==
  ASSUME NEW digest, NEW halves, NonceTries \in Nat, NEW t \in 0..NonceTries
  PROVE  \E k, m : RfcState(digest, halves, t) = [k |-> k, v |-> Hmac(k, m)]
<1>1. CASE t = 0
  <2>1. RfcState(digest, halves, 0) = RfcStart(digest)  BY RfcStateIs
  <2> QED  BY <1>1, <2>1 DEF RfcStart, RfcSeed
<1>2. CASE t \in 1..NonceTries
  <2>1. t - 1 \in 0..(NonceTries - 1) /\ t - 1 + 1 = t  BY <1>2
  <2>2. RfcState(digest, halves, t) = RfcRefused(RfcState(digest, halves, t - 1), halves)
    BY <2>1, RfcStateIs
  <2> QED  BY <2>2 DEF RfcRefused
<1> QED  BY <1>1, <1>2

----------------------------------------------------------------------------
\* What the memory holds: the state of the RFC, and for uECC the pad and the context too.
Digest == IF nonceBy = "ecdsa" THEN Reduced(MsgHash) ELSE MsgHash
Halves == IF nonceBy = "ecdsa" THEN 1 ELSE 2
MemIs(s) == IF nonceBy = "ecdsa" THEN nonceMem = s ELSE \E p, c : nonceMem = Mem(s.k, s.v, p, c)

NonceInv ==
  /\ nonceBy \in {"ecdsa", "uecc"} /\ nonceTry \in 0..NonceTries /\ randBound \in 1..RandMax
  /\ nonceOut = <<>> => MemIs(RfcState(Digest, Halves, nonceTry))
  /\ nonceOut # <<>> => nonceOut = RfcCandidate(RfcState(Digest, Halves, nonceTry), Halves)

LEMMA NonceInvFollows == NonceInv => NonceFollowsRfc
<1> SUFFICES ASSUME NonceInv  PROVE NonceFollowsRfc  OBVIOUS
<1> DEFINE s == RfcState(Digest, Halves, nonceTry)
<1>1. CASE nonceOut = <<>>
  <2> HIDE DEF s
  <2>1. s.k = nonceMem.k /\ s.v = nonceMem.v
    <3>1. MemIs(s)  BY <1>1 DEF NonceInv, s
    <3> QED  BY <3>1 DEF MemIs, Mem
  <2> QED  BY <1>1, <2>1 DEF NonceFollowsRfc, s, Digest, Halves
<1>2. CASE nonceOut # <<>>
  BY <1>2 DEF NonceFollowsRfc, NonceInv, Digest, Halves
<1> QED  BY <1>1, <1>2

LEMMA EcdsaStartIs == EcdsaStart = RfcStart(Reduced(MsgHash))
<1>1. ASSUME NEW k, NEW v, NEW byte
      PROVE  EcdsaSeed([k |-> k, v |-> v], byte) = RfcSeed([k |-> k, v |-> v], byte, Reduced(MsgHash))
  <2> DEFINE key == Hmac(k, v \o <<Byte(byte)>> \o PrivKey \o Reduced(MsgHash))
  <2>1. EcdsaSeed([k |-> k, v |-> v], byte) = [[k |-> k, v |-> v] EXCEPT !.k = key, !.v = Hmac(key, v)]
    BY DEF EcdsaSeed
  <2>2. RfcSeed([k |-> k, v |-> v], byte, Reduced(MsgHash)) = [k |-> key, v |-> Hmac(key, v)]
    BY DEF RfcSeed
  <2> HIDE DEF key
  <2> QED  BY <2>1, <2>2
<1> DEFINE one == RfcSeed([k |-> Fill(0), v |-> Fill(1)], 0, Reduced(MsgHash))
<1>2. EcdsaSeed([k |-> Fill(0), v |-> Fill(1)], 0) = one  BY <1>1
<1>3. one = [k |-> one.k, v |-> one.v]  BY DEF RfcSeed
<1> HIDE DEF one
<1>4. EcdsaSeed(one, 1) = RfcSeed(one, 1, Reduced(MsgHash))  BY <1>1, <1>3
<1> QED  BY <1>2, <1>4 DEF EcdsaStart, RfcStart, one

LEMMA UeccStartIs ==
  \E p, c : UeccStart = Mem(RfcStart(MsgHash).k, RfcStart(MsgHash).v, p, c)
<1> DEFINE zero == [k |-> Fill(0), v |-> Fill(1)]
           one == RfcSeed(zero, 0, MsgHash)
           mem == Mem(Fill(0), Fill(1), Fill(0) \o Fill(0), <<>>)
<1>1. PICK p, c : UeccSeed(mem, 0) = Mem(one.k, one.v, p, c)
  <2>1. IsSeq(Fill(1))  BY TermsAreSeqs
  <2> QED  BY <2>1, UeccSeedIs
<1>2. one = [k |-> one.k, v |-> one.v] /\ IsSeq(one.v)  BY TermsAreSeqs DEF RfcSeed
<1> HIDE DEF one
<1>3. PICK q, d : UeccSeed(Mem(one.k, one.v, p, c), 1)
                    = Mem(RfcSeed(one, 1, MsgHash).k, RfcSeed(one, 1, MsgHash).v, q, d)
  BY <1>2, UeccSeedIs
<1>4. UeccStart = UeccSeed(UeccSeed(mem, 0), 1)  BY DEF UeccStart, Mem
<1>5. RfcStart(MsgHash) = RfcSeed(one, 1, MsgHash)  BY DEF RfcStart, one
<1> HIDE DEF mem
<1> QED  BY <1>1, <1>3, <1>4, <1>5

LEMMA NonceStart == NonceAssumption /\ NonceInit => NonceInv
<1> SUFFICES ASSUME NonceAssumption, NonceInit  PROVE NonceInv  OBVIOUS
<1> USE DEF NonceAssumption
<1>1. nonceBy \in {"ecdsa", "uecc"} /\ nonceTry = 0 /\ nonceOut = <<>> /\ randBound \in 1..RandMax
      /\ 0 \in 0..NonceTries
  BY DEF NonceInit
<1>2. RfcState(Digest, Halves, 0) = RfcStart(Digest)  BY RfcStateIs
<1>3. MemIs(RfcStart(Digest))
  BY EcdsaStartIs, UeccStartIs DEF NonceInit, MemIs, Digest
<1> QED  BY <1>1, <1>2, <1>3 DEF NonceInv

\* A candidate of uECC: V after two updates, and what the two are put together to.
LEMMA UeccTIs ==
  ASSUME NEW k, NEW v, NEW p, NEW c
  PROVE  LET one == Hmac(k, v) two == Hmac(k, one)
         IN \E q, d : UeccT(Mem(k, v, p, c)) = [mem |-> Mem(k, two, q, d), t |-> one \o two]
<1> DEFINE one == Hmac(k, v)
           two == Hmac(k, one)
           mem1 == Mem(k, one, Pad(92, k), Pad(54, k) \o v)
           mem2 == Mem(k, two, Pad(92, k), Pad(54, k) \o one)
<1>1. UpdateV(Mem(k, v, p, c)) = mem1 /\ UpdateV(mem1) = mem2  BY UpdateVIs
<1>2. mem1.v = one /\ mem2.v = two  BY DEF Mem
<1> HIDE DEF mem1, mem2, one, two
<1>3. UeccT(Mem(k, v, p, c)) = [mem |-> mem2, t |-> one \o two]
  BY <1>1, <1>2 DEF UeccT
<1> QED  BY <1>3 DEF mem2, one, two

LEMMA DigestsJoined == \A k, m, l, n : Hmac(k, m) \o Hmac(l, n) # <<>>
BY DEF Hmac, Hashed

\* The next candidate of ecdsa.c, accepted and refused.
LEMMA EcdsaStep ==
  ASSUME NEW s, \E k, m : s = [k |-> k, v |-> Hmac(k, m)]
  PROVE  /\ EcdsaCandidate(s).v = RfcCandidate(s, 1)
         /\ EcdsaRefused(EcdsaCandidate(s)) = RfcRefused(s, 1)
         /\ RfcCandidate(s, 1) # <<>>
<1>1. s = [k |-> s.k, v |-> s.v]  OBVIOUS
<1> DEFINE once == Hmac(s.k, s.v)
           key == Hmac(s.k, once \o <<Byte(0)>>)
<1>2. once # <<>>  BY TermsAreSeqs
<1> HIDE DEF once, key
<1>3. EcdsaCandidate(s) = [k |-> s.k, v |-> once]  BY <1>1 DEF EcdsaCandidate, once
<1>4. EcdsaRefused([k |-> s.k, v |-> once]) = [k |-> key, v |-> Hmac(key, once)]
  <2> DEFINE t == [k |-> s.k, v |-> once]
  <2>1. t.k = s.k /\ t.v = once  OBVIOUS
  <2> HIDE DEF t
  <2>2. EcdsaRefused(t) = [t EXCEPT !.k = key, !.v = Hmac(key, once)]
    BY <2>1 DEF EcdsaRefused, key
  <2> QED  BY <2>2 DEF t
<1>5. RfcCandidate(s, 1) = once /\ RfcRefused(s, 1) = [k |-> key, v |-> Hmac(key, once)]
  BY DEF RfcCandidate, RfcRefused, RfcV, once, key
<1> QED  BY <1>2, <1>3, <1>4, <1>5

\* The next candidate of uECC.c, accepted and refused.
UeccGoesOn(s, mem) ==
  \E after, q, d :
    /\ UeccT(mem) = [mem |-> after, t |-> RfcCandidate(s, 2)]
    /\ UeccRefused(after) = Mem(RfcRefused(s, 2).k, RfcRefused(s, 2).v, q, d)
    /\ RfcCandidate(s, 2) # <<>>

LEMMA UeccStep ==
  ASSUME NEW s, NEW p, NEW c
  PROVE  UeccGoesOn(s, Mem(s.k, s.v, p, c))
<1> DEFINE one == Hmac(s.k, s.v)
           two == Hmac(s.k, one)
           key == Hmac(s.k, two \o <<Byte(0)>>)
<1>1. PICK q, d : UeccT(Mem(s.k, s.v, p, c)) = [mem |-> Mem(s.k, two, q, d), t |-> one \o two]
  BY UeccTIs
<1>2. UeccRefused(Mem(s.k, two, q, d)) = Mem(key, Hmac(key, two), Pad(92, key), Pad(54, key) \o two)
  <2>1. IsSeq(two)  BY TermsAreSeqs
  <2> QED  BY <2>1, UeccRefusedIs
<1>3. RfcCandidate(s, 2) = one \o two  BY DEF RfcCandidate
<1>4. RfcRefused(s, 2) = [k |-> key, v |-> Hmac(key, two)]  BY DEF RfcRefused, RfcV
<1>5. one \o two # <<>>  BY DigestsJoined
<1> DEFINE mem == Mem(s.k, two, q, d)
<1> HIDE DEF one, two, key
<1>6. RfcRefused(s, 2).k = key /\ RfcRefused(s, 2).v = Hmac(key, two)  BY <1>4
<1>7. UeccRefused(mem) = Mem(RfcRefused(s, 2).k, RfcRefused(s, 2).v,
                            Pad(92, key), Pad(54, key) \o two)
  BY <1>2, <1>6
<1>8. UeccT(Mem(s.k, s.v, p, c)) = [mem |-> mem, t |-> RfcCandidate(s, 2)]  BY <1>1, <1>3
<1>9. RfcCandidate(s, 2) # <<>>  BY <1>3, <1>5
<1> HIDE DEF mem
<1> QED  BY <1>7, <1>8, <1>9 DEF UeccGoesOn

LEMMA NonceStep == NonceAssumption /\ NonceInv /\ [NonceNext]_nonceVars => NonceInv'
<1> SUFFICES ASSUME NonceAssumption, NonceInv, [NonceNext]_nonceVars  PROVE NonceInv'  OBVIOUS
<1>1. CASE UNCHANGED nonceVars
  BY <1>1 DEF NonceInv, nonceVars, MemIs, Digest, Halves
<1>2. CASE NonceNext
  <2> DEFINE s == RfcState(Digest, Halves, nonceTry)
             ecdsa == EcdsaCandidate(nonceMem)
             t == IF nonceBy = "ecdsa" THEN [mem |-> ecdsa, t |-> ecdsa.v] ELSE UeccT(nonceMem)
             refused == IF nonceBy = "ecdsa" THEN EcdsaRefused(t.mem) ELSE UeccRefused(t.mem)
  <2>1. nonceOut = <<>> /\ nonceTry < NonceTries /\ nonceTry \in 0..NonceTries
        /\ nonceBy \in {"ecdsa", "uecc"} /\ randBound \in 1..RandMax
        /\ nonceBy' = nonceBy /\ randBound' = randBound /\ MemIs(s)
    BY <1>2 DEF NonceNext, NonceInv
  <2>2. NonceTries \in Nat  BY DEF NonceAssumption
  <2>3. \/ nonceOut' = t.t /\ nonceTry' = nonceTry
        \/ nonceMem' = refused /\ nonceTry' = nonceTry + 1 /\ nonceOut' = nonceOut
    BY <1>2 DEF NonceNext
  <2>4. RfcState(Digest, Halves, nonceTry + 1) = RfcRefused(s, Halves)
    <3>1. nonceTry \in 0..(NonceTries - 1)  BY <2>1, <2>2
    <3> HIDE DEF s
    <3> QED  BY <2>2, <3>1, RfcStateIs DEF s
  <2>5. \E k, m : s = [k |-> k, v |-> Hmac(k, m)]  BY <2>1, <2>2, RfcStateShape
  <2>6. Digest' = Digest /\ Halves' = Halves  BY <2>1 DEF Digest, Halves
  <2> HIDE DEF s
  <2>7. /\ t.t = RfcCandidate(s, Halves) /\ t.t # <<>>
        /\ IF nonceBy = "ecdsa" THEN refused = RfcRefused(s, Halves)
           ELSE \E p, c : refused = Mem(RfcRefused(s, Halves).k, RfcRefused(s, Halves).v, p, c)
    <3>1. CASE nonceBy = "ecdsa"
      <4>1. nonceMem = s /\ Halves = 1  BY <2>1, <3>1 DEF MemIs, Halves
      <4> QED  BY <2>5, <3>1, <4>1, EcdsaStep
    <3>2. CASE nonceBy # "ecdsa"
      <4>1. Halves = 2  BY <3>2 DEF Halves
      <4>2. PICK r : r = s  OBVIOUS
      <4>3. PICK p, c : nonceMem = Mem(r.k, r.v, p, c)  BY <2>1, <3>2, <4>2 DEF MemIs
      <4>4. UeccGoesOn(r, nonceMem)  BY <4>3, UeccStep
      <4> HIDE DEF t, refused
      <4>5. PICK after, q, d :
              /\ UeccT(nonceMem) = [mem |-> after, t |-> RfcCandidate(r, 2)]
              /\ UeccRefused(after) = Mem(RfcRefused(r, 2).k, RfcRefused(r, 2).v, q, d)
              /\ RfcCandidate(r, 2) # <<>>
        BY <4>4 DEF UeccGoesOn
      <4>6. t.t = RfcCandidate(r, 2) /\ refused = UeccRefused(after)
        BY <3>2, <4>3, <4>5 DEF t, refused
      <4> QED  BY <3>2, <4>1, <4>2, <4>5, <4>6
    <3> QED  BY <3>1, <3>2
  <2> HIDE DEF t, refused
  <2>8. CASE nonceOut' = t.t /\ nonceTry' = nonceTry
    BY <2>1, <2>6, <2>7, <2>8 DEF NonceInv, s
  <2>9. CASE nonceMem' = refused /\ nonceTry' = nonceTry + 1 /\ nonceOut' = nonceOut
    <3>1. PICK r : r = RfcRefused(s, Halves)  OBVIOUS
    <3>2. IF nonceBy' = "ecdsa" THEN nonceMem' = r
          ELSE \E p, c : nonceMem' = Mem(r.k, r.v, p, c)
      BY <2>1, <2>7, <2>9, <3>1
    <3>3. RfcState(Digest, Halves, nonceTry)' = r  BY <2>4, <2>6, <2>9, <3>1
    <3>4. nonceTry' \in 0..NonceTries  BY <2>1, <2>2, <2>9
    <3> QED  BY <2>1, <2>9, <3>2, <3>3, <3>4 DEF NonceInv, MemIs
  <2> QED  BY <2>3, <2>8, <2>9
<1> QED  BY <1>1, <1>2 DEF nonceVars

----------------------------------------------------------------------------
\* The numbers that have a quotient.
LEMMA QuotientIs ==
  ASSUME NEW x \in Int, NEW q \in Nat \ {0}, NEW r \in Int
  PROVE  x \div q = r <=> r * q <= x /\ x < r * q + q
<1>1. /\ x \div q \in Int /\ x % q \in 0..(q - 1)
      /\ x = (x \div q) * q + (x % q)
  BY DivModOf
<1>2. r * q \in Int  OBVIOUS
<1>3. ASSUME x \div q = r  PROVE r * q <= x /\ x < r * q + q  BY <1>1, <1>2, <1>3
<1>4. ASSUME r * q <= x, x < r * q + q  PROVE x \div q = r
  <2>1. x - r * q \in 0..(q - 1) /\ x = r * q + (x - r * q)  BY <1>2, <1>4
  <2>2. PICK m \in 0..(q - 1) : m = x - r * q  BY <2>1
  <2>3. x = r * q + m  BY <2>1, <2>2
  <2> QED  BY <2>3, DivModIs
<1> QED  BY <1>3, <1>4

LEMMA QuotientBelow ==
  ASSUME NEW n \in Nat, NEW q \in Nat \ {0}, NEW x \in Nat, x < n * q
  PROVE  x \div q \in 0..(n - 1)
<1>1. PICK d \in Int : d = x \div q  BY DivModOf
<1>2. d * q <= x /\ x < d * q + q /\ d * q \in Int /\ n * q \in Int  BY <1>1, QuotientIs
<1>3. ~(d < 0)
  <2>1. SUFFICES ASSUME d < 0  PROVE FALSE  OBVIOUS
  <2>2. d * q + q <= 0 * q  BY <2>1, MultiplesApart
  <2> QED  BY <1>2, <2>2
<1>4. ~(n < d)
  <2>1. SUFFICES ASSUME n < d  PROVE FALSE  OBVIOUS
  <2>2. n * q + q <= d * q  BY <2>1, MultiplesApart
  <2> QED  BY <1>2, <2>2
<1>5. n # d  BY <1>2
<1> QED  BY <1>1, <1>3, <1>4, <1>5

\* Random numbers: the x of a result are an interval of length limit \div n.
LEMMA UniformHolds == NonceAssumption /\ NonceInv => UniformIsUniform
<1> SUFFICES ASSUME NonceAssumption, NonceInv  PROVE UniformIsUniform  OBVIOUS
<1> DEFINE n == randBound
           q == (RandWord - 1) \div n
           limit == RandLimit(n)
<1>1. n \in Nat \ {0} /\ n <= RandWord - 1 /\ RandWord - 1 \in Nat
  <2>1. n \in 1..RandMax /\ RandMax \in Nat /\ RandWord \in Nat /\ RandMax < RandWord
    BY DEF NonceInv, NonceAssumption
  <2> QED  BY <2>1
<1> HIDE DEF n
<1>2. q \in Nat \ {0} /\ limit = n * q
  <2>1. q \in Int /\ (RandWord - 1) % n \in 0..(n - 1) /\ RandWord - 1 = q * n + ((RandWord - 1) % n)
    <3>1. PICK w \in Nat : w = RandWord - 1  BY <1>1
    <3> QED  BY <1>1, <3>1, DivModOf
  <2>2. q * n \in Int /\ limit = q * n  BY <1>1, <2>1 DEF RandLimit
  <2>3. n * q = q * n  BY <1>1, <2>1
  <2>4. ~(q < 1)
    <3>1. SUFFICES ASSUME q < 1  PROVE FALSE  OBVIOUS
    <3>2. q * n + n <= 1 * n  BY <1>1, <2>1, <3>1, MultiplesApart
    <3> QED  BY <1>1, <2>1, <2>2, <3>2
  <2> QED  BY <2>1, <2>2, <2>3, <2>4
<1> HIDE DEF q, limit
<1>3. limit \div n = q /\ limit \in Nat
  <2>1. limit = q * n + 0 /\ 0 \in 0..(n - 1) /\ limit \in Nat  BY <1>1, <1>2
  <2> QED  BY <1>1, <1>2, <2>1, DivModIs
<1>4. \A x : RandResult(x, n) = x \div q  BY <1>3 DEF RandResult, limit
<1>5. ASSUME NEW x \in 0..(limit - 1), NEW r \in Int
      PROVE  x \div q = r <=> r * q <= x /\ x < r * q + q
  <2>1. x \in Int  OBVIOUS
  <2> QED  BY <1>2, <2>1, QuotientIs
<1>6. ASSUME NEW r \in 0..(n - 1)  PROVE r * q \in Nat /\ r * q + q <= limit
  <2>1. r \in Int /\ n \in Int /\ r < n /\ r \in Nat  BY <1>1
  <2> QED  BY <1>2, <2>1, MultiplesApart
<1>7. ASSUME NEW r \in 0..(n - 1)
      PROVE  Quantify(0..(limit - 1), LAMBDA x : RandResult(x, n) = r) = limit \div n
  <2> DEFINE S == {x \in 0..(limit - 1) : RandResult(x, n) = r}
  <2>0. Quantify(0..(limit - 1), LAMBDA x : RandResult(x, n) = r) = Cardinality(S)  BY DEF Quantify
  <2>1. PICK a \in Nat : a = r * q  BY <1>6
  <2>2. a + q <= limit  BY <1>6, <2>1
  <2>3. S = a..(a + q - 1)
    <3>1. ASSUME NEW x \in 0..(limit - 1)  PROVE RandResult(x, n) = r <=> a <= x /\ x < a + q
      BY <1>1, <1>4, <1>5, <2>1
    <3>2. \A x \in a..(a + q - 1) : x \in 0..(limit - 1) /\ a <= x /\ x < a + q
      BY <1>2, <1>3, <2>2
    <3>3. \A x \in 0..(limit - 1) : a <= x /\ x < a + q => x \in a..(a + q - 1)
      BY <1>2, <1>3
    <3> QED  BY <3>1, <3>2, <3>3
  <2>4. Cardinality(a..(a + q - 1)) = q
    <3>1. PICK b \in Int : b = a + q - 1  BY <1>2
    <3>2. ~(a > b) /\ b - a + 1 = q  BY <1>2, <3>1
    <3>3. Cardinality(a..b) = b - a + 1  BY <3>1, <3>2, FS_Interval
    <3> QED  BY <3>1, <3>2, <3>3
  <2> QED  BY <1>3, <2>0, <2>3, <2>4
<1>8. ASSUME NEW x \in 0..(limit - 1)  PROVE RandResult(x, n) \in 0..(n - 1)
  <2>1. x \in Nat /\ x < n * q  BY <1>2, <1>3
  <2> QED  BY <1>1, <1>2, <1>4, <2>1, QuotientBelow
<1> QED  BY <1>7, <1>8 DEF UniformIsUniform, limit, n

----------------------------------------------------------------------------
\* Two letters that change places.
LEMMA SwappedIs ==
  ASSUME NEW n \in Nat, NEW str \in [1..n -> 1..n], NEW i \in 1..n, NEW j \in 1..n
  PROVE  /\ Swapped(str, i, j) \in [1..n -> 1..n]
         /\ Swapped(str, i, j)[i] = str[j] /\ Swapped(str, i, j)[j] = str[i]
         /\ \A l \in 1..n : l # i /\ l # j => Swapped(str, i, j)[l] = str[l]
BY DEF Swapped

LEMMA SwappedPermutes ==
  ASSUME NEW n \in Nat, NEW str \in Bijection(1..n, 1..n), NEW i \in 1..n, NEW j \in 1..n
  PROVE  Swapped(str, i, j) \in Bijection(1..n, 1..n)
<1>1. /\ str \in [1..n -> 1..n] /\ \A w \in 1..n : \E v \in 1..n : str[v] = w
      /\ \A u, v \in 1..n : str[u] = str[v] => u = v
  BY DEF Bijection, Injection, Surjection, IsInjective
<1> DEFINE s == Swapped(str, i, j)
<1>2. /\ s \in [1..n -> 1..n] /\ s[i] = str[j] /\ s[j] = str[i]
      /\ \A l \in 1..n : l # i /\ l # j => s[l] = str[l]
  <2>1. str \in [1..n -> 1..n]  BY <1>1
  <2> QED  BY <2>1, SwappedIs
<1> HIDE DEF s
<1>3. ASSUME NEW w \in 1..n  PROVE \E v \in 1..n : s[v] = w
  <2>1. PICK v \in 1..n : str[v] = w  BY <1>1
  <2>2. CASE v = i  BY <1>2, <2>1, <2>2
  <2>3. CASE v = j  BY <1>2, <2>1, <2>3
  <2>4. CASE v # i /\ v # j  BY <1>2, <2>1, <2>4
  <2> QED  BY <2>2, <2>3, <2>4
<1>4. ASSUME NEW u \in 1..n, NEW v \in 1..n, s[u] = s[v]  PROVE u = v
  <2>1. CASE u = i
    <3>1. CASE v = i  BY <2>1, <3>1
    <3>2. CASE v = j  BY <1>1, <1>2, <1>4, <2>1, <3>2
    <3>3. CASE v # i /\ v # j  BY <1>1, <1>2, <1>4, <2>1, <3>3
    <3> QED  BY <3>1, <3>2, <3>3
  <2>2. CASE u = j
    <3>1. CASE v = i  BY <1>1, <1>2, <1>4, <2>2, <3>1
    <3>2. CASE v = j  BY <2>2, <3>2
    <3>3. CASE v # i /\ v # j  BY <1>1, <1>2, <1>4, <2>2, <3>3
    <3> QED  BY <3>1, <3>2, <3>3
  <2>3. CASE u # i /\ u # j
    <3>1. CASE v = i  BY <1>1, <1>2, <1>4, <2>3, <3>1
    <3>2. CASE v = j  BY <1>1, <1>2, <1>4, <2>3, <3>2
    <3>3. CASE v # i /\ v # j  BY <1>1, <1>2, <1>4, <2>3, <3>3
    <3> QED  BY <3>1, <3>2, <3>3
  <2> QED  BY <2>1, <2>2, <2>3
<1> QED  BY <1>2, <1>3, <1>4 DEF Bijection, Injection, Surjection, IsInjective, s

\* random_permute, from the last letter to the first.
LEMMA PermutedIs ==
  ASSUME NEW n \in Nat \ {0}, NEW d
  PROVE  /\ Permuted(n, d, n) = [l \in 1..n |-> l]
         /\ \A k \in 2..n : Permuted(n, d, k - 1) = Swapped(Permuted(n, d, k), k, d[k])
<1> DEFINE id == [l \in 1..n |-> l]
           next(s, k) == Swapped(s, k, d[k])
           Unfolded(f, m) == [k \in m..n |-> IF k = n THEN id ELSE next(f[k + 1], k + 1)]
           Have == {m \in 1..n : \E f : f = Unfolded(f, m)}
<1> HIDE DEF id, next
<1>1. n \in Have
  <2>1. PICK f : f = [k \in n..n |-> id]  OBVIOUS
  <2>2. f = Unfolded(f, n)  BY <2>1
  <2>3. n \in 1..n  OBVIOUS
  <2> HIDE DEF Unfolded
  <2> QED  BY <2>2, <2>3
<1>2. \A m \in 2..n : m \in Have => m - 1 \in Have
  <2> SUFFICES ASSUME NEW m \in 2..n, m \in Have
               PROVE  m - 1 \in Have
    OBVIOUS
  <2>1. PICK f : f = Unfolded(f, m)  OBVIOUS
  <2> DEFINE g == [k \in (m - 1)..n |-> IF k \in m..n THEN f[k] ELSE next(f[m], m)]
  <2>2. ASSUME NEW k \in (m - 1)..n
        PROVE  g[k] = IF k = n THEN id ELSE next(g[k + 1], k + 1)
    <3>1. CASE k = n
      <4>1. k \in m..n /\ f[k] = id  BY <2>1, <3>1
      <4> QED  BY <3>1, <4>1
    <3>2. CASE k \in m..(n - 1)
      <4>1. k \in m..n /\ k + 1 \in m..n /\ k + 1 \in (m - 1)..n /\ k # n  BY <3>2
      <4>2. f[k] = next(f[k + 1], k + 1)  BY <2>1, <4>1
      <4> QED  BY <4>1, <4>2
    <3>3. CASE k = m - 1
      <4>1. ~(k \in m..n) /\ k + 1 \in m..n /\ k + 1 \in (m - 1)..n /\ k # n /\ k + 1 = m  BY <3>3
      <4> QED  BY <4>1
    <3> QED  BY <3>1, <3>2, <3>3
  <2> HIDE DEF g
  <2>3. g = Unfolded(g, m - 1)
    <3>1. g = [k \in (m - 1)..n |-> g[k]]  BY DEF g
    <3> QED  BY <2>2, <3>1
  <2>4. m - 1 \in 1..n  OBVIOUS
  <2> QED  BY <2>3, <2>4
<1>3. 1 \in Have
  <2>1. \A m \in 1..n : m \in Have
    <3> HIDE DEF Have
    <3> QED  BY <1>1, <1>2, Downwards
  <2>2. 1 \in 1..n  OBVIOUS
  <2> QED  BY <2>1, <2>2
<1>4. PICK f : f = CHOOSE g : g = Unfolded(g, 1)  OBVIOUS
<1>5. f = Unfolded(f, 1)
  <2>1. \E g : g = Unfolded(g, 1)  BY <1>3
  <2> QED  BY <1>4, <2>1
<1>6. \A k : Permuted(n, d, k) = f[k]
  BY <1>4 DEF Permuted, id, next
<1>7. f[n] = id  BY <1>5
<1>8. \A k \in 2..n : f[k - 1] = next(f[k], k)
  <2> SUFFICES ASSUME NEW k \in 2..n  PROVE f[k - 1] = next(f[k], k)  OBVIOUS
  <2>1. k - 1 \in 1..n /\ k - 1 # n /\ k - 1 + 1 = k  OBVIOUS
  <2> QED  BY <1>5, <2>1
<1> QED  BY <1>6, <1>7, <1>8 DEF id, next

LEMMA DrawsAre ==
  ASSUME NEW n \in Nat, NEW d \in Draws(n)
  PROVE  d \in [1..n -> 1..n] /\ \A k \in 1..n : d[k] \in 1..n /\ d[k] <= k
BY DEF Draws

\* Each string on the way has each letter once.
LEMMA PermutedPermutes ==
  ASSUME NEW n \in Nat \ {0}, NEW d \in Draws(n), NEW k \in 1..n
  PROVE  Permuted(n, d, k) \in Bijection(1..n, 1..n)
<1> DEFINE T == {m \in 1..n : Permuted(n, d, m) \in Bijection(1..n, 1..n)}
<1>1. n \in T
  <2>1. [l \in 1..n |-> l] \in Bijection(1..n, 1..n)
    BY DEF Bijection, Injection, Surjection, IsInjective
  <2> QED  BY <2>1, PermutedIs
<1>2. ASSUME NEW m \in 2..n, m \in T  PROVE m - 1 \in T
  <2>1. PICK s \in Bijection(1..n, 1..n) : s = Permuted(n, d, m)  BY <1>2
  <2>2. m \in 1..n /\ d[m] \in 1..n /\ m - 1 \in 1..n  BY DrawsAre
  <2>3. Swapped(s, m, d[m]) \in Bijection(1..n, 1..n)  BY <2>2, SwappedPermutes
  <2>4. Permuted(n, d, m - 1) = Swapped(s, m, d[m])  BY <2>1, PermutedIs
  <2> QED  BY <2>2, <2>3, <2>4
<1>3. \A m \in 1..n : m \in T
  <2> HIDE DEF T
  <2> QED  BY <1>1, <1>2, Downwards
<1> QED  BY <1>3

\* A step, letter by letter: the draw of a place is where the letter of that place was.
LEMMA PermutedStep ==
  ASSUME NEW n \in Nat \ {0}, NEW d \in Draws(n), NEW k \in 2..n
  PROVE  /\ Permuted(n, d, k - 1)[k] = Permuted(n, d, k)[d[k]]
         /\ \A l \in 1..n : l > k => Permuted(n, d, k - 1)[l] = Permuted(n, d, k)[l]
<1>1. PICK s : s = Permuted(n, d, k)  OBVIOUS
<1>2. k \in 1..n /\ d[k] \in 1..n /\ d[k] <= k  BY DrawsAre
<1>3. s \in [1..n -> 1..n]
  BY <1>1, <1>2, PermutedPermutes DEF Bijection, Injection
<1>4. PICK j \in 1..n : j = d[k]  BY <1>2
<1>5. Permuted(n, d, k - 1) = Swapped(s, k, j)  BY <1>1, <1>4, PermutedIs
<1>6. /\ Swapped(s, k, j)[k] = s[j]
      /\ \A l \in 1..n : l # k /\ l # j => Swapped(s, k, j)[l] = s[l]
  BY <1>2, <1>3 DEF Swapped
<1>7. \A l \in 1..n : l > k => l # k /\ l # j  BY <1>2, <1>4
<1> QED  BY <1>1, <1>4, <1>5, <1>6, <1>7

\* A place behind k keeps its letter.
LEMMA PermutedKeeps ==
  ASSUME NEW n \in Nat \ {0}, NEW d \in Draws(n), NEW l \in 1..n
  PROVE  \A k \in 1..n : k < l => Permuted(n, d, k)[l] = Permuted(n, d, 1)[l]
<1> DEFINE last == Permuted(n, d, 1)
           T == {m \in 0..n : m + 1 \in 1..n /\ m + 1 < l => Permuted(n, d, m + 1)[l] = last[l]}
<1>1. 0 \in T  OBVIOUS
<1>2. \A m \in 0..(n - 1) : m \in T => m + 1 \in T
  <2> SUFFICES ASSUME NEW m \in 0..(n - 1), m \in T, m + 2 \in 1..n, m + 2 < l
               PROVE  Permuted(n, d, m + 2)[l] = last[l]
    OBVIOUS
  <2>1. m + 1 \in 1..n /\ m + 1 < l /\ m + 2 \in 2..n /\ m + 2 - 1 = m + 1 /\ l > m + 2  OBVIOUS
  <2>2. Permuted(n, d, m + 1)[l] = last[l]  BY <2>1
  <2>3. PICK k \in 2..n : k = m + 2  BY <2>1
  <2>4. Permuted(n, d, k - 1)[l] = Permuted(n, d, k)[l]  BY <2>1, <2>3, PermutedStep
  <2> QED  BY <2>1, <2>2, <2>3, <2>4
<1>3. \A m \in 0..n : m \in T
  <2> HIDE DEF T
  <2> QED  BY <1>1, <1>2, Upwards
<1> SUFFICES ASSUME NEW k \in 1..n, k < l  PROVE Permuted(n, d, k)[l] = last[l]  OBVIOUS
<1>4. k - 1 \in 0..n /\ k - 1 + 1 = k  OBVIOUS
<1> QED  BY <1>3, <1>4

\* The letters behind k are those of the end, for whatever draws.
LEMMA PermutedUpTo ==
  ASSUME NEW n \in Nat \ {0}, NEW d \in Draws(n), NEW k \in 2..n
  PROVE  Permuted(n, d, k)[d[k]] = Permuted(n, d, 1)[k]
<1>1. k - 1 \in 1..n /\ k \in 1..n /\ k - 1 < k  OBVIOUS
<1>2. Permuted(n, d, k - 1)[k] = Permuted(n, d, 1)[k]
  <2>1. PICK m \in 1..n : m = k - 1  BY <1>1
  <2>2. Permuted(n, d, m)[k] = Permuted(n, d, 1)[k]  BY <1>1, <2>1, PermutedKeeps
  <2> QED  BY <2>1, <2>2
<1>3. Permuted(n, d, k - 1)[k] = Permuted(n, d, k)[d[k]]  BY PermutedStep
<1> QED  BY <1>2, <1>3

\* The end tells the draws, from the last one to the first.
LEMMA PermutedOneToOne ==
  ASSUME NEW n \in Nat \ {0}, NEW d \in Draws(n), NEW e \in Draws(n),
         Permuted(n, d, 1) = Permuted(n, e, 1)
  PROVE  d = e
<1> DEFINE T == {m \in 1..n : /\ Permuted(n, d, m) = Permuted(n, e, m)
                              /\ \A k \in 1..n : k > m => d[k] = e[k]}
<1>1. n \in T  BY PermutedIs
<1>2. ASSUME NEW m \in 2..n, m \in T  PROVE m - 1 \in T
  <2>1. PICK s : s = Permuted(n, d, m) /\ s = Permuted(n, e, m)  BY <1>2
  <2>2. m \in 1..n /\ d[m] \in 1..n /\ e[m] \in 1..n /\ m - 1 \in 1..n
    <3>1. m \in 1..n /\ m - 1 \in 1..n  OBVIOUS
    <3>2. d[m] \in 1..n  BY <3>1, DrawsAre
    <3>3. e[m] \in 1..n  BY <3>1, DrawsAre
    <3> QED  BY <3>1, <3>2, <3>3
  <2>3. \A u, v \in 1..n : s[u] = s[v] => u = v
    <3>1. s \in Bijection(1..n, 1..n)  BY <2>1, <2>2, PermutedPermutes
    <3> QED  BY <3>1 DEF Bijection, Injection, IsInjective
  <2>4. s[d[m]] = s[e[m]]
    <3>1. s[d[m]] = Permuted(n, d, 1)[m]  BY <2>1, PermutedUpTo
    <3>2. s[e[m]] = Permuted(n, e, 1)[m]  BY <2>1, PermutedUpTo
    <3> QED  BY <3>1, <3>2
  <2>5. d[m] = e[m]  BY <2>2, <2>3, <2>4
  <2>6. Permuted(n, d, m - 1) = Permuted(n, e, m - 1)
    <3>1. Permuted(n, d, m - 1) = Swapped(Permuted(n, d, m), m, d[m])  BY PermutedIs
    <3>2. Permuted(n, e, m - 1) = Swapped(Permuted(n, e, m), m, e[m])  BY PermutedIs
    <3> QED  BY <2>1, <2>5, <3>1, <3>2
  <2>7. \A k \in 1..n : k > m - 1 => d[k] = e[k]
    <3>1. \A k \in 1..n : k > m - 1 => k > m \/ k = m  OBVIOUS
    <3> QED  BY <1>2, <2>5, <3>1
  <2> QED  BY <2>2, <2>6, <2>7
<1>3. \A m \in 1..n : m \in T
  <2> HIDE DEF T
  <2> QED  BY <1>1, <1>2, Downwards
<1>4. 1 \in 1..n /\ d[1] \in 1..n /\ d[1] <= 1 /\ e[1] \in 1..n /\ e[1] <= 1
  <2>1. 1 \in 1..n  OBVIOUS
  <2> QED  BY <2>1, DrawsAre
<1>5. d[1] = e[1]  BY <1>4
<1>6. ASSUME NEW k \in 1..n  PROVE d[k] = e[k]
  <2>1. k = 1 \/ k > 1  OBVIOUS
  <2> QED  BY <1>3, <1>4, <1>5, <2>1
<1>7. d \in [1..n -> 1..n] /\ e \in [1..n -> 1..n]  BY DrawsAre
<1> QED  BY <1>6, <1>7

\* What is drawn for the places up to k changes nothing of the string before.
LEMMA PermutedOfSame ==
  ASSUME NEW n \in Nat \ {0}, NEW d \in Draws(n), NEW e \in Draws(n), NEW k \in 1..n,
         \A l \in 1..n : l > k => d[l] = e[l]
  PROVE  Permuted(n, d, k) = Permuted(n, e, k)
<1> DEFINE T == {m \in 1..n : m >= k => Permuted(n, d, m) = Permuted(n, e, m)}
<1>1. n \in T  BY PermutedIs
<1>2. ASSUME NEW m \in 2..n, m \in T  PROVE m - 1 \in T
  <2>1. SUFFICES ASSUME m - 1 >= k  PROVE Permuted(n, d, m - 1) = Permuted(n, e, m - 1)  OBVIOUS
  <2>2. m \in 1..n /\ m > k /\ m >= k  BY <2>1
  <2>3. d[m] = e[m] /\ Permuted(n, d, m) = Permuted(n, e, m)  BY <1>2, <2>2
  <2>4. Permuted(n, d, m - 1) = Swapped(Permuted(n, d, m), m, d[m])  BY PermutedIs
  <2>5. Permuted(n, e, m - 1) = Swapped(Permuted(n, e, m), m, e[m])  BY PermutedIs
  <2> QED  BY <2>3, <2>4, <2>5
<1>3. \A m \in 1..n : m \in T
  <2> HIDE DEF T
  <2> QED  BY <1>1, <1>2, Downwards
<1> QED  BY <1>3

\* Each order is reached: the draw of a place is where its letter is, which is not behind it.
LEMMA PermutedOnto ==
  ASSUME NEW n \in Nat \ {0}, NEW f \in Bijection(1..n, 1..n)
  PROVE  \E d \in Draws(n) : Permuted(n, d, 1) = f
<1> DEFINE Reached(d, m) == \A l \in 1..n : l > m => Permuted(n, d, m)[l] = f[l]
           T == {m \in 1..n : \E d \in Draws(n) : Reached(d, m)}
<1>1. n \in T
  <2>1. [k \in 1..n |-> 1] \in Draws(n)  BY DEF Draws
  <2>2. PICK d \in Draws(n) : TRUE  BY <2>1
  <2>3. Reached(d, n) /\ n \in 1..n  OBVIOUS
  <2> QED  BY <2>3
<1>2. ASSUME NEW m \in 2..n, m \in T  PROVE m - 1 \in T
  <2>1. PICK d \in Draws(n) : Reached(d, m)  BY <1>2
  <2>2. m \in 1..n /\ m - 1 \in 1..n  OBVIOUS
  <2>3. PICK s : s = Permuted(n, d, m)  OBVIOUS
  <2>4. s \in [1..n -> 1..n] /\ \A w \in 1..n : \E v \in 1..n : s[v] = w
    <3>1. s \in Bijection(1..n, 1..n)  BY <2>2, <2>3, PermutedPermutes
    <3> QED  BY <3>1 DEF Bijection, Injection, Surjection
  <2>5. f \in [1..n -> 1..n] /\ \A u, v \in 1..n : f[u] = f[v] => u = v
    BY DEF Bijection, Injection, IsInjective
  <2>6. PICK p \in 1..n : s[p] = f[m]  BY <2>2, <2>4, <2>5
  <2>7. p <= m
    <3>1. SUFFICES ASSUME p > m  PROVE FALSE  OBVIOUS
    <3>2. s[p] = f[p]  BY <2>1, <2>3, <3>1
    <3>3. f[p] = f[m]  BY <2>6, <3>2
    <3>4. p = m  BY <2>2, <2>5, <3>3
    <3> QED  BY <2>2, <3>1, <3>4
  <2>8. PICK e : e = [d EXCEPT ![m] = p]  OBVIOUS
  <2>9. e \in Draws(n) /\ e[m] = p /\ \A l \in 1..n : l > m => d[l] = e[l]
    <3>1. d \in [1..n -> 1..n] /\ \A k \in 1..n : d[k] \in 1..n /\ d[k] <= k  BY DrawsAre
    <3>2. e \in [1..n -> 1..n] /\ e[m] = p /\ \A l \in 1..n : l # m => e[l] = d[l]
      BY <2>2, <2>8, <3>1
    <3>3. \A k \in 1..n : e[k] <= k  BY <2>2, <2>7, <3>1, <3>2
    <3>4. e \in Draws(n)  BY <3>2, <3>3 DEF Draws
    <3>5. \A l \in 1..n : l > m => l # m  BY <2>2
    <3> QED  BY <3>2, <3>4, <3>5
  <2>10. Permuted(n, e, m) = s  BY <2>2, <2>3, <2>9, PermutedOfSame
  <2>11. /\ Permuted(n, e, m - 1)[m] = Permuted(n, e, m)[e[m]]
         /\ \A l \in 1..n : l > m => Permuted(n, e, m - 1)[l] = Permuted(n, e, m)[l]
    BY <2>9, PermutedStep
  <2>12. ASSUME NEW l \in 1..n, l > m - 1  PROVE Permuted(n, e, m - 1)[l] = f[l]
    <3>1. CASE l = m  BY <2>6, <2>9, <2>10, <2>11, <3>1
    <3>2. CASE l > m  BY <2>1, <2>3, <2>10, <2>11, <3>2
    <3> QED  BY <2>12, <3>1, <3>2
  <2> QED  BY <2>2, <2>9, <2>12
<1>3. \A m \in 1..n : m \in T
  <2> HIDE DEF T
  <2> QED  BY <1>1, <1>2, Downwards
<1>4. 1 \in 1..n  OBVIOUS
<1>5. PICK d \in Draws(n) : Reached(d, 1)  BY <1>3, <1>4
<1>6. PICK s : s = Permuted(n, d, 1)  OBVIOUS
<1>7. /\ s \in [1..n -> 1..n]
      /\ \A u, v \in 1..n : s[u] = s[v] => u = v
  <2>1. s \in Bijection(1..n, 1..n)  BY <1>4, <1>6, PermutedPermutes
  <2> QED  BY <2>1 DEF Bijection, Injection, IsInjective
<1>8. f \in [1..n -> 1..n] /\ \A w \in 1..n : \E v \in 1..n : f[v] = w
  BY DEF Bijection, Injection, Surjection
<1>9. s[1] = f[1]
  <2>1. PICK v \in 1..n : f[v] = s[1]  BY <1>4, <1>7, <1>8
  <2>2. CASE v = 1  BY <2>1, <2>2
  <2>3. CASE v > 1
    <3>1. s[v] = s[1]  BY <1>5, <1>6, <2>1, <2>3
    <3> QED  BY <1>4, <1>7, <2>3, <3>1
  <2> QED  BY <2>2, <2>3
<1>10. ASSUME NEW l \in 1..n  PROVE s[l] = f[l]
  <2>1. l = 1 \/ l > 1  OBVIOUS
  <2> QED  BY <1>5, <1>6, <1>9, <2>1
<1>11. s = f  BY <1>7, <1>8, <1>10
<1> QED  BY <1>6, <1>11

LEMMA PermuteHolds == NonceInv => PermuteIsUniform
<1> SUFFICES ASSUME NonceInv  PROVE PermuteIsUniform  OBVIOUS
<1>1. PICK n \in Nat \ {0} : n = randBound
  <2>1. randBound \in 1..RandMax  BY DEF NonceInv
  <2> QED  BY <2>1
<1>2. {Permuted(n, d, 1) : d \in Draws(n)} = Bijection(1..n, 1..n)
  <2>1. 1 \in 1..n  OBVIOUS
  <2>2. \A d \in Draws(n) : Permuted(n, d, 1) \in Bijection(1..n, 1..n)  BY <2>1, PermutedPermutes
  <2>3. \A f \in Bijection(1..n, 1..n) : \E d \in Draws(n) : Permuted(n, d, 1) = f  BY PermutedOnto
  <2> QED  BY <2>2, <2>3
<1>3. \A d, e \in Draws(n) : Permuted(n, d, 1) = Permuted(n, e, 1) => d = e  BY PermutedOneToOne
<1> QED  BY <1>1, <1>2, <1>3 DEF PermuteIsUniform

\* NoncesAreStandard (Nonce): the nonces of both libraries are those of RFC 6979 although
\* uECC hashes in a buffer that it overwrites, and neither a random number nor the order
\* of random_permute is likelier than another one, for every word and bound.
THEOREM NoncesAreStandardHolds == NonceSpec => []NoncesAreStandard
<1> USE NonceAssumption
<1>1. NonceInit => NonceInv  BY NonceStart
<1>2. NonceInv /\ [NonceNext]_nonceVars => NonceInv'  BY NonceStep
<1>3. NonceInv => NoncesAreStandard
  BY NonceInvFollows, UniformHolds, PermuteHolds DEF NoncesAreStandard, RandomIsUniform
<1> QED  BY <1>1, <1>2, <1>3, PTL DEF NonceSpec
=============================================================================
