------------------------------ MODULE UrlDecode ------------------------------
(***************************************************************************)
(* The command urldecode, through which the cgi scripts read their forms:  *)
(* it reads its input in chunks of whatever size read(2) returns, decodes  *)
(* each chunk in place, and keeps a state machine from one chunk to the    *)
(* next for an escape %XY that a chunk ends in.                            *)
(***************************************************************************)
EXTENDS Integers, Sequences, SequencesExt

CONSTANTS UrlAlphabet,   \* the characters the input is made of
          MaxUrl,        \* bound: length of the input
          ChunkSize      \* sizeof data

ASSUME UrlAssumption ==
  UrlAlphabet \subseteq Nat /\ MaxUrl \in Nat /\ ChunkSize \in Nat \ {0}

VARIABLES urlIn,    \* the input
          urlPos,   \* how much of it has been decoded
          urlEnd,   \* where the chunk in data ends
          decoder,  \* state, the digit after the % of an open escape, and out: what
                    \* the chunk has been decoded to
          urlOut,   \* what has been written
          urlAt     \* "read", "decode", or the exit status

urlVars == <<urlIn, urlPos, urlEnd, decoder, urlOut, urlAt>>

Percent == 37
Plus == 43
Space == 32

UrlDigit(c) ==
  CASE c \in 48..57 -> c - 48 [] c \in 65..70 -> c - 55 [] c \in 97..102 -> c - 87
    [] OTHER -> -1

\* Letters, digits and -_.~!*'();:@&=+$,/?%#[] (and '\0', which strchr finds).
IsUnreserved(c) ==
  c \in 65..90 \cup 97..122 \cup 48..57
        \cup {0, 33, 35, 36, 37, 38, 39, 40, 41, 42, 43, 44, 45, 46, 47, 58, 59,
              61, 63, 64, 91, 93, 95, 126}

Goto(d, state, sym) == [state |-> state, sym |-> sym, out |-> d.out]
Emit(d, c) == [state |-> "sym", sym |-> d.sym, out |-> Append(d.out, c)]
Refuse(d) == Goto(d, "refused", d.sym)

\* Mutant of UrlStep: an escape that is open at the end of a chunk may be
\* interrupted by a plus sign.
UrlStepLax(d, c) ==
  CASE c = Plus -> Emit(d, Space)
    [] d.state = "sym" /\ c = Percent -> Goto(d, "percent", d.sym)
    [] d.state = "percent" /\ c \notin {Percent, Plus} -> Goto(d, "digit", c)
    [] d.state = "digit" /\ UrlDigit(d.sym) >= 0 /\ UrlDigit(c) >= 0 ->
         Emit(d, 16 * UrlDigit(d.sym) + UrlDigit(c))
    [] d.state = "sym" /\ c \notin {Percent, Plus} /\ IsUnreserved(c) -> Emit(d, c)
    [] OTHER -> Refuse(d)

\* One character of urldecode's loop.
UrlStep(d, c) ==
  CASE d.state = "sym" /\ c = Percent -> Goto(d, "percent", d.sym)
    [] d.state = "sym" /\ c = Plus -> Emit(d, Space)
    [] d.state = "sym" /\ c \notin {Percent, Plus} /\ IsUnreserved(c) -> Emit(d, c)
    [] d.state = "percent" /\ c \notin {Percent, Plus} -> Goto(d, "digit", c)
    [] d.state = "digit" /\ UrlDigit(d.sym) >= 0 /\ UrlDigit(c) >= 0 ->
         Emit(d, 16 * UrlDigit(d.sym) + UrlDigit(c))
    [] OTHER -> Refuse(d)

----------------------------------------------------------------------------
UrlInit ==
  /\ urlIn \in BoundedSeq(UrlAlphabet, MaxUrl)
  /\ urlPos = 0 /\ urlEnd = 0
  /\ decoder = [state |-> "sym", sym |-> 0, out |-> <<>>]
  /\ urlOut = <<>>
  /\ urlAt = "read"

\* read(2) returns up to n bytes.
ReadChunk(n) ==
  /\ urlAt = "read"
  /\ n <= ChunkSize /\ urlPos + n <= Len(urlIn)
  /\ urlEnd' = urlPos + n
  /\ decoder' = [state |-> decoder.state, sym |-> decoder.sym, out |-> <<>>]
  /\ urlAt' = "decode"
  /\ UNCHANGED <<urlIn, urlPos, urlOut>>

\* read(2) returns 0 at the end of the input, or fails: main returns 0.
ReadEnds ==
  /\ urlAt = "read"
  /\ urlAt' = "0"
  /\ UNCHANGED <<urlIn, urlPos, urlEnd, decoder, urlOut>>

\* A turn of urldecode's loop; main returns 1 when it refuses the character.
DecodeChar ==
  /\ urlAt = "decode" /\ urlPos < urlEnd
  /\ decoder' = UrlStep(decoder, urlIn[urlPos + 1])
  /\ urlPos' = urlPos + 1
  /\ urlAt' = IF decoder'.state = "refused" THEN "1" ELSE "decode"
  /\ UNCHANGED <<urlIn, urlEnd, urlOut>>

\* What was decoded is written; main returns 1 when that is nothing.
WriteChunk ==
  /\ urlAt = "decode" /\ urlPos = urlEnd
  /\ urlOut' = urlOut \o decoder.out
  /\ urlAt' = IF decoder.out = <<>> THEN "1" ELSE "read"
  /\ UNCHANGED <<urlIn, urlPos, urlEnd, decoder>>

UrlNext == (\E n \in 1..MaxUrl : ReadChunk(n)) \/ ReadEnds \/ DecodeChar \/ WriteChunk

UrlSpec == UrlInit /\ [][UrlNext]_urlVars

----------------------------------------------------------------------------
\* What a text can mean: the characters it stands for, as far as it is good.  An
\* escape that is still open at the end stands for nothing.
Nothing(kind) == [kind |-> kind, out |-> <<>>]
Follows(c, meaning) == [kind |-> meaning.kind, out |-> <<c>> \o meaning.out]

\* An escape starts at i, of which the n-th character is the last, or a later one.
EscapeAt(s, n, i) == i + 2 <= n /\ UrlDigit(s[i + 1]) >= 0 /\ UrlDigit(s[i + 2]) >= 0
CutAt(s, n, i) == n < i + 2 /\ \A k \in (i + 1)..n : s[k] \notin {Percent, Plus}

\* What the first n characters of s mean from the i-th on, by what they mean from
\* the next one on and from behind an escape.
MeaningAt(s, n, i, next, behind) ==
  CASE i > n -> Nothing("whole")
    [] i <= n /\ s[i] = Percent /\ EscapeAt(s, n, i) ->
         Follows(16 * UrlDigit(s[i + 1]) + UrlDigit(s[i + 2]), behind)
    [] i <= n /\ s[i] = Percent /\ CutAt(s, n, i) -> Nothing("open")
    [] i <= n /\ s[i] = Plus -> Follows(Space, next)
    [] i <= n /\ s[i] \notin {Percent, Plus} /\ IsUnreserved(s[i]) -> Follows(s[i], next)
    [] OTHER -> Nothing("bad")

UrlParse(s, n) ==
  LET from[i \in 1..(n + 3)] == MeaningAt(s, n, i, from[i + 1], from[i + 3])
  IN  from

\* However the input is cut into chunks, what has been written is what the part
\* read so far means, and a text that means nothing is not accepted.  A text that
\* means something is refused only for a chunk in which no escape is completed.
UrlOutputIsMeaning ==
  LET meaning == UrlParse(urlIn, urlPos)[1]
  IN  /\ urlAt \in {"read", "0"} => meaning.kind # "bad" /\ urlOut = meaning.out
      /\ urlAt = "1" => meaning.kind = "bad" \/ decoder.out = <<>>

\* Where the escape starts that has not been completed, or else the next character.
OpenAt ==
  CASE decoder.state = "sym" -> urlPos + 1
    [] decoder.state = "percent" -> urlPos
    [] decoder.state = "digit" -> urlPos - 1
    [] OTHER -> urlPos

UrlTypeOK ==
  /\ urlIn \in Seq(UrlAlphabet)
  /\ urlPos \in Nat /\ urlEnd \in Nat /\ urlPos <= urlEnd /\ urlEnd <= Len(urlIn)
  /\ decoder \in [state : {"sym", "percent", "digit", "refused"}, sym : Nat, out : Seq(Nat)]
  /\ urlOut \in Seq(Nat)
  /\ urlAt \in {"read", "decode", "0", "1"}

\* What an open escape has been read of.
EscapeIsOpen ==
  /\ decoder.state = "percent" => urlPos >= 1 /\ urlIn[urlPos] = Percent
  /\ decoder.state = "digit" =>
       /\ urlPos >= 2 /\ urlIn[urlPos - 1] = Percent
       /\ urlIn[urlPos] = decoder.sym /\ decoder.sym \notin {Percent, Plus}

\* Whatever follows, the text means what has been decoded, and then what it means
\* from the open escape on.
DecodedSoFar ==
  LET out == IF urlAt = "decode" THEN urlOut \o decoder.out ELSE urlOut
  IN  urlAt \in {"read", "decode"} =>
        /\ decoder.state # "refused"
        /\ \A m \in urlPos..Len(urlIn) :
             LET parse == UrlParse(urlIn, m)
             IN  /\ parse[1].kind = parse[OpenAt].kind
                 /\ parse[1].out = out \o parse[OpenAt].out

\* The inductive invariant behind UrlOutputIsMeaning.
UrlInv == UrlTypeOK /\ EscapeIsOpen /\ DecodedSoFar /\ UrlOutputIsMeaning
=============================================================================
