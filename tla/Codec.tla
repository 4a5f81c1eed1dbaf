-------------------------------- MODULE Codec --------------------------------
(***************************************************************************)
(* The encoders that rands, keys, serial numbers and signatures go         *)
(* through: b16.c, b32.c, b64.c, hex.c and crc24.c.  A text is a sequence  *)
(* of bytes (0..255); characters are their ASCII codes, except that the    *)
(* digits of b16 and b32, which are never decoded, are their values.       *)
(* Every function gets the room its caller has, as in C, and says in its   *)
(* result what the C function returns.                                     *)
(***************************************************************************)
EXTENDS Integers, Sequences, SequencesExt, Bitwise

CONSTANTS Alphabet,   \* the bytes texts are made of
          MaxText     \* bound: length of a text

VARIABLE text         \* the text that is encoded, or decoded

Byte == 0..255

\* Results of the encoders and decoders: the bytes written, or why there are none.
Bytes(s) == [ret |-> Len(s), out |-> s]
Small == [ret |-> -2, out |-> <<>>]        \* the output buffer is too small
Invalid == [ret |-> -1, out |-> <<>>]      \* the input is not an encoding

----------------------------------------------------------------------------
(* Base 16 and base 32, with the digits 0..15 and 0..31.                    *)

B16Enc(in, room) ==
  IF room <= 2 * Len(in) THEN Small
  ELSE Bytes([k \in 1..(2 * Len(in)) |->
         LET c == in[(k + 1) \div 2] IN IF k % 2 = 1 THEN c \div 16 ELSE c % 16])

\* Mutant of B32Group: the second digit loses the bits of the first byte.
B32GroupMasked(b) ==
  << b[1] \div 8, b[2] \div 64, (b[2] \div 2) % 32,
     16 * (b[2] % 2) + b[3] \div 16, 2 * (b[3] % 16) + b[4] \div 128,
     (b[4] \div 4) % 32, 8 * (b[4] % 4) + b[5] \div 32, b[5] % 32 >>

\* Eight digits of five bytes.
B32Group(b) ==
  << b[1] \div 8, 4 * (b[1] % 8) + b[2] \div 64, (b[2] \div 2) % 32,
     16 * (b[2] % 2) + b[3] \div 16, 2 * (b[3] % 16) + b[4] \div 128,
     (b[4] \div 4) % 32, 8 * (b[4] % 4) + b[5] \div 32, b[5] % 32 >>

\* The last group has one to four bytes; the rest of it counts as zeros.
B32Enc(in, room) ==
  LET digits == (8 * Len(in) + 4) \div 5
      padded == in \o <<0, 0, 0, 0>>
      all[i \in 0..((Len(in) + 4) \div 5)] ==
        IF i = 0 THEN <<>>
        ELSE all[i - 1] \o B32Group(SubSeq(padded, 5 * i - 4, 5 * i))
  IN IF room <= digits THEN Small
     ELSE Bytes(SubSeq(all[(Len(in) + 4) \div 5], 1, digits))

----------------------------------------------------------------------------
(* Base 64.                                                                 *)

Equals == 61   \* "="
\* Classes of characters that are no digits.
WS == 253
END == 254
BAD == 255

\* tabenc
B64Char(v) ==
  CASE v <= 25 -> 65 + v [] v \in 26..51 -> 71 + v [] v \in 52..61 -> v - 4
    [] v = 62 -> 43 [] v = 63 -> 47

\* tabdec: a value, or one of three classes of other characters.
B64Value(c) ==
  CASE c \in 65..90 -> c - 65 [] c \in 97..122 -> c - 71 [] c \in 48..57 -> c + 4
    [] c = 43 -> 62 [] c = 47 -> 63
    [] c \in {9, 10, 13, 32} -> WS [] c \in {0, Equals} -> END [] OTHER -> BAD

\* The four characters of b24, a 24 bit number.
B64Quad(b24) ==
  << B64Char(b24 \div 2^18), B64Char((b24 \div 2^12) % 64),
     B64Char((b24 \div 64) % 64), B64Char(b24 % 64) >>

B64Enc(in, room) ==
  LET n == Len(in)
      padded == in \o <<0, 0>>
      b24(g) == 2^16 * padded[3 * g - 2] + 2^8 * padded[3 * g - 1] + padded[3 * g]
      groups == (n + 2) \div 3
      all[g \in 0..groups] == IF g = 0 THEN <<>> ELSE all[g - 1] \o B64Quad(b24(g))
      pads == (3 - (n % 3)) % 3
  IN IF \E g \in 1..groups : 4 * g >= room THEN Small
     ELSE Bytes([k \in 1..(4 * groups) |->
                  IF k > 4 * groups - pads THEN Equals ELSE all[groups][k]])

\* One character of b64dec's loop: i characters of a group are in b24.
B64DecStep(s, c) ==
  LET v == B64Value(c)
  IN IF s.halt # "no" \/ v = WS THEN s
     ELSE IF v = END THEN [s EXCEPT !.halt = "end"]
     ELSE IF v = BAD THEN [s EXCEPT !.halt = "bad"]
     ELSE CASE s.i = 0 -> [s EXCEPT !.b24 = v * 2^18, !.i = 1]
            [] s.i = 1 -> [s EXCEPT !.b24 = @ + v * 2^12, !.i = 2]
            [] s.i = 2 -> [s EXCEPT !.b24 = @ + v * 2^6, !.i = 3]
            [] s.i = 3 /\ Len(s.out) + 3 > s.room -> [s EXCEPT !.halt = "small"]
            [] OTHER -> LET b == s.b24 + v
                        IN [s EXCEPT !.i = 0,
                              !.out = @ \o << b \div 2^16, (b \div 2^8) % 256, b % 256 >>]

\* Mutant of B64DecRest: one byte less.
B64DecRestShort(s) == IF s.i = 3 THEN <<s.b24 \div 2^16>> ELSE <<>>

\* What is left in b24 after the last character.
B64DecRest(s) ==
  CASE s.i = 2 -> <<s.b24 \div 2^16>>
    [] s.i = 3 -> <<s.b24 \div 2^16, (s.b24 \div 2^8) % 256>>
    [] OTHER -> <<>>

\* Mutant of B64Dec: the room is not checked for the last, incomplete group.
B64DecUnchecked(in, room) ==
  LET s == FoldLeft(B64DecStep, [b24 |-> 0, i |-> 0, out |-> <<>>, room |-> room, halt |-> "no"], in)
  IN IF s.halt = "bad" \/ s.i = 1 THEN Invalid
     ELSE IF s.halt = "small" THEN Small
     ELSE Bytes(s.out \o B64DecRest(s))

B64Dec(in, room) ==
  LET s == FoldLeft(B64DecStep, [b24 |-> 0, i |-> 0, out |-> <<>>, room |-> room, halt |-> "no"], in)
      rest == B64DecRest(s)
  IN IF s.halt = "bad" THEN Invalid
     ELSE IF s.halt = "small" THEN Small
     ELSE IF s.i = 1 THEN Invalid
     ELSE IF Len(s.out) + Len(rest) > room THEN Small
     ELSE Bytes(s.out \o rest)

B64Len(n) == 4 * ((n + 2) \div 3)
B64DecLen(n) == 3 * ((n + 3) \div 4)

\* lua_b64decode: room for 3 * (n / 4) + 2 bytes.  The result is kept in a
\* size_t, which is never negative: an error counts as a huge length.
LuaB64Decode(in) ==
  LET r == B64Dec(in, 3 * (Len(in) \div 4) + 2)
  IN IF r.ret < 0 THEN [error |-> FALSE, out |-> "garbage"]
     ELSE [error |-> FALSE, out |-> r.out]

----------------------------------------------------------------------------
(* Hexadecimal numbers, as far as the output has room.                      *)

HexDigit(c) ==
  CASE c \in 48..57 -> c - 48 [] c \in 65..70 -> c - 55 [] c \in 97..102 -> c - 87
    [] OTHER -> -1

HexChar(v) == IF v < 10 THEN 48 + v ELSE 55 + v

\* Mutant of HexDecode: a digit that has lost its partner is decoded as well.
HexDecodeOdd(in, room) ==
  LET padded == IF Len(in) % 2 = 1 THEN Append(in, 48) ELSE in
      good(w) == HexDigit(padded[2 * w - 1]) >= 0 /\ HexDigit(padded[2 * w]) >= 0
      most == IF room < Len(padded) \div 2 THEN room ELSE Len(padded) \div 2
      n[w \in 0..most] == IF w = most THEN w ELSE IF good(w + 1) THEN n[w + 1] ELSE w
  IN [w \in 1..n[0] |-> 16 * HexDigit(padded[2 * w - 1]) + HexDigit(padded[2 * w])]

\* Whole pairs up to the first one that is not hexadecimal.
HexDecode(in, room) ==
  LET good(w) == HexDigit(in[2 * w - 1]) >= 0 /\ HexDigit(in[2 * w]) >= 0
      pairs == Len(in) \div 2
      most == IF room < pairs THEN room ELSE pairs
      n[w \in 0..most] == IF w = most THEN w ELSE IF good(w + 1) THEN n[w + 1] ELSE w
  IN [w \in 1..n[0] |-> 16 * HexDigit(in[2 * w - 1]) + HexDigit(in[2 * w])]

\* Whole bytes only; the '\0' behind them is written when there is room.
HexEncode(in, room) ==
  LET n == IF room \div 2 < Len(in) THEN room \div 2 ELSE Len(in)
  IN [k \in 1..(2 * n) |->
        HexChar(IF k % 2 = 1 THEN in[(k + 1) \div 2] \div 16 ELSE in[k \div 2] % 16)]

----------------------------------------------------------------------------
(* CRC-24.                                                                  *)

Crc24Init == 11994318   \* 0xb704ce
Crc24Poly == 25578747   \* 0x1864cfb

\* Mutant of CrcBit: the bit that was shifted out is not looked at.
CrcBitUnchecked(crc) == (2 * crc) % 2^24

CrcBit(crc) == IF 2 * crc >= 2^24 THEN (2 * crc) ^^ Crc24Poly ELSE 2 * crc

Crc24Update(crc, data) ==
  LET byte(c, b) ==
        LET bit[j \in 0..8] == IF j = 0 THEN c ^^ (b * 2^16) ELSE CrcBit(bit[j - 1])
        IN bit[8]
  IN FoldLeft(byte, crc, data)

Crc24Bytes(crc) == <<crc \div 2^16, (crc \div 2^8) % 256, crc % 256>>

----------------------------------------------------------------------------
CodecInit == text = <<>>

\* The text gets one more byte.
Type(c) == Len(text) < MaxText /\ text' = Append(text, c)

CodecNext == \E c \in Alphabet : Type(c)

----------------------------------------------------------------------------
\* The bits of digits of w bits each.
BitsOf(s, w) ==
  [k \in 1..(w * Len(s)) |->
     (s[(k - 1) \div w + 1] \div 2^(w - 1 - ((k - 1) % w))) % 2]

\* Base 16 and base 32 keep every bit of a serial number or rand, in order, and
\* fill the last digit with zeros (b16enc, b32enc).
DigitsKeepBits ==
  \A w \in {4, 5} :
    LET enc == IF w = 4 THEN B16Enc(text, 100) ELSE B32Enc(text, 100)
        bits == BitsOf(enc.out, w)
        n == 8 * Len(text)
    IN /\ Len(bits) >= n /\ Len(bits) < n + w
       /\ SubSeq(bits, 1, n) = BitsOf(text, 8)
       /\ \A k \in (n + 1)..Len(bits) : bits[k] = 0

\* What b64enc writes b64dec reads back, and neither needs more room than
\* B64LEN and B64DECLEN say (b64.h:6, b64.h:12).
B64RoundTrip ==
  LET n == Len(text)
      enc == B64Enc(text, B64Len(n) + 1)
  IN /\ enc.ret = B64Len(n)
     /\ B64Dec(enc.out, B64DecLen(enc.ret)) = Bytes(text)
     /\ B64Dec(enc.out, n) = Bytes(text)

\* Whatever is decoded into whatever room, the answer is the one b64dec gives
\* with plenty of room, or "too small", and then it really does not fit.
B64RoomIsKept ==
  \A room \in 0..(MaxText + 1) :
    LET r == B64Dec(text, room)
        full == B64Dec(text, 2 * MaxText)
    IN /\ r.ret <= room
       /\ r = full \/ (r = Small /\ (full = Invalid \/ full.ret > room))
       /\ room >= B64DecLen(Len(text)) => r = full

\* A hexadecimal text that was cut short by its buffer still decodes to a
\* beginning of what was encoded (hexencode, hexdecode).
HexPrefix ==
  LET enc == HexEncode(text, 2 * Len(text))
  IN /\ \A cut \in 0..Len(enc) :
          HexDecode(SubSeq(enc, 1, cut), MaxText) = SubSeq(text, 1, cut \div 2)
     /\ \A room \in 0..Len(enc) :
          HexEncode(text, room) = SubSeq(enc, 1, 2 * (room \div 2))

\* crc24 finds damage: a text with a burst of wrong bits in up to three bytes has
\* another crc, wherever it is, and the crc of a text in parts is the crc of the
\* whole, which is how armor() computes it.
CrcFindsDamage ==
  LET crc == Crc24Update(Crc24Init, text)
      damaged(k, n) ==
        [i \in DOMAIN text |-> IF i \in k..(k + n - 1) THEN text[i] ^^ 129 ELSE text[i]]
  IN /\ \A n \in {1, 3} : \A k \in 1..(Len(text) - n + 1) :
          Crc24Update(Crc24Init, damaged(k, n)) # crc
     /\ text # <<>> =>
          Crc24Update(Crc24Update(Crc24Init, Front(text)), <<Last(text)>>) = crc
=============================================================================
