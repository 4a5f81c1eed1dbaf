------------------------------- MODULE Base58 -------------------------------
(***************************************************************************)
(* base58.c: addresses, keys in WIF and extended keys as text, with a      *)
(* checksum, and back.                                                     *)
(*                                                                         *)
(* Bytes have B58Bytes values and digits B58Digits (256 and 58 in the      *)
(* code); a word of b58tobin has two bytes (four).  The checksum, a double *)
(* SHA-256, is an external function of one byte (four).                    *)
(***************************************************************************)
EXTENDS Integers, Sequences, SequencesExt

CONSTANTS B58Bytes, B58Digits,  \* values of a byte and of a digit
          B58Values,            \* bound: the bytes that are encoded
          B58MaxData,           \* bound: bytes of data
          B58MaxText,           \* bound: digits that are decoded
          B58Sizes              \* bound: sizes of the buffers

ASSUME B58Assumption == B58Values \subseteq 0..B58Bytes - 1 /\ B58Digits < B58Bytes

VARIABLES b58Data, b58Text      \* bytes to encode, digits to decode
b58Vars == <<b58Data, b58Text>>

\* A character that is no digit (or has its high bit set), and the digit '1'.
NoDigit == -1
B58Zero == 0

\* sha256_Raw twice, of which the first four bytes are used (external).
B58Check(data) ==
  (FoldLeft(LAMBDA acc, b : 5 * acc + b + 3, 7, data)) % B58Bytes

LeadingOf(c, s) ==
  CHOOSE n \in 0..Len(s) : (\A i \in 1..n : s[i] = c) /\ (n = Len(s) \/ s[n + 1] # c)

----------------------------------------------------------------------------
\* Mutant of B58Room: one digit too few for a number that fills its bytes.
B58RoomShort(n) == (n * 125) \div 100

\* size in b58enc: log(256)/log(58), rounded up.
B58Room(n) == ((n * 138) \div 100) + 1

\* The inner loop of b58enc: buf * 256 + byte, from the last digit, while there is a carry
\* or digits that are in use; buf[j] before the first one is not written.
RECURSIVE B58Carry(_, _, _, _)
B58Carry(buf, carry, j, high) ==
  IF j = 0 \/ ~(j > high \/ carry # 0) THEN [buf |-> buf, high |-> j]
  ELSE LET c == carry + B58Bytes * buf[j]
       IN B58Carry([buf EXCEPT ![j] = c % B58Digits], c \div B58Digits, j - 1, high)

RECURSIVE B58Digested(_, _, _)
B58Digested(buf, high, bytes) ==
  IF bytes = <<>> THEN buf
  ELSE LET turn == B58Carry(buf, bytes[1], Len(buf), high)
       IN B58Digested(turn.buf, turn.high, Tail(bytes))

\* b58enc: the digits, or <<>> when the text and its NUL do not fit into room characters.
B58Enc(bytes, room) ==
  LET zeros == LeadingOf(0, bytes)
      size == B58Room(Len(bytes) - zeros)
      digits == B58Digested([i \in 1..size |-> 0], size, SubSeq(bytes, zeros + 1, Len(bytes)))
      text == [i \in 1..zeros |-> B58Zero] \o SubSeq(digits, LeadingOf(0, digits) + 1, size)
  IN IF room <= Len(text) THEN <<>> ELSE text

\* base58_encode_check
EncodeCheck(data, room) == B58Enc(data \o <<B58Check(data)>>, room)

----------------------------------------------------------------------------
\* Words of two bytes, the first one not filled when the size is odd.
WordBase == B58Bytes * B58Bytes

RECURSIVE B58Times(_, _, _)
B58Times(out, c, j) ==
  IF j = 0 THEN [out |-> out, carry |-> c]
  ELSE LET t == out[j] * B58Digits + c
       IN B58Times([out EXCEPT ![j] = t % WordBase], t \div WordBase, j - 1)

\* Mutant of TooBig: only a carry out of the last word counts.
TooBigForWords(t, binsz) == t.carry # 0

\* A carry out of the last word, or a byte that the buffer does not have (zeromask).
TooBig(t, binsz) == t.carry # 0 \/ (binsz % 2 = 1 /\ t.out[1] >= B58Bytes)

\* The words after every digit, or <<>> after a bad digit or one too many.
RECURSIVE B58Words(_, _, _)
B58Words(out, text, binsz) ==
  LET t == B58Times(out, text[1], Len(out))
  IN IF text = <<>> THEN out
     ELSE IF text[1] = NoDigit THEN <<>>
     ELSE IF TooBig(t, binsz) THEN <<>>
     ELSE B58Words(t.out, Tail(text), binsz)

B58Failed == [bin |-> <<>>, size |-> 0]

\* b58tobin: the bytes right aligned in binsz, and their canonical count with the
\* leading zeros.
B58ToBin(text, binsz) ==
  LET zeros == LeadingOf(B58Zero, text)
      out == B58Words([i \in 1..(binsz + 1) \div 2 |-> 0], SubSeq(text, zeros + 1, Len(text)), binsz)
      pairs == FlattenSeq([i \in DOMAIN out |-> <<out[i] \div B58Bytes, out[i] % B58Bytes>>])
      bin == SubSeq(pairs, Len(pairs) - binsz + 1, Len(pairs))
  IN IF out = <<>> THEN B58Failed
     ELSE [bin |-> bin, size |-> binsz - LeadingOf(0, bin) + zeros]

\* The end of b58check: as many '1' as zero bytes.
CanonicalZeros(bytes, text) ==
  LET same == CHOOSE n \in 0..Len(bytes) :
                /\ \A i \in 1..n : bytes[i] = 0 /\ i <= Len(text) /\ text[i] = B58Zero
                /\ n = Len(bytes) \/ ~(bytes[n + 1] = 0 /\ n < Len(text) /\ text[n + 1] = B58Zero)
      zeroAt(s, i, z) == i <= Len(s) /\ s[i] = z
  IN ~zeroAt(bytes, same + 1, 0) /\ ~zeroAt(text, same + 1, B58Zero)

\* base58_decode_check: <<>> when it fails.  More leading zeros than the buffer has room
\* for would make res exceed the buffer, and nd point before it: that has no result here.
NoResult == <<-1>>
DecodeCheck(text, datalen) ==
  LET d == B58ToBin(text, datalen + 1)
      nd == SubSeq(d.bin, Len(d.bin) - d.size + 1, Len(d.bin))
      data == SubSeq(nd, 1, d.size - 1)
  IN IF d.size < 1 THEN <<>>
     ELSE IF d.size > datalen + 1 THEN NoResult
     ELSE IF nd[d.size] # B58Check(data) \/ ~CanonicalZeros(nd, text) THEN <<>>
     ELSE data

----------------------------------------------------------------------------
B58Init == b58Data = <<>> /\ b58Text = <<>>

B58AddByte ==
  /\ Len(b58Data) < B58MaxData /\ b58Text = <<>>
  /\ \E b \in B58Values : b58Data' = Append(b58Data, b)
  /\ UNCHANGED b58Text

B58AddDigit ==
  /\ Len(b58Text) < B58MaxText /\ b58Data = <<>>
  /\ \E d \in 0..B58Digits - 1 \union {NoDigit} :
       b58Text' = Append(b58Text, d)
  /\ UNCHANGED b58Data

B58Next == B58AddByte \/ B58AddDigit

----------------------------------------------------------------------------
\* Every sequence of bytes, with leading zeros or not, comes back from its text in a
\* buffer of its size, and the text is refused exactly when it and its NUL do not fit:
\* the digits that were set aside are enough.
TextComesBack ==
  \A size \in B58Sizes :
    LET text == EncodeCheck(b58Data, size)
        whole == EncodeCheck(b58Data, 100)
    IN /\ DecodeCheck(whole, Len(b58Data)) = b58Data
       /\ text = (IF Len(whole) < size THEN whole ELSE <<>>)

\* A text that decodes is the one text of its bytes: a digit too many, a '1' too many or a
\* number that is too big for the buffer is refused.
OnlyCanonicalDecodes ==
  \A size \in B58Sizes :
    LET data == DecodeCheck(b58Text, size)
    IN data \notin {<<>>, NoResult} => EncodeCheck(data, 100) = b58Text /\ Len(data) <= size

\* Data and texts correspond one to one (base58_encode_check, base58_decode_check).
Base58IsOneToOne == TextComesBack /\ OnlyCanonicalDecodes
=============================================================================
