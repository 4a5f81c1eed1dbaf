-------------------------------- MODULE Armor --------------------------------
(***************************************************************************)
(* ASCII armor (armor.c) and the OpenPGP key packets that epoint_dsakey    *)
(* writes (dsakey.c), over the texts of Codec: a text is what is armored,  *)
(* and the secret number of a multiuse rand.                               *)
(*                                                                         *)
(* libgcrypt is external: numbers are naturals, in the group P, Q, G.      *)
(***************************************************************************)
EXTENDS Codec

CONSTANTS SrcLine,   \* bytes per line of an armored text, a multiple of 3
          P, Q, G    \* the DSA parameters

ASSUME SrcLineAssumption == SrcLine \in Nat \ {0} /\ SrcLine % 3 = 0

----------------------------------------------------------------------------
(* armor(): full lines, the incomplete one, and the line of the crc.        *)

\* Mutant of ArmorLines: a text that ends with a full line loses that line.
ArmorLinesShort(src) ==
  [k \in 1..(Len(src) \div SrcLine) |->
     SubSeq(src, (k - 1) * SrcLine + 1, k * SrcLine)]

\* The parts that the loop reads, encodes and adds to the crc one by one.
ArmorLines(src) ==
  LET last == (Len(src) + SrcLine - 1) \div SrcLine
  IN [k \in 1..last |->
        SubSeq(src, (k - 1) * SrcLine + 1,
               IF k = last THEN Len(src) ELSE k * SrcLine)]

\* The armored text: its lines without their line feeds.
ArmorText(src) ==
  LET parts == ArmorLines(src)
      crc == FoldLeft(Crc24Update, Crc24Init, parts)
  IN [lines |-> [k \in DOMAIN parts |-> B64Enc(parts[k], 1024).out],
      crc |-> <<Equals>> \o B64Enc(Crc24Bytes(crc), 5).out]

----------------------------------------------------------------------------
(* Numbers in OpenPGP packets.                                              *)

\* gcry_mpi_powm
PowMod(b, e, m) ==
  LET pow[k \in Nat] ==
        IF k = 0 THEN 1
        ELSE LET h == pow[k \div 2] IN ((h * h) % m * (IF k % 2 = 1 THEN b ELSE 1)) % m
  IN pow[e]

NumberOf(bytes) == FoldLeft(LAMBDA n, b : 256 * n + b, 0, bytes)

\* The bytes of a number, without leading zeros; and its length in bits.
BytesOf(m) ==
  LET b[k \in Nat] == IF k = 0 THEN <<>> ELSE Append(b[k \div 256], k % 256) IN b[m]
BitLength(m) ==
  LET n[k \in Nat] == IF k = 0 THEN 0 ELSE 1 + n[k \div 2] IN n[m]

TwoBytes(n) == <<(n \div 256) % 256, n % 256>>

\* Mutant of PutMpi: the length is in bytes.
PutMpiInBytes(m) == TwoBytes(Len(BytesOf(m))) \o BytesOf(m)

\* putpgpmpi
PutMpi(m) == TwoBytes(BitLength(m)) \o BytesOf(m)

\* getpgpmpi: the number at position i and the position behind it.
GetMpi(buf, i) ==
  LET n == (256 * buf[i] + buf[i + 1] + 7) \div 8
  IN [m |-> NumberOf(SubSeq(buf, i + 2, i + 1 + n)), next |-> i + 2 + n]

----------------------------------------------------------------------------
(* Keys.                                                                    *)

LowerD == 100   \* "d", the prefix of an old style multiuse rand
NewLine == 10
NoKey == [y |-> 0, x |-> 0]

\* Mutant of RandToKey: the line feed that fgets leaves is counted.
RandToKeyWithLf(rand) ==
  LET old == Len(rand) > 0 /\ rand[1] = LowerD /\ Len(rand) % 4 = 1
      x == B64Dec(IF old THEN Tail(rand) ELSE rand, 128)
  IN IF x.ret <= 0 THEN NoKey
     ELSE [y |-> PowMod(G, NumberOf(x.out), P), x |-> NumberOf(x.out)]

\* randtokey: the old style has one character more than base 64 can have.
RandToKey(rand) ==
  LET n == IF rand # <<>> /\ Last(rand) = NewLine THEN Len(rand) - 1 ELSE Len(rand)
      old == Len(rand) > 0 /\ rand[1] = LowerD /\ n % 4 = 1
      x == B64Dec(IF old THEN Tail(rand) ELSE rand, 128)
  IN IF x.ret <= 0 THEN NoKey
     ELSE [y |-> PowMod(G, NumberOf(x.out), P), x |-> NumberOf(x.out)]

\* putpubkey: version 4, no date, DSA.
PutPubKey(k) ==
  <<4, 0, 0, 0, 0, 17>> \o PutMpi(P) \o PutMpi(Q) \o PutMpi(G) \o PutMpi(k.y)

SumOf(bytes) == FoldLeft(LAMBDA s, b : s + b, 0, bytes)

\* putseckey: not encrypted, with a checksum of two bytes.
PutSecKey(k) == <<0>> \o PutMpi(k.x) \o TwoBytes(SumOf(PutMpi(k.x)))

Packet(tag, body) == <<tag>> \o TwoBytes(Len(body)) \o body
PubKeyPacket(k) == Packet(153, PutPubKey(k))                 \* 0x99
SecKeyPacket(k) == Packet(149, PutPubKey(k) \o PutSecKey(k)) \* 0x95

Died == [died |-> TRUE]

\* packettokey
PacketToKey(buf) ==
  LET p == GetMpi(buf, 10)
      q == GetMpi(buf, p.next)
      g == GetMpi(buf, q.next)
      y == GetMpi(buf, g.next)
      x == GetMpi(buf, y.next + 1)
  IN IF \/ Len(buf) < 9
        \/ buf[1] \notin {149, 153}
        \/ buf[4] # 4
        \/ buf[9] # 17
        \/ buf[1] = 149 /\ buf[y.next] # 0
     THEN Died
     ELSE [died |-> FALSE, p |-> p.m, q |-> q.m, g |-> g.m, y |-> y.m,
           x |-> IF buf[1] = 149 THEN x.m ELSE 0]

----------------------------------------------------------------------------
\* A reader of an armored text finds what was armored: no line is longer than
\* the others, the lines decode one after the other to the text, and its crc,
\* computed line by line, is the crc of the whole.
ArmorIsReadable ==
  LET a == ArmorText(text)
      all == FlattenSeq(a.lines)
  IN /\ \A k \in DOMAIN a.lines : Len(a.lines[k]) <= B64Len(SrcLine)
     /\ B64Dec(all, Len(text)) = Bytes(text)
     /\ B64Dec(Tail(a.crc), 3).out = Crc24Bytes(Crc24Update(Crc24Init, text))

\* The key of a rand is the same with and without the old style prefix and with
\* and without the line feed it was read with; a base 64 text that merely begins
\* with "d" is not taken for the old style (dsakey.c:7).
OldRandIsSameKey ==
  Len(text) \in 1..3 =>
    LET rand == B64Enc(text, 100).out
        x == NumberOf(text)
        key == [y |-> PowMod(G, x % Q, P), x |-> x]
    IN \A r \in {rand, <<LowerD>> \o rand} :
         RandToKey(r) = key /\ RandToKey(Append(r, NewLine)) = key

\* A packet is as long as its header says, and is read back as the key it was
\* written for; the checksum of a secret key is the sum of the number's bytes.
KeyPacketsRoundTrip ==
  Len(text) \in 1..3 =>
    LET k == RandToKey(B64Enc(text, 100).out)
        pub == PubKeyPacket(k)
        sec == SecKeyPacket(k)
        same(r, x) == r = [died |-> FALSE, p |-> P, q |-> Q, g |-> G, y |-> k.y, x |-> x]
    IN /\ same(PacketToKey(pub), 0)
       /\ same(PacketToKey(sec), k.x)
       /\ \A s \in {pub, sec} : 256 * s[2] + s[3] = Len(s) - 3
       /\ 256 * sec[Len(sec) - 1] + sec[Len(sec)]
            = SumOf(SubSeq(sec, Len(pub) + 2, Len(sec) - 2))

\* What an encoder of epoint/src writes its decoder reads back, in whatever room,
\* and what is read is refused or means one thing: base 16, 32 and 64, the crc, the
\* armor and the packets of a key.
EncodingsAreReversible ==
  /\ DigitsKeepBits /\ B64RoundTrip /\ B64RoomIsKept /\ HexPrefix /\ CrcFindsDamage
  /\ ArmorIsReadable /\ OldRandIsSameKey /\ KeyPacketsRoundTrip
=============================================================================
