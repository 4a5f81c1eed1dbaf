------------------------------ MODULE ClearSign ------------------------------
(***************************************************************************)
(* epoint_sign (clear.c, cbio.c): a document is read line by line through  *)
(* a callback, hashed in its canonical form, written dash-escaped through  *)
(* another callback, and followed by an armored signature packet.          *)
(*                                                                         *)
(* The texts around the lines and the armor are one symbol each (Header,   *)
(* Signature); the armor itself is specified in Armor.  The hash is the    *)
(* sequence of the bytes written into it, and its first two bytes, the     *)
(* signature numbers and the fingerprint are constants.                    *)
(***************************************************************************)
EXTENDS Integers, Sequences, SequencesExt

CONSTANTS DocAlphabet,  \* the characters of documents
          MaxDoc,       \* bound: length of a document
          LineLen,      \* lineLen: room for a line and its '\0'
          OutRoom,      \* set of sizes of the output buffer
          Fingerprint,  \* the 20 bytes of the key's fingerprint
          Mpis          \* the bytes of the two numbers of the signature

\* Characters and bytes are unsigned; a signature packet of more than 250 bytes is
\* refused.
ASSUME SignAssumption ==
  /\ DocAlphabet \subseteq 0..255 /\ LineLen \in Nat \ {0} /\ OutRoom \subseteq Nat
  /\ Fingerprint \in Seq(0..255) /\ Len(Fingerprint) = 20
  /\ Mpis \in Seq(0..255) /\ Len(Mpis) <= 224
  /\ MaxDoc \in Nat

VARIABLES doc,       \* the document
          docPos,    \* how much of it has been read
          hashed,    \* what has been written into the hash
          clear,     \* what has been written to the output
          room,      \* how much the output takes
          packet,    \* the signature packet
          signState  \* "start", "lines", "done" or "failed"

signVars == <<doc, docPos, hashed, clear, room, packet, signState>>

Lf == 10
Cr == 13
Dash == 45
Blank == 32
Header == -1      \* "-----BEGIN PGP SIGNED MESSAGE-----", "Hash: SHA1", ""
Signature == -2   \* "-----BEGIN PGP SIGNATURE-----" up to the end

----------------------------------------------------------------------------
\* cbgets: up to n - 1 characters, and no further than the end of the line.
CbGets(n) ==
  LET rest == SubSeq(doc, docPos + 1, Len(doc))
      most == IF n - 1 < Len(rest) THEN n - 1 ELSE Len(rest)
      got == CHOOSE k \in 0..most : /\ k < most => k > 0 /\ rest[k] = Lf
                                    /\ \A j \in 1..(k - 1) : rest[j] # Lf
  IN SubSeq(rest, 1, got)

\* A C string ends at its first '\0'.
CString(s) ==
  SubSeq(s, 1, CHOOSE k \in 0..Len(s) : /\ k < Len(s) => s[k + 1] = 0
                                        /\ \A j \in 1..k : s[j] # 0)

\* The line without the white space at its end.
Trimmed(line, white) ==
  SubSeq(line, 1, CHOOSE k \in 0..Len(line) : /\ k > 0 => line[k] \notin white
                                              /\ \A j \in (k + 1)..Len(line) : line[j] \in white)

\* Mutant of CanonLine: only the end of the line is replaced.
CanonLineKeepsBlanks(s) == SelectSeq(CString(s), LAMBDA c : c # Lf) \o <<Cr, Lf>>

\* canonline: white space at the end becomes CR LF.
CanonLine(s) == Trimmed(CString(s), {Blank, 9, Cr, Lf}) \o <<Cr, Lf>>

\* Mutant of DashEscLine: lines that begin with a dash are written as they are.
DashEscLineNot(canon) == SubSeq(canon, 1, Len(canon) - 2) \o <<Lf>>

\* dashescline: CR LF becomes LF, and a dash at the beginning is escaped.
DashEscLine(canon) ==
  LET line == SubSeq(canon, 1, Len(canon) - 2) \o <<Lf>>
  IN IF line[1] = Dash THEN <<Dash, Blank>> \o line ELSE line

\* cbputs into the output buffer: as much as there is room for.
CbPuts(s) ==
  LET free == room - Len(clear)
  IN clear \o (IF Len(s) <= free THEN s ELSE SubSeq(s, 1, free))
Fits(s) == Len(clear) + Len(s) <= room

----------------------------------------------------------------------------
\* The hashed part of the packet: version 4, text, DSA, SHA1, creation time 0.
PacketHead == <<4, 1, 17, 2, 0, 6, 5, 2, 0, 0, 0, 0>>

\* "extra mess going into the hash"
HashTrailer == PacketHead \o <<4, 255, 0, 0, 0, 12>>

\* Mutant of PacketBody: the issuer is the first half of the fingerprint.
PacketBodyFirstBytes(h) ==
  PacketHead \o <<0, 10, 9, 16>> \o SubSeq(Fingerprint, 1, 8) \o SubSeq(h, 1, 2) \o Mpis

\* The unhashed part: the issuer's key id, two bytes of the hash, the signature.
PacketBody(h) ==
  PacketHead \o <<0, 10, 9, 16>> \o SubSeq(Fingerprint, 13, 20) \o SubSeq(h, 1, 2) \o Mpis

----------------------------------------------------------------------------
SignInit ==
  /\ doc \in BoundedSeq(DocAlphabet, MaxDoc)
  /\ docPos = 0
  /\ hashed = <<>> /\ clear = <<>> /\ packet = <<>>
  /\ room \in OutRoom
  /\ signState = "start"

SignHeader ==
  /\ signState = "start"
  /\ clear' = CbPuts(<<Header>>)
  /\ signState' = "lines"
  /\ UNCHANGED <<doc, docPos, hashed, room, packet>>

\* One turn of the loop; that the line does not fit is not noticed.
SignLine ==
  /\ signState = "lines"
  /\ LET line == CbGets(LineLen)
         canon == CanonLine(line)
     IN /\ line # <<>>
        /\ docPos' = docPos + Len(line)
        /\ hashed' = hashed \o canon
        /\ clear' = CbPuts(DashEscLine(canon))
  /\ UNCHANGED <<doc, room, packet, signState>>

\* The end of the document: the hash is finished and signed.
SignEnd ==
  /\ signState = "lines"
  /\ docPos = Len(doc)
  /\ IF Fits(<<Lf>>)
     THEN LET body == PacketBody(<<1, 2>>)
          IN /\ hashed' = hashed \o HashTrailer
             /\ packet' = <<136, Len(body)>> \o body       \* 0x88
             /\ clear' = CbPuts(<<Lf, Signature>>)
             /\ signState' = IF Fits(<<Lf, Signature>>) THEN "done" ELSE "failed"
     ELSE signState' = "failed" /\ UNCHANGED <<hashed, packet, clear>>
  /\ UNCHANGED <<doc, docPos, room>>

SignNext == SignHeader \/ SignLine \/ SignEnd

SignSpec == SignInit /\ [][SignNext]_signVars

----------------------------------------------------------------------------
(* What a reader of a signed message does (RFC 4880, 5.2.4 and 7).          *)

\* The text goes on with a character.
AddChar(lines, c) ==
  IF c = Lf THEN Append(lines, <<>>) ELSE [lines EXCEPT ![Len(lines)] = Append(@, c)]

SplitLines(s) ==
  LET upto[k \in 0..Len(s)] == IF k = 0 THEN <<<<>>>> ELSE AddChar(upto[k - 1], s[k])
  IN upto[Len(s)]

Unescaped(line) ==
  IF IsPrefix(<<Dash, Blank>>, line) THEN SubSeq(line, 3, Len(line)) ELSE line

Joined(lines) ==
  LET upto[k \in 0..Len(lines)] ==
        IF k = 0 THEN <<>>
        ELSE (IF k = 1 THEN <<>> ELSE upto[k - 1] \o <<Cr, Lf>>) \o lines[k]
  IN upto[Len(lines)]

\* The text that is signed, between the header and the last line feed before the
\* signature.
SignedText(msg) == SubSeq(msg, 2, Len(msg) - 2)

\* Its lines as a reader sees them.
ReadLines(text) ==
  LET lines == SplitLines(text) IN [k \in DOMAIN lines |-> Unescaped(lines[k])]

\* What a reader puts into the hash: blanks at the end of a line do not count.
Canonical(text) ==
  LET lines == ReadLines(text)
  IN Joined([k \in DOMAIN lines |-> Trimmed(lines[k], {Blank, 9})])

\* The trailer that a reader computes from the packet.
TrailerOf(pkt) ==
  LET n == 6 + 256 * pkt[7] + pkt[8]
  IN SubSeq(pkt, 3, 2 + n) \o <<4, 255, 0, 0, n \div 256, n % 256>>

\* The signature of every message that is written completely is one of the text
\* that the reader extracts from it: escaping, splitting of long lines, blanks
\* at the end of lines and a missing last line feed make no difference.
ReaderHashesTheSame ==
  signState = "done" => hashed = Canonical(SignedText(clear)) \o TrailerOf(packet)

\* The lines of a document without the white space at their ends; the last line
\* need not end with a line feed.
LinesOf(text) ==
  LET lines == SplitLines(text)
      all == IF Last(lines) = <<>> THEN Front(lines) ELSE lines
  IN [k \in DOMAIN all |-> Trimmed(all[k], {Blank, 9, Cr})]

\* No line is longer than the buffer, or has a '\0' in it.
LinesFit ==
  LET lines == SplitLines(doc)
  IN \A k \in DOMAIN lines : Len(lines[k]) < LineLen - 1 /\ CString(lines[k]) = lines[k]

\* What is written is the document, line for line, when its lines fit.
TextIsKept ==
  signState = "done" /\ LinesFit => Front(ReadLines(SignedText(clear))) = LinesOf(doc)

\* The packet is what its length fields say, and names the key by the last
\* eight bytes of the fingerprint.
WellFormed(pkt) ==
  LET n == 256 * pkt[7] + pkt[8]                   \* hashed subpackets
      u == 256 * pkt[9 + n] + pkt[10 + n]          \* the other ones
  IN /\ pkt[2] = Len(pkt) - 2
     /\ pkt[9] + 1 = n /\ pkt[11 + n] + 1 = u
     /\ SubSeq(pkt, 13 + n, 10 + n + u) = SubSeq(Fingerprint, 13, 20)
     /\ SubSeq(pkt, 13 + n + u, Len(pkt)) = Mpis
PacketIsWellFormed == packet # <<>> => WellFormed(packet)

\* What is written is the document with a signature of it that a reader can check:
\* ReaderHashesTheSame, TextIsKept and PacketIsWellFormed (clearsign_buffer).
SignedTextIsReadable == ReaderHashesTheSame /\ TextIsKept /\ PacketIsWellFormed
=============================================================================
