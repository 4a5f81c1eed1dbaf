------------------------------- MODULE TextMC -------------------------------
(***************************************************************************)
(* What is encoded, hashed, signed and printed: eight components that do   *)
(* not interact, checked in one run.  part says which one takes steps; the *)
(* variables of the others keep one value.                                 *)
(***************************************************************************)
EXTENDS Armor, UrlDecode, ClearSign, Base58, Hash, Compression, BarCodes

VARIABLE part

textVars == <<part, text, urlVars, signVars, b58Vars, hashVars, cmpVars, qrVars, barVars>>

CodecIdle == text = <<>>
UrlIdle == /\ urlIn = <<>> /\ urlPos = 0 /\ urlEnd = 0 /\ urlOut = <<>> /\ urlAt = "1"
           /\ decoder = [state |-> "sym", sym |-> 0, out |-> <<>>]
SignIdle == /\ doc = <<>> /\ docPos = 0 /\ hashed = <<>> /\ clear = <<>> /\ room = 0
            /\ packet = <<>> /\ signState = "start"
B58Idle == b58Data = <<>> /\ b58Text = <<>>
HashIdle == hashKind = "ripemd160" /\ hashKey = -1 /\ HashInit
CmpIdle == cmpKind = "sha256" /\ cmpSeed = 0 /\ CmpInit
QrIdle == qrStage = "idle" /\ qrOpts = <<>> /\ qrLeft = <<>> /\ qrFiles = <<>>
BarIdle == barText = <<>> /\ barShape = <<>> /\ barPicture = <<>>

TextInit ==
  \/ part = "codec" /\ CodecInit /\ UrlIdle /\ SignIdle /\ B58Idle /\ HashIdle /\ CmpIdle /\ QrIdle /\ BarIdle
  \/ part = "url" /\ CodecIdle /\ UrlInit /\ SignIdle /\ B58Idle /\ HashIdle /\ CmpIdle /\ QrIdle /\ BarIdle
  \/ part = "sign" /\ CodecIdle /\ UrlIdle /\ SignInit /\ B58Idle /\ HashIdle /\ CmpIdle /\ QrIdle /\ BarIdle
  \/ part = "base58" /\ CodecIdle /\ UrlIdle /\ SignIdle /\ B58Init /\ HashIdle /\ CmpIdle /\ QrIdle /\ BarIdle
  \/ part = "hash" /\ CodecIdle /\ UrlIdle /\ SignIdle /\ B58Idle /\ HashInit /\ CmpIdle /\ QrIdle /\ BarIdle
  \/ /\ part = "compression"
     /\ CodecIdle /\ UrlIdle /\ SignIdle /\ B58Idle /\ HashIdle /\ CmpInit /\ QrIdle /\ BarIdle
  \/ part = "qr" /\ CodecIdle /\ UrlIdle /\ SignIdle /\ B58Idle /\ HashIdle /\ CmpIdle /\ QrInit /\ BarIdle
  \/ part = "bars" /\ CodecIdle /\ UrlIdle /\ SignIdle /\ B58Idle /\ HashIdle /\ CmpIdle /\ QrIdle /\ BarInit

TextNext ==
  /\ UNCHANGED part
  /\ \/ /\ part = "codec" /\ CodecNext
        /\ UNCHANGED <<urlVars, signVars, b58Vars, hashVars, cmpVars, qrVars, barVars>>
     \/ /\ part = "url" /\ UrlNext
        /\ UNCHANGED <<text, signVars, b58Vars, hashVars, cmpVars, qrVars, barVars>>
     \/ /\ part = "sign" /\ SignNext
        /\ UNCHANGED <<text, urlVars, b58Vars, hashVars, cmpVars, qrVars, barVars>>
     \/ /\ part = "base58" /\ B58Next
        /\ UNCHANGED <<text, urlVars, signVars, hashVars, cmpVars, qrVars, barVars>>
     \/ /\ part = "hash" /\ HashNext
        /\ UNCHANGED <<text, urlVars, signVars, b58Vars, cmpVars, qrVars, barVars>>
     \/ /\ part = "compression" /\ CmpNext
        /\ UNCHANGED <<text, urlVars, signVars, b58Vars, hashVars, qrVars, barVars>>
     \/ /\ part = "qr" /\ QrNext
        /\ UNCHANGED <<text, urlVars, signVars, b58Vars, hashVars, cmpVars, barVars>>
     \/ /\ part = "bars" /\ BarNext
        /\ UNCHANGED <<text, urlVars, signVars, b58Vars, hashVars, cmpVars, qrVars>>

TextSpec == TextInit /\ [][TextNext]_textVars

----------------------------------------------------------------------------
\* What an encoder writes its decoder reads back, in whatever room, and what is read is
\* refused or means one thing: base 16, 32 and 64, the crc, the armor and the packets
\* of a key (epoint/src).
EncodingsRoundTrip == part = "codec" => EncodingsAreReversible

\* A text of base 58 and its bytes are one to one, or one of them is refused (base58.c).
Base58RoundTrips == part = "base58" => Base58IsOneToOne

\* The pictures of both kinds of bar codes (qrenc, pngenc) show a reader what was
\* put into them, and the sizes that their files state are right.
CodesAreReadable == PictureIsTheCode /\ FileIsAsLongAsItSays /\ BarsAreReadable

----------------------------------------------------------------------------
(* Values of the constants.                                                 *)

\* A line feed, "=", "d" and a byte of ones.
TextBytes == {10, 61, 100, 255}
\* "%", "+", "4", "<", which is reserved, and "a".
UrlBytes == {37, 43, 52, 60, 97}
\* A zero, a line feed, a carriage return, a blank, a dash and "x".
DocBytes == {0, 10, 13, 32, 45, 120}
KeyFingerprint == [i \in 1..20 |-> i]
SignatureMpis == <<0, 1, 1, 0, 1, 1>>
MarginOptions == {-1, 0, 2}
VersionOptions == {-1, 1}
\* A code that the library could not make, and four squares.
Codes == {<<>>, <<<<0>>>>, <<<<1, 0>>, <<0, 0>>>>, <<<<1, 1>>, <<0, 1>>>>,
          <<<<1, 0, 0>>, <<1, 1, 0>>, <<0, 0, 0>>>>}
Names == {[base |-> "a", suffix |-> ".png"], [base |-> "a", suffix |-> ".bmp"]}
\* A tabulator and 200, which are not printed; a blank, "A", "a" and DEL.
BarBytes == {9, 32, 65, 97, 127, 200}
=============================================================================
