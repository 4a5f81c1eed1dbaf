------------------------------ MODULE BarCodes ------------------------------
(***************************************************************************)
(* The two programs that draw bar codes.                                   *)
(*                                                                         *)
(* qrbmp (qrenc.c): the options are read one by one, the text is encoded,  *)
(* by the library libqrencode, as one code or as several structured ones,  *)
(* and every code is written as a picture in BMP format.  The library is   *)
(* external: it returns any square of dots, or fails.  A row of the        *)
(* picture is a sequence of bits, the first one on the left, as a BMP has  *)
(* them.  The options that only the library sees are left out.             *)
(*                                                                         *)
(* code128b (pngenc.c, code128font.c): the bar code of a text in code set  *)
(* B, lying or standing.  libpng is external: a picture is the sequence of *)
(* the rows it is given, and a row a sequence of pixels, 0 for black.      *)
(***************************************************************************)
EXTENDS Integers, Sequences, SequencesExt

CONSTANTS QrSizes, QrMargins, QrVersions,  \* numbers given as options
          QrCodes,     \* the codes the library may return, squares of 0 and 1
          QrNames,     \* file names, [base, suffix]
          QrMaxData,   \* MAX_DATA_SIZE
          QrInputs     \* lengths of the standard input

VARIABLES qrStage,   \* "options", "write", "done" or "failed"
          qrOpts,    \* the static variables that options set
          qrLeft,    \* the codes that have not been written
          qrFiles    \* the files written, [name, header, rows]

qrVars == <<qrStage, qrOpts, qrLeft, qrFiles>>

NoName == [base |-> "", suffix |-> ""]

QrInit ==
  /\ qrStage = "options"
  /\ qrOpts = [size |-> 3, margin |-> 4, version |-> 0, structured |-> FALSE,
               hint |-> "8", out |-> NoName]
  /\ qrLeft = <<>> /\ qrFiles = <<>>

----------------------------------------------------------------------------
(* main.                                                                    *)

\* An option with a number that must not be below low.
NumberOption(field, n, low) ==
  /\ qrStage = "options"
  /\ IF n < low
     THEN qrStage' = "failed" /\ UNCHANGED qrOpts
     ELSE qrOpts' = [qrOpts EXCEPT ![field] = n] /\ UNCHANGED qrStage
  /\ UNCHANGED <<qrLeft, qrFiles>>

OutputOption(name) ==
  /\ qrStage = "options" /\ qrOpts' = [qrOpts EXCEPT !.out = name]
  /\ UNCHANGED <<qrStage, qrLeft, qrFiles>>

\* The case of -S has no break: it sets what -k sets, too.
StructuredOption ==
  /\ qrStage = "options"
  /\ qrOpts' = [qrOpts EXCEPT !.structured = TRUE, !.hint = "kanji"]
  /\ UNCHANGED <<qrStage, qrLeft, qrFiles>>

KanjiOption ==
  /\ qrStage = "options" /\ qrOpts' = [qrOpts EXCEPT !.hint = "kanji"]
  /\ UNCHANGED <<qrStage, qrLeft, qrFiles>>

\* readStdin: fread sees the end of the input only if it is short of the buffer.
StdinIsTaken(n) == n > 0 /\ n < QrMaxData

\* After the options: the text is an argument (n = -1) or read from the input, and is
\* encoded as one code or several.
Encode(n, codes) ==
  /\ qrStage = "options"
  /\ IF \/ qrOpts.out = NoName
        \/ n # -1 /\ ~StdinIsTaken(n)
        \/ qrOpts.structured /\ qrOpts.version = 0
        \/ codes = <<>>
     THEN qrStage' = "failed" /\ UNCHANGED <<qrLeft>>
     ELSE /\ qrOpts.structured \/ Len(codes) = 1
          /\ qrLeft' = codes /\ qrStage' = "write"
  /\ UNCHANGED <<qrOpts, qrFiles>>

----------------------------------------------------------------------------
(* writeBMP.                                                                *)

\* write_int, lowest byte first.
WriteInt(v) == <<v % 256, (v \div 256) % 256, (v \div 65536) % 256, v \div 16777216>>

\* Mutant of Line: a row is a whole number of bytes.
LineOfBytes(w) == (w + 7) \div 8

\* line: the bytes of a row, a multiple of four.
Line(w) == 4 * ((w + 31) \div 32)

BmpHeader(w) ==
  <<66, 77>> \o WriteInt(Line(w) * w + 62) \o <<0, 0, 0, 0, 62, 0, 0, 0, 40, 0, 0, 0>>
    \o WriteInt(w) \o WriteInt(w) \o <<1, 0, 1, 0, 0, 0, 0, 0>> \o WriteInt(Line(w) * w)
    \o <<64, 31, 0, 0, 64, 31, 0, 0, 0, 0, 0, 0, 0, 0, 0, 0, 0, 0, 0, 0, 255, 255, 255, 0>>

RealWidth(code) == (Len(code) + 2 * qrOpts.margin) * qrOpts.size
WhiteRow(w) == [k \in 1..(8 * Line(w)) |-> 1]

\* The row of line y of the code: q and bit go from dot to dot, size bits each.
DotRow(code, y) ==
  [k \in 1..(8 * Line(RealWidth(code))) |->
     LET x == (k - 1 - qrOpts.margin * qrOpts.size) \div qrOpts.size
     IN IF x \in 0..(Len(code) - 1) THEN 1 - code[y][x + 1] ELSE 1]

\* Mutant of BmpRows: the rows from the top to the bottom.
BmpRowsDown(code) ==
  LET m == qrOpts.margin * qrOpts.size
      w == RealWidth(code)
  IN [r \in 1..w |-> IF r <= m \/ r > w - m THEN WhiteRow(w)
                     ELSE DotRow(code, 1 + (r - 1 - m) \div qrOpts.size)]

\* The bottom margin, the lines of the code from the last one to the first, size
\* rows each, and the top margin.
BmpRows(code) ==
  LET m == qrOpts.margin * qrOpts.size
      w == RealWidth(code)
  IN [r \in 1..w |-> IF r <= m \/ r > w - m THEN WhiteRow(w)
                     ELSE DotRow(code, Len(code) - (r - 1 - m) \div qrOpts.size)]

\* qrencodeStructured: the number of the symbol is put before a suffix ".png".
PartName(i) ==
  IF ~qrOpts.structured THEN <<qrOpts.out>>
  ELSE IF qrOpts.out.suffix = ".png"
       THEN <<qrOpts.out.base, i, ".png">>
       ELSE <<qrOpts.out, i>>

\* One code is written; one that the library could not make ends the program.
WriteCode ==
  /\ qrStage = "write" /\ qrLeft # <<>>
  /\ IF Head(qrLeft) = <<>>
     THEN qrStage' = "failed" /\ UNCHANGED <<qrLeft, qrFiles>>
     ELSE /\ qrFiles' = Append(qrFiles,
                          [name |-> PartName(Len(qrFiles) + 1), code |-> Head(qrLeft),
                           header |-> BmpHeader(RealWidth(Head(qrLeft))),
                           rows |-> BmpRows(Head(qrLeft))])
          /\ qrLeft' = Tail(qrLeft)
          /\ UNCHANGED qrStage
  /\ UNCHANGED <<qrOpts>>

QrDone ==
  /\ qrStage = "write" /\ qrLeft = <<>> /\ qrStage' = "done"
  /\ UNCHANGED <<qrOpts, qrLeft, qrFiles>>

QrNext ==
  \/ \E n \in QrSizes : NumberOption("size", n, 1)
  \/ \E n \in QrMargins : NumberOption("margin", n, 0)
  \/ \E n \in QrVersions : NumberOption("version", n, 0)
  \/ \E name \in QrNames : OutputOption(name)
  \/ StructuredOption \/ KanjiOption
  \/ \E n \in QrInputs \cup {-1}, codes \in BoundedSeq(QrCodes, 2) : Encode(n, codes)
  \/ WriteCode \/ QrDone

----------------------------------------------------------------------------
(* What a reader of the file does.                                          *)

ReadInt(bytes, at) ==
  bytes[at + 1] + 256 * bytes[at + 2] + 65536 * bytes[at + 3] + 16777216 * bytes[at + 4]

\* The dot at column x, row y from the top, of a picture.
BmpPixel(file, x, y) == file.rows[ReadInt(file.header, 22) - y + 1][x]

\* The picture that a reader finds, by the sizes in the header (writeBMP), is the
\* code with its margin, every dot a square of the size that was asked for.
PictureIsTheCode ==
  \A i \in DOMAIN qrFiles :
    LET f == qrFiles[i]
        dot(n) == (n - 1) \div qrOpts.size - qrOpts.margin + 1
        side == ReadInt(f.header, 18)
    IN /\ side = (Len(f.code) + 2 * qrOpts.margin) * qrOpts.size
       /\ \A x, y \in 1..side :
            BmpPixel(f, x, y) =
              IF dot(x) \in DOMAIN f.code /\ dot(y) \in DOMAIN f.code
              THEN 1 - f.code[dot(y)][dot(x)] ELSE 1

\* The sizes in the header are those of the file, and every row ends on a border of
\* four bytes, as the format wants it (line, total).
FileIsAsLongAsItSays ==
  \A i \in DOMAIN qrFiles :
    LET f == qrFiles[i]
        row(r) == Len(f.rows[r]) \div 8
        raw == FoldLeft(LAMBDA n, r : n + Len(r) \div 8, 0, f.rows)
    IN /\ Len(f.header) = ReadInt(f.header, 10)
       /\ ReadInt(f.header, 34) = raw
       /\ ReadInt(f.header, 2) = Len(f.header) + raw
       /\ \A r \in DOMAIN f.rows : row(r) % 4 = 0 /\ 8 * row(r) - ReadInt(f.header, 18) \in 0..31

----------------------------------------------------------------------------
(* code128b.                                                                *)

CONSTANTS BarAlphabet, MaxBarText,   \* the texts
          BarSizes, BarMargins,      \* size and margin
          BarHeight                  \* height

VARIABLES barText, barShape, barPicture

barVars == <<barText, barShape, barPicture>>

Font == <<
  1740, 1644, 1638, 1176, 1164, 1100, 1224, 1220, 1124, 1608, 1604, 1572, 1436, 1244, 1230,
  1484, 1260, 1254, 1650, 1628, 1614, 1764, 1652, 1902, 1868, 1836, 1830, 1892, 1844, 1842,
  1752, 1734, 1590, 1304, 1112, 1094, 1416, 1128, 1122, 1672, 1576, 1570, 1464, 1422, 1134,
  1496, 1478, 1142, 1910, 1678, 1582, 1768, 1762, 1774, 1880, 1862, 1814, 1896, 1890, 1818,
  1914, 1602, 1930, 1328, 1292, 1200, 1158, 1068, 1062, 1424, 1412, 1232, 1218, 1076, 1074,
  1554, 1616, 1978, 1556, 1146, 1340, 1212, 1182, 1508, 1268, 1266, 1956, 1940, 1938, 1758,
  1782, 1974, 1400, 1310, 1118, 1512, 1506, 1960, 1954, 1502, 1518, 1886, 1966, 1668, 1680,
  1692, 1594 >>
StartB == 104
Stop == 106

\* The bits of c from the mask m = 2^(n-1) down.
MaskedBits(c, n) == [k \in 1..n |-> (c \div 2^(n - k)) % 2]

Printable(ch) == ch >= 32 /\ ch < 128

\* Mutant of CheckSum: the first character counts twice, as the second does.
RECURSIVE CheckSumFromTwo(_, _, _)
CheckSumFromTwo(text, i, s) ==
  IF i > Len(text) THEN s
  ELSE CheckSumFromTwo(text, i + 1,
         IF Printable(text[i]) THEN (s + (text[i] - 32) * (i + 1)) % 103 ELSE s)

\* s, which starts as the start symbol and is reduced with every printable character.
RECURSIVE CheckSum(_, _, _)
CheckSum(text, i, s) ==
  IF i > Len(text) THEN s
  ELSE CheckSum(text, i + 1,
         IF Printable(text[i]) THEN (s + (text[i] - 32) * i) % 103 ELSE s)

\* The modules: the start symbol, a symbol for every character, a blank for one that
\* cannot be printed, and the check symbol and the stop symbol with its last bar in
\* one word of 24 bits.
Modules(text) ==
  LET symbol(i) == Font[IF Printable(text[i]) THEN text[i] - 31 ELSE 1]
      last == Font[CheckSum(text, 1, StartB) + 1] * 8192 + Font[Stop + 1] * 4 + 3
  IN MaskedBits(Font[StartB + 1], 11)
       \o FlattenSeq([i \in DOMAIN text |-> MaskedBits(symbol(i), 11)])
       \o MaskedBits(last, 24)

BarWidth(text, shape) == ((Len(text) + 3) * 11 + 2 + 2 * shape.margin) * shape.size

\* Lying: one row, with the bits of the modules turned, again and again.
LyingRow(text, shape) ==
  LET modules == Modules(text)
  IN [k \in 1..(8 * ((BarWidth(text, shape) + 7) \div 8)) |->
        LET j == (k - 1 - shape.margin * shape.size) \div shape.size + 1
        IN IF k > shape.margin * shape.size /\ j \in DOMAIN modules
           THEN 1 - modules[j] ELSE 1]

\* Standing: size rows for every module, between two margins.
StandingRows(text, shape) ==
  LET modules == Modules(text)
      margin == shape.margin * shape.size
      row(bit) == [k \in 1..(8 * ((BarHeight + 7) \div 8)) |-> bit]
  IN [r \in 1..(2 * margin + shape.size * Len(modules)) |->
        IF r <= margin \/ r > margin + shape.size * Len(modules) THEN row(1)
        ELSE row(1 - modules[(r - 1 - margin) \div shape.size + 1])]

\* What png_set_IHDR is told, and the rows.
Png(text, shape) ==
  IF shape.vertical
  THEN [width |-> BarHeight, height |-> BarWidth(text, shape), rows |-> StandingRows(text, shape)]
  ELSE [width |-> BarWidth(text, shape), height |-> BarHeight,
        rows |-> [y \in 1..BarHeight |-> LyingRow(text, shape)]]

BarInit ==
  /\ barText \in BoundedSeq(BarAlphabet, MaxBarText)
  /\ barShape \in [size : BarSizes, margin : BarMargins, vertical : BOOLEAN]
  /\ barPicture = <<>>

\* writePNG.
WritePng == barPicture = <<>> /\ barPicture' = <<Png(barText, barShape)>> /\ UNCHANGED <<barText, barShape>>

BarNext == WritePng

----------------------------------------------------------------------------
(* A scanner.                                                               *)

\* The runs of equal modules of a symbol.
Runs(bits) == Len(SelectSeq([k \in 1..(Len(bits) - 1) |-> bits[k] # bits[k + 1]], LAMBDA b : b)) + 1

\* The value of a symbol, or -1.
ScanSymbol(bits) ==
  LET n == FoldLeft(LAMBDA a, b : 2 * a + b, 0, bits)
      values == {v \in DOMAIN Font : Font[v] = n}
  IN IF values = {} \/ Runs(bits) # 6 \/ FoldLeft(LAMBDA a, b : a + b, 0, bits) % 2 = 1 THEN -1
     ELSE IF \E v, w \in values : v # w THEN -1
     ELSE (CHOOSE v \in values : TRUE) - 1

\* The modules between the margins, read across the bars.
Scanned(png, shape) ==
  LET line == IF shape.vertical THEN [r \in DOMAIN png.rows |-> png.rows[r][1]]
              ELSE SubSeq(png.rows[1], 1, png.width)
      n == Len(line) \div shape.size - 2 * shape.margin
  IN [k \in 1..n |-> 1 - line[(shape.margin + k - 1) * shape.size + 1]]

\* A bar code scanner reads the text that was written, with blanks for what cannot
\* be printed, from either kind of picture (writePNG): the symbols are in the table
\* once, the check symbol is right, and the picture has the size it was given.  A
\* text with nothing printable is an exception: its check symbol is the unreduced 104.
BarsAreReadable ==
  (barPicture # <<>> /\ \E i \in DOMAIN barText : Printable(barText[i])) =>
    LET png == barPicture[1]
        bits == Scanned(png, barShape)
        symbols == [k \in 1..(Len(bits) \div 11) |-> ScanSymbol(SubSeq(bits, 11 * k - 10, 11 * k))]
        n == Len(symbols) - 3
        weighed == FoldLeft(LAMBDA s, k : s + k * symbols[k + 1], symbols[1], [k \in 1..n |-> k])
    IN /\ Len(png.rows) = png.height
       /\ Len(bits) = 11 * Len(symbols) + 2 /\ bits[Len(bits)] = 1 /\ bits[Len(bits) - 1] = 1
       /\ n = Len(barText)
       /\ symbols[1] = StartB /\ symbols[n + 3] = Stop
       /\ symbols[n + 2] = weighed % 103
       /\ \A k \in 1..n : symbols[k + 1] = IF Printable(barText[k]) THEN barText[k] - 32 ELSE 0
=============================================================================
