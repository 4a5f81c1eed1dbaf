SPECIFICATION TextSpec
CONSTANTS
  Alphabet <- TextBytes
  MaxText = 5
  SrcLine = 3
  P = 23
  Q = 11
  G = 4
  UrlAlphabet <- UrlBytes
  MaxUrl = 4
  ChunkSize = 3
  DocAlphabet <- DocBytes
  MaxDoc = 4
  LineLen = 4
  OutRoom = {4, 9, 14}
  Fingerprint <- KeyFingerprint
  Mpis <- SignatureMpis
  B58Bytes = 16
  B58Digits = 9
  B58Values = {0, 1, 8, 9, 15}
  B58MaxData = 4
  B58MaxText = 4
  B58Sizes = {1, 2, 3, 5, 7}
  HashBlock = 8
  HashWord = 2
  HashCount = 128
  HashDigest = 3
  HashChunks = {0, 1, 2, 3, 5, 7, 8, 9, 17}
  HashMaxLen = 20
  HashKeys = {0, 3, 8, 9}
  CmpBlocks = {0, 5}
  QrSizes = {0, 1}
  QrMargins <- MarginOptions
  QrVersions <- VersionOptions
  QrCodes <- Codes
  QrNames <- Names
  QrMaxData = 5
  QrInputs = {0, 4, 5, 6}
  BarAlphabet <- BarBytes
  MaxBarText = 3
  BarSizes = {1, 3}
  BarMargins = {0, 2}
  BarHeight = 3
INVARIANTS EncodingsRoundTrip UrlOutputIsMeaning SignedTextIsReadable
  Base58RoundTrips HashesAreStandard RoundsAreStandard CodesAreReadable
CHECK_DEADLOCK FALSE
