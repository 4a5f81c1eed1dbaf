-------------------------------- MODULE Hash --------------------------------
(***************************************************************************)
(* sha2.c, ripemd160.c and hmac.c: a message arrives in pieces of any      *)
(* length and must be hashed as if it had come at once.                    *)
(*                                                                         *)
(* A byte is a term: <<"m", i>> of the message, <<"k", i>> of a key,       *)
(* <<"c", n>> a constant, <<"d", blocks, i>> of a digest, <<"x", pad, b>>  *)
(* an exclusive or.  The compression of a block is abstract: a state is    *)
(* the sequence of the blocks that were compressed into it, and a block is *)
(* what the transform reads: for SHA-2 the values of its words.  The bytes *)
(* of a word are kept in memory order, as on a little endian machine.      *)
(***************************************************************************)
EXTENDS Integers, Sequences

CONSTANTS HashBlock,    \* bytes of a block: 64 (128 for SHA-512) in the code
          HashWord,     \* bytes of a word: 4 (8); the length field is two words
          HashCount,    \* the counters are modulo this: 2^32 or 2^64 in the code
          HashDigest,   \* bytes of a digest
          HashChunks,   \* bound: lengths of the pieces
          HashMaxLen,   \* bound: length of the message
          HashKeys      \* bound: lengths of the key of an HMAC

\* The length of a piece is a uint32_t or, on a router, a size_t of 32 bits.
ASSUME HashAssumption ==
  /\ HashBlock \in Nat \ {0} /\ HashWord \in Nat \ {0}
  /\ HashBlock % HashWord = 0 /\ 2 * HashWord < HashBlock
  /\ HashCount \in Nat \ {0} /\ HashCount % (8 * HashBlock) = 0 /\ 8 * HashBlock < HashCount
  /\ HashDigest \in 1..HashBlock
  /\ HashChunks \subseteq 0..(HashCount - 1) /\ HashKeys \subseteq Nat

HashKinds == {"sha256", "sha512", "ripemd160"}

VARIABLES hashKind, \* which function, or the HMAC of one
          hashKey,  \* length of the key, -1 without HMAC
          hashLen,  \* bytes of the message so far
          hashCtx,  \* the context
          hashOut   \* the digest: the state it is made of, or <<>>

hashVars == <<hashKind, hashKey, hashLen, hashCtx, hashOut>>

Const(n) == <<"c", n>>
Zeros(n) == [i \in 1..n |-> Const(0)]
MessageBytes(from, len) == [i \in 1..len |-> <<"m", from + i>>]
KeyBytes(len) == [i \in 1..len |-> <<"k", i>>]
DigestOf(state) == [i \in 1..HashDigest |-> <<"d", state, i>>]

----------------------------------------------------------------------------
(* Contexts.  count is bitcount[0] or total[0], high is bitcount[1] or     *)
(* total[1]; SHA-256 has one counter of twice the width of a word.         *)

\* sha256_Init, sha512_Init, ripemd160_Init
HashInitial == [buffer |-> Zeros(HashBlock), count |-> 0, high |-> 0, state |-> <<>>]

\* REVERSE32 and REVERSE64 over the first n words of the buffer.
ReversedWords(buffer, n) ==
  [i \in 1..HashBlock |->
     LET w == (i - 1) \div HashWord IN IF w < n THEN buffer[2 * w * HashWord + HashWord + 1 - i] ELSE buffer[i]]
AllWords == HashBlock \div HashWord

\* sha256_Transform and sha512_Transform: a word of a little endian machine is read from
\* its last byte; ripemd160_process: GET_UINT32_LE makes its words from the bytes.
Transform(kind, state, buffer) ==
  Append(state, IF kind = "ripemd160" THEN buffer ELSE ReversedWords(buffer, AllWords))

\* What Update does with a full buffer: REVERSE and transform, in place for the SHA-2.
Process(kind, ctx) ==
  LET b == IF kind = "ripemd160" THEN ctx.buffer ELSE ReversedWords(ctx.buffer, AllWords)
  IN [ctx EXCEPT !.state = Transform(kind, @, b), !.buffer = b]

\* Bytes that the buffer holds.
UsedSpace(kind, ctx) ==
  (IF kind = "ripemd160" THEN ctx.count ELSE ctx.count \div 8) % HashBlock

\* The counter: bits, with ADDINC128 for SHA-512; bytes for RIPEMD-160.
Counted(kind, ctx, n) ==
  LET add == IF kind = "ripemd160" THEN n ELSE 8 * n
      sum == (ctx.count + add) % HashCount
      \* bitcount of SHA-256 is one number: both words of it
      carry == IF kind = "sha256" THEN (ctx.count + add) \div HashCount
               ELSE IF sum < add THEN 1 ELSE 0
  IN [ctx EXCEPT !.count = sum, !.high = (@ + carry) % HashCount]

\* memcpy into the buffer.
Filled(ctx, used, data) ==
  [ctx EXCEPT !.buffer = [i \in 1..HashBlock |->
     IF used < i /\ i <= used + Len(data) THEN data[i - used] ELSE @[i]]]

\* One complete block: in the buffer, and counted; RIPEMD-160 processes it where it is
\* and has counted it before.
OneBlock(kind, ctx, block) ==
  IF kind = "ripemd160" THEN [ctx EXCEPT !.state = Transform(kind, @, block)]
  ELSE Counted(kind, Process(kind, Filled(ctx, 0, block)), HashBlock)

\* The loop over the complete blocks, and the rest of the data.
Blocks(kind, ctx, data) ==
  LET whole == Len(data) \div HashBlock
      after[b \in 0..whole] ==
        IF b = 0 THEN ctx
        ELSE OneBlock(kind, after[b - 1], SubSeq(data, (b - 1) * HashBlock + 1, b * HashBlock))
      rest == SubSeq(data, whole * HashBlock + 1, Len(data))
      kept == Filled(after[whole], 0, rest)
  IN IF kind = "ripemd160" THEN kept ELSE Counted(kind, kept, Len(rest))

\* sha256_Update, sha512_Update, ripemd160_Update
Update(kind, ctx, data) ==
  LET used == UsedSpace(kind, ctx)
      free == HashBlock - used
      whole == IF kind = "ripemd160" THEN Counted(kind, ctx, Len(data)) ELSE ctx
      part(n) == LET c == Filled(whole, used, SubSeq(data, 1, n))
                 IN IF kind = "ripemd160" THEN c ELSE Counted(kind, c, n)
  IN IF data = <<>> THEN ctx
     ELSE IF used = 0 THEN Blocks(kind, whole, data)
     ELSE IF Len(data) < free THEN part(Len(data))
     ELSE Blocks(kind, Process(kind, part(free)), SubSeq(data, free + 1, Len(data)))

\* A word of the length field, in memory order: least significant byte first.
LengthWord(n) == <<Const(n)>> \o Zeros(HashWord - 1)

\* memset of a part of the buffer.
Cleared(buffer, from, to) ==
  [i \in 1..HashBlock |-> IF from < i /\ i <= to THEN Const(0) ELSE buffer[i]]

\* 0x80 and zeros up to the length field, in two blocks when it does not fit.  What
\* sha512_Last clears behind that is overwritten by the length.
ShaPadded(kind, ctx) ==
  LET short == HashBlock - 2 * HashWord
      used == UsedSpace(kind, ctx) + 1
      marked == [ctx.buffer EXCEPT ![used] = Const(128)]
      full == Process(kind, [ctx EXCEPT !.buffer = Cleared(marked, used, HashBlock)])
  IN IF used <= short THEN [ctx EXCEPT !.buffer = Cleared(marked, used, short)]
     ELSE [full EXCEPT !.buffer = Cleared(full.buffer, 0, short)]

\* sha256_Final and sha512_Last: the words of the length are numbers already and are not
\* reversed.
ShaFinal(kind, ctx) ==
  LET last == ShaPadded(kind, ctx)
      body == SubSeq(ReversedWords(last.buffer, AllWords), 1, HashBlock - 2 * HashWord)
  IN Transform(kind, last.state, body \o LengthWord(last.high) \o LengthWord(last.count))

\* Mutant of RipemdFinal: the bytes, not the bits, are written.
RipemdFinalBytes(ctx) ==
  LET last == ctx.count % HashBlock
      short == HashBlock - 2 * HashWord
      padn == IF last < short THEN short - last ELSE HashBlock + short - last
      padded == Update("ripemd160", ctx, <<Const(128)>> \o Zeros(padn - 1))
  IN Update("ripemd160", padded, LengthWord(ctx.count) \o LengthWord(ctx.high)).state

\* ripemd160_Final: through Update; the length is in bits, the low word first.
RipemdFinal(ctx) ==
  LET last == ctx.count % HashBlock
      short == HashBlock - 2 * HashWord
      padn == IF last < short THEN short - last ELSE HashBlock + short - last
      low == (8 * ctx.count) % HashCount
      high == ((8 * ctx.count) \div HashCount) + ((8 * ctx.high) % HashCount)
      padded == Update("ripemd160", ctx, <<Const(128)>> \o Zeros(padn - 1))
  IN Update("ripemd160", padded, LengthWord(low) \o LengthWord(high)).state

FinalState(kind, ctx) == IF kind = "ripemd160" THEN RipemdFinal(ctx) ELSE ShaFinal(kind, ctx)

\* sha256_Raw, sha512_Raw, ripemd160
Raw(kind, data) == FinalState(kind, Update(kind, HashInitial, data))

----------------------------------------------------------------------------
(* HMAC.                                                                   *)

\* Mutant of PaddedKey: a long key is cut.
PaddedKeyCut(kind, key) ==
  SubSeq(key \o Zeros(HashBlock), 1, HashBlock)

\* A key that is longer than a block is hashed; the rest of the block is 0.
PaddedKey(kind, key) ==
  LET k == IF Len(key) > HashBlock THEN DigestOf(Raw(kind, key)) ELSE key
  IN k \o Zeros(HashBlock - Len(k))
Xored(pad, bytes) == [i \in DOMAIN bytes |-> <<"x", pad, bytes[i]>>]

\* hmac_sha256_Init, hmac_sha512_Init
HmacInitial(kind, key) == Update(kind, HashInitial, Xored("ipad", PaddedKey(kind, key)))

\* hmac_sha256_Final, hmac_sha512_Final
HmacFinal(kind, key, ctx) ==
  LET outer == Update(kind, HashInitial, Xored("opad", PaddedKey(kind, key)))
  IN FinalState(kind, Update(kind, outer, DigestOf(FinalState(kind, ctx))))

\* hmac_sha256_prepare, hmac_sha512_prepare: the two states after the pads.
HmacPrepare(kind, key) ==
  LET words == ReversedWords(PaddedKey(kind, key), AllWords)
  IN [ipad |-> Transform(kind, <<>>, Xored("ipad", words)),
      opad |-> Transform(kind, <<>>, Xored("opad", words))]

----------------------------------------------------------------------------
HashInit ==
  /\ hashKind \in HashKinds
  /\ hashKey \in (IF hashKind = "ripemd160" THEN {-1} ELSE HashKeys \union {-1})
  /\ hashLen = 0 /\ hashOut = <<>>
  /\ hashCtx = IF hashKey = -1 THEN HashInitial ELSE HmacInitial(hashKind, KeyBytes(hashKey))

\* An Update with any number of bytes.
Feed(kind) ==
  /\ hashKind = kind /\ hashOut = <<>>
  /\ \E n \in HashChunks :
       /\ hashLen + n <= HashMaxLen
       /\ hashLen' = hashLen + n
       /\ hashCtx' = Update(kind, hashCtx, MessageBytes(hashLen, n))
  /\ UNCHANGED <<hashKind, hashKey, hashOut>>

Sha256Update == Feed("sha256")
Sha512Update == Feed("sha512")
Ripemd160Update == Feed("ripemd160")

\* A Final, with or without a key, which wipes the context.
Finish(kind, hmac, out) ==
  /\ hashKind = kind /\ hashOut = <<>> /\ hmac = (hashKey # -1)
  /\ hashOut' = out
  /\ hashCtx' = HashInitial
  /\ UNCHANGED <<hashKind, hashKey, hashLen>>

Sha256Final == Finish("sha256", FALSE, ShaFinal("sha256", hashCtx))
Sha512Final == Finish("sha512", FALSE, ShaFinal("sha512", hashCtx))
Ripemd160Final == Finish("ripemd160", FALSE, RipemdFinal(hashCtx))
HmacSha256Final == Finish("sha256", TRUE, HmacFinal("sha256", KeyBytes(hashKey), hashCtx))
HmacSha512Final == Finish("sha512", TRUE, HmacFinal("sha512", KeyBytes(hashKey), hashCtx))

HashNext ==
  \/ Sha256Update \/ Sha512Update \/ Ripemd160Update
  \/ Sha256Final \/ Sha512Final \/ Ripemd160Final
  \/ HmacSha256Final \/ HmacSha512Final

HashSpec == HashInit /\ [][HashNext]_hashVars

----------------------------------------------------------------------------
(* The standards: the message, 0x80, the least number of zeros, its length *)
(* in bits, cut into blocks; the words of SHA-2 and the length big endian, *)
(* those of RIPEMD-160 little endian.                                      *)

PaddedMessage(kind, data) ==
  LET bits == 8 * Len(data)
      low == Const(bits % HashCount)
      high == Const((bits \div HashCount) % HashCount)
      zeros == (-(Len(data) + 1 + 2 * HashWord)) % HashBlock
  IN data \o <<Const(128)>> \o Zeros(zeros)
       \o (IF kind = "ripemd160" THEN <<low>> \o Zeros(HashWord - 1) \o <<high>> \o Zeros(HashWord - 1)
           ELSE Zeros(HashWord - 1) \o <<high>> \o Zeros(HashWord - 1) \o <<low>>)

StandardHash(kind, data) ==
  LET all == PaddedMessage(kind, data)
  IN [b \in 1..Len(all) \div HashBlock |-> SubSeq(all, (b - 1) * HashBlock + 1, b * HashBlock)]

StandardHmac(kind, key, data) ==
  LET k == IF Len(key) > HashBlock THEN DigestOf(StandardHash(kind, key)) ELSE key
      pad(name) == Xored(name, k \o Zeros(HashBlock - Len(k)))
  IN StandardHash(kind, pad("opad") \o DigestOf(StandardHash(kind, pad("ipad") \o data)))

\* The digest does not depend on how the message was cut: it is the digest of the
\* standard, whatever the buffer held before, where the counter carries, and when the
\* length field needs a block of its own.
StreamingIsOneShot ==
  hashOut # <<>> /\ hashKey = -1 =>
    hashOut = StandardHash(hashKind, MessageBytes(0, hashLen))

\* The same for an HMAC, with a key shorter than a block, as long, or longer; and the
\* prepared states are those that an HMAC goes through.
HmacIsStandard ==
  /\ hashOut # <<>> /\ hashKey # -1 =>
       hashOut = StandardHmac(hashKind, KeyBytes(hashKey), MessageBytes(0, hashLen))
  /\ hashLen = 0 /\ hashOut = <<>> /\ hashKey # -1 =>
       HmacPrepare(hashKind, KeyBytes(hashKey)).ipad = hashCtx.state

\* The hashes of src/address are those of the standards: their buffers and padding
\* feed the blocks of the standard to the compression functions.
HashesAreStandard == StreamingIsOneShot /\ HmacIsStandard
=============================================================================
