------------------------------- MODULE Nonce -------------------------------
(***************************************************************************)
(* Where the secret numbers come from: generate_k_rfc6979 (ecdsa.c) and    *)
(* uECC_sign_deterministic (uECC.c), which hash in place in buffers that   *)
(* overlap, and random_uniform and random_permute (rand.c).                *)
(*                                                                         *)
(* Bytes are terms, as in Hash; a digest has one byte here, a block two.  A   *)
(* candidate for a nonce is accepted or not, as it comes.                  *)
(***************************************************************************)
EXTENDS Integers, Sequences, SequencesExt, FiniteSetsExt

CONSTANTS NonceTries,  \* tries of a nonce: 10000 and 64 in the code
          RandWord,    \* values of random32: 2^32 in the code
          RandMax,     \* bound: the largest n of random_uniform
          PermMax      \* bound: letters of random_permute

\* The n of random_uniform is a number of RandWord, as what it is compared with.
ASSUME NonceAssumption ==
  NonceTries \in Nat /\ RandMax \in Nat /\ RandWord \in Nat /\ RandMax < RandWord

VARIABLES nonceBy,     \* "ecdsa" or "uecc"
          nonceMem,    \* k and v; for uECC also the pad that overlaps
          nonceTry,    \* the candidates refused so far
          nonceOut,    \* the accepted one, or <<>>
          randBound    \* n of random_uniform, letters of random_permute

nonceVars == <<nonceBy, nonceMem, nonceTry, nonceOut, randBound>>

Byte(n) == <<"byte", n>>
Fill(n) == <<Byte(n)>>
Pad(n, bytes) == <<<<"xor", n, bytes[1]>>, <<"xor", n, Byte(0)>>>>
Hashed(bytes) == <<<<"hash", bytes>>>>

\* What an HMAC is.
Hmac(k, message) == Hashed(Pad(92, k) \o Hashed(Pad(54, k) \o message))

PrivKey == <<<<"key">>>>
MsgHash == <<<<"digest">>>>
Reduced(bytes) == <<<<"mod", bytes>>>>

----------------------------------------------------------------------------
(* ecdsa.c: buf is v, a byte, and bx, the key and the reduced digest.      *)

EcdsaSeed(mem, byte) ==
  LET buf == mem.v \o <<Byte(byte)>> \o PrivKey \o Reduced(MsgHash)
      k == Hmac(mem.k, buf)
  IN [mem EXCEPT !.k = k, !.v = Hmac(k, @)]

EcdsaStart == EcdsaSeed(EcdsaSeed([k |-> Fill(0), v |-> Fill(1)], 0), 1)
EcdsaCandidate(mem) == [mem EXCEPT !.v = Hmac(mem.k, @)]
EcdsaRefused(mem) ==
  LET k == Hmac(mem.k, mem.v \o <<Byte(0)>>) IN [mem EXCEPT !.k = k, !.v = Hmac(k, @)]

----------------------------------------------------------------------------
(* uECC.c: tmp is K, V and the HMAC pad, whose first byte is also the byte *)
(* after V.  ctx is what the hash context has been given.                  *)

\* Mutant of HmacInit: the pad is hashed when the first message is.
HmacInitLate(mem) == [k |-> mem.k, v |-> mem.v, pad |-> Pad(54, mem.k), ctx |-> <<>>]

\* HMAC_init
HmacInit(mem) == [k |-> mem.k, v |-> mem.v, pad |-> Pad(54, mem.k), ctx |-> Pad(54, mem.k)]

\* V[result_size] = byte, and HMAC_update of V with it.
UpdateVAnd(mem, byte) ==
  LET m == [mem EXCEPT !.pad[1] = Byte(byte)]
  IN [m EXCEPT !.ctx = @ \o m.v \o <<m.pad[1]>>]
UpdateWith(mem, bytes) == [mem EXCEPT !.ctx = @ \o bytes]

\* HMAC_finish: the outer pad overwrites the inner one; the result goes to K or V.
HmacFinish(mem) == Hashed(Pad(92, mem.k) \o Hashed(mem.ctx))
FinishToK(mem) == [k |-> HmacFinish(mem), v |-> mem.v, pad |-> Pad(92, mem.k), ctx |-> mem.ctx]
FinishToV(mem) == [k |-> mem.k, v |-> HmacFinish(mem), pad |-> Pad(92, mem.k), ctx |-> mem.ctx]

\* update_V
UpdateV(mem) == FinishToV(UpdateWith(HmacInit(mem), mem.v))

UeccSeed(mem, byte) ==
  UpdateV(FinishToK(UpdateWith(UpdateWith(UpdateVAnd(HmacInit(mem), byte), PrivKey), MsgHash)))
UeccStart ==
  UeccSeed(UeccSeed([k |-> Fill(0), v |-> Fill(1),
                     pad |-> Fill(0) \o Fill(0), ctx |-> <<>>], 0), 1)

\* T, two digests long here: V is updated until T is full.
UeccT(mem) == LET one == UpdateV(mem) two == UpdateV(one) IN [mem |-> two, t |-> one.v \o two.v]
UeccRefused(mem) == UpdateV(FinishToK(UpdateVAnd(HmacInit(mem), 0)))

----------------------------------------------------------------------------
NonceInit ==
  /\ nonceBy \in {"ecdsa", "uecc"}
  /\ nonceMem = IF nonceBy = "ecdsa" THEN EcdsaStart ELSE UeccStart
  /\ nonceTry = 0 /\ nonceOut = <<>>
  /\ randBound \in 1..RandMax

\* The next candidate: a number below the order that signs, or not.
NonceNext ==
  /\ nonceOut = <<>> /\ nonceTry < NonceTries
  /\ LET t == IF nonceBy = "ecdsa"
              THEN LET m == EcdsaCandidate(nonceMem) IN [mem |-> m, t |-> m.v]
              ELSE UeccT(nonceMem)
     IN \/ nonceOut' = t.t /\ nonceMem' = t.mem /\ UNCHANGED nonceTry
        \/ /\ nonceMem' = IF nonceBy = "ecdsa" THEN EcdsaRefused(t.mem) ELSE UeccRefused(t.mem)
           /\ nonceTry' = nonceTry + 1 /\ UNCHANGED nonceOut
  /\ UNCHANGED <<nonceBy, randBound>>

NonceSpec == NonceInit /\ [][NonceNext]_nonceVars

----------------------------------------------------------------------------
(* Section 3.2 of RFC 6979: K, V and the candidates that follow from them.   *)

RfcSeed(s, byte, digest) ==
  LET k == Hmac(s.k, s.v \o <<Byte(byte)>> \o PrivKey \o digest) IN [k |-> k, v |-> Hmac(k, s.v)]

RfcStart(digest) == RfcSeed(RfcSeed([k |-> Fill(0), v |-> Fill(1)], 0, digest), 1, digest)

\* A candidate of one digest or of two, and V behind it.
RfcCandidate(s, halves) ==
  LET v == Hmac(s.k, s.v) IN IF halves = 1 THEN v ELSE v \o Hmac(s.k, v)
RfcV(s, halves) ==
  LET v == Hmac(s.k, s.v) IN IF halves = 1 THEN v ELSE Hmac(s.k, v)

RfcRefused(s, halves) ==
  LET v == RfcV(s, halves)
      k == Hmac(s.k, v \o <<Byte(0)>>)
  IN [k |-> k, v |-> Hmac(k, v)]

RfcState(digest, halves, try) ==
  LET state[t \in 0..NonceTries] ==
        IF t = 0 THEN RfcStart(digest) ELSE RfcRefused(state[t - 1], halves)
  IN state[try]

\* The nonces are those of RFC 6979, candidate by candidate, in spite of buffers that are
\* overwritten while they are hashed; uECC signs the digest as it is, as it says.
NonceFollowsRfc ==
  LET digest == IF nonceBy = "ecdsa" THEN Reduced(MsgHash) ELSE MsgHash
      halves == IF nonceBy = "ecdsa" THEN 1 ELSE 2
      s == RfcState(digest, halves, nonceTry)
  IN IF nonceOut = <<>> THEN nonceMem.k = s.k /\ nonceMem.v = s.v
     ELSE nonceOut = RfcCandidate(s, halves)

----------------------------------------------------------------------------
(* rand.c.                                                                 *)

\* Mutant of RandLimit: the numbers up to the last one are used.
RandLimitAll(n) == RandWord

\* max in random_uniform.
RandLimit(n) == (RandWord - 1) - ((RandWord - 1) % n)
\* The result for an x below the limit; another one is drawn otherwise.
RandResult(x, n) == x \div (RandLimit(n) \div n)

\* The letters i and j change places.
Swapped(str, i, j) == [str EXCEPT ![j] = str[i], ![i] = str[j]]

\* random_permute of the letters 1..len, with the numbers that random_uniform returned:
\* the string when the places behind i have their letters.
Permuted(len, draws, i) ==
  LET str[k \in 1..len] ==
        IF k = len THEN [l \in 1..len |-> l] ELSE Swapped(str[k + 1], k + 1, draws[k + 1])
  IN str[i]

\* What random_uniform(i) may return for each place i.
Draws(len) == {d \in [1..len -> 1..len] : \A i \in 1..len : d[i] <= i}

\* Every result of random_uniform has as many x that lead to it.
UniformIsUniform ==
  /\ \A r \in 0..randBound - 1 :
       Quantify(0..RandLimit(randBound) - 1, LAMBDA x : RandResult(x, randBound) = r)
         = RandLimit(randBound) \div randBound
  /\ \A x \in 0..RandLimit(randBound) - 1 : RandResult(x, randBound) \in 0..randBound - 1

\* Every order of the letters comes from one way to draw, and only from one.
PermuteIsUniform ==
  randBound <= PermMax =>
    /\ {Permuted(randBound, d, 1) : d \in Draws(randBound)} = Bijection(1..randBound, 1..randBound)
    /\ \A d, e \in Draws(randBound) : Permuted(randBound, d, 1) = Permuted(randBound, e, 1) => d = e

\* No number and no order is likelier than another one (rand.c).
RandomIsUniform == UniformIsUniform /\ PermuteIsUniform

\* Nonces are those of RFC 6979, and random numbers favour nothing.
NoncesAreStandard == NonceFollowsRfc /\ RandomIsUniform
=============================================================================
