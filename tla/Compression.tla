---------------------------- MODULE Compression ----------------------------
(***************************************************************************)
(* How sha2.c and ripemd160.c compress one block: sha256_Transform and     *)
(* sha512_Transform, each in its rolled and its unrolled form, and         *)
(* ripemd160_process, which is unrolled.                                   *)
(*                                                                         *)
(* The unrolled forms do not move words from register to register: the     *)
(* names move, from one round to the next.  The expanded message is kept   *)
(* in a ring of sixteen words.  Words have 16 bits here.  The mixing       *)
(* functions of SHA-2 are replaced by other rotations, and the constants   *)
(* of a round by other numbers: nothing here depends on them.              *)
(***************************************************************************)
EXTENDS Integers, Sequences, SequencesExt, Bitwise

CONSTANTS CmpBlocks   \* bound: seeds of the blocks that are compressed

CmpKinds == {"sha256", "sha256 unrolled", "sha512", "sha512 unrolled", "ripemd160"}

VARIABLES cmpKind,   \* which function, in which form
          cmpSeed,   \* the block
          cmpRound,  \* j: rounds done
          cmpRegs,   \* the registers by name: a to h, or A to E
          cmpPrime,  \* Ap to Ep
          cmpRing,   \* W256 or W512
          cmpOut     \* the new state, or <<>>

cmpVars == <<cmpKind, cmpSeed, cmpRound, cmpRegs, cmpPrime, cmpRing, cmpOut>>

Sha(kind) == kind # "ripemd160"
Unrolled(kind) == kind \in {"sha256 unrolled", "sha512 unrolled", "ripemd160"}
Rounds(kind) == IF kind \in {"sha256", "sha256 unrolled"} THEN 64 ELSE 80

Wrap(n) == n % 65536
Rol(x, n) == Wrap(x * 2^n) + (x \div 2^(16 - n))
Not16(x) == 65535 - x

\* The words of a block, the state before it, and the constant of round j.
BlockWord(seed, i) == Wrap(4051 * (i + 1) * ((seed % 7) + 1) + 977 * seed)
StateBefore(seed) == [i \in 1..8 |-> Wrap(seed * 31 + 4099 * i)]
RoundConstant(j) == Wrap(26573 * (j % 97) + 7919)

----------------------------------------------------------------------------
(* SHA-2.                                                                   *)

Ch(x, y, z) == (x & y) ^^ (Not16(x) & z)
Maj(x, y, z) == ((x & y) ^^ (x & z)) ^^ (y & z)
BigSigma0(x) == Rol(x, 14) ^^ Rol(x, 3)
BigSigma1(x) == Rol(x, 10) ^^ Rol(x, 5)
SmallSigma0(x) == Rol(x, 9) ^^ (x \div 8)
SmallSigma1(x) == Rol(x, 6) ^^ (x \div 32)

\* Mutant of Expanded: the new word replaces the old one instead of being added.
ExpandedOverwrites(ring, j) ==
  Wrap(SmallSigma1(ring[(j + 14) % 16]) + ring[(j + 9) % 16] + SmallSigma0(ring[(j + 1) % 16]))

\* W256[j&0x0f] += s1 + W256[(j+9)&0x0f] + s0
Expanded(ring, j) ==
  Wrap(ring[j % 16] + SmallSigma1(ring[(j + 14) % 16]) + ring[(j + 9) % 16]
         + SmallSigma0(ring[(j + 1) % 16]))

\* The word of round j: of the block, or of the expanded message.
RoundWord(seed, ring, j) == IF j < 16 THEN BlockWord(seed, j) ELSE Expanded(ring, j)

\* T1 and T2 of the registers r, in the order a to h.
T1(r, w, j) == r[8] + BigSigma1(r[5]) + Ch(r[5], r[6], r[7]) + RoundConstant(j) + w
T2(r) == BigSigma0(r[1]) + Maj(r[1], r[2], r[3])

\* The rolled round: every register takes over from its neighbour.
RolledRound(r, w, j) ==
  LET t == T1(r, w, j)
  IN <<Wrap(t + T2(r)), r[1], r[2], r[3], Wrap(r[4] + t), r[5], r[6], r[7]>>

\* The name at position p of the arguments of the n-th macro in a row of `size`:
\* a,b,c,.. then h,a,b,.. and so on.
NameAt(p, n, size) == ((p - 1 - n) % size) + 1
ByRole(regs, n) == [p \in DOMAIN regs |-> regs[NameAt(p, n, Len(regs))]]

\* Mutant of UnrolledRound: the names do not move back after a row of macros.
UnrolledRoundSeven(regs, w, j) ==
  LET r == ByRole(regs, j % 7)
      t == T1(r, w, j)
      d == NameAt(4, j % 7, 8)
      h == NameAt(8, j % 7, 8)
  IN [regs EXCEPT ![d] = Wrap(@ + t), ![h] = Wrap(t + T2(r))]

\* ROUND256 and ROUND512: only d and h of the round change.
UnrolledRound(regs, w, j) ==
  LET r == ByRole(regs, j % 8)
      t == T1(r, w, j)
      d == NameAt(4, j % 8, 8)
      h == NameAt(8, j % 8, 8)
  IN [regs EXCEPT ![d] = Wrap(@ + t), ![h] = Wrap(t + T2(r))]

----------------------------------------------------------------------------
(* RIPEMD-160: the r, s, rp and sp of the calls of P2, sixteen in a row.    *)

WordL == <<
  <<0, 1, 2, 3, 4, 5, 6, 7, 8, 9, 10, 11, 12, 13, 14, 15>>,
  <<7, 4, 13, 1, 10, 6, 15, 3, 12, 0, 9, 5, 2, 14, 11, 8>>,
  <<3, 10, 14, 4, 9, 15, 8, 1, 2, 7, 0, 6, 13, 11, 5, 12>>,
  <<1, 9, 11, 10, 0, 8, 12, 4, 13, 3, 7, 15, 14, 5, 6, 2>>,
  <<4, 0, 5, 9, 7, 12, 2, 10, 14, 1, 3, 8, 11, 6, 15, 13>> >>
ShiftL == <<
  <<11, 14, 15, 12, 5, 8, 7, 9, 11, 13, 14, 15, 6, 7, 9, 8>>,
  <<7, 6, 8, 13, 11, 9, 7, 15, 7, 12, 15, 9, 11, 7, 13, 12>>,
  <<11, 13, 6, 7, 14, 9, 13, 15, 14, 8, 13, 6, 5, 12, 7, 5>>,
  <<11, 12, 14, 15, 14, 15, 9, 8, 9, 14, 5, 6, 8, 6, 5, 12>>,
  <<9, 15, 5, 11, 6, 8, 13, 12, 5, 12, 13, 14, 11, 8, 5, 6>> >>
WordR == <<
  <<5, 14, 7, 0, 9, 2, 11, 4, 13, 6, 15, 8, 1, 10, 3, 12>>,
  <<6, 11, 3, 7, 0, 13, 5, 10, 14, 15, 8, 12, 4, 9, 1, 2>>,
  <<15, 5, 1, 3, 7, 14, 6, 9, 11, 8, 12, 2, 10, 0, 4, 13>>,
  <<8, 6, 4, 1, 3, 11, 15, 0, 5, 12, 2, 13, 9, 7, 10, 14>>,
  <<12, 15, 10, 4, 1, 5, 8, 7, 6, 2, 13, 14, 0, 3, 9, 11>> >>
ShiftR == <<
  <<8, 9, 9, 11, 13, 15, 15, 5, 7, 7, 8, 11, 14, 14, 12, 6>>,
  <<9, 13, 15, 7, 12, 8, 9, 11, 7, 7, 12, 7, 6, 15, 13, 11>>,
  <<9, 7, 15, 11, 8, 6, 6, 14, 12, 13, 5, 14, 13, 13, 7, 5>>,
  <<15, 5, 8, 11, 14, 14, 6, 14, 6, 9, 12, 9, 12, 5, 15, 8>>,
  <<8, 5, 12, 9, 12, 5, 14, 6, 8, 13, 6, 5, 15, 13, 11, 11>> >>

RipeF(n, x, y, z) ==
  CASE n = 1 -> (x ^^ y) ^^ z
    [] n = 2 -> (x & y) | (Not16(x) & z)
    [] n = 3 -> (x | Not16(y)) ^^ z
    [] n = 4 -> (x & z) | (y & Not16(z))
    [] n = 5 -> x ^^ (y | Not16(z))

\* Mutant of RipeStep: c is turned before a is computed.
RipeStepEarly(regs, n, x, shift, f, k) ==
  LET a == NameAt(1, n, 5) b == NameAt(2, n, 5) c == NameAt(3, n, 5)
      d == NameAt(4, n, 5) e == NameAt(5, n, 5)
      turned == Rol(regs[c], 10)
      sum == Wrap(regs[a] + RipeF(f, regs[b], turned, regs[d]) + x + k)
  IN [regs EXCEPT ![a] = Wrap(Rol(sum, shift) + regs[e]), ![c] = turned]

\* RipeStep (P): only a and c of the call change; the names move as in SHA-2.
RipeStep(regs, n, x, shift, f, k) ==
  LET a == NameAt(1, n, 5) b == NameAt(2, n, 5) c == NameAt(3, n, 5)
      d == NameAt(4, n, 5) e == NameAt(5, n, 5)
      sum == Wrap(regs[a] + RipeF(f, regs[b], regs[c], regs[d]) + x + k)
  IN [regs EXCEPT ![a] = Wrap(Rol(sum, shift) + regs[e]), ![c] = Rol(@, 10)]

----------------------------------------------------------------------------
CmpInit ==
  /\ cmpKind \in CmpKinds /\ cmpSeed \in CmpBlocks
  /\ cmpRound = 0
  /\ cmpRegs = SubSeq(StateBefore(cmpSeed), 1, IF Sha(cmpKind) THEN 8 ELSE 5)
  /\ cmpPrime = IF Sha(cmpKind) THEN <<>> ELSE SubSeq(StateBefore(cmpSeed), 1, 5)
  /\ cmpRing = [i \in 0..15 |-> 0]
  /\ cmpOut = <<>>

ShaRound(kind, Step(_, _, _)) ==
  /\ cmpKind = kind /\ cmpRound < Rounds(kind)
  /\ LET w == RoundWord(cmpSeed, cmpRing, cmpRound)
     IN /\ cmpRing' = [cmpRing EXCEPT ![cmpRound % 16] = w]
        /\ cmpRegs' = Step(cmpRegs, w, cmpRound)
  /\ cmpRound' = cmpRound + 1
  /\ UNCHANGED <<cmpKind, cmpSeed, cmpPrime, cmpOut>>

\* One round of each form of sha256_Transform and sha512_Transform.
Sha256Unrolled == ShaRound("sha256 unrolled", UnrolledRound)
Sha256Rolled == ShaRound("sha256", RolledRound)
Sha512Unrolled == ShaRound("sha512 unrolled", UnrolledRound)
Sha512Rolled == ShaRound("sha512", RolledRound)

\* One P2 of ripemd160_process: F1 to F5 on the left, F5 to F1 on the right.
RipeRound ==
  /\ ~Sha(cmpKind) /\ cmpRound < 80
  /\ LET row == (cmpRound \div 16) + 1
         i == (cmpRound % 16) + 1
         n == cmpRound % 5
     IN /\ cmpRegs' = RipeStep(cmpRegs, n, BlockWord(cmpSeed, WordL[row][i]), ShiftL[row][i],
                        row, RoundConstant(row))
        /\ cmpPrime' = RipeStep(cmpPrime, n, BlockWord(cmpSeed, WordR[row][i]), ShiftR[row][i],
                         6 - row, RoundConstant(10 + row))
  /\ cmpRound' = cmpRound + 1
  /\ UNCHANGED <<cmpKind, cmpSeed, cmpRing, cmpOut>>

\* The end: SHA-2 adds the registers to the state, RIPEMD-160 mixes both lines into it.
CmpEnd ==
  /\ cmpRound = Rounds(cmpKind) /\ cmpOut = <<>>
  /\ LET s == StateBefore(cmpSeed)
         mixed == << s[2] + cmpRegs[3] + cmpPrime[4], s[3] + cmpRegs[4] + cmpPrime[5],
                     s[4] + cmpRegs[5] + cmpPrime[1], s[5] + cmpRegs[1] + cmpPrime[2],
                     s[1] + cmpRegs[2] + cmpPrime[3] >>
     IN cmpOut' = IF Sha(cmpKind) THEN [i \in 1..8 |-> Wrap(s[i] + cmpRegs[i])]
                  ELSE [i \in 1..5 |-> Wrap(mixed[i])]
  /\ UNCHANGED <<cmpKind, cmpSeed, cmpRound, cmpRegs, cmpPrime, cmpRing>>

CmpNext ==
  \/ Sha256Unrolled \/ Sha256Rolled \/ Sha512Unrolled \/ Sha512Rolled
  \/ RipeRound \/ CmpEnd

----------------------------------------------------------------------------
(* The standards: FIPS 180, where every word of the expanded message has a *)
(* name, and the definition of RIPEMD-160, where the order of the words is *)
(* made by two permutations, and the shifts belong to the words.           *)

RECURSIVE StdWords(_, _)
StdWords(seed, count) ==
  IF count <= 16 THEN [t \in 1..count |-> BlockWord(seed, t - 1)]
  ELSE LET w == StdWords(seed, count - 1)
       IN Append(w, Wrap(SmallSigma1(w[count - 2]) + w[count - 7] + SmallSigma0(w[count - 15])
                           + w[count - 16]))

StdSha(seed, count) ==
  LET w == StdWords(seed, count)
      regs[t \in 0..count] ==
        IF t = 0 THEN StateBefore(seed) ELSE RolledRound(regs[t - 1], w[t], t - 1)
  IN regs[count]

RipeRho == <<7, 4, 13, 1, 10, 6, 15, 3, 12, 0, 9, 5, 2, 14, 11, 8>>
RipePi(i) == (9 * i + 5) % 16
StdShift == <<
  <<11, 14, 15, 12, 5, 8, 7, 9, 11, 13, 14, 15, 6, 7, 9, 8>>,
  <<12, 13, 11, 15, 6, 9, 9, 7, 12, 15, 11, 13, 7, 8, 7, 7>>,
  <<13, 15, 14, 11, 7, 7, 6, 8, 13, 14, 13, 12, 5, 5, 6, 9>>,
  <<14, 11, 12, 14, 8, 6, 5, 5, 15, 12, 15, 14, 9, 9, 8, 6>>,
  <<15, 12, 13, 13, 9, 5, 8, 6, 14, 11, 12, 11, 8, 6, 5, 5>> >>

\* One line after `count` rounds, with the functions in the order f.
StdRipe(seed, count, right) ==
  LET regs[t \in 0..count] ==
        IF t = 0 THEN SubSeq(StateBefore(seed), 1, 5)
        ELSE LET row == ((t - 1) \div 16) + 1
                 i == (t - 1) % 16
                 words[r \in 1..5] ==
                   IF r = 1 THEN (IF right THEN RipePi(i) ELSE i) ELSE RipeRho[words[r - 1] + 1]
                 word == words[row]
                 g == regs[t - 1]
                 sum == Wrap(g[1] + RipeF(IF right THEN 6 - row ELSE row, g[2], g[3], g[4])
                               + BlockWord(seed, word) + RoundConstant((IF right THEN 10 ELSE 0) + row))
             IN <<g[5], Wrap(Rol(sum, StdShift[row][word + 1]) + g[5]), g[2], Rol(g[3], 10), g[4]>>
  IN regs[count]

\* The ring holds the last sixteen words of the expanded message of the standard: no
\* word is overwritten before its last use.
ExpansionIsStandard ==
  Sha(cmpKind) /\ cmpRound >= 16 =>
    LET w == StdWords(cmpSeed, cmpRound)
    IN \A t \in cmpRound - 16..cmpRound - 1 : cmpRing[t % 16] = w[t + 1]

\* After every round the registers, by the names they have in that round, are those of
\* the standard, in the rolled form and in the unrolled one; they are at their places
\* again when they are added to the state.
ShaRoundsAreStandard ==
  Sha(cmpKind) =>
    LET regs == StdSha(cmpSeed, cmpRound)
    IN /\ ByRole(cmpRegs, IF Unrolled(cmpKind) THEN cmpRound % 8 ELSE 0) = regs
       /\ cmpOut # <<>> => cmpOut = [i \in 1..8 |-> Wrap(regs[i] + StateBefore(cmpSeed)[i])]

\* The same for both lines of RIPEMD-160: the 160 words and shifts that the code
\* lists are those that the permutations of the standard make, and the end of the block
\* takes its three words from where the names are then.
RipemdRoundsAreStandard ==
  ~Sha(cmpKind) =>
    LET left == StdRipe(cmpSeed, cmpRound, FALSE)
        right == StdRipe(cmpSeed, cmpRound, TRUE)
        \* the i-th word of a state or line, from 0 and around
        at(s, i) == s[(i % 5) + 1]
    IN /\ ByRole(cmpRegs, cmpRound % 5) = left
       /\ ByRole(cmpPrime, cmpRound % 5) = right
       /\ cmpOut # <<>> =>
            cmpOut = [i \in 1..5 |-> Wrap(at(StateBefore(cmpSeed), i) + at(left, i + 1) + at(right, i + 2))]

\* The compression functions compute the rounds of the standard, unrolled or not.
RoundsAreStandard == ExpansionIsStandard /\ ShaRoundsAreStandard /\ RipemdRoundsAreStandard
=============================================================================
