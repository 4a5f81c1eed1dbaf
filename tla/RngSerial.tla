------------------------------ MODULE RngSerial ------------------------------
(***************************************************************************)
(* gen_random (rng.c): several processes make rands at the same time.      *)
(* Each hashes the seed, the address, the time, its pid, four bytes of     *)
(* /dev/urandom, and a number from a file that all of them count up under  *)
(* a lock.  None of the sources has to be readable.                        *)
(*                                                                         *)
(* The other sources may be the same for two rands (a pid is used again,   *)
(* a second is long, the noise may be missing): a rand is its number.  The *)
(* file has one inode: nobody removes it, but /tmp is empty after a reboot.*)
(***************************************************************************)
EXTENDS Naturals

CONSTANTS RngProcs,    \* processes; a process that has ended may start again
          MaxSerial,   \* bound: numbers given out since a reboot
          NoNumber,    \* no number was read
          NoFile,      \* the file does not exist
          ShortFile    \* the file has less than a number in it

ASSUME RngAssumption ==
  /\ MaxSerial \in Nat
  /\ NoNumber \notin Nat /\ NoFile \notin Nat /\ ShortFile \notin Nat
  /\ NoFile # ShortFile

VARIABLES serialFile,   \* the file: a number, ShortFile or NoFile
          rngPc,        \* where a process is
          rngNumber,    \* serial of a process
          rngIntact,    \* no write has failed since the reboot
          rands         \* the numbers behind the rands made since the reboot

rngVars == <<serialFile, rngPc, rngNumber, rngIntact, rands>>

RngInit ==
  /\ serialFile = NoFile
  /\ rngPc = [p \in RngProcs |-> "start"]
  /\ rngNumber = [p \in RngProcs |-> NoNumber]
  /\ rngIntact = TRUE
  /\ rands = {}

\* Who has the lock.
LocksSerial(p) == rngPc[p] \in {"locked", "read", "written"}

\* The time, the pid and the noise.
Mix(p) ==
  /\ rngPc[p] = "start"
  /\ rngNumber' = [rngNumber EXCEPT ![p] = NoNumber]
  /\ rngPc' = [rngPc EXCEPT ![p] = "open"]
  /\ UNCHANGED <<serialFile, rngIntact, rands>>

\* open with O_CREAT.
OpenSerial(p) ==
  /\ rngPc[p] = "open"
  /\ serialFile' = IF serialFile = NoFile THEN ShortFile ELSE serialFile
  /\ rngPc' = [rngPc EXCEPT ![p] = "lock"]
  /\ UNCHANGED <<rngNumber, rngIntact, rands>>

\* The rand is made without a number.
OpenSerialFails(p) ==
  /\ rngPc[p] = "open"
  /\ rngPc' = [rngPc EXCEPT ![p] = "hash"]
  /\ UNCHANGED <<serialFile, rngNumber, rngIntact, rands>>

\* Mutant of FlockSerial: the lock is not waited for.
FlockSerialShared(p) ==
  /\ rngPc[p] = "lock"
  /\ rngPc' = [rngPc EXCEPT ![p] = "locked"]
  /\ UNCHANGED <<serialFile, rngNumber, rngIntact, rands>>

FlockSerial(p) ==
  /\ rngPc[p] = "lock"
  /\ \A q \in RngProcs : ~LocksSerial(q)
  /\ rngPc' = [rngPc EXCEPT ![p] = "locked"]
  /\ UNCHANGED <<serialFile, rngNumber, rngIntact, rands>>

\* Less than a number counts as zero.
ReadSerial(p) ==
  /\ rngPc[p] = "locked"
  /\ LET n == IF serialFile \in Nat THEN serialFile + 1 ELSE 1
     IN n <= MaxSerial /\ rngNumber' = [rngNumber EXCEPT ![p] = n]
  /\ rngPc' = [rngPc EXCEPT ![p] = "read"]
  /\ UNCHANGED <<serialFile, rngIntact, rands>>

WriteSerial(p) ==
  /\ rngPc[p] = "read"
  /\ serialFile' = rngNumber[p]
  /\ rngPc' = [rngPc EXCEPT ![p] = "written"]
  /\ UNCHANGED <<rngNumber, rngIntact, rands>>

\* Nobody looks at the result of write.
WriteSerialFails(p) ==
  /\ rngPc[p] = "read"
  /\ rngIntact' = FALSE
  /\ rngPc' = [rngPc EXCEPT ![p] = "written"]
  /\ UNCHANGED <<serialFile, rngNumber, rands>>

\* close gives the lock back.
CloseSerial(p) ==
  /\ rngPc[p] = "written"
  /\ rngPc' = [rngPc EXCEPT ![p] = "hash"]
  /\ UNCHANGED <<serialFile, rngNumber, rngIntact, rands>>

MakeRand(p) ==
  /\ rngPc[p] = "hash"
  /\ rands' = rands \cup {rngNumber[p]}
  /\ rngPc' = [rngPc EXCEPT ![p] = "start"]
  /\ UNCHANGED <<serialFile, rngNumber, rngIntact>>

\* Killed anywhere; the lock goes with the process.
KillMaker(p) ==
  /\ rngPc[p] # "start"
  /\ rngPc' = [rngPc EXCEPT ![p] = "start"]
  /\ UNCHANGED <<serialFile, rngNumber, rngIntact, rands>>

RngReboot ==
  /\ serialFile # NoFile
  /\ serialFile' = NoFile
  /\ rngPc' = [p \in RngProcs |-> "start"]
  /\ rngIntact' = TRUE /\ rands' = {}
  /\ UNCHANGED rngNumber

RngStep(p) ==
  \/ Mix(p)
  \/ OpenSerial(p) \/ OpenSerialFails(p) \/ FlockSerial(p)
  \/ ReadSerial(p) \/ WriteSerial(p) \/ WriteSerialFails(p)
  \/ CloseSerial(p) \/ MakeRand(p) \/ KillMaker(p)

RngNext == (\E p \in RngProcs : RngStep(p)) \/ RngReboot

RngSpec == RngInit /\ [][RngNext]_rngVars

----------------------------------------------------------------------------
RngTypeOK ==
  /\ serialFile \in Nat \cup {NoFile, ShortFile}
  /\ rngPc \in [RngProcs -> {"start", "open", "lock", "locked", "read", "written", "hash"}]
  /\ rngNumber \in [RngProcs -> Nat \cup {NoNumber}]
  /\ rngIntact \in BOOLEAN
  /\ rands \subseteq Nat \cup {NoNumber}

\* The numbers are "guaranteed to contain non-repeating successive values if
\* kept intact" (rng.h:40): a number that a process is about to mix in is behind
\* no other rand, and no other process has it, whoever was killed meanwhile.
SerialsDoNotRepeat ==
  rngIntact =>
    \A p \in RngProcs :
      (rngPc[p] = "hash" /\ rngNumber[p] # NoNumber) =>
        /\ rngNumber[p] \notin rands
        /\ \A q \in RngProcs \ {p} : rngPc[q] = "hash" => rngNumber[q] # rngNumber[p]
=============================================================================
