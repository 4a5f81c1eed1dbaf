----------------------------- MODULE FilesProofs -----------------------------
(***************************************************************************)
(* What is kept in files of their own, and the issuer protocol, for any    *)
(* number of processes: serial numbers of rands, the billing log and the   *)
(* search in it, the answer of obligation_transfer, tariffs, and the acl   *)
(* files of the fixed addresses.  The components do not interact and have  *)
(* an invariant each.                                                      *)
(***************************************************************************)
EXTENDS RngSerial, BillingLog, Protocol, Tariff, FixIpAcl, LinesProofs, TLAPS

----------------------------------------------------------------------------
(***************************************************************************)
(* Serial numbers.  The file is always at least as high as every number    *)
(* behind a rand or on the way into one, and the process that has the lock *)
(* is alone with it: so the number it reads and counts up is new.          *)
(***************************************************************************)

\* A number that is out of the file: behind a rand, or on its way into one.
Taken(p) == rngPc[p] \in {"written", "hash"} /\ rngNumber[p] # NoNumber

\* One process at a time between flock and close (rng.c, gen_random).
AloneWithFile ==
  \A p, q \in RngProcs : (LocksSerial(p) /\ LocksSerial(q)) => p = q

NumberedOnlyUnderLock ==
  \A p \in RngProcs :
    /\ rngPc[p] = "open" => rngNumber[p] = NoNumber
    /\ rngPc[p] \in {"read", "written"} => rngNumber[p] \in Nat

\* The file counts.
FileIsHighest ==
  /\ \A r \in rands : r # NoNumber => serialFile \in Nat /\ r <= serialFile
  /\ \A p \in RngProcs : Taken(p) => serialFile \in Nat /\ rngNumber[p] <= serialFile
  /\ \A p \in RngProcs :
       rngPc[p] = "read" =>
         rngNumber[p] = IF serialFile \in Nat THEN serialFile + 1 ELSE 1

TakenOnce ==
  \A p \in RngProcs :
    Taken(p) => /\ rngNumber[p] \notin rands
                /\ \A q \in RngProcs \ {p} : Taken(q) => rngNumber[q] # rngNumber[p]

RngInv ==
  /\ RngTypeOK /\ AloneWithFile /\ NumberedOnlyUnderLock
  /\ rngIntact => FileIsHighest /\ TakenOnce

----------------------------------------------------------------------------
\* The invariant holds at the start and is preserved by every step of gen_random.
LEMMA RngInvInit == RngInit => RngInv
  BY RngAssumption
  DEF RngInit, RngInv, RngTypeOK, AloneWithFile, LocksSerial, NumberedOnlyUnderLock,
      FileIsHighest, TakenOnce, Taken

\* Steps that only move a process, without a number that counts, keep the invariant.
LEMMA RngInvMoves ==
  ASSUME RngInv, NEW p \in RngProcs,
         Mix(p) \/ OpenSerial(p) \/ OpenSerialFails(p) \/ FlockSerial(p) \/ KillMaker(p)
  PROVE  RngInv'
<1> USE RngAssumption DEF RngInv, RngTypeOK
<1>1. CASE Mix(p)
  BY <1>1 DEF Mix, AloneWithFile, LocksSerial, NumberedOnlyUnderLock, FileIsHighest, TakenOnce, Taken
<1>2. CASE OpenSerial(p)
  BY <1>2 DEF OpenSerial, AloneWithFile, LocksSerial, NumberedOnlyUnderLock, FileIsHighest, TakenOnce, Taken
<1>3. CASE OpenSerialFails(p)
  BY <1>3 DEF OpenSerialFails, AloneWithFile, LocksSerial, NumberedOnlyUnderLock, FileIsHighest, TakenOnce, Taken
<1>4. CASE FlockSerial(p)
  BY <1>4 DEF FlockSerial, AloneWithFile, LocksSerial, NumberedOnlyUnderLock, FileIsHighest, TakenOnce, Taken
<1>5. CASE KillMaker(p)
  BY <1>5 DEF KillMaker, AloneWithFile, LocksSerial, NumberedOnlyUnderLock, FileIsHighest, TakenOnce, Taken
<1> QED BY <1>1, <1>2, <1>3, <1>4, <1>5

\* The number that is read under the lock is higher than all that were taken.
LEMMA RngInvUnderLock ==
  ASSUME RngInv, NEW p \in RngProcs,
         ReadSerial(p) \/ WriteSerial(p) \/ WriteSerialFails(p)
  PROVE  RngInv'
<1> USE RngAssumption DEF RngInv, RngTypeOK
<1>1. CASE ReadSerial(p)
  <2>1. RngTypeOK' /\ AloneWithFile' /\ NumberedOnlyUnderLock'
    BY <1>1 DEF ReadSerial, AloneWithFile, LocksSerial, NumberedOnlyUnderLock
  <2>2. rngIntact' => FileIsHighest' /\ TakenOnce'
    BY <1>1 DEF ReadSerial, AloneWithFile, LocksSerial, FileIsHighest, TakenOnce, Taken
  <2> QED BY <2>1, <2>2
<1>2. CASE WriteSerial(p)
  <2>1. RngTypeOK' /\ AloneWithFile' /\ NumberedOnlyUnderLock'
    BY <1>2 DEF WriteSerial, AloneWithFile, LocksSerial, NumberedOnlyUnderLock
  <2>2. ASSUME rngIntact PROVE FileIsHighest'
    BY <1>2, <2>2 DEF WriteSerial, AloneWithFile, LocksSerial, NumberedOnlyUnderLock, FileIsHighest, Taken
  <2>3. ASSUME rngIntact PROVE TakenOnce'
    BY <1>2, <2>3 DEF WriteSerial, AloneWithFile, LocksSerial, NumberedOnlyUnderLock, FileIsHighest, TakenOnce, Taken
  <2> QED BY <1>2, <2>1, <2>2, <2>3 DEF WriteSerial
<1>3. CASE WriteSerialFails(p)
  BY <1>3 DEF WriteSerialFails, AloneWithFile, LocksSerial, NumberedOnlyUnderLock
<1> QED BY <1>1, <1>2, <1>3

\* A number that becomes a rand's leaves no other process with it.
LEMMA RngInvEnds ==
  ASSUME RngInv, NEW p \in RngProcs, CloseSerial(p) \/ MakeRand(p)
  PROVE  RngInv'
<1> USE RngAssumption DEF RngInv, RngTypeOK
<1>1. CASE CloseSerial(p)
  BY <1>1 DEF CloseSerial, AloneWithFile, LocksSerial, NumberedOnlyUnderLock, FileIsHighest, TakenOnce, Taken
<1>2. CASE MakeRand(p)
  <2>1. RngTypeOK' /\ AloneWithFile' /\ NumberedOnlyUnderLock'
    BY <1>2 DEF MakeRand, AloneWithFile, LocksSerial, NumberedOnlyUnderLock
  <2>2. ASSUME rngIntact PROVE FileIsHighest'
    BY <1>2, <2>2 DEF MakeRand, FileIsHighest, Taken
  <2>3. ASSUME rngIntact PROVE TakenOnce'
    BY <1>2, <2>3 DEF MakeRand, TakenOnce, Taken
  <2> QED BY <1>2, <2>1, <2>2, <2>3 DEF MakeRand
<1> QED BY <1>1, <1>2

\* Every step of the specification keeps the invariant.
LEMMA RngInvNext == RngInv /\ [RngNext]_rngVars => RngInv'
<1> SUFFICES ASSUME RngInv, [RngNext]_rngVars PROVE RngInv'
  OBVIOUS
<1>1. ASSUME NEW p \in RngProcs, RngStep(p) PROVE RngInv'
  BY <1>1, RngInvMoves, RngInvUnderLock, RngInvEnds DEF RngStep
<1>2. CASE RngReboot
  BY <1>2, RngAssumption
  DEF RngReboot, RngInv, RngTypeOK, AloneWithFile, LocksSerial, NumberedOnlyUnderLock,
      FileIsHighest, TakenOnce, Taken
<1>3. CASE UNCHANGED rngVars
  BY <1>3
  DEF rngVars, RngInv, RngTypeOK, AloneWithFile, LocksSerial, NumberedOnlyUnderLock,
      FileIsHighest, TakenOnce, Taken
<1> QED BY <1>1, <1>2, <1>3 DEF RngNext

\* rng.h:40, for any processes and any numbers: while no write of the serial file
\* fails, no two rands made by gen_random since a reboot have the same number.
THEOREM SerialsDoNotRepeatHolds == RngSpec => []SerialsDoNotRepeat
<1>1. RngInv => SerialsDoNotRepeat
  BY DEF RngInv, TakenOnce, Taken, SerialsDoNotRepeat
<1> QED BY <1>1, RngInvInit, RngInvNext, PTL DEF RngSpec

----------------------------------------------------------------------------
(***************************************************************************)
(* Billing log.  BillInv is inductive: the process with the lock is alone, *)
(* so the number it has taken is still the next one when it appends.       *)
(***************************************************************************)

\* A search only reads.
LEMMA SearchOnlyReads == SearchStep => UNCHANGED payVars
BY DEF SearchStep, FindSn, FindTime, FindFirst, StopNear, Narrow, Probe, ReadSn, ReadTime

\* The payments leave a search alone.
LEMMA PaymentsDoNotSearch == PayStep => UNCHANGED search
BY DEF PayStep, BillStep, LockBill, NumberBill, AppendBill, EndBill, BillTick

\* Lines end somewhere.
LEMMA EndOfType ==
  ASSUME NEW log \in Seq(BillLine), NEW i \in 0..Len(log)
  PROVE  EndOf(log, i) \in Nat
<1>1. CASE i = 0  BY <1>1 DEF EndOf
<1>2. CASE i # 0
  <2>1. log[i] \in BillLine  BY <1>2
  <2> QED  BY <1>2, <2>1 DEF EndOf, BillLine
<1> QED  BY <1>1, <1>2

\* A search whose variables are assigned to is a search.
LEMMA AssignmentsKeepTypes ==
  ASSUME NEW s \in SearchStates
  PROVE  /\ \A x \in {"idle", "bisect", "linear", "done"} :
              [s EXCEPT !.at = x] \in SearchStates
         /\ \A n \in Nat : /\ [s EXCEPT !.lo = n] \in SearchStates
                          /\ [s EXCEPT !.hi = n] \in SearchStates
                          /\ [s EXCEPT !.cur = n] \in SearchStates
                          /\ [s EXCEPT !.found = n] \in SearchStates
         /\ \A n \in Nat \ {0} : [s EXCEPT !.line = n] \in SearchStates
<1>1. ASSUME NEW x \in {"idle", "bisect", "linear", "done"}
      PROVE  [s EXCEPT !.at = x] \in SearchStates
  BY <1>1 DEF SearchStates
<1>2. ASSUME NEW n \in Nat PROVE [s EXCEPT !.lo = n] \in SearchStates  BY DEF SearchStates
<1>3. ASSUME NEW n \in Nat PROVE [s EXCEPT !.hi = n] \in SearchStates  BY DEF SearchStates
<1>4. ASSUME NEW n \in Nat PROVE [s EXCEPT !.cur = n] \in SearchStates  BY DEF SearchStates
<1>5. ASSUME NEW n \in Nat PROVE [s EXCEPT !.found = n] \in SearchStates  BY DEF SearchStates
<1>6. ASSUME NEW n \in Nat \ {0} PROVE [s EXCEPT !.line = n] \in SearchStates
  BY DEF SearchStates
<1> QED  BY <1>1, <1>2, <1>3, <1>4, <1>5, <1>6

\* The middle of lo and hi is a position.
LEMMA ProbeCases ==
  ASSUME BillTypeOK, Probe
  PROVE  \E pos \in Nat, i \in 1..Len(billLog) :
           /\ EndOf(billLog, i - 1) <= pos /\ pos < EndOf(billLog, i)
           /\ ProbeEnds(pos, i) \/ ProbeUp(i) \/ ProbeDown(pos, i) \/ ProbeHits(i)
<1> DEFINE pos == (search.lo + search.hi) \div 2
<1>1. pos \in Nat  BY DEF BillTypeOK, SearchStates
<1> HIDE DEF pos
<1> QED  BY <1>1 DEF Probe, pos

\* A search keeps its types.
LEMMA SearchTypeStep ==
  ASSUME BillTypeOK, SearchStep
  PROVE  search' \in SearchStates
<1>0. search \in SearchStates /\ billLog \in Seq(BillLine) /\ Len(billLog) \in Nat
  BY DEF BillTypeOK
<1>1. ASSUME NEW by \in {"sn", "time"}, NEW n \in Nat, FindFirst(by, n)
      PROVE  search' \in SearchStates
  <2>1. Size(billLog) \in Nat  BY <1>0, EndOfType DEF Size
  <2> QED  BY <1>0, <1>1, <2>1 DEF FindFirst, None, SearchStates
<1>2. CASE StopNear  BY <1>0, <1>2, AssignmentsKeepTypes DEF StopNear
<1>3. CASE Narrow
  <2>1. PICK i \in 0..Len(billLog) :
          search' = [search EXCEPT !.at = "linear", !.line = i + 1]
    BY <1>3 DEF Narrow
  <2>2. [search EXCEPT !.at = "linear"] \in SearchStates  BY <1>0, AssignmentsKeepTypes
  <2>3. i + 1 \in Nat \ {0}  BY <1>0
  <2> QED  BY <2>1, <2>2, <2>3, AssignmentsKeepTypes
<1>4. CASE ReadSn
  <2>1. search.line \in Nat /\ search.line + 1 \in Nat \ {0}  BY <1>0 DEF SearchStates
  <2>2. [search EXCEPT !.at = "done"] \in SearchStates  BY <1>0, AssignmentsKeepTypes
  <2>3. [search EXCEPT !.at = "done", !.found = search.line] \in SearchStates
    BY <2>1, <2>2, AssignmentsKeepTypes
  <2>4. [search EXCEPT !.line = search.line + 1] \in SearchStates
    BY <1>0, <2>1, AssignmentsKeepTypes
  <2> QED  BY <1>4, <2>2, <2>3, <2>4, Zenon DEF ReadSn
<1>5. CASE ReadTime
  <2>1. search.line \in Nat /\ search.line + 1 \in Nat \ {0}  BY <1>0 DEF SearchStates
  <2>2. [search EXCEPT !.at = "done"] \in SearchStates  BY <1>0, AssignmentsKeepTypes
  <2>3. [search EXCEPT !.found = search.line] \in SearchStates
    BY <1>0, <2>1, AssignmentsKeepTypes
  <2>4. [search EXCEPT !.found = search.line, !.line = search.line + 1] \in SearchStates
    BY <2>1, <2>3, AssignmentsKeepTypes
  <2>5. PICK x \in {"done", search.at} :
          \/ search' = [search EXCEPT !.at = "done"]
          \/ search' = [search EXCEPT !.found = search.line, !.line = search.line + 1, !.at = x]
    BY <1>5 DEF ReadTime
  <2>6. x \in {"idle", "bisect", "linear", "done"}  BY <1>0 DEF SearchStates
  <2> QED  BY <2>2, <2>4, <2>5, <2>6, AssignmentsKeepTypes
<1>6. CASE Probe
  <2>1. PICK pos \in Nat, i \in 1..Len(billLog) :
          ProbeEnds(pos, i) \/ ProbeUp(i) \/ ProbeDown(pos, i) \/ ProbeHits(i)
    BY <1>6, ProbeCases
  <2>2. i + 1 \in Nat \ {0} /\ i + 2 \in Nat \ {0}  BY <1>0
  <2>3. CASE ProbeEnds(pos, i)
    <3>1. [search EXCEPT !.hi = pos] \in SearchStates  BY <1>0, AssignmentsKeepTypes
    <3> QED  BY <2>2, <2>3, <3>1, AssignmentsKeepTypes DEF ProbeEnds
  <2>4. CASE i < Len(billLog)
    <3>1. billLog[i + 1] \in BillLine /\ EndOf(billLog, i + 1) \in Nat
      BY <1>0, <2>4, EndOfType
    <3>2. Key(billLog[i + 1]) \in Nat  BY <3>1 DEF Key, BillLine
    <3>3. [search EXCEPT !.cur = Key(billLog[i + 1])] \in SearchStates
      BY <1>0, <3>2, AssignmentsKeepTypes
    <3>4. [search EXCEPT !.cur = Key(billLog[i + 1]), !.line = i + 2] \in SearchStates
      BY <2>2, <3>3, AssignmentsKeepTypes
    <3>5. [search EXCEPT !.cur = Key(billLog[i + 1]), !.line = i + 2, !.at = "done"]
            \in SearchStates
      BY <3>4, AssignmentsKeepTypes
    <3>6. CASE ProbeUp(i)  BY <3>1, <3>4, <3>6, AssignmentsKeepTypes DEF ProbeUp
    <3>7. CASE ProbeDown(pos, i)  BY <3>4, <3>7, AssignmentsKeepTypes DEF ProbeDown
    <3>8. CASE ProbeHits(i)  BY <2>2, <3>5, <3>8, AssignmentsKeepTypes DEF ProbeHits
    <3>9. CASE ProbeEnds(pos, i)  BY <2>3, <3>9
    <3> QED  BY <2>1, <3>6, <3>7, <3>8, <3>9
  <2> QED  BY <2>1, <2>3, <2>4 DEF ProbeUp, ProbeDown, ProbeHits
<1> QED
  <2>1. \A sn \in 0..(FirstSn + LogBound + 1) : sn \in Nat  BY BillingAssumption
  <2>2. \A t \in 0..(LastSecond + 1) : t \in Nat  BY BillingAssumption
  <2> QED  BY <1>1, <1>2, <1>3, <1>4, <1>5, <1>6, <2>1, <2>2 DEF SearchStep, FindSn, FindTime

\* A log that is numbered without gaps has the next number behind its last one.
LEMMA NextSnIsConsecutive ==
  ASSUME billLog \in Seq(BillLine), SerialsAreConsecutive
  PROVE  NextSn(billLog) = FirstSn + Len(billLog) + 1
<1>1. CASE billLog = <<>>
  <2>1. Len(billLog) = 0  BY <1>1
  <2> QED  BY <1>1, <2>1, BillingAssumption DEF NextSn
<1>2. CASE billLog # <<>>
  <2>1. Len(billLog) \in 1..Len(billLog)  BY <1>2
  <2>2. billLog[Len(billLog)].sn = FirstSn + Len(billLog)
    BY <2>1 DEF SerialsAreConsecutive
  <2> QED  BY <1>2, <2>1, <2>2, BillingAssumption DEF NextSn
<1> QED  BY <1>1, <1>2

\* The log of the initial state is empty, and nobody has the lock.
LEMMA InitSatisfiesBillInv == BillInit => BillInv
<1> SUFFICES ASSUME BillInit PROVE BillInv  OBVIOUS
<1>1. BillTypeOK  BY DEF BillInit, BillTypeOK, SearchStates, None
<1>2. OneBillAtATime  BY DEF BillInit, OneBillAtATime, LocksBill
<1>3. NumberIsNext  BY DEF BillInit, NumberIsNext
<1>4. SerialsAreConsecutive  BY DEF BillInit, SerialsAreConsecutive
<1> QED  BY <1>1, <1>2, <1>3, <1>4 DEF BillInv

\* Every step keeps the types.
LEMMA BillTypeStep == BillTypeOK /\ [BillNext]_billVars => BillTypeOK'
<1> SUFFICES ASSUME BillTypeOK, [BillNext]_billVars PROVE BillTypeOK'  OBVIOUS
<1> USE DEF BillTypeOK
<1>1. CASE UNCHANGED billVars  BY <1>1 DEF billVars, payVars
<1>7. CASE SearchStep  BY <1>7, SearchOnlyReads, SearchTypeStep DEF payVars
<1>2. ASSUME NEW p \in Payers, LockBill(p) PROVE BillTypeOK'
  BY <1>2 DEF LockBill
<1>3. ASSUME NEW p \in Payers, NumberBill(p) PROVE BillTypeOK'
  <2>1. NextSn(billLog) \in Nat
    <3>1. CASE billLog = <<>>  BY <3>1, BillingAssumption DEF NextSn
    <3>2. CASE billLog # <<>>
      <4>1. billLog[Len(billLog)] \in BillLine  BY <3>2
      <4> QED  BY <3>2, <4>1 DEF NextSn, BillLine
    <3> QED  BY <3>1, <3>2
  <2> QED  BY <1>3, <2>1 DEF NumberBill
<1>4. ASSUME NEW p \in Payers, AppendBill(p) PROVE BillTypeOK'
  <2>1. PICK n \in 1..(MaxLine - 1) :
          billLog' = Append(billLog, [sn |-> billSn[p], time |-> billClock,
                                      end |-> Size(billLog) + n])
    BY <1>4 DEF AppendBill
  <2>2. Size(billLog) \in Nat /\ n \in Nat
    BY EndOfType, BillingAssumption DEF Size
  <2>4. [sn |-> billSn[p], time |-> billClock, end |-> Size(billLog) + n] \in BillLine
    BY <2>2 DEF BillLine
  <2>3. billLog' \in Seq(BillLine)  BY <2>1, <2>4
  <2> QED  BY <1>4, <2>3 DEF AppendBill
<1>5. ASSUME NEW p \in Payers, EndBill(p) PROVE BillTypeOK'
  BY <1>5 DEF EndBill
<1>6. CASE BillTick  BY <1>6 DEF BillTick
<1> QED  BY <1>1, <1>2, <1>3, <1>4, <1>5, <1>6, <1>7 DEF BillNext, PayStep, BillStep

\* No step lets a second process have the lock.
LEMMA BillLockStep ==
  BillTypeOK /\ OneBillAtATime /\ [BillNext]_billVars => OneBillAtATime'
<1> SUFFICES ASSUME BillTypeOK, OneBillAtATime, [BillNext]_billVars
             PROVE  OneBillAtATime'
  OBVIOUS
<1> USE DEF BillTypeOK, OneBillAtATime, LocksBill
<1>1. CASE UNCHANGED billVars \/ SearchStep
  BY <1>1, SearchOnlyReads DEF billVars, payVars
<1>2. ASSUME NEW p \in Payers, LockBill(p) PROVE OneBillAtATime'
  BY <1>2 DEF LockBill
<1>3. ASSUME NEW p \in Payers, NumberBill(p) PROVE OneBillAtATime'
  BY <1>3 DEF NumberBill
<1>4. ASSUME NEW p \in Payers, AppendBill(p) PROVE OneBillAtATime'
  BY <1>4 DEF AppendBill
<1>5. ASSUME NEW p \in Payers, EndBill(p) PROVE OneBillAtATime'
  BY <1>5 DEF EndBill
<1>6. CASE BillTick  BY <1>6 DEF BillTick
<1> QED  BY <1>1, <1>2, <1>3, <1>4, <1>5, <1>6 DEF BillNext, PayStep, BillStep

\* A number that has been taken stays the next one: only its owner appends.
LEMMA BillNumberStep ==
  BillTypeOK /\ OneBillAtATime /\ NumberIsNext /\ [BillNext]_billVars => NumberIsNext'
<1> SUFFICES ASSUME BillTypeOK, OneBillAtATime, NumberIsNext, [BillNext]_billVars
             PROVE  NumberIsNext'
  OBVIOUS
<1> USE DEF BillTypeOK, NumberIsNext
<1>1. CASE UNCHANGED billVars \/ SearchStep
  BY <1>1, SearchOnlyReads DEF billVars, payVars, NextSn
<1>2. ASSUME NEW p \in Payers, LockBill(p) PROVE NumberIsNext'
  BY <1>2 DEF LockBill, NextSn
<1>3. ASSUME NEW p \in Payers, NumberBill(p) PROVE NumberIsNext'
  BY <1>3 DEF NumberBill, NextSn
<1>4. ASSUME NEW p \in Payers, AppendBill(p) PROVE NumberIsNext'
  <2>1. \A q \in Payers : billPc'[q] # "numbered"
    BY <1>4 DEF AppendBill, OneBillAtATime, LocksBill
  <2> QED  BY <2>1
<1>5. ASSUME NEW p \in Payers, EndBill(p) PROVE NumberIsNext'
  BY <1>5 DEF EndBill, NextSn
<1>6. CASE BillTick  BY <1>6 DEF BillTick, NextSn
<1> QED  BY <1>1, <1>2, <1>3, <1>4, <1>5, <1>6 DEF BillNext, PayStep, BillStep

\* A line is appended with the number behind the last one.
LEMMA BillSerialStep ==
  BillInv /\ [BillNext]_billVars => SerialsAreConsecutive'
<1> SUFFICES ASSUME BillInv, [BillNext]_billVars PROVE SerialsAreConsecutive'
  OBVIOUS
<1>0. BillTypeOK /\ NumberIsNext /\ SerialsAreConsecutive  BY DEF BillInv
<1>1. CASE UNCHANGED billLog  BY <1>0, <1>1 DEF SerialsAreConsecutive
<1>2. ASSUME NEW p \in Payers, AppendBill(p) PROVE SerialsAreConsecutive'
  <2>1. PICK n \in 1..(MaxLine - 1) :
          billLog' = Append(billLog, [sn |-> billSn[p], time |-> billClock,
                                      end |-> Size(billLog) + n])
    BY <1>2 DEF AppendBill
  <2>2. billSn[p] = FirstSn + Len(billLog) + 1
    BY <1>0, <1>2, NextSnIsConsecutive DEF AppendBill, NumberIsNext, BillTypeOK
  <2>3. Len(billLog') = Len(billLog) + 1 /\ Len(billLog) \in Nat
    BY <1>0, <2>1 DEF BillTypeOK
  <2>4. ASSUME NEW i \in 1..Len(billLog') PROVE billLog'[i].sn = FirstSn + i
    <3>1. CASE i = Len(billLog) + 1
      BY <1>0, <2>1, <2>2, <2>3, <3>1, BillingAssumption DEF BillTypeOK
    <3>2. CASE i # Len(billLog) + 1
      <4>1. i \in 1..Len(billLog)  BY <2>3, <3>2
      <4>2. billLog'[i] = billLog[i]  BY <1>0, <2>1, <4>1 DEF BillTypeOK
      <4> QED  BY <1>0, <4>1, <4>2 DEF SerialsAreConsecutive
    <3> QED  BY <3>1, <3>2
  <2> QED  BY <2>4 DEF SerialsAreConsecutive
<1>3. UNCHANGED billLog \/ \E p \in Payers : AppendBill(p)
  BY SearchOnlyReads DEF BillNext, PayStep, BillStep, LockBill, NumberBill, EndBill, BillTick,
                         billVars, payVars
<1> QED  BY <1>1, <1>2, <1>3

\* The lines of the billing log are numbered without gap or repetition, for any
\* processes, any number of payments and any configured first number (grant,
\* invoice).
THEOREM SerialsAreConsecutiveHolds == BillSpec => []SerialsAreConsecutive
<1>1. BillInv /\ [BillNext]_billVars => BillInv'
  BY BillTypeStep, BillLockStep, BillNumberStep, BillSerialStep DEF BillInv
<1>2. BillInv => SerialsAreConsecutive  BY DEF BillInv
<1> QED  BY InitSatisfiesBillInv, <1>1, <1>2, PTL DEF BillSpec

----------------------------------------------------------------------------
(***************************************************************************)
(* Searches of the log.  A search knows only what it has read, while lines *)
(* are appended.  SearchInv says what the bisection has excluded: lines    *)
(* before lo are smaller than what is sought, lines that begin behind hi   *)
(* are bigger, except those that came later.                               *)
(***************************************************************************)

\* An entry becomes the last line; the lines before it stay where they are.
LEMMA LineAppended ==
  ASSUME BillTypeOK, NEW p \in Payers, AppendBill(p)
  PROVE  \E n \in 1..(MaxLine - 1) :
           /\ Len(billLog) \in Nat /\ Len(billLog') = Len(billLog) + 1
           /\ \A i \in 1..Len(billLog) : billLog'[i] = billLog[i]
           /\ billLog'[Len(billLog) + 1] =
                [sn |-> billSn[p], time |-> billClock, end |-> EndOf(billLog, Len(billLog)) + n]
           /\ \A i \in 0..Len(billLog) : EndOf(billLog', i) = EndOf(billLog, i)
           /\ EndOf(billLog', Len(billLog) + 1) = EndOf(billLog, Len(billLog)) + n
<1>1. PICK n \in 1..(MaxLine - 1) :
        billLog' = Append(billLog, [sn |-> billSn[p], time |-> billClock,
                                    end |-> Size(billLog) + n])
  BY DEF AppendBill
<1>2. /\ Len(billLog) \in Nat /\ Len(billLog') = Len(billLog) + 1
      /\ \A i \in 1..Len(billLog) : billLog'[i] = billLog[i]
      /\ billLog'[Len(billLog) + 1] =
           [sn |-> billSn[p], time |-> billClock, end |-> EndOf(billLog, Len(billLog)) + n]
  BY <1>1 DEF BillTypeOK, Size
<1>3. ASSUME NEW i \in 0..Len(billLog) PROVE EndOf(billLog', i) = EndOf(billLog, i)
  <2>1. i = 0 \/ i \in 1..Len(billLog)  BY <1>2
  <2> QED  BY <1>2, <2>1 DEF EndOf
<1>4. EndOf(billLog', Len(billLog) + 1) = EndOf(billLog, Len(billLog)) + n
  BY <1>2 DEF EndOf
<1> QED  BY <1>2, <1>3, <1>4

\* Lines are appended behind each other, at a time that is not before the last.
LEMMA LogOrderStep ==
  ASSUME BillTypeOK, LogIsOrdered, [BillNext]_billVars
  PROVE  LogIsOrdered'
<1>0. Len(billLog) \in Nat /\ billClock \in Nat /\ billLog \in Seq(BillLine)
  BY DEF BillTypeOK
<1>1. ASSUME NEW i \in LogLines PROVE billLog[i].time \in Nat
  <2>1. billLog[i] \in BillLine  BY <1>0 DEF LogLines
  <2> QED  BY <2>1 DEF BillLine
<1>2. CASE UNCHANGED <<billLog, billClock>>  BY <1>2 DEF LogIsOrdered, LogLines, EndOf
<1>3. CASE BillTick  BY <1>0, <1>1, <1>3 DEF BillTick, LogIsOrdered, LogLines, EndOf
<1>4. ASSUME NEW p \in Payers, AppendBill(p) PROVE LogIsOrdered'
  <2>1. PICK n \in 1..(MaxLine - 1) :
           /\ Len(billLog') = Len(billLog) + 1
           /\ \A i \in 1..Len(billLog) : billLog'[i] = billLog[i]
           /\ billLog'[Len(billLog) + 1] =
                [sn |-> billSn[p], time |-> billClock, end |-> EndOf(billLog, Len(billLog)) + n]
           /\ \A i \in 0..Len(billLog) : EndOf(billLog', i) = EndOf(billLog, i)
           /\ EndOf(billLog', Len(billLog) + 1) = EndOf(billLog, Len(billLog)) + n
    BY <1>4, LineAppended
  <2>2. \A i \in 0..Len(billLog) : EndOf(billLog, i) \in Nat  BY <1>0, EndOfType
  <2>3. n \in Nat /\ n > 0  BY BillingAssumption
  <2>4. billClock' = billClock  BY <1>4 DEF AppendBill
  <2>5. ASSUME NEW i \in 0..Len(billLog'), NEW j \in 0..Len(billLog'), i < j
        PROVE  EndOf(billLog', i) < EndOf(billLog', j)
    <3>1. i \in 0..Len(billLog)  BY <1>0, <2>1, <2>5
    <3>2. CASE j \in 0..Len(billLog)  BY <2>1, <2>5, <3>1, <3>2 DEF LogIsOrdered
    <3>3. CASE j = Len(billLog) + 1
      <4>1. EndOf(billLog, i) <= EndOf(billLog, Len(billLog))
        <5>1. CASE i = Len(billLog)  BY <2>2, <3>1, <5>1
        <5>2. CASE i < Len(billLog)  BY <1>0, <2>2, <3>1, <5>2 DEF LogIsOrdered
        <5> QED  BY <1>0, <3>1, <5>1, <5>2
      <4>2. EndOf(billLog', i) = EndOf(billLog, i) /\ EndOf(billLog', j) = EndOf(billLog, Len(billLog)) + n
        BY <2>1, <3>1, <3>3
      <4>3. EndOf(billLog, i) \in Nat /\ EndOf(billLog, Len(billLog)) \in Nat
        BY <1>0, <2>2, <3>1
      <4> QED  BY <2>3, <4>1, <4>2, <4>3
    <3> QED  BY <1>0, <2>1, <3>2, <3>3
  <2>6. \A i \in LogLines' :
          IF i = Len(billLog) + 1 THEN billLog'[i].time = billClock
          ELSE i \in LogLines /\ billLog'[i] = billLog[i]
    BY <1>0, <2>1 DEF LogLines
  <2>7. \A i, j \in LogLines' : i < j => billLog'[i].time <= billLog'[j].time
    <3>1. SUFFICES ASSUME NEW i \in LogLines', NEW j \in LogLines', i < j
                   PROVE  billLog'[i].time <= billLog'[j].time
      OBVIOUS
    <3>2. i # Len(billLog) + 1  BY <1>0, <2>1, <3>1 DEF LogLines
    <3>3. i \in LogLines /\ billLog'[i] = billLog[i]  BY <2>6, <3>2
    <3>4. CASE j = Len(billLog) + 1
      <4>1. billLog'[j].time = billClock  BY <2>6, <3>4
      <4> QED  BY <3>3, <4>1 DEF LogIsOrdered
    <3>5. CASE j # Len(billLog) + 1
      <4>1. j \in LogLines /\ billLog'[j] = billLog[j]  BY <2>6, <3>5
      <4> QED  BY <3>1, <3>3, <4>1 DEF LogIsOrdered
    <3> QED  BY <3>4, <3>5
  <2>8. \A i \in LogLines' : billLog'[i].time <= billClock'
    BY <1>0, <2>4, <2>6 DEF LogIsOrdered
  <2> QED  BY <2>5, <2>7, <2>8 DEF LogIsOrdered
<1>5. \/ UNCHANGED <<billLog, billClock>> \/ BillTick
      \/ \E p \in Payers : AppendBill(p)
  BY SearchOnlyReads DEF BillNext, PayStep, BillStep, LockBill, NumberBill, EndBill,
                         billVars, payVars
<1> QED  BY <1>2, <1>3, <1>4, <1>5

\* Later lines have bigger keys: numbers without a gap, times in their order.
LEMMA KeysAreOrdered ==
  ASSUME BillInv, LogIsOrdered, NEW i \in LogLines, NEW j \in LogLines, i <= j
  PROVE  /\ Key(billLog[i]) \in Nat /\ Key(billLog[j]) \in Nat
         /\ Key(billLog[i]) <= Key(billLog[j])
         /\ search.by = "sn" /\ i < j => Key(billLog[i]) < Key(billLog[j])
<1>1. billLog[i] \in BillLine /\ billLog[j] \in BillLine /\ i \in Nat /\ j \in Nat
  BY DEF BillInv, BillTypeOK, LogLines
<1>2. billLog[i].sn = FirstSn + i /\ billLog[j].sn = FirstSn + j
  BY DEF BillInv, SerialsAreConsecutive, LogLines
<1>3. billLog[i].time <= billLog[j].time
  <2>1. CASE i < j  BY <2>1 DEF LogIsOrdered
  <2>2. CASE i = j  BY <1>1, <2>2 DEF BillLine
  <2> QED  BY <1>1, <2>1, <2>2
<1> QED  BY <1>1, <1>2, <1>3, BillingAssumption DEF Key, BillLine

\* What holds of the lines there are holds when there is one more.
LEMMA SearchGrows ==
  ASSUME BillInv, SearchInv, NEW p \in Payers, AppendBill(p)
  PROVE  /\ search'.seen <= Len(billLog')
         /\ BisectionIsRight' /\ ReadingIsRight' /\ InvoiceIsFound'
<1> DEFINE L == Len(billLog)
<1>1. /\ L \in Nat /\ Len(billLog') = L + 1
      /\ \A i \in 1..L : billLog'[i] = billLog[i]
      /\ \A i \in 0..L : EndOf(billLog', i) = EndOf(billLog, i)
  <2>1. PICK n \in 1..(MaxLine - 1) :
           /\ Len(billLog) \in Nat /\ Len(billLog') = Len(billLog) + 1
           /\ \A i \in 1..Len(billLog) : billLog'[i] = billLog[i]
           /\ \A i \in 0..Len(billLog) : EndOf(billLog', i) = EndOf(billLog, i)
    BY LineAppended DEF BillInv
  <2> QED  BY <2>1
<1>2. search' = search /\ (IsClose' <=> IsClose)
  BY DEF AppendBill, IsClose
<1>3. search \in SearchStates /\ search.seen \in Nat /\ search.line \in Nat \ {0}
      /\ search.seen <= L /\ search.found \in Nat
  BY DEF BillInv, BillTypeOK, SearchStates, SearchInv
<1>4. \A i \in 1..L : Key(billLog[i])' = Key(billLog[i])
  BY <1>1, <1>2 DEF Key
<1>5. /\ \A i \in 0..L : Passed(i) => Passed(i)'
      /\ search.line - 1 \in 0..L /\ Passed(search.line - 1) => Passed(search.line - 1)'
  BY <1>1, <1>2, <1>4 DEF Passed
<1>6. \A i \in 1..L : Begin(i)' = Begin(i)
  BY <1>1 DEF Begin
<1>7. LogLines \subseteq LogLines' /\ LogLines = 1..L /\ LogLines' = 1..(L + 1)
  BY <1>1 DEF LogLines
<1>8. BisectionIsRight'
  <2>1. SUFFICES ASSUME search.at \in {"bisect", "linear"} PROVE BisectionIsRight'
    BY <1>2 DEF BisectionIsRight
  <2>2. BisectionIsRight  BY DEF SearchInv
  <2>3. \E i \in 0..Len(billLog') : search'.lo = EndOf(billLog', i) /\ Passed(i)'
    <3>1. PICK i \in 0..L : search.lo = EndOf(billLog, i) /\ Passed(i)
      BY <2>1, <2>2 DEF BisectionIsRight
    <3>2. i \in 0..Len(billLog') /\ search'.lo = EndOf(billLog', i) /\ Passed(i)'
      BY <1>1, <1>2, <1>5, <3>1
    <3> QED  BY <3>2
  <2>4. \A i \in 1..search'.seen : Begin(i)' > search'.hi => Key(billLog[i])' > search'.want
    <3>1. ASSUME NEW i \in 1..search.seen PROVE i \in 1..L  BY <1>1, <1>3
    <3> QED  BY <1>2, <1>4, <1>6, <2>1, <2>2, <3>1 DEF BisectionIsRight
  <2>5. IsClose' => search'.line <= Len(billLog') + 1 /\ Passed(search.line - 1)'
    <3>1. SUFFICES ASSUME IsClose PROVE search.line <= L + 2 /\ Passed(search.line - 1)'
      BY <1>1, <1>2
    <3>2. search.line <= L + 1 /\ Passed(search.line - 1)
      BY <2>1, <2>2, <3>1 DEF BisectionIsRight
    <3>3. search.line - 1 \in 0..L  BY <1>1, <1>3, <3>2
    <3> QED  BY <1>1, <1>3, <1>5, <3>2, <3>3
  <2>6. search'.at = "bisect" => search'.found = None
    BY <1>2, <2>1, <2>2 DEF BisectionIsRight
  <2>7. search'.seen <= Len(billLog')  BY <1>1, <1>2, <1>3
  <2> QED  BY <2>3, <2>4, <2>5, <2>6, <2>7 DEF BisectionIsRight
<1>9. ReadingIsRight'
  <2>1. SUFFICES ASSUME search.at = "linear" PROVE ReadingIsRight'
    BY <1>2 DEF ReadingIsRight
  <2>2. /\ search.line <= L + 1 /\ Passed(search.line - 1)
        /\ IsClose \/ search.hi < search.lo + Window
        /\ search.by = "sn" => search.found = None
        /\ search.found < search.line
    BY <2>1 DEF SearchInv, ReadingIsRight
  <2>3. search.line - 1 \in 0..L  BY <1>1, <1>3, <2>2
  <2>4. search.line <= L + 2 /\ Passed(search.line - 1)'  BY <1>1, <1>3, <1>5, <2>2, <2>3
  <2> QED  BY <1>1, <1>2, <2>2, <2>4 DEF ReadingIsRight
<1>10. SnIsFound'
  <2>1. SUFFICES ASSUME search.at = "done", search.by = "sn" PROVE SnIsFound'
    BY <1>2 DEF SnIsFound
  <2>2. IF search.found = None
        THEN \A i \in 1..search.seen : billLog[i].sn # search.want
        ELSE search.found \in LogLines /\ billLog[search.found].sn = search.want
    BY <2>1 DEF SearchInv, InvoiceIsFound, SnIsFound
  <2>3. CASE search.found = None
    <3>1. \A i \in 1..search.seen : i \in 1..L  BY <1>1, <1>3
    <3>2. \A i \in 1..search.seen : billLog'[i].sn # search.want  BY <1>1, <2>2, <2>3, <3>1
    <3> QED  BY <1>2, <2>3, <3>2 DEF SnIsFound, None
  <2>4. CASE search.found # None
    <3>1. search.found \in LogLines' /\ billLog'[search.found].sn = search.want
      BY <1>1, <1>7, <2>2, <2>4
    <3> QED  BY <1>2, <2>4, <3>1 DEF SnIsFound, None
  <2> QED  BY <2>3, <2>4
<1>11. TimeIsFound'
  <2> DEFINE late == {i \in LogLines : billLog[i].time >= search.want}
             later == {i \in LogLines' : billLog'[i].time >= search.want}
  <2>1. SUFFICES ASSUME search.at = "done", search.by = "time", later \cap 1..search.seen # {}
                 PROVE  /\ search.found \in later
                        /\ billLog'[search.found].time > search.want =>
                              \A i \in later : search.found <= i
    BY <1>2 DEF TimeIsFound
  <2>2. \A i \in 1..L : i \in late <=> i \in later  BY <1>1, <1>7
  <2>3. late \cap 1..search.seen # {}  BY <1>1, <1>3, <2>1, <2>2
  <2>4. /\ search.found \in late
        /\ billLog[search.found].time > search.want => \A i \in late : search.found <= i
    BY <2>1, <2>3 DEF SearchInv, InvoiceIsFound, TimeIsFound
  <2>5. search.found \in 1..L /\ search.found \in later  BY <1>7, <2>2, <2>4
  <2>6. ASSUME billLog'[search.found].time > search.want, NEW i \in later
        PROVE  search.found <= i
    <3>1. CASE i \in 1..L  BY <1>1, <2>2, <2>4, <2>5, <2>6, <3>1
    <3>2. CASE i \notin 1..L  BY <1>1, <1>7, <2>5, <3>2
    <3> QED  BY <3>1, <3>2
  <2> QED  BY <2>5, <2>6
<1>12. SearchIsShort'
  <2>1. SUFFICES ASSUME search.at = "linear", ~IsClose, NEW i \in 1..search.seen, i < search.line
                 PROVE  Begin(i)' < search.lo + Window
    BY <1>2 DEF SearchIsShort
  <2>2. i \in 1..L  BY <1>1, <1>3
  <2> QED  BY <1>6, <2>1, <2>2 DEF SearchInv, InvoiceIsFound, SearchIsShort
<1> QED  BY <1>1, <1>2, <1>3, <1>8, <1>9, <1>10, <1>11, <1>12 DEF InvoiceIsFound

\* What a step of a search can rely on.
LEMMA SearchFacts ==
  ASSUME BillInv, SearchInv, UNCHANGED payVars
  PROVE  /\ billLog' = billLog /\ LogLines' = LogLines
         /\ Len(billLog) \in Nat /\ LogLines = 1..Len(billLog)
         /\ search \in SearchStates
         /\ \A i \in 0..Len(billLog) : EndOf(billLog, i) \in Nat
         /\ \A i \in LogLines : /\ Key(billLog[i]) \in Nat
                                /\ billLog[i].sn \in Nat /\ billLog[i].time \in Nat
         /\ \A i, j \in 0..Len(billLog) : i <= j => EndOf(billLog, i) <= EndOf(billLog, j)
<1>1. billLog' = billLog /\ LogLines' = LogLines  BY DEF payVars, LogLines
<1>2. Len(billLog) \in Nat /\ LogLines = 1..Len(billLog) /\ search \in SearchStates
  BY DEF BillInv, BillTypeOK, LogLines
<1>3. \A i \in 0..Len(billLog) : EndOf(billLog, i) \in Nat
  BY EndOfType DEF BillInv, BillTypeOK
<1>4. ASSUME NEW i \in LogLines
      PROVE  Key(billLog[i]) \in Nat /\ billLog[i].sn \in Nat /\ billLog[i].time \in Nat
  <2>1. billLog[i] \in BillLine  BY DEF BillInv, BillTypeOK, LogLines
  <2> QED  BY <2>1 DEF BillLine, Key
<1>5. ASSUME NEW i \in 0..Len(billLog), NEW j \in 0..Len(billLog), i <= j
      PROVE  EndOf(billLog, i) <= EndOf(billLog, j)
  <2>1. CASE i < j  BY <1>3, <2>1 DEF SearchInv, LogIsOrdered
  <2>2. CASE i = j  BY <1>3, <2>2
  <2> QED  BY <1>2, <1>5, <2>1, <2>2
<1> QED  BY <1>1, <1>2, <1>3, <1>4, <1>5

\* A search begins with the whole file.
LEMMA FindFirstStep ==
  ASSUME BillInv, SearchInv, NEW by \in {"sn", "time"}, NEW n \in Nat, FindFirst(by, n)
  PROVE  /\ search'.seen <= Len(billLog')
         /\ BisectionIsRight' /\ ReadingIsRight' /\ InvoiceIsFound'
<1> DEFINE L == Len(billLog)
<1>1. UNCHANGED payVars  BY DEF FindFirst
<1>2. /\ billLog' = billLog /\ L \in Nat
      /\ \A i \in 0..L : EndOf(billLog, i) \in Nat
      /\ \A i, j \in 0..L : i <= j => EndOf(billLog, i) <= EndOf(billLog, j)
  BY <1>1, SearchFacts
<1>3. /\ search'.at = "bisect" /\ search'.lo = 0 /\ search'.hi = Size(billLog)
      /\ search'.line = 1 /\ search'.seen = L /\ search'.found = None
  BY DEF FindFirst
<1>4. EndOf(billLog, 0) = 0 /\ Passed(0)' /\ 0 \in 0..Len(billLog')
  BY <1>2 DEF EndOf, Passed
<1>5. ASSUME NEW i \in 1..L PROVE ~(Begin(i)' > search'.hi)
  <2>1. i - 1 \in 0..L /\ L \in 0..L /\ i - 1 <= L  BY <1>2
  <2>2. EndOf(billLog, i - 1) <= EndOf(billLog, L)  BY <1>2, <2>1
  <2> QED  BY <1>2, <1>3, <2>1, <2>2 DEF Begin, Size
<1>6. BisectionIsRight'
  <2>1. \E i \in 0..Len(billLog') : search'.lo = EndOf(billLog', i) /\ Passed(i)'
    BY <1>2, <1>3, <1>4
  <2>2. search'.line <= Len(billLog') + 1 /\ Passed(search.line - 1)'
    BY <1>2, <1>3 DEF Passed
  <2> QED  BY <1>2, <1>3, <1>5, <2>1, <2>2 DEF BisectionIsRight
<1>7. ReadingIsRight'  BY <1>3 DEF ReadingIsRight
<1>8. InvoiceIsFound'
  BY <1>3 DEF InvoiceIsFound, SnIsFound, TimeIsFound, SearchIsShort
<1> QED  BY <1>2, <1>3, <1>6, <1>7, <1>8

\* What a step leaves of the bisection when it only begins to read.
LEMMA StopNearStep ==
  ASSUME BillInv, SearchInv, StopNear
  PROVE  /\ search'.seen <= Len(billLog')
         /\ BisectionIsRight' /\ ReadingIsRight' /\ InvoiceIsFound'
<1>1. UNCHANGED payVars  BY DEF StopNear
<1>2. billLog' = billLog /\ search \in SearchStates /\ Len(billLog) \in Nat
  BY <1>1, SearchFacts
<1>3. /\ search.at = "bisect" /\ search'.at = "linear"
      /\ search'.by = search.by /\ search'.want = search.want /\ search'.lo = search.lo
      /\ search'.hi = search.hi /\ search'.cur = search.cur /\ search'.line = search.line
      /\ search'.seen = search.seen /\ search'.found = search.found
  BY <1>2 DEF StopNear, SearchStates
<1>4. IsClose /\ IsClose'  BY <1>3 DEF StopNear, IsClose
<1>5. BisectionIsRight /\ search.seen <= Len(billLog)  BY DEF SearchInv
<1>6. /\ \A i : Passed(i) => Passed(i)'
      /\ Passed(search.line - 1) => Passed(search.line - 1)'
  BY <1>2, <1>3 DEF Passed, Key
<1>7. search.line <= Len(billLog) + 1 /\ Passed(search.line - 1)'
  BY <1>3, <1>4, <1>5, <1>6 DEF BisectionIsRight
<1>8. search.found = None  BY <1>3, <1>5 DEF BisectionIsRight
<1>9. BisectionIsRight'
  <2>1. \E i \in 0..Len(billLog') : search'.lo = EndOf(billLog', i) /\ Passed(i)'
    <3>1. PICK i \in 0..Len(billLog) : search.lo = EndOf(billLog, i) /\ Passed(i)
      BY <1>3, <1>5 DEF BisectionIsRight
    <3> QED  BY <1>2, <1>3, <1>6, <3>1
  <2>2. \A i \in 1..search'.seen : Begin(i)' > search'.hi => Key(billLog[i])' > search'.want
    BY <1>2, <1>3, <1>5 DEF BisectionIsRight, Begin, Key
  <2> QED  BY <1>2, <1>3, <1>5, <1>7, <2>1, <2>2 DEF BisectionIsRight
<1>10. search.line \in Nat \ {0}  BY <1>2 DEF SearchStates
<1>11. ReadingIsRight'  BY <1>2, <1>3, <1>4, <1>7, <1>8, <1>10 DEF ReadingIsRight, None
<1>12. InvoiceIsFound'
  BY <1>3, <1>4 DEF InvoiceIsFound, SnIsFound, TimeIsFound, SearchIsShort
<1> QED  BY <1>2, <1>3, <1>5, <1>9, <1>11, <1>12

\* The linear search starts behind smaller lines.
LEMMA NarrowStep ==
  ASSUME BillInv, SearchInv, Narrow
  PROVE  /\ search'.seen <= Len(billLog')
         /\ BisectionIsRight' /\ ReadingIsRight' /\ InvoiceIsFound'
<1> DEFINE L == Len(billLog)
<1>1. UNCHANGED payVars  BY DEF Narrow
<1>2. /\ billLog' = billLog /\ search \in SearchStates /\ L \in Nat
      /\ \A i \in 0..L : EndOf(billLog, i) \in Nat
  BY <1>1, SearchFacts
<1>3. PICK i \in 0..L :
        /\ EndOf(billLog, i) = search.lo
        /\ search' = [search EXCEPT !.at = "linear", !.line = i + 1]
  BY DEF Narrow
<1>4. search.at = "bisect" /\ ~IsClose /\ search.hi < search.lo + Window  BY DEF Narrow
<1>5. /\ search'.at = "linear" /\ search'.line = i + 1
      /\ search'.by = search.by /\ search'.want = search.want /\ search'.lo = search.lo
      /\ search'.hi = search.hi /\ search'.cur = search.cur
      /\ search'.seen = search.seen /\ search'.found = search.found
  BY <1>2, <1>3 DEF SearchStates
<1>6. ~IsClose'  BY <1>4, <1>5 DEF IsClose
<1>7. BisectionIsRight /\ search.seen <= L  BY DEF SearchInv
<1>8. \A j : Passed(j) => Passed(j)'  BY <1>2, <1>5 DEF Passed, Key
<1>9. Passed(i)
  <2>1. PICK j \in 0..L : search.lo = EndOf(billLog, j) /\ Passed(j)
    BY <1>4, <1>7 DEF BisectionIsRight
  <2>2. j = i  BY <1>2, <1>3, <2>1 DEF SearchInv, LogIsOrdered
  <2> QED  BY <2>1, <2>2
<1>10. BisectionIsRight'
  <2>1. \E j \in 0..Len(billLog') : search'.lo = EndOf(billLog', j) /\ Passed(j)'
    BY <1>2, <1>3, <1>5, <1>8, <1>9
  <2>2. \A j \in 1..search'.seen : Begin(j)' > search'.hi => Key(billLog[j])' > search'.want
    BY <1>2, <1>4, <1>5, <1>7 DEF BisectionIsRight, Begin, Key
  <2> QED  BY <1>2, <1>5, <1>6, <1>7, <2>1, <2>2 DEF BisectionIsRight
<1>11. ReadingIsRight'
  <2>1. search.found = None  BY <1>4, <1>7 DEF BisectionIsRight
  <2>2. Passed(search.line - 1)'  BY <1>3, <1>5, <1>8, <1>9 DEF Passed
  <2> QED  BY <1>2, <1>3, <1>4, <1>5, <2>1, <2>2 DEF ReadingIsRight, None
<1>12. SearchIsShort'
  <2>1. SUFFICES ASSUME NEW j \in 1..search.seen, j < i + 1
                 PROVE  Begin(j)' < search.lo + Window
    BY <1>5 DEF SearchIsShort
  <2>2. j - 1 \in 0..L /\ j - 1 < i  BY <1>2, <1>3, <1>7, <2>1
  <2>3. EndOf(billLog, j - 1) < EndOf(billLog, i)  BY <1>3, <2>2 DEF SearchInv, LogIsOrdered
  <2> QED  BY <1>2, <1>3, <2>2, <2>3, BillingAssumption DEF Begin
<1>13. InvoiceIsFound'
  BY <1>5, <1>12 DEF InvoiceIsFound, SnIsFound, TimeIsFound
<1> QED  BY <1>2, <1>5, <1>7, <1>10, <1>11, <1>13

\* A turn of a linear search that passes over a smaller line.
LEMMA ReadOn ==
  ASSUME BillInv, SearchInv, UNCHANGED payVars, search.at = "linear",
         search.line \in LogLines, Key(billLog[search.line]) < search.want,
         \/ search' = [search EXCEPT !.line = search.line + 1]
         \/ /\ search.by = "time"
            /\ search' = [search EXCEPT !.found = search.line, !.line = search.line + 1]
  PROVE  /\ search'.seen <= Len(billLog')
         /\ BisectionIsRight' /\ ReadingIsRight' /\ InvoiceIsFound'
<1> DEFINE L == Len(billLog)
<1>1. /\ billLog' = billLog /\ search \in SearchStates
      /\ L \in Nat /\ LogLines = 1..L
      /\ \A i \in 0..L : EndOf(billLog, i) \in Nat
      /\ \A i \in LogLines : Key(billLog[i]) \in Nat
  BY SearchFacts
<1>2. PICK line \in 1..L : line = search.line  BY <1>1
<1>3. /\ BisectionIsRight /\ search.seen \in Nat /\ search.seen <= L
      /\ search.want \in Nat /\ search.lo \in Nat /\ search.hi \in Nat /\ search.found \in Nat
  BY <1>1 DEF SearchInv, SearchStates
<1>4. /\ Passed(line - 1) /\ (search.by = "sn" => search.found = None)
      /\ IsClose \/ search.hi < search.lo + Window
      /\ search.found < line
  BY <1>2 DEF SearchInv, ReadingIsRight
<1>5. /\ search'.at = "linear" /\ search'.by = search.by /\ search'.want = search.want
      /\ search'.lo = search.lo /\ search'.hi = search.hi /\ search'.cur = search.cur
      /\ search'.seen = search.seen /\ search'.line = line + 1
      /\ \/ search'.found = search.found
         \/ search.by = "time" /\ search'.found = line
  BY <1>1, <1>2 DEF SearchStates
<1>6. IsClose' <=> IsClose  BY <1>5 DEF IsClose
<1>7. \A j \in 1..line : Key(billLog[j]) < search.want
  BY <1>1, <1>2, <1>4 DEF Passed
<1>8. Passed(search.line - 1)' /\ \A k : Passed(k) => Passed(k)'
  <2>1. line \in Nat /\ (line + 1) - 1 = line  BY <1>1
  <2> QED  BY <1>1, <1>5, <1>7, <2>1 DEF Passed, Key
<1>9. \A j \in 1..search.seen : Begin(j)' = Begin(j) /\ Key(billLog[j])' = Key(billLog[j])
  BY <1>1, <1>5 DEF Begin, Key
<1>10. search'.line <= Len(billLog') + 1  BY <1>1, <1>5
<1>11. BisectionIsRight'
  <2>1. PICK k \in 0..L : search.lo = EndOf(billLog, k) /\ Passed(k)
    BY <1>3 DEF BisectionIsRight
  <2>2. \E j \in 0..Len(billLog') : search'.lo = EndOf(billLog', j) /\ Passed(j)'
    BY <1>1, <1>5, <1>8, <2>1
  <2>3. \A j \in 1..search'.seen : Begin(j)' > search'.hi => Key(billLog[j])' > search'.want
    BY <1>3, <1>5, <1>9 DEF BisectionIsRight
  <2>4. search'.seen <= Len(billLog')  BY <1>1, <1>3, <1>5
  <2> QED  BY <1>5, <1>8, <1>10, <2>2, <2>3, <2>4 DEF BisectionIsRight
<1>12. ReadingIsRight'
  <2>1. search'.found < search'.line  BY <1>1, <1>3, <1>4, <1>5
  <2>2. search'.by = "sn" => search'.found = None  BY <1>4, <1>5
  <2>3. IsClose' \/ search'.hi < search'.lo + Window  BY <1>4, <1>5, <1>6
  <2> QED  BY <1>8, <1>10, <2>1, <2>2, <2>3 DEF ReadingIsRight
<1>13. SearchIsShort'
  <2>1. SUFFICES ASSUME ~IsClose, NEW j \in 1..search.seen, j < line + 1
                 PROVE  Begin(j) < search.lo + Window
    BY <1>5, <1>6, <1>9 DEF SearchIsShort
  <2>2. j \in LogLines /\ j <= line /\ j \in Nat  BY <1>1, <1>3, <2>1
  <2>3. Key(billLog[j]) < search.want  BY <1>1, <1>7, <2>2
  <2>4. Begin(j) > search.hi => Key(billLog[j]) > search.want
    BY <1>3 DEF BisectionIsRight
  <2>5. Key(billLog[j]) \in Nat  BY <1>1, <2>2
  <2>6. ~(Begin(j) > search.hi)  BY <1>3, <2>3, <2>4, <2>5
  <2>7. j - 1 \in 0..L /\ Begin(j) \in Nat  BY <1>1, <2>2 DEF Begin
  <2>8. search.hi < search.lo + Window  BY <1>4, <2>1
  <2>9. Window \in Nat  BY BillingAssumption
  <2> QED  BY <1>3, <2>6, <2>7, <2>8, <2>9
<1>14. InvoiceIsFound'  BY <1>5, <1>13 DEF InvoiceIsFound, SnIsFound, TimeIsFound
<1> QED  BY <1>1, <1>3, <1>5, <1>11, <1>12, <1>14

\* Probing halves what is left, on the right side.
LEMMA ProbeStep ==
  ASSUME BillInv, SearchInv, Probe
  PROVE  /\ search'.seen <= Len(billLog')
         /\ BisectionIsRight' /\ ReadingIsRight' /\ InvoiceIsFound'
<1> DEFINE L == Len(billLog)
<1>1. UNCHANGED payVars /\ search.at = "bisect" /\ ~IsClose  BY DEF Probe
<1>2. /\ billLog' = billLog /\ LogLines' = LogLines /\ search \in SearchStates
      /\ L \in Nat /\ LogLines = 1..L
      /\ \A i \in 0..L : EndOf(billLog, i) \in Nat
      /\ \A i \in LogLines : /\ Key(billLog[i]) \in Nat
                             /\ billLog[i].sn \in Nat /\ billLog[i].time \in Nat
      /\ \A i, j \in 0..L : i <= j => EndOf(billLog, i) <= EndOf(billLog, j)
  BY <1>1, SearchFacts
<1>3. /\ BisectionIsRight /\ LogIsOrdered
      /\ search.seen \in Nat /\ search.seen <= L /\ search.want \in Nat
  BY <1>2 DEF SearchInv, SearchStates
<1>4. PICK pos \in Nat, i \in 1..L :
        /\ EndOf(billLog, i - 1) <= pos /\ pos < EndOf(billLog, i)
        /\ ProbeEnds(pos, i) \/ ProbeUp(i) \/ ProbeDown(pos, i) \/ ProbeHits(i)
  BY ProbeCases DEF BillInv
<1>5. /\ search'.by = search.by /\ search'.want = search.want /\ search'.seen = search.seen
  BY <1>2, <1>4 DEF ProbeEnds, ProbeUp, ProbeDown, ProbeHits, SearchStates
<1>6. \A k : Passed(k) => Passed(k)'  BY <1>2, <1>5 DEF Passed, Key
<1>7. \A j \in 1..search.seen : Begin(j)' = Begin(j) /\ Key(billLog[j])' = Key(billLog[j])
  BY <1>2, <1>5 DEF Begin, Key
<1>8. PICK k \in 0..L : search.lo = EndOf(billLog, k) /\ Passed(k)
  BY <1>1, <1>3 DEF BisectionIsRight
\* A line that begins behind pos is not before the one that was read.
<1>9. ASSUME NEW j \in 1..search.seen, Begin(j)' > pos PROVE j > i
  <2>0. j \in Nat /\ j >= 1 /\ j <= L /\ i \in Nat /\ i >= 1 /\ i <= L  BY <1>2, <1>3
  <2>1. SUFFICES ASSUME j <= i PROVE FALSE  BY <2>0
  <2>2. j - 1 \in 0..L /\ i - 1 \in 0..L /\ j - 1 <= i - 1  BY <1>2, <2>0, <2>1
  <2>3. EndOf(billLog, j - 1) <= EndOf(billLog, i - 1)  BY <1>2, <2>2
  <2>4. EndOf(billLog, j - 1) > pos  BY <1>7, <1>9 DEF Begin
  <2>5. EndOf(billLog, j - 1) \in Nat /\ EndOf(billLog, i - 1) \in Nat  BY <1>2, <2>2
  <2> QED  BY <1>4, <2>3, <2>4, <2>5
<1>10. CASE ProbeEnds(pos, i)
  <2>1. /\ i = L /\ search'.at = "bisect" /\ search'.hi = pos /\ search'.lo = search.lo
        /\ search'.cur = search.cur /\ search'.found = search.found
    BY <1>1, <1>2, <1>10 DEF ProbeEnds, SearchStates
  <2>2. ~IsClose'  BY <1>1, <1>5, <2>1 DEF IsClose
  <2>3. \E j \in 0..Len(billLog') : search'.lo = EndOf(billLog', j) /\ Passed(j)'
    BY <1>2, <1>6, <1>8, <2>1
  <2>4. \A j \in 1..search'.seen : ~(Begin(j)' > search'.hi)
    BY <1>2, <1>3, <1>5, <1>9, <2>1
  <2>5. search.found = None  BY <1>1, <1>3 DEF BisectionIsRight
  <2>6. BisectionIsRight'
    BY <1>2, <1>3, <1>5, <2>1, <2>2, <2>3, <2>4, <2>5 DEF BisectionIsRight
  <2>7. ReadingIsRight' /\ InvoiceIsFound'
    BY <2>1 DEF ReadingIsRight, InvoiceIsFound, SnIsFound, TimeIsFound, SearchIsShort
  <2> QED  BY <1>2, <1>3, <1>5, <2>6, <2>7
<1>11. ASSUME i < L
       PROVE  /\ i + 1 \in LogLines /\ Key(billLog[i + 1]) \in Nat
              /\ \A j \in LogLines : j <= i + 1 => Key(billLog[j]) <= Key(billLog[i + 1])
              /\ \A j \in LogLines : j > i => Key(billLog[j]) >= Key(billLog[i + 1])
  <2>1. i + 1 \in LogLines  BY <1>2, <1>11
  <2>2. \A j \in LogLines : j <= i + 1 => Key(billLog[j]) <= Key(billLog[i + 1])
    BY <2>1, <1>3, KeysAreOrdered
  <2>3. ASSUME NEW j \in LogLines, j > i PROVE Key(billLog[j]) >= Key(billLog[i + 1])
    <3>1. i + 1 <= j  BY <1>2, <2>3
    <3>2. Key(billLog[i + 1]) <= Key(billLog[j])  BY <1>3, <2>1, <3>1, KeysAreOrdered
    <3> QED  BY <1>2, <2>1, <3>2
  <2> QED  BY <1>2, <2>1, <2>2, <2>3
<1>12. CASE ProbeUp(i)
  <2>0. i < L /\ Key(billLog[i + 1]) < search.want  BY <1>12 DEF ProbeUp
  <2>1. /\ search'.at = "bisect" /\ search'.lo = EndOf(billLog, i + 1) /\ search'.hi = search.hi
        /\ search'.line = i + 2 /\ search'.found = search.found
    BY <1>1, <1>2, <1>12 DEF ProbeUp, SearchStates
  <2>2. ASSUME NEW j \in 1..(i + 1) PROVE Key(billLog[j]) < search.want
    <3>1. j \in LogLines /\ j <= i + 1  BY <1>2, <2>0
    <3>2. Key(billLog[j]) <= Key(billLog[i + 1]) /\ Key(billLog[j]) \in Nat
      BY <1>2, <1>11, <2>0, <3>1
    <3> QED  BY <1>3, <1>11, <2>0, <3>2
  <2>3. Passed(i + 1)'  BY <1>2, <1>5, <2>2 DEF Passed, Key
  <2>4. Passed(search.line - 1)'  BY <1>2, <1>5, <2>1, <2>2 DEF Passed, Key
  <2>5. \E j \in 0..Len(billLog') : search'.lo = EndOf(billLog', j) /\ Passed(j)'
    <3>1. i + 1 \in 0..Len(billLog')  BY <1>2, <2>0
    <3> QED  BY <1>2, <2>1, <2>3, <3>1
  <2>6. \A j \in 1..search'.seen : Begin(j)' > search'.hi => Key(billLog[j])' > search'.want
    BY <1>1, <1>3, <1>5, <1>7, <2>1 DEF BisectionIsRight
  <2>7. search.found = None /\ search'.line <= Len(billLog') + 1
    BY <1>1, <1>2, <1>3, <2>0, <2>1 DEF BisectionIsRight
  <2>8. BisectionIsRight'
    BY <1>2, <1>3, <1>5, <2>1, <2>4, <2>5, <2>6, <2>7 DEF BisectionIsRight
  <2>9. ReadingIsRight' /\ InvoiceIsFound'
    BY <2>1 DEF ReadingIsRight, InvoiceIsFound, SnIsFound, TimeIsFound, SearchIsShort
  <2> QED  BY <1>2, <1>3, <1>5, <2>8, <2>9
<1>13. CASE ProbeDown(pos, i)
  <2>0. i < L /\ Key(billLog[i + 1]) > search.want  BY <1>13 DEF ProbeDown
  <2>1. /\ search'.at = "bisect" /\ search'.lo = search.lo /\ search'.hi = pos
        /\ search'.cur = Key(billLog[i + 1]) /\ search'.found = search.found
    BY <1>1, <1>2, <1>13 DEF ProbeDown, SearchStates
  <2>2. ~IsClose'
    <3>1. ~(search'.cur < search'.want)  BY <1>3, <1>5, <1>11, <2>0, <2>1
    <3> QED  BY <3>1 DEF IsClose
  <2>3. \E j \in 0..Len(billLog') : search'.lo = EndOf(billLog', j) /\ Passed(j)'
    BY <1>2, <1>6, <1>8, <2>1
  <2>4. ASSUME NEW j \in 1..search.seen, Begin(j)' > pos PROVE Key(billLog[j])' > search.want
    <3>1. j > i /\ j \in LogLines  BY <1>2, <1>3, <1>9, <2>4
    <3>2. Key(billLog[j]) >= Key(billLog[i + 1]) /\ Key(billLog[j]) \in Nat
      BY <1>2, <1>11, <2>0, <3>1
    <3> QED  BY <1>3, <1>7, <1>11, <2>0, <3>2
  <2>5. \A j \in 1..search'.seen : Begin(j)' > search'.hi => Key(billLog[j])' > search'.want
    BY <1>5, <2>1, <2>4
  <2>6. search.found = None  BY <1>1, <1>3 DEF BisectionIsRight
  <2>7. BisectionIsRight'
    BY <1>2, <1>3, <1>5, <2>1, <2>2, <2>3, <2>5, <2>6 DEF BisectionIsRight
  <2>8. ReadingIsRight' /\ InvoiceIsFound'
    BY <2>1 DEF ReadingIsRight, InvoiceIsFound, SnIsFound, TimeIsFound, SearchIsShort
  <2> QED  BY <1>2, <1>3, <1>5, <2>7, <2>8
<1>14. CASE ProbeHits(i)
  <2>0. i < L /\ Key(billLog[i + 1]) = search.want  BY <1>14 DEF ProbeHits
  <2>1. search'.at = "done" /\ search'.found = i + 1
    BY <1>1, <1>2, <1>14 DEF ProbeHits, SearchStates
  <2>2. i + 1 \in LogLines' /\ i + 1 # None  BY <1>2, <1>11, <2>0 DEF None
  <2>3. SnIsFound'
    <3>1. search.by = "sn" => billLog'[i + 1].sn = search.want  BY <1>2, <2>0 DEF Key
    <3> QED  BY <1>5, <2>1, <2>2, <3>1 DEF SnIsFound, None
  <2>4. TimeIsFound'
    <3>1. search.by = "time" => billLog'[i + 1].time = search.want  BY <1>2, <2>0 DEF Key
    <3> QED  BY <1>3, <1>5, <2>1, <2>2, <3>1 DEF TimeIsFound
  <2>5. BisectionIsRight' /\ ReadingIsRight' /\ SearchIsShort'
    BY <2>1 DEF BisectionIsRight, ReadingIsRight, SearchIsShort
  <2> QED  BY <1>2, <1>3, <1>5, <2>3, <2>4, <2>5 DEF InvoiceIsFound
<1> QED  BY <1>4, <1>10, <1>12, <1>13, <1>14

\* The linear search of findsn returns the invoice, or there is none.
LEMMA ReadSnStep ==
  ASSUME BillInv, SearchInv, ReadSn
  PROVE  /\ search'.seen <= Len(billLog')
         /\ BisectionIsRight' /\ ReadingIsRight' /\ InvoiceIsFound'
<1> DEFINE L == Len(billLog)
           line == search.line
<1>1. UNCHANGED payVars /\ search.at = "linear" /\ search.by = "sn"  BY DEF ReadSn
<1>2. /\ billLog' = billLog /\ LogLines' = LogLines /\ search \in SearchStates
      /\ L \in Nat /\ LogLines = 1..L
      /\ \A i \in LogLines : Key(billLog[i]) \in Nat /\ billLog[i].sn \in Nat
  BY <1>1, SearchFacts
<1>3. /\ LogIsOrdered /\ BisectionIsRight /\ search.seen \in Nat /\ search.seen <= L
      /\ search.want \in Nat /\ line \in Nat \ {0}
  BY <1>2 DEF SearchInv, SearchStates
<1>4. /\ line <= L + 1 /\ Passed(line - 1) /\ search.found = None
      /\ IsClose \/ search.hi < search.lo + Window
  BY <1>1 DEF SearchInv, ReadingIsRight
<1>5. CASE AtEnd \/ Key(billLog[line]) > search.want
  <2>1. /\ search'.at = "done" /\ search'.by = "sn" /\ search'.found = None
        /\ search'.want = search.want /\ search'.seen = search.seen
    BY <1>1, <1>2, <1>4, <1>5 DEF ReadSn, SearchStates
  <2>2. ASSUME NEW i \in 1..search.seen PROVE billLog[i].sn # search.want
    <3>1. i \in LogLines /\ Key(billLog[i]) = billLog[i].sn /\ i \in Nat
      BY <1>1, <1>2, <1>3 DEF Key
    <3>2. CASE i < line  BY <1>2, <1>3, <1>4, <3>1, <3>2 DEF Passed
    <3>3. CASE i >= line
      <4>1. line \in LogLines /\ ~AtEnd  BY <1>2, <1>3, <3>1, <3>3 DEF AtEnd
      <4>2. Key(billLog[line]) <= Key(billLog[i])  BY <1>3, <3>1, <3>3, <4>1, KeysAreOrdered
      <4> QED  BY <1>2, <1>3, <1>5, <3>1, <4>1, <4>2
    <3> QED  BY <1>3, <3>1, <3>2, <3>3
  <2>3. SnIsFound'  BY <1>2, <2>1, <2>2 DEF SnIsFound
  <2>4. TimeIsFound' /\ SearchIsShort' /\ BisectionIsRight' /\ ReadingIsRight'
    BY <2>1 DEF TimeIsFound, SearchIsShort, BisectionIsRight, ReadingIsRight
  <2> QED  BY <1>2, <1>3, <2>1, <2>3, <2>4 DEF InvoiceIsFound
<1>6. CASE ~AtEnd /\ ~(Key(billLog[line]) > search.want)
  <2>0. line \in LogLines  BY <1>2, <1>3, <1>6 DEF AtEnd
  <2>1. CASE Key(billLog[line]) = search.want
    <3>1. /\ search'.at = "done" /\ search'.by = "sn" /\ search'.found = line
          /\ search'.want = search.want /\ search'.seen = search.seen
      BY <1>1, <1>2, <1>6, <2>1 DEF ReadSn, SearchStates
    <3>2. line \in LogLines' /\ billLog'[line].sn = search.want /\ line # None
      BY <1>1, <1>2, <1>3, <2>0, <2>1 DEF Key, None
    <3>3. SnIsFound'  BY <3>1, <3>2 DEF SnIsFound, None
    <3>4. TimeIsFound' /\ SearchIsShort' /\ BisectionIsRight' /\ ReadingIsRight'
      BY <3>1 DEF TimeIsFound, SearchIsShort, BisectionIsRight, ReadingIsRight
    <3> QED  BY <1>2, <1>3, <3>1, <3>3, <3>4 DEF InvoiceIsFound
  <2>2. CASE Key(billLog[line]) # search.want
    <3>1. search' = [search EXCEPT !.line = line + 1]  BY <1>6, <2>2 DEF ReadSn
    <3>2. Key(billLog[line]) < search.want  BY <1>2, <1>3, <1>6, <2>0, <2>2
    <3> QED  BY <1>1, <1>4, <2>0, <3>1, <3>2, ReadOn
  <2> QED  BY <2>1, <2>2
<1> QED  BY <1>5, <1>6

\* The linear search of findtime returns the first late line, or the last one of all.
LEMMA ReadTimeStep ==
  ASSUME BillInv, SearchInv, ReadTime
  PROVE  /\ search'.seen <= Len(billLog')
         /\ BisectionIsRight' /\ ReadingIsRight' /\ InvoiceIsFound'
<1> DEFINE L == Len(billLog)
           line == search.line
           late == {i \in LogLines : billLog[i].time >= search.want}
<1>1. UNCHANGED payVars /\ search.at = "linear" /\ search.by = "time"  BY DEF ReadTime
<1>2. /\ billLog' = billLog /\ LogLines' = LogLines /\ search \in SearchStates
      /\ L \in Nat /\ LogLines = 1..L
      /\ \A i \in LogLines : Key(billLog[i]) \in Nat /\ billLog[i].time \in Nat
  BY <1>1, SearchFacts
<1>3. /\ search.seen \in Nat /\ search.seen <= L
      /\ search.want \in Nat /\ line \in Nat \ {0}
  BY <1>2 DEF SearchInv, SearchStates
<1>4. line <= L + 1 /\ Passed(line - 1)
  BY <1>1 DEF SearchInv, ReadingIsRight
<1>5. \A i \in LogLines : Key(billLog[i]) = billLog[i].time  BY <1>1 DEF Key
<1>6. ASSUME NEW i \in late PROVE line <= i
  <2>1. SUFFICES ASSUME i < line PROVE FALSE  BY <1>2, <1>3
  <2>2. i \in 1..(line - 1) /\ i \in LogLines  BY <1>2, <1>3, <2>1
  <2> QED  BY <1>2, <1>3, <1>4, <1>5, <1>6, <2>2 DEF Passed
<1>7. CASE AtEnd
  <2>1. /\ search'.at = "done" /\ search'.by = "time"
        /\ search'.want = search.want /\ search'.seen = search.seen
    BY <1>1, <1>2, <1>7 DEF ReadTime, SearchStates
  <2>2. late \cap 1..search.seen = {}
    <3>1. \A i \in late : i > L  BY <1>2, <1>3, <1>6, <1>7 DEF AtEnd
    <3> QED  BY <1>2, <1>3, <3>1
  <2>3. TimeIsFound'  BY <1>2, <2>1, <2>2 DEF TimeIsFound
  <2>4. SnIsFound' /\ SearchIsShort' /\ BisectionIsRight' /\ ReadingIsRight'
    BY <2>1 DEF SnIsFound, SearchIsShort, BisectionIsRight, ReadingIsRight
  <2> QED  BY <1>2, <1>3, <2>1, <2>3, <2>4 DEF InvoiceIsFound
<1>8. CASE ~AtEnd
  <2>0. line \in LogLines  BY <1>2, <1>3, <1>8 DEF AtEnd
  <2>1. CASE IsLate(billLog[line])
    <3>1. search' = [search EXCEPT !.found = line, !.line = line + 1, !.at = "done"]
      BY <1>8, <2>1 DEF ReadTime
    <3>2. /\ search'.at = "done" /\ search'.by = "time" /\ search'.found = line
          /\ search'.want = search.want /\ search'.seen = search.seen
      BY <1>1, <1>2, <3>1 DEF SearchStates
    <3>3. line \in late  BY <1>2, <1>5, <2>0, <2>1 DEF IsLate
    <3>4. TimeIsFound'  BY <1>2, <1>6, <3>2, <3>3 DEF TimeIsFound
    <3>5. SnIsFound' /\ SearchIsShort' /\ BisectionIsRight' /\ ReadingIsRight'
      BY <3>2 DEF SnIsFound, SearchIsShort, BisectionIsRight, ReadingIsRight
    <3> QED  BY <1>2, <1>3, <3>2, <3>4, <3>5 DEF InvoiceIsFound
  <2>2. CASE ~IsLate(billLog[line])
    <3>1. search' = [search EXCEPT !.found = line, !.line = line + 1, !.at = search.at]
      BY <1>8, <2>2 DEF ReadTime
    <3>2. [search EXCEPT !.found = line, !.line = line + 1] \in SearchStates
      <4>1. line \in Nat /\ line + 1 \in Nat \ {0}  BY <1>3
      <4>2. [search EXCEPT !.found = line] \in SearchStates
        BY <1>2, <4>1, AssignmentsKeepTypes
      <4> QED  BY <4>1, <4>2, AssignmentsKeepTypes
    <3>3. search' = [search EXCEPT !.found = line, !.line = line + 1]
      BY <1>2, <3>1, <3>2 DEF SearchStates
    <3>4. Key(billLog[line]) < search.want  BY <1>2, <1>3, <2>0, <2>2 DEF IsLate
    <3> QED  BY <1>1, <2>0, <3>3, <3>4, ReadOn
  <2> QED  BY <2>1, <2>2
<1> QED  BY <1>7, <1>8

\* Every step keeps the invariant of the searches.
LEMMA SearchInvStep ==
  ASSUME BillInv, SearchInv, [BillNext]_billVars
  PROVE  SearchInv'
<1> DEFINE Right == /\ search'.seen <= Len(billLog')
                    /\ BisectionIsRight' /\ ReadingIsRight' /\ InvoiceIsFound'
<1>1. LogIsOrdered'  BY LogOrderStep DEF BillInv, SearchInv
<1>2. SUFFICES Right  BY <1>1 DEF SearchInv
<1>3. CASE UNCHANGED <<billLog, search>>
  <2>1. IsClose' <=> IsClose  BY <1>3 DEF IsClose
  <2>2. \A k : Passed(k) => Passed(k)'  BY <1>3 DEF Passed, Key
  <2>3. BisectionIsRight'  BY <1>3 DEF SearchInv, BisectionIsRight, IsClose, Passed, Key, Begin
  <2>4. ReadingIsRight'  BY <1>3 DEF SearchInv, ReadingIsRight, IsClose, Passed, Key
  <2>5. InvoiceIsFound'
    BY <1>3 DEF SearchInv, InvoiceIsFound, SnIsFound, TimeIsFound, SearchIsShort, LogLines,
                Begin, IsClose
  <2> QED  BY <1>3, <2>3, <2>4, <2>5 DEF SearchInv
<1>4. ASSUME NEW p \in Payers, AppendBill(p) PROVE Right  BY <1>4, SearchGrows
<1>5. ASSUME NEW by \in {"sn", "time"}, NEW n \in Nat, FindFirst(by, n) PROVE Right
  BY <1>5, FindFirstStep
<1>6. CASE StopNear  BY <1>6, StopNearStep
<1>7. CASE Narrow  BY <1>7, NarrowStep
<1>8. CASE Probe  BY <1>8, ProbeStep
<1>9. CASE ReadSn  BY <1>9, ReadSnStep
<1>10. CASE ReadTime  BY <1>10, ReadTimeStep
<1>11. \/ UNCHANGED <<billLog, search>>
       \/ \E p \in Payers : AppendBill(p)
       \/ SearchStep
  BY PaymentsDoNotSearch DEF BillNext, PayStep, BillStep, LockBill, NumberBill, EndBill, BillTick,
                             billVars, payVars
<1>12. SearchStep => \/ \E by \in {"sn", "time"}, n \in Nat : FindFirst(by, n)
                     \/ StopNear \/ Narrow \/ Probe \/ ReadSn \/ ReadTime
  <2>1. \A sn \in 0..(FirstSn + LogBound + 1) : sn \in Nat  BY BillingAssumption
  <2>2. \A t \in 0..(LastSecond + 1) : t \in Nat  BY BillingAssumption
  <2> QED  BY <2>1, <2>2 DEF SearchStep, FindSn, FindTime
<1> HIDE DEF Right
<1> QED  BY <1>3, <1>4, <1>5, <1>6, <1>7, <1>8, <1>9, <1>10, <1>11, <1>12

\* Each invoice is found by its number and by its time, by reading little more than a
\* window, in a log of any length with lines of any lengths, while payments go on
\* (findsn, findtime).
THEOREM InvoiceIsFoundHolds == BillSpec => []InvoiceIsFound
<1>1. BillInit => SearchInv
  <2>1. SUFFICES ASSUME BillInit PROVE SearchInv  OBVIOUS
  <2>2. billLog = <<>> /\ Len(billLog) = 0 /\ search.at = "idle" /\ search.seen = 0
    BY <2>1 DEF BillInit
  <2>3. LogIsOrdered  BY <2>2 DEF LogIsOrdered, LogLines
  <2>4. BisectionIsRight /\ ReadingIsRight  BY <2>2 DEF BisectionIsRight, ReadingIsRight
  <2>5. InvoiceIsFound
    BY <2>2 DEF InvoiceIsFound, SnIsFound, TimeIsFound, SearchIsShort
  <2> QED  BY <2>2, <2>3, <2>4, <2>5 DEF SearchInv
<1>2. BillInv /\ [BillNext]_billVars => BillInv'
  BY BillTypeStep, BillLockStep, BillNumberStep, BillSerialStep DEF BillInv
<1>3. BillInv /\ SearchInv /\ [BillNext]_billVars => SearchInv'  BY SearchInvStep
<1>4. SearchInv => InvoiceIsFound  BY DEF SearchInv
<1> QED  BY InitSatisfiesBillInv, <1>1, <1>2, <1>3, <1>4, PTL DEF BillSpec

----------------------------------------------------------------------------
(***************************************************************************)
(* Issuer protocol.  ProtoInv is inductive: a transfer is executed on the  *)
(* way to "parse" only, a template that was used is never newer than the   *)
(* issuer's, and a request that was refused had an older one or a rand     *)
(* that could not pay.                                                     *)
(***************************************************************************)

CallPcs == {"idle", "fetch", "post", "refetch", "parse"}
CallRecord ==
  [pc : CallPcs, result : Results, using : Nat, count : Nat,
   executed : Nat, lost : BOOLEAN, poor : BOOLEAN]

ProtoTypeOK ==
  /\ template \in Nat /\ worth \in Nat
  /\ cached \in [Callers -> Nat]
  /\ call \in [Callers -> CallRecord]

\* The templates grow older.
TemplatesAreOlder ==
  \A p \in Callers : cached[p] <= template /\ call[p].using <= template

\* What has been executed tells where the call is.
ExecutedOnce ==
  \A p \in Callers :
    /\ call[p].pc \in {"fetch", "post", "refetch"} => call[p].executed = 0
    /\ call[p].pc = "parse" => call[p].executed = 1
    /\ call[p].pc # "idle" => call[p].result = "none"

\* Who is refused was too poor or late.
RefusedForAReason ==
  \A p \in Callers :
    /\ call[p].pc # "idle" /\ worth = 0 => call[p].poor
    /\ call[p].pc = "refetch" => call[p].poor \/ call[p].using < template

ProtoInv ==
  ProtoTypeOK /\ TemplatesAreOlder /\ ExecutedOnce /\ RefusedForAReason /\ AnswerIsTrue

----------------------------------------------------------------------------
\* No call has been made in the initial state.
LEMMA ProtoInvInit == ProtoInit => ProtoInv
  BY ProtocolAssumption
  DEF ProtoInit, ProtoInv, ProtoTypeOK, CallRecord, CallPcs, Results, NoCall, NoTemplate,
      TemplatesAreOlder, ExecutedOnce, RefusedForAReason, AnswerIsTrue

\* A call that starts has a clean slate.
LEMMA AskKeepsInv ==
  ASSUME ProtoInv, NEW p \in Callers, Ask(p)
  PROVE  ProtoInv'
<1> USE DEF ProtoInv, ProtoTypeOK, CallRecord, CallPcs, Results, Ask, NoCall, NoTemplate
<1>1. ProtoTypeOK'
  <2>1. call[p] \in CallRecord /\ cached[p] \in Nat /\ (worth = 0) \in BOOLEAN  OBVIOUS
  <2>2. \A poor \in BOOLEAN, n \in Nat : 
          [NoCall EXCEPT !.pc = IF cached[p] = NoTemplate THEN "fetch" ELSE "post",
                         !.using = cached[p], !.count = n, !.poor = poor] \in CallRecord
    BY <2>1
  <2>3. call[p].count + 1 \in Nat  BY <2>1
  <2>4. call' \in [Callers -> CallRecord]
    <3> HIDE DEF CallRecord, NoCall
    <3> QED BY <2>1, <2>2, <2>3
  <2> QED BY <2>4
<1>2. TemplatesAreOlder'  BY DEF TemplatesAreOlder
<1>3. ExecutedOnce'  BY DEF ExecutedOnce
<1>4. RefusedForAReason'  BY DEF RefusedForAReason
<1>5. AnswerIsTrue'  BY DEF AnswerIsTrue
<1> QED BY <1>1, <1>2, <1>3, <1>4, <1>5

\* The record of a call that has returned is one.
LEMMA ReturnsTypes ==
  ASSUME call \in [Callers -> CallRecord], NEW p \in Callers,
         NEW result \in Results, NEW lost \in BOOLEAN, Returns(p, result, lost)
  PROVE  call' \in [Callers -> CallRecord]
<1> DEFINE new == [call[p] EXCEPT !.pc = "idle", !.result = result, !.lost = lost]
<1>1. call[p] \in CallRecord  OBVIOUS
<1>2. new \in CallRecord  BY <1>1 DEF CallRecord, CallPcs
<1>3. call' = [call EXCEPT ![p] = new]  BY DEF Returns
<1> HIDE DEF new
<1> QED  BY <1>2, <1>3

\* A call that is cut short, refused or answered is at its end, with a reason.
LEMMA QuietStepKeepsInv ==
  ASSUME ProtoInv, NEW p \in Callers,
         FetchTemplate(p) \/ PostIsLost(p) \/ PostIsRefused(p) \/ Refetch(p) \/ Parse(p)
  PROVE  ProtoInv'
<1> USE DEF ProtoInv, ProtoTypeOK, CallRecord, CallPcs, Results, Returns
<1>1. CASE FetchTemplate(p)
  <2> USE <1>1 DEF FetchTemplate
  <2>1. ProtoTypeOK'
    <3>1. CASE cached' = [cached EXCEPT ![p] = template]  BY <3>1
    <3>2. CASE UNCHANGED cached  BY <3>2
    <3> QED BY <3>1, <3>2
  <2>2. TemplatesAreOlder'  BY DEF TemplatesAreOlder
  <2>3. ExecutedOnce'  BY DEF ExecutedOnce
  <2>4. RefusedForAReason'  BY DEF RefusedForAReason
  <2>5. AnswerIsTrue'  BY DEF AnswerIsTrue, ExecutedOnce
  <2> QED BY <2>1, <2>2, <2>3, <2>4, <2>5
<1>2. CASE PostIsLost(p)
  <2> USE <1>2 DEF PostIsLost
  <2>1. ProtoTypeOK'
    <3>1. call' \in [Callers -> CallRecord]  BY ReturnsTypes
    <3> QED BY <3>1
  <2>2. TemplatesAreOlder'  BY DEF TemplatesAreOlder
  <2>3. ExecutedOnce'  BY DEF ExecutedOnce
  <2>4. RefusedForAReason'  BY DEF RefusedForAReason
  <2>5. AnswerIsTrue'  BY DEF AnswerIsTrue, ExecutedOnce
  <2> QED BY <2>1, <2>2, <2>3, <2>4, <2>5
<1>3. CASE PostIsRefused(p)
  <2> USE <1>3 DEF PostIsRefused
  <2>1. ProtoTypeOK'  OBVIOUS
  <2>2. TemplatesAreOlder'  BY DEF TemplatesAreOlder
  <2>3. ExecutedOnce'  BY DEF ExecutedOnce
  <2>4. RefusedForAReason'  BY DEF RefusedForAReason, TemplatesAreOlder
  <2>5. AnswerIsTrue'  BY DEF AnswerIsTrue, ExecutedOnce
  <2> QED BY <2>1, <2>2, <2>3, <2>4, <2>5
<1>4. CASE Refetch(p)
  <2> USE <1>4 DEF Refetch
  <2>1. ProtoTypeOK'  OBVIOUS
  <2>2. TemplatesAreOlder'  BY DEF TemplatesAreOlder
  <2>3. ExecutedOnce'  BY DEF ExecutedOnce
  <2>4. RefusedForAReason'  BY DEF RefusedForAReason
  <2>5. AnswerIsTrue'  BY DEF AnswerIsTrue, ExecutedOnce, RefusedForAReason
  <2> QED BY <2>1, <2>2, <2>3, <2>4, <2>5
<1>5. CASE Parse(p)
  <2> USE <1>5 DEF Parse
  <2>1. ProtoTypeOK'  OBVIOUS
  <2>2. TemplatesAreOlder'  BY DEF TemplatesAreOlder
  <2>3. ExecutedOnce'  BY DEF ExecutedOnce
  <2>4. RefusedForAReason'  BY DEF RefusedForAReason
  <2>5. AnswerIsTrue'  BY DEF AnswerIsTrue, ExecutedOnce
  <2> QED BY <2>1, <2>2, <2>3, <2>4, <2>5
<1> QED BY <1>1, <1>2, <1>3, <1>4, <1>5

\* The transfer that is executed is the call's first, as it was not on its way
\* back; every call that goes on has seen the rand become too poor, if it has.
LEMMA ExecutionKeepsInv ==
  ASSUME ProtoInv, NEW p \in Callers, PostIsExecuted(p)
  PROVE  ProtoInv'
<1> DEFINE poorNow(q) == call[q].poor \/ worth' = 0
<1>1. PICK heard \in BOOLEAN :
        call' = [q \in Callers |->
          LET c == [call[q] EXCEPT !.poor = @ \/ worth' = 0]
          IN  CASE q = p /\ heard -> [c EXCEPT !.executed = @ + 1, !.pc = "parse"]
                [] q = p /\ ~heard -> [c EXCEPT !.executed = @ + 1, !.pc = "idle",
                                               !.result = "nothing", !.lost = TRUE]
                [] OTHER -> c]
  BY DEF PostIsExecuted
<1>2. /\ worth > 0 /\ worth' = worth - 1 /\ template' = template /\ cached' = cached
      /\ call[p].pc = "post"
  BY Zenon DEF PostIsExecuted
<1>3. worth \in Nat /\ worth' \in Nat /\ template' \in Nat /\ cached' \in [Callers -> Nat]
  BY <1>2 DEF ProtoInv, ProtoTypeOK
<1>4. \A q \in Callers :
        call[q] \in CallRecord /\ poorNow(q) \in BOOLEAN
  BY DEF ProtoInv, ProtoTypeOK
<1>5. \A q \in Callers \ {p} : call'[q] = [call[q] EXCEPT !.poor = poorNow(q)]
  BY <1>1
<1>6. heard => call'[p] = [call[p] EXCEPT !.poor = poorNow(p), !.executed = call[p].executed + 1,
                                          !.pc = "parse"]
  BY <1>1, <1>4 DEF CallRecord
<1>7. ~heard => call'[p] = [call[p] EXCEPT !.poor = poorNow(p), !.executed = call[p].executed + 1,
                                           !.pc = "idle", !.result = "nothing", !.lost = TRUE]
  BY <1>1, <1>4 DEF CallRecord
<1>8. \A q \in Callers \ {p} :
        /\ call'[q] \in CallRecord
        /\ call'[q].pc = call[q].pc /\ call'[q].result = call[q].result
        /\ call'[q].using = call[q].using /\ call'[q].executed = call[q].executed
        /\ call'[q].lost = call[q].lost /\ call'[q].poor = poorNow(q)
  <2> TAKE q \in Callers \ {p}
  <2>1. PICK b \in BOOLEAN : b = poorNow(q)  BY <1>4
  <2> HIDE DEF poorNow
  <2>2. call[q] \in CallRecord /\ call'[q] = [call[q] EXCEPT !.poor = b]
    BY <1>4, <1>5, <2>1
  <2>3. call'[q] \in CallRecord  BY <2>2 DEF CallRecord
  <2>4. /\ call'[q].pc = call[q].pc /\ call'[q].result = call[q].result
        /\ call'[q].using = call[q].using /\ call'[q].executed = call[q].executed
        /\ call'[q].lost = call[q].lost /\ call'[q].poor = b
    BY <2>2 DEF CallRecord
  <2> QED  BY <2>1, <2>3, <2>4
<1>9. /\ call'[p] \in CallRecord
      /\ call'[p].using = call[p].using /\ call'[p].executed = call[p].executed + 1
      /\ call'[p].poor = poorNow(p)
      /\ \/ call'[p].pc = "parse" /\ call'[p].result = call[p].result
         \/ call'[p].pc = "idle" /\ call'[p].result = "nothing" /\ call'[p].lost
  <2> HIDE DEF poorNow
  <2>0. call[p].executed + 1 \in Nat
    BY <1>4 DEF CallRecord
  <2>1. PICK b \in BOOLEAN, n \in Nat : b = poorNow(p) /\ n = call[p].executed + 1
    BY <1>4, <2>0, Zenon
  <2>2. CASE heard
    <3>1. call'[p] = [call[p] EXCEPT !.poor = b, !.executed = n, !.pc = "parse"]
      BY <1>6, <2>1, <2>2
    <3>2. call[p] \in CallRecord  BY <1>4
    <3>3. call'[p] \in CallRecord  BY <3>1, <3>2 DEF CallRecord, CallPcs
    <3>4. call'[p].using = call[p].using /\ call'[p].executed = n /\ call'[p].poor = b
          /\ call'[p].pc = "parse" /\ call'[p].result = call[p].result
      BY <3>1, <3>2 DEF CallRecord
    <3> QED BY <2>1, <3>3, <3>4
  <2>3. CASE ~heard
    <3>1. call'[p] = [call[p] EXCEPT !.poor = b, !.executed = n, !.pc = "idle",
                                     !.result = "nothing", !.lost = TRUE]
      BY <1>7, <2>1, <2>3
    <3>2. call[p] \in CallRecord  BY <1>4
    <3>3. call'[p] \in CallRecord  BY <3>1, <3>2 DEF CallRecord, CallPcs, Results
    <3>4. call'[p].using = call[p].using /\ call'[p].executed = n /\ call'[p].poor = b
          /\ call'[p].pc = "idle" /\ call'[p].result = "nothing" /\ call'[p].lost
      BY <3>1, <3>2 DEF CallRecord
    <3> QED BY <2>1, <3>3, <3>4
  <2> QED BY <2>2, <2>3
<1>10. ProtoTypeOK'
  <2>1. call' \in [Callers -> CallRecord]  BY <1>1, <1>8, <1>9
  <2> QED BY <1>3, <2>1 DEF ProtoTypeOK
<1>11. TemplatesAreOlder'
  BY <1>2, <1>8, <1>9 DEF ProtoInv, TemplatesAreOlder
<1>12. call[p].executed = 0 /\ call[p].result = "none"
  BY <1>2 DEF ProtoInv, ExecutedOnce
<1>13. ExecutedOnce'
  BY <1>8, <1>9, <1>12 DEF ProtoInv, ExecutedOnce
<1>14. RefusedForAReason'
  BY <1>2, <1>8, <1>9 DEF ProtoInv, RefusedForAReason
<1>15. AnswerIsTrue'
  <2> HIDE DEF poorNow
  <2>1. \A q \in Callers : call[q].poor => poorNow(q)  BY DEF poorNow
  <2>2. call'[p].executed = 1  BY <1>9, <1>12
  <2>3. call'[p].result \in {"none", "nothing"}  BY <1>9, <1>12
  <2> QED BY <1>8, <1>9, <1>12, <2>1, <2>2, <2>3 DEF ProtoInv, AnswerIsTrue
<1> QED BY <1>10, <1>11, <1>13, <1>14, <1>15 DEF ProtoInv

\* Every step keeps the invariant; a newer template only makes the others older.
LEMMA ProtoInvNext == ProtoInv /\ [ProtoNext]_protoVars => ProtoInv'
<1> SUFFICES ASSUME ProtoInv, [ProtoNext]_protoVars PROVE ProtoInv'
  OBVIOUS
<1>1. ASSUME NEW p \in Callers, Ask(p) \/ Proceed(p) PROVE ProtoInv'
  BY <1>1, AskKeepsInv, QuietStepKeepsInv, ExecutionKeepsInv DEF Proceed
<1>2. CASE NewTemplate
  BY <1>2, ProtocolAssumption
  DEF NewTemplate, ProtoInv, ProtoTypeOK, CallRecord, TemplatesAreOlder, ExecutedOnce,
      RefusedForAReason, AnswerIsTrue
<1>3. CASE Damage \/ UNCHANGED protoVars
  BY <1>3
  DEF Damage, protoVars, ProtoInv, ProtoTypeOK, TemplatesAreOlder, ExecutedOnce,
      RefusedForAReason, AnswerIsTrue
<1> QED BY <1>1, <1>2, <1>3 DEF ProtoNext

\* obligation_transfer, for any processes, calls, templates and value of the rand:
\* the answer tells what has happened.
THEOREM AnswerIsTrueHolds == ProtoSpec => []AnswerIsTrue
<1>1. ProtoInv => AnswerIsTrue
  BY DEF ProtoInv
<1> QED BY <1>1, ProtoInvInit, ProtoInvNext, PTL DEF ProtoSpec

----------------------------------------------------------------------------
(***************************************************************************)
(* Tariffs.  A price is a quotient that is rounded up, and buys a quotient *)
(* that is rounded up: what has been rounded is never to the disadvantage  *)
(* of whoever pays, in whatever order the tariffs are listed.              *)
(***************************************************************************)

\* math.ceil rounds a quotient of natural numbers up (tariff.lua).
LEMMA ShareIsRoundedUp ==
  ASSUME NEW x \in Nat, NEW y \in Nat, NEW z \in Nat \ {0}
  PROVE  Share(x, y, z) \in Nat /\ Share(x, y, z) * z >= x * y
  BY SMT DEF Share

\* Whoever pays the amount of a tariff or more gets its time or more.
LEMMA ShareOfMore ==
  ASSUME NEW x \in Nat, NEW y \in Nat, NEW z \in Nat \ {0}, y >= z
  PROVE  Share(x, y, z) >= x
<1>1. Share(x, y, z) \in Nat /\ Share(x, y, z) * z >= x * y  BY ShareIsRoundedUp
<1>2. x * y >= x * z  BY SMT
<1> QED  BY <1>1, <1>2, SMT

\* A price that was rounded up buys the time it is the price of.
LEMMA ShareOfShare ==
  ASSUME NEW amount \in Nat \ {0}, NEW time \in Nat \ {0}, NEW t \in Nat, NEW p \in Nat,
         p * time >= amount * t
  PROVE  Share(time, p, amount) >= t
<1>1. Share(time, p, amount) \in Nat /\ Share(time, p, amount) * amount >= time * p
  BY ShareIsRoundedUp
<1>2. Share(time, p, amount) * amount >= t * amount  BY <1>1, SMT
<1> QED  BY <1>1, <1>2, SMT

\* What is rounded up is not higher than the product it is computed with.
LEMMA ShareFits ==
  ASSUME NEW x \in Nat, NEW y \in Nat, NEW z \in Nat \ {0}, NEW m \in Nat, x * y <= m
  PROVE  Share(x, y, z) <= m
<1>1. x * y \in Nat  BY SMT
<1>2. PICK n \in Nat : n = x * y  BY <1>1
<1>3. -((-n) \div z) <= n  BY SMT
<1> QED  BY <1>2, <1>3 DEF Share

\* The minimum of a set of natural numbers is in it and is the least.
LEMMA LeastIn ==
  ASSUME NEW T, T \subseteq Nat, T # {}
  PROVE  Min(T) \in T /\ \A n \in T : Min(T) <= n
  BY LeastOf DEF Min

\* What is found first in a table: the least index of some, or 0 if there is none.
LEMMA FirstInTable ==
  ASSUME NEW tab, tab \in Seq(ToSet(tab)), NEW I, I \subseteq 1..Len(tab),
         NEW i, i = IF I # {} THEN Min(I) ELSE 0
  PROVE  /\ i \in 0..Len(tab)
         /\ i # 0 => i \in I
         /\ \A j \in I : i # 0 /\ i <= j
<1>1. Len(tab) \in Nat  OBVIOUS
<1>2. CASE I = {}  BY <1>1, <1>2
<1>3. CASE I # {}
  <2>1. I \subseteq Nat  BY <1>1
  <2>2. i \in I /\ \A n \in I : i <= n  BY <1>3, <2>1, LeastIn
  <2> QED  BY <1>1, <2>2
<1> QED BY <1>2, <1>3

\* The tariff of a payment is the first one that it reaches (time, choose).
LEMMA ReachedIsFirst ==
  ASSUME NEW tab, tab \in Seq(ToSet(tab)), NEW pay
  PROVE  /\ Reached(tab, pay) \in 0..Len(tab)
         /\ Reached(tab, pay) # 0 => pay >= tab[Reached(tab, pay)].amount
         /\ \A j \in 1..Len(tab) :
              pay >= tab[j].amount => Reached(tab, pay) # 0 /\ Reached(tab, pay) <= j
<1>1. PICK I : I = {i \in 1..Len(tab) : pay >= tab[i].amount}  OBVIOUS
<1>2. Reached(tab, pay) = IF I # {} THEN Min(I) ELSE 0
  BY <1>1 DEF Reached, SelectInSeq
<1>3. I \subseteq 1..Len(tab)  BY <1>1
<1>4. PICK i : i = Reached(tab, pay)  OBVIOUS
<1>5. i \in 0..Len(tab) /\ (i # 0 => i \in I) /\ \A j \in I : i # 0 /\ i <= j
  BY <1>2, <1>3, <1>4, FirstInTable, Zenon
<1> QED  BY <1>1, <1>4, <1>5

\* The tariff of a time is the first one that is not longer (payment).
LEMMA NotLongerIsFirst ==
  ASSUME NEW tab, tab \in Seq(ToSet(tab)), NEW t
  PROVE  /\ NotLonger(tab, t) \in 0..Len(tab)
         /\ NotLonger(tab, t) # 0 => t >= tab[NotLonger(tab, t)].time
         /\ \A j \in 1..Len(tab) :
              t >= tab[j].time => NotLonger(tab, t) # 0 /\ NotLonger(tab, t) <= j
<1>1. PICK I : I = {i \in 1..Len(tab) : t >= tab[i].time}  OBVIOUS
<1>2. NotLonger(tab, t) = IF I # {} THEN Min(I) ELSE 0
  BY <1>1 DEF NotLonger, SelectInSeq
<1>3. I \subseteq 1..Len(tab)  BY <1>1
<1>4. PICK i : i = NotLonger(tab, t)  OBVIOUS
<1>5. i \in 0..Len(tab) /\ (i # 0 => i \in I) /\ \A j \in I : i # 0 /\ i <= j
  BY <1>2, <1>3, <1>4, FirstInTable, Zenon
<1> QED  BY <1>1, <1>4, <1>5

\* A table as TariffAssumption has them.
IsTable(tab) ==
  /\ tab \in Seq(ToSet(tab)) /\ tab # <<>>
  /\ \A j \in 1..Len(tab) : tab[j].time \in Nat \ {0} /\ tab[j].amount \in Nat \ {0}

\* Where a price comes from: the shortest tariff, the one before the first that
\* is not longer, or a share of that one (payment).
LEMMA PaymentCases ==
  ASSUME NEW tab, IsTable(tab), NEW t \in Nat, NEW p, p = Payment(tab, t)
  PROVE  /\ p \in Nat
         /\ \/ /\ \A j \in 1..Len(tab) : t < tab[j].time
               /\ p = tab[Len(tab)].amount
            \/ \E i \in 2..Len(tab) :
                 /\ \A j \in 1..(i - 1) : t < tab[j].time
                 /\ p = tab[i - 1].amount
            \/ \E i \in 1..Len(tab) :
                 /\ t >= tab[i].time
                 /\ \A j \in 1..(i - 1) : t < tab[j].time
                 /\ p = ToInt(Share(tab[i].amount, t, tab[i].time))
<1>1. Len(tab) \in Nat \ {0}  BY DEF IsTable
<1>2. PICK i : i = NotLonger(tab, t)  OBVIOUS
<1>3. /\ i \in 0..Len(tab) /\ (i # 0 => t >= tab[i].time)
      /\ \A j \in 1..Len(tab) : t >= tab[j].time => i # 0 /\ i <= j
  BY <1>2, NotLongerIsFirst DEF IsTable
<1>4. PICK price : price = ToInt(Share(tab[i].amount, t, tab[i].time))  OBVIOUS
<1>5. p = CASE i = 0 -> tab[Len(tab)].amount
                          [] i > 1 /\ price > tab[i - 1].amount -> tab[i - 1].amount
                          [] OTHER -> price
  BY <1>2, <1>4 DEF Payment
<1>6. \A j \in 1..Len(tab) : tab[j].time \in Nat \ {0} /\ tab[j].amount \in Nat \ {0}
  BY DEF IsTable
<1>7. i = 0 => \A j \in 1..Len(tab) : t < tab[j].time  BY <1>3, <1>6
<1>8. i # 0 => \A j \in 1..(i - 1) : t < tab[j].time  BY <1>1, <1>3, <1>6
<1>9. CASE i = 0
  <2>1. p = tab[Len(tab)].amount  BY <1>5, <1>9
  <2> QED  BY <1>1, <1>6, <1>7, <1>9, <2>1
<1>10. CASE i # 0 /\ i > 1 /\ price > tab[i - 1].amount
  <2>1. p = tab[i - 1].amount  BY <1>5, <1>10
  <2>2. i \in 2..Len(tab) /\ i - 1 \in 1..Len(tab)  BY <1>1, <1>3, <1>10
  <2>3. tab[i - 1].amount \in Nat  BY <1>6, <2>2
  <2> QED  BY <1>8, <1>10, <2>1, <2>2, <2>3
<1>11. CASE i # 0 /\ ~(i > 1 /\ price > tab[i - 1].amount)
  <2>1. p = price  BY <1>5, <1>11
  <2>2. i \in 1..Len(tab)  BY <1>3, <1>11
  <2>3. Share(tab[i].amount, t, tab[i].time) \in Nat  BY <1>6, <2>2, ShareIsRoundedUp
  <2>4. price \in Nat  BY <1>4, <2>3 DEF ToInt
  <2> QED  BY <1>3, <1>4, <1>8, <1>11, <2>1, <2>2, <2>4
<1> QED  BY <1>9, <1>10, <1>11

\* What a payment buys: nothing, or a share of a tariff that it reaches (time).
LEMMA TimeCases ==
  ASSUME NEW tab, IsTable(tab), NEW p \in Nat
  PROVE  /\ p = 0 => Time(tab, p) = 0
         /\ \A j \in 1..Len(tab) : p >= tab[j].amount =>
              \E i \in 1..j :
                /\ p >= tab[i].amount
                /\ Time(tab, p) = ToInt(Share(tab[i].time, p, tab[i].amount))
<1>1. PICK i : i = Reached(tab, p)  OBVIOUS
<1>2. /\ i \in 0..Len(tab) /\ (i # 0 => p >= tab[i].amount)
      /\ \A j \in 1..Len(tab) : p >= tab[j].amount => i # 0 /\ i <= j
  BY <1>1, ReachedIsFirst DEF IsTable
<1>3. i = 0 => Time(tab, p) = 0  BY <1>1 DEF Time
<1>4. i # 0 => Time(tab, p) = ToInt(Share(tab[i].time, p, tab[i].amount))
  BY <1>1 DEF Time
<1>5. p = 0 => i = 0  BY <1>2 DEF IsTable
<1> QED  BY <1>2, <1>3, <1>4, <1>5

\* Whoever pays the price of a time gets it, or nothing if a product that is
\* computed with cannot be represented (payment, time).
LEMMA PriceOfTimeBuysIt ==
  ASSUME NEW tab, IsTable(tab), NEW t \in Nat, MaxInt \in Nat,
         NEW p, p = Payment(tab, t)
  PROVE  \/ Time(tab, p) >= t
         \/ /\ Time(tab, p) = 0
            /\ \E i \in 1..Len(tab) : \/ tab[i].amount * t > MaxInt
                                      \/ p * tab[i].time > MaxInt
<1> DEFINE Over == \E i \in 1..Len(tab) : \/ tab[i].amount * t > MaxInt
                                          \/ p * tab[i].time > MaxInt
<1>1. Len(tab) \in Nat \ {0}  BY DEF IsTable
<1>2. \A j \in 1..Len(tab) : tab[j].time \in Nat \ {0} /\ tab[j].amount \in Nat \ {0}
  BY DEF IsTable
<1>3. p \in Nat  BY PaymentCases
\* What can be represented is not replaced by 0.
<1>4. ASSUME NEW i \in 1..Len(tab), NEW n,
             n = Share(tab[i].amount, t, tab[i].time) \/ n = Share(tab[i].time, p, tab[i].amount)
      PROVE  ToInt(n) = n \/ (ToInt(n) = 0 /\ Over)
  <2>1. PICK a \in Nat \ {0}, b \in Nat \ {0} : a = tab[i].amount /\ b = tab[i].time  BY <1>2
  <2>2. Share(a, t, b) \in Nat /\ Share(b, p, a) \in Nat  BY <1>3, ShareIsRoundedUp
  <2>3. a * t <= MaxInt => Share(a, t, b) <= MaxInt  BY ShareFits
  <2>4. b * p <= MaxInt => Share(b, p, a) <= MaxInt  BY <1>3, ShareFits
  <2>5. a * t > MaxInt \/ p * b > MaxInt => Over  BY <2>1
  <2>6. a * t \in Nat /\ b * p \in Nat /\ b * p = p * b  BY <1>3
  <2>7. n \in Nat /\ (n > MaxInt => a * t > MaxInt \/ p * b > MaxInt)
    <3>1. n = Share(a, t, b) \/ n = Share(b, p, a)  BY <1>4, <2>1
    <3> QED  BY <2>2, <2>3, <2>4, <2>6, <3>1
  <2>8. n > MaxInt => Over  BY <2>5, <2>7, Zenon
  <2> HIDE DEF Over
  <2> QED  BY <2>7, <2>8 DEF ToInt
\* A tariff that is reached and longer gives enough.
<1>5. ASSUME NEW i \in 1..Len(tab), p >= tab[i].amount, t < tab[i].time,
             Time(tab, p) = ToInt(Share(tab[i].time, p, tab[i].amount))
      PROVE  Time(tab, p) >= t \/ (Time(tab, p) = 0 /\ Over)
  <2>1. Share(tab[i].time, p, tab[i].amount) >= tab[i].time
        /\ Share(tab[i].time, p, tab[i].amount) \in Nat
    BY <1>2, <1>3, <1>5, ShareOfMore, ShareIsRoundedUp
  <2> QED  BY <1>2, <1>4, <1>5, <2>1
<1>6. ASSUME NEW j \in 1..Len(tab), p >= tab[j].amount, \A k \in 1..j : t < tab[k].time
      PROVE  Time(tab, p) >= t \/ (Time(tab, p) = 0 /\ Over)
  <2>1. PICK i \in 1..j : p >= tab[i].amount
                          /\ Time(tab, p) = ToInt(Share(tab[i].time, p, tab[i].amount))
    BY <1>3, <1>6, TimeCases
  <2>2. i \in 1..Len(tab)  BY <1>1
  <2> QED  BY <1>5, <1>6, <2>1, <2>2
<1>7. CASE (\A j \in 1..Len(tab) : t < tab[j].time) /\ p = tab[Len(tab)].amount
  <2>1. PICK j \in 1..Len(tab) : j = Len(tab)  BY <1>1
  <2>2. p >= tab[j].amount  BY <1>2, <1>7, <2>1
  <2> QED  BY <1>6, <1>7, <2>1, <2>2
<1>8. CASE \E i \in 2..Len(tab) : (\A j \in 1..(i - 1) : t < tab[j].time) /\ p = tab[i - 1].amount
  <2>1. PICK i \in 2..Len(tab) : (\A j \in 1..(i - 1) : t < tab[j].time) /\ p = tab[i - 1].amount
    BY <1>8
  <2>2. PICK j \in 1..Len(tab) : j = i - 1  BY <1>1
  <2>3. p >= tab[j].amount  BY <1>2, <2>1, <2>2
  <2>4. \A k \in 1..j : t < tab[k].time  BY <2>1, <2>2
  <2> QED  BY <1>6, <2>3, <2>4
<1>9. CASE \E i \in 1..Len(tab) : /\ t >= tab[i].time
                                  /\ \A j \in 1..(i - 1) : t < tab[j].time
                                  /\ p = ToInt(Share(tab[i].amount, t, tab[i].time))
  <2>1. PICK i \in 1..Len(tab) : /\ t >= tab[i].time
                                 /\ \A j \in 1..(i - 1) : t < tab[j].time
                                 /\ p = ToInt(Share(tab[i].amount, t, tab[i].time))
    BY <1>9
  <2>2. PICK a \in Nat \ {0}, b \in Nat \ {0} : a = tab[i].amount /\ b = tab[i].time  BY <1>2
  <2>3. CASE p # Share(a, t, b)
    <3>1. p = 0 /\ Over  BY <1>4, <2>1, <2>2, <2>3
    <3> QED  BY <1>3, <3>1, TimeCases
  <2>4. CASE p = Share(a, t, b)
    <3>1. p >= a  BY <2>1, <2>2, <2>4, ShareOfMore
    <3>2. p * b >= a * t  BY <2>4, ShareIsRoundedUp
    <3>3. PICK k \in 1..i : p >= tab[k].amount
                            /\ Time(tab, p) = ToInt(Share(tab[k].time, p, tab[k].amount))
      BY <1>3, <2>2, <3>1, TimeCases
    <3>4. k \in 1..Len(tab)  BY <1>1
    <3>5. CASE k = i
      <4>1. Share(b, p, a) >= t  BY <1>3, <3>2, ShareOfShare
      <4> QED  BY <1>4, <2>2, <3>3, <3>5, <4>1
    <3>6. CASE k # i
      <4>1. t < tab[k].time  BY <2>1, <3>3, <3>6
      <4> QED  BY <1>5, <3>3, <3>4, <4>1
    <3> QED  BY <3>5, <3>6
  <2> QED  BY <2>3, <2>4
<1>10. \/ (\A j \in 1..Len(tab) : t < tab[j].time) /\ p = tab[Len(tab)].amount
       \/ \E i \in 2..Len(tab) : (\A j \in 1..(i - 1) : t < tab[j].time) /\ p = tab[i - 1].amount
       \/ \E i \in 1..Len(tab) : /\ t >= tab[i].time
                                 /\ \A j \in 1..(i - 1) : t < tab[j].time
                                 /\ p = ToInt(Share(tab[i].amount, t, tab[i].time))
  BY PaymentCases
<1> QED  BY <1>7, <1>8, <1>9, <1>10

\* The acl file named last, if one is named (choose).
LEMMA LastNamedIsLast ==
  ASSUME NEW s, NEW n \in Nat, Len(s) = n, NEW k, k = LastNamed(s)
  PROVE  /\ k = 0 => \A j \in 1..n : s[j].acl = NoAcl
         /\ k # 0 => k \in 1..n /\ s[k].acl # NoAcl
<1>1. PICK I : I = {i \in 1..n : s[i].acl # NoAcl}  OBVIOUS
<1>2. k = IF I # {} THEN Max(I) ELSE 0
  BY <1>1 DEF LastNamed, SelectLastInSeq
<1>3. CASE I = {}
  BY <1>1, <1>2, <1>3
<1>4. CASE I # {}
  <2>1. PICK T : T = {n - i : i \in I}  OBVIOUS
  <2>2. T # {} /\ T \subseteq Nat  BY <1>1, <1>4, <2>1
  <2>3. PICK m \in T : \A l \in T : m <= l  BY <2>2, LeastOf
  <2>4. PICK i \in I : m = n - i  BY <2>1, <2>3
  <2>5. ASSUME NEW l \in I PROVE i >= l
    <3>1. n - l \in T  BY <2>1
    <3>2. n - i <= n - l  BY <2>3, <2>4, <3>1
    <3>3. i \in Int /\ l \in Int  BY <1>1, <2>4
    <3> QED  BY <3>2, <3>3
  <2>6. Max(I) \in I  BY <2>5 DEF Max
  <2> QED  BY <1>1, <1>2, <1>4, <2>6
<1> QED  BY <1>3, <1>4

\* The file of a payment that reaches a tariff is searched (choose, aclfiles).
LEMMA ChosenIsSearched ==
  ASSUME NEW tab, IsTable(tab), NEW p \in Nat, Reached(tab, p) # 0
  PROVE  ChosenAcl(tab, p) \in AclFiles(tab)
<1>1. PICK i : i = Reached(tab, p)  OBVIOUS
<1>2. i \in 1..Len(tab) /\ Len(tab) \in Nat  BY <1>1, ReachedIsFirst DEF IsTable
<1>3. \A j \in 1..i : tab[j] \in ToSet(tab)  BY <1>2 DEF ToSet, IsTable
<1>4. PICK s : s = SubSeq(tab, 1, i)  OBVIOUS
<1>5. Len(s) = i /\ \A j \in 1..i : s[j] = tab[j]
  BY <1>2, <1>3, <1>4, SubSeqProperties
<1>6. PICK k : k = LastNamed(s)  OBVIOUS
<1>7. ChosenAcl(tab, p) = IF k = 0 THEN DefaultAcl ELSE tab[k].acl
  BY <1>1, <1>4, <1>6 DEF ChosenAcl
<1>8. CASE k = 0
  <2>1. \A j \in 1..i : s[j].acl = NoAcl
    <3>1. i \in Nat  BY <1>2
    <3> QED  BY <1>5, <1>6, <1>8, <3>1, LastNamedIsLast, Zenon
  <2>2. tab[1].acl = NoAcl  BY <1>2, <1>5, <2>1
  <2> QED  BY <1>7, <1>8, <2>2 DEF AclFiles
<1>9. CASE k # 0
  <2>1. k \in 1..i /\ s[k].acl # NoAcl
    <3>1. i \in Nat  BY <1>2
    <3> QED  BY <1>5, <1>6, <1>9, <3>1, LastNamedIsLast, Zenon
  <2>2. k \in DOMAIN tab /\ tab[k].acl # NoAcl  BY <1>2, <1>5, <2>1 DEF IsTable
  <2> QED  BY <1>7, <1>9, <2>2 DEF AclFiles
<1> QED  BY <1>8, <1>9

\* What was quoted is the price of what is wanted, what was bought its time.
TariffInv ==
  /\ table \in Tariffs /\ want \in Wanted
  /\ quoted = -1 \/ quoted = Payment(table, want)
  /\ got = -1 \/ (quoted # -1 /\ got = Time(table, quoted))

\* A price is asked and paid once, in the same table.
LEMMA TariffInvNext == TariffInv /\ [TariffNext]_tariffVars => TariffInv'
<1> SUFFICES ASSUME TariffInv, [TariffNext]_tariffVars PROVE TariffInv'
  OBVIOUS
<1>1. table' = table /\ want' = want  BY DEF TariffNext, Quote, Pay, tariffVars
<1>2. Payment(table', want') = Payment(table, want)  BY <1>1
<1>3. CASE Quote
  <2>1. quoted' = Payment(table, want) /\ got' = -1  BY <1>3 DEF Quote, TariffInv
  <2> QED  BY <1>1, <1>2, <2>1 DEF TariffInv
<1>4. CASE Pay
  <2>1. quoted' = quoted /\ quoted # -1 /\ got' = Time(table, quoted)  BY <1>4 DEF Pay
  <2>2. Time(table', quoted') = Time(table, quoted)  BY <1>1, <2>1
  <2> QED  BY <1>1, <1>2, <2>1, <2>2 DEF TariffInv
<1>5. CASE UNCHANGED tariffVars
  <2>1. quoted' = quoted /\ got' = got  BY <1>5 DEF tariffVars
  <2>2. Time(table', quoted') = Time(table, quoted)  BY <1>1, <2>1
  <2> QED  BY <1>1, <1>2, <2>1, <2>2 DEF TariffInv
<1> QED  BY <1>3, <1>4, <1>5 DEF TariffNext

\* For any tables, in any order of their tariffs, any times and any largest number:
\* who pays the price that was asked gets the time, in a file where it is looked for.
THEOREM PaymentBuysItsTimeHolds == TariffSpec => []PaymentBuysItsTime
<1>1. TariffInit => TariffInv  BY DEF TariffInit, TariffInv
<1>2. TariffInv => PaymentBuysItsTime
  <2> SUFFICES ASSUME TariffInv PROVE PaymentBuysItsTime  OBVIOUS
  <2>1. IsTable(table) /\ want \in Nat /\ MaxInt \in Nat
    <3>1. table \in Seq(ToSet(table)) /\ table # <<>>  BY TariffAssumption DEF TariffInv
    <3>2. \A j \in 1..Len(table) : table[j] \in ToSet(table)  BY <3>1 DEF ToSet
    <3> QED  BY <3>1, <3>2, TariffAssumption DEF TariffInv, IsTable
  <2>2. CASE got = -1
    BY <2>2 DEF PaymentBuysItsTime, QuotedPriceBuysTheTime, ChosenAclIsSearched
  <2>3. CASE got # -1
    <3>1. quoted = Payment(table, want) /\ got = Time(table, quoted)
      BY <2>3 DEF TariffInv
    <3>2. quoted \in Nat  BY <2>1, <3>1, PaymentCases
    <3>3. DOMAIN table = 1..Len(table)  BY <2>1 DEF IsTable
    <3>4. QuotedPriceBuysTheTime
      <4>1. \/ got >= want
            \/ got = 0 /\ \E i \in 1..Len(table) : \/ table[i].amount * want > MaxInt
                                                   \/ quoted * table[i].time > MaxInt
        BY <2>1, <3>1, PriceOfTimeBuysIt
      <4>2. \A i \in 1..Len(table) : table[i].amount * want \in Nat /\ quoted * table[i].time \in Nat
        BY <2>1, <3>2 DEF IsTable
      <4> QED  BY <2>1, <3>3, <4>1, <4>2 DEF QuotedPriceBuysTheTime, Fits
    <3>5. ChosenAclIsSearched
      <4>1. got > 0 => Reached(table, quoted) # 0  BY <3>1 DEF Time
      <4> QED  BY <2>1, <3>2, <4>1, ChosenIsSearched DEF ChosenAclIsSearched
    <3> QED  BY <3>4, <3>5 DEF PaymentBuysItsTime
  <2> QED  BY <2>2, <2>3
<1> QED  BY <1>1, <1>2, TariffInvNext, PTL DEF TariffSpec

----------------------------------------------------------------------------
(***************************************************************************)
(* Fixed addresses, for any scripts, addresses, number and length of the   *)
(* acl files, and times.                                                   *)
(***************************************************************************)

FixJobs ==
  {Idle} \cup [pc : {"rules"}] \cup
  [pc : {"topup"}, addr : FixAddr, file : 1..FixFiles, t : 0..FixLastTime] \cup
  [pc : {"add", "remove", "addrand"}, addr : FixAddr] \cup
  [pc : {"dropold"}, t : 0..FixLastTime]

FixAclFiles == [1..FixFiles -> Seq(FixLine)]

FixTypeOK ==
  /\ fixFile \in FixAclFiles
  /\ fixRules \subseteq FixAddr
  /\ fixNow \in 0..FixLastTime
  /\ fixJob \in [FixProcs -> FixJobs]
  /\ fixMixed \in BOOLEAN

\* Wherever the rules and the files differ, some script has yet to build the
\* rules, or the payment of a topup has yet to be stored, or was not.
RulesAreDue == \E p \in FixProcs : fixJob[p].pc = "rules"
FollowInv ==
  \/ RulesAreDue
  \/ /\ fixRules \subseteq FixListed
     /\ \A a \in FixListed \ fixRules :
          a \in fixUnpaid \/ \E p \in FixProcs : fixJob[p].pc = "addrand" /\ fixJob[p].addr = a

\* There is one line of each address in all files.
OneIn(files, a) ==
  \A i, j \in 1..FixFiles : \A k \in LinesOf(files[i], a), l \in LinesOf(files[j], a) :
    i = j /\ k = l
OneInv == ~fixMixed => \A a \in FixAddr : OneIn(fixFile, a)

----------------------------------------------------------------------------
(* Lines and entries.                                                       *)

\* A file has the line l when one of the acl files has.
HasLine(files, l) == \E i \in 1..FixFiles : l \in ToSet(files[i])

\* The lines of an address, and their places.
LEMMA LinesAre ==
  ASSUME NEW f \in Seq(FixLine), NEW a \in FixAddr
  PROVE  /\ LinesOf(f, a) \subseteq Nat
         /\ \A k \in LinesOf(f, a) : /\ f[k] \in FixLine
                                     /\ f[k] = [addr |-> a, expire |-> f[k].expire]
                                     /\ f[k].expire \in Int \cup {NoExpire}
         /\ \A e : [addr |-> a, expire |-> e] \in ToSet(f) <=>
                     \E k \in LinesOf(f, a) : f[k] = [addr |-> a, expire |-> e]
<1>1. PICK n \in Nat : n = Len(f) /\ DOMAIN f = 1..n  BY LenProperties
<1>2. \A k \in DOMAIN f : f[k] \in FixLine  BY <1>1, ElementOfSeq
<1>3. \A k \in LinesOf(f, a) : /\ f[k] \in FixLine
                               /\ f[k] = [addr |-> a, expire |-> f[k].expire]
                               /\ f[k].expire \in Int \cup {NoExpire}
  BY <1>2 DEF LinesOf, FixLine
<1>4. ASSUME NEW e
      PROVE  [addr |-> a, expire |-> e] \in ToSet(f) <=>
               \E k \in LinesOf(f, a) : f[k] = [addr |-> a, expire |-> e]
  BY <1>1 DEF ToSet, LinesOf
<1> QED  BY <1>1, <1>3, <1>4 DEF LinesOf

\* The least number of a set of them.
LEMMA MinIs ==
  ASSUME NEW S, S \subseteq Nat, S # {}
  PROVE  Min(S) \in S
<1>1. \E m \in S : \A n \in S : m <= n  BY LeastOf
<1> QED  BY <1>1 DEF Min

\* An address is listed when a file has a line of it.
LEMMA ListedIs ==
  ASSUME NEW files \in FixAclFiles, NEW a \in FixAddr
  PROVE  FilesOf(files, a) # {} <=> \E e : HasLine(files, [addr |-> a, expire |-> e])
<1>1. \A i \in 1..FixFiles : files[i] \in Seq(FixLine)  BY DEF FixAclFiles
<1>2. ASSUME NEW i \in FilesOf(files, a)
      PROVE  \E e : HasLine(files, [addr |-> a, expire |-> e])
  <2>1. i \in 1..FixFiles /\ LinesOf(files[i], a) # {}  BY DEF FilesOf
  <2>2. PICK k \in LinesOf(files[i], a) : TRUE  BY <2>1
  <2>3. files[i][k] = [addr |-> a, expire |-> files[i][k].expire]
    BY <1>1, <2>1, <2>2, LinesAre
  <2>4. [addr |-> a, expire |-> files[i][k].expire] \in ToSet(files[i])
    BY <1>1, <2>1, <2>2, <2>3, LinesAre
  <2> QED  BY <2>1, <2>4 DEF HasLine
<1>3. ASSUME NEW e, HasLine(files, [addr |-> a, expire |-> e])
      PROVE  FilesOf(files, a) # {}
  <2>1. PICK i \in 1..FixFiles : [addr |-> a, expire |-> e] \in ToSet(files[i])
    BY <1>3 DEF HasLine
  <2>2. LinesOf(files[i], a) # {}  BY <1>1, <2>1, LinesAre
  <2> QED  BY <2>2 DEF FilesOf
<1> QED  BY <1>2, <1>3

\* search finds a line of the address if there is one, and it is the only one
\* if there is one line for each address.
LEMMA SearchIs ==
  ASSUME NEW files \in FixAclFiles, NEW a \in FixAddr
  PROVE  /\ Search(files, a) \in Int \cup {NoEntry, NoExpire}
         /\ Search(files, a) = NoEntry <=> FilesOf(files, a) = {}
         /\ Search(files, a) # NoEntry =>
              HasLine(files, [addr |-> a, expire |-> Search(files, a)])
         /\ OneIn(files, a) => \A e : HasLine(files, [addr |-> a, expire |-> e]) => Search(files, a) = e
<1>1. \A i \in 1..FixFiles : files[i] \in Seq(FixLine)  BY DEF FixAclFiles
<1>2. FilesOf(files, a) \subseteq Nat
  BY FixAssumption DEF FilesOf
<1>3. CASE FilesOf(files, a) = {}
  <2>1. Search(files, a) = NoEntry  BY <1>3 DEF Search
  <2>2. \A e : ~HasLine(files, [addr |-> a, expire |-> e])
    <3>1. \A i \in 1..FixFiles : LinesOf(files[i], a) = {}  BY <1>3 DEF FilesOf
    <3> QED  BY <1>1, <3>1, LinesAre DEF HasLine
  <2> QED  BY <1>3, <2>1, <2>2
<1>4. CASE FilesOf(files, a) # {}
  <2> DEFINE i == Min(FilesOf(files, a))
             k == Min(LinesOf(files[i], a))
  <2>1. i \in 1..FixFiles /\ LinesOf(files[i], a) # {}
    BY <1>2, <1>4, MinIs DEF FilesOf
  <2>2. k \in LinesOf(files[i], a)  BY <1>1, <2>1, LinesAre, MinIs
  <2>3. Search(files, a) = files[i][k].expire  BY <1>4 DEF Search
  <2> HIDE DEF i, k
  <2>4. /\ files[i][k] = [addr |-> a, expire |-> Search(files, a)]
        /\ Search(files, a) \in Int \cup {NoExpire}
    <3>1. files[i] \in Seq(FixLine)  BY <1>1, <2>1
    <3>2. files[i][k] = [addr |-> a, expire |-> files[i][k].expire]
      BY <2>2, <3>1, LinesAre
    <3>3. files[i][k].expire \in Int \cup {NoExpire}  BY <2>2, <3>1, LinesAre
    <3> QED  BY <2>3, <3>2, <3>3
  <2>5. HasLine(files, [addr |-> a, expire |-> Search(files, a)])
    BY <1>1, <2>1, <2>2, <2>4, LinesAre DEF HasLine
  <2>6. ASSUME OneIn(files, a), NEW e, HasLine(files, [addr |-> a, expire |-> e])
        PROVE  Search(files, a) = e
    <3>1. PICK j \in 1..FixFiles : \E l \in LinesOf(files[j], a) : files[j][l] = [addr |-> a, expire |-> e]
      BY <1>1, <2>6, LinesAre DEF HasLine
    <3>2. PICK l \in LinesOf(files[j], a) : files[j][l] = [addr |-> a, expire |-> e]
      BY <3>1
    <3>3. i = j /\ k = l  BY <2>1, <2>2, <2>6, <3>1, <3>2 DEF OneIn
    <3> QED  BY <2>3, <3>2, <3>3
  <2>7. Search(files, a) # NoEntry  BY <2>4, FixAssumption
  <2> QED  BY <1>4, <2>4, <2>5, <2>6, <2>7
<1> QED  BY <1>3, <1>4

\* Who has the same lines before and after finds the same entry.
LEMMA SameLinesSameEntry ==
  ASSUME NEW files \in FixAclFiles, NEW after \in FixAclFiles, NEW a \in FixAddr,
         OneIn(after, a),
         \A e : HasLine(files, [addr |-> a, expire |-> e]) <=> HasLine(after, [addr |-> a, expire |-> e])
  PROVE  Search(after, a) = Search(files, a)
<1>1. CASE Search(files, a) # NoEntry  BY <1>1, SearchIs
<1>2. CASE Search(files, a) = NoEntry
  <2>1. \A e : ~HasLine(files, [addr |-> a, expire |-> e])
    BY <1>2, SearchIs, ListedIs
  <2>2. Search(after, a) = NoEntry  BY <2>1, SearchIs
  <2> QED  BY <1>2, <2>2
<1> QED  BY <1>1, <1>2

----------------------------------------------------------------------------
(* Filters and new lines.                                                   *)

\* A filter of one file.
LEMMA KeptLines ==
  ASSUME NEW f \in Seq(FixLine), NEW S
  PROVE  /\ Kept(f, S) \in Seq(FixLine)
         /\ ToSet(Kept(f, S)) = ToSet(f) \cap S
         /\ \A a \in FixAddr :
              \E at : /\ \A k \in LinesOf(Kept(f, S), a) : at[k] \in LinesOf(f, a)
                      /\ \A k, l \in LinesOf(Kept(f, S), a) : at[k] = at[l] => k = l
<1> DEFINE t == Kept(f, S)
<1>1. t \in Seq(FixLine)  BY KeptEmbeds
<1>2. PICK at : Embeds(f, S, Len(f), t, at)  BY KeptEmbeds
<1>3. PICK n \in Nat : n = Len(f) /\ DOMAIN f = 1..n  BY LenProperties
<1>4. PICK m \in Nat : m = Len(t) /\ DOMAIN t = 1..m  BY <1>1, LenProperties
<1> HIDE DEF t
<1>5. /\ at \in [1..m -> 1..n]
      /\ \A k \in 1..m : t[k] = f[at[k]] /\ t[k] \in S
      /\ \A k, l \in 1..m : k < l => at[k] < at[l]
      /\ \A i \in 1..n : f[i] \in S => \E k \in 1..m : at[k] = i
  BY <1>2, <1>3, <1>4 DEF Embeds
<1>6. \A k, l \in 1..m : at[k] = at[l] => k = l
  <2> SUFFICES ASSUME NEW k \in 1..m, NEW l \in 1..m, at[k] = at[l], k # l
               PROVE  FALSE
    OBVIOUS
  <2>1. at[k] \in 1..n /\ at[l] \in 1..n  BY <1>5
  <2>2. k < l \/ l < k  OBVIOUS
  <2> QED  BY <1>5, <2>1, <2>2
<1>7. ToSet(t) = ToSet(f) \cap S
  <2>1. \A x : x \in ToSet(f) <=> \E i \in 1..n : f[i] = x  BY <1>3 DEF ToSet
  <2>2. \A x : x \in ToSet(t) <=> \E k \in 1..m : t[k] = x  BY <1>4 DEF ToSet
  <2>3. \A x \in ToSet(t) : x \in ToSet(f) /\ x \in S  BY <1>5, <2>1, <2>2
  <2>4. ASSUME NEW x \in ToSet(f), x \in S  PROVE x \in ToSet(t)
    <3>1. PICK i \in 1..n : f[i] = x  BY <2>1
    <3>2. PICK k \in 1..m : at[k] = i  BY <1>5, <2>4, <3>1
    <3> QED  BY <1>5, <2>2, <3>1, <3>2
  <2> QED  BY <2>3, <2>4
<1>8. ASSUME NEW a \in FixAddr
      PROVE  /\ \A k \in LinesOf(t, a) : at[k] \in LinesOf(f, a)
             /\ \A k, l \in LinesOf(t, a) : at[k] = at[l] => k = l
  BY <1>3, <1>4, <1>5, <1>6 DEF LinesOf
<1> QED  BY <1>1, <1>7, <1>8 DEF t

\* Where files lose lines, none becomes two.
LEMMA FewerLines ==
  ASSUME NEW files \in FixAclFiles, NEW after,
         after = [i \in 1..FixFiles |-> after[i]],
         \A i \in 1..FixFiles : after[i] = files[i] \/ \E S : after[i] = Kept(files[i], S)
  PROVE  /\ after \in FixAclFiles
         /\ \A a \in FixAddr : OneIn(files, a) => OneIn(after, a)
<1>1. \A i \in 1..FixFiles : files[i] \in Seq(FixLine)  BY DEF FixAclFiles
<1>2. \A i \in 1..FixFiles : after[i] \in Seq(FixLine)  BY <1>1, KeptLines
<1>3. ASSUME NEW i \in 1..FixFiles, NEW a \in FixAddr
      PROVE  \E at : /\ \A k \in LinesOf(after[i], a) : at[k] \in LinesOf(files[i], a)
                     /\ \A k, l \in LinesOf(after[i], a) : at[k] = at[l] => k = l
  <2>1. CASE after[i] = files[i]
    <3> DEFINE at == [k \in LinesOf(files[i], a) |-> k]
    <3>1. /\ \A k \in LinesOf(after[i], a) : at[k] \in LinesOf(files[i], a)
          /\ \A k, l \in LinesOf(after[i], a) : at[k] = at[l] => k = l
      BY <2>1
    <3> QED  BY <3>1
  <2>2. CASE \E S : after[i] = Kept(files[i], S)
    <3>1. PICK S : after[i] = Kept(files[i], S)  BY <2>2
    <3>2. \E at : /\ \A k \in LinesOf(Kept(files[i], S), a) : at[k] \in LinesOf(files[i], a)
                  /\ \A k, l \in LinesOf(Kept(files[i], S), a) : at[k] = at[l] => k = l
      BY <1>1, KeptLines
    <3> QED  BY <3>1, <3>2
  <2> QED  BY <2>1, <2>2
<1>4. ASSUME NEW a \in FixAddr, OneIn(files, a)
      PROVE  OneIn(after, a)
  <2> SUFFICES ASSUME NEW i \in 1..FixFiles, NEW j \in 1..FixFiles,
                      NEW k \in LinesOf(after[i], a), NEW l \in LinesOf(after[j], a)
               PROVE  i = j /\ k = l
    BY DEF OneIn
  <2>1. PICK at : /\ \A x \in LinesOf(after[i], a) : at[x] \in LinesOf(files[i], a)
                  /\ \A x, y \in LinesOf(after[i], a) : at[x] = at[y] => x = y
    BY <1>3
  <2>2. PICK bt : \A x \in LinesOf(after[j], a) : bt[x] \in LinesOf(files[j], a)
    BY <1>3
  <2>3. i = j
    <3>1. at[k] \in LinesOf(files[i], a) /\ bt[l] \in LinesOf(files[j], a)  BY <2>1, <2>2
    <3>2. \A x \in LinesOf(files[i], a), y \in LinesOf(files[j], a) : i = j
      BY <1>4 DEF OneIn
    <3> QED  BY <3>1, <3>2
  <2>4. at[k] = at[l]
    <3>1. at[k] \in LinesOf(files[i], a) /\ at[l] \in LinesOf(files[i], a)  BY <2>1, <2>3
    <3>2. \A x, y \in LinesOf(files[i], a) : x = y  BY <1>4 DEF OneIn
    <3> QED  BY <3>1, <3>2
  <2> QED  BY <2>1, <2>3, <2>4
<1> QED  BY <1>2, <1>4 DEF FixAclFiles

\* A line is appended to one of the files.
LEMMA NewLine ==
  ASSUME NEW files \in FixAclFiles, NEW i \in 1..FixFiles, NEW a \in FixAddr,
         NEW e \in Int \cup {NoExpire}
  PROVE  LET new   == [addr |-> a, expire |-> e]
             after == [files EXCEPT ![i] = Append(files[i], new)]
         IN  /\ after \in FixAclFiles
             /\ \A l : HasLine(after, l) <=> HasLine(files, l) \/ l = new
             /\ \A b \in FixAddr \ {a} : OneIn(files, b) => OneIn(after, b)
             /\ FilesOf(files, a) = {} => OneIn(after, a)
<1> DEFINE new   == [addr |-> a, expire |-> e]
           after == [files EXCEPT ![i] = Append(files[i], new)]
<1>1. \A j \in 1..FixFiles : files[j] \in Seq(FixLine)  BY DEF FixAclFiles
<1>2. new \in FixLine /\ new.addr = a  BY DEF FixLine
<1>3. /\ after[i] = Append(files[i], new)
      /\ \A j \in 1..FixFiles : j # i => after[j] = files[j]
  BY DEF FixAclFiles
<1> HIDE DEF new
<1>4. PICK n \in Nat : n = Len(files[i]) /\ DOMAIN files[i] = 1..n  BY <1>1, LenProperties
<1>5. /\ after[i] \in Seq(FixLine) /\ Len(after[i]) = n + 1
      /\ \A k \in 1..n : after[i][k] = files[i][k]
      /\ after[i][n + 1] = new
  BY <1>1, <1>2, <1>3, <1>4, AppendProperties
<1>6. DOMAIN after[i] = 1..(n + 1)  BY <1>5, LenProperties
<1>7. after \in FixAclFiles  BY <1>5 DEF FixAclFiles
<1> HIDE DEF after
<1>8. \A k \in 1..(n + 1) : k \in 1..n \/ k = n + 1  OBVIOUS
<1>9. ToSet(after[i]) = ToSet(files[i]) \cup {new}
  <2>1. \A x : x \in ToSet(after[i]) <=> \E k \in 1..(n + 1) : after[i][k] = x
    BY <1>6 DEF ToSet
  <2>2. \A x : x \in ToSet(files[i]) <=> \E k \in 1..n : files[i][k] = x
    BY <1>4 DEF ToSet
  <2>3. 1..n \subseteq 1..(n + 1) /\ n + 1 \in 1..(n + 1)  OBVIOUS
  <2> QED  BY <1>5, <1>8, <2>1, <2>2, <2>3
<1>10. \A l : HasLine(after, l) <=> HasLine(files, l) \/ l = new
  BY <1>3, <1>9 DEF HasLine
<1>11. \A b \in FixAddr : LinesOf(after[i], b) = LinesOf(files[i], b) \cup (IF b = a THEN {n + 1} ELSE {})
  BY <1>2, <1>4, <1>5, <1>6, <1>8 DEF LinesOf
<1>12. ASSUME NEW b \in FixAddr \ {a}, OneIn(files, b)  PROVE OneIn(after, b)
  <2>1. \A j \in 1..FixFiles : LinesOf(after[j], b) = LinesOf(files[j], b)
    BY <1>3, <1>11
  <2> QED  BY <1>12, <2>1 DEF OneIn
<1>13. ASSUME FilesOf(files, a) = {}  PROVE OneIn(after, a)
  <2>1. \A j \in 1..FixFiles : LinesOf(files[j], a) = {}  BY <1>13 DEF FilesOf
  <2>2. \A j \in 1..FixFiles : LinesOf(after[j], a) = IF j = i THEN {n + 1} ELSE {}
    BY <1>3, <1>11, <2>1
  <2> QED  BY <2>2 DEF OneIn
<1> QED  BY <1>7, <1>10, <1>12, <1>13 DEF after, new

----------------------------------------------------------------------------
(* What each script does to the files.                                      *)

\* The files after a topup: one line of the address, with the new expire; all
\* other lines are as before.
LEMMA ToppedUp ==
  ASSUME NEW files \in FixAclFiles, files = fixFile,
         NEW a \in FixAddr, NEW t \in Int, NEW i \in 1..FixFiles,
         FixEntry(a) # NoExpire
  PROVE  LET after == ToppedUpFiles(a, t, i)
             e     == IF FixEntry(a) = NoEntry THEN t + FixSpan ELSE FixEntry(a) + FixSpan
         IN  /\ after \in FixAclFiles
             /\ e \in Int
             /\ \A b \in FixAddr : FilesOf(after, b) # {} <=> FilesOf(files, b) # {} \/ b = a
             /\ (\A b \in FixAddr : OneIn(files, b)) =>
                  /\ \A b \in FixAddr : OneIn(after, b)
                  /\ Search(after, a) = e
                  /\ \A b \in FixAddr \ {a} : Search(after, b) = Search(files, b)
<1> DEFINE e == IF FixEntry(a) = NoEntry THEN t + FixSpan ELSE FixEntry(a) + FixSpan
           new == [addr |-> a, expire |-> e]
           n == IF FixEntry(a) = NoEntry THEN i ELSE FirstFile(a)
           S == {l \in ToSet(files[n]) : l.addr # a}
           f == IF FixEntry(a) = NoEntry THEN files[n] ELSE Kept(files[n], S)
           cut == [files EXCEPT ![n] = f]
           after == [cut EXCEPT ![n] = Append(cut[n], new)]
<1>1. FixEntry(a) = Search(files, a) /\ FixEntry(a) \in Int \cup {NoEntry}
  BY SearchIs DEF FixEntry
<1>2. e \in Int
  BY <1>1, FixAssumption
<1>3. n \in 1..FixFiles
  <2>1. ASSUME FixEntry(a) # NoEntry  PROVE FirstFile(a) \in FilesOf(files, a)
    <3>1. FilesOf(files, a) # {}  BY <1>1, <2>1, SearchIs
    <3>2. FilesOf(files, a) \subseteq Nat  BY FixAssumption DEF FilesOf
    <3> QED  BY <3>1, <3>2, MinIs DEF FirstFile
  <2> QED  BY <2>1 DEF FilesOf
<1>4. /\ files = [j \in 1..FixFiles |-> files[j]]
      /\ \A j \in 1..FixFiles : files[j] \in Seq(FixLine)
  BY DEF FixAclFiles
<1>5. after = ToppedUpFiles(a, t, i)
  <2>1. cut[n] = f  BY <1>3, <1>4
  <2>2. after = [files EXCEPT ![n] = Append(f, new)]  BY <1>3, <1>4, <2>1
  <2>3. CASE FixEntry(a) = NoEntry  BY <2>2, <2>3 DEF ToppedUpFiles
  <2>4. CASE FixEntry(a) # NoEntry  BY <2>2, <2>4 DEF ToppedUpFiles, FilterLines
  <2> QED  BY <2>3, <2>4
<1>6. /\ cut = [j \in 1..FixFiles |-> cut[j]]
      /\ \A j \in 1..FixFiles : cut[j] = files[j] \/ \E R : cut[j] = Kept(files[j], R)
      /\ cut[n] = f /\ \A j \in 1..FixFiles : j # n => cut[j] = files[j]
  BY <1>3, <1>4
<1>7. ToSet(f) = IF FixEntry(a) = NoEntry THEN ToSet(files[n]) ELSE ToSet(files[n]) \cap S
  BY <1>3, <1>4, KeptLines
<1>8. S = {l \in ToSet(files[n]) : l.addr # a}  OBVIOUS
<1>9. new.addr = a /\ new = [addr |-> a, expire |-> e]  OBVIOUS
<1> HIDE DEF n, S, f, cut, e
<1>10. cut \in FixAclFiles /\ \A b \in FixAddr : OneIn(files, b) => OneIn(cut, b)
  BY <1>6, FewerLines
<1>11. /\ after \in FixAclFiles
       /\ \A l : HasLine(after, l) <=> HasLine(cut, l) \/ l = new
       /\ \A b \in FixAddr \ {a} : OneIn(cut, b) => OneIn(after, b)
       /\ FilesOf(cut, a) = {} => OneIn(after, a)
  BY <1>2, <1>3, <1>10, NewLine
<1> HIDE DEF after, new
<1>12. ASSUME NEW b \in FixAddr \ {a}, NEW x
       PROVE  HasLine(after, [addr |-> b, expire |-> x]) <=> HasLine(files, [addr |-> b, expire |-> x])
  <2> DEFINE l == [addr |-> b, expire |-> x]
  <2>1. l.addr = b /\ l # new  BY <1>9
  <2>2. \A j \in 1..FixFiles : l \in ToSet(cut[j]) <=> l \in ToSet(files[j])
    BY <1>3, <1>6, <1>7, <1>8, <2>1
  <2>3. HasLine(cut, l) <=> HasLine(files, l)  BY <2>2 DEF HasLine
  <2> QED  BY <1>11, <2>1, <2>3
<1>13. \A b \in FixAddr : FilesOf(after, b) # {} <=> FilesOf(files, b) # {} \/ b = a
  <2>1. HasLine(after, new)  BY <1>11
  <2>2. FilesOf(after, a) # {}  BY <1>9, <1>11, <2>1, ListedIs
  <2>3. \A b \in FixAddr \ {a} : FilesOf(after, b) # {} <=> FilesOf(files, b) # {}
    BY <1>11, <1>12, ListedIs
  <2> QED  BY <2>2, <2>3
<1>14. ASSUME \A b \in FixAddr : OneIn(files, b)
       PROVE  FilesOf(cut, a) = {}
  <2>1. \A x : ~HasLine(cut, [addr |-> a, expire |-> x])
    <3> SUFFICES ASSUME NEW x, NEW j \in 1..FixFiles, [addr |-> a, expire |-> x] \in ToSet(cut[j])
                 PROVE  FALSE
      BY DEF HasLine
    <3>1. CASE FixEntry(a) = NoEntry
      <4>1. cut[j] = files[j]
        BY <1>6, <3>1 DEF f
      <4>2. HasLine(files, [addr |-> a, expire |-> x])  BY <4>1 DEF HasLine
      <4> QED  BY <1>1, <3>1, <4>2, ListedIs, SearchIs
    <3>2. CASE FixEntry(a) # NoEntry
      <4>1. j # n
        <5>1. [addr |-> a, expire |-> x].addr = a  OBVIOUS
        <5> QED  BY <1>6, <1>7, <1>8, <3>2, <5>1
      <4>2. [addr |-> a, expire |-> x] \in ToSet(files[j])  BY <1>6, <4>1
      <4>3. LinesOf(files[j], a) # {}  BY <1>4, <4>2, LinesAre
      <4>4. n \in FilesOf(files, a)
        <5>1. FilesOf(files, a) # {}  BY <1>1, <3>2, SearchIs
        <5>2. FilesOf(files, a) \subseteq Nat  BY FixAssumption DEF FilesOf
        <5> QED  BY <3>2, <5>1, <5>2, MinIs DEF n, FirstFile
      <4>5. PICK k \in LinesOf(files[j], a), l \in LinesOf(files[n], a) : TRUE
        BY <4>3, <4>4 DEF FilesOf
      <4> QED  BY <1>3, <1>14, <4>1, <4>5 DEF OneIn
    <3> QED  BY <3>1, <3>2
  <2> QED  BY <1>10, <2>1, ListedIs
<1>15. ASSUME \A b \in FixAddr : OneIn(files, b)
       PROVE  /\ \A b \in FixAddr : OneIn(after, b)
              /\ Search(after, a) = e
              /\ \A b \in FixAddr \ {a} : Search(after, b) = Search(files, b)
  <2>1. \A b \in FixAddr : OneIn(after, b)  BY <1>10, <1>11, <1>14, <1>15
  <2>2. HasLine(after, [addr |-> a, expire |-> e])  BY <1>9, <1>11
  <2>3. Search(after, a) = e  BY <1>11, <2>1, <2>2, SearchIs
  <2>4. \A b \in FixAddr \ {a} : Search(after, b) = Search(files, b)
    BY <1>11, <1>12, <2>1, SameLinesSameEntry
  <2> QED  BY <2>1, <2>3, <2>4
<1> QED  BY <1>2, <1>5, <1>11, <1>13, <1>15 DEF e

\* The files after the administrator has added an address.
LEMMA Added ==
  ASSUME FixTypeOK, NEW p \in FixProcs, FixAdd(p)
  PROVE  LET a == fixJob[p].addr
         IN  /\ a \in FixAddr
             /\ fixFile' \in FixAclFiles
             /\ OneInv => OneInv'
             /\ OneInv /\ ~fixMixed' =>
                  \A b \in FixAddr : Search(fixFile', b) = IF b = a THEN NoExpire ELSE Search(fixFile, b)
<1> DEFINE a == fixJob[p].addr
<1>1. fixJob[p].pc = "add"  BY DEF FixAdd
<1>2. fixJob[p] \in FixJobs  BY DEF FixTypeOK
<1>3. a \in FixAddr  BY <1>1, <1>2 DEF FixJobs, Idle
<1>4. fixFile \in FixAclFiles /\ 1 \in 1..FixFiles  BY FixAssumption DEF FixTypeOK
<1>5. Whitelisted(a) <=> HasLine(fixFile, [addr |-> a, expire |-> NoExpire])
  BY DEF Whitelisted, HasLine
<1>6. CASE Whitelisted(a)
  <2>1. fixFile' = fixFile /\ (fixMixed => fixMixed')  BY <1>6 DEF FixAdd
  <2>2. OneInv => OneInv'  BY <2>1 DEF OneInv
  <2>3. ASSUME OneInv, ~fixMixed'
        PROVE  \A b \in FixAddr : Search(fixFile', b) = IF b = a THEN NoExpire ELSE Search(fixFile, b)
    <3>1. OneIn(fixFile, a)  BY <1>3, <2>1, <2>3 DEF OneInv
    <3>2. Search(fixFile, a) = NoExpire  BY <1>3, <1>4, <1>5, <1>6, <3>1, SearchIs
    <3> QED  BY <2>1, <3>2
  <2> QED  BY <1>3, <1>4, <2>1, <2>2, <2>3
<1>7. CASE ~Whitelisted(a)
  <2> DEFINE new == [addr |-> a, expire |-> NoExpire]
             after == [fixFile EXCEPT ![1] = Append(fixFile[1], new)]
  <2>1. fixFile' = after  BY <1>4, <1>7 DEF FixAdd
  <2>2. /\ after \in FixAclFiles
        /\ \A l : HasLine(after, l) <=> HasLine(fixFile, l) \/ l = new
        /\ \A b \in FixAddr \ {a} : OneIn(fixFile, b) => OneIn(after, b)
        /\ FilesOf(fixFile, a) = {} => OneIn(after, a)
    BY <1>3, <1>4, NewLine
  <2> HIDE DEF after
  <2>3. ASSUME ~fixMixed'  PROVE ~fixMixed /\ FilesOf(fixFile, a) = {}
    <3>1. ~fixMixed /\ FixEntry(a) \notin Int  BY <2>3 DEF FixAdd
    <3>2. FixEntry(a) # NoExpire
      BY <1>3, <1>4, <1>5, <1>7, FixAssumption, SearchIs DEF FixEntry
    <3> QED  BY <1>3, <1>4, <3>1, <3>2, SearchIs DEF FixEntry
  <2>4. ASSUME OneInv, ~fixMixed'
        PROVE  /\ \A b \in FixAddr : OneIn(fixFile, b) /\ OneIn(after, b)
               /\ \A b \in FixAddr : Search(after, b) = IF b = a THEN NoExpire ELSE Search(fixFile, b)
    <3>1. \A b \in FixAddr : OneIn(fixFile, b) /\ OneIn(after, b)
      BY <2>2, <2>3, <2>4 DEF OneInv
    <3>2. HasLine(after, [addr |-> a, expire |-> NoExpire])  BY <2>2
    <3>3. Search(after, a) = NoExpire  BY <1>3, <2>2, <3>1, <3>2, SearchIs
    <3>4. ASSUME NEW b \in FixAddr \ {a}  PROVE Search(after, b) = Search(fixFile, b)
      <4>1. \A e : [addr |-> b, expire |-> e] # new  OBVIOUS
      <4> QED  BY <1>4, <2>2, <3>1, <4>1, SameLinesSameEntry
    <3> QED  BY <3>1, <3>3, <3>4
  <2> QED  BY <1>3, <2>1, <2>2, <2>4 DEF OneInv
<1> QED  BY <1>6, <1>7

\* The files after the administrator has removed an address: only a line without
\* an expire goes.
LEMMA Removed ==
  ASSUME FixTypeOK, NEW p \in FixProcs, FixRemove(p)
  PROVE  LET a == fixJob[p].addr
         IN  /\ a \in FixAddr
             /\ fixFile' \in FixAclFiles
             /\ OneInv => OneInv'
             /\ OneInv /\ ~fixMixed' =>
                  \A b \in FixAddr : Search(fixFile', b) =
                    IF b = a /\ Search(fixFile, a) = NoExpire THEN NoEntry ELSE Search(fixFile, b)
<1> DEFINE a == fixJob[p].addr
           line == [addr |-> a, expire |-> NoExpire]
<1>1. fixJob[p].pc = "remove" /\ UNCHANGED fixMixed
      /\ fixFile' = [i \in 1..FixFiles |-> Kept(fixFile[i], ToSet(fixFile[i]) \ {line})]
  BY DEF FixRemove
<1>2. a \in FixAddr  BY <1>1 DEF FixJobs, Idle, FixTypeOK
<1>3. fixFile \in FixAclFiles /\ \A i \in 1..FixFiles : fixFile[i] \in Seq(FixLine)
  BY DEF FixTypeOK, FixAclFiles
<1>4. /\ fixFile' \in FixAclFiles
      /\ \A b \in FixAddr : OneIn(fixFile, b) => OneIn(fixFile', b)
  <2>1. fixFile' = [i \in 1..FixFiles |-> fixFile'[i]]  BY <1>1
  <2>2. \A i \in 1..FixFiles : \E S : fixFile'[i] = Kept(fixFile[i], S)  BY <1>1
  <2> QED  BY <1>3, <2>1, <2>2, FewerLines
<1>5. \A i \in 1..FixFiles : ToSet(fixFile'[i]) = ToSet(fixFile[i]) \ {line}
  BY <1>1, <1>3, KeptLines
<1>6. \A l : HasLine(fixFile', l) <=> HasLine(fixFile, l) /\ l # line
  BY <1>5 DEF HasLine
<1>7. ASSUME OneInv, ~fixMixed', NEW b \in FixAddr
      PROVE  Search(fixFile', b) =
               IF b = a /\ Search(fixFile, a) = NoExpire THEN NoEntry ELSE Search(fixFile, b)
  <2>1. OneIn(fixFile, b) /\ OneIn(fixFile', b)  BY <1>1, <1>4, <1>7 DEF OneInv
  <2>2. CASE b = a /\ Search(fixFile, a) = NoExpire
    <3>1. \A e : HasLine(fixFile, [addr |-> a, expire |-> e]) => e = NoExpire
      BY <1>3, <2>1, <2>2, SearchIs
    <3>2. \A e : ~HasLine(fixFile', [addr |-> a, expire |-> e])  BY <1>6, <3>1
    <3>3. Search(fixFile', a) = NoEntry  BY <1>2, <1>4, <3>2, SearchIs
    <3> QED  BY <2>2, <3>3
  <2>3. CASE ~(b = a /\ Search(fixFile, a) = NoExpire)
    <3>1. ~HasLine(fixFile, line) \/ b # a
      BY <1>3, <2>1, <2>3, SearchIs
    <3>2. \A e : HasLine(fixFile, [addr |-> b, expire |-> e]) <=> HasLine(fixFile', [addr |-> b, expire |-> e])
      BY <1>6, <3>1
    <3> QED  BY <1>3, <1>4, <2>1, <2>3, <3>2, SameLinesSameEntry
  <2> QED  BY <2>2, <2>3
<1> QED  BY <1>1, <1>2, <1>4, <1>7 DEF OneInv

\* The files after expire-fixip-rules: what has expired is gone from all of them.
LEMMA DroppedOld ==
  ASSUME FixTypeOK, NEW p \in FixProcs, FixDropOld(p)
  PROVE  LET t == fixJob[p].t
         IN  /\ t \in 0..FixLastTime
             /\ fixFile' \in FixAclFiles
             /\ OneInv => OneInv'
             /\ OneInv /\ ~fixMixed' =>
                  \A b \in FixAddr : Search(fixFile', b) =
                    IF Search(fixFile, b) \notin {NoEntry, NoExpire} /\ Search(fixFile, b) <= t
                    THEN NoEntry ELSE Search(fixFile, b)
<1> DEFINE t == fixJob[p].t
           Stays(l) == l.expire = NoExpire \/ l.expire > t
<1>1. fixJob[p].pc = "dropold" /\ UNCHANGED fixMixed
      /\ fixFile' = [i \in 1..FixFiles |-> Kept(fixFile[i], {l \in ToSet(fixFile[i]) : Stays(l)})]
  BY DEF FixDropOld
<1>2. t \in 0..FixLastTime  BY <1>1 DEF FixJobs, Idle, FixTypeOK
<1>3. fixFile \in FixAclFiles /\ \A i \in 1..FixFiles : fixFile[i] \in Seq(FixLine)
  BY DEF FixTypeOK, FixAclFiles
<1>4. /\ fixFile' \in FixAclFiles
      /\ \A b \in FixAddr : OneIn(fixFile, b) => OneIn(fixFile', b)
  <2>1. fixFile' = [i \in 1..FixFiles |-> fixFile'[i]]  BY <1>1
  <2>2. \A i \in 1..FixFiles : \E S : fixFile'[i] = Kept(fixFile[i], S)  BY <1>1
  <2> QED  BY <1>3, <2>1, <2>2, FewerLines
<1>5. \A i \in 1..FixFiles : ToSet(fixFile'[i]) = {l \in ToSet(fixFile[i]) : Stays(l)}
  BY <1>1, <1>3, KeptLines
<1>6. \A l : HasLine(fixFile', l) <=> HasLine(fixFile, l) /\ Stays(l)
  BY <1>5 DEF HasLine
<1>7. ASSUME OneInv, ~fixMixed', NEW b \in FixAddr
      PROVE  Search(fixFile', b) =
               IF Search(fixFile, b) \notin {NoEntry, NoExpire} /\ Search(fixFile, b) <= t
               THEN NoEntry ELSE Search(fixFile, b)
  <2> DEFINE e == Search(fixFile, b)
             line == [addr |-> b, expire |-> e]
  <2>1. OneIn(fixFile, b) /\ OneIn(fixFile', b)  BY <1>1, <1>4, <1>7 DEF OneInv
  <2>2. \A x : HasLine(fixFile, [addr |-> b, expire |-> x]) => x = e  BY <1>3, <2>1, SearchIs
  <2>3. e \in Int \cup {NoEntry, NoExpire}  BY <1>3, SearchIs
  <2>4. e # NoEntry => (Stays(line) <=> e = NoExpire \/ e > t)  OBVIOUS
  <2> HIDE DEF Stays, line, t
  <2>5. CASE e # NoEntry /\ ~Stays(line)
    <3>1. \A x : ~HasLine(fixFile', [addr |-> b, expire |-> x])
      BY <1>6, <2>2, <2>5 DEF line
    <3>2. Search(fixFile', b) = NoEntry  BY <1>4, <3>1, SearchIs
    <3>3. e \in Int /\ e # NoExpire /\ ~(e > t)  BY <2>3, <2>4, <2>5
    <3>4. e <= t /\ e \notin {NoEntry, NoExpire}
      BY <1>2, <3>3, FixAssumption
    <3> QED  BY <3>2, <3>4
  <2>6. CASE e = NoEntry \/ Stays(line)
    <3>1. \A x : HasLine(fixFile, [addr |-> b, expire |-> x]) <=> HasLine(fixFile', [addr |-> b, expire |-> x])
      <4>1. CASE e = NoEntry
        <5>1. \A x : ~HasLine(fixFile, [addr |-> b, expire |-> x])
          BY <1>3, <4>1, SearchIs, ListedIs
        <5> QED  BY <1>6, <5>1
      <4>2. CASE Stays(line)  BY <1>6, <2>2, <4>2 DEF line
      <4> QED  BY <2>6, <4>1, <4>2
    <3>2. Search(fixFile', b) = e  BY <1>3, <1>4, <2>1, <3>1, SameLinesSameEntry
    <3>3. ~(e \notin {NoEntry, NoExpire} /\ e <= t)
      <4>1. CASE e \in {NoEntry, NoExpire}  BY <4>1
      <4>2. CASE e \in Int /\ e \notin {NoEntry, NoExpire}
        <5>1. e > t  BY <2>4, <2>6, <4>2
        <5> QED  BY <1>2, <4>2, <5>1
      <4> QED  BY <2>3, <4>1, <4>2
    <3> QED  BY <3>2, <3>3
  <2> QED  BY <2>5, <2>6
<1> QED  BY <1>1, <1>2, <1>4, <1>7 DEF OneInv

----------------------------------------------------------------------------
(* The invariants hold.                                                     *)

\* The parameters of a job.
LEMMA FixJobFields ==
  ASSUME NEW j \in FixJobs
  PROVE  /\ j.pc \in {"topup", "add", "remove", "addrand"} => j.addr \in FixAddr
         /\ j.pc = "topup" => j.file \in 1..FixFiles /\ j.t \in 0..FixLastTime /\ j.t \in Int
  BY FixAssumption DEF FixJobs, Idle

\* The files after any step of a topup.
LEMMA TopupFiles ==
  ASSUME FixTypeOK, NEW p \in FixProcs, FixTopup(p)
  PROVE  LET j == fixJob[p]
         IN  /\ j.addr \in FixAddr /\ j.t \in 0..FixLastTime
             /\ fixFile' \in FixAclFiles
             /\ OneInv => OneInv'
             /\ FixListed' = FixListed \/ FixListed' = FixListed \cup {j.addr}
             /\ UNCHANGED fixFile \/
                (/\ fixJob'[p] = [pc |-> "addrand", addr |-> j.addr]
                 /\ Search(fixFile, j.addr) # NoExpire
                 /\ OneInv /\ ~fixMixed' =>
                      \A b \in FixAddr : Search(fixFile', b) =
                        IF b # j.addr THEN Search(fixFile, b)
                        ELSE IF Search(fixFile, b) = NoEntry THEN j.t + FixSpan
                        ELSE Search(fixFile, b) + FixSpan)
             /\ UNCHANGED fixFile => FixListed' = FixListed
<1> DEFINE j == fixJob[p]
<1>1. j.pc = "topup" /\ UNCHANGED fixMixed  BY DEF FixTopup
<1>2. j \in FixJobs  BY DEF FixTypeOK
<1>3. j.addr \in FixAddr /\ j.t \in 0..FixLastTime /\ j.t \in Int /\ j.file \in 1..FixFiles
  BY <1>1, <1>2, FixJobFields
<1>4. fixFile \in FixAclFiles  BY DEF FixTypeOK
<1>5. UNCHANGED fixFile => FixListed' = FixListed  BY DEF FixListed
<1>6. CASE FixEntry(j.addr) = NoExpire
  <2>1. UNCHANGED fixFile  BY <1>6 DEF FixTopup
  <2> QED  BY <1>1, <1>3, <1>4, <1>5, <2>1 DEF OneInv
<1>7. CASE FixEntry(j.addr) # NoExpire
  <2> DEFINE after == ToppedUpFiles(j.addr, j.t, j.file)
             e == IF FixEntry(j.addr) = NoEntry THEN j.t + FixSpan ELSE FixEntry(j.addr) + FixSpan
  <2>1. fixFile' = after /\ fixJob'[p] = [pc |-> "addrand", addr |-> j.addr]
    BY <1>7 DEF FixTopup, Goes, FixTypeOK
  <2>2. /\ after \in FixAclFiles
        /\ \A b \in FixAddr : FilesOf(after, b) # {} <=> FilesOf(fixFile, b) # {} \/ b = j.addr
        /\ (\A b \in FixAddr : OneIn(fixFile, b)) =>
             /\ \A b \in FixAddr : OneIn(after, b)
             /\ Search(after, j.addr) = e
             /\ \A b \in FixAddr \ {j.addr} : Search(after, b) = Search(fixFile, b)
    <3>1. j.addr \in FixAddr /\ j.t \in Int /\ j.file \in 1..FixFiles  BY <1>3
    <3> HIDE DEF j
    <3> QED  BY <1>4, <1>7, <3>1, ToppedUp
  <2> HIDE DEF after
  <2>3. FixListed' = FixListed \cup {j.addr}  BY <1>3, <2>1, <2>2 DEF FixListed
  <2>4. OneInv => OneInv'  BY <1>1, <2>1, <2>2 DEF OneInv
  <2>5. ASSUME OneInv, ~fixMixed', NEW b \in FixAddr
        PROVE  Search(fixFile', b) =
                 IF b # j.addr THEN Search(fixFile, b)
                 ELSE IF Search(fixFile, b) = NoEntry THEN j.t + FixSpan
                 ELSE Search(fixFile, b) + FixSpan
    BY <1>1, <2>1, <2>2, <2>5 DEF OneInv, FixEntry
  <2> QED  BY <1>3, <1>5, <1>7, <2>1, <2>2, <2>3, <2>4, <2>5 DEF FixEntry
<1> QED  BY <1>6, <1>7

\* The jobs stay jobs, and a script changes nobody else's.
LEMMA FixJobsKeepTypes ==
  ASSUME FixTypeOK, NEW p \in FixProcs, FixStep(p)
  PROVE  /\ fixJob' \in [FixProcs -> FixJobs]
         /\ \A q \in FixProcs \ {p} : fixJob'[q] = fixJob[q]
<1> SUFFICES \E j \in FixJobs : Goes(p, j)
  BY DEF Goes, FixTypeOK
<1>1. Idle \in FixJobs /\ [pc |-> "rules"] \in FixJobs  BY DEF FixJobs
<1>2. CASE FixStart(p)
  <2>1. fixNow \in 0..FixLastTime  BY DEF FixTypeOK
  <2> QED  BY <1>2, <2>1 DEF FixStart, FixJobs
<1>3. CASE FixTopup(p)
  <2>1. fixJob[p].addr \in FixAddr  BY <1>3, TopupFiles
  <2>2. [pc |-> "addrand", addr |-> fixJob[p].addr] \in FixJobs  BY <2>1 DEF FixJobs
  <2> QED  BY <1>1, <1>3, <2>2 DEF FixTopup, Ends
<1>4. CASE \/ FixAddRand(p) \/ FixAdd(p) \/ FixRemove(p) \/ FixDropOld(p) \/ FixUpdateRules(p)
  BY <1>1, <1>4 DEF FixAddRand, FixAdd, FixRemove, FixDropOld, FixUpdateRules, Ends, Rules
<1> QED  BY <1>2, <1>3, <1>4 DEF FixStep

\* The variables keep their types.
LEMMA FixStepKeepsTypes ==
  ASSUME FixTypeOK, [FixNext]_fixVars
  PROVE  FixTypeOK'
<1>1. CASE UNCHANGED fixVars  BY <1>1 DEF fixVars, FixTypeOK
<1>2. CASE FixTick
  <2>1. fixNow' \in 0..FixLastTime  BY <1>2, FixAssumption DEF FixTick, FixTypeOK
  <2> QED  BY <1>2, <2>1 DEF FixTick, FixTypeOK
<1>3. ASSUME NEW p \in FixProcs, FixStep(p)
      PROVE  FixTypeOK'
  <2>1. fixJob' \in [FixProcs -> FixJobs]  BY <1>3, FixJobsKeepTypes
  <2>2. fixNow' = fixNow
    BY <1>3 DEF FixStep, FixStart, FixTopup, FixAddRand, FixAdd, FixRemove, FixDropOld, FixUpdateRules
  <2>3. fixMixed' \in BOOLEAN
    BY <1>3 DEF FixStep, FixStart, FixTopup, FixAddRand, FixAdd, FixRemove, FixDropOld,
                FixUpdateRules, FixTypeOK
  <2>4. fixRules' \subseteq FixAddr
    BY <1>3 DEF FixStep, FixStart, FixTopup, FixAddRand, FixAdd, FixRemove, FixDropOld,
                FixUpdateRules, FixTypeOK, FixListed
  <2>5. fixFile' \in FixAclFiles
    <3>1. CASE FixStart(p) \/ FixAddRand(p) \/ FixUpdateRules(p)
      BY <3>1 DEF FixStart, FixAddRand, FixUpdateRules, FixTypeOK
    <3> QED  BY <1>3, <3>1, TopupFiles, Added, Removed, DroppedOld DEF FixStep
  <2> QED  BY <2>1, <2>2, <2>3, <2>4, <2>5 DEF FixTypeOK
<1> QED  BY <1>1, <1>2, <1>3 DEF FixNext

\* Whoever changes a file sees to the rules.
LEMMA FixStepKeepsFollowInv ==
  ASSUME FixTypeOK, FollowInv, [FixNext]_fixVars
  PROVE  FollowInv'
<1>1. ASSUME UNCHANGED <<fixFile, fixRules, fixJob, fixUnpaid>>
      PROVE  FollowInv'
  <2>1. FixListed' = FixListed  BY <1>1 DEF FixListed
  <2> QED  BY <1>1, <2>1 DEF FollowInv, RulesAreDue
<1>2. CASE UNCHANGED fixVars \/ FixTick
  BY <1>1, <1>2 DEF fixVars, FixTick
<1>3. ASSUME NEW p \in FixProcs, FixStep(p)
      PROVE  FollowInv'
  <2> DEFINE Due == \A a \in FixListed \ fixRules :
               a \in fixUnpaid \/ \E q \in FixProcs : fixJob[q].pc = "addrand" /\ fixJob[q].addr = a
  <2>1. \A q \in FixProcs \ {p} : fixJob'[q] = fixJob[q]  BY <1>3, FixJobsKeepTypes
  <2>2. ASSUME fixJob'[p] = [pc |-> "rules"]  PROVE FollowInv'
    BY <2>2 DEF FollowInv, RulesAreDue
  <2>3. \A j : Goes(p, j) => fixJob'[p] = j  BY DEF Goes, FixTypeOK
  <2>4. ASSUME fixJob[p].pc # "rules"
        PROVE  RulesAreDue => RulesAreDue'
    BY <2>1, <2>4 DEF RulesAreDue
  <2>5. CASE FixStart(p) \/ (FixDropOld(p) /\ UNCHANGED fixFile)
    <3>1. fixJob[p].pc \notin {"rules", "addrand"} /\ UNCHANGED <<fixFile, fixRules, fixUnpaid>>
      BY <2>5 DEF FixStart, FixDropOld, Idle
    <3>2. FixListed' = FixListed  BY <3>1 DEF FixListed
    <3> QED  BY <2>1, <2>4, <3>1, <3>2 DEF FollowInv
  <2>6. CASE FixTopup(p)
    <3> DEFINE a == fixJob[p].addr
    <3>1. fixJob[p].pc = "topup" /\ UNCHANGED <<fixRules, fixUnpaid>>  BY <2>6 DEF FixTopup
    <3>2. CASE FixListed' = FixListed
      BY <2>1, <2>4, <3>1, <3>2 DEF FollowInv
    <3>3. CASE FixListed' = FixListed \cup {a} /\ fixJob'[p] = [pc |-> "addrand", addr |-> a]
      <4>1. fixJob'[p].pc = "addrand" /\ fixJob'[p].addr = a  BY <3>3
      <4> QED  BY <2>1, <2>4, <3>1, <3>3, <4>1 DEF FollowInv
    <3> QED  BY <2>6, <3>2, <3>3, TopupFiles
  <2>7. CASE FixAddRand(p)
    <3>1. /\ fixJob[p].pc = "addrand" /\ UNCHANGED <<fixFile, fixRules>>
          /\ \/ fixJob'[p] = [pc |-> "rules"]
             \/ fixUnpaid' = fixUnpaid \cup {fixJob[p].addr}
      BY <2>3, <2>7 DEF FixAddRand, Rules
    <3>2. FixListed' = FixListed  BY <3>1 DEF FixListed
    <3> QED  BY <2>1, <2>2, <2>4, <3>1, <3>2 DEF FollowInv
  <2>8. CASE FixAdd(p) \/ FixRemove(p) \/ (FixDropOld(p) /\ ~UNCHANGED fixFile)
    <3>1. fixJob'[p] = [pc |-> "rules"]
      BY <2>3, <2>8 DEF FixAdd, FixRemove, FixDropOld, Rules
    <3> QED  BY <2>2, <3>1
  <2>9. CASE FixUpdateRules(p)
    <3>1. fixRules' = FixListed /\ UNCHANGED fixFile  BY <2>9 DEF FixUpdateRules
    <3>2. FixListed' = FixListed  BY <3>1 DEF FixListed
    <3> QED  BY <3>1, <3>2 DEF FollowInv
  <2> QED  BY <1>3, <2>5, <2>6, <2>7, <2>8, <2>9 DEF FixStep
<1> QED  BY <1>2, <1>3 DEF FixNext

\* Nobody adds a second line for an address, until the administrator does.
LEMMA FixStepKeepsOneInv ==
  ASSUME FixTypeOK, OneInv, [FixNext]_fixVars
  PROVE  OneInv'
<1>1. CASE UNCHANGED <<fixFile, fixMixed>>  BY <1>1 DEF OneInv
<1>2. CASE UNCHANGED fixVars \/ FixTick  BY <1>1, <1>2 DEF fixVars, FixTick
<1>3. ASSUME NEW p \in FixProcs, FixStep(p)
      PROVE  OneInv'
  <2>1. CASE FixStart(p) \/ FixAddRand(p) \/ FixUpdateRules(p)
    BY <1>1, <2>1 DEF FixStart, FixAddRand, FixUpdateRules
  <2> QED  BY <1>3, <2>1, TopupFiles, Added, Removed, DroppedOld DEF FixStep
<1> QED  BY <1>2, <1>3 DEF FixNext

FixInv == FixTypeOK /\ FollowInv /\ OneInv

\* The files are empty to begin with.
LEMMA FixInitInv == FixInit => FixInv
<1> SUFFICES ASSUME FixInit  PROVE FixInv
  OBVIOUS
<1>1. fixFile = [i \in 1..FixFiles |-> <<>>] /\ \A i \in 1..FixFiles : fixFile[i] = <<>>
  BY DEF FixInit
<1>2. FixTypeOK
  <2>1. fixFile \in FixAclFiles
    <3>1. <<>> \in Seq(FixLine)  OBVIOUS
    <3> QED  BY <1>1, <3>1 DEF FixAclFiles
  <2>2. Idle \in FixJobs  BY DEF FixJobs
  <2>3. fixNow \in 0..FixLastTime  BY FixAssumption DEF FixInit
  <2>4. fixJob \in [FixProcs -> FixJobs] /\ fixRules \subseteq FixAddr /\ fixMixed \in BOOLEAN
    BY <2>2 DEF FixInit
  <2> QED  BY <2>1, <2>3, <2>4 DEF FixTypeOK
<1>3. \A i \in 1..FixFiles, a \in FixAddr : LinesOf(fixFile[i], a) = {}
  BY <1>1 DEF LinesOf
<1>4. FollowInv  BY <1>3 DEF FixInit, FollowInv, FixListed, FilesOf
<1>5. OneInv  BY <1>3 DEF OneInv, OneIn
<1> QED  BY <1>2, <1>4, <1>5 DEF FixInv

\* Types, due rules and single lines, whatever the scripts do.
THEOREM FixInvHolds == FixSpec => []FixInv
<1>1. FixInv /\ [FixNext]_fixVars => FixInv'
  BY FixStepKeepsTypes, FixStepKeepsFollowInv, FixStepKeepsOneInv DEF FixInv
<1> QED  BY FixInitInv, <1>1, PTL DEF FixSpec

\* Between the scripts, the firewall lets through just those who are in a file,
\* but for clients whose payment was not stored.
THEOREM FixRulesFollowHolds == FixSpec => []FixRulesFollow
<1>1. FixInv => FixRulesFollow
  <2> SUFFICES ASSUME FollowInv, \A p \in FixProcs : fixJob[p] = Idle
               PROVE  fixRules \subseteq FixListed /\ FixListed \ fixRules \subseteq fixUnpaid
    BY DEF FixInv, FixRulesFollow
  <2>1. \A p \in FixProcs : fixJob[p].pc \notin {"rules", "addrand"}  BY DEF Idle
  <2> QED  BY <2>1 DEF FollowInv, RulesAreDue
<1> QED  BY FixInvHolds, <1>1, PTL

----------------------------------------------------------------------------
(* The files are one table.                                                 *)

FixTable == [a \in FixAddr |-> FixEntry(a)]

\* One entry changes.
LEMMA OneEntry ==
  ASSUME NEW a \in FixAddr, NEW e, FixTable' = [b \in FixAddr |-> Search(fixFile', b)],
         \A b \in FixAddr : Search(fixFile', b) = IF b = a THEN e ELSE Search(fixFile, b)
  PROVE  FixTable' = [FixTable EXCEPT ![a] = e]
  BY DEF FixTable, FixEntry

\* Every critical section is one step of the table, or none.
LEMMA FixStepImplementsStore ==
  ASSUME FixTypeOK, OneInv, ~fixMixed', NEW p \in FixProcs, FixStep(p)
  PROVE  FixStore!LocalNext \/ FixTable' = FixTable
<1>1. /\ FixTable = [b \in FixAddr |-> Search(fixFile, b)]
      /\ FixTable' = [b \in FixAddr |-> Search(fixFile', b)]
  BY DEF FixTable, FixEntry
<1>2. ASSUME UNCHANGED fixFile  PROVE FixTable' = FixTable
  BY <1>1, <1>2
<1> DEFINE a == fixJob[p].addr
           t == fixJob[p].t
<1>3. CASE FixStart(p) \/ FixAddRand(p) \/ FixUpdateRules(p)
  BY <1>2, <1>3 DEF FixStart, FixAddRand, FixUpdateRules
<1>4. CASE FixTopup(p)
  <2>1. CASE UNCHANGED fixFile  BY <1>2, <2>1
  <2>2. CASE ~UNCHANGED fixFile
    <3> DEFINE e == IF Search(fixFile, a) = NoEntry THEN t + FixSpan ELSE Search(fixFile, a) + FixSpan
    <3>1. /\ a \in FixAddr /\ t \in 0..FixLastTime
          /\ Search(fixFile, a) # NoExpire
          /\ \A b \in FixAddr : Search(fixFile', b) = IF b = a THEN e ELSE Search(fixFile, b)
      BY <1>4, <2>2, TopupFiles
    <3> HIDE DEF e, a, t
    <3>2. FixTable' = [FixTable EXCEPT ![a] = e] /\ FixTable[a] = Search(fixFile, a)
      BY <1>1, <3>1, OneEntry
    <3>3. FixStore!LocalTopup(a, t, FixSpan)
      BY <3>1, <3>2 DEF FixStore!LocalTopup, FixTable, e
    <3> QED  BY <3>1, <3>3 DEF FixStore!LocalNext
  <2> QED  BY <2>1, <2>2
<1>5. CASE FixAdd(p)
  <2>1. /\ a \in FixAddr
        /\ \A b \in FixAddr : Search(fixFile', b) = IF b = a THEN NoExpire ELSE Search(fixFile, b)
    BY <1>5, Added
  <2> HIDE DEF a
  <2>2. FixTable' = [FixTable EXCEPT ![a] = NoExpire]  BY <1>1, <2>1, OneEntry
  <2>3. FixStore!LocalWhitelist(a)  BY <2>2 DEF FixStore!LocalWhitelist, FixTable
  <2> QED  BY <2>1, <2>3 DEF FixStore!LocalNext
<1>6. CASE FixRemove(p)
  <2>1. /\ a \in FixAddr
        /\ \A b \in FixAddr : Search(fixFile', b) =
             IF b = a /\ Search(fixFile, a) = NoExpire THEN NoEntry ELSE Search(fixFile, b)
    BY <1>6, Removed
  <2> HIDE DEF a
  <2>2. CASE Search(fixFile, a) = NoExpire
    <3>1. FixTable' = [FixTable EXCEPT ![a] = NoEntry]  BY <1>1, <2>1, <2>2, OneEntry
    <3>2. FixStore!LocalRemove(a)  BY <3>1 DEF FixStore!LocalRemove, FixTable
    <3> QED  BY <2>1, <3>2 DEF FixStore!LocalNext
  <2>3. CASE Search(fixFile, a) # NoExpire  BY <1>1, <2>1, <2>3
  <2> QED  BY <2>2, <2>3
<1>7. CASE FixDropOld(p)
  <2>1. /\ t \in 0..FixLastTime
        /\ \A b \in FixAddr : Search(fixFile', b) =
             IF Search(fixFile, b) \notin {NoEntry, NoExpire} /\ Search(fixFile, b) <= t
             THEN NoEntry ELSE Search(fixFile, b)
    BY <1>7, DroppedOld
  <2> HIDE DEF t
  <2>2. FixTable' = [b \in FixAddr |->
                       IF FixTable[b] \notin {NoEntry, NoExpire} /\ FixTable[b] <= t
                       THEN NoEntry ELSE FixTable[b]]
    BY <1>1, <2>1
  <2>3. FixStore!LocalRefresh(t)  BY <2>2 DEF FixStore!LocalRefresh, FixTable
  <2> QED  BY <2>1, <2>3 DEF FixStore!LocalNext
<1> QED  BY <1>3, <1>4, <1>5, <1>6, <1>7 DEF FixStep

\* The acl files of all tariffs implement one table, until the administrator
\* whitelists an address that has time left.
THEOREM FilesAreOneTableHolds == FixSpec => FilesAreOneTable
<1> DEFINE views == [p \in FixProcs |-> [a \in FixAddr |-> NoEntry]]
<1>1. FixInit => FixStore!LocalInit
  BY DEF FixInit, FixStore!LocalInit, FixStore!NoView
<1>2. FixInv /\ [FixNext]_fixVars =>
        [fixMixed' \/ FixStore!LocalNext]_<<[a \in FixAddr |-> FixEntry(a)], views>>
  <2> SUFFICES ASSUME FixInv, [FixNext]_fixVars, ~fixMixed'
               PROVE  FixStore!LocalNext \/ FixTable' = FixTable
    BY DEF FixTable
  <2>1. CASE UNCHANGED fixVars \/ FixTick
    <3>1. UNCHANGED fixFile  BY <2>1 DEF fixVars, FixTick
    <3> QED  BY <3>1 DEF FixTable, FixEntry
  <2>2. ASSUME NEW p \in FixProcs, FixStep(p)
        PROVE  FixStore!LocalNext \/ FixTable' = FixTable
    BY <2>2, FixStepImplementsStore DEF FixInv
  <2> QED  BY <2>1, <2>2 DEF FixNext
<1> QED  BY FixInvHolds, <1>1, <1>2, PTL
         DEF FixSpec, FilesAreOneTable, FixStore!LocalSpec, FixStore!tableVars
==============================================================================
