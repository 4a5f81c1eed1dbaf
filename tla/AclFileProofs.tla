---------------------------- MODULE AclFileProofs ----------------------------
(***************************************************************************)
(* Proofs about AclFile, for any set of processes, addresses, entries and  *)
(* functions passed to update.                                             *)
(***************************************************************************)
EXTENDS AclFile, AclLockProofs, TLAPS

LEMMA EmptyTableIsTable == EmptyTable \in Table
  BY DEF EmptyTable, Table, Store!EmptyTable, Store!Table

\* What is left of a table is a table.
LEMMA ShortIsTable == \A c : Store!Short(c) \subseteq Table
  BY DEF Store!Short, Table

\* The lock steps of a process are the steps AclLock allows it.
LEMMA LockSteps ==
  ASSUME TypeOK, NEW p \in Proc,
         Open(p) \/ Acquire(p) \/ Close(p) \/ (Kill(p) /\ fd[p] # NoInode)
  PROVE  LockStep(p)
  BY DEF TypeOK, Open, Acquire, Close, Kill, LockStep, ModeOf, Modes, CloseLock

\* The whole lock invariant is kept by every step.
LEMMA NextKeepsLockInv ==
  ASSUME TypeOK, LockInv, [Next]_vars
  PROVE  LockInv'
<1>1. ASSUME UNCHANGED lockVars
      PROVE  LockInv'
  BY <1>1 DEF LockInv, LockTypeOK, HeldIsOpen, OneLockFile, MutualExclusion,
              lockVars
<1>2. CASE UNCHANGED vars
  BY <1>1, <1>2 DEF vars
<1>3. ASSUME NEW p \in Proc, ProcNext(p)
      PROVE  LockInv'
  <2>1. CASE Open(p) \/ Acquire(p) \/ Close(p) \/ (Kill(p) /\ fd[p] # NoInode)
    BY <2>1, LockSteps, LockStepKeepsInv
  <2>2. CASE Kill(p) /\ fd[p] = NoInode
    BY <1>1, <2>2 DEF Kill, CloseLock
  <2>3. CASE Start(p) \/ Work(p) \/ Fail(p)
    BY <1>1, <2>3 DEF Start, Work, Fail, LoadToRead, LoadToUpdate, Func,
                      OpenTmp, WriteEntry, CloseTmp, Rename
  <2> QED BY <1>3, <2>1, <2>2, <2>3 DEF ProcNext
<1>4. CASE Touch
  BY <1>4 DEF Touch, TouchLock, LockInv, LockTypeOK, HeldIsOpen, OneLockFile,
              MutualExclusion
<1>5. CASE Reboot
  BY <1>5, NoInodeAssumption
  DEF Reboot, LockInv, LockTypeOK, HeldIsOpen, OneLockFile, MutualExclusion
<1> QED BY <1>2, <1>3, <1>4, <1>5 DEF Next

LEMMA NextKeepsTypeOK ==
  ASSUME TypeOK, LockInv, LockFollowsPC, [Next]_vars
  PROVE  TypeOK'
<1>1. LockTypeOK'
  BY NextKeepsLockInv DEF LockInv
<1> USE EmptyTableIsTable DEF TypeOK, PCs
<1>2. CASE UNCHANGED vars
  BY <1>1, <1>2 DEF vars, fileVars
<1>3. ASSUME NEW p \in Proc, ProcNext(p)
      PROVE  TypeOK'
  <2>1. CASE Start(p)
    BY <1>1, <2>1 DEF Start, Goto, fileVars
  <2>2. CASE Open(p)
    BY <1>1, <2>2 DEF Open, Goto, fileVars
  <2>3. CASE Acquire(p)
    BY <1>1, <2>3 DEF Acquire, Goto, fileVars
  <2>4. CASE LoadToRead(p)
    BY <1>1, <2>4 DEF LoadToRead, Goto, fileVars
  <2>5. CASE LoadToUpdate(p)
    BY <1>1, <2>5 DEF LoadToUpdate, Goto, fileVars
  <2>6. CASE Func(p)
    <3>1. op[p] \in Op
      BY <2>6 DEF Func, Goto, LockFollowsPC, Updating
    <3>2. Apply(op[p], entries[p]) \in Table
      BY <3>1, TableAssumption
    <3> QED BY <1>1, <2>6, <3>2 DEF Func, Goto, fileVars
  <2>7. CASE OpenTmp(p)
    BY <1>1, <2>7 DEF OpenTmp, Goto, fileVars
  <2>8. CASE WriteEntry(p)
    <3>1. PICK a \in todo[p] : tmp' = [tmp EXCEPT ![a] = entries[p][a]]
      BY <2>8 DEF WriteEntry
    <3>2. a \in Addr /\ entries[p] \in Table
      OBVIOUS
    <3>3. tmp' \in Table
      BY <3>1, <3>2 DEF Table, Store!Table
    <3> QED BY <1>1, <2>8, <3>3 DEF WriteEntry, fileVars
  <2>9. CASE Fail(p)
    BY <1>1, <2>9 DEF Fail, Goto, fileVars
  <2>12. CASE CloseTmp(p)
    <3>1. full' \in BOOLEAN /\ tmp' \in Table
      BY <2>12, ShortIsTable DEF CloseTmp
    <3> QED BY <1>1, <2>12, <3>1 DEF CloseTmp, Goto
  <2>10. CASE Rename(p)
    BY <1>1, <2>10 DEF Rename, Goto, fileVars
  <2>11. CASE Close(p) \/ Kill(p)
    BY <1>1, <2>11 DEF Close, Kill, Return, Goto, fileVars
  <2> QED BY <1>3, <2>1, <2>2, <2>3, <2>4, <2>5, <2>6, <2>7, <2>8, <2>9,
             <2>10, <2>11, <2>12 DEF ProcNext, Work
<1>4. CASE Touch
  BY <1>1, <1>4 DEF Touch, fileVars
<1>5. CASE Reboot
  BY <1>1, <1>5 DEF Reboot, fileVars
<1> QED BY <1>2, <1>3, <1>4, <1>5 DEF Next

\* A process that is updating is alone in Loading: nobody else reads the
\* table, writes the temporary file or renames it.
LEMMA UpdaterIsAlone ==
  ASSUME TypeOK, LockInv, LockFollowsPC,
         NEW p \in Proc, NEW q \in Proc, p # q, pc[p] \in Updating
  PROVE  pc[q] \notin Loading
<1>1. held[p] = "x"
  BY DEF LockFollowsPC, Updating, Loading, ModeOf
<1>2. held[q] = "none"
  BY <1>1 DEF LockInv, MutualExclusion
<1>3. ModeOf(op[q]) # "none"
  BY DEF ModeOf
<1> QED BY <1>2, <1>3 DEF LockFollowsPC

LEMMA NextKeepsLockFollowsPC ==
  ASSUME TypeOK, LockInv, LockFollowsPC, [Next]_vars
  PROVE  LockFollowsPC'
<1> USE DEF TypeOK, LockTypeOK, PCs, Loading, Updating
<1>1. CASE UNCHANGED vars
  BY <1>1 DEF vars, lockVars, LockFollowsPC
<1>2. ASSUME NEW p \in Proc, ProcNext(p)
      PROVE  LockFollowsPC'
  <2>1. \A q \in Proc \ {p} :
          /\ pc'[q] = pc[q]
          /\ op'[q] = op[q]
          /\ fd'[q] = fd[q]
          /\ held'[q] = held[q]
    BY <1>2 DEF ProcNext, Start, Open, Acquire, Work, LoadToRead,
       LoadToUpdate, Func, OpenTmp, WriteEntry, CloseTmp, Rename, Fail, Close,
       Kill, Goto, Return, OpenLock, Flock, CloseLock, lockVars
  <2>2. /\ fd'[p] = NoInode <=> pc'[p] \in {"idle", "open"}
        /\ pc'[p] \in {"idle", "open", "flock"} => held'[p] = "none"
        /\ pc'[p] \in Loading => held'[p] = ModeOf(op'[p])
        /\ pc'[p] \in Updating => op'[p] # ReadOp
    <3>1. CASE Start(p)
      BY <3>1 DEF Start, Goto, lockVars, LockFollowsPC
    <3>2. CASE Open(p)
      BY <3>2, NoInodeAssumption
      DEF Open, Goto, OpenLock, FreeInodes, LockFollowsPC
    <3>3. CASE Acquire(p)
      BY <3>3 DEF Acquire, Goto, Flock, LockFollowsPC
    <3>4. CASE Work(p)
      BY <3>4 DEF Work, LoadToRead, LoadToUpdate, Func, OpenTmp, WriteEntry,
                  CloseTmp, Rename, Goto, lockVars, LockFollowsPC
    <3>5. CASE Fail(p)
      BY <3>5 DEF Fail, Goto, lockVars, LockFollowsPC
    <3>6. CASE Close(p)
      BY <3>6 DEF Close, Goto, Return, CloseLock, LockFollowsPC
    <3>7. CASE Kill(p)
      <4>1. fd'[p] = NoInode /\ held'[p] = "none"
        BY <3>7 DEF Kill, CloseLock, lockVars, LockInv, HeldIsOpen
      <4> QED BY <3>7, <4>1 DEF Kill
    <3> QED BY <1>2, <3>1, <3>2, <3>3, <3>4, <3>5, <3>6, <3>7 DEF ProcNext
  <2> QED BY <2>1, <2>2 DEF LockFollowsPC
<1>3. CASE Touch
  BY <1>3 DEF Touch, TouchLock, LockFollowsPC
<1>4. CASE Reboot
  BY <1>4 DEF Reboot, LockFollowsPC
<1> QED BY <1>1, <1>2, <1>3, <1>4 DEF Next

\* The heart of the matter: the local table, the acl and the temporary file of
\* the one updater fit together after every step.
LEMMA NextKeepsData ==
  ASSUME IInv, [Next]_vars
  PROVE  NoLostUpdate' /\ TmpIsPartial' /\ TmpIsComplete'
<1> DEFINE Data(p) ==
      /\ pc[p] = "func" => entries[p] = acl
      /\ pc[p] \in {"opentmp", "write", "rename"}
           => entries[p] = Apply(op[p], acl)
      /\ pc[p] = "write" =>
           \A a \in Addr :
             tmp[a] = IF a \in todo[p] THEN NoVal ELSE entries[p][a]
      /\ pc[p] = "rename" =>
           IF full THEN tmp \in Store!Short(entries[p]) ELSE tmp = entries[p]
<1>1. \A p \in Proc : Data(p)
  BY DEF IInv, NoLostUpdate, TmpIsPartial, TmpIsComplete
<1>2. SUFFICES \A p \in Proc : Data(p)'
  BY DEF NoLostUpdate, TmpIsPartial, TmpIsComplete
<1> USE DEF IInv, TypeOK, Updating
<1>3. CASE UNCHANGED vars
  BY <1>1, <1>3 DEF vars, fileVars
<1>4. CASE Touch
  BY <1>1, <1>4 DEF Touch, fileVars
<1>5. CASE Reboot
  BY <1>5 DEF Reboot
<1>6. ASSUME NEW p \in Proc, ProcNext(p), NEW q \in Proc
      PROVE  Data(q)'
  \* The others: either they are not updating, or p did not touch the files.
  <2>1. CASE q # p
    <3>1. /\ pc'[q] = pc[q]
          /\ op'[q] = op[q]
          /\ entries'[q] = entries[q]
          /\ todo'[q] = todo[q]
      BY <1>6, <2>1 DEF ProcNext, Start, Open, Acquire, Work, LoadToRead,
         LoadToUpdate, Func, OpenTmp, WriteEntry, CloseTmp, Rename, Fail,
         Close, Kill, Goto, Return
    <3>2. CASE pc[q] \in Updating
      <4>1. pc[p] \notin Loading
        BY <2>1, <3>2, UpdaterIsAlone
      <4>2. acl' = acl /\ tmp' = tmp /\ full' = full
        BY <1>6, <4>1 DEF ProcNext, Start, Open, Acquire, Work, LoadToRead,
           LoadToUpdate, Func, OpenTmp, WriteEntry, CloseTmp, Rename, Fail,
           Close, Kill, Goto, Return, Loading, fileVars
      <4> QED BY <1>1, <3>1, <4>2
    <3>3. CASE pc[q] \notin Updating
      BY <3>1, <3>3
    <3> QED BY <3>2, <3>3
  <2>2. CASE q = p
    <3>1. CASE Start(p) \/ Open(p) \/ Acquire(p)
      BY <2>2, <3>1 DEF Start, Open, Acquire, Goto
    <3>2. CASE LoadToRead(p) \/ Fail(p) \/ Close(p) \/ Kill(p)
      BY <2>2, <3>2 DEF LoadToRead, Fail, Close, Kill, Goto
    <3>3. CASE LoadToUpdate(p)
      BY <2>2, <3>3 DEF LoadToUpdate, Goto, fileVars
    <3>4. CASE Func(p)
      BY <1>1, <2>2, <3>4 DEF Func, Goto, fileVars
    <3>5. CASE OpenTmp(p)
      <4>1. \A a \in Addr :
              tmp'[a] = IF a \in todo'[p] THEN NoVal ELSE entries'[p][a]
        BY <3>5 DEF OpenTmp, EmptyTable, Store!EmptyTable
      <4> QED BY <1>1, <2>2, <3>5, <4>1 DEF OpenTmp, Goto
    <3>6. CASE WriteEntry(p)
      BY <1>1, <2>2, <3>6
      DEF WriteEntry, Table, Store!Table
    <3>7. CASE CloseTmp(p)
      <4>1. \A a \in Addr : tmp[a] = entries[p][a]
        BY <1>1, <3>7 DEF CloseTmp, Goto
      <4>2. tmp = entries[p]
        BY <4>1 DEF Table, Store!Table
      <4>3. IF full' THEN tmp' \in Store!Short(entries'[p]) ELSE tmp' = entries'[p]
        BY <3>7, <4>2 DEF CloseTmp
      <4> QED BY <1>1, <2>2, <3>7, <4>3 DEF CloseTmp, Goto
    <3>8. CASE Rename(p)
      BY <2>2, <3>8 DEF Rename, Goto
    <3> QED BY <1>6, <3>1, <3>2, <3>3, <3>4, <3>5, <3>6, <3>7, <3>8
            DEF ProcNext, Work
  <2> QED BY <2>1, <2>2
<1> QED BY <1>3, <1>4, <1>5, <1>6 DEF Next

LEMMA InitIInv == Init => IInv
<1> SUFFICES ASSUME Init PROVE IInv
  OBVIOUS
<1>1. TypeOK
  BY EmptyTableIsTable DEF Init, LockInit, TypeOK, LockTypeOK, PCs
<1>2. LockInv
  BY NoInodeAssumption
  DEF Init, LockInit, LockInv, LockTypeOK, HeldIsOpen, OneLockFile,
      MutualExclusion
<1>3. LockFollowsPC
  BY DEF Init, LockInit, LockFollowsPC, Loading, Updating
<1>4. NoLostUpdate /\ TmpIsPartial /\ TmpIsComplete
  BY DEF Init, NoLostUpdate, TmpIsPartial, TmpIsComplete
<1> QED BY <1>1, <1>2, <1>3, <1>4 DEF IInv

THEOREM Invariance == Spec => []IInv
<1>1. IInv /\ [Next]_vars => IInv'
  BY NextKeepsTypeOK, NextKeepsLockInv, NextKeepsLockFollowsPC, NextKeepsData
  DEF IInv
<1> QED BY InitIInv, <1>1, PTL DEF Spec

\* The variables of AclFile keep their types.
THEOREM TypeCorrect == Spec => []TypeOK
  BY Invariance, PTL DEF IInv

\* No update of the acl file is ever lost, whatever functions are passed to
\* update, by any number of processes, with any failures and kills.
THEOREM NoLostUpdateHolds == Spec => []NoLostUpdate
  BY Invariance, PTL DEF IInv

\* Only complete tables are renamed over the acl file, as long as the file system
\* has room for them, and never anything but entries of the new table.
THEOREM TmpIsCompleteHolds == Spec => []TmpIsComplete
  BY Invariance, PTL DEF IInv

\* The files implement the atomic table: each step of AclFile is one step of
\* AclStore on acl, full and seen, or none.
THEOREM Refinement == Spec => ImplementsStore
<1>1. Init => Store!StoreInit
  BY DEF Init, Store!StoreInit, EmptyTable
<1>2. IInv /\ [Next]_vars => [Store!StoreNext]_<<acl, full, seen>>
  <2> SUFFICES ASSUME IInv, [Next]_vars
               PROVE  [Store!StoreNext]_<<acl, full, seen>>
    OBVIOUS
  <2>1. CASE UNCHANGED vars
    BY <2>1 DEF vars, fileVars
  <2>2. ASSUME NEW p \in Proc, ProcNext(p)
        PROVE  [Store!StoreNext]_<<acl, full, seen>>
    <3>1. CASE \/ Start(p) \/ Open(p) \/ Acquire(p) \/ LoadToUpdate(p)
               \/ Func(p) \/ OpenTmp(p) \/ WriteEntry(p) \/ Fail(p)
      BY <3>1 DEF Start, Open, Acquire, LoadToUpdate, Func, OpenTmp,
                  WriteEntry, Fail, fileVars
    <3>5. CASE CloseTmp(p)
      BY <3>5 DEF CloseTmp, Store!StoreNext, Store!Fill
    <3>2. CASE LoadToRead(p)
      BY <3>2 DEF LoadToRead, Store!StoreNext, Store!Read
    \* The linearization point of an update.
    <3>3. CASE Rename(p)
      <4>1. /\ op[p] \in Op /\ UNCHANGED <<full, seen>>
            /\ IF full THEN acl' \in Store!Short(Apply(op[p], acl))
               ELSE acl' = Apply(op[p], acl)
        BY <3>3 DEF Rename, Goto, IInv, TypeOK, LockFollowsPC, Updating,
                    NoLostUpdate, TmpIsComplete
      <4> QED BY <4>1 DEF Store!StoreNext, Store!Update
    <3>4. CASE Close(p) \/ Kill(p)
      BY <3>4 DEF Close, Kill, Return, Store!StoreNext, Store!Return,
                  EmptyTable
    <3> QED BY <2>2, <3>1, <3>2, <3>3, <3>4, <3>5 DEF ProcNext, Work
  <2>3. CASE Touch
    BY <2>3 DEF Touch, fileVars
  <2>4. CASE Reboot
    BY <2>4 DEF Reboot, Store!StoreNext, Store!Reset, EmptyTable
  <2> QED BY <2>1, <2>2, <2>3, <2>4 DEF Next
<1> QED BY Invariance, <1>1, <1>2, PTL DEF Spec, ImplementsStore,
        Store!StoreSpec, Store!storeVars
=============================================================================
