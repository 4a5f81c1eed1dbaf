---------------------------- MODULE AclLockProofs ----------------------------
(***************************************************************************)
(* Proofs about AclLock, for any set of processes and inodes.              *)
(***************************************************************************)
EXTENDS AclLock, TLAPS

\* No step of a process, whatever other processes hold, breaks exclusion on
\* an inode.  Flock is the step that matters; OpenLock and CloseLock hold
\* nothing.
LEMMA LockStepKeepsStopInv ==
  ASSUME LockStopInv, NEW p \in Proc, LockStep(p)
  PROVE  LockStopInv'
<1>1. CASE OpenLock(p)
  <2>1. held[p] = "none"
    BY <1>1 DEF OpenLock, LockStopInv, LockTypeOK, HeldIsOpen, Modes
  <2>2. LockTypeOK'
    BY <1>1 DEF OpenLock, LockStopInv, LockTypeOK, FreeInodes
  <2>3. /\ held' = held
        /\ fd'[p] # NoInode
        /\ \A q \in Proc \ {p} : fd'[q] = fd[q]
    BY <1>1, NoInodeAssumption
    DEF OpenLock, LockStopInv, LockTypeOK, FreeInodes
  <2>4. HeldIsOpen'
    BY <2>1, <2>3 DEF LockStopInv, HeldIsOpen
  <2>5. SameInodeExclusion'
    BY <2>1, <2>3 DEF LockStopInv, SameInodeExclusion
  <2> QED BY <2>2, <2>4, <2>5 DEF LockStopInv
<1>2. ASSUME NEW m \in Modes, Flock(p, m)
      PROVE  LockStopInv'
  <2>1. LockTypeOK'
    BY <1>2 DEF Flock, LockStopInv, LockTypeOK
  <2>2. HeldIsOpen'
    BY <1>2 DEF Flock, LockStopInv, LockTypeOK, HeldIsOpen
  <2>3. SameInodeExclusion'
    <3> SUFFICES ASSUME NEW r \in Proc, NEW q \in Proc,
                        r # q, held'[r] = "x", fd'[r] = fd'[q]
                 PROVE  held'[q] = "none"
      BY DEF SameInodeExclusion
    <3>1. /\ fd' = fd
          /\ held'[p] = m
          /\ \A s \in Proc \ {p} : held'[s] = held[s]
      BY <1>2 DEF Flock, LockStopInv, LockTypeOK
    <3>2. CASE r = p
      BY <1>2, <3>1, <3>2 DEF Flock, Grantable
    <3>3. CASE q = p
      BY <1>2, <3>1, <3>3 DEF Flock, Grantable
    <3>4. CASE r # p /\ q # p
      BY <3>1, <3>4 DEF LockStopInv, SameInodeExclusion
    <3> QED BY <3>2, <3>3, <3>4
  <2> QED BY <2>1, <2>2, <2>3 DEF LockStopInv
<1>3. CASE CloseLock(p)
  <2>1. /\ \A q \in Proc \ {p} : fd'[q] = fd[q] /\ held'[q] = held[q]
        /\ held'[p] = "none"
        /\ LockTypeOK'
    BY <1>3 DEF CloseLock, LockStopInv, LockTypeOK
  <2> QED BY <2>1 DEF LockStopInv, HeldIsOpen, SameInodeExclusion
<1> QED BY <1>1, <1>2, <1>3 DEF LockStep

\* touch and rm change the name only.
LEMMA NameStepKeepsStopInv ==
  ASSUME LockStopInv, TouchLock \/ RemoveLock
  PROVE  LockStopInv'
  BY DEF LockStopInv, LockTypeOK, HeldIsOpen, SameInodeExclusion, TouchLock,
         RemoveLock, FreeInodes

\* With one inode, exclusion on it is exclusion altogether, and no step of a
\* process creates a second one.
LEMMA LockStepKeepsInv ==
  ASSUME LockInv, NEW p \in Proc, LockStep(p)
  PROVE  LockInv' /\ lockfile' = lockfile
<1>1. LockStopInv
  BY DEF LockInv, LockStopInv, MutualExclusion, SameInodeExclusion
<1>2. LockStopInv'
  BY <1>1, LockStepKeepsStopInv
<1>3. lockfile' = lockfile
  BY DEF LockStep, OpenLock, Flock, CloseLock, LockInv, OneLockFile
<1>4. OneLockFile'
  BY <1>3 DEF LockStep, OpenLock, Flock, CloseLock, LockInv, OneLockFile,
              LockTypeOK
<1>5. MutualExclusion'
  <2> SUFFICES ASSUME NEW r \in Proc, NEW q \in Proc, r # q, held'[r] = "x",
                      held'[q] # "none"
               PROVE  FALSE
    BY DEF MutualExclusion
  <2>1. fd'[r] = lockfile' /\ fd'[q] = lockfile'
    BY <1>2, <1>4 DEF LockStopInv, HeldIsOpen, OneLockFile
  <2> QED BY <1>2, <2>1 DEF LockStopInv, SameInodeExclusion
<1> QED BY <1>2, <1>3, <1>4, <1>5 DEF LockInv, LockStopInv

\* What flock promises survives any number of stops and restarts.
THEOREM SameInodeExclusionHolds == LockSpecStop => []SameInodeExclusion
<1>1. LockInit => LockStopInv
  BY NoInodeAssumption
  DEF LockInit, LockStopInv, LockTypeOK, HeldIsOpen, SameInodeExclusion
<1>2. LockStopInv /\ [LockNextStop]_lockVars => LockStopInv'
  <2> SUFFICES ASSUME LockStopInv, [LockNextStop]_lockVars
               PROVE  LockStopInv'
    OBVIOUS
  <2>1. CASE TouchLock \/ RemoveLock
    BY <2>1, NameStepKeepsStopInv
  <2>2. ASSUME NEW p \in Proc, LockStep(p)
        PROVE  LockStopInv'
    BY <2>2, LockStepKeepsStopInv
  <2>3. CASE UNCHANGED lockVars
    BY <2>3 DEF LockStopInv, LockTypeOK, HeldIsOpen, SameInodeExclusion,
                lockVars
  <2> QED BY <2>1, <2>2, <2>3 DEF LockNextStop, LockNext
<1>3. LockStopInv => SameInodeExclusion
  BY DEF LockStopInv
<1> QED BY <1>1, <1>2, <1>3, PTL DEF LockSpecStop

\* While nobody stops the service, a writer of the acl files is alone.
THEOREM MutualExclusionHolds == LockSpec => []MutualExclusion
<1>1. LockInit => LockInv
  BY NoInodeAssumption
  DEF LockInit, LockInv, LockTypeOK, HeldIsOpen, OneLockFile, MutualExclusion
<1>2. LockInv /\ [LockNext]_lockVars => LockInv'
  <2> SUFFICES ASSUME LockInv, [LockNext]_lockVars
               PROVE  LockInv'
    OBVIOUS
  <2>1. CASE TouchLock
    BY <2>1 DEF TouchLock, LockInv, LockTypeOK, HeldIsOpen, OneLockFile,
                MutualExclusion
  <2>2. ASSUME NEW p \in Proc, LockStep(p)
        PROVE  LockInv'
    BY <2>2, LockStepKeepsInv
  <2>3. CASE UNCHANGED lockVars
    BY <2>3 DEF LockInv, LockTypeOK, HeldIsOpen, OneLockFile,
                MutualExclusion, lockVars
  <2> QED BY <2>1, <2>2, <2>3 DEF LockNext
<1>3. LockInv => MutualExclusion
  BY DEF LockInv
<1> QED BY <1>1, <1>2, <1>3, PTL DEF LockSpec
=============================================================================
