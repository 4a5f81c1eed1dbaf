------------------------------- MODULE AclLock -------------------------------
(***************************************************************************)
(* The lock that guards both acl files: /var/lock/epoint.acl.              *)
(*                                                                         *)
(* Every Lua operation on an acl file runs inside with_lock(mode, action): *)
(* open the lock file (creating it when it is missing), flock the open     *)
(* file in mode "s" or "x", run the action, close the file.  The shell     *)
(* scripts take the same lock, exclusively, with the lock(1) utility.      *)
(* flock locks an INODE, while the file is opened by NAME, and             *)
(* "/etc/init.d/epoint stop" removes the name.                             *)
(***************************************************************************)
CONSTANTS Proc,     \* processes: CGI scripts, cron jobs, command line tools
          Inode,    \* inodes the lock file may have over time
          NoInode   \* "no such file" / "not open"

ASSUME NoInodeAssumption == NoInode \notin Inode

VARIABLES lockfile,  \* inode the name /var/lock/epoint.acl refers to
          fd,        \* inode each process has open as its lock, if any
          held       \* mode in which each process holds its lock

lockVars == <<lockfile, fd, held>>

Modes == {"s", "x"}

LockTypeOK ==
  /\ lockfile \in Inode \cup {NoInode}
  /\ fd \in [Proc -> Inode \cup {NoInode}]
  /\ held \in [Proc -> Modes \cup {"none"}]

LockInit ==
  /\ lockfile \in Inode
  /\ fd = [p \in Proc |-> NoInode]
  /\ held = [p \in Proc |-> "none"]

\* An inode is reused only when neither the name nor an open file refers to it.
FreeInodes == Inode \ ({lockfile} \cup {fd[p] : p \in Proc})

----------------------------------------------------------------------------
\* io.open(lockfile, "w"): the existing file, or a new one.
OpenLock(p) ==
  /\ fd[p] = NoInode
  /\ \/ /\ lockfile # NoInode
        /\ fd' = [fd EXCEPT ![p] = lockfile]
        /\ UNCHANGED lockfile
     \/ /\ lockfile = NoInode
        /\ \E i \in FreeInodes :
             /\ lockfile' = i
             /\ fd' = [fd EXCEPT ![p] = i]
  /\ UNCHANGED held

\* What flock(2) checks before it grants mode m: no other open file of the
\* same inode holds a conflicting lock.
Grantable(p, m) ==
  \A q \in Proc \ {p} :
    (fd[q] = fd[p] /\ held[q] # "none") => (m = "s" /\ held[q] = "s")

\* Mutant of Flock: a failed flock(2) is taken for a granted one.
FlockUnchecked(p, m) ==
  /\ fd[p] # NoInode
  /\ held[p] = "none"
  /\ held' = [held EXCEPT ![p] = m]
  /\ UNCHANGED <<lockfile, fd>>

\* util.flock(lock, mode): blocks until the mode is granted.
Flock(p, m) ==
  /\ fd[p] # NoInode
  /\ held[p] = "none"
  /\ Grantable(p, m)
  /\ held' = [held EXCEPT ![p] = m]
  /\ UNCHANGED <<lockfile, fd>>

\* io.close(lock), on the normal path, after an error (bracket), and by the
\* kernel when the process dies.
CloseLock(p) ==
  /\ fd[p] # NoInode
  /\ fd' = [fd EXCEPT ![p] = NoInode]
  /\ held' = [held EXCEPT ![p] = "none"]
  /\ UNCHANGED lockfile

\* "touch $ACLLOCK" of start, which firewall.user runs again and again.
TouchLock ==
  /\ \/ lockfile # NoInode /\ UNCHANGED lockfile
     \/ lockfile = NoInode /\ lockfile' \in FreeInodes
  /\ UNCHANGED <<fd, held>>

\* "rm -f $ACLLOCK" of stop, whoever holds the lock.
RemoveLock ==
  /\ lockfile' = NoInode
  /\ UNCHANGED <<fd, held>>

----------------------------------------------------------------------------
LockStep(p) == OpenLock(p) \/ (\E m \in Modes : Flock(p, m)) \/ CloseLock(p)

\* The service keeps running.
LockNext == TouchLock \/ \E p \in Proc : LockStep(p)
LockSpec == LockInit /\ [][LockNext]_lockVars

\* The administrator may also stop the service while scripts are running.
LockNextStop == LockNext \/ RemoveLock
LockSpecStop == LockInit /\ [][LockNextStop]_lockVars

----------------------------------------------------------------------------
\* Whoever holds the acl lock exclusively is the only holder: no two writers,
\* and no reader beside a writer, of the files behind /var/lock/epoint.acl.
MutualExclusion ==
  \A p, q \in Proc : (p # q /\ held[p] = "x") => held[q] = "none"

\* No two processes hold the acl lock exclusively at once, as every function that
\* rewrites an acl expects ("caller should hold exclusive acl lock", localacl.lua).
OneWriter == \A p, q \in Proc : (p # q /\ held[p] = "x") => held[q] # "x"

\* What flock alone promises, with or without a stop: holders of the same
\* inode exclude each other.  Holders of different inodes do not.
SameInodeExclusion ==
  \A p, q \in Proc :
    (p # q /\ held[p] = "x" /\ fd[p] = fd[q]) => held[q] = "none"

\* A lock is held through an open file only.
HeldIsOpen == \A p \in Proc : held[p] # "none" => fd[p] # NoInode

\* While the service runs, every open lock file is the named one.
OneLockFile == lockfile # NoInode /\ \A p \in Proc : fd[p] \in {NoInode, lockfile}

\* The inductive invariants of the two specifications.
LockInv == LockTypeOK /\ HeldIsOpen /\ OneLockFile /\ MutualExclusion
LockStopInv == LockTypeOK /\ HeldIsOpen /\ SameInodeExclusion
=============================================================================
