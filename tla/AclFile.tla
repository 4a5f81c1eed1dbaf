------------------------------- MODULE AclFile -------------------------------
(***************************************************************************)
(* acl.read() and acl.update(func) of epoint.acl on the files              *)
(* /var/epoint.acl and /var/epoint.acl.tmp, step by step: open and flock   *)
(* the lock file, load the table, apply func, write the temporary file     *)
(* entry by entry, rename it over the acl, close the lock file.  Any file  *)
(* operation may fail, func may raise an error, a process may be killed    *)
(* between any two steps, and the router may be reset.  What is written is *)
(* in a buffer until the file is closed, and whether the close succeeds    *)
(* nobody asks: on a full file system a part of the table replaces the acl *)
(* and update returns true.                                                *)
(*                                                                         *)
(* "/etc/init.d/epoint stop" is not a step of this module: without the     *)
(* exclusion it breaks (AclLock) two writers share the temporary file.     *)
(***************************************************************************)
EXTENDS AclLock

CONSTANTS Addr, Val, NoVal, Op, Apply(_, _), CutOf(_),
          ReadOp     \* what a process that calls read() is doing

VARIABLES pc,        \* where each process is; "idle" outside read and update
          op,        \* ReadOp, or the function the process passed to update
          entries,   \* the local table of each updating process
          todo,      \* the entries it has not written yet
          acl,       \* contents of /var/epoint.acl
          tmp,       \* contents of /var/epoint.acl.tmp
          full,      \* the last close of it could not write its buffer
          seen       \* the table a read has got and not yet returned

fileVars == <<acl, tmp, full, seen>>
vars == <<lockVars, pc, op, entries, todo, fileVars>>

Store == INSTANCE AclStore
Table == Store!Table
EmptyTable == Store!EmptyTable

ASSUME ReadOpAssumption == ReadOp \notin Op
ASSUME TableAssumption ==
  /\ NoVal \notin Val
  /\ \A o \in Op : \A c \in Table : Apply(o, c) \in Table

PCs == {"idle", "open", "flock", "load", "func", "opentmp", "write", "rename",
        "close"}

TypeOK ==
  /\ LockTypeOK
  /\ pc \in [Proc -> PCs]
  /\ op \in [Proc -> Op \cup {ReadOp}]
  /\ entries \in [Proc -> Table]
  /\ todo \in [Proc -> SUBSET Addr]
  /\ acl \in Table
  /\ tmp \in Table
  /\ full \in BOOLEAN
  /\ seen \in [Proc -> Table]

Init ==
  /\ LockInit
  /\ pc = [p \in Proc |-> "idle"]
  /\ op = [p \in Proc |-> ReadOp]
  /\ entries = [p \in Proc |-> EmptyTable]
  /\ todo = [p \in Proc |-> {}]
  /\ acl = EmptyTable
  /\ tmp = EmptyTable
  /\ full = FALSE
  /\ seen = [p \in Proc |-> EmptyTable]

Goto(p, from, to) ==
  /\ pc[p] = from
  /\ pc' = [pc EXCEPT ![p] = to]

\* Mutant of ModeOf: update takes the shared lock, like read.
ModeAlwaysShared(o) == "s"

\* The mode with_lock is called with: "s" by read, "x" by update.
ModeOf(o) == IF o = ReadOp THEN "s" ELSE "x"

----------------------------------------------------------------------------
\* A process calls read(), or update(func).
Start(p) ==
  /\ Goto(p, "idle", "open")
  /\ \E o \in Op \cup {ReadOp} : op' = [op EXCEPT ![p] = o]
  /\ UNCHANGED <<lockVars, entries, todo, fileVars>>

Open(p) ==
  /\ Goto(p, "open", "flock")
  /\ OpenLock(p)
  /\ UNCHANGED <<op, entries, todo, fileVars>>

Acquire(p) ==
  /\ Goto(p, "flock", "load")
  /\ Flock(p, ModeOf(op[p]))
  /\ UNCHANGED <<op, entries, todo, fileVars>>

\* load() as the action of read: the table is the result.
LoadToRead(p) ==
  /\ op[p] = ReadOp
  /\ Goto(p, "load", "close")
  /\ seen' = [seen EXCEPT ![p] = acl]
  /\ UNCHANGED <<lockVars, op, entries, todo, acl, tmp, full>>

\* load() in update: the table is about to be changed.
LoadToUpdate(p) ==
  /\ op[p] # ReadOp
  /\ Goto(p, "load", "func")
  /\ entries' = [entries EXCEPT ![p] = acl]
  /\ UNCHANGED <<lockVars, op, todo, fileVars>>

\* Mutant of Func: the table is replaced by func's result, and func has none.
FuncResult(p) ==
  /\ Goto(p, "func", "opentmp")
  /\ entries' = [entries EXCEPT ![p] = <<>>]
  /\ UNCHANGED <<lockVars, op, todo, fileVars>>

\* func(entries), which may take long: expire-rules talks to the issuer in it.
Func(p) ==
  /\ Goto(p, "func", "opentmp")
  /\ entries' = [entries EXCEPT ![p] = Apply(op[p], entries[p])]
  /\ UNCHANGED <<lockVars, op, todo, fileVars>>

\* Mutant of OpenTmp: the temporary file is opened for appending.
OpenTmpToAppend(p) ==
  /\ Goto(p, "opentmp", "write")
  /\ todo' = [todo EXCEPT ![p] = {a \in Addr : entries[p][a] # NoVal}]
  /\ UNCHANGED <<lockVars, op, entries, fileVars>>

\* io.open(acltmpfile, "w") truncates what a killed writer left.
OpenTmp(p) ==
  /\ Goto(p, "opentmp", "write")
  /\ tmp' = EmptyTable
  /\ todo' = [todo EXCEPT ![p] = {a \in Addr : entries[p][a] # NoVal}]
  /\ UNCHANGED <<lockVars, op, entries, acl, full, seen>>

\* One round of the loop over pairs(entries), in any order; tmp includes what is
\* still in the buffer.
WriteEntry(p) ==
  /\ pc[p] = "write"
  /\ \E a \in todo[p] :
       /\ tmp' = [tmp EXCEPT ![a] = entries[p][a]]
       /\ todo' = [todo EXCEPT ![p] = @ \ {a}]
  /\ UNCHANGED <<lockVars, pc, op, entries, acl, full, seen>>

\* Mutant of CloseTmp: a write that fails does not stop the replacement.
CloseTmpAnyway(p) ==
  /\ Goto(p, "write", "rename")
  /\ UNCHANGED <<lockVars, op, entries, todo, fileVars>>

\* handle.close as the end of bracket writes the buffer, or what there is room
\* for; bracket drops its result, and the table counts as written.
CloseTmp(p) ==
  /\ todo[p] = {}
  /\ Goto(p, "write", "rename")
  /\ full' \in BOOLEAN
  /\ IF full' THEN tmp' \in Store!Short(tmp) ELSE UNCHANGED tmp
  /\ UNCHANGED <<lockVars, op, entries, todo, acl, seen>>

\* os.rename(acltmpfile, aclfile): the acl becomes the file just written.
Rename(p) ==
  /\ Goto(p, "rename", "close")
  /\ acl' = tmp
  /\ tmp' = EmptyTable
  /\ UNCHANGED <<lockVars, op, entries, todo, full, seen>>

\* Mutant of Fail: an error in func leaves update without closing the lock.
FailWithoutClose(p) ==
  /\ Goto(p, "func", "idle")
  /\ UNCHANGED <<lockVars, op, entries, todo, fileVars>>

\* flock or func raises an error, or the temporary file cannot be opened,
\* written or renamed: the call gives up, with or without an error, and bracket
\* closes the lock file.
Fail(p) ==
  /\ \E from \in {"flock", "func", "opentmp", "write", "rename"} :
       Goto(p, from, "close")
  /\ UNCHANGED <<lockVars, op, entries, todo, fileVars>>

\* The call returns and its local variables are gone.
Return(p) ==
  /\ op' = [op EXCEPT ![p] = ReadOp]
  /\ entries' = [entries EXCEPT ![p] = EmptyTable]
  /\ todo' = [todo EXCEPT ![p] = {}]
  /\ seen' = [seen EXCEPT ![p] = EmptyTable]

Close(p) ==
  /\ Goto(p, "close", "idle")
  /\ CloseLock(p)
  /\ Return(p)
  /\ UNCHANGED <<acl, tmp, full>>

\* The process dies; the kernel closes its files.
Kill(p) ==
  /\ pc[p] # "idle"
  /\ pc' = [pc EXCEPT ![p] = "idle"]
  /\ \/ CloseLock(p)
     \/ fd[p] = NoInode /\ UNCHANGED lockVars
  /\ Return(p)
  /\ UNCHANGED <<acl, tmp, full>>

Touch == TouchLock /\ UNCHANGED <<pc, op, entries, todo, fileVars>>

\* /var is in ram: the acl and the lock file are gone, and so is every process;
\* "start" touches the lock file at boot.
Reboot ==
  /\ lockfile' \in Inode
  /\ fd' = [p \in Proc |-> NoInode]
  /\ held' = [p \in Proc |-> "none"]
  /\ pc' = [p \in Proc |-> "idle"]
  /\ op' = [p \in Proc |-> ReadOp]
  /\ entries' = [p \in Proc |-> EmptyTable]
  /\ todo' = [p \in Proc |-> {}]
  /\ seen' = [p \in Proc |-> EmptyTable]
  /\ acl' = EmptyTable
  /\ tmp' = EmptyTable
  /\ full' = FALSE

----------------------------------------------------------------------------
\* The steps a running process takes on its own once it has the lock.
Work(p) ==
  \/ LoadToRead(p) \/ LoadToUpdate(p) \/ Func(p) \/ OpenTmp(p)
  \/ WriteEntry(p) \/ CloseTmp(p) \/ Rename(p)

ProcNext(p) ==
  \/ Start(p) \/ Open(p) \/ Acquire(p) \/ Work(p) \/ Fail(p) \/ Close(p)
  \/ Kill(p)

Next == (\E p \in Proc : ProcNext(p)) \/ Touch \/ Reboot

Spec == Init /\ [][Next]_vars

\* A process that holds the lock is scheduled until it has closed it.
FairSpec ==
  Spec /\ \A p \in Proc : WF_vars(Work(p)) /\ WF_vars(Close(p))

----------------------------------------------------------------------------
\* An updating process works on the current table: nobody has replaced the
\* acl since it was loaded, so its rename undoes nobody else's update.
NoLostUpdate ==
  \A p \in Proc :
    /\ pc[p] = "func" => entries[p] = acl
    /\ pc[p] \in {"opentmp", "write", "rename"} => entries[p] = Apply(op[p], acl)

\* What is about to be renamed over the acl is the whole new table and not
\* what another or an interrupted writer left in the temporary file.  When the
\* buffer did not fit at the close it is a part of the new table: entries may
\* be missing, and one may end early, but none is an old or somebody else's.
TmpIsComplete ==
  \A p \in Proc : pc[p] = "rename" =>
    IF full THEN tmp \in Store!Short(entries[p]) ELSE tmp = entries[p]

\* The lock of each process goes with its place in the code.
Loading == {"load", "func", "opentmp", "write", "rename"}
Updating == {"func", "opentmp", "write", "rename"}

LockFollowsPC ==
  \A p \in Proc :
    /\ fd[p] = NoInode <=> pc[p] \in {"idle", "open"}
    /\ pc[p] \in {"idle", "open", "flock"} => held[p] = "none"
    /\ pc[p] \in Loading => held[p] = ModeOf(op[p])
    /\ pc[p] \in Updating => op[p] # ReadOp

\* While entries are written, the temporary file holds exactly those that are
\* no longer to do.
TmpIsPartial ==
  \A p \in Proc : pc[p] = "write" =>
    \A a \in Addr : tmp[a] = IF a \in todo[p] THEN NoVal ELSE entries[p][a]

\* The inductive invariant behind NoLostUpdate and TmpIsComplete.
IInv ==
  TypeOK /\ LockInv /\ LockFollowsPC /\ NoLostUpdate /\ TmpIsPartial
    /\ TmpIsComplete

\* The steps on the files implement the atomic table: an update replaces it by
\* func's result, of which a part may be missing only when the file system was
\* full at the close.
ImplementsStore == Store!StoreSpec

\* A process that got the lock gives it back, even when func raises an error:
\* a lock that is never closed stops every grant, topup and expiry.
LockIsReleased ==
  \A p \in Proc : (held[p] # "none") ~> (held[p] = "none")
=============================================================================
