------------------------------ MODULE LocalAcl ------------------------------
(***************************************************************************)
(* epoint.localacl on the file /etc/epoint-local.acl: topup, remove,       *)
(* refresh and the readers, under the lock of AclLock, file operation by   *)
(* file operation.  A change is made by filtering the file into a copy     *)
(* under /var, moving the copy back, and appending the new line.  /etc and *)
(* /var are different file systems on the router, so the move is a copy    *)
(* into the existing file.                                                 *)
(***************************************************************************)
EXTENDS AclLock, Lines, SequencesExt

CONSTANTS Addr,
          Comment, Bad,     \* a line that is a comment; a line that is no rule
          Absent, Unlimited,
          MaxTime,          \* last value of the clock
          MaxExpire,        \* bound of the expires that topups reach
          MaxLines,         \* bound of the length of the file
          InitialFiles,     \* contents an administrator may have written
          Garbled(_),       \* what an address may be read as when its line is
                            \* cut inside it, or stands after a cut one
          CrossDevice,      \* subset of BOOLEAN: may rename from /var to /etc
                            \* succeed (FALSE), may it give EXDEV (TRUE)
          Faults,           \* subset of {"kill", "io"}
          MaxFailures       \* bound of the faults that happen

ASSUME FaultsAssumption ==
  Faults \subseteq {"kill", "io"} /\ CrossDevice \subseteq BOOLEAN
    /\ MaxFailures \in Nat

\* A line of the file: no rule, or the rule of an address.
Line == {Comment, Bad} \cup [addr : Addr, expire : Int \cup {Unlimited}]

ASSUME LinesAssumption ==
  /\ Absent \notin Int /\ Unlimited \notin Int /\ Absent # Unlimited /\ Comment # Bad
  /\ {Comment, Bad} \cap [addr : Addr, expire : Int \cup {Unlimited}] = {}
  /\ MaxTime \in Nat /\ MaxExpire \in Nat /\ InitialFiles \subseteq Seq(Line)
  /\ \A a \in Addr : /\ Garbled(a) \subseteq Addr
                     /\ \A b \in Garbled(a) : Garbled(b) \subseteq Garbled(a)

VARIABLES pc,      \* where each process is; "idle" outside the operations
          job,     \* what it was asked to do
          result,  \* what the operation returns: "changed", or topup's true
          expire,  \* local to topup: the expire of the line to append
          file,    \* the lines of /etc/epoint-local.acl
          torn,    \* TRUE when its last line has no end
          tmp,     \* the lines of /var/epoint-local.acl.tmp
          tmpTorn, \* TRUE when the last of them has no end
          view,    \* the table a reader has got and not yet returned
          now,     \* the clock
          old,     \* history: the file when the writer at work got the lock
          failures \* history: how many faults there have been

tmpVars == <<tmp, tmpTorn>>
dataVars == <<file, torn, tmpVars, old, view>>
vars == <<lockVars, pc, job, result, expire, dataVars, now, failures>>

Times == 0..MaxTime
Spans == {-1, 1}       \* a payment, and its roll back by takepayment
Expires == Int

\* What a process is asked to do.  "read" stands for every reader of the whole
\* file under the lock: unlimited, find and extraentries of acl, update-rules.
Jobs ==
  [kind : {"read"}] \cup [kind : {"remove"}, addr : Addr] \cup
  [kind : {"refresh"}, t : Times] \cup
  [kind : {"topup"}, addr : Addr, t : Times, dt : Spans] \cup
  [kind : {"whitelist"}, addr : Addr]

NoJob == [kind |-> "none"]
IsTopup(j) == j.kind \in {"topup", "whitelist"}

\* Where the rules of an address are.
RulesOf(f, a) == {i \in DOMAIN f : f[i] \notin {Comment, Bad} /\ f[i].addr = a}

\* search(addr): the first rule of the address, as an expire.
Entry(f, a) ==
  LET mine == RulesOf(f, a)
  IN  IF mine = {} THEN Absent ELSE f[Min(mine)].expire

TableOf(f) == [a \in Addr |-> Entry(f, a)]
AddrsOf(f) == {a \in Addr : Entry(f, a) # Absent}

\* Mutant of NewExpire: a negative dt counts as a missing one.
NewExpireNegative(j, e) ==
  IF j.kind = "whitelist" \/ j.dt < 0 THEN Unlimited
  ELSE IF e = Absent THEN j.t + j.dt ELSE e + j.dt

\* Mutant of NewExpire: a topup counts from now even if there is time left.
NewExpireFromNow(j, e) ==
  IF j.kind = "whitelist" THEN Unlimited ELSE j.t + j.dt

\* The expire that topup writes for the job, given the entry it found.
NewExpire(j, e) ==
  IF j.kind = "whitelist" THEN Unlimited
  ELSE IF e = Absent THEN j.t + j.dt ELSE e + j.dt

\* pred of filter: the rules that remain.
Keeps(j, l) ==
  IF j.kind = "refresh" THEN l.expire = Unlimited \/ l.expire > j.t
  ELSE l.addr # j.addr

\* The lines filter writes: comments stay, bad rules become comments.
Filtered(j, f) ==
  LET g == [i \in DOMAIN f |-> IF f[i] = Bad THEN Comment ELSE f[i]]
  IN  Kept(g, {l \in ToSet(g) : l = Comment \/ Keeps(j, l)})

\* The table the outside world has to know: while a writer is between the first
\* and the last change of the file, the one before.
Table == IF \E p \in Proc : pc[p] \in {"move", "copy", "append"}
           THEN TableOf(old) ELSE TableOf(file)

Store == INSTANCE LocalStore WITH table <- Table, failed <- failures > 0

Init ==
  /\ LockInit
  /\ pc = [p \in Proc |-> "idle"]
  /\ job = [p \in Proc |-> NoJob]
  /\ result = [p \in Proc |-> FALSE]
  /\ expire = [p \in Proc |-> Absent]
  /\ file \in InitialFiles
  /\ torn = FALSE
  /\ tmp = <<>> /\ tmpTorn = FALSE
  /\ old = <<>>
  /\ view = [p \in Proc |-> Store!NoView]
  /\ now = 0 /\ failures = 0

Goto(p, from, to) ==
  /\ pc[p] = from
  /\ pc' = [pc EXCEPT ![p] = to]

----------------------------------------------------------------------------
\* The bounds: no topup is started that could leave 0..MaxExpire, or while the file
\* might outgrow MaxLines.
Active == {p \in Proc : pc[p] # "idle"}
Room(j) ==
  /\ IsTopup(j) => Len(file) + Cardinality(Active) < MaxLines
  /\ j.kind = "topup" =>
       LET mine(dt) == {p \in Active : job[p].kind = "topup" /\ job[p].addr = j.addr
                                       /\ job[p].dt = dt}
           n    == 1 + Cardinality(mine(j.dt))
           e    == Table[j.addr]
           base == IF e \in Expires THEN e ELSE j.t
       IN  base + (n * j.dt) \in 0..MaxExpire

\* A script calls one of the operations; "now" and os.time() are read before
\* the lock is asked for.
Start(p) ==
  /\ Goto(p, "idle", "open")
  /\ \E j \in Jobs :
       /\ j.kind \in {"refresh", "topup"} => j.t = now
       /\ Room(j)
       /\ job' = [job EXCEPT ![p] = j]
  /\ UNCHANGED <<lockVars, result, expire, dataVars, now, failures>>

Open(p) ==
  /\ Goto(p, "open", "flock")
  /\ OpenLock(p)
  /\ UNCHANGED <<job, result, expire, dataVars, now, failures>>

Acquire(p) ==
  /\ Goto(p, "flock", "begin")
  /\ Flock(p, IF job[p].kind = "read" THEN "s" ELSE "x")
  /\ old' = IF job[p].kind = "read" THEN old ELSE file
  /\ UNCHANGED <<job, result, expire, file, torn, tmpVars, view, now, failures>>

\* A reader gets the table; extraentries may get an error instead, from a line
\* without an address.
ReadFile(p) ==
  /\ job[p].kind = "read"
  /\ Goto(p, "begin", "close")
  /\ \/ view' = [view EXCEPT ![p] = TableOf(file)]
     \/ ToSet(file) \cap {Comment, Bad} # {} /\ UNCHANGED view
  /\ UNCHANGED <<lockVars, job, result, expire, file, torn, tmpVars, old, now, failures>>

\* remove and refresh filter at once.
BeginFilter(p) ==
  /\ job[p].kind \in {"remove", "refresh"}
  /\ Goto(p, "begin", "filter")
  /\ UNCHANGED <<lockVars, job, result, expire, dataVars, now, failures>>

\* Mutant of BeginTopup: the old line is left in the file.
BeginTopupWithoutFilter(p) ==
  /\ IsTopup(job[p])
  /\ Entry(file, job[p].addr) # Unlimited
  /\ Goto(p, "begin", "append")
  /\ expire' = [expire EXCEPT ![p] = NewExpire(job[p], Entry(file, job[p].addr))]
  /\ UNCHANGED <<lockVars, job, result, dataVars, now, failures>>

\* topup searches the address: a new one is appended, a whitelisted one left
\* alone, a timed one filtered out before the new line is appended.
BeginTopup(p) ==
  LET e == Entry(file, job[p].addr)
  IN  /\ IsTopup(job[p])
      /\ \/ e = Absent /\ Goto(p, "begin", "append")
         \/ e = Unlimited /\ Goto(p, "begin", "close")
         \/ e \notin {Absent, Unlimited} /\ Goto(p, "begin", "filter")
      /\ IF e = Unlimited
           THEN result' = [result EXCEPT ![p] = TRUE] /\ UNCHANGED expire
           ELSE expire' = [expire EXCEPT ![p] = NewExpire(job[p], e)]
                /\ UNCHANGED result
      /\ UNCHANGED <<lockVars, job, dataVars, now, failures>>

----------------------------------------------------------------------------
\* filter and move

AfterFilter(p) == IF IsTopup(job[p]) THEN "append" ELSE "close"
Changed(p) == Filtered(job[p], file) # file

\* Mutant of FilterToTmp: the copy is opened for appending.
FilterToOldTmp(p) ==
  /\ Goto(p, "filter", IF Changed(p) THEN "move" ELSE AfterFilter(p))
  /\ tmp' = tmp \o Filtered(job[p], file) /\ tmpTorn' = FALSE
  /\ result' = [result EXCEPT ![p] = Changed(p)]
  /\ UNCHANGED <<lockVars, job, expire, file, torn, old, view, now, failures>>

\* The kept lines are written to the copy; only a changed file is moved back.
FilterToTmp(p) ==
  /\ Goto(p, "filter", IF Changed(p) THEN "move" ELSE AfterFilter(p))
  /\ tmp' = Filtered(job[p], file) /\ tmpTorn' = FALSE
  /\ result' = [result EXCEPT ![p] = Changed(p)]
  /\ UNCHANGED <<lockVars, job, expire, file, torn, old, view, now, failures>>

\* os.rename succeeds.
MoveByRename(p) ==
  /\ FALSE \in CrossDevice
  /\ Goto(p, "move", AfterFilter(p))
  /\ file' = tmp /\ torn' = tmpTorn
  /\ tmp' = <<>> /\ tmpTorn' = FALSE
  /\ UNCHANGED <<lockVars, job, result, expire, old, view, now, failures>>

\* EXDEV: copy(from, to) opens the target with "w" ...
MoveTruncates(p) ==
  /\ TRUE \in CrossDevice
  /\ Goto(p, "move", "copy")
  /\ file' = <<>> /\ torn' = FALSE
  /\ UNCHANGED <<lockVars, job, result, expire, tmpVars, old, view, now, failures>>

\* ... and fills it; os.rename(to, to) and os.remove(from) end the move.
MoveCopies(p) ==
  /\ Goto(p, "copy", AfterFilter(p))
  /\ file' = tmp /\ torn' = tmpTorn
  /\ tmp' = <<>> /\ tmpTorn' = FALSE
  /\ UNCHANGED <<lockVars, job, result, expire, old, view, now, failures>>

\* The expire of a rule that is cut behind its address: none, fewer digits of
\* it (a time long ago), or all.
LongAgo == 0
CutExpires(e) == IF e = Unlimited THEN {Unlimited} ELSE {Unlimited, LongAgo, e}

\* What a line is read as when it is cut.  checkaddr takes a piece of an IPv4
\* address for an address, whose access has no end.
CutLine(l) ==
  IF l \in {Comment, Bad} THEN {l, Bad}
  ELSE {Bad} \cup [addr : {l.addr}, expire : CutExpires(l.expire)]
             \cup [addr : Garbled(l.addr), expire : {Unlimited}]

\* The file f, t when it is torn, cut at any byte: whole lines, or whole lines and
\* one that is cut.
CutFiles(f, t) ==
  {[file |-> SubSeq(f, 1, n), torn |-> t /\ n > 0 /\ n = Len(f)] : n \in 0..Len(f)}
  \cup UNION {{[file |-> Append(SubSeq(f, 1, n - 1), l), torn |-> TRUE] :
                 l \in CutLine(f[n])} : n \in 1..Len(f)}

\* A rule that is appended to a cut line is part of it: it ends in a comment, in the
\* address, where the two may make a third one, or in the expire, whose digits run
\* together with those of the new address.
FarAhead == MaxExpire + 1
GluedRules(new) == [addr : Garbled(new.addr), expire : {new.expire}]
MergedRules(l, new) ==
  CASE l = Comment -> {Comment}
    [] l = Bad -> {Bad, new} \cup GluedRules(new)
    [] l \notin {Comment, Bad} /\ l.expire = Unlimited ->
         {Bad} \cup GluedRules(new) \cup [addr : {l.addr}, expire : {Unlimited, LongAgo}]
    [] OTHER -> [addr : {l.addr}, expire : {l.expire, LongAgo, FarAhead}]

NewRule(p) == [addr |-> job[p].addr, expire |-> expire[p]]

AppendLine(p) ==
  /\ Goto(p, "append", "close")
  /\ IF torn
       THEN \E l \in MergedRules(Last(file), NewRule(p)) : file' = Append(Front(file), l)
       ELSE file' = Append(file, NewRule(p))
  /\ torn' = FALSE
  /\ result' = [result EXCEPT ![p] = TRUE]
  /\ UNCHANGED <<lockVars, job, expire, tmpVars, old, view, now, failures>>

\* The call returns and its local variables are gone.
Return(p) ==
  /\ job' = [job EXCEPT ![p] = NoJob]
  /\ result' = [result EXCEPT ![p] = FALSE]
  /\ expire' = [expire EXCEPT ![p] = Absent]
  /\ view' = [view EXCEPT ![p] = Store!NoView]
  /\ old' = IF held[p] = "x" THEN <<>> ELSE old

Close(p) ==
  /\ Goto(p, "close", "idle")
  /\ CloseLock(p)
  /\ Return(p)
  /\ UNCHANGED <<file, torn, tmpVars, now, failures>>

----------------------------------------------------------------------------
\* Faults

Fault(kind) ==
  /\ kind \in Faults
  /\ failures < MaxFailures
  /\ failures' = failures + 1

\* A process is killed, at worst while it fills the target of the move.
Kill(p) ==
  /\ Fault("kill")
  /\ pc[p] # "idle"
  /\ pc' = [pc EXCEPT ![p] = "idle"]
  /\ \/ CloseLock(p)
     \/ fd[p] = NoInode /\ UNCHANGED lockVars
  /\ IF pc[p] = "copy"
       THEN \E c \in CutFiles(tmp, tmpTorn) : file' = c.file /\ torn' = c.torn
       ELSE UNCHANGED <<file, torn>>
  /\ Return(p)
  /\ UNCHANGED <<tmpVars, now>>

\* flock raises an error, or a file cannot be opened by filter or topup: the
\* error ends the operation, whatever it has already done.
OpenFails(p) ==
  /\ Fault("io")
  /\ \E from \in {"flock", "filter", "append"} : Goto(p, from, "close")
  /\ UNCHANGED <<lockVars, job, result, expire, dataVars, now>>

\* filter looks neither at the result of tmp:write nor at that of the close.
TmpIsShort(p) ==
  /\ Fault("io")
  /\ Goto(p, "filter", "move")
  /\ Changed(p)
  /\ \E c \in CutFiles(Filtered(job[p], file), FALSE) : tmp' = c.file /\ tmpTorn' = c.torn
  /\ result' = [result EXCEPT ![p] = TRUE]
  /\ UNCHANGED <<lockVars, job, expire, file, torn, old, view, now>>

\* move.move returns an error, and filter does not look at that either.
MoveFails(p) ==
  /\ Fault("io")
  /\ \/ /\ Goto(p, "move", AfterFilter(p))
        /\ UNCHANGED <<file, torn>>
     \/ /\ Goto(p, "copy", AfterFilter(p))
        /\ \E c \in CutFiles(tmp, tmpTorn) : file' = c.file /\ torn' = c.torn
  /\ UNCHANGED <<lockVars, job, result, expire, tmpVars, old, view, now>>

\* The new line is not written, or not all of it; topup returns true.
AppendIsShort(p) ==
  /\ Fault("io")
  /\ Goto(p, "append", "close")
  /\ \/ UNCHANGED <<file, torn>>
     \/ /\ torn' = TRUE
        /\ IF torn
             THEN \E e \in CutExpires(expire[p]) :
                    \E l \in MergedRules(Last(file), [NewRule(p) EXCEPT !.expire = e]) :
                      file' = Append(Front(file), l)
             ELSE \E l \in CutLine(NewRule(p)) : file' = Append(file, l)
  /\ result' = [result EXCEPT ![p] = TRUE]
  /\ UNCHANGED <<lockVars, job, expire, tmpVars, old, view, now>>

Tick ==
  /\ now < MaxTime
  /\ now' = now + 1
  /\ UNCHANGED <<lockVars, pc, job, result, expire, dataVars, failures>>

----------------------------------------------------------------------------
ProcNext(p) ==
  \/ Start(p) \/ Open(p) \/ Acquire(p) \/ ReadFile(p)
  \/ BeginFilter(p) \/ BeginTopup(p) \/ FilterToTmp(p)
  \/ MoveByRename(p) \/ MoveTruncates(p) \/ MoveCopies(p)
  \/ AppendLine(p) \/ Close(p)
  \/ Kill(p) \/ OpenFails(p) \/ TmpIsShort(p) \/ MoveFails(p)
  \/ AppendIsShort(p)

Next == Tick \/ \E p \in Proc : ProcNext(p)

Spec == Init /\ [][Next]_vars

----------------------------------------------------------------------------
\* topup replaces the rule of an address: while nothing fails it never leaves
\* two, of which readers would use the old one.
OneLine(f) == \A a \in Addr : \A i, k \in RulesOf(f, a) : i = k
OneLinePerAddress == failures = 0 => OneLine(file)

\* Until something fails, the file operations implement the table of
\* LocalStore.
ImplementsStore == Store!LocalSpec

\* A killed process takes down nobody else's entry: each address other than
\* its own has the entry it had before, or the one refresh leaves it.
KillSparesOthers ==
  [][\A p \in Proc : (Kill(p) /\ pc[p] \in {"move", "copy", "append"}) =>
       \A a \in Addr :
         \/ IsTopup(job[p]) /\ job[p].addr = a
         \/ Entry(file', a) \in {Entry(old, a), Entry(Filtered(job[p], old), a)}
    ]_vars

\* The addresses that p is writing to the file.
WrittenBy(p) == CASE pc[p] = "append" -> {job[p].addr}
                  [] pc[p] \in {"move", "copy"} -> AddrsOf(old)
                  [] OTHER -> {}

\* No address appears in the file that was not there before or is being topped up;
\* once something has failed, none but those that a cut line of one of these may be
\* taken for.  A fault lets in who has a garbled address of a client, if it is a
\* valid one, but no other stranger.
StrangersStayOut ==
  \A a \in AddrsOf(file') \ AddrsOf(file) :
    \E p \in Proc : \E b \in WrittenBy(p) :
      a = b \/ (failures' > 0 /\ a \in Garbled(b))

\* Until something fails, only the whitelist makes access unlimited, never a
\* payment or its roll back.
OnlyListedAreUnlimited ==
  failures' = 0 => \A a \in Addr :
    (Entry(file, a) # Unlimited /\ Entry(file', a) = Unlimited) =>
      \E p \in Proc : \/ job[p] = [kind |-> "whitelist", addr |-> a]
                      \/ Entry(old, a) = Unlimited /\ pc[p] = "copy"

\* No step of the file operations gives access that nobody asked for, but for the
\* garbled addresses that a fault leaves.
NoAccessInvented == [][file' # file => StrangersStayOut /\ OnlyListedAreUnlimited]_vars
=============================================================================
