------------------------------- MODULE FixIpAcl -------------------------------
(***************************************************************************)
(* epoint-fixip: access for fixed addresses.  Each tariff may have an acl  *)
(* file of its own; all of them are searched in turn.  grant-fixip-access  *)
(* and expire-fixip-rules change them with epoint.fixip.acl (Lua), the     *)
(* administrator with whitelist-fixip (shell), all under one lock, and     *)
(* update-fixip-rules builds the firewall rules from them.                 *)
(*                                                                         *)
(* A critical section of the lock is one step.  Lines are rules; what      *)
(* filter does to comments is in LocalAcl, as are the faults of move.      *)
(***************************************************************************)
EXTENDS Lines, SequencesExt

CONSTANTS FixProcs,      \* scripts; one that has ended may start again
          FixAddr,
          FixFiles,      \* how many acl files the tariffs name
          FixSpan,       \* what a payment buys
          FixLastTime,   \* bound of the clock
          FixMaxExpire,  \* bound of the expires that payments reach
          NoEntry, NoExpire

ASSUME FixAssumption ==
  /\ FixFiles \in Nat \ {0} /\ FixSpan \in Nat \ {0} /\ FixLastTime \in Nat
  /\ NoEntry \notin Int /\ NoExpire \notin Int /\ NoEntry # NoExpire

\* A line of an acl file.
FixLine == [addr : FixAddr, expire : Int \cup {NoExpire}]

VARIABLES fixFile,     \* the lines of each acl file, in the order of the tariffs
          fixRules,    \* the addresses the firewall lets through
          fixNow,
          fixJob,      \* what each script is doing
          fixUnpaid,   \* history: topped up since the rules were built, and not paid
          fixMixed     \* history: an address with time was whitelisted

fixVars == <<fixFile, fixRules, fixNow, fixJob, fixUnpaid, fixMixed>>

Idle == [pc |-> "idle"]

FixInit ==
  /\ fixFile = [i \in 1..FixFiles |-> <<>>]
  /\ fixRules = {}
  /\ fixNow = 0
  /\ fixJob = [p \in FixProcs |-> Idle]
  /\ fixUnpaid = {}
  /\ fixMixed = FALSE

\* Where the lines of an address are.
LinesOf(f, a) == {k \in DOMAIN f : f[k].addr = a}
FilesOf(files, a) == {i \in 1..FixFiles : LinesOf(files[i], a) # {}}

\* search: the first file with a line of the address, and the first one in it.
FirstFile(a) == Min(FilesOf(fixFile, a))
Search(files, a) ==
  IF FilesOf(files, a) = {} THEN NoEntry
  ELSE LET f == files[Min(FilesOf(files, a))]
       IN  f[Min(LinesOf(f, a))].expire
FixEntry(a) == Search(fixFile, a)

Whitelisted(a) ==
  \E i \in 1..FixFiles : [addr |-> a, expire |-> NoExpire] \in ToSet(fixFile[i])

FixListed == {a \in FixAddr : FilesOf(fixFile, a) # {}}

\* filter, with the function that topup passes.
FilterLines(f, a) == Kept(f, {l \in ToSet(f) : l.addr # a})

Goes(p, job) == fixJob' = [fixJob EXCEPT ![p] = job]
Ends(p) == Goes(p, Idle)
Rules(p) == Goes(p, [pc |-> "rules"])

----------------------------------------------------------------------------
\* The bound: no payment is made that could lead beyond FixMaxExpire.
MayPay(a) ==
  LET lines == UNION {ToSet(fixFile[i]) : i \in 1..FixFiles}
      n     == 1 + Cardinality({p \in FixProcs : fixJob[p].pc = "topup"})
  IN  \A e \in {fixNow} \cup {l.expire : l \in {m \in lines : m.addr = a}} :
        e # NoExpire => e + (n * FixSpan) <= FixMaxExpire

\* A script starts; the time is read before the lock is taken.
FixStart(p) ==
  /\ fixJob[p] = Idle
  /\ \/ \E a \in FixAddr, i \in 1..FixFiles :
          MayPay(a) /\ Goes(p, [pc |-> "topup", addr |-> a, file |-> i, t |-> fixNow])
     \/ \E pc \in {"add", "remove"}, a \in FixAddr : Goes(p, [pc |-> pc, addr |-> a])
     \/ Goes(p, [pc |-> "dropold", t |-> fixNow])
  /\ UNCHANGED <<fixFile, fixRules, fixNow, fixUnpaid, fixMixed>>

\* Mutant of ToppedUpFiles: the line goes into the file of the tariff.
ToppedUpFilesByTariff(a, t, i) ==
  LET e == FixEntry(a)
      line(x) == [addr |-> a, expire |-> x + FixSpan]
  IN  [fixFile EXCEPT ![i] =
         Append(FilterLines(@, a), line(IF e = NoEntry THEN t ELSE e))]

\* The files after topup: a new line in the tariff's file; or, in the file the
\* address was found in, all its lines are dropped and a later one added.
ToppedUpFiles(a, t, i) ==
  LET e == FixEntry(a)
      line(x) == [addr |-> a, expire |-> x + FixSpan]
  IN  IF e = NoEntry THEN [fixFile EXCEPT ![i] = Append(@, line(t))]
      ELSE [fixFile EXCEPT ![FirstFile(a)] =
              Append(FilterLines(@, a), line(e))]

\* acl.topup, called by grant-fixip-access; a whitelisted address is left alone.
FixTopup(p) ==
  LET j == fixJob[p]
  IN  /\ j.pc = "topup"
      /\ IF FixEntry(j.addr) = NoExpire THEN Ends(p) /\ UNCHANGED fixFile
         ELSE Goes(p, [pc |-> "addrand", addr |-> j.addr]) /\ fixFile' = ToppedUpFiles(j.addr, j.t, j.file)
      /\ UNCHANGED <<fixRules, fixNow, fixUnpaid, fixMixed>>

\* db.add_rand stores the payment; without it the script ends, and the time
\* stays given.
FixAddRand(p) ==
  /\ fixJob[p].pc = "addrand"
  /\ \/ Rules(p) /\ UNCHANGED fixUnpaid
     \/ Ends(p) /\ fixUnpaid' = fixUnpaid \cup {fixJob[p].addr}
  /\ UNCHANGED <<fixFile, fixRules, fixNow, fixMixed>>

\* whitelist-fixip add: a line without an expire in the first file.
FixAdd(p) ==
  LET a == fixJob[p].addr
  IN  /\ fixJob[p].pc = "add"
      /\ fixFile' = IF Whitelisted(a) THEN fixFile
                    ELSE [fixFile EXCEPT ![1] = Append(@, [addr |-> a, expire |-> NoExpire])]
      /\ fixMixed' = (fixMixed \/ FixEntry(a) \in Int)
      /\ Rules(p)
      /\ UNCHANGED <<fixRules, fixNow, fixUnpaid>>

\* Mutant of FixRemove: the rules are left to the next script.
FixRemoveOnly(p) ==
  LET line == [addr |-> fixJob[p].addr, expire |-> NoExpire]
  IN  /\ fixJob[p].pc = "remove"
      /\ fixFile' = [i \in 1..FixFiles |-> Kept(fixFile[i], ToSet(fixFile[i]) \ {line})]
      /\ Ends(p)
      /\ UNCHANGED <<fixRules, fixNow, fixUnpaid, fixMixed>>

\* whitelist-fixip remove: every file is rewritten without such lines.
FixRemove(p) ==
  LET line == [addr |-> fixJob[p].addr, expire |-> NoExpire]
  IN  /\ fixJob[p].pc = "remove"
      /\ fixFile' = [i \in 1..FixFiles |-> Kept(fixFile[i], ToSet(fixFile[i]) \ {line})]
      /\ Rules(p)
      /\ UNCHANGED <<fixRules, fixNow, fixUnpaid, fixMixed>>

\* expire-fixip-rules: dropold in every file; the rules are built only if one
\* has changed.
FixDropOld(p) ==
  /\ fixJob[p].pc = "dropold"
  /\ fixFile' = [i \in 1..FixFiles |->
       Kept(fixFile[i], {l \in ToSet(fixFile[i]) : l.expire = NoExpire \/ l.expire > fixJob[p].t})]
  /\ IF fixFile' = fixFile THEN Ends(p) ELSE Rules(p)
  /\ UNCHANGED <<fixRules, fixNow, fixUnpaid, fixMixed>>

\* update-fixip-rules
FixUpdateRules(p) ==
  /\ fixJob[p].pc = "rules"
  /\ fixRules' = FixListed
  /\ fixUnpaid' = {}
  /\ Ends(p)
  /\ UNCHANGED <<fixFile, fixNow, fixMixed>>

FixTick ==
  /\ fixNow < FixLastTime
  /\ fixNow' = fixNow + 1
  /\ UNCHANGED <<fixFile, fixRules, fixJob, fixUnpaid, fixMixed>>

FixStep(p) ==
  \/ FixStart(p) \/ FixTopup(p) \/ FixAddRand(p)
  \/ FixAdd(p) \/ FixRemove(p) \/ FixDropOld(p) \/ FixUpdateRules(p)

FixNext == (\E p \in FixProcs : FixStep(p)) \/ FixTick

FixSpec == FixInit /\ [][FixNext]_fixVars

----------------------------------------------------------------------------
\* When no script runs, nobody is let through who is in no file, and of those
\* who are, only a client whose payment was not stored may be kept out: every
\* script that changes a file sees to the rules, whatever the others do.
FixRulesFollow ==
  (\A p \in FixProcs : fixJob[p] = Idle) =>
    fixRules \subseteq FixListed /\ FixListed \ fixRules \subseteq fixUnpaid

\* Until the administrator whitelists an address that has time left, the files
\* are one table for those who search, topup and expire, wherever each line is.
FixStore == INSTANCE LocalStore
  WITH Proc <- FixProcs, Addr <- FixAddr, Times <- 0..FixLastTime,
       Spans <- {FixSpan}, Absent <- NoEntry, Unlimited <- NoExpire,
       table <- [a \in FixAddr |-> FixEntry(a)],
       view <- [p \in FixProcs |-> [a \in FixAddr |-> NoEntry]],
       failed <- fixMixed

FilesAreOneTable == FixStore!LocalSpec

\* topup returns false, and ends the script, for every whitelisted address.
WhitelistedAreNotToppedUp ==
  [][\A p \in FixProcs :
       fixJob[p].pc = "topup" /\ fixJob'[p].pc = "addrand" =>
         ~Whitelisted(fixJob[p].addr)]_fixVars
=============================================================================
