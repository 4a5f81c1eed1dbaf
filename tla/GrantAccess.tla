----------------------------- MODULE GrantAccess -----------------------------
(***************************************************************************)
(* The scripts clients and the administrator start: grant-access (pay per  *)
(* minute), topup (long term payment), logout, and whitelist add and       *)
(* remove; and update-rules, which they end with.  Each critical section   *)
(* of the acl lock is a step, so what hasaccess has read may be stale when *)
(* it is used.                                                             *)
(***************************************************************************)
EXTENDS TakePayment

CONSTANT Kinds    \* the scripts that may be started

AllKinds == {"grant", "topup", "logout", "add", "remove"}
ASSUME KindsAssumption == Kinds \subseteq AllKinds

PCs == {"idle", "extra", "read", "verify", "extra2", "update", "spawn", "drop",
        "list", "unlist", "rules", "rules2", "done",
        "refresh", "needs", "extras", "lock", "each", "verifyrest", "drain"}

JobRecord ==
  [kind : AllKinds \cup {"none"},
   pc : PCs,
   addr : Addr \cup {Absent}, rand : Rand \cup {NoRand},
   ok : BOOLEAN,                        \* hasaccess: there is an entry ...
   oldrand : Rand \cup {NoRand},        \* ... with this rand
   t : 0..MaxTime]                      \* os.time() at the start

NoJob == [kind |-> "none", pc |-> "idle", addr |-> Absent,
          rand |-> NoRand, ok |-> FALSE, oldrand |-> NoRand, t |-> 0]

JobTypeOK == job \in [Proc -> JobRecord]

JobInit == job = [p \in Proc |-> NoJob]

\* The amount a script asks for.
PriceOf(kind) == IF kind = "grant" THEN Tariff ELSE Price

Goto(p, from, to) ==
  /\ job[p].pc = from
  /\ job' = [job EXCEPT ![p].pc = to]

\* The script ends: only that it has run is remembered.
Exit(p) == job' = [job EXCEPT ![p] = [NoJob EXCEPT !.pc = "done"]]

----------------------------------------------------------------------------
Call(p) ==
  /\ p \in Script /\ job[p].pc = "idle"
  /\ \E kind \in Kinds, a \in Addr, r \in Rand :
       job' = [job EXCEPT ![p] =
                 [kind |-> kind, addr |-> a,
                  pc |-> CASE kind = "add" -> "list"
                           [] kind = "remove" -> "unlist"
                           [] OTHER -> "extra",
                  rand |-> IF kind \in {"grant", "topup"} THEN r ELSE NoRand,
                  ok |-> FALSE, oldrand |-> NoRand, t |-> now]]
  /\ UNCHANGED <<now, aclVars, ruleVars, issuerVars, pay>>

\* hasaccess, first critical section: extraaccess, the local acl.
ExtraAccess(p) ==
  LET kind == job[p].kind
      e    == local[job[p].addr]
  IN  /\ job[p].pc = "extra"
      /\ Unlocked
      /\ CASE e = Absent -> Goto(p, "extra", "read")
           [] e # Absent /\ kind = "grant" -> Exit(p)              \* whitelisted
           [] e = Unlimited /\ kind = "topup" -> Exit(p)           \* whitelisted
           [] e = Unlimited /\ kind = "logout" -> Goto(p, "extra", "unlist")
           [] e \notin {Absent, Unlimited} /\ kind = "topup" ->
                job' = [job EXCEPT ![p].ok = TRUE, ![p].pc = "verify"]
           [] e \notin {Absent, Unlimited} /\ kind = "logout" -> Exit(p)
      /\ UNCHANGED <<now, aclVars, ruleVars, issuerVars, pay>>

\* hasaccess, second critical section: the multiuse acl.
ReadAcl(p) ==
  LET kind == job[p].kind
      e    == acl[job[p].addr]
  IN  /\ job[p].pc = "read"
      /\ Unlocked
      /\ CASE kind = "logout" -> IF e = Absent THEN Exit(p)
                                 ELSE Goto(p, "read", "drop")
           [] kind # "logout" /\ e = Absent -> Goto(p, "read", "verify")
           [] kind = "grant" /\ e # Absent ->
                IF e.rand = job[p].rand THEN Exit(p)                \* same rand
                ELSE job' = [job EXCEPT ![p].ok = TRUE, ![p].oldrand = e.rand,
                                        ![p].pc = "verify"]
           [] kind = "topup" /\ e # Absent ->
                job' = [job EXCEPT ![p].ok = TRUE, ![p].pc = "verify"]
      /\ UNCHANGED <<now, aclVars, ruleVars, issuerVars, pay>>

\* protocol.verify, then the check of the value: no answer and too little
\* value end the script.
Verify(p) ==
  /\ job[p].pc = "verify"
  /\ \/ Exit(p)                                                 \* network error
     \/ value[job[p].rand] < PriceOf(job[p].kind) /\ Exit(p)
     \/ /\ value[job[p].rand] >= PriceOf(job[p].kind)
        /\ Goto(p, "verify", IF job[p].kind = "grant" THEN "extra2" ELSE "update")
  /\ UNCHANGED <<now, aclVars, ruleVars, issuerVars, pay>>

\* acl.topup, first critical section: with extra access there is nothing to do.
TopupExtra(p) ==
  /\ Unlocked
  /\ Goto(p, "extra2",
          IF local[job[p].addr] = Absent THEN "update" ELSE "spawn")
  /\ UNCHANGED <<now, aclVars, ruleVars, issuerVars, pay>>

\* acl.topup, second critical section; it may fail or raise an error, and the
\* script ends.
TopupAcl(p) ==
  /\ job[p].kind = "grant"
  /\ Unlocked
  /\ \/ /\ Goto(p, "update", "spawn")
        /\ Written(ToppedUp(job[p].addr, job[p].t, Day, job[p].rand))
     \/ /\ job[p].pc = "update"
        /\ Exit(p)
        /\ NotWritten \/ NotOpened
  /\ UNCHANGED <<now, local, holder, ruleVars, issuerVars, pay>>

\* localacl.topup, for a payment or (without dt) for the whitelist.
TopupLocal(p) ==
  LET a == job[p].addr
  IN  /\ Unlocked
      /\ \/ /\ job[p].kind = "topup"
            /\ Goto(p, "update", "spawn")
            /\ local' = [local EXCEPT ![a] =
                           CASE @ = Absent -> job[p].t + Span
                             [] @ = Unlimited -> Unlimited
                             [] OTHER -> @ + Span]
         \/ /\ Goto(p, "list", "rules")
            /\ local' = [local EXCEPT ![a] = Unlimited]
      /\ UNCHANGED <<now, tableVars, holder, ruleVars, issuerVars, pay>>

\* Mutant of Spawn: the wrong clients get new rules.
SpawnInverted(p) ==
  /\ job[p].pc = "spawn"
  /\ IF job[p].kind = "grant"
       THEN TakePayment(p, "acl", job[p].addr, Day, job[p].rand, Tariff,
                        job[p].oldrand)
       ELSE TakePayment(p, "local", job[p].addr, Span, job[p].rand, Price, NoRand)
  /\ IF job[p].ok THEN Goto(p, "spawn", "rules") ELSE Exit(p)
  /\ UNCHANGED <<now, aclVars, ruleVars, issuerVars>>

\* The payment is left to takepayment; a client that had access before needs
\* no new rules.
Spawn(p) ==
  /\ job[p].pc = "spawn"
  /\ IF job[p].kind = "grant"
       THEN TakePayment(p, "acl", job[p].addr, Day, job[p].rand, Tariff,
                        job[p].oldrand)
       ELSE TakePayment(p, "local", job[p].addr, Span, job[p].rand, Price, NoRand)
  /\ IF job[p].ok THEN Exit(p) ELSE Goto(p, "spawn", "rules")
  /\ UNCHANGED <<now, aclVars, ruleVars, issuerVars>>

\* logout of a client that pays by the minute: its entry is removed.  Whether
\* that was written is not asked; an error ends the script.
DropEntry(p) ==
  /\ Unlocked
  /\ \/ /\ Goto(p, "drop", "rules")
        /\ Written([acl EXCEPT ![job[p].addr] = Absent]) \/ NotWritten
     \/ /\ job[p].pc = "drop"
        /\ Exit(p)
        /\ NotOpened
  /\ UNCHANGED <<now, local, holder, ruleVars, issuerVars, pay>>

\* logout of a whitelisted client, and whitelist remove.
RemoveLocal(p) ==
  /\ Unlocked
  /\ Goto(p, "unlist", "rules")
  /\ local' = [local EXCEPT ![job[p].addr] = Absent]
  /\ UNCHANGED <<now, tableVars, holder, ruleVars, issuerVars, pay>>

----------------------------------------------------------------------------
\* Mutant of RulesFilter: the acls are read before the lock is taken.
RulesFilterUnlocked(p) ==
  /\ Goto(p, "rules", "rules2")
  /\ filter' = Listed /\ stranded' = scrap
  /\ UNCHANGED <<now, acl, scrap, local, holder, redirect, issuerVars, pay>>

\* update-rules: under the lock, chain MACFILTER and then chain MACREDIRECT
\* are replaced by rules for the addresses in the acls.
RulesFilter(p) ==
  /\ Goto(p, "rules", "rules2")
  /\ Lock(p)
  /\ filter' = Listed /\ stranded' = scrap
  /\ UNCHANGED <<now, acl, scrap, local, redirect, issuerVars, pay>>

RulesRedirect(p) ==
  /\ job[p].pc = "rules2"
  /\ Unlock
  /\ redirect' = Listed
  /\ IF p \in Cron THEN Goto(p, "rules2", "idle") ELSE Exit(p)
  /\ UNCHANGED <<now, tableVars, local, filter, issuerVars, pay>>

----------------------------------------------------------------------------
ScriptNext(p) ==
  \/ ExtraAccess(p) \/ ReadAcl(p) \/ Verify(p) \/ TopupExtra(p) \/ TopupAcl(p)
  \/ TopupLocal(p) \/ Spawn(p) \/ DropEntry(p) \/ RemoveLocal(p)

UpdateRules(p) == RulesFilter(p) \/ RulesRedirect(p)
=============================================================================
