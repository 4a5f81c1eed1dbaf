----------------------------- MODULE ExpireRules -----------------------------
(***************************************************************************)
(* expire-rules, which cron starts every minute: entries that have expired *)
(* are dropped, or charged to their rand for as many minutes as have       *)
(* passed.  The issuer is asked while the acl lock is held exclusively.    *)
(***************************************************************************)
EXTENDS GrantAccess, FiniteSetsExt

VARIABLE work    \* the local variables of each expire-rules

WorkRecord ==
  [gone : SUBSET Addr,         \* history: entries refresh has dropped
   extra : SUBSET Addr,        \* addresses found in the local acl
   entries : Acl,              \* the table being updated
   todo : SUBSET Addr,         \* expired entries not yet looked at
   cur : SUBSET Addr,          \* the one being charged
   rest : Int,                 \* the remaining value verify has found
   got : [Addr -> Int]]         \* history: what each entry's minutes have cost

NoWork == [gone |-> {}, extra |-> {}, entries |-> [a \in Addr |-> Absent], todo |-> {},
           cur |-> {}, rest |-> 0, got |-> [a \in Addr |-> 0]]

WorkTypeOK == work \in [Cron -> WorkRecord]

WorkInit == work = [c \in Cron |-> NoWork]

\* Mutant of Missed: the loop ends one round earlier.
MissedShort(e, t) == t - e.expire

\* The minutes that have passed since the entry expired, as the while loop
\* counts them, and their price.
Missed(e, t) == t - e.expire + 1
Due(e, t) == Missed(e, t) * Tariff

----------------------------------------------------------------------------
\* cron starts the script, which looks at the clock.
Begin(c) ==
  /\ job[c].pc = "idle"
  /\ job' = [job EXCEPT ![c].pc = "refresh", ![c].t = now]
  /\ UNCHANGED <<now, aclVars, ruleVars, issuerVars, pay, work>>

\* Mutant of Refresh: its result is not looked at.
RefreshSilently(c) ==
  /\ Unlocked
  /\ Goto(c, "refresh", "needs")
  /\ local' = [a \in Addr |-> IF local[a] \notin {Absent, Unlimited}
                                 /\ local[a] <= job[c].t
                               THEN Absent ELSE local[a]]
  /\ UNCHANGED <<now, tableVars, holder, ruleVars, issuerVars, pay, work>>

\* localacl.refresh(): drops expired local entries.
Refresh(c) ==
  LET expired == {a \in Addr : local[a] \notin {Absent, Unlimited}
                               /\ local[a] <= job[c].t}
  IN  /\ Unlocked
      /\ Goto(c, "refresh", IF expired = {} THEN "needs" ELSE "extras")
      /\ local' = [a \in Addr |-> IF a \in expired THEN Absent ELSE local[a]]
      /\ work' = [work EXCEPT ![c].gone = expired]
      /\ UNCHANGED <<now, tableVars, holder, ruleVars, issuerVars, pay>>

Expired(table, t) == {a \in Addr : table[a] # Absent /\ table[a].expire <= t}

NeedsUpdate(c) ==
  /\ Unlocked
  /\ Goto(c, "needs", IF Expired(acl, job[c].t) = {} THEN "idle" ELSE "extras")
  /\ UNCHANGED <<now, aclVars, ruleVars, issuerVars, pay, work>>

\* The script dies on an error, and does not come to the rules: who has lost
\* an entry by what it did is still let through.
Die(c, place) ==
  /\ Goto(c, place, "idle")
  /\ work' = [work EXCEPT ![c] = NoWork]
  /\ stranded' = stranded \cup work[c].gone
  /\ UNCHANGED <<acl, scrap>>

\* acl.extraentries(), which dies of a line without an address: a comment or an
\* empty line in the local acl; or of a lock file that cannot be opened.
ExtraEntries(c) ==
  /\ Unlocked
  /\ \/ /\ Goto(c, "extras", "lock")
        /\ work' = [work EXCEPT ![c].extra = {a \in Addr : local[a] # Absent}]
        /\ UNCHANGED tableVars
     \/ /\ Faults \cap {"notes", "io"} # {}
        /\ Die(c, "extras")
  /\ UNCHANGED <<now, local, holder, ruleVars, issuerVars, pay>>

\* acl.update begins: entries with extra access are dropped; the expired ones
\* are looked at one by one.
BeginUpdate(c) ==
  LET entries == [a \in Addr |-> IF a \in work[c].extra THEN Absent ELSE acl[a]]
  IN  /\ Lock(c)
      /\ Goto(c, "lock", "each")
      /\ work' = [work EXCEPT ![c].entries = entries,
                              ![c].todo = Expired(entries, job[c].t)]
      /\ UNCHANGED <<now, tableVars, local, ruleVars, issuerVars, pay>>

\* The entry is dropped, because its client is not connected ...
DropExpired(c) ==
  /\ job[c].pc = "each"
  /\ \E a \in work[c].todo :
       work' = [work EXCEPT ![c].todo = @ \ {a}, ![c].entries[a] = Absent]
  /\ UNCHANGED <<now, aclVars, ruleVars, issuerVars, pay, job>>

\* Mutant of Charge: the minutes are added whether or not they are paid.
ChargeUnchecked(c) ==
  /\ job[c].pc = "each"
  /\ \E a \in work[c].todo, o \in Outcomes :
       LET e == work[c].entries[a]
       IN  /\ PaySeller(e.rand, Due(e, job[c].t), o, TRUE)
           /\ work' = [work EXCEPT
                         ![c].todo = @ \ {a},
                         ![c].entries[a].expire = @ + Missed(e, job[c].t),
                         ![c].got[a] = @ + (IF o = "paid" THEN Due(e, job[c].t)
                                                          ELSE 0)]
  /\ UNCHANGED <<now, aclVars, ruleVars, job, pay>>

\* ... or its rand is charged.  Paid, it lasts until after t; otherwise what
\* is left on the rand is asked for.
Charge(c) ==
  /\ job[c].pc = "each"
  /\ \E a \in work[c].todo, o \in Outcomes :
       LET e == work[c].entries[a]
       IN  /\ PaySeller(e.rand, Due(e, job[c].t), o, TRUE)
           /\ IF o = "paid"
                THEN /\ work' = [work EXCEPT
                                   ![c].todo = @ \ {a},
                                   ![c].entries[a].expire = @ + Missed(e, job[c].t),
                                   ![c].got[a] = @ + Due(e, job[c].t)]
                     /\ UNCHANGED job
                ELSE /\ work' = [work EXCEPT ![c].todo = @ \ {a}, ![c].cur = {a}]
                     /\ Goto(c, "each", "verifyrest")
  /\ UNCHANGED <<now, aclVars, ruleVars, pay>>

\* Mutant of VerifyRest: without an answer the entry is left for the next time.
VerifyRestKeeps(c) ==
  /\ job[c].pc = "verifyrest"
  /\ \E a \in work[c].cur :
       LET e == work[c].entries[a]
       IN  \/ /\ Goto(c, "verifyrest", "each")
              /\ work' = [work EXCEPT ![c].cur = {}]
           \/ /\ value[e.rand] > 0
              /\ Goto(c, "verifyrest", "drain")
              /\ work' = [work EXCEPT
                            ![c].rest = Min({value[e.rand], Due(e, job[c].t)})]
  /\ UNCHANGED <<now, aclVars, ruleVars, issuerVars, pay>>

\* verify and the second transfer, of what is left but no more than is due;
\* the entry is dropped whatever becomes of it.
VerifyRest(c) ==
  /\ job[c].pc = "verifyrest"
  /\ \E a \in work[c].cur :
       LET e == work[c].entries[a]
       IN  \/ /\ Goto(c, "verifyrest", "each")       \* no answer, or no value
              /\ work' = [work EXCEPT ![c].cur = {}, ![c].entries[a] = Absent]
           \/ /\ value[e.rand] > 0
              /\ Goto(c, "verifyrest", "drain")
              /\ work' = [work EXCEPT
                            ![c].rest = Min({value[e.rand], Due(e, job[c].t)})]
  /\ UNCHANGED <<now, aclVars, ruleVars, issuerVars, pay>>

DrainRest(c) ==
  /\ Goto(c, "drain", "each")
  /\ \E a \in work[c].cur, o \in Outcomes :
       /\ PaySeller(work[c].entries[a].rand, work[c].rest, o, TRUE)
       /\ work' = [work EXCEPT ![c].cur = {}, ![c].rest = 0,
                               ![c].entries[a] = Absent,
                               ![c].got[a] = IF o = "paid" THEN @ + work[c].rest ELSE @]
  /\ UNCHANGED <<now, aclVars, ruleVars, pay>>

\* acl.update ends: the table is replaced, or is not, which nobody asks; or the
\* script dies.  The lock is given back.
Replace(c) ==
  /\ work[c].todo = {}
  /\ Unlock
  /\ \/ /\ Goto(c, "each", "rules")
        /\ Written(work[c].entries) \/ NotWritten
        /\ work' = [work EXCEPT ![c] = NoWork]
     \/ "io" \in Faults /\ Die(c, "each")
  /\ UNCHANGED <<now, local, ruleVars, issuerVars, pay>>

----------------------------------------------------------------------------
CronNext(c) ==
  \/ Begin(c) \/ Refresh(c) \/ NeedsUpdate(c) \/ ExtraEntries(c)
  \/ BeginUpdate(c) \/ DropExpired(c) \/ Charge(c) \/ VerifyRest(c)
  \/ DrainRest(c) \/ Replace(c)
=============================================================================
