-------------------------------- MODULE Gate --------------------------------
(***************************************************************************)
(* The vending machine: the scripts of GrantAccess with the takepayment    *)
(* processes they start, expire-rules, the clock and the issuer, composed. *)
(* The properties relate what the seller has been paid, the time clients   *)
(* have got for it and whom the firewall lets through.                     *)
(***************************************************************************)
EXTENDS ExpireRules

vars == <<now, aclVars, ruleVars, issuerVars, job, pay, work>>

Init ==
  /\ now = 0
  /\ acl \in InitialAcl /\ local \in InitialLocal
  /\ scrap = {} /\ stranded = {}
  /\ holder = Nobody
  /\ filter = Listed /\ redirect = Listed
  /\ value = InitValue /\ till = 0 /\ unheard = 0 /\ charged = 0
  /\ JobInit /\ PayInit /\ WorkInit

Tick ==
  /\ now < MaxTime
  /\ now' = now + 1
  /\ UNCHANGED <<aclVars, ruleVars, issuerVars, job, pay, work>>

ScriptStep(p) == ScriptNext(p) /\ UNCHANGED work
RulesStep(p) == UpdateRules(p) /\ UNCHANGED work
PayStep(p) == TakePaymentNext(p) /\ UNCHANGED work

Next ==
  \/ Tick
  \/ \E p \in Script : \/ Call(p) /\ UNCHANGED work
                       \/ ScriptStep(p) \/ PayStep(p)
  \/ \E c \in Cron : CronNext(c)
  \/ \E p \in Proc : RulesStep(p)

Spec == Init /\ [][Next]_vars

\* The issuer answers the payment that p asks for.
DrawAnswered(p) == Draw(p) /\ pay'[p].draw # "draw" /\ UNCHANGED work

\* The files can be read and written again: a roll back is written, and one
\* expire-rules or other reads the extra acls and writes the table.
RolledBack(p) == RollbackAclUpdate(p) /\ pay'[p].draw = "undone" /\ UNCHANGED work
ExtrasRead(c) == ExtraEntries(c) /\ job'[c].pc = "lock"
TableWritten(c) == Replace(c) /\ job'[c].pc = "rules" /\ acl' = work[c].entries

FilesWork ==
  /\ \A p \in Script : SF_vars(RolledBack(p))
  /\ \A c \in Cron : SF_vars(ExtrasRead(c)) /\ SF_vars(TableWritten(c))

\* The clock goes on, no process stops for ever, the lock and the network are
\* not withheld from one process for ever.
FairSpec ==
  /\ Spec
  /\ WF_vars(Tick)
  /\ \A p \in Script : /\ SF_vars(ScriptStep(p))
                       /\ SF_vars(PayStep(p))
                       /\ SF_vars(DrawAnswered(p))
  /\ \A c \in Cron : SF_vars(CronNext(c))
  /\ \A p \in Proc : SF_vars(RulesStep(p))

----------------------------------------------------------------------------
\* The variables hold what the scripts, the acl files, the chains and the
\* issuer can hold.
TypeOK ==
  /\ now \in 0..MaxTime
  /\ acl \in Acl /\ local \in Local
  /\ scrap \subseteq Addr /\ stranded \subseteq Addr
  /\ holder \in Proc \cup {Nobody}
  /\ filter \subseteq Addr /\ redirect \subseteq Addr
  /\ value \in [Rand -> Nat] /\ till \in Nat /\ unheard \in Nat /\ charged \in Nat
  /\ JobTypeOK /\ PayTypeOK /\ WorkTypeOK

\* The scripts that have been called have ended, with their payments.
Quiet ==
  /\ \A p \in Script : /\ job[p].pc \in {"idle", "done"}
                       /\ pay[p] = NoPay \/ Settled(p)
  /\ \A c \in Cron : job[c].pc = "idle"

----------------------------------------------------------------------------
\* The payments for per-minute access ("acl") or for long ("local") that
\* takepayment takes for drawn, by another rand than the seller's own.
Taken(type) == {p \in Script : pay[p] # NoPay /\ pay[p].type = type
                               /\ pay[p].draw = "paid" /\ pay[p].rand # Seller}

\* However many requests and replies are lost and even if several clients spend
\* the same rand at once, every payment that ends without a roll back has
\* reached the seller, once and in full, and none of the others has, except for
\* what was paid without the router hearing of it: after a lost reply draw pays
\* again (takepayment, draw and rollback).  The rest is what expire-rules draws.
MoneyIsAccounted ==
  till = Tariff * Cardinality(Taken("acl")) + Price * Cardinality(Taken("local"))
         + unheard + charged

\* What an address has been paid for by type ("acl" or "local").
PaidFor(a, type) ==
  {p \in Script : pay[p] # NoPay /\ pay[p].addr = a /\ pay[p].type = type
                  /\ pay[p].draw \in {"paid", "dead"}}

\* When the payments for per-minute access have settled, an entry of the acl
\* lasts a day for each of them from a time when one of its clients came, no
\* more and no less: neither a concurrent grant nor the roll back of another
\* payment for the same address takes or gives time (grant-access, takepayment).
\* A payment whose roll back has died of an error has not been made, and keeps
\* its day.
\* An address that has got an entry in the local acl meanwhile is no longer
\* touched by acl.topup, and keeps what would have been rolled back.
\* The same for long term payments and the local acl (topup, takepayment).
PaidTimeKept ==
  Quiet => \A a \in Addr :
    /\ acl[a] # Absent /\ local[a] = Absent =>
         acl[a].expire - Day * Cardinality(PaidFor(a, "acl")) \in 0..now
    /\ local[a] \notin {Absent, Unlimited} =>
         local[a] - Span * Cardinality(PaidFor(a, "local")) \in 0..now

----------------------------------------------------------------------------
\* Nobody is let through who has no entry: every script that removes an entry
\* sees to the rules before it ends.  Only who has lost the entry by a fault since
\* the rules were last made is let through without one: an entry the full disk had
\* no room for, or that an expire-rules had dropped which then died of an error.
NoAccessWithoutEntry == Quiet => filter \subseteq Entered \cup stranded

\* While nothing removes entries, whoever has an entry is let through when the
\* scripts have ended, although only the script that found no entry before
\* rebuilds the rules.
PaidAreLetThrough == Quiet => filter = Listed

\* While nobody holds the acl lock, a client that the filter lets through is
\* not redirected to the payment page, and the other way around.
ChainsAgree == Unlocked => filter = redirect

----------------------------------------------------------------------------
Updating(c) == job[c].pc \in {"each", "verifyrest", "drain"}

\* The minutes that expire-rules adds to each entry of the table it is about to
\* write are the ones that its rand has paid: nobody changes the acl meanwhile,
\* and the loop counts minutes and price in step (expire-rules, the update
\* function).  An entry that is dropped has paid for no more than the minutes
\* that had passed; it may have paid for all of them, because what the rand has
\* left is taken after a transfer that was not answered.
MinutesArePaid ==
  \A c \in Cron : Updating(c) => \A a \in Addr :
    LET e == work[c].entries[a]
        got == work[c].got[a]
    IN  IF e # Absent
          THEN /\ acl[a] # Absent /\ e.rand = acl[a].rand
               /\ got = Tariff * (e.expire - acl[a].expire)
          ELSE got # 0 => /\ a \in Expired(acl, job[c].t)
                          /\ got \in 0..Due(acl[a], job[c].t)

\* Nothing in the table that expire-rules writes has expired when it looked at
\* the clock: what was charged, was charged for long enough.
WrittenTableIsFresh ==
  \A c \in Cron : job[c].pc = "each" /\ work[c].todo = {} =>
                    Expired(work[c].entries, job[c].t) = {}

\* takepayment does not give up the value of the client's old rand when a
\* transfer of it is refused ("invalid oldrand: retry verification").
RefusedIsVerifiedAgain ==
  [][\A p \in Script :
       pay[p].old = "drawold" /\ pay'[p].old = "end" =>
         pay[p].oldrand = pay[p].rand \/ value' # value]_vars

----------------------------------------------------------------------------
\* Every payment is drawn or rolled back, or its process dies of a file it cannot
\* open, if the issuer answers and the acl can be written at last.
PaymentsSettle ==
  FilesWork => \A p \in Script : pay[p].draw = "draw" ~> pay[p].draw \in Over

HasExpired(a) == acl[a] # Absent /\ acl[a].expire <= now

\* An entry that has expired is charged for or removed at last, if an expire-rules
\* at last reads the extra acls, which it cannot while a comment is in one of
\* them, and writes the acl.
ExpiredIsHandled ==
  FilesWork => \A a \in Addr : HasExpired(a) ~> ~HasExpired(a)
=============================================================================
