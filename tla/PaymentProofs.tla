--------------------------- MODULE PaymentProofs ---------------------------
(***************************************************************************)
(* What the vending machine owes its clients and its seller, with any      *)
(* number of scripts, addresses and rands: the minutes that expire-rules   *)
(* charges, the money that the seller has, the time that payments buy, and *)
(* who is let through.                                                     *)
(***************************************************************************)
EXTENDS GateProofs, FiniteSetTheorems

----------------------------------------------------------------------------
(* What expire-rules charges.                                               *)

\* What an entry that is dropped has paid: nothing, or no more than what was due.
PaidInVain(c, a, g) ==
  g # 0 => a \in Expired(acl, job[c].t) /\ g \in 0..Due(acl[a], job[c].t)

\* The entries that are still to be looked at are those of the acl, and nothing has
\* been charged for them; nothing at all has when the table is not being updated.
\* What is left on a rand is asked for only up to what is due.
MinutesFit(c) ==
  \A a \in Addr :
    /\ ~Updating(c) \/ a \in work[c].todo \cup work[c].cur => work[c].got[a] = 0
    /\ Updating(c) /\ a \in work[c].todo \cup work[c].cur => work[c].entries[a] = acl[a]
    /\ job[c].pc = "drain" /\ a \in work[c].cur =>
         work[c].rest \in 0..Due(acl[a], job[c].t)
    /\ Updating(c) =>
         LET e == work[c].entries[a]
         IN  IF e = Absent THEN PaidInVain(c, a, work[c].got[a])
             ELSE /\ acl[a] # Absent /\ e.rand = acl[a].rand
                  /\ work[c].got[a] = Tariff * (e.expire - acl[a].expire)

MinutesInv == \A c \in Cron : MinutesFit(c)

\* Who does not hold the lock is not updating the table.
LEMMA OneUpdates ==
  ASSUME GateInv
  PROVE  /\ Unlocked => \A c \in Cron : ~Updating(c)
         /\ \A c \in Cron, p \in Proc :
              Updating(c) /\ job[p].pc \in {"each", "rules2"} => p = c
  BY GateAssumption
  DEF GateInv, ControlInv, LockFollowsPc, Unlocked, Updating, Locking, Proc

\* A step that others take.
LEMMA MinutesKept ==
  ASSUME GateInv, NEW c \in Cron, MinutesFit(c),
         work'[c] = work[c], job'[c].pc = job[c].pc, job'[c].t = job[c].t,
         UNCHANGED acl \/ ~Updating(c)
  PROVE  MinutesFit(c)'
<1>1. CASE ~Updating(c)  BY <1>1 DEF MinutesFit, Updating
<1>2. CASE UNCHANGED acl  BY <1>2 DEF MinutesFit, Updating, PaidInVain, Expired
<1> QED  BY <1>1, <1>2

\* A step before or after the update.
LEMMA MinutesOutside ==
  ASSUME NEW c \in Cron, MinutesFit(c), work'[c].got = work[c].got,
         job[c].pc \notin {"each", "verifyrest", "drain"},
         job'[c].pc \notin {"each", "verifyrest", "drain"}
  PROVE  MinutesFit(c)'
  BY DEF MinutesFit, Updating

\* An entry is dropped, which has paid nothing or no more than was due.
LEMMA MinutesDropped ==
  ASSUME NEW c \in Cron, MinutesFit(c), Updating(c), WorkTypeOK,
         NEW a \in work[c].todo \cup work[c].cur, UNCHANGED acl,
         NEW g, PaidInVain(c, a, g),
         work'[c].got = [work[c].got EXCEPT ![a] = g],
         work'[c].entries = [work[c].entries EXCEPT ![a] = Absent],
         work'[c].todo \subseteq work[c].todo \ {a}, work'[c].cur = {},
         job'[c].pc = "each", job'[c].t = job[c].t
  PROVE  MinutesFit(c)'
<1>1. /\ work[c].entries \in [Addr -> Entry \cup {Absent}]
      /\ work[c].got \in [Addr -> Int] /\ a \in Addr
  BY DEF WorkTypeOK, WorkRecord, Acl
<1>2. \A b \in Addr : \A n : PaidInVain(c, b, n) <=> PaidInVain(c, b, n)'
  BY DEF PaidInVain, Expired
<1>3. work'[c].entries[a] = Absent /\ work'[c].got[a] = g  BY <1>1
<1>4. ASSUME NEW b \in Addr, b # a
      PROVE  /\ work'[c].entries[b] = work[c].entries[b] /\ work'[c].got[b] = work[c].got[b]
             /\ b \in work'[c].todo \cup work'[c].cur => b \in work[c].todo \cup work[c].cur
  BY <1>1, <1>4
<1>5. Updating(c)' /\ job'[c].pc # "drain" /\ a \notin work'[c].todo \cup work'[c].cur
  BY DEF Updating
<1> QED  BY <1>2, <1>3, <1>4, <1>5 DEF MinutesFit

\* The entry of a client that has paid for n minutes more.
Longer(e, n) == [e EXCEPT !.expire = @ + n]

\* It costs as much more as it lasts longer.
LEMMA GainIsExact ==
  ASSUME NEW e \in Entry, NEW old \in Entry, NEW n \in Int, NEW g,
         g = Tariff * (e.expire - old.expire)
  PROVE  /\ Longer(e, n) \in Entry /\ Longer(e, n) # Absent /\ Longer(e, n).rand = e.rand
         /\ g + n * Tariff = Tariff * (Longer(e, n).expire - old.expire)
<1>1. /\ Longer(e, n) \in Entry /\ Longer(e, n).rand = e.rand
      /\ Longer(e, n).expire = e.expire + n
  BY DEF Longer, Entry, Minutes
<1>2. PICK x \in Int, y \in Int : x = e.expire /\ y = old.expire
  BY DEF Entry, Minutes
<1>3. e.expire - old.expire = x - y  BY <1>2
<1>4. Longer(e, n).expire - old.expire = x + n - y  BY <1>1, <1>2
<1>5. Tariff * (x - y) + n * Tariff = Tariff * (x + n - y)
  <2>1. Tariff \in Int  BY GateAssumption
  <2> QED  BY <2>1
<1>6. g + n * Tariff = Tariff * (Longer(e, n).expire - old.expire)
  BY <1>3, <1>4, <1>5
<1> QED  BY <1>1, <1>6, TablesAssumption

\* An entry pays for minutes and gets them.
LEMMA MinutesGained ==
  ASSUME NEW c \in Cron, MinutesFit(c), Updating(c), WorkTypeOK, acl \in Acl,
         NEW a \in work[c].todo, work[c].entries[a] # Absent, UNCHANGED acl, NEW n \in Int,
         work'[c].entries = [work[c].entries EXCEPT ![a] = Longer(@, n)],
         work'[c].got = [work[c].got EXCEPT ![a] = @ + n * Tariff],
         work'[c].todo = work[c].todo \ {a}, work'[c].cur = {}, job'[c].pc = "each",
         job'[c].t = job[c].t
  PROVE  MinutesFit(c)'
<1> DEFINE e == work[c].entries[a]
           f == Longer(e, n)
           g == work[c].got[a]
<1>1. /\ work[c].entries \in [Addr -> Entry \cup {Absent}]
      /\ work[c].got \in [Addr -> Int] /\ a \in Addr
  BY DEF WorkTypeOK, WorkRecord, Acl
<1>2. /\ g = 0 /\ acl[a] # Absent /\ e.rand = acl[a].rand
      /\ g = Tariff * (e.expire - acl[a].expire)
  BY <1>1 DEF MinutesFit
<1>3. e \in Entry /\ acl[a] \in Entry  BY <1>1, <1>2 DEF Acl
<1>4. /\ f # Absent /\ f.rand = acl[a].rand
      /\ g + n * Tariff = Tariff * (f.expire - acl[a].expire)
  BY <1>2, <1>3, GainIsExact
<1>5. work'[c].entries[a] = f /\ work'[c].got[a] = g + n * Tariff
  BY <1>1
<1> HIDE DEF e, f, g
<1>6. ASSUME NEW x \in Addr, x # a
      PROVE  /\ work'[c].entries[x] = work[c].entries[x] /\ work'[c].got[x] = work[c].got[x]
             /\ x \in work'[c].todo \cup work'[c].cur => x \in work[c].todo \cup work[c].cur
  BY <1>1, <1>6
<1>7. /\ a \notin work'[c].todo \cup work'[c].cur /\ UNCHANGED acl
      /\ Updating(c)' /\ job'[c].pc # "drain"
  BY DEF Updating
<1>8. \A b \in Addr : \A x : PaidInVain(c, b, x) <=> PaidInVain(c, b, x)'
  BY DEF PaidInVain, Expired
<1> QED  BY <1>4, <1>5, <1>6, <1>7, <1>8 DEF MinutesFit

\* Nobody else disturbs the update of the table, and it keeps its books.
LEMMA MinutesStep == GateInv /\ MinutesInv /\ [Next]_vars => MinutesInv'
<1> SUFFICES ASSUME GateInv, MinutesInv, [Next]_vars, NEW c \in Cron
             PROVE  MinutesFit(c)'
  BY DEF MinutesInv
<1> USE DEF aclVars, tableVars, Goto
<1>1. /\ MinutesFit(c) /\ WorkTypeOK /\ WorkFits /\ JobTypeOK /\ acl \in Acl /\ c \in Proc
      /\ Script \cap Cron = {} /\ work[c] \in WorkRecord
  BY GateAssumption DEF MinutesInv, GateInv, DataInv, WorkInv, WorkTypeOK, JobInv, SharedTypeOK, Proc
<1>2. Unlocked => ~Updating(c)  BY OneUpdates
<1>3. ASSUME UNCHANGED work, job'[c] = job[c], UNCHANGED acl \/ Unlocked
      PROVE  MinutesFit(c)'
  BY <1>1, <1>2, <1>3, MinutesKept
<1>4. CASE UNCHANGED vars  BY <1>3, <1>4 DEF vars
<1>5. CASE Tick  BY <1>3, <1>5 DEF Tick
<1>6. ASSUME NEW p \in Script, (Call(p) /\ UNCHANGED work) \/ ScriptStep(p) \/ PayStep(p)
      PROVE  MinutesFit(c)'
  <2>1. UNCHANGED work  BY <1>6 DEF ScriptStep, PayStep
  <2>2. DataInv /\ p \in Proc /\ p # c  BY <1>1 DEF GateInv, Proc
  <2>3. /\ UNCHANGED acl \/ Unlocked
        /\ job'[c] = job[c]
    <3>1. CASE Call(p)
      BY <1>1, <2>2, <3>1 DEF Call, JobTypeOK
    <3>2. CASE ScriptStep(p)
      <4>1. JobInv /\ acl \in Acl  BY <2>2 DEF DataInv, SharedTypeOK
      <4>2. ScriptMoves(p)  BY <3>2, <4>1, ScriptMovesHold DEF ScriptStep
      <4> QED
        BY <1>1, <2>2, <3>2, <4>2, ScriptStepEffect DEF FreeStep, ScriptMoves, Others
    <3>3. CASE PayStep(p)
      <4>1. UNCHANGED job
        BY <3>3
        DEF PayStep, TakePaymentNext, Draw, RollbackLocal, RollbackAcl, RollbackAclUpdate,
            VerifyOld, DrawOld
      <4> QED  BY <2>2, <3>3, <4>1, PayStepEffect DEF StillStep
    <3> QED  BY <1>6, <3>1, <3>2, <3>3
  <2> QED  BY <1>3, <2>1, <2>3
<1>7. ASSUME NEW p \in Proc, RulesStep(p) PROVE MinutesFit(c)'
  <2>1. UNCHANGED <<work, acl>>
    BY <1>7 DEF RulesStep, UpdateRules, RulesFilter, RulesRedirect
  <2>2. DataInv  BY DEF GateInv
  <2>3. EnterStep(p) \/ RedirectStep(p)
    BY <1>7, <2>2, RulesFilterEffect, RulesRedirectEffect DEF RulesStep, UpdateRules
  <2>4. CASE p # c
    <3>1. job'[c] = job[c]
      BY <1>1, <1>7, <2>4
      DEF RulesStep, UpdateRules, RulesFilter, RulesRedirect, Exit, JobTypeOK
    <3> QED  BY <1>3, <2>1, <3>1
  <2>5. CASE p = c
    <3>1. job[c].pc \in {"rules", "rules2"} /\ job'[c].pc \in {"rules2", "idle"}
      BY <1>1, <1>7, <2>5 DEF RulesStep, UpdateRules, RulesFilter, RulesRedirect, JobTypeOK, JobRecord
    <3> QED  BY <1>1, <2>1, <3>1, MinutesOutside
  <2> QED  BY <2>4, <2>5
<1>8. ASSUME NEW d \in Cron, CronNext(d), d # c PROVE MinutesFit(c)'
  <2>1. work'[c] = work[c]
    BY <1>1, <1>8
    DEF CronNext, Begin, Refresh, NeedsUpdate, ExtraEntries, BeginUpdate, DropExpired,
        Charge, VerifyRest, DrainRest, Replace, Die, WorkTypeOK
  <2>2. DataInv /\ d \in Proc  BY DEF GateInv, Proc
  <2>3. CronStep(d)
    BY <1>8, <2>2, CronOutsideEffect, BeginUpdateEffect, CronInsideEffect, ReplaceEffect
    DEF CronNext, CronStep
  <2>4. /\ job'[c] = job[c]
        /\ UNCHANGED acl \/ Unlocked \/ job[d].pc = "each"
    <3>1. job'[c] = job[c]
      BY <1>1, <1>8
      DEF CronNext, Begin, Refresh, NeedsUpdate, ExtraEntries, BeginUpdate, DropExpired,
          Charge, VerifyRest, DrainRest, Replace, Die, JobTypeOK
    <3> QED
      BY <1>1, <1>8, <2>3, <3>1 DEF CronStep, FreeStep, EnterStep, InnerStep, ReplaceStep
  <2>5. UNCHANGED acl \/ ~Updating(c)  BY <1>2, <1>8, <2>2, <2>4, OneUpdates
  <2> QED  BY <1>1, <2>1, <2>4, <2>5, MinutesKept
<1>9. ASSUME CronNext(c) PROVE MinutesFit(c)'
  <2>1. CASE Begin(c) \/ Refresh(c) \/ NeedsUpdate(c) \/ ExtraEntries(c)
    <3>1. DataInv  BY DEF GateInv
    <3>2. FreeStep(c)  BY <2>1, <3>1, CronOutsideEffect
    <3>3. CASE Die(c, "extras")
      <4>1. work'[c] = NoWork  BY <1>1, <3>3 DEF Die, WorkTypeOK
      <4>2. ~Updating(c)'  BY <3>2 DEF FreeStep, Locking, Updating
      <4> QED  BY <4>1, <4>2 DEF MinutesFit, NoWork, Updating
    <3>4. CASE ~Die(c, "extras")
      <4>1. work'[c].got = work[c].got
        BY <1>1, <2>1, <3>4
        DEF Begin, Refresh, NeedsUpdate, ExtraEntries, WorkTypeOK, WorkRecord
      <4> QED  BY <1>1, <3>2, <4>1, MinutesOutside DEF FreeStep, Locking
    <3> QED  BY <3>3, <3>4
  <2>2. CASE BeginUpdate(c)
    <3>1. job[c].pc = "lock" /\ job'[c].pc = "each" /\ UNCHANGED acl
      BY <1>1, <2>2 DEF BeginUpdate, JobTypeOK, JobRecord
    <3>2. work'[c].got = work[c].got
          /\ work'[c].entries = [a \in Addr |-> IF a \in work[c].extra THEN Absent ELSE acl[a]]
          /\ work'[c].todo = Expired(work'[c].entries, job[c].t)
          /\ work'[c].cur = work[c].cur
      BY <1>1, <2>2 DEF BeginUpdate, WorkTypeOK, WorkRecord
    <3>3. \A a \in Addr : work[c].got[a] = 0  BY <1>1, <3>1 DEF MinutesFit, Updating
    <3>4. \A a \in Addr : acl[a] # Absent => Tariff * (acl[a].expire - acl[a].expire) = 0
      BY <1>1, GateAssumption DEF Acl, Entry, Minutes
    <3>5. work[c].cur = {}  BY <1>1, <3>1 DEF WorkFits
    <3>6. \A a \in work'[c].todo : work'[c].entries[a] = acl[a]
      BY <3>2 DEF Expired
    <3>7. \A a \in Addr : PaidInVain(c, a, 0)'  BY DEF PaidInVain
    <3> QED  BY <3>1, <3>2, <3>3, <3>4, <3>5, <3>6, <3>7 DEF MinutesFit, Updating
  <2>3. CASE Charge(c)
    <3> DEFINE t == job[c].t
    <3>1. PICK a \in work[c].todo, o \in Outcomes :
            IF o = "paid"
            THEN /\ work' = [work EXCEPT
                       ![c].todo = @ \ {a},
                       ![c].entries[a].expire = @ + Missed(work[c].entries[a], t),
                       ![c].got[a] = @ + Due(work[c].entries[a], t)]
                 /\ UNCHANGED job
            ELSE /\ work' = [work EXCEPT ![c].todo = @ \ {a}, ![c].cur = {a}]
                 /\ job' = [job EXCEPT ![c].pc = "verifyrest"]
      BY <2>3 DEF Charge
    <3>2. job[c].pc = "each" /\ UNCHANGED acl /\ Updating(c)  BY <2>3 DEF Charge, Updating
    <3>3. /\ work[c].entries[a] # Absent /\ Missed(work[c].entries[a], t) \in Int
          /\ work[c].cur = {}
      <4>1. DataInv  BY DEF GateInv
      <4>2. /\ work[c].entries[a].expire \in Int /\ t \in Int
            /\ work[c].entries[a] # Absent
        BY <3>2, <4>1, ExpiredIsEntry
      <4> QED  BY <1>1, <3>2, <4>2 DEF Missed, WorkFits
    <3>4. CASE o = "paid"
      <4> DEFINE n == Missed(work[c].entries[a], t)
      <4>1. /\ UNCHANGED job
            /\ work' = [work EXCEPT ![c].todo = @ \ {a},
                                    ![c].entries[a].expire = @ + n,
                                    ![c].got[a] = @ + n * Tariff]
        BY <3>1, <3>4 DEF Due
      <4>2. n \in Int  BY <3>3
      <4> HIDE DEF n
      <4>3. /\ work'[c].entries = [work[c].entries EXCEPT ![a].expire = @ + n]
            /\ work'[c].got = [work[c].got EXCEPT ![a] = @ + n * Tariff]
            /\ work'[c].todo = work[c].todo \ {a} /\ work'[c].cur = {}
        BY <1>1, <3>3, <4>1 DEF WorkTypeOK, WorkRecord
      <4>4. work'[c].entries = [work[c].entries EXCEPT ![a] = Longer(@, n)]
        BY <4>3 DEF Longer
      <4> QED  BY <1>1, <3>2, <3>3, <4>1, <4>2, <4>3, <4>4, MinutesGained
    <3>5. CASE o # "paid"
      <4>1. /\ work'[c].todo = work[c].todo \ {a} /\ work'[c].cur = {a}
            /\ work'[c].got = work[c].got /\ work'[c].entries = work[c].entries
        BY <1>1, <3>1, <3>5 DEF WorkTypeOK, WorkRecord
      <4>2. job'[c].pc = "verifyrest"  BY <1>1, <3>1, <3>5 DEF JobTypeOK, JobRecord
      <4>3. job'[c].t = job[c].t  BY <1>1, <3>1, <3>5 DEF JobTypeOK, JobRecord
      <4> QED
        BY <1>1, <3>2, <4>1, <4>2, <4>3 DEF MinutesFit, Updating, PaidInVain, Expired
    <3> QED  BY <3>4, <3>5
  <2>4. CASE DropExpired(c)
    <3>1. PICK a \in work[c].todo :
            work' = [work EXCEPT ![c].todo = @ \ {a}, ![c].entries[a] = Absent]
      BY <2>4 DEF DropExpired
    <3>2. job[c].pc = "each" /\ UNCHANGED <<job, acl>> /\ Updating(c)
      BY <2>4 DEF DropExpired, Updating
    <3>3. /\ work'[c].todo = work[c].todo \ {a} /\ work'[c].cur = work[c].cur
          /\ work'[c].got = work[c].got
          /\ work'[c].entries = [work[c].entries EXCEPT ![a] = Absent]
      BY <1>1, <3>1 DEF WorkTypeOK, WorkRecord
    <3>4. work[c].cur = {}  BY <1>1, <3>2 DEF WorkFits
    <3>5. a \in Addr /\ work[c].got \in [Addr -> Int]  BY <1>1 DEF WorkRecord
    <3>6. work[c].got[a] = 0  BY <1>1, <3>5 DEF MinutesFit
    <3>7. work'[c].got = [work[c].got EXCEPT ![a] = 0]  BY <3>3, <3>5, <3>6
    <3>8. PaidInVain(c, a, 0)  BY DEF PaidInVain
    <3>9. UNCHANGED acl  BY <3>2
    <3> QED  BY <1>1, <3>2, <3>3, <3>4, <3>7, <3>8, <3>9, MinutesDropped
  <2>5. CASE VerifyRest(c)
    <3>1. PICK a \in work[c].cur :
            \/ /\ job' = [job EXCEPT ![c].pc = "each"]
               /\ work' = [work EXCEPT ![c].cur = {}, ![c].entries[a] = Absent]
            \/ /\ job' = [job EXCEPT ![c].pc = "drain"]
               /\ work' = [work EXCEPT
                             ![c].rest = Min({value[work[c].entries[a].rand],
                                              Due(work[c].entries[a], job[c].t)})]
      BY <2>5 DEF VerifyRest
    <3>2. UNCHANGED acl /\ Updating(c)  BY <2>5 DEF VerifyRest, Updating
    <3>3. CASE /\ job' = [job EXCEPT ![c].pc = "each"]
               /\ work' = [work EXCEPT ![c].cur = {}, ![c].entries[a] = Absent]
      <4>1. /\ work'[c].todo = work[c].todo /\ work'[c].cur = {}
            /\ work'[c].got = work[c].got
            /\ work'[c].entries = [work[c].entries EXCEPT ![a] = Absent]
        BY <1>1, <3>3 DEF WorkTypeOK, WorkRecord
      <4>2. job'[c].pc = "each" /\ job'[c].t = job[c].t
        BY <1>1, <3>3 DEF JobTypeOK, JobRecord
      <4>3. a \in Addr /\ work[c].got \in [Addr -> Int] /\ a \notin work[c].todo
        BY <1>1, <3>2 DEF WorkRecord, WorkFits
      <4>4. work[c].got[a] = 0  BY <1>1, <4>3 DEF MinutesFit
      <4>5. work'[c].got = [work[c].got EXCEPT ![a] = 0]  BY <4>1, <4>3, <4>4
      <4>6. PaidInVain(c, a, 0)  BY DEF PaidInVain
      <4>7. work'[c].todo \subseteq work[c].todo \ {a}  BY <4>1, <4>3
      <4> QED  BY <1>1, <3>2, <4>1, <4>2, <4>5, <4>6, <4>7, MinutesDropped
    <3>4. CASE /\ job' = [job EXCEPT ![c].pc = "drain"]
               /\ work' = [work EXCEPT
                             ![c].rest = Min({value[work[c].entries[a].rand],
                                              Due(work[c].entries[a], job[c].t)})]
      <4> DEFINE e == work[c].entries[a]
                 due == Due(e, job[c].t)
                 rest == Min({value[e.rand], due})
      <4>1. DataInv  BY DEF GateInv
      <4>2. /\ a \in Addr /\ e \in Entry /\ e.rand \in Rand /\ e.expire <= job[c].t
            /\ job[c].t \in Int
        BY <3>2, <4>1, ExpiredIsEntry
      <4>3. value[e.rand] \in Nat /\ due \in Nat
        BY <4>1, <4>2, DueIsNat DEF DataInv, SharedTypeOK
      <4>4. \A m, n \in Nat : Min({m, n}) \in 0..n
        <5>1. TAKE m, n \in Nat
        <5>2. \E x \in {m, n} : \A y \in {m, n} : x =< y  OBVIOUS
        <5>3. /\ Min({m, n}) \in {m, n}
              /\ \A y \in {m, n} : Min({m, n}) =< y
          BY <5>2 DEF Min
        <5> QED  BY <5>3
      <4>5. rest \in 0..due  BY <4>3, <4>4
      <4>6. e = acl[a]  BY <1>1, <3>2, <4>2 DEF MinutesFit
      <4>7. work' = [work EXCEPT ![c].rest = rest]  BY <3>4
      <4> HIDE DEF rest
      <4>8. /\ work'[c].todo = work[c].todo /\ work'[c].cur = work[c].cur
            /\ work'[c].got = work[c].got /\ work'[c].entries = work[c].entries
            /\ work'[c].rest = rest
        BY <1>1, <4>7 DEF WorkTypeOK, WorkRecord
      <4>9. job'[c].pc = "drain" /\ job'[c].t = job[c].t
        BY <1>1, <3>4 DEF JobTypeOK, JobRecord
      <4>10. \A x \in work[c].cur : x = a  BY <1>1 DEF WorkFits
      <4>11. \A b \in Addr : \A x : PaidInVain(c, b, x) <=> PaidInVain(c, b, x)'
        BY <3>2, <4>9 DEF PaidInVain, Expired
      <4>12. work'[c].rest \in 0..Due(acl[a], job'[c].t) /\ UNCHANGED acl
        BY <3>2, <4>5, <4>6, <4>8, <4>9
      <4> HIDE DEF e, due
      <4> QED
        BY <1>1, <3>2, <4>8, <4>9, <4>10, <4>11, <4>12 DEF MinutesFit, Updating
    <3> QED  BY <3>1, <3>3, <3>4
  <2>6. CASE DrainRest(c)
    <3>1. PICK a \in work[c].cur, o \in Outcomes :
            work' = [work EXCEPT
                       ![c].cur = {}, ![c].rest = 0, ![c].entries[a] = Absent,
                       ![c].got[a] = IF o = "paid" THEN @ + work[c].rest ELSE @]
      BY <2>6, Zenon DEF DrainRest
    <3>2. /\ UNCHANGED acl /\ Updating(c) /\ job[c].pc = "drain"
          /\ job' = [job EXCEPT ![c].pc = "each"]
      BY <2>6 DEF DrainRest, Updating
    <3> DEFINE g == IF o = "paid" THEN work[c].got[a] + work[c].rest ELSE work[c].got[a]
    <3>3. /\ work'[c].todo = work[c].todo /\ work'[c].cur = {}
          /\ work'[c].got = [work[c].got EXCEPT ![a] = g]
          /\ work'[c].entries = [work[c].entries EXCEPT ![a] = Absent]
      BY <1>1, <3>1 DEF WorkTypeOK, WorkRecord
    <3>4. job'[c].pc = "each" /\ job'[c].t = job[c].t
      BY <1>1, <3>2 DEF JobTypeOK, JobRecord
    <3>5. a \in Addr /\ a \notin work[c].todo  BY <1>1, <3>2 DEF WorkRecord, WorkFits
    <3>6. PaidInVain(c, a, g)
      <4>1. DataInv  BY DEF GateInv
      <4>2. /\ work[c].entries[a] # Absent /\ work[c].entries[a].expire <= job[c].t
        BY <3>2, <4>1, ExpiredIsEntry
      <4>3. /\ work[c].got[a] = 0 /\ work[c].entries[a] = acl[a]
            /\ work[c].rest \in 0..Due(acl[a], job[c].t)
        BY <1>1, <3>2, <3>5 DEF MinutesFit
      <4>4. a \in Expired(acl, job[c].t)  BY <3>5, <4>2, <4>3 DEF Expired
      <4>5. g = 0 \/ g = work[c].rest  BY <4>3
      <4> HIDE DEF g
      <4> QED  BY <4>3, <4>4, <4>5 DEF PaidInVain
    <3> HIDE DEF g
    <3>7. work'[c].todo \subseteq work[c].todo \ {a}  BY <3>3, <3>5
    <3> QED  BY <1>1, <3>2, <3>3, <3>4, <3>6, <3>7, MinutesDropped
  <2>7. CASE Replace(c)
    <3>1. /\ work' = [work EXCEPT ![c] = NoWork]
          /\ \E to \in {"rules", "idle"} : job' = [job EXCEPT ![c].pc = to]
      BY <2>7 DEF Replace, Die
    <3>2. work'[c] = NoWork /\ job'[c].pc \in {"rules", "idle"}
      BY <1>1, <3>1 DEF WorkTypeOK, JobTypeOK, JobRecord
    <3> QED  BY <3>2 DEF MinutesFit, Updating, NoWork
  <2> QED  BY <1>9, <2>1, <2>2, <2>3, <2>4, <2>5, <2>6, <2>7 DEF CronNext
<1> QED  BY <1>4, <1>5, <1>6, <1>7, <1>8, <1>9 DEF Next

\* While expire-rules updates the table, every entry in it has gained exactly the
\* minutes that its rand has paid, and one that is dropped has paid for no more than
\* the minutes that had passed.
THEOREM MinutesArePaidHolds == Spec => []MinutesArePaid
<1>1. Init => MinutesInv
  <2>1. \A c \in Cron : c \in Proc  BY DEF Proc
  <2> QED
    BY <2>1 DEF Init, JobInit, WorkInit, NoJob, NoWork, MinutesInv, MinutesFit, Updating
<1>2. MinutesInv => MinutesArePaid
  BY DEF MinutesInv, MinutesFit, PaidInVain, MinutesArePaid
<1> QED  BY <1>1, <1>2, MinutesStep, GateInvariance, PTL DEF Spec

----------------------------------------------------------------------------
(* What takepayment draws.                                                  *)

\* The payments that have been left to takepayment.
Started == {p \in Script : pay[p] # NoPay}

\* Which of them are for per-minute access, and which for long.
PriceFits(q) ==
  \/ q.type = "acl" /\ q.amount = Tariff /\ q.dt = Day
  \/ q.type = "local" /\ q.amount = Price /\ q.dt = Span

\* They are finitely many, each is for the price of what it pays, and a script
\* starts one when it is done with the acls.
StartedFit ==
  /\ IsFiniteSet(Started)
  /\ \A p \in Started : PriceFits(pay[p])
  /\ \A p \in Started : job[p].pc \in {"rules", "rules2", "done"}

MoneyInv == StartedFit /\ MoneyIsAccounted

\* A payment goes on: what it is for does not change.
PayMoves(p) ==
  /\ pay[p] # NoPay /\ pay'[p] # NoPay
  /\ \A q \in Script : q # p => pay'[q] = pay[q]
  /\ pay'[p].type = pay[p].type /\ pay'[p].addr = pay[p].addr /\ pay'[p].dt = pay[p].dt
  /\ pay'[p].rand = pay[p].rand /\ pay'[p].amount = pay[p].amount

\* What a script has started is a payment.
LEMMA StartedIsPayment ==
  ASSUME PayInv, NEW p \in Script
  PROVE  /\ pay[p] # NoPay => pay[p] \in PayRecord
         /\ pay[p].draw # "none" => pay[p] # NoPay
         /\ pay[p].old # "end" => pay[p] # NoPay
  BY DEF PayInv, PayTypeOK, NoPay, Proc

\* A payment goes on.
LEMMA PaymentGoes ==
  ASSUME PayInv, NEW p \in Script, pay[p] # NoPay, NEW new,
         pay' = [pay EXCEPT ![p] = new], new.draw # "none",
         new.type = pay[p].type, new.addr = pay[p].addr, new.dt = pay[p].dt,
         new.rand = pay[p].rand, new.amount = pay[p].amount
  PROVE  PayMoves(p) /\ pay'[p] = new
<1>1. pay'[p] = new /\ \A q \in Script : q # p => pay'[q] = pay[q]
  BY DEF PayInv, PayTypeOK, Proc
<1>2. new # NoPay  BY DEF NoPay
<1> QED  BY <1>1, <1>2 DEF PayMoves

\* It goes on to draw or to roll back.
LEMMA DrawMoves ==
  ASSUME PayInv, NEW p \in Script, pay[p].draw # "none", NEW to, to # "none",
         \/ DrawGoesTo(p, to)
         \/ pay' = [pay EXCEPT ![p].draw = to]
         \/ pay' = [pay EXCEPT ![p].draw = to, ![p].old = "end"]
  PROVE  PayMoves(p) /\ pay'[p].draw = to
<1>1. pay[p] # NoPay /\ pay[p] \in PayRecord  BY StartedIsPayment
<1>2. CASE DrawGoesTo(p, to)
  <2> DEFINE new == [pay[p] EXCEPT !.draw = to, !.turn = Turn(to, pay[p].old, 1)]
  <2>1. pay' = [pay EXCEPT ![p] = new]  BY <1>2 DEF DrawGoesTo
  <2>2. /\ new.draw = to /\ new.type = pay[p].type /\ new.addr = pay[p].addr
        /\ new.dt = pay[p].dt /\ new.rand = pay[p].rand /\ new.amount = pay[p].amount
    BY <1>1 DEF PayRecord
  <2> HIDE DEF new
  <2> QED  BY <1>1, <2>1, <2>2, PaymentGoes
<1>3. CASE pay' = [pay EXCEPT ![p].draw = to]
  <2> DEFINE new == [pay[p] EXCEPT !.draw = to]
  <2>1. pay' = [pay EXCEPT ![p] = new]  BY <1>3
  <2>2. /\ new.draw = to /\ new.type = pay[p].type /\ new.addr = pay[p].addr
        /\ new.dt = pay[p].dt /\ new.rand = pay[p].rand /\ new.amount = pay[p].amount
    BY <1>1 DEF PayRecord
  <2> HIDE DEF new
  <2> QED  BY <1>1, <2>1, <2>2, PaymentGoes
<1>4. CASE pay' = [pay EXCEPT ![p].draw = to, ![p].old = "end"]
  <2> DEFINE new == [pay[p] EXCEPT !.draw = to, !.old = "end"]
  <2>1. pay' = [pay EXCEPT ![p] = new]  BY <1>4
  <2>2. /\ new.draw = to /\ new.type = pay[p].type /\ new.addr = pay[p].addr
        /\ new.dt = pay[p].dt /\ new.rand = pay[p].rand /\ new.amount = pay[p].amount
    BY <1>1 DEF PayRecord
  <2> HIDE DEF new
  <2> QED  BY <1>1, <2>1, <2>2, PaymentGoes
<1> QED  BY <1>2, <1>3, <1>4

\* It goes on with the old rand.
LEMMA OldMoves ==
  ASSUME PayInv, NEW p \in Script, pay[p].old # "end", NEW to, NEW v, OldGoesTo(p, to, v)
  PROVE  PayMoves(p) /\ pay'[p].draw = pay[p].draw
<1>1. pay[p] # NoPay /\ pay[p] \in PayRecord  BY StartedIsPayment
<1> DEFINE new == [pay[p] EXCEPT !.old = to, !.oldvalue = v,
                                 !.turn = Turn(pay[p].draw, to, 2)]
<1>2. pay' = [pay EXCEPT ![p] = new]  BY DEF OldGoesTo
<1>3. /\ new.draw = pay[p].draw /\ new.type = pay[p].type /\ new.addr = pay[p].addr
      /\ new.dt = pay[p].dt /\ new.rand = pay[p].rand /\ new.amount = pay[p].amount
      /\ new.draw # "none"
  BY <1>1 DEF PayRecord, Drawn, Over
<1> HIDE DEF new
<1> QED  BY <1>1, <1>2, <1>3, PaymentGoes

\* What takepayment does to the payment and to the seller's account.
LEMMA PayStepMoves ==
  ASSUME DataInv, NEW p \in Script, TakePaymentNext(p)
  PROVE  /\ PayMoves(p) /\ UNCHANGED job
         /\ \/ /\ pay[p].draw = "draw"
               /\ \E o \in Outcomes :
                    /\ PaySeller(pay[p].rand, pay[p].amount, o, FALSE)
                    /\ pay'[p].draw = CASE o = "paid" -> "paid"
                                         [] o = "refused" -> "rollback"
                                         [] OTHER -> "draw"
            \/ /\ UNCHANGED <<till, unheard, charged>>
               /\ \/ pay'[p].draw = pay[p].draw
                  \/ pay[p].draw \in {"rollback", "rollback2"} /\ pay'[p].draw # "paid"
<1> USE DEF At, issuerVars
<1>1. PayInv  BY DEF DataInv
<1>2. CASE Draw(p)
  <2>1. PICK o \in Outcomes :
          /\ PaySeller(pay[p].rand, pay[p].amount, o, FALSE)
          /\ DrawGoesTo(p, CASE o = "paid" -> "paid"
                             [] o = "refused" -> "rollback"
                             [] OTHER -> "draw")
    BY <1>2 DEF Draw
  <2> DEFINE to == CASE o = "paid" -> "paid" [] o = "refused" -> "rollback" [] OTHER -> "draw"
  <2>2. to # "none" /\ DrawGoesTo(p, to)  BY <2>1
  <2>3. pay[p].draw = "draw" /\ UNCHANGED job  BY <1>2 DEF Draw
  <2> HIDE DEF to
  <2>4. PayMoves(p) /\ pay'[p].draw = to  BY <1>1, <2>2, <2>3, DrawMoves
  <2> QED  BY <2>1, <2>3, <2>4 DEF to
<1>3. CASE RollbackLocal(p) \/ RollbackAcl(p) \/ RollbackAclUpdate(p)
  <2>1. /\ pay[p].draw \in {"rollback", "rollback2"}
        /\ UNCHANGED <<till, unheard, charged, job>>
        /\ \E to \in {"rollback", "rollback2", "undone", "dead"} :
             \/ DrawGoesTo(p, to)
             \/ pay' = [pay EXCEPT ![p].draw = to]
             \/ pay' = [pay EXCEPT ![p].draw = to, ![p].old = "end"]
    BY <1>3 DEF RollbackLocal, RollbackAcl, RollbackAclUpdate
  <2> QED  BY <1>1, <2>1, DrawMoves
<1>4. CASE VerifyOld(p) \/ DrawOld(p)
  <2>1. pay[p].old # "end" /\ UNCHANGED job
        /\ \E to \in {"verifyold", "drawold", "end"} : \E v : OldGoesTo(p, to, v)
    BY <1>4 DEF VerifyOld, DrawOld
  <2>2. PayMoves(p) /\ pay'[p].draw = pay[p].draw  BY <1>1, <2>1, OldMoves
  <2>3. UNCHANGED <<till, unheard, charged>>
    BY <1>4 DEF VerifyOld, DrawOld, PayRand, Transfer
  <2> QED  BY <2>1, <2>2, <2>3
<1> QED  BY <1>2, <1>3, <1>4 DEF TakePaymentNext

\* What the seller has been paid for the payments that are known to be drawn.
Heard == till - unheard - charged

\* What the seller has, and has not been paid unheard or for minutes, changes when a
\* payment is drawn, by its amount.
LEMMA SellerHas ==
  ASSUME till \in Nat, unheard \in Nat, charged \in Nat, NEW r, NEW v \in Nat,
         NEW o \in Outcomes, NEW minutes \in BOOLEAN, PaySeller(r, v, o, minutes)
  PROVE  Heard' = Heard + IF ~minutes /\ o = "paid" /\ r # Seller THEN v ELSE 0
<1>1. CASE UNCHANGED issuerVars /\ (o \notin {"paid", "lost"} \/ r = Seller)
  BY <1>1 DEF issuerVars, Heard
<1>2. CASE /\ o \in {"paid", "lost"} /\ r # Seller /\ till' = till + v
           /\ unheard' = IF o = "lost" THEN unheard + v ELSE unheard
           /\ charged' = IF minutes /\ o = "paid" THEN charged + v ELSE charged
  BY <1>2 DEF Heard
<1> QED  BY <1>1, <1>2 DEF PaySeller, Transfer

\* Minutes that are charged, and what is not heard to be paid, do not count.
LEMMA SellerHasNoMore ==
  ASSUME till \in Nat, unheard \in Nat, charged \in Nat, NEW r, NEW v \in Nat,
         NEW o \in Outcomes, NEW minutes \in BOOLEAN, PaySeller(r, v, o, minutes),
         minutes \/ o # "paid" \/ r = Seller
  PROVE  Heard' = Heard
<1>1. Heard' = Heard + 0  BY SellerHas
<1>2. Heard \in Int  BY DEF Heard
<1> QED  BY <1>1, <1>2

\* The payments taken for drawn are some of the payments started.
LEMMA TakenIsFinite ==
  ASSUME IsFiniteSet(Started), NEW type
  PROVE  IsFiniteSet(Taken(type)) /\ Cardinality(Taken(type)) \in Nat
<1>1. Taken(type) \in SUBSET Started  BY DEF Taken, Started
<1> QED  BY <1>1, FS_Subset, FS_CardinalityType

\* The seller's account follows what he is paid.
LEMMA BalanceStep ==
  ASSUME till \in Nat, unheard \in Nat, charged \in Nat,
         till' \in Nat, unheard' \in Nat, charged' \in Nat,
         NEW s, s \in Int, NEW v, v \in Int,
         till = s + unheard + charged, Heard' = Heard + v
  PROVE  till' = (s + v) + unheard' + charged'
<1>1. PICK t \in Int, u \in Int, c \in Int, t2 \in Int, u2 \in Int, c2 \in Int,
           n \in Int, k \in Int :
        /\ t = till /\ u = unheard /\ c = charged
        /\ t2 = till' /\ u2 = unheard' /\ c2 = charged' /\ n = s /\ k = v
  OBVIOUS
<1>2. t2 - u2 - c2 = t - u - c + k /\ t = n + u + c  BY <1>1 DEF Heard
<1>3. t2 = (n + k) + u2 + c2  BY <1>2
<1> QED  BY <1>1, <1>3

\* A step that takes no payment for drawn.
LEMMA NothingTaken ==
  ASSUME DataInv, DataInv', MoneyInv, IsFiniteSet(Started'),
         \A type : Taken(type)' = Taken(type),
         Heard' = Heard
  PROVE  MoneyIsAccounted'
<1>1. /\ till \in Nat /\ unheard \in Nat /\ charged \in Nat
      /\ till' \in Nat /\ unheard' \in Nat /\ charged' \in Nat
  BY DEF DataInv, SharedTypeOK
<1>2. IsFiniteSet(Started)  BY DEF MoneyInv, StartedFit
<1> DEFINE m == Cardinality(Taken("acl"))
           n == Cardinality(Taken("local"))
<1>3. m \in Nat /\ n \in Nat /\ Tariff \in Nat /\ Price \in Nat
  BY <1>2, TakenIsFinite, GateAssumption
<1>4. till = Tariff * m + Price * n + unheard + charged
  BY DEF MoneyInv, MoneyIsAccounted
<1>5. m' = m /\ n' = n  OBVIOUS
<1> HIDE DEF m, n
<1>6. till' = Tariff * m + Price * n + unheard' + charged'
  <2> DEFINE s == Tariff * m + Price * n
  <2>1. s \in Int /\ till = s + unheard + charged  BY <1>1, <1>3, <1>4
  <2> HIDE DEF s
  <2>2. PICK t \in Int, u \in Int, c \in Int, t2 \in Int, u2 \in Int, c2 \in Int, k \in Int :
          /\ t = till /\ u = unheard /\ c = charged
          /\ t2 = till' /\ u2 = unheard' /\ c2 = charged' /\ k = s
    BY <1>1, <2>1
  <2>3. t2 - u2 - c2 = t - u - c /\ t = k + u + c  BY <2>1, <2>2 DEF Heard
  <2>4. t2 = k + u2 + c2  BY <2>3
  <2>5. till' = s + unheard' + charged'  BY <2>2, <2>4
  <2> QED  BY <2>5 DEF s
<1> QED  BY <1>5, <1>6 DEF MoneyIsAccounted, m, n

\* A payment is taken for drawn.
LEMMA OneTaken ==
  ASSUME DataInv, DataInv', MoneyInv, NEW p \in Started, PayMoves(p),
         pay[p].draw = "draw", pay'[p].draw = "paid", pay[p].rand # Seller,
         Heard' = Heard + pay[p].amount
  PROVE  MoneyIsAccounted'
<1>1. /\ till \in Nat /\ unheard \in Nat /\ charged \in Nat
      /\ till' \in Nat /\ unheard' \in Nat /\ charged' \in Nat
  BY DEF DataInv, SharedTypeOK
<1>2. IsFiniteSet(Started) /\ PriceFits(pay[p]) /\ p \in Script
  BY DEF MoneyInv, StartedFit, Started
<1> DEFINE m == Cardinality(Taken("acl"))
           n == Cardinality(Taken("local"))
<1>3. m \in Nat /\ n \in Nat /\ Tariff \in Nat /\ Price \in Nat
  BY <1>2, TakenIsFinite, GateAssumption
<1>4. till = Tariff * m + Price * n + unheard + charged
  BY DEF MoneyInv, MoneyIsAccounted
<1>5. \A type : p \notin Taken(type)
                /\ Taken(type)' = IF type = pay[p].type THEN Taken(type) \cup {p}
                                  ELSE Taken(type)
  BY <1>2 DEF PayMoves, Taken, Started
<1>6. \A type : Cardinality(Taken(type)') = IF type = pay[p].type THEN Cardinality(Taken(type)) + 1
                                            ELSE Cardinality(Taken(type))
  BY <1>2, <1>5, TakenIsFinite, FS_AddElement
<1> DEFINE s == Tariff * m + Price * n
<1>7. s \in Int /\ till = s + unheard + charged  BY <1>1, <1>3, <1>4
<1>8. CASE pay[p].type = "acl" /\ pay[p].amount = Tariff
  <2>1. m' = m + 1 /\ n' = n  BY <1>6, <1>8
  <2>2. s + Tariff = Tariff * (m + 1) + Price * n  BY <1>3
  <2> HIDE DEF m, n, s
  <2>3. Tariff \in Int /\ Heard' = Heard + Tariff  BY <1>3, <1>8
  <2>4. till' = (s + Tariff) + unheard' + charged'  BY <1>1, <1>7, <2>3, BalanceStep
  <2> QED  BY <2>1, <2>2, <2>4 DEF MoneyIsAccounted, m, n
<1>9. CASE pay[p].type = "local" /\ pay[p].amount = Price
  <2>1. m' = m /\ n' = n + 1  BY <1>6, <1>9
  <2>2. s + Price = Tariff * m + Price * (n + 1)  BY <1>3
  <2> HIDE DEF m, n, s
  <2>3. Price \in Int /\ Heard' = Heard + Price  BY <1>3, <1>9
  <2>4. till' = (s + Price) + unheard' + charged'  BY <1>1, <1>7, <2>3, BalanceStep
  <2> QED  BY <2>1, <2>2, <2>4 DEF MoneyIsAccounted, m, n
<1> QED  BY <1>2, <1>8, <1>9 DEF PriceFits

\* A script starts a payment when it has given the time, and is done with the acls.
SpawnMoves(p) ==
  /\ job[p].pc = "spawn" /\ job[p].kind \in Payments
  /\ Others(p) /\ job'[p].pc \in {"rules", "done"}
  /\ pay[p] = NoPay /\ pay'[p] # NoPay /\ pay'[p].draw = "draw" /\ PriceFits(pay'[p])
  /\ pay'[p].addr = job[p].addr
  /\ pay'[p].type = IF job[p].kind = "grant" THEN "acl" ELSE "local"
  /\ \A q \in Script : q # p => pay'[q] = pay[q]

\* A script starts one payment.
LEMMA SpawnEffect ==
  ASSUME DataInv, StartedFit, NEW p \in Script, Spawn(p)
  PROVE  SpawnMoves(p)
<1>1. /\ p \in Proc /\ JobTypeOK /\ PayTypeOK /\ job[p].pc = "spawn"
      /\ job[p].kind \in Payments
  BY DEF Proc, DataInv, JobInv, JobFits, PayInv, Spawn
<1>2. pay[p] = NoPay  BY <1>1 DEF StartedFit, Started
<1>3. Others(p) /\ job'[p].pc \in {"rules", "done"}
  <2>1. Exit(p) \/ Goto(p, "spawn", "rules")  BY DEF Spawn
  <2>2. "rules" \in PCs  BY DEF PCs
  <2>3. CASE Exit(p)  BY <1>1, <2>3, ExitEffect
  <2>4. CASE Goto(p, "spawn", "rules")  BY <1>1, <2>2, <2>4, GotoEffect
  <2> QED  BY <2>1, <2>3, <2>4
<1> DEFINE type == IF job[p].kind = "grant" THEN "acl" ELSE "local"
           dt == IF job[p].kind = "grant" THEN Day ELSE Span
           v == IF job[p].kind = "grant" THEN Tariff ELSE Price
           old == IF job[p].kind = "grant" THEN job[p].oldrand ELSE NoRand
           new == [draw |-> "draw", old |-> "verifyold", turn |-> 1, type |-> type,
                   addr |-> job[p].addr, dt |-> dt, rand |-> job[p].rand, amount |-> v,
                   oldrand |-> old, oldvalue |-> -1, t |-> now]
<1>4. pay' = [pay EXCEPT ![p] = new]  BY DEF Spawn, TakePayment
<1>5. /\ new.draw = "draw" /\ new.addr = job[p].addr /\ new.type = type /\ PriceFits(new)
      /\ new # NoPay
  BY DEF PriceFits, NoPay
<1> HIDE DEF new
<1>6. pay'[p] = new /\ \A q \in Script : q # p => pay'[q] = pay[q]
  BY <1>1, <1>4 DEF PayTypeOK, Proc
<1> QED  BY <1>1, <1>2, <1>3, <1>5, <1>6 DEF SpawnMoves

\* What starts no payment and goes on with none.
LEMMA PaymentsRest ==
  ASSUME GateInv, StartedFit,
         \/ Tick
         \/ \E p \in Script : \/ Call(p) /\ UNCHANGED work
                              \/ ScriptStep(p) /\ ~Spawn(p)
         \/ \E c \in Cron : CronNext(c)
         \/ \E p \in Proc : RulesStep(p)
  PROVE  UNCHANGED pay /\ \A q \in Started : job'[q].pc \in {"rules", "rules2", "done"}
<1> USE DEF aclVars, tableVars, ruleVars, issuerVars
<1>1. DataInv /\ JobInv /\ JobTypeOK /\ acl \in Acl /\ now \in 0..MaxTime
  BY DEF GateInv, DataInv, JobInv, SharedTypeOK
<1>2. \A q \in Started : /\ q \in Script /\ q \in Proc /\ q \notin Cron
                         /\ job[q].pc \in {"rules", "rules2", "done"}
  BY GateAssumption DEF StartedFit, Started, Proc
<1>3. CASE Tick  BY <1>2, <1>3 DEF Tick
<1>4. ASSUME NEW p \in Script, Call(p)
      PROVE  UNCHANGED pay /\ \A q \in Started : job'[q].pc \in {"rules", "rules2", "done"}
  <2>1. p \in Proc  BY DEF Proc
  <2>2. Others(p) /\ job[p].pc = "idle"  BY <1>1, <1>4, <2>1, CallEffect
  <2>3. UNCHANGED pay  BY <1>4 DEF Call
  <2> QED  BY <1>2, <2>2, <2>3 DEF Others
<1>5. ASSUME NEW p \in Script, ScriptStep(p), ~Spawn(p)
      PROVE  UNCHANGED pay /\ \A q \in Started : job'[q].pc \in {"rules", "rules2", "done"}
  <2>1. Others(p)  BY <1>1, <1>5, ScriptMovesHold DEF ScriptStep, ScriptMoves
  <2>2. UNCHANGED pay /\ job[p].pc \notin {"rules", "rules2", "done"}
    <3>1. CASE ExtraAccess(p)  BY <3>1 DEF ExtraAccess
    <3>2. CASE ReadAcl(p)  BY <3>2 DEF ReadAcl
    <3>3. CASE Verify(p)  BY <3>3 DEF Verify
    <3>4. CASE TopupExtra(p)  BY <3>4 DEF TopupExtra, Goto
    <3>5. CASE TopupAcl(p)  BY <3>5 DEF TopupAcl, Goto
    <3>6. CASE TopupLocal(p)  BY <3>6 DEF TopupLocal, Goto
    <3>7. CASE DropEntry(p)  BY <3>7 DEF DropEntry, Goto
    <3>8. CASE RemoveLocal(p)  BY <3>8 DEF RemoveLocal, Goto
    <3> QED
      BY <1>5, <3>1, <3>2, <3>3, <3>4, <3>5, <3>6, <3>7, <3>8 DEF ScriptStep, ScriptNext
  <2> QED  BY <1>2, <2>1, <2>2 DEF Others
<1>6. ASSUME NEW c \in Cron, CronNext(c)
      PROVE  UNCHANGED pay /\ \A q \in Started : job'[q].pc \in {"rules", "rules2", "done"}
  <2>1. CronStep(c)
    BY <1>1, <1>6, CronOutsideEffect, BeginUpdateEffect, CronInsideEffect, ReplaceEffect
    DEF CronNext, CronStep
  <2>2. \A q \in Proc : q # c => job'[q].pc = job[q].pc
    BY <2>1 DEF CronStep, FreeStep, EnterStep, InnerStep, ReplaceStep
  <2>3. UNCHANGED pay
    BY <1>6
    DEF CronNext, Begin, Refresh, NeedsUpdate, ExtraEntries, BeginUpdate, DropExpired,
        Charge, VerifyRest, DrainRest, Replace
  <2> QED  BY <1>2, <2>2, <2>3
<1>7. ASSUME NEW p \in Proc, RulesStep(p)
      PROVE  UNCHANGED pay /\ \A q \in Started : job'[q].pc \in {"rules", "rules2", "done"}
  <2>1. UNCHANGED pay /\ Others(p)
        /\ (p \in Script => job'[p].pc \in {"rules2", "done"})
    <3>1. CASE RulesFilter(p)
      <4>1. Goto(p, "rules", "rules2") /\ "rules2" \in PCs  BY <3>1 DEF RulesFilter, PCs
      <4>2. Others(p) /\ job'[p].pc = "rules2"  BY <1>1, <4>1, GotoEffect
      <4> QED  BY <3>1, <4>2 DEF RulesFilter
    <3>2. CASE RulesRedirect(p)
      <4>1. Exit(p) \/ (Goto(p, "rules2", "idle") /\ p \in Cron)
        BY <3>2 DEF RulesRedirect
      <4>2. "idle" \in PCs /\ (p \in Cron => p \notin Script)  BY GateAssumption DEF PCs
      <4>3. Others(p) /\ (p \in Script => job'[p].pc = "done")
        BY <1>1, <4>1, <4>2, GotoEffect, ExitEffect
      <4> QED  BY <3>2, <4>3 DEF RulesRedirect
    <3> QED  BY <1>7, <3>1, <3>2 DEF RulesStep, UpdateRules
  <2> QED  BY <1>2, <2>1 DEF Others
<1> QED  BY <1>3, <1>4, <1>5, <1>6, <1>7


\* A payment is started only by a script that is done with the acls.
LEMMA StartedFitStep ==
  ASSUME GateInv, StartedFit, [Next]_vars
  PROVE  StartedFit'
<1> USE DEF Started
<1>1. DataInv /\ IsFiniteSet(Started)  BY DEF GateInv, StartedFit
<1>2. ASSUME UNCHANGED pay, \A q \in Started : job'[q].pc \in {"rules", "rules2", "done"}
      PROVE  StartedFit'
  <2>1. Started' = Started  BY <1>2
  <2> QED  BY <1>1, <1>2, <2>1 DEF StartedFit, PriceFits
<1>3. CASE UNCHANGED vars  BY <1>2, <1>3 DEF vars, StartedFit
<1>4. ASSUME NEW p \in Script, ScriptStep(p), Spawn(p) PROVE StartedFit'
  <2>1. SpawnMoves(p)  BY <1>1, <1>4, SpawnEffect
  <2>2. Started' = Started \cup {p}  BY <2>1 DEF SpawnMoves
  <2>3. IsFiniteSet(Started')  BY <1>1, <2>2, FS_AddElement
  <2>4. \A q \in Script : q # p => /\ pay'[q] = pay[q] /\ job'[q] = job[q]
    BY <2>1 DEF SpawnMoves, Others, Proc
  <2>5. \A q \in Started' : PriceFits(pay'[q]) /\ job'[q].pc \in {"rules", "rules2", "done"}
    BY <2>1, <2>2, <2>4 DEF StartedFit, SpawnMoves
  <2> QED  BY <2>3, <2>5 DEF StartedFit, PriceFits
<1>5. ASSUME NEW p \in Script, PayStep(p) PROVE StartedFit'
  <2>1. PayMoves(p) /\ UNCHANGED job  BY <1>1, <1>5, PayStepMoves DEF PayStep
  <2>2. Started' = Started  BY <2>1 DEF PayMoves
  <2>3. \A q \in Started : PriceFits(pay'[q])
    BY <2>1 DEF StartedFit, PayMoves, PriceFits
  <2> QED  BY <1>1, <2>1, <2>2, <2>3 DEF StartedFit, PriceFits
<1> QED  BY <1>2, <1>3, <1>4, <1>5, PaymentsRest DEF Next

\* The seller's account is left alone, or minutes are charged.
LEMMA OthersPay ==
  ASSUME GateInv,
         \/ Tick
         \/ \E p \in Script : Call(p) \/ ScriptStep(p)
         \/ \E c \in Cron : CronNext(c)
         \/ \E p \in Proc : RulesStep(p)
  PROVE  Heard' = Heard
<1> DEFINE goal == Heard' = Heard
<1> USE DEF issuerVars
<1>1. DataInv /\ WorkInv /\ till \in Nat /\ unheard \in Nat /\ charged \in Nat
  BY DEF GateInv, DataInv, SharedTypeOK
<1>2. ASSUME UNCHANGED issuerVars PROVE goal  BY <1>2 DEF Heard
<1>3. CASE Tick  BY <1>2, <1>3 DEF Tick
<1>4. ASSUME NEW p \in Script, Call(p) PROVE goal  BY <1>2, <1>4 DEF Call
<1>5. ASSUME NEW p \in Script, ScriptStep(p) PROVE goal
  <2>1. UNCHANGED issuerVars
    BY <1>5
    DEF ScriptStep, ScriptNext, ExtraAccess, ReadAcl, Verify, TopupExtra, TopupAcl,
        TopupLocal, Spawn, DropEntry, RemoveLocal
  <2> QED  BY <1>2, <2>1
<1>6. ASSUME NEW p \in Proc, RulesStep(p) PROVE goal
  BY <1>2, <1>6 DEF RulesStep, UpdateRules, RulesFilter, RulesRedirect
<1>7. ASSUME NEW c \in Cron, CronNext(c) PROVE goal
  <2>1. CASE Charge(c)
    <3>1. PICK a \in work[c].todo, o \in Outcomes :
            PaySeller(work[c].entries[a].rand, Due(work[c].entries[a], job[c].t), o, TRUE)
      BY <2>1 DEF Charge
    <3>2. Updating(c)  BY <2>1 DEF Charge, Updating
    <3>3. Due(work[c].entries[a], job[c].t) \in Nat
      BY <1>1, <3>2, ExpiredIsEntry, DueIsNat
    <3> QED  BY <1>1, <3>1, <3>3, SellerHasNoMore
  <2>2. CASE DrainRest(c)
    <3>1. PICK a \in work[c].cur, o \in Outcomes :
            PaySeller(work[c].entries[a].rand, work[c].rest, o, TRUE)
      BY <2>2 DEF DrainRest
    <3>2. work[c].rest \in Nat  BY <1>1 DEF WorkInv, WorkFits
    <3> QED  BY <1>1, <3>1, <3>2, SellerHasNoMore
  <2>3. CASE UNCHANGED issuerVars  BY <1>2, <2>3
  <2> QED
    BY <1>7, <2>1, <2>2, <2>3
    DEF CronNext, Begin, Refresh, NeedsUpdate, ExtraEntries, BeginUpdate, DropExpired,
        VerifyRest, Replace
<1> QED  BY <1>3, <1>4, <1>5, <1>6, <1>7

\* Every step keeps the seller's account in order.
LEMMA MoneyStep == GateInv /\ GateInv' /\ MoneyInv /\ [Next]_vars => MoneyInv'
<1> SUFFICES ASSUME GateInv, GateInv', MoneyInv, [Next]_vars PROVE MoneyInv'  OBVIOUS
<1>1. DataInv /\ DataInv' /\ StartedFit /\ SharedTypeOK  BY DEF GateInv, DataInv, MoneyInv
<1>2. StartedFit' /\ IsFiniteSet(Started')
  <2>1. StartedFit'  BY <1>1, StartedFitStep
  <2> QED  BY <2>1 DEF StartedFit
<1>3. till \in Nat /\ unheard \in Nat /\ charged \in Nat /\ Heard \in Int
  BY <1>1 DEF SharedTypeOK, Heard
<1> SUFFICES MoneyIsAccounted'  BY <1>2 DEF MoneyInv
<1>4. ASSUME UNCHANGED pay, Heard' = Heard
      PROVE  MoneyIsAccounted'
  <2>1. \A type : Taken(type)' = Taken(type)  BY <1>4 DEF Taken
  <2> QED  BY <1>1, <1>2, <1>4, <2>1, NothingTaken
<1>5. CASE UNCHANGED vars
  BY <1>4, <1>5 DEF vars, issuerVars, Heard
<1>6. ASSUME NEW p \in Script, ScriptStep(p), Spawn(p) PROVE MoneyIsAccounted'
  <2>1. SpawnMoves(p)  BY <1>1, <1>6, SpawnEffect
  <2>2. \A type : Taken(type)' = Taken(type)  BY <2>1 DEF SpawnMoves, Taken
  <2>3. Heard' = Heard  BY <1>6, OthersPay
  <2> QED  BY <1>1, <1>2, <2>2, <2>3, NothingTaken
<1>7. ASSUME NEW p \in Script, PayStep(p) PROVE MoneyIsAccounted'
  <2>1. /\ PayMoves(p)
        /\ \/ /\ pay[p].draw = "draw"
              /\ \E o \in Outcomes :
                   /\ PaySeller(pay[p].rand, pay[p].amount, o, FALSE)
                   /\ pay'[p].draw = CASE o = "paid" -> "paid"
                                        [] o = "refused" -> "rollback"
                                        [] OTHER -> "draw"
           \/ /\ UNCHANGED <<till, unheard, charged>>
              /\ \/ pay'[p].draw = pay[p].draw
                 \/ pay[p].draw \in {"rollback", "rollback2"} /\ pay'[p].draw # "paid"
    BY <1>1, <1>7, PayStepMoves DEF PayStep
  <2>2. p \in Started /\ pay[p] # NoPay  BY <2>1 DEF PayMoves, Started
  <2>3. ((pay[p].draw # "paid" /\ pay'[p].draw # "paid") \/ pay'[p].draw = pay[p].draw
         \/ pay[p].rand = Seller) => \A type : Taken(type)' = Taken(type)
    BY <2>1, <2>2 DEF PayMoves, Taken
  <2>4. ASSUME NEW o \in Outcomes, pay[p].draw = "draw",
               PaySeller(pay[p].rand, pay[p].amount, o, FALSE),
               pay'[p].draw = CASE o = "paid" -> "paid"
                                [] o = "refused" -> "rollback"
                                [] OTHER -> "draw"
        PROVE  MoneyIsAccounted'
    <3>1. pay[p].amount \in Nat  BY <1>1, <2>4, PaymentIsOne DEF DataInv
    <3>2. Heard' = Heard + IF o = "paid" /\ pay[p].rand # Seller THEN pay[p].amount ELSE 0
      BY <1>3, <2>4, <3>1, SellerHas
    <3>3. CASE o = "paid" /\ pay[p].rand # Seller
      BY <1>1, <2>1, <2>2, <2>4, <3>2, <3>3, OneTaken
    <3>4. CASE ~(o = "paid" /\ pay[p].rand # Seller)
      <4>1. Heard' = Heard  BY <1>3, <3>2, <3>4
      <4>2. \A type : Taken(type)' = Taken(type)  BY <2>3, <2>4, <3>4
      <4> QED  BY <1>1, <1>2, <4>1, <4>2, NothingTaken
    <3> QED  BY <3>3, <3>4
  <2>5. ASSUME UNCHANGED <<till, unheard, charged>>,
               \/ pay'[p].draw = pay[p].draw
               \/ pay[p].draw \in {"rollback", "rollback2"} /\ pay'[p].draw # "paid"
        PROVE  MoneyIsAccounted'
    <3>1. \A type : Taken(type)' = Taken(type)  BY <2>3, <2>5
    <3>2. Heard' = Heard  BY <2>5 DEF Heard
    <3> QED  BY <1>1, <1>2, <3>1, <3>2, NothingTaken
  <2> QED  BY <2>1, <2>4, <2>5
<1>8. CASE \/ Tick
           \/ \E p \in Script : \/ Call(p) /\ UNCHANGED work
                                \/ ScriptStep(p) /\ ~Spawn(p)
           \/ \E c \in Cron : CronNext(c)
           \/ \E p \in Proc : RulesStep(p)
  <2>1. UNCHANGED pay  BY <1>1, <1>8, PaymentsRest
  <2>2. Heard' = Heard  BY <1>8, OthersPay
  <2> QED  BY <1>4, <2>1, <2>2
<1> QED  BY <1>5, <1>6, <1>7, <1>8 DEF Next

\* At the start there is no payment.
LEMMA StartedFitInit == Init => StartedFit /\ Started = {}
<1> SUFFICES ASSUME Init PROVE StartedFit /\ Started = {}  OBVIOUS
<1>1. Started = {}  BY DEF Init, PayInit, Started, Proc
<1> QED  BY <1>1, FS_EmptySet DEF StartedFit

\* The seller has what the payments come to that nobody has rolled back, whatever else
\* is charged, whatever replies are lost and whoever shares a rand.
THEOREM MoneyIsAccountedHolds == Spec => []MoneyIsAccounted
<1>1. Init => MoneyInv
  <2> SUFFICES ASSUME Init PROVE MoneyInv  OBVIOUS
  <2>1. StartedFit /\ Started = {}  BY StartedFitInit
  <2>2. \A type : Taken(type) = {}  BY <2>1 DEF Started, Taken
  <2>3. Cardinality(Taken("acl")) = 0 /\ Cardinality(Taken("local")) = 0
    BY <2>2, FS_EmptySet
  <2>4. MoneyIsAccounted  BY <2>3, GateAssumption DEF Init, MoneyIsAccounted
  <2> QED  BY <2>1, <2>4 DEF MoneyInv
<1>2. MoneyInv => MoneyIsAccounted  BY DEF MoneyInv
<1> QED  BY <1>1, <1>2, MoneyStep, GateInvariance, PTL DEF Spec

----------------------------------------------------------------------------
(* What scripts do that remove no entry.                                    *)

\* A script that clients or the administrator start to add an entry.
Adding(p) ==
  /\ job[p].kind \in Payments \cup {"add", "none"}
  /\ job[p].pc \notin {"drop", "unlist"}

\* A script goes on, with what it knows.
GoesOn(p, from, to) ==
  /\ job[p].pc \in from /\ job'[p].pc \in to
  /\ job'[p].kind = job[p].kind /\ job'[p].addr = job[p].addr /\ job'[p].t = job[p].t

\* A script ends, and forgets it.
Ends(p) ==
  job'[p].pc = "done" /\ job'[p].kind = "none" /\ job'[p].t = 0 /\ job'[p].ok = FALSE

\* Going on, without new access.
LEMMA GoEffect ==
  ASSUME DataInv, NEW p \in Script, NEW from, NEW to, to \in PCs, Goto(p, from, to)
  PROVE  Others(p) /\ GoesOn(p, {from}, {to}) /\ job'[p].ok = job[p].ok
<1>1. p \in Proc /\ JobTypeOK  BY DEF Proc, DataInv, JobInv
<1> QED  BY <1>1, GotoEffect DEF GoesOn

\* Ending.
LEMMA EndEffect ==
  ASSUME DataInv, NEW p \in Script, Exit(p)
  PROVE  Others(p) /\ Ends(p)
<1>1. p \in Proc /\ JobTypeOK  BY DEF Proc, DataInv, JobInv
<1> QED  BY <1>1, ExitEffect DEF Ends

\* hasaccess and verify: the script ends, or goes on towards the payment, knowing
\* whether its client has an entry.
LEMMA LookEffect ==
  ASSUME DataInv, NEW p \in Script, Adding(p), ExtraAccess(p) \/ ReadAcl(p) \/ Verify(p)
  PROVE  /\ UNCHANGED <<now, acl, scrap, local, filter, pay>> /\ Others(p)
         /\ job[p].pc \in {"extra", "read", "verify"}
         /\ \/ Ends(p)
            \/ /\ GoesOn(p, {"extra", "read", "verify"}, {"read", "verify", "extra2", "update"})
               /\ job'[p].pc = "extra2" => job'[p].kind = "grant"
               /\ job'[p].ok = job[p].ok \/ job[p].addr \in Listed
<1> USE DEF aclVars, tableVars, ruleVars
<1>1. /\ p \in Proc /\ JobTypeOK /\ JobFits /\ acl \in Acl
      /\ {"read", "verify", "extra2", "update"} \subseteq PCs
  BY DEF Proc, DataInv, SharedTypeOK, JobInv, PCs
<1>2. ASSUME NEW r \in Rand \cup {NoRand}, job[p].pc \in {"extra", "read"},
             \/ job' = [job EXCEPT ![p].ok = TRUE, ![p].pc = "verify"]
             \/ job' = [job EXCEPT ![p].ok = TRUE, ![p].oldrand = r, ![p].pc = "verify"]
      PROVE  Others(p) /\ GoesOn(p, {"extra", "read"}, {"verify"})
  BY <1>1, <1>2, AccessEffect DEF GoesOn
<1>3. CASE ExtraAccess(p)
  <2>1. UNCHANGED <<now, acl, scrap, local, filter, pay>>  BY <1>3 DEF ExtraAccess
  <2>2. job[p].pc = "extra" /\ job[p].addr \in Addr /\ job[p].kind \in Payments
    BY <1>1, <1>3 DEF ExtraAccess, JobFits, Adding, Payments
  <2>3. \/ Goto(p, "extra", "read") \/ Exit(p)
        \/ /\ local[job[p].addr] # Absent
           /\ job' = [job EXCEPT ![p].ok = TRUE, ![p].pc = "verify"]
    BY <1>3, <2>2 DEF ExtraAccess, Payments
  <2>4. CASE Goto(p, "extra", "read")
    BY <1>1, <2>1, <2>4, GoEffect DEF GoesOn
  <2>5. CASE Exit(p)  BY <2>1, <2>2, <2>5, EndEffect
  <2>6. CASE /\ local[job[p].addr] # Absent
             /\ job' = [job EXCEPT ![p].ok = TRUE, ![p].pc = "verify"]
    <3>1. Others(p) /\ GoesOn(p, {"extra", "read"}, {"verify"})
      BY <1>2, <2>2, <2>6
    <3>2. job[p].addr \in Listed  BY <2>2, <2>6 DEF Listed, Entered
    <3> QED  BY <2>1, <2>2, <3>1, <3>2 DEF GoesOn
  <2> QED  BY <2>3, <2>4, <2>5, <2>6
<1>4. CASE ReadAcl(p)
  <2>1. UNCHANGED <<now, acl, scrap, local, filter, pay>>  BY <1>4 DEF ReadAcl
  <2>2. job[p].pc = "read" /\ job[p].addr \in Addr /\ job[p].kind \in Payments
    BY <1>1, <1>4 DEF ReadAcl, JobFits, Adding, Payments
  <2>3. \/ Goto(p, "read", "verify") \/ Exit(p)
        \/ /\ acl[job[p].addr] # Absent
           /\ \/ job' = [job EXCEPT ![p].ok = TRUE, ![p].pc = "verify"]
              \/ job' = [job EXCEPT ![p].ok = TRUE, ![p].oldrand = acl[job[p].addr].rand,
                                    ![p].pc = "verify"]
    BY <1>4, <2>2 DEF ReadAcl, Payments
  <2>4. CASE Goto(p, "read", "verify")
    BY <1>1, <2>1, <2>4, GoEffect DEF GoesOn
  <2>5. CASE Exit(p)  BY <2>1, <2>2, <2>5, EndEffect
  <2>6. CASE /\ acl[job[p].addr] # Absent
             /\ \/ job' = [job EXCEPT ![p].ok = TRUE, ![p].pc = "verify"]
                \/ job' = [job EXCEPT ![p].ok = TRUE, ![p].oldrand = acl[job[p].addr].rand,
                                      ![p].pc = "verify"]
    <3>1. acl[job[p].addr].rand \in Rand  BY <1>1, <2>2, <2>6 DEF Acl, Entry
    <3>2. Others(p) /\ GoesOn(p, {"extra", "read"}, {"verify"})
      BY <1>2, <2>2, <2>6, <3>1
    <3>3. job[p].addr \in Listed  BY <2>2, <2>6 DEF Listed, Entered
    <3> QED  BY <2>1, <2>2, <3>2, <3>3 DEF GoesOn
  <2> QED  BY <2>3, <2>4, <2>5, <2>6
<1>5. CASE Verify(p)
  <2>1. UNCHANGED <<now, acl, scrap, local, filter, pay>> /\ job[p].pc = "verify"
    BY <1>5 DEF Verify
  <2>2. \/ Exit(p) \/ (Goto(p, "verify", "extra2") /\ job[p].kind = "grant")
        \/ Goto(p, "verify", "update")
    BY <1>5 DEF Verify
  <2>3. CASE Exit(p)  BY <2>1, <2>3, EndEffect
  <2>4. CASE Goto(p, "verify", "extra2") /\ job[p].kind = "grant"
    BY <1>1, <2>1, <2>4, GoEffect DEF GoesOn
  <2>5. CASE Goto(p, "verify", "update")
    BY <1>1, <2>1, <2>5, GoEffect DEF GoesOn
  <2> QED  BY <2>2, <2>3, <2>4, <2>5
<1> QED  BY <1>3, <1>4, <1>5

----------------------------------------------------------------------------
(* The time that payments buy.                                              *)

\* Clients only pay, and the acls are empty at the start: there is no cron, and nobody
\* is put on the whitelist or taken from it; and the disk has room for the tables.
OnlyPayments ==
  /\ Cron = {} /\ Kinds \subseteq Payments /\ "full" \notin Faults
  /\ InitialAcl = {[a \in Addr |-> Absent]}
  /\ InitialLocal = {[a \in Addr |-> Absent]}

\* No script has begun later than now.
Paying(p) ==
  /\ job[p].kind \in Payments \cup {"none"}
  /\ job[p].pc \notin {"drop", "list", "unlist"}
  /\ job[p].pc = "extra2" => job[p].kind = "grant"
  /\ job[p].t <= now

OnlyPaying == \A p \in Script : Paying(p)

\* Script p has given time to address a in one of the acls, and has not taken it back.
Gives(p, a, type) ==
  \/ /\ job[p].pc = "spawn" /\ job[p].addr = a
     /\ job[p].kind = IF type = "acl" THEN "grant" ELSE "topup"
  \/ /\ pay[p] # NoPay /\ pay[p].addr = a /\ pay[p].type = type
     /\ pay[p].draw # "undone"

Given(a, type) == {p \in Script : Gives(p, a, type)}

Acls == {"acl", "local"}

GivenIsFinite == \A a \in Addr, type \in Acls : IsFiniteSet(Given(a, type))

\* An entry that ends at e lasts dt for each of the scripts in s from a time up to t.
Lasts(e, dt, s, t) == e - dt * Cardinality(s) \in 0..t

AclTimeFits ==
  \A a \in Addr : local[a] = Absent =>
    IF acl[a] = Absent THEN Given(a, "acl") = {}
    ELSE Lasts(acl[a].expire, Day, Given(a, "acl"), now)

LocalTimeFits ==
  \A a \in Addr :
    IF local[a] = Absent THEN Given(a, "local") = {}
    ELSE local[a] # Unlimited /\ Lasts(local[a], Span, Given(a, "local"), now)

TimeFits == GivenIsFinite /\ AclTimeFits /\ LocalTimeFits

\* Only the roll back of the acl has a second critical section.
RollbackFits ==
  \A p \in Script : pay[p].draw = "rollback2" => pay[p].type = "acl"

TimeInv == OnlyPaying /\ TimeFits /\ RollbackFits

\* One script more, and its time.
LEMMA LastsLonger ==
  ASSUME NEW s, IsFiniteSet(s), NEW p, p \notin s, NEW e \in Int, NEW dt \in Int, NEW t \in Int,
         Lasts(e, dt, s, t)
  PROVE  Lasts(e + dt, dt, s \cup {p}, t)
<1>1. Cardinality(s) \in Nat /\ Cardinality(s \cup {p}) = Cardinality(s) + 1
  BY FS_CardinalityType, FS_AddElement
<1>2. PICK n \in Int : n = Cardinality(s)  BY <1>1
<1>3. e - dt * n \in 0..t  BY <1>2 DEF Lasts
<1>4. e + dt - dt * (n + 1) = e - dt * n  BY <1>3
<1>5. e + dt - dt * (n + 1) \in 0..t  BY <1>3, <1>4
<1> QED  BY <1>1, <1>2, <1>5 DEF Lasts

\* One script less.
LEMMA LastsShorter ==
  ASSUME NEW s, IsFiniteSet(s), NEW p, p \in s, NEW e \in Int, NEW dt \in Int, NEW t \in Int,
         Lasts(e, dt, s, t)
  PROVE  Lasts(e - dt, dt, s \ {p}, t)
<1>1. Cardinality(s) \in Nat /\ Cardinality(s \ {p}) = Cardinality(s) - 1
  BY FS_CardinalityType, FS_RemoveElement
<1>2. PICK n \in Int : n = Cardinality(s)  BY <1>1
<1>3. e - dt * n \in 0..t  BY <1>2 DEF Lasts
<1>4. e - dt - dt * (n - 1) = e - dt * n  BY <1>3
<1>5. e - dt - dt * (n - 1) \in 0..t  BY <1>3, <1>4
<1> QED  BY <1>1, <1>2, <1>5 DEF Lasts

\* The first script of a client.
LEMMA LastsFirst ==
  ASSUME NEW p, NEW e \in Int, NEW dt \in Int, NEW t \in Int, e \in 0..t
  PROVE  Lasts(e + dt, dt, {p}, t)
<1>1. Cardinality({p}) = 1  BY FS_Singleton
<1>2. e + dt - dt * 1 = e  OBVIOUS
<1> QED  BY <1>1, <1>2 DEF Lasts

\* The scripts that do nothing give what they have given.
LEMMA OthersGive ==
  ASSUME NEW p \in Script, \A q \in Script : q # p => job'[q] = job[q] /\ pay'[q] = pay[q]
  PROVE  \A q \in Script : \A a, type : q # p => (Gives(q, a, type)' <=> Gives(q, a, type))
  BY DEF Gives

\* Time passes, and nobody gives any.
LEMMA TimeKept ==
  ASSUME TimeFits, now \in Int, now' \in Int, now <= now', UNCHANGED <<acl, local>>,
         \A p \in Script : \A a \in Addr, type \in Acls : Gives(p, a, type)' <=> Gives(p, a, type)
  PROVE  TimeFits'
<1>1. \A a \in Addr, type \in Acls : Given(a, type)' = Given(a, type)
  BY DEF Given
<1>2. \A e, dt, s : Lasts(e, dt, s, now) => Lasts(e, dt, s, now')
  BY DEF Lasts
<1>3. GivenIsFinite'  BY <1>1 DEF TimeFits, GivenIsFinite
<1>4. AclTimeFits'  BY <1>1, <1>2 DEF TimeFits, AclTimeFits, Acls
<1>5. LocalTimeFits'  BY <1>1, <1>2 DEF TimeFits, LocalTimeFits, Acls
<1> QED  BY <1>3, <1>4, <1>5 DEF TimeFits

\* Script p is the only one that gives or takes back time.
OneGives(p) ==
  \A q \in Script : \A a, type : q # p => (Gives(q, a, type)' <=> Gives(q, a, type))

\* It gives time to one address.
LEMMA GivenMore ==
  ASSUME TimeFits, NEW p \in Script, OneGives(p), NEW a \in Addr, NEW type \in Acls,
         \A x \in Addr, y \in Acls : /\ ~Gives(p, x, y)
                                     /\ Gives(p, x, y)' <=> x = a /\ y = type
  PROVE  /\ \A x \in Addr, y \in Acls :
              /\ p \notin Given(x, y)
              /\ Given(x, y)' = IF x = a /\ y = type THEN Given(x, y) \cup {p} ELSE Given(x, y)
         /\ GivenIsFinite /\ GivenIsFinite'
<1>1. \A x \in Addr, y \in Acls :
        /\ p \notin Given(x, y)
        /\ Given(x, y)' = IF x = a /\ y = type THEN Given(x, y) \cup {p} ELSE Given(x, y)
  BY DEF Given, OneGives
<1>2. GivenIsFinite  BY DEF TimeFits
<1>3. GivenIsFinite'  BY <1>1, <1>2, FS_AddElement DEF GivenIsFinite
<1> QED  BY <1>1, <1>2, <1>3

\* It takes the time back.
LEMMA GivenLess ==
  ASSUME TimeFits, NEW p \in Script, OneGives(p), NEW a \in Addr, NEW type \in Acls,
         \A x \in Addr, y \in Acls : /\ Gives(p, x, y) <=> x = a /\ y = type
                                     /\ ~Gives(p, x, y)'
  PROVE  /\ \A x \in Addr, y \in Acls :
              /\ p \in Given(x, y) <=> x = a /\ y = type
              /\ Given(x, y)' = IF x = a /\ y = type THEN Given(x, y) \ {p} ELSE Given(x, y)
         /\ GivenIsFinite /\ GivenIsFinite'
<1>1. \A x \in Addr, y \in Acls :
        /\ p \in Given(x, y) <=> x = a /\ y = type
        /\ Given(x, y)' = IF x = a /\ y = type THEN Given(x, y) \ {p} ELSE Given(x, y)
  BY DEF Given, OneGives
<1>2. GivenIsFinite  BY DEF TimeFits
<1>3. GivenIsFinite'  BY <1>1, <1>2, FS_RemoveElement DEF GivenIsFinite
<1> QED  BY <1>1, <1>2, <1>3

\* What acl.topup does to the table.
LEMMA ToppedUpTime ==
  ASSUME acl \in Acl, NEW a \in Addr, NEW t, NEW dt, NEW r, acl' = ToppedUp(a, t, dt, r)
  PROVE  /\ acl'[a].expire = (IF acl[a] = Absent THEN t ELSE acl[a].expire) + dt
         /\ \A x \in Addr : x # a => acl'[x] = acl[x]
<1> DEFINE new == [expire |-> (IF acl[a] = Absent THEN t ELSE acl[a].expire) + dt, rand |-> r]
<1>1. acl' = [acl EXCEPT ![a] = new]  BY DEF ToppedUp
<1>2. new.expire = (IF acl[a] = Absent THEN t ELSE acl[a].expire) + dt  OBVIOUS
<1> HIDE DEF new
<1>3. acl'[a] = new /\ \A x \in Addr : x # a => acl'[x] = acl[x]  BY <1>1 DEF Acl
<1> QED  BY <1>2, <1>3

\* The entry is there.
LEMMA ToppedUpThere ==
  ASSUME acl \in Acl, NEW a \in Addr, NEW t \in Int, NEW dt \in Int, NEW r \in Rand,
         acl' = ToppedUp(a, t, dt, r)
  PROVE  acl'[a] # Absent
<1> DEFINE e == (IF acl[a] = Absent THEN t ELSE acl[a].expire) + dt
<1>1. acl'[a] = [expire |-> e, rand |-> r]  BY DEF ToppedUp, Acl
<1>2. acl[a] = Absent \/ acl[a].expire \in Int  BY DEF Acl, Entry, Minutes
<1>3. e \in Int  BY <1>2
<1> HIDE DEF e
<1>4. acl'[a] \in Entry  BY <1>1, <1>3 DEF Entry, Minutes
<1> QED  BY <1>4, TablesAssumption

\* A script tops the acl up.
LEMMA AclTimeGiven ==
  ASSUME TimeFits, now \in Int, acl \in Acl, NEW p \in Script, OneGives(p), NEW a \in Addr,
         \A x \in Addr, y \in Acls : /\ ~Gives(p, x, y)
                                     /\ Gives(p, x, y)' <=> x = a /\ y = "acl",
         UNCHANGED <<now, local>>, NEW t \in 0..now, NEW r, acl' = ToppedUp(a, t, Day, r),
         acl'[a] # Absent
  PROVE  TimeFits'
<1> DEFINE old == IF acl[a] = Absent THEN t ELSE acl[a].expire
<1>1. "acl" \in Acls /\ "local" \in Acls /\ "acl" # "local" /\ Day \in Int
  BY GateAssumption DEF Acls
<1>2. /\ \A x \in Addr, y \in Acls :
           /\ p \notin Given(x, y)
           /\ Given(x, y)' = IF x = a /\ y = "acl" THEN Given(x, y) \cup {p} ELSE Given(x, y)
      /\ GivenIsFinite /\ GivenIsFinite'
  BY <1>1, GivenMore
<1>3. acl'[a].expire = old + Day /\ \A x \in Addr : x # a => acl'[x] = acl[x]
  BY ToppedUpTime
<1>4. LocalTimeFits'
  <2>1. \A x \in Addr : Given(x, "local")' = Given(x, "local")  BY <1>1, <1>2
  <2> QED  BY <2>1 DEF TimeFits, LocalTimeFits
<1>5. ASSUME local[a] = Absent PROVE Lasts(old + Day, Day, Given(a, "acl") \cup {p}, now)
  <2>1. CASE acl[a] = Absent
    <3>1. Given(a, "acl") = {}  BY <1>5, <2>1 DEF TimeFits, AclTimeFits
    <3>2. old = t /\ t \in Int  BY <2>1
    <3> HIDE DEF old
    <3> QED  BY <1>1, <3>1, <3>2, LastsFirst
  <2>2. CASE acl[a] # Absent
    <3>1. Lasts(old, Day, Given(a, "acl"), now)  BY <1>5, <2>2 DEF TimeFits, AclTimeFits
    <3>2. old \in Int  BY <2>2 DEF Acl, Entry, Minutes
    <3>3. IsFiniteSet(Given(a, "acl")) /\ p \notin Given(a, "acl")
      BY <1>1, <1>2 DEF GivenIsFinite
    <3> HIDE DEF old
    <3> QED  BY <1>1, <3>1, <3>2, <3>3, LastsLonger
  <2> QED  BY <2>1, <2>2
<1> HIDE DEF old
<1>6. ASSUME NEW x \in Addr, local'[x] = Absent
      PROVE  IF acl'[x] = Absent THEN Given(x, "acl")' = {}
             ELSE Lasts(acl'[x].expire, Day, Given(x, "acl")', now')
  <2>1. CASE x = a  BY <1>1, <1>2, <1>3, <1>5, <1>6, <2>1
  <2>2. CASE x # a
    <3>1. Given(x, "acl")' = Given(x, "acl") /\ acl'[x] = acl[x]  BY <1>1, <1>2, <1>3, <2>2
    <3> QED  BY <1>6, <3>1 DEF TimeFits, AclTimeFits
  <2> QED  BY <2>1, <2>2
<1>7. AclTimeFits'  BY <1>6 DEF AclTimeFits, Lasts
<1> QED  BY <1>2, <1>4, <1>7 DEF TimeFits

\* takepayment rolls the time in the acl back, unless there is extra access.
LEMMA AclTimeTaken ==
  ASSUME TimeFits, now \in Int, acl \in Acl, NEW p \in Script, OneGives(p), NEW a \in Addr,
         \A x \in Addr, y \in Acls : /\ Gives(p, x, y) <=> x = a /\ y = "acl"
                                     /\ ~Gives(p, x, y)',
         UNCHANGED <<now, local>>,
         \/ UNCHANGED acl /\ local[a] # Absent
         \/ acl'[a] # Absent /\ \E t, r : acl' = ToppedUp(a, t, -Day, r)
  PROVE  TimeFits'
<1> DEFINE old == acl[a].expire
<1>1. "acl" \in Acls /\ "local" \in Acls /\ "acl" # "local" /\ Day \in Int
  BY GateAssumption DEF Acls
<1>2. /\ \A x \in Addr, y \in Acls :
           /\ p \in Given(x, y) <=> x = a /\ y = "acl"
           /\ Given(x, y)' = IF x = a /\ y = "acl" THEN Given(x, y) \ {p} ELSE Given(x, y)
      /\ GivenIsFinite /\ GivenIsFinite'
  BY <1>1, GivenLess
<1>3. /\ \A x \in Addr : x # a => acl'[x] = acl[x]
      /\ local[a] = Absent /\ acl[a] # Absent =>
           acl'[a] # Absent /\ acl'[a].expire = old + (-Day)
  BY ToppedUpTime
<1>4. LocalTimeFits'
  <2>1. \A x \in Addr : Given(x, "local")' = Given(x, "local")  BY <1>1, <1>2
  <2> QED  BY <2>1 DEF TimeFits, LocalTimeFits
<1>5. ASSUME local[a] = Absent
      PROVE  acl[a] # Absent /\ Lasts(old - Day, Day, Given(a, "acl") \ {p}, now)
  <2>1. p \in Given(a, "acl") /\ IsFiniteSet(Given(a, "acl"))
    BY <1>1, <1>2 DEF GivenIsFinite
  <2>2. acl[a] # Absent /\ Lasts(old, Day, Given(a, "acl"), now)
    BY <1>5, <2>1 DEF TimeFits, AclTimeFits
  <2>3. old \in Int  BY <2>2 DEF Acl, Entry, Minutes
  <2> HIDE DEF old
  <2> QED  BY <1>1, <2>1, <2>2, <2>3, LastsShorter
<1>6. ASSUME local[a] = Absent PROVE acl'[a].expire = old - Day
  <2>1. old \in Int  BY <1>5, <1>6 DEF Acl, Entry, Minutes
  <2> HIDE DEF old
  <2>2. old + (-Day) = old - Day  BY <1>1, <2>1
  <2> QED  BY <1>3, <1>5, <1>6, <2>2
<1> HIDE DEF old
<1>7. ASSUME NEW x \in Addr, local'[x] = Absent
      PROVE  IF acl'[x] = Absent THEN Given(x, "acl")' = {}
             ELSE Lasts(acl'[x].expire, Day, Given(x, "acl")', now')
  <2>1. CASE x = a  BY <1>1, <1>2, <1>3, <1>5, <1>6, <1>7, <2>1
  <2>2. CASE x # a
    <3>1. Given(x, "acl")' = Given(x, "acl") /\ acl'[x] = acl[x]  BY <1>1, <1>2, <1>3, <2>2
    <3> QED  BY <1>7, <3>1 DEF TimeFits, AclTimeFits
  <2> QED  BY <2>1, <2>2
<1>8. AclTimeFits'  BY <1>7 DEF AclTimeFits, Lasts
<1> QED  BY <1>2, <1>4, <1>8 DEF TimeFits

\* A script tops the local acl up.
LEMMA LocalTimeGiven ==
  ASSUME TimeFits, now \in Int, local \in Local, NEW p \in Script, OneGives(p), NEW a \in Addr,
         \A x \in Addr, y \in Acls : /\ ~Gives(p, x, y)
                                     /\ Gives(p, x, y)' <=> x = a /\ y = "local",
         UNCHANGED <<now, acl>>, NEW t \in 0..now,
         local' = [local EXCEPT ![a] = CASE @ = Absent -> t + Span
                                         [] @ = Unlimited -> Unlimited
                                         [] OTHER -> @ + Span]
  PROVE  TimeFits'
<1> DEFINE old == IF local[a] = Absent THEN t ELSE local[a]
<1>1. /\ "acl" \in Acls /\ "local" \in Acls /\ "acl" # "local" /\ Span \in Int
      /\ Absent \notin Int /\ Unlimited \notin Int /\ Absent # Unlimited
  BY GateAssumption DEF Acls
<1>2. /\ \A x \in Addr, y \in Acls :
           /\ p \notin Given(x, y)
           /\ Given(x, y)' = IF x = a /\ y = "local" THEN Given(x, y) \cup {p} ELSE Given(x, y)
      /\ GivenIsFinite /\ GivenIsFinite'
  BY <1>1, GivenMore
<1>3. local[a] # Unlimited /\ old \in Int
  <2>1. local[a] # Unlimited  BY <1>1 DEF TimeFits, LocalTimeFits
  <2> QED  BY <2>1 DEF Local, Minutes
<1>4. local'[a] = old + Span /\ \A x \in Addr : x # a => local'[x] = local[x]
  BY <1>1, <1>3 DEF Local
<1>5. Lasts(old + Span, Span, Given(a, "local") \cup {p}, now)
  <2>1. CASE local[a] = Absent
    <3>1. Given(a, "local") = {}  BY <2>1 DEF TimeFits, LocalTimeFits
    <3>2. old = t /\ t \in Int  BY <2>1
    <3> HIDE DEF old
    <3> QED  BY <1>1, <3>1, <3>2, LastsFirst
  <2>2. CASE local[a] # Absent
    <3>1. Lasts(old, Span, Given(a, "local"), now)  BY <2>2 DEF TimeFits, LocalTimeFits
    <3>2. IsFiniteSet(Given(a, "local")) /\ p \notin Given(a, "local")
      BY <1>1, <1>2 DEF GivenIsFinite
    <3> HIDE DEF old
    <3> QED  BY <1>1, <1>3, <3>1, <3>2, LastsLonger
  <2> QED  BY <2>1, <2>2
<1>6. local'[a] # Absent /\ local'[a] # Unlimited
  <2> HIDE DEF old
  <2>1. old + Span \in Int  BY <1>1, <1>3
  <2> QED  BY <1>1, <1>4, <2>1
<1> HIDE DEF old
<1>7. AclTimeFits'
  <2>1. \A x \in Addr : Given(x, "acl")' = Given(x, "acl")
                        /\ (local'[x] = Absent => local[x] = Absent)
    BY <1>1, <1>2, <1>4, <1>6
  <2> QED  BY <2>1 DEF TimeFits, AclTimeFits
<1>8. ASSUME NEW x \in Addr
      PROVE  IF local'[x] = Absent THEN Given(x, "local")' = {}
             ELSE local'[x] # Unlimited
                  /\ Lasts(local'[x], Span, Given(x, "local")', now')
  <2>1. CASE x = a  BY <1>1, <1>2, <1>4, <1>5, <1>6, <2>1
  <2>2. CASE x # a
    <3>1. Given(x, "local")' = Given(x, "local") /\ local'[x] = local[x]
      BY <1>1, <1>2, <1>4, <2>2
    <3> QED  BY <3>1 DEF TimeFits, LocalTimeFits
  <2> QED  BY <2>1, <2>2
<1>9. LocalTimeFits'  BY <1>8 DEF LocalTimeFits, Lasts
<1> QED  BY <1>2, <1>7, <1>9 DEF TimeFits

\* takepayment rolls the time in the local acl back.
LEMMA LocalTimeTaken ==
  ASSUME TimeFits, now \in Int, local \in Local, NEW p \in Script, OneGives(p), NEW a \in Addr,
         \A x \in Addr, y \in Acls : /\ Gives(p, x, y) <=> x = a /\ y = "local"
                                     /\ ~Gives(p, x, y)',
         UNCHANGED <<now, acl>>, NEW t,
         local' = [local EXCEPT ![a] = CASE @ = Absent -> t - Span
                                         [] @ = Unlimited -> Unlimited
                                         [] OTHER -> @ - Span]
  PROVE  TimeFits'
<1> DEFINE old == local[a]
<1>1. /\ "acl" \in Acls /\ "local" \in Acls /\ "acl" # "local" /\ Span \in Int
      /\ Absent \notin Int /\ Unlimited \notin Int /\ Absent # Unlimited
  BY GateAssumption DEF Acls
<1>2. /\ \A x \in Addr, y \in Acls :
           /\ p \in Given(x, y) <=> x = a /\ y = "local"
           /\ Given(x, y)' = IF x = a /\ y = "local" THEN Given(x, y) \ {p} ELSE Given(x, y)
      /\ GivenIsFinite /\ GivenIsFinite'
  BY <1>1, GivenLess
<1>3. /\ p \in Given(a, "local") /\ IsFiniteSet(Given(a, "local"))
      /\ old # Absent /\ old # Unlimited /\ old \in Int
      /\ Lasts(old, Span, Given(a, "local"), now)
  <2>1. p \in Given(a, "local") /\ IsFiniteSet(Given(a, "local"))
    BY <1>1, <1>2 DEF GivenIsFinite
  <2>2. /\ local[a] # Absent /\ local[a] # Unlimited
        /\ Lasts(local[a], Span, Given(a, "local"), now)
    BY <2>1 DEF TimeFits, LocalTimeFits
  <2> QED  BY <2>1, <2>2 DEF Local, Minutes
<1>4. local'[a] = old - Span /\ \A x \in Addr : x # a => local'[x] = local[x]
  BY <1>1, <1>3 DEF Local
<1> HIDE DEF old
<1>5. Lasts(old - Span, Span, Given(a, "local") \ {p}, now)
  BY <1>1, <1>3, LastsShorter
<1>6. local'[a] # Absent /\ local'[a] # Unlimited
  <2>1. old - Span \in Int  BY <1>1, <1>3
  <2> QED  BY <1>1, <1>4, <2>1
<1>7. AclTimeFits'
  <2>1. \A x \in Addr : Given(x, "acl")' = Given(x, "acl")
                        /\ (local'[x] = Absent => local[x] = Absent)
    BY <1>1, <1>2, <1>4, <1>6
  <2> QED  BY <2>1 DEF TimeFits, AclTimeFits
<1>8. ASSUME NEW x \in Addr
      PROVE  IF local'[x] = Absent THEN Given(x, "local")' = {}
             ELSE local'[x] # Unlimited
                  /\ Lasts(local'[x], Span, Given(x, "local")', now')
  <2>1. CASE x = a  BY <1>1, <1>2, <1>4, <1>5, <1>6, <2>1
  <2>2. CASE x # a
    <3>1. Given(x, "local")' = Given(x, "local") /\ local'[x] = local[x]
      BY <1>1, <1>2, <1>4, <2>2
    <3> QED  BY <3>1 DEF TimeFits, LocalTimeFits
  <2> QED  BY <2>1, <2>2
<1>9. LocalTimeFits'  BY <1>8 DEF LocalTimeFits, Lasts
<1> QED  BY <1>2, <1>7, <1>9 DEF TimeFits

\* What a script gives before it has left the payment to takepayment.
LEMMA ScriptGives ==
  ASSUME StartedFit, NEW p \in Script, job[p].pc \notin {"rules", "rules2", "done"}
  PROVE  /\ pay[p] = NoPay
         /\ job[p].pc # "spawn" => \A a, type : ~Gives(p, a, type)
         /\ job[p].pc = "spawn" /\ job[p].kind \in Payments =>
              \A a : \A type \in Acls :
                Gives(p, a, type) <=>
                  a = job[p].addr /\ type = IF job[p].kind = "grant" THEN "acl" ELSE "local"
<1>1. pay[p] = NoPay  BY DEF StartedFit, Started
<1> QED  BY <1>1 DEF Gives, Acls, Payments

\* The same after a step that leaves the payments alone.
LEMMA ScriptGivesNext ==
  ASSUME NEW p \in Script, pay[p] = NoPay, pay'[p] = NoPay
  PROVE  /\ job'[p].pc # "spawn" => \A a, type : ~Gives(p, a, type)'
         /\ job'[p].pc = "spawn" /\ job'[p].kind \in Payments =>
              \A a : \A type \in Acls :
                Gives(p, a, type)' <=>
                  a = job'[p].addr /\ type = IF job'[p].kind = "grant" THEN "acl" ELSE "local"
  BY DEF Gives, Acls, Payments

\* Each step of a script that pays leaves its client the time that it has given.
LEMMA ScriptTime ==
  ASSUME DataInv, DataInv', StartedFit, OnlyPaying, TimeFits, NEW p \in Script, ScriptStep(p),
         "full" \notin Faults
  PROVE  TimeFits' /\ Paying(p)' /\ Others(p) /\ UNCHANGED now
<1> USE DEF ScriptStep, aclVars, tableVars, ruleVars
<1>1. /\ p \in Proc /\ JobFits /\ JobTypeOK /\ acl \in Acl /\ local \in Local /\ now \in Int
      /\ acl' \in Acl /\ {"update", "spawn", "rules"} \subseteq PCs
      /\ job[p].t \in Int /\ job[p].t >= 0
  BY GateAssumption DEF Proc, DataInv, SharedTypeOK, JobInv, JobTypeOK, JobRecord, PCs
<1>2. Paying(p) /\ Adding(p)  BY DEF OnlyPaying, Paying, Adding
<1>3. now >= 0 /\ job[p].t \in 0..now
  BY <1>1, <1>2, GateAssumption DEF DataInv, SharedTypeOK, Paying
<1>4. ASSUME Others(p), UNCHANGED pay PROVE OneGives(p)
  <2>1. \A q \in Script : q # p => job'[q] = job[q] /\ pay'[q] = pay[q]
    BY <1>4 DEF Others, Proc
  <2> QED  BY <2>1, OthersGive DEF OneGives
<1>5. ASSUME UNCHANGED <<now, acl, local, pay>>, Others(p),
             job[p].pc \notin {"spawn", "rules", "rules2", "done"}, job'[p].pc # "spawn"
      PROVE  TimeFits'
  <2>1. OneGives(p)  BY <1>4, <1>5
  <2>2. \A a, type : ~Gives(p, a, type) /\ ~Gives(p, a, type)'
    BY <1>5, ScriptGives, ScriptGivesNext
  <2>3. \A q \in Script : \A a \in Addr, type \in Acls : Gives(q, a, type)' <=> Gives(q, a, type)
    BY <2>1, <2>2 DEF OneGives
  <2>4. now \in Int /\ now' \in Int /\ now <= now'  BY <1>1, <1>5
  <2> QED  BY <1>5, <2>3, <2>4, TimeKept
<1>6. ASSUME Ends(p) PROVE Paying(p)' \/ now' # now
  BY <1>3, <1>6 DEF Ends, Paying
<1>7. CASE ExtraAccess(p) \/ ReadAcl(p) \/ Verify(p)
  <2>1. /\ UNCHANGED <<now, acl, local, filter, pay>> /\ Others(p)
        /\ job[p].pc \in {"extra", "read", "verify"}
        /\ \/ Ends(p)
           \/ /\ GoesOn(p, {"extra", "read", "verify"}, {"read", "verify", "extra2", "update"})
              /\ job'[p].pc = "extra2" => job'[p].kind = "grant"
    BY <1>2, <1>7, LookEffect
  <2>2. job'[p].pc # "spawn"  BY <2>1 DEF Ends, GoesOn
  <2>3. TimeFits'  BY <1>5, <2>1, <2>2
  <2>4. Paying(p)'
    <3>1. CASE Ends(p)  BY <1>6, <2>1, <3>1
    <3>2. CASE ~Ends(p)  BY <1>2, <2>1, <3>2 DEF GoesOn, Paying
    <3> QED  BY <3>1, <3>2
  <2> QED  BY <2>1, <2>3, <2>4
<1>8. CASE TopupExtra(p)
  <2>1. job[p].pc = "extra2" /\ UNCHANGED <<now, acl, local, pay>>
    BY <1>8 DEF TopupExtra, Goto
  <2>2. job[p].kind = "grant" /\ "grant" \in Payments /\ job[p].addr \in Addr
    BY <1>1, <1>2, <2>1 DEF Paying, Payments, JobFits
  <2>3. CASE Goto(p, "extra2", "update")
    <3>1. Others(p) /\ GoesOn(p, {"extra2"}, {"update"})  BY <1>1, <2>3, GoEffect
    <3>2. TimeFits'  BY <1>5, <2>1, <3>1 DEF GoesOn
    <3> QED  BY <1>2, <2>1, <3>1, <3>2 DEF GoesOn, Paying
  <2>4. CASE Goto(p, "extra2", "spawn") /\ local[job[p].addr] # Absent
    <3>1. Others(p) /\ GoesOn(p, {"extra2"}, {"spawn"})  BY <1>1, <2>4, GoEffect
    <3>2. OneGives(p)  BY <1>4, <2>1, <3>1
    <3> DEFINE a == job[p].addr
    <3>3. \A x \in Addr, y \in Acls : /\ ~Gives(p, x, y)
                                      /\ Gives(p, x, y)' <=> x = a /\ y = "acl"
      BY <2>1, <2>2, <3>1, ScriptGives, ScriptGivesNext DEF GoesOn
    <3>4. a \in Addr /\ "acl" \in Acls /\ local[a] # Absent  BY <2>2, <2>4 DEF Acls
    <3> HIDE DEF a
    <3>5. /\ \A x \in Addr, y \in Acls :
               /\ p \notin Given(x, y)
               /\ Given(x, y)' = IF x = a /\ y = "acl" THEN Given(x, y) \cup {p} ELSE Given(x, y)
          /\ GivenIsFinite /\ GivenIsFinite'
      BY <3>2, <3>3, <3>4, GivenMore
    <3>6. AclTimeFits' /\ LocalTimeFits'
      BY <2>1, <3>4, <3>5 DEF TimeFits, AclTimeFits, LocalTimeFits, Lasts, Acls
    <3>7. TimeFits'  BY <3>5, <3>6 DEF TimeFits
    <3> QED  BY <1>2, <2>1, <3>1, <3>7 DEF GoesOn, Paying
  <2> QED  BY <1>8, <2>3, <2>4 DEF TopupExtra
<1>9. CASE TopupAcl(p)
  <2>1. /\ job[p].pc = "update" /\ job[p].kind = "grant" /\ UNCHANGED <<now, local, pay>>
        /\ "grant" \in Payments
    BY <1>9 DEF TopupAcl, Goto, Payments
  <2>2. job[p].addr \in Addr /\ job[p].rand \in Rand /\ Day \in Int
    BY <1>1, <2>1, GateAssumption DEF JobFits, Payments
  <2>3. CASE Exit(p) /\ UNCHANGED acl
    <3>1. Others(p) /\ Ends(p)  BY <2>3, EndEffect
    <3>2. TimeFits'  BY <1>5, <2>1, <2>3, <3>1 DEF Ends
    <3> QED  BY <1>6, <2>1, <3>1, <3>2
  <2>4. CASE /\ Goto(p, "update", "spawn")
             /\ acl' = ToppedUp(job[p].addr, job[p].t, Day, job[p].rand)
    <3>1. Others(p) /\ GoesOn(p, {"update"}, {"spawn"})  BY <1>1, <2>4, GoEffect
    <3>2. OneGives(p)  BY <1>4, <2>1, <3>1
    <3> DEFINE a == job[p].addr
               t == job[p].t
               r == job[p].rand
    <3>3. \A x \in Addr, y \in Acls : /\ ~Gives(p, x, y)
                                      /\ Gives(p, x, y)' <=> x = a /\ y = "acl"
      BY <2>1, <2>2, <3>1, ScriptGives, ScriptGivesNext DEF GoesOn
    <3>4. /\ a \in Addr /\ t \in 0..now /\ acl' = ToppedUp(a, t, Day, r)
          /\ UNCHANGED <<now, local>>
      BY <1>3, <2>1, <2>2, <2>4
    <3>5. acl'[a] # Absent  BY <1>1, <2>2, <3>4, ToppedUpThere
    <3> HIDE DEF a, t, r
    <3>6. TimeFits'  BY <1>1, <3>2, <3>3, <3>4, <3>5, AclTimeGiven
    <3> QED  BY <1>2, <2>1, <3>1, <3>6 DEF GoesOn, Paying
  <2> QED  BY <1>9, <2>3, <2>4 DEF TopupAcl, Written, NotWritten, NotOpened
<1>10. CASE TopupLocal(p)
  <2>1. /\ job[p].pc = "update" /\ job[p].kind = "topup" /\ UNCHANGED <<now, acl, pay>>
        /\ Goto(p, "update", "spawn") /\ "topup" \in Payments
    BY <1>2, <1>10 DEF TopupLocal, Goto, Payments, Paying
  <2>2. job[p].addr \in Addr  BY <1>1, <2>1 DEF JobFits
  <2>3. Others(p) /\ GoesOn(p, {"update"}, {"spawn"})  BY <1>1, <2>1, GoEffect
  <2>4. OneGives(p)  BY <1>4, <2>1, <2>3
  <2> DEFINE a == job[p].addr
             t == job[p].t
  <2>5. \A x \in Addr, y \in Acls : /\ ~Gives(p, x, y)
                                    /\ Gives(p, x, y)' <=> x = a /\ y = "local"
    BY <2>1, <2>2, <2>3, ScriptGives, ScriptGivesNext DEF GoesOn
  <2>6. local' = [local EXCEPT ![a] = CASE @ = Absent -> t + Span
                                        [] @ = Unlimited -> Unlimited
                                        [] OTHER -> @ + Span]
    BY <1>10, <2>1 DEF TopupLocal, Goto
  <2>7. a \in Addr /\ t \in 0..now /\ UNCHANGED <<now, acl>>  BY <1>3, <2>1, <2>2
  <2> HIDE DEF a, t
  <2>8. TimeFits'  BY <1>1, <2>4, <2>5, <2>6, <2>7, LocalTimeGiven
  <2> QED  BY <1>2, <2>1, <2>3, <2>8 DEF GoesOn, Paying
<1>11. CASE Spawn(p)
  <2>1. SpawnMoves(p)  BY <1>11, SpawnEffect
  <2>2. UNCHANGED <<now, acl, local>> /\ (Exit(p) \/ Goto(p, "spawn", "rules"))
    BY <1>11 DEF Spawn
  <2>3. \A q \in Script : q # p => job'[q] = job[q] /\ pay'[q] = pay[q]
    BY <2>1 DEF SpawnMoves, Others, Proc
  <2>4. OneGives(p)  BY <2>3, OthersGive DEF OneGives
  <2>5. \A a \in Addr, type \in Acls : Gives(p, a, type)' <=> Gives(p, a, type)
    BY <2>1 DEF SpawnMoves, Gives, Acls, Payments
  <2>6. \A q \in Script : \A a \in Addr, type \in Acls : Gives(q, a, type)' <=> Gives(q, a, type)
    BY <2>4, <2>5 DEF OneGives
  <2>7. now \in Int /\ now' \in Int /\ now <= now'  BY <1>1, <2>2
  <2>8. TimeFits'  BY <2>2, <2>6, <2>7, TimeKept
  <2>9. Paying(p)'
    <3>1. CASE Exit(p)
      <4>1. Ends(p)  BY <3>1, EndEffect
      <4> QED  BY <1>6, <2>2, <4>1
    <3>2. CASE Goto(p, "spawn", "rules")
      <4>1. GoesOn(p, {"spawn"}, {"rules"})  BY <1>1, <3>2, GoEffect
      <4> QED  BY <1>2, <2>2, <4>1 DEF GoesOn, Paying
    <3> QED  BY <2>2, <3>1, <3>2
  <2> QED  BY <2>1, <2>2, <2>8, <2>9 DEF SpawnMoves
<1>12. CASE DropEntry(p)  BY <1>2, <1>12 DEF DropEntry, Goto, Paying
<1>13. CASE RemoveLocal(p)  BY <1>2, <1>13 DEF RemoveLocal, Goto, Paying
<1> QED
  BY <1>7, <1>8, <1>9, <1>10, <1>11, <1>12, <1>13 DEF ScriptNext

\* Each step of takepayment leaves the clients the time that nobody has taken back.
LEMMA PaymentTime ==
  ASSUME DataInv, DataInv', StartedFit, TimeFits, RollbackFits, NEW p \in Script, PayStep(p),
         "full" \notin Faults
  PROVE  /\ TimeFits' /\ UNCHANGED <<now, job>> /\ PayMoves(p)
         /\ pay'[p].draw = "rollback2" => pay[p].type = "acl"
<1> USE DEF PayStep, aclVars, tableVars, ruleVars, At
<1>1. /\ PayMoves(p) /\ UNCHANGED job /\ p \in Script /\ PayInv
      /\ acl \in Acl /\ local \in Local /\ now \in Int /\ acl' \in Acl
  <2>1. PayMoves(p) /\ UNCHANGED job  BY PayStepMoves
  <2>2. now \in Int  BY GateAssumption DEF DataInv, SharedTypeOK
  <2> QED  BY <2>1, <2>2 DEF DataInv, SharedTypeOK
<1>2. UNCHANGED now
  <2>1. Draw(p) => UNCHANGED now  BY DEF Draw
  <2>2. RollbackLocal(p) => UNCHANGED now  BY DEF RollbackLocal
  <2>3. RollbackAcl(p) => UNCHANGED now  BY DEF RollbackAcl
  <2>4. RollbackAclUpdate(p) => UNCHANGED now  BY DEF RollbackAclUpdate
  <2>5. VerifyOld(p) \/ DrawOld(p) => UNCHANGED now  BY DEF VerifyOld, DrawOld
  <2> QED  BY <2>1, <2>2, <2>3, <2>4, <2>5 DEF TakePaymentNext
<1>3. OneGives(p)
  <2>1. \A q \in Script : q # p => job'[q] = job[q] /\ pay'[q] = pay[q]
    BY <1>1 DEF PayMoves
  <2> QED  BY <2>1, OthersGive DEF OneGives
<1> DEFINE a == pay[p].addr
           type == pay[p].type
<1>4. /\ \A x, y : Gives(p, x, y) <=> x = a /\ y = type /\ pay[p].draw # "undone"
      /\ \A x, y : Gives(p, x, y)' <=> x = a /\ y = type /\ pay'[p].draw # "undone"
  BY <1>1 DEF PayMoves, Gives, StartedFit, Started
<1>5. ASSUME UNCHANGED <<acl, local>>,
             pay'[p].draw = pay[p].draw \/ (pay[p].draw # "undone" /\ pay'[p].draw # "undone")
      PROVE  TimeFits'
  <2>1. \A q \in Script : \A x \in Addr, y \in Acls : Gives(q, x, y)' <=> Gives(q, x, y)
    BY <1>3, <1>4, <1>5 DEF OneGives
  <2>2. now \in Int /\ now' \in Int /\ now <= now'  BY <1>1, <1>2
  <2> QED  BY <1>5, <2>1, <2>2, TimeKept
<1>6. CASE Draw(p) \/ VerifyOld(p) \/ DrawOld(p)
  <2>1. UNCHANGED <<acl, local>>  BY <1>6 DEF Draw, VerifyOld, DrawOld
  <2>2. \/ pay'[p].draw = pay[p].draw
        \/ pay[p].draw # "undone" /\ pay'[p].draw \notin {"undone", "rollback2"}
    <3>1. CASE Draw(p)
      <4>1. pay[p].draw = "draw" /\ \E to \in {"paid", "rollback", "draw"} : DrawGoesTo(p, to)
        BY <3>1 DEF Draw
      <4> QED  BY <1>1, <4>1, DrawMoves
    <3>2. CASE VerifyOld(p) \/ DrawOld(p)
      <4>1. pay[p].old # "end" /\ \E to, v : OldGoesTo(p, to, v)
        BY <3>2 DEF VerifyOld, DrawOld
      <4> QED  BY <1>1, <4>1, OldMoves
    <3> QED  BY <1>6, <3>1, <3>2
  <2> QED  BY <1>1, <1>2, <1>5, <2>1, <2>2 DEF RollbackFits
<1>7. ASSUME pay[p].draw \in {"rollback", "rollback2"}
      PROVE  a \in Addr /\ type \in Acls /\ p \in Script
  BY <1>1, <1>7, PaymentIsOne DEF Acls
<1>8. CASE RollbackLocal(p)
  <2>1. /\ pay[p].draw = "rollback" /\ type = "local" /\ UNCHANGED acl /\ DrawGoesTo(p, "undone")
        /\ local' = [local EXCEPT ![a] = CASE @ = Absent -> pay[p].t - pay[p].dt
                                           [] @ = Unlimited -> Unlimited
                                           [] OTHER -> @ - pay[p].dt]
    BY <1>8 DEF RollbackLocal
  <2>2. pay'[p].draw = "undone"  BY <1>1, <2>1, DrawMoves
  <2>3. PriceFits(pay[p])  BY <1>1 DEF PayMoves, StartedFit, Started
  <2>4. pay[p].dt = Span  BY <2>1, <2>3 DEF PriceFits
  <2>5. \A x \in Addr, y \in Acls : /\ Gives(p, x, y) <=> x = a /\ y = "local"
                                    /\ ~Gives(p, x, y)'
    BY <1>4, <2>1, <2>2
  <2>6. a \in Addr  BY <1>7, <2>1
  <2> HIDE DEF a, type
  <2>7. TimeFits'  BY <1>1, <1>2, <1>3, <2>1, <2>4, <2>5, <2>6, LocalTimeTaken
  <2> QED  BY <1>1, <1>2, <2>2, <2>7
<1>9. CASE RollbackAcl(p)
  <2>1. /\ pay[p].draw = "rollback" /\ type = "acl" /\ UNCHANGED <<acl, local>>
        /\ \/ local[a] # Absent /\ DrawGoesTo(p, "undone")
           \/ pay' = [pay EXCEPT ![p].draw = "rollback2"]
    BY <1>9 DEF RollbackAcl
  <2>2. CASE pay' = [pay EXCEPT ![p].draw = "rollback2"]
    <3>1. pay'[p].draw = "rollback2"  BY <1>1, <2>1, <2>2, DrawMoves
    <3> QED  BY <1>1, <1>2, <1>5, <2>1, <3>1
  <2>3. CASE local[a] # Absent /\ DrawGoesTo(p, "undone")
    <3>1. pay'[p].draw = "undone"  BY <1>1, <2>1, <2>3, DrawMoves
    <3>2. \A x \in Addr, y \in Acls : /\ Gives(p, x, y) <=> x = a /\ y = "acl"
                                      /\ ~Gives(p, x, y)'
      BY <1>4, <2>1, <3>1
    <3>3. a \in Addr  BY <1>7, <2>1
    <3> HIDE DEF a, type
    <3>4. TimeFits'  BY <1>1, <1>2, <1>3, <2>1, <2>3, <3>2, <3>3, AclTimeTaken
    <3> QED  BY <1>1, <1>2, <3>1, <3>4
  <2> QED  BY <2>1, <2>2, <2>3
<1>10. CASE RollbackAclUpdate(p)
  <2>1. /\ pay[p].draw = "rollback2" /\ UNCHANGED local
        /\ \/ /\ acl' = ToppedUp(a, pay[p].t, -pay[p].dt, pay[p].rand)
              /\ DrawGoesTo(p, "undone")
           \/ UNCHANGED acl /\ DrawGoesTo(p, "rollback")
           \/ UNCHANGED acl /\ pay' = [pay EXCEPT ![p].draw = "dead", ![p].old = "end"]
    BY <1>10 DEF RollbackAclUpdate, Written, NotWritten, NotOpened
  <2>2. CASE /\ UNCHANGED acl
             /\ \/ DrawGoesTo(p, "rollback")
                \/ pay' = [pay EXCEPT ![p].draw = "dead", ![p].old = "end"]
    <3>1. pay'[p].draw \in {"rollback", "dead"}  BY <1>1, <2>1, <2>2, DrawMoves
    <3> QED  BY <1>1, <1>2, <1>5, <2>1, <2>2, <3>1
  <2>3. CASE /\ acl' = ToppedUp(a, pay[p].t, -pay[p].dt, pay[p].rand)
             /\ DrawGoesTo(p, "undone")
    <3>1. pay'[p].draw = "undone"  BY <1>1, <2>1, <2>3, DrawMoves
    <3>2. type = "acl" /\ pay[p].dt = Day
      <4>1. type = "acl"  BY <2>1 DEF RollbackFits
      <4>2. PriceFits(pay[p])  BY <1>1 DEF PayMoves, StartedFit, Started
      <4> QED  BY <4>1, <4>2 DEF PriceFits
    <3>3. \A x \in Addr, y \in Acls : /\ Gives(p, x, y) <=> x = a /\ y = "acl"
                                      /\ ~Gives(p, x, y)'
      BY <1>4, <2>1, <3>1, <3>2
    <3>4. a \in Addr /\ acl' = ToppedUp(a, pay[p].t, -Day, pay[p].rand)  BY <1>7, <2>1, <2>3, <3>2
    <3>5. pay[p].t \in Int /\ pay[p].rand \in Rand /\ -Day \in Int
      BY <1>1, <2>1, PaymentIsOne, GateAssumption
    <3>6. acl'[a] # Absent  BY <1>1, <3>4, <3>5, ToppedUpThere
    <3> HIDE DEF a
    <3>7. TimeFits'  BY <1>1, <1>2, <1>3, <2>1, <3>3, <3>4, <3>6, AclTimeTaken
    <3> QED  BY <1>1, <1>2, <3>1, <3>7
  <2> QED  BY <2>1, <2>2, <2>3
<1> QED  BY <1>1, <1>2, <1>6, <1>8, <1>9, <1>10 DEF TakePaymentNext

\* Every step keeps the time in order.
LEMMA TimeStep ==
  OnlyPayments /\ GateInv /\ GateInv' /\ StartedFit /\ TimeInv /\ [Next]_vars => TimeInv'
<1> SUFFICES ASSUME OnlyPayments, GateInv, GateInv', StartedFit, TimeInv, [Next]_vars
             PROVE  TimeInv'
  OBVIOUS
<1>1. /\ DataInv /\ DataInv' /\ OnlyPaying /\ TimeFits /\ RollbackFits
      /\ JobInv /\ JobTypeOK /\ now \in 0..MaxTime /\ now \in Int /\ now' \in Int
      /\ Cron = {} /\ Proc = Script /\ "full" \notin Faults
  BY GateAssumption DEF GateInv, DataInv, SharedTypeOK, JobInv, TimeInv, OnlyPayments, Proc
<1>2. ASSUME UNCHANGED <<acl, local, pay>>, now <= now',
             \A p \in Script : (job[p].pc # "spawn" /\ job'[p].pc # "spawn") \/ job'[p] = job[p]
      PROVE  TimeFits' /\ RollbackFits'
  <2>1. \A p \in Script : \A a \in Addr, type \in Acls : Gives(p, a, type)' <=> Gives(p, a, type)
    BY <1>2 DEF Gives
  <2> QED  BY <1>1, <1>2, <2>1, TimeKept DEF RollbackFits
<1>3. ASSUME NEW p \in Script, Others(p), UNCHANGED now, Paying(p)'
      PROVE  OnlyPaying'
  BY <1>1, <1>3 DEF OnlyPaying, Paying, Others
<1>4. CASE UNCHANGED vars
  BY <1>1, <1>2, <1>4 DEF vars, aclVars, tableVars, TimeInv, OnlyPaying, Paying
<1>5. CASE Tick
  <2>1. UNCHANGED <<acl, local, pay, job>> /\ now' = now + 1  BY <1>5 DEF Tick, aclVars, tableVars
  <2>2. now <= now'  BY <1>1, <2>1
  <2>3. OnlyPaying'
    <3>1. \A p \in Script : job[p].t \in Int
      BY <1>1, GateAssumption DEF JobTypeOK, JobRecord
    <3> QED  BY <1>1, <2>1, <3>1 DEF OnlyPaying, Paying
  <2> QED  BY <1>2, <2>1, <2>2, <2>3 DEF TimeInv
<1>6. ASSUME NEW p \in Script, Call(p), UNCHANGED work PROVE TimeInv'
  <2>1. UNCHANGED <<now, acl, local, pay>>  BY <1>6 DEF Call, aclVars, tableVars
  <2>2. /\ Others(p) /\ job[p].pc = "idle" /\ job'[p].pc \in {"list", "unlist", "extra"}
        /\ job'[p].kind \in Kinds /\ job'[p].t = now
        /\ job'[p].pc = "unlist" => job'[p].kind = "remove"
        /\ job'[p].pc = "list" => job'[p].kind = "add"
    BY <1>1, <1>6, CallEffect
  <2>3. job'[p].kind \in Payments  BY <2>2 DEF OnlyPayments
  <2>4. Paying(p)'  BY <1>1, <2>1, <2>2, <2>3 DEF Paying, Payments
  <2>5. OnlyPaying'  BY <1>3, <2>1, <2>2, <2>4
  <2>6. now <= now'  BY <1>1, <2>1
  <2>7. \A q \in Script : (job[q].pc # "spawn" /\ job'[q].pc # "spawn") \/ job'[q] = job[q]
    BY <1>1, <2>2 DEF Others
  <2> QED  BY <1>2, <2>1, <2>5, <2>6, <2>7 DEF TimeInv
<1>7. ASSUME NEW p \in Script, ScriptStep(p) PROVE TimeInv'
  <2>1. TimeFits' /\ Paying(p)' /\ Others(p) /\ UNCHANGED now
    BY <1>1, <1>7, ScriptTime
  <2>2. OnlyPaying'  BY <1>3, <2>1
  <2>3. RollbackFits'
    <3>1. CASE Spawn(p)
      <4>1. SpawnMoves(p)  BY <1>1, <3>1, SpawnEffect
      <4> QED  BY <1>1, <4>1 DEF SpawnMoves, RollbackFits
    <3>2. CASE ~Spawn(p)
      <4>1. UNCHANGED pay  BY <1>7, <3>2, PaymentsRest DEF ScriptStep
      <4> QED  BY <1>1, <4>1 DEF RollbackFits
    <3> QED  BY <3>1, <3>2
  <2> QED  BY <2>1, <2>2, <2>3 DEF TimeInv
<1>8. ASSUME NEW p \in Script, PayStep(p) PROVE TimeInv'
  <2>1. /\ TimeFits' /\ UNCHANGED <<now, job>> /\ PayMoves(p)
        /\ pay'[p].draw = "rollback2" => pay[p].type = "acl"
    BY <1>1, <1>8, PaymentTime
  <2>2. OnlyPaying'  BY <1>1, <2>1 DEF OnlyPaying, Paying
  <2>3. RollbackFits'  BY <1>1, <2>1 DEF RollbackFits, PayMoves
  <2> QED  BY <2>1, <2>2, <2>3 DEF TimeInv
<1>9. ASSUME NEW p \in Proc, RulesStep(p) PROVE TimeInv'
  <2>1. UNCHANGED <<now, acl, local, pay>>
    BY <1>9 DEF RulesStep, UpdateRules, RulesFilter, RulesRedirect, aclVars, tableVars
  <2>2. p \in Script /\ "rules2" \in PCs  BY <1>1 DEF PCs
  <2>3. /\ Others(p) /\ job[p].pc \in {"rules", "rules2"}
        /\ (GoesOn(p, {"rules"}, {"rules2"}) \/ Ends(p))
    <3>1. CASE RulesFilter(p)
      <4>1. Goto(p, "rules", "rules2") /\ job[p].pc = "rules"  BY <3>1 DEF RulesFilter, Goto
      <4> QED  BY <1>1, <2>2, <4>1, GoEffect
    <3>2. CASE RulesRedirect(p)
      <4>1. Exit(p) /\ job[p].pc = "rules2"  BY <1>1, <3>2 DEF RulesRedirect
      <4> QED  BY <1>1, <2>2, <4>1, EndEffect
    <3> QED  BY <1>9, <3>1, <3>2 DEF RulesStep, UpdateRules
  <2>4. Paying(p)'
    BY <1>1, <2>1, <2>2, <2>3 DEF GoesOn, Ends, OnlyPaying, Paying
  <2>5. OnlyPaying'  BY <1>3, <2>1, <2>2, <2>3, <2>4
  <2>6. \A q \in Script : (job[q].pc # "spawn" /\ job'[q].pc # "spawn") \/ job'[q] = job[q]
    BY <1>1, <2>3 DEF Others, GoesOn, Ends
  <2>7. now <= now'  BY <1>1, <2>1
  <2> QED  BY <1>2, <2>1, <2>5, <2>6, <2>7 DEF TimeInv
<1>10. ~\E c \in Cron : CronNext(c)  BY <1>1
<1> QED  BY <1>4, <1>5, <1>6, <1>7, <1>8, <1>9, <1>10 DEF Next

\* While clients only pay and the disk is not full, each has in the end the time for which
\* he has been drawn, or for which taking it back has died, and no other: whoever pays for the same address, whatever is refused and rolled back
\* meanwhile, and in which order (grant-access, topup, takepayment).
THEOREM PaidTimeKeptHolds == OnlyPayments => (Spec => []PaidTimeKept)
<1> SUFFICES ASSUME OnlyPayments PROVE Spec => []PaidTimeKept  OBVIOUS
<1>1. Init => StartedFit /\ TimeInv
  <2> SUFFICES ASSUME Init PROVE StartedFit /\ TimeInv  OBVIOUS
  <2>1. \A p \in Script : p \in Proc /\ job[p] = NoJob /\ pay[p] = NoPay
    BY DEF Init, JobInit, PayInit, Proc
  <2>2. \A a, type : Given(a, type) = {}  BY <2>1 DEF Given, Gives, NoJob
  <2>3. \A a \in Addr : acl[a] = Absent /\ local[a] = Absent
    BY DEF Init, OnlyPayments
  <2>4. TimeFits
    BY <2>2, <2>3, FS_EmptySet DEF TimeFits, GivenIsFinite, AclTimeFits, LocalTimeFits
  <2>5. OnlyPaying /\ RollbackFits
    BY <2>1 DEF Init, OnlyPaying, Paying, RollbackFits, NoJob, NoPay, Payments
  <2> QED  BY <2>4, <2>5, StartedFitInit DEF TimeInv
<1>2. GateInv /\ GateInv' /\ StartedFit /\ TimeInv /\ [Next]_vars => StartedFit' /\ TimeInv'
  BY StartedFitStep, TimeStep
<1>3. TimeInv => PaidTimeKept
  <2> SUFFICES ASSUME TimeInv, Quiet PROVE PaidTimeKept  BY DEF PaidTimeKept
  <2>1. \A a \in Addr, type \in Acls : Given(a, type) = PaidFor(a, type)
    BY DEF Quiet, Settled, Drawn, Over, Given, Gives, PaidFor
  <2> QED
    BY <2>1 DEF TimeInv, TimeFits, AclTimeFits, LocalTimeFits, Lasts, PaidTimeKept, Acls
<1> QED  BY <1>1, <1>2, <1>3, GateInvariance, PTL DEF Spec

----------------------------------------------------------------------------
(* Who is let through.                                                      *)

\* Nothing removes entries, and the disk has room for them.
OnlyAdditions ==
  Cron = {} /\ Kinds \subseteq Payments \cup {"add"} /\ "full" \notin Faults

OnlyAdding == \A p \in Script : Adding(p)

\* The address of a script that has found access, or given it, has an entry.
AccessIsListed ==
  \A p \in Script :
    /\ job[p].pc = "spawn" \/ job[p].ok => job[p].addr \in Listed
    /\ pay[p] # NoPay => pay[p].addr \in Listed

\* Script p has still to see to the rules for its client.
WillFollow(p, a) ==
  /\ job[p].addr = a
  /\ (job[p].pc = "spawn" /\ ~job[p].ok) \/ job[p].pc = "rules"

\* Who has an entry is let through, or a script for him has still to see to the rules.
AccessIsFollowed == \A a \in Listed \ filter : \E p \in Script : WillFollow(p, a)

AccessFits ==
  /\ scrap = {} /\ filter \subseteq Listed
  /\ AccessIsListed /\ AccessIsFollowed

AccessInv == OnlyAdding /\ AccessFits

\* A step after which the same addresses have entries, and as many scripts follow.
LEMMA AccessKept ==
  ASSUME AccessFits, NEW p \in Script, UNCHANGED <<scrap, filter>>, Listed' = Listed,
         \A q \in Script : q # p => job'[q] = job[q] /\ pay'[q] = pay[q],
         \A a \in Addr : WillFollow(p, a) => WillFollow(p, a)',
         job'[p].pc = "spawn" \/ job'[p].ok => job'[p].addr \in Listed,
         pay'[p] # NoPay => pay'[p].addr \in Listed
  PROVE  AccessFits'
<1>1. AccessIsListed'  BY DEF AccessFits, AccessIsListed
<1>2. \A q \in Script, a \in Addr : WillFollow(q, a) => WillFollow(q, a)'
  BY DEF WillFollow
<1>3. AccessIsFollowed'
  <2>1. ASSUME NEW a \in Listed, a \notin filter PROVE \E q \in Script : WillFollow(q, a)'
    <3>1. a \in Addr  BY DEF AccessFits, Listed, Entered
    <3> QED  BY <1>2, <2>1, <3>1 DEF AccessFits, AccessIsFollowed
  <2> QED  BY <2>1 DEF AccessIsFollowed
<1> QED  BY <1>1, <1>3 DEF AccessFits

\* A script gives its client an entry, and goes to a place from which it will see to the
\* rules unless it has found an entry there.
LEMMA AccessAdded ==
  ASSUME AccessFits, NEW p \in Script, Others(p), UNCHANGED <<filter, pay>>, pay[p] = NoPay,
         scrap' = {},
         Listed' = Listed \cup {job[p].addr}, job[p].pc \notin {"spawn", "rules"},
         job'[p].addr = job[p].addr, job'[p].ok = job[p].ok,
         job'[p].pc = "spawn" \/ job'[p].pc = "rules"
  PROVE  AccessFits'
<1>1. \A q \in Script : q # p => job'[q] = job[q]  BY DEF Others, Proc
<1>2. AccessIsListed'  BY <1>1 DEF AccessFits, AccessIsListed
<1>3. ASSUME NEW a \in Listed', a \notin filter PROVE \E q \in Script : WillFollow(q, a)'
  <2>1. CASE a \in Listed
    <3>1. PICK q \in Script : WillFollow(q, a)
      BY <1>3, <2>1 DEF AccessFits, AccessIsFollowed
    <3>2. q # p  BY <3>1 DEF WillFollow
    <3> QED  BY <1>1, <3>1, <3>2 DEF WillFollow
  <2>2. CASE a \notin Listed
    <3>1. a = job[p].addr /\ ~job[p].ok  BY <1>3, <2>2 DEF AccessFits, AccessIsListed
    <3>2. WillFollow(p, a)'  BY <3>1 DEF WillFollow
    <3> QED  BY <3>2
  <2> QED  BY <2>1, <2>2
<1>4. AccessIsFollowed'  BY <1>3 DEF AccessIsFollowed
<1>5. filter' \subseteq Listed'  BY DEF AccessFits
<1> QED  BY <1>2, <1>4, <1>5 DEF AccessFits

\* A topup of the acl makes its address listed.
LEMMA ToppedUpListed ==
  ASSUME acl \in Acl, NEW a \in Addr, NEW t \in Int, NEW dt \in Int, NEW r \in Rand,
         acl' = ToppedUp(a, t, dt, r), scrap = {}, scrap' = {}, UNCHANGED local
  PROVE  Listed' = Listed \cup {a}
<1>1. acl'[a] # Absent /\ \A x \in Addr : x # a => acl'[x] = acl[x]
  BY ToppedUpThere, ToppedUpTime
<1> QED  BY <1>1 DEF Listed, Entered

\* The same for the local acl.
LEMMA LocalListed ==
  ASSUME local \in Local, NEW a \in Addr, NEW e \in Minutes \cup {Unlimited},
         local' = [local EXCEPT ![a] = e], UNCHANGED <<acl, scrap>>
  PROVE  Listed' = Listed \cup {a}
<1>1. e # Absent  BY GateAssumption DEF Minutes
<1> QED  BY <1>1 DEF Listed, Entered, Local

\* Each step of a script that removes nothing leaves access in order.
LEMMA ScriptAccess ==
  ASSUME DataInv, StartedFit, OnlyAdding, AccessFits, NEW p \in Script, ScriptStep(p),
         "full" \notin Faults
  PROVE  AccessFits' /\ Adding(p)' /\ Others(p)
<1> USE DEF ScriptStep, aclVars, tableVars, ruleVars
<1>1. /\ p \in Proc /\ JobFits /\ JobTypeOK /\ acl \in Acl /\ local \in Local
      /\ {"update", "spawn", "rules"} \subseteq PCs
      /\ job[p].t \in Int /\ Day \in Int /\ Span \in Int
  BY GateAssumption DEF Proc, DataInv, SharedTypeOK, JobInv, JobTypeOK, JobRecord, PCs
<1>2. Adding(p)  BY DEF OnlyAdding
<1>3. /\ job[p].pc = "spawn" \/ job[p].ok => job[p].addr \in Listed
      /\ pay[p] # NoPay => pay[p].addr \in Listed
      /\ scrap = {}
  BY DEF AccessFits, AccessIsListed
<1>4. ASSUME UNCHANGED <<acl, scrap, local, filter, pay>>, Others(p),
             job[p].pc \notin {"spawn", "rules"},
             job'[p].pc = "spawn" \/ job'[p].ok => job'[p].addr \in Listed
      PROVE  AccessFits'
  <2>1. \A q \in Script : q # p => job'[q] = job[q] /\ pay'[q] = pay[q]
    BY <1>4 DEF Others, Proc
  <2>2. \A a \in Addr : WillFollow(p, a) => WillFollow(p, a)'  BY <1>4 DEF WillFollow
  <2>3. Listed' = Listed  BY <1>4 DEF Listed, Entered
  <2> QED  BY <1>3, <1>4, <2>1, <2>2, <2>3, AccessKept
<1>5. ASSUME Ends(p) PROVE Adding(p)'  BY <1>5 DEF Ends, Adding
<1>6. ASSUME NEW from, NEW to, GoesOn(p, from, to), job'[p].pc \notin {"drop", "unlist"}
      PROVE  Adding(p)'
  BY <1>2, <1>6 DEF GoesOn, Adding
<1>7. CASE ExtraAccess(p) \/ ReadAcl(p) \/ Verify(p)
  <2>1. /\ UNCHANGED <<now, acl, scrap, local, filter, pay>> /\ Others(p)
        /\ job[p].pc \in {"extra", "read", "verify"}
        /\ \/ Ends(p)
           \/ /\ GoesOn(p, {"extra", "read", "verify"}, {"read", "verify", "extra2", "update"})
              /\ job'[p].ok = job[p].ok \/ job[p].addr \in Listed
    BY <1>2, <1>7, LookEffect
  <2>2. job'[p].pc = "spawn" \/ job'[p].ok => job'[p].addr \in Listed
    BY <1>3, <2>1 DEF Ends, GoesOn
  <2>3. AccessFits'  BY <1>4, <2>1, <2>2
  <2>4. Adding(p)'  BY <1>2, <1>5, <2>1 DEF GoesOn, Adding
  <2> QED  BY <2>1, <2>3, <2>4
<1>8. CASE TopupExtra(p)
  <2>1. job[p].pc = "extra2" /\ UNCHANGED <<acl, scrap, local, filter, pay>>
    BY <1>8 DEF TopupExtra, Goto
  <2>2. job[p].addr \in Addr  BY <1>1, <2>1 DEF JobFits
  <2>3. PICK to \in {"update", "spawn"} :
          Goto(p, "extra2", to) /\ (to = "spawn" => local[job[p].addr] # Absent)
    BY <1>8 DEF TopupExtra
  <2>4. Others(p) /\ GoesOn(p, {"extra2"}, {to}) /\ job'[p].ok = job[p].ok
    BY <1>1, <2>3, GoEffect
  <2>5. job'[p].pc = "spawn" \/ job'[p].ok => job'[p].addr \in Listed
    BY <1>3, <2>2, <2>3, <2>4 DEF GoesOn, Listed, Entered
  <2>6. AccessFits'  BY <1>4, <2>1, <2>4, <2>5
  <2>7. Adding(p)'  BY <1>6, <2>4 DEF GoesOn
  <2> QED  BY <2>4, <2>6, <2>7
<1>9. CASE TopupAcl(p)
  <2>1. /\ job[p].pc = "update" /\ job[p].kind = "grant" /\ UNCHANGED <<local, filter, pay>>
    BY <1>9 DEF TopupAcl, Goto
  <2>2. job[p].addr \in Addr /\ job[p].rand \in Rand
    BY <1>1, <2>1 DEF JobFits, Payments
  <2>3. CASE Exit(p) /\ UNCHANGED <<acl, scrap>>
    <3>1. Others(p) /\ Ends(p)  BY <2>3, EndEffect
    <3>2. AccessFits'  BY <1>4, <2>1, <2>3, <3>1 DEF Ends
    <3> QED  BY <1>5, <3>1, <3>2
  <2>4. CASE /\ Goto(p, "update", "spawn")
             /\ acl' = ToppedUp(job[p].addr, job[p].t, Day, job[p].rand) /\ scrap' = {}
    <3>1. Others(p) /\ GoesOn(p, {"update"}, {"spawn"}) /\ job'[p].ok = job[p].ok
      BY <1>1, <2>4, GoEffect
    <3>2. Listed' = Listed \cup {job[p].addr}
      BY <1>1, <1>3, <2>1, <2>2, <2>4, ToppedUpListed
    <3>3. pay[p] = NoPay  BY <2>1, ScriptGives
    <3>4. AccessFits'  BY <2>1, <2>4, <3>1, <3>2, <3>3, AccessAdded DEF GoesOn
    <3>5. Adding(p)'  BY <1>6, <3>1 DEF GoesOn
    <3> QED  BY <3>1, <3>4, <3>5
  <2> QED  BY <1>9, <2>3, <2>4 DEF TopupAcl, Written, NotWritten, NotOpened
<1>10. CASE TopupLocal(p)
  <2>1. job[p].pc \in {"update", "list"} /\ UNCHANGED <<acl, scrap, filter, pay>>
    BY <1>10 DEF TopupLocal, Goto
  <2>2. job[p].addr \in Addr /\ job[p].t \in Int /\ Span \in Int
    BY <1>1, <2>1 DEF JobFits
  <2>3. PICK e \in Minutes \cup {Unlimited} : local' = [local EXCEPT ![job[p].addr] = e]
    <3>1. local[job[p].addr] \in Minutes \cup {Absent, Unlimited}
      BY <1>1, <2>2 DEF Local
    <3> QED  BY <1>10, <2>2, <3>1 DEF TopupLocal, Minutes, Goto
  <2>4. Listed' = Listed \cup {job[p].addr}
    BY <1>1, <2>1, <2>2, <2>3, LocalListed
  <2>5. PICK to \in {"spawn", "rules"} : Goto(p, job[p].pc, to)
    BY <1>10 DEF TopupLocal, Goto
  <2>6. Others(p) /\ GoesOn(p, {job[p].pc}, {to}) /\ job'[p].ok = job[p].ok
    BY <1>1, <2>5, GoEffect
  <2>7. pay[p] = NoPay  BY <2>1, ScriptGives
  <2>8. AccessFits'  BY <1>3, <2>1, <2>4, <2>6, <2>7, AccessAdded DEF GoesOn
  <2>9. Adding(p)'  BY <1>6, <2>6 DEF GoesOn
  <2> QED  BY <2>6, <2>8, <2>9
<1>11. CASE Spawn(p)
  <2>1. SpawnMoves(p)  BY <1>11, SpawnEffect
  <2>2. /\ UNCHANGED <<acl, scrap, local, filter>>
        /\ IF job[p].ok THEN Exit(p) ELSE Goto(p, "spawn", "rules")
    BY <1>11 DEF Spawn
  <2>3. \A q \in Script : q # p => job'[q] = job[q] /\ pay'[q] = pay[q]
    BY <2>1 DEF SpawnMoves, Others, Proc
  <2>4. Listed' = Listed  BY <2>2 DEF Listed, Entered
  <2>5. pay'[p].addr \in Listed  BY <1>3, <2>1 DEF SpawnMoves
  <2>6. CASE job[p].ok /\ Exit(p)
    <3>1. Ends(p)  BY <2>6, EndEffect
    <3>2. \A a \in Addr : ~WillFollow(p, a)  BY <2>1, <2>6 DEF SpawnMoves, WillFollow
    <3>3. AccessFits'  BY <2>2, <2>3, <2>4, <2>5, <3>1, <3>2, AccessKept DEF Ends
    <3> QED  BY <1>5, <2>1, <3>1, <3>3 DEF SpawnMoves
  <2>7. CASE ~job[p].ok /\ Goto(p, "spawn", "rules")
    <3>1. GoesOn(p, {"spawn"}, {"rules"}) /\ job'[p].ok = job[p].ok
      BY <1>1, <2>7, GoEffect
    <3>2. \A a \in Addr : WillFollow(p, a) => WillFollow(p, a)'
      BY <3>1 DEF GoesOn, WillFollow
    <3>3. AccessFits'
      BY <1>3, <2>2, <2>3, <2>4, <2>5, <2>7, <3>1, <3>2, AccessKept DEF GoesOn
    <3>4. Adding(p)'  BY <1>6, <3>1 DEF GoesOn
    <3> QED  BY <2>1, <3>3, <3>4 DEF SpawnMoves
  <2> QED  BY <2>2, <2>6, <2>7
<1>12. CASE DropEntry(p)  BY <1>2, <1>12 DEF DropEntry, Goto, Adding
<1>13. CASE RemoveLocal(p)  BY <1>2, <1>13 DEF RemoveLocal, Goto, Adding
<1> QED
  BY <1>7, <1>8, <1>9, <1>10, <1>11, <1>12, <1>13 DEF ScriptNext

\* takepayment takes nobody's entry, though it may take its time.
LEMMA PaymentAccess ==
  ASSUME DataInv, AccessFits, NEW p \in Script, PayStep(p), "full" \notin Faults
  PROVE  AccessFits' /\ UNCHANGED job
<1> USE DEF PayStep, aclVars, tableVars, ruleVars, At
<1> DEFINE q == pay[p]
<1>1. PayMoves(p) /\ UNCHANGED job  BY PayStepMoves
<1>2. acl \in Acl /\ local \in Local /\ PayInv /\ scrap = {}
  BY DEF DataInv, SharedTypeOK, AccessFits
<1>3. q.addr \in Listed /\ pay'[p].addr = q.addr
  BY <1>1 DEF PayMoves, AccessFits, AccessIsListed
<1>4. Listed' = Listed /\ UNCHANGED <<scrap, filter>>
  <2>1. CASE Draw(p) \/ RollbackAcl(p) \/ VerifyOld(p) \/ DrawOld(p)
    <3>1. UNCHANGED <<acl, scrap, local, filter>>
      BY <2>1 DEF Draw, RollbackAcl, VerifyOld, DrawOld
    <3> QED  BY <3>1 DEF Listed, Entered
  <2>2. CASE RollbackLocal(p)
    <3>1. /\ q.draw = "rollback" /\ UNCHANGED <<acl, scrap, filter>>
          /\ local' = [local EXCEPT ![q.addr] = CASE @ = Absent -> q.t - q.dt
                                                  [] @ = Unlimited -> Unlimited
                                                  [] OTHER -> @ - q.dt]
      BY <2>2 DEF RollbackLocal
    <3>2. q.addr \in Addr /\ q.t \in Int /\ q.dt \in Int  BY <1>2, <3>1, PaymentIsOne
    <3> HIDE DEF q
    <3>3. local[q.addr] \in Minutes \cup {Absent, Unlimited}  BY <1>2, <3>2 DEF Local
    <3> DEFINE e == CASE local[q.addr] = Absent -> q.t - q.dt
                      [] local[q.addr] = Unlimited -> Unlimited
                      [] OTHER -> local[q.addr] - q.dt
    <3>4. local' = [local EXCEPT ![q.addr] = e]  BY <3>1
    <3>5. e \in Minutes \cup {Unlimited}  BY <3>2, <3>3 DEF Minutes
    <3> HIDE DEF e
    <3>6. Listed' = Listed \cup {q.addr}  BY <1>2, <3>1, <3>2, <3>4, <3>5, LocalListed
    <3> QED  BY <1>3, <3>1, <3>6
  <2>3. CASE RollbackAclUpdate(p)
    <3>1. /\ q.draw = "rollback2" /\ UNCHANGED <<local, filter>>
          /\ acl' = ToppedUp(q.addr, q.t, -q.dt, q.rand) \/ UNCHANGED acl
          /\ scrap' = {}
      BY <1>2, <2>3 DEF RollbackAclUpdate, Written, NotWritten, NotOpened
    <3>2. q.addr \in Addr /\ q.t \in Int /\ -q.dt \in Int /\ q.rand \in Rand
      BY <1>2, <3>1, PaymentIsOne
    <3> HIDE DEF q
    <3>3. CASE acl' = ToppedUp(q.addr, q.t, -q.dt, q.rand)
      <4>1. Listed' = Listed \cup {q.addr}  BY <1>2, <3>1, <3>2, <3>3, ToppedUpListed
      <4> QED  BY <1>2, <1>3, <3>1, <4>1
    <3>4. CASE UNCHANGED acl  BY <1>2, <3>1, <3>4 DEF Listed, Entered
    <3> QED  BY <3>1, <3>3, <3>4
  <2> QED  BY <2>1, <2>2, <2>3 DEF TakePaymentNext
<1>5. \A x \in Script : x # p => job'[x] = job[x] /\ pay'[x] = pay[x]
  BY <1>1 DEF PayMoves
<1>6. \A a \in Addr : WillFollow(p, a) => WillFollow(p, a)'  BY <1>1 DEF WillFollow
<1>7. /\ job'[p].pc = "spawn" \/ job'[p].ok => job'[p].addr \in Listed
      /\ pay'[p].addr \in Listed
  BY <1>1, <1>3 DEF AccessFits, AccessIsListed
<1> HIDE DEF q
<1>8. AccessFits'  BY <1>4, <1>5, <1>6, <1>7, AccessKept
<1> QED  BY <1>1, <1>8

\* Every step leaves access in order.
LEMMA AccessStep ==
  OnlyAdditions /\ GateInv /\ StartedFit /\ AccessInv /\ [Next]_vars => AccessInv'
<1> SUFFICES ASSUME OnlyAdditions, GateInv, StartedFit, AccessInv, [Next]_vars
             PROVE  AccessInv'
  OBVIOUS
<1>1. /\ DataInv /\ OnlyAdding /\ AccessFits /\ JobInv /\ JobTypeOK /\ now \in 0..MaxTime
      /\ Cron = {} /\ Proc = Script /\ "full" \notin Faults
  BY DEF GateInv, DataInv, SharedTypeOK, JobInv, AccessInv, OnlyAdditions, Proc
<1>2. ASSUME UNCHANGED <<acl, scrap, local, filter, job, pay>> PROVE AccessInv'
  BY <1>1, <1>2
  DEF AccessInv, OnlyAdding, Adding, AccessFits, AccessIsListed, AccessIsFollowed,
      WillFollow, Listed, Entered
<1>3. ASSUME NEW p \in Script, Others(p), Adding(p)' PROVE OnlyAdding'
  BY <1>1, <1>3 DEF OnlyAdding, Adding, Others
<1>4. CASE UNCHANGED vars  BY <1>2, <1>4 DEF vars, aclVars, tableVars, ruleVars
<1>5. CASE Tick  BY <1>2, <1>5 DEF Tick, aclVars, tableVars, ruleVars
<1>6. ASSUME NEW p \in Script, Call(p), UNCHANGED work PROVE AccessInv'
  <2>1. UNCHANGED <<acl, scrap, local, filter, pay>>  BY <1>6 DEF Call, aclVars, tableVars, ruleVars
  <2>2. /\ Others(p) /\ job[p].pc = "idle" /\ job'[p].pc \in {"list", "unlist", "extra"}
        /\ job'[p].kind \in Kinds /\ job'[p].ok = FALSE
        /\ job'[p].pc = "unlist" => job'[p].kind = "remove"
    BY <1>1, <1>6, CallEffect
  <2>3. job'[p].kind \in Payments \cup {"add"}  BY <2>2 DEF OnlyAdditions
  <2>4. Adding(p)'  BY <2>2, <2>3 DEF Adding, Payments
  <2>5. OnlyAdding'  BY <1>3, <2>2, <2>4
  <2>6. \A q \in Script : q # p => job'[q] = job[q] /\ pay'[q] = pay[q]
    BY <1>1, <2>1, <2>2 DEF Others
  <2>7. \A a \in Addr : WillFollow(p, a) => WillFollow(p, a)'
    BY <2>2 DEF WillFollow
  <2>8. Listed' = Listed  BY <2>1 DEF Listed, Entered
  <2>9. AccessFits'
    BY <1>1, <2>1, <2>2, <2>6, <2>7, <2>8, AccessKept DEF AccessFits, AccessIsListed
  <2> QED  BY <2>5, <2>9 DEF AccessInv
<1>7. ASSUME NEW p \in Script, ScriptStep(p) PROVE AccessInv'
  <2>1. AccessFits' /\ Adding(p)' /\ Others(p)  BY <1>1, <1>7, ScriptAccess
  <2> QED  BY <1>3, <2>1 DEF AccessInv
<1>8. ASSUME NEW p \in Script, PayStep(p) PROVE AccessInv'
  <2>1. AccessFits' /\ UNCHANGED job  BY <1>1, <1>8, PaymentAccess
  <2> QED  BY <1>1, <2>1 DEF AccessInv, OnlyAdding, Adding
<1>9. ASSUME NEW p \in Proc, RulesStep(p) PROVE AccessInv'
  <2>1. UNCHANGED <<acl, scrap, local, pay>>
    BY <1>9 DEF RulesStep, UpdateRules, RulesFilter, RulesRedirect, aclVars, tableVars
  <2>2. Listed' = Listed /\ p \in Script /\ "rules2" \in PCs  BY <1>1, <2>1 DEF Listed, Entered, PCs
  <2>3. CASE RulesFilter(p)
    <3>1. Goto(p, "rules", "rules2") /\ filter' = Listed  BY <2>3 DEF RulesFilter
    <3>2. Others(p) /\ GoesOn(p, {"rules"}, {"rules2"}) /\ job'[p].ok = job[p].ok
      BY <1>1, <2>2, <3>1, GoEffect
    <3>3. AccessIsListed'
      BY <1>1, <2>1, <2>2, <3>2 DEF AccessFits, AccessIsListed, Others, GoesOn
    <3>4. AccessFits'  BY <1>1, <2>1, <2>2, <3>1, <3>3 DEF AccessFits, AccessIsFollowed
    <3>5. Adding(p)'  BY <1>1, <2>2, <3>2 DEF OnlyAdding, Adding, GoesOn
    <3> QED  BY <1>3, <2>2, <3>2, <3>4, <3>5 DEF AccessInv
  <2>4. CASE RulesRedirect(p)
    <3>1. Exit(p) /\ job[p].pc = "rules2" /\ UNCHANGED filter
      BY <1>1, <2>4 DEF RulesRedirect
    <3>2. Others(p) /\ Ends(p)  BY <1>1, <2>2, <3>1, EndEffect
    <3>3. \A q \in Script : q # p => job'[q] = job[q] /\ pay'[q] = pay[q]
      BY <1>1, <2>1, <3>2 DEF Others
    <3>4. \A a \in Addr : WillFollow(p, a) => WillFollow(p, a)'
      BY <3>1 DEF WillFollow
    <3>5. /\ job'[p].pc = "spawn" \/ job'[p].ok => job'[p].addr \in Listed
          /\ pay'[p] # NoPay => pay'[p].addr \in Listed
      BY <1>1, <2>1, <2>2, <3>2 DEF Ends, AccessFits, AccessIsListed
    <3>6. AccessFits'
      BY <1>1, <2>1, <2>2, <3>1, <3>3, <3>4, <3>5, AccessKept
    <3>7. Adding(p)'  BY <3>2 DEF Ends, Adding
    <3> QED  BY <1>3, <2>2, <3>2, <3>6, <3>7 DEF AccessInv
  <2> QED  BY <1>9, <2>3, <2>4 DEF RulesStep, UpdateRules
<1>10. ~\E c \in Cron : CronNext(c)  BY <1>1
<1> QED  BY <1>4, <1>5, <1>6, <1>7, <1>8, <1>9, <1>10 DEF Next

\* While nothing removes entries and the disk is not full, whoever has one is let through when the scripts have
\* ended, although only the script that had found no entry sees to the rules, and what it
\* had found may be stale by then (grant-access, topup, whitelist, update-rules).
THEOREM PaidAreLetThroughHolds == OnlyAdditions => (Spec => []PaidAreLetThrough)
<1> SUFFICES ASSUME OnlyAdditions PROVE Spec => []PaidAreLetThrough  OBVIOUS
<1>1. Init => StartedFit /\ AccessInv
  <2> SUFFICES ASSUME Init PROVE StartedFit /\ AccessInv  OBVIOUS
  <2>1. \A p \in Script : p \in Proc /\ job[p] = NoJob /\ pay[p] = NoPay
    BY DEF Init, JobInit, PayInit, Proc
  <2>2. OnlyAdding  BY <2>1 DEF OnlyAdding, Adding, NoJob
  <2>3. AccessIsListed  BY <2>1 DEF AccessIsListed, NoJob
  <2>4. filter = Listed /\ scrap = {}  BY DEF Init
  <2> QED
    BY <2>2, <2>3, <2>4, StartedFitInit DEF AccessInv, AccessFits, AccessIsFollowed
<1>2. GateInv /\ StartedFit /\ AccessInv /\ [Next]_vars => StartedFit' /\ AccessInv'
  BY StartedFitStep, AccessStep
<1>3. AccessInv => PaidAreLetThrough
  BY DEF AccessInv, AccessFits, AccessIsFollowed, WillFollow, PaidAreLetThrough, Quiet, Listed, Entered
<1> QED  BY <1>1, <1>2, <1>3, GateInvariance, PTL DEF Spec
=============================================================================
