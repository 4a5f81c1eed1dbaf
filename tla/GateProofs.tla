------------------------------ MODULE GateProofs ------------------------------
(***************************************************************************)
(* The vending machine with any number of clients, addresses, rands and    *)
(* cron scripts: whoever is let through has an entry when the scripts have *)
(* ended, the two chains agree, and expire-rules writes no expired entry.  *)
(* GateInv is inductive.  Its data half says what a script knows at each   *)
(* place, its control half that only the holder of the acl lock is at a    *)
(* place where others must wait, and that whoever removes an entry has     *)
(* still to see to the rules, has dropped it in a refresh that is          *)
(* remembered, or has left the address behind by a fault.                  *)
(***************************************************************************)
EXTENDS Gate, TLAPS

Payments == {"grant", "topup"}
ScriptPlaces == {"idle", "extra", "read", "verify", "extra2", "update", "spawn", "drop",
                 "list", "unlist", "rules", "rules2", "done"}
CronPlaces == {"idle", "refresh", "needs", "extras", "lock", "each", "verifyrest",
               "drain", "rules", "rules2"}

\* What a script knows where it is.
JobFits ==
  /\ \A p \in Script :
       /\ job[p].pc \in ScriptPlaces
       /\ job[p].pc \notin {"idle", "done"} => job[p].addr \in Addr
       /\ job[p].pc \in {"extra", "read"} => job[p].kind \in Payments \cup {"logout"}
       /\ job[p].pc \in {"verify", "extra2", "update", "spawn"} => job[p].kind \in Payments
       /\ job[p].kind \in Payments => job[p].rand \in Rand
  /\ \A c \in Cron : job[c].pc \in CronPlaces

JobInv == JobTypeOK /\ JobFits

\* Only an old rand with value is drawn.
PayFits ==
  \A p \in Script :
    pay[p].old = "drawold" => pay[p].oldrand \in Rand /\ pay[p].oldvalue > 0

PayInv == PayTypeOK /\ PayFits

\* From its refresh to the end of its update expire-rules may die of an error.
Remembering == {"extras", "lock", "each", "verifyrest", "drain"}

\* While expire-rules updates the table, it has still to look at the expired entries,
\* of which at most one is being charged.
WorkFits ==
  \A c \in Cron :
    /\ work[c].rest \in Nat
    /\ \A a, b \in work[c].cur : a = b
    /\ job[c].pc \notin {"verifyrest", "drain"} => work[c].cur = {}
    /\ job[c].pc \notin Remembering => work[c].gone = {}
    /\ Updating(c) => /\ work[c].todo \cap work[c].cur = {}
                      /\ work[c].todo \cup work[c].cur = Expired(work[c].entries, job[c].t)

WorkInv == WorkTypeOK /\ WorkFits

SharedTypeOK ==
  /\ now \in 0..MaxTime
  /\ acl \in Acl /\ local \in Local
  /\ scrap \subseteq Addr /\ stranded \subseteq Addr
  /\ holder \in Proc \cup {Nobody}
  /\ filter \subseteq Addr /\ redirect \subseteq Addr
  /\ value \in [Rand -> Nat] /\ till \in Nat /\ unheard \in Nat /\ charged \in Nat

DataInv == SharedTypeOK /\ JobInv /\ PayInv /\ WorkInv

Locking == {"rules2", "each", "verifyrest", "drain"}

\* Only the holder of the lock is inside.
LockFollowsPc ==
  /\ \A p \in Proc : job[p].pc \in Locking => holder = p
  /\ holder # Nobody => job[holder].pc \in Locking

\* The chains differ only while update-rules is between them.
ChainsFollowPc ==
  /\ \A p \in Proc : job[p].pc = "rules2" => filter = Listed
  /\ (\A p \in Proc : job[p].pc # "rules2") => filter = redirect

\* Who has an entry, or has lost it by a fault or in a refresh that may yet be
\* followed by one.
Gone == UNION {work[c].gone : c \in Cron}
Explained == Entered \cup stranded \cup Gone

\* Whoever else has removed an entry has still to see to the rules.
RemovalsAreFollowed ==
  filter \subseteq Explained \/ \E p \in Proc : job[p].pc = "rules"

ControlInv == LockFollowsPc /\ ChainsFollowPc /\ RemovalsAreFollowed

GateInv == DataInv /\ ControlInv

----------------------------------------------------------------------------
(* What the steps of a script do to its local variables.                    *)

Others(p) == \A q \in Proc : q # p => job'[q] = job[q]

\* A script that goes on keeps what it knows.
LEMMA GotoEffect ==
  ASSUME JobTypeOK, NEW p \in Proc, NEW from, NEW to \in PCs, Goto(p, from, to)
  PROVE  /\ JobTypeOK' /\ Others(p)
         /\ job[p].pc = from /\ job'[p].pc = to
         /\ job'[p].kind = job[p].kind /\ job'[p].addr = job[p].addr
         /\ job'[p].rand = job[p].rand /\ job'[p].t = job[p].t
         /\ job'[p].ok = job[p].ok
  BY DEF JobTypeOK, JobRecord, Goto, Others

\* A script that ends forgets it.
LEMMA ExitEffect ==
  ASSUME JobTypeOK, NEW p \in Proc, Exit(p)
  PROVE  /\ JobTypeOK' /\ Others(p)
         /\ job'[p].pc = "done" /\ job'[p].kind = "none"
         /\ job'[p].t = 0 /\ job'[p].ok = FALSE
<1>1. [NoJob EXCEPT !.pc = "done"] \in JobRecord
  <2>1. 0 \in 0..MaxTime  BY GateAssumption
  <2> QED  BY <2>1 DEF NoJob, JobRecord, PCs, AllKinds
<1>2. JobTypeOK'  BY <1>1 DEF JobTypeOK, Exit
<1>3. Others(p) /\ job'[p] = [NoJob EXCEPT !.pc = "done"]
  BY DEF JobTypeOK, Exit, Others
<1> QED  BY <1>2, <1>3 DEF NoJob

\* A script that goes to a place that fits it leaves the others where they fit.
LEMMA JobInvOfScript ==
  ASSUME JobInv, JobTypeOK', NEW p \in Script, Others(p),
         job'[p].pc \in ScriptPlaces,
         job'[p].pc \notin {"idle", "done"} => job'[p].addr \in Addr,
         job'[p].pc \in {"extra", "read"} => job'[p].kind \in Payments \cup {"logout"},
         job'[p].pc \in {"verify", "extra2", "update", "spawn"} => job'[p].kind \in Payments,
         job'[p].kind \in Payments => job'[p].rand \in Rand
  PROVE  JobInv'
  BY GateAssumption DEF JobInv, JobFits, Others, Proc

\* The same for cron.
LEMMA JobInvOfCron ==
  ASSUME JobInv, JobTypeOK', NEW c \in Cron, Others(c), job'[c].pc \in CronPlaces
  PROVE  JobInv'
  BY GateAssumption DEF JobInv, JobFits, Others, Proc

\* The records of expire-rules fit while only other scripts change.
LEMMA WorkInvKept ==
  ASSUME WorkInv, UNCHANGED work, \A c \in Cron : job'[c] = job[c]
  PROVE  WorkInv'
  BY DEF WorkInv, WorkTypeOK, WorkFits, Updating, Expired

\* A call makes a script out of an idle process.
LEMMA CallEffect ==
  ASSUME JobInv, now \in 0..MaxTime, NEW p \in Proc, Call(p)
  PROVE  /\ JobInv' /\ Others(p) /\ job[p].pc = "idle"
         /\ job'[p].pc \in {"list", "unlist", "extra"}
         /\ job'[p].kind \in Kinds /\ job'[p].t = now /\ job'[p].ok = FALSE
         /\ job'[p].pc = "unlist" => job'[p].kind = "remove"
         /\ job'[p].pc = "list" => job'[p].kind = "add"
<1>1. p \in Script  BY DEF Call
<1>2. PICK kind \in Kinds, a \in Addr, r \in Rand :
        job' = [job EXCEPT ![p] =
                 [kind |-> kind, addr |-> a,
                  pc |-> CASE kind = "add" -> "list"
                           [] kind = "remove" -> "unlist"
                           [] OTHER -> "extra",
                  rand |-> IF kind \in {"grant", "topup"} THEN r ELSE NoRand,
                  ok |-> FALSE, oldrand |-> NoRand, t |-> now]]
  BY DEF Call
<1> DEFINE place == CASE kind = "add" -> "list"
                      [] kind = "remove" -> "unlist"
                      [] OTHER -> "extra"
           new == [kind |-> kind, addr |-> a, pc |-> place,
                   rand |-> IF kind \in {"grant", "topup"} THEN r ELSE NoRand,
                   ok |-> FALSE, oldrand |-> NoRand, t |-> now]
<1>3. kind \in AllKinds  BY KindsAssumption
<1>4. place \in {"list", "unlist", "extra"}
      /\ (place = "extra" => kind \in Payments \cup {"logout"})
      /\ (place = "unlist" => kind = "remove") /\ (place = "list" => kind = "add")
  BY <1>3 DEF AllKinds, Payments
<1>5. new \in JobRecord
  BY <1>3, <1>4 DEF JobRecord, PCs
<1>6. job' = [job EXCEPT ![p] = new]  BY <1>2
<1>7. new.pc = place /\ new.kind = kind /\ new.addr = a /\ new.t = now /\ new.ok = FALSE
      /\ (kind \in Payments => new.rand = r)
  BY DEF Payments
<1> HIDE DEF place, new
<1>8. JobTypeOK' /\ Others(p) /\ job'[p] = new
  BY <1>5, <1>6 DEF JobInv, JobTypeOK, Others
<1>9. JobInv'
  BY <1>1, <1>4, <1>7, <1>8, JobInvOfScript DEF ScriptPlaces
<1> QED  BY <1>4, <1>7, <1>8, <1>9 DEF Call

\* hasaccess remembers that there is an entry, and perhaps its rand.
LEMMA AccessEffect ==
  ASSUME JobTypeOK, NEW p \in Proc, NEW r \in Rand \cup {NoRand},
         \/ job' = [job EXCEPT ![p].ok = TRUE, ![p].pc = "verify"]
         \/ job' = [job EXCEPT ![p].ok = TRUE, ![p].oldrand = r, ![p].pc = "verify"]
  PROVE  /\ JobTypeOK' /\ Others(p)
         /\ job'[p].pc = "verify" /\ job'[p].kind = job[p].kind
         /\ job'[p].addr = job[p].addr /\ job'[p].rand = job[p].rand
         /\ job'[p].t = job[p].t /\ job'[p].ok = TRUE
<1>1. job[p] \in JobRecord /\ "verify" \in PCs  BY DEF JobTypeOK, PCs
<1>2. CASE job' = [job EXCEPT ![p].ok = TRUE, ![p].pc = "verify"]
  BY <1>1, <1>2 DEF JobTypeOK, JobRecord, Others
<1>3. CASE job' = [job EXCEPT ![p].ok = TRUE, ![p].oldrand = r, ![p].pc = "verify"]
  BY <1>1, <1>3 DEF JobTypeOK, JobRecord, Others
<1> QED  BY <1>2, <1>3

\* A script that clients start is outside of all critical sections but those of a step.
ScriptMoves(p) ==
  /\ JobInv' /\ Others(p)
  /\ job[p].pc \notin Locking \cup {"rules"}
  /\ job'[p].pc \notin Locking

\* A step outside: what is taken out of the tables is followed by new rules.
FreeStep(p) ==
  /\ UNCHANGED <<holder, ruleVars>>
  /\ Unlocked \/ UNCHANGED <<tableVars, local>>
  /\ \A q \in Proc : q # p => job'[q].pc = job[q].pc
  /\ job[p].pc \notin Locking /\ job'[p].pc \notin Locking
  /\ job'[p].pc = "rules" \/ (Explained \subseteq Explained' /\ job[p].pc # "rules")

\* A script goes to another place with what it knows.
LEMMA GotoMoves ==
  ASSUME JobInv, NEW p \in Script, NEW from, NEW to, Goto(p, from, to),
         from \in ScriptPlaces \ {"idle", "done", "rules", "rules2"},
         to \in ScriptPlaces \ {"idle", "done", "rules2", "extra", "read"},
         to \in {"verify", "extra2", "update", "spawn"} => job[p].kind \in Payments
  PROVE  ScriptMoves(p)
<1>1. p \in Proc /\ to \in PCs  BY DEF Proc, ScriptPlaces, PCs
<1>2. JobTypeOK  BY DEF JobInv
<1>3. /\ JobTypeOK' /\ Others(p)
      /\ job[p].pc = from /\ job'[p].pc = to
      /\ job'[p].kind = job[p].kind /\ job'[p].addr = job[p].addr
      /\ job'[p].rand = job[p].rand
  BY <1>1, <1>2, GotoEffect
<1>4. job[p].addr \in Addr /\ (job[p].kind \in Payments => job[p].rand \in Rand)
  BY <1>3 DEF JobInv, JobFits, ScriptPlaces
<1>5. JobInv'  BY <1>3, <1>4, JobInvOfScript DEF ScriptPlaces
<1> QED  BY <1>3, <1>5 DEF ScriptMoves, ScriptPlaces, Locking

\* A script ends.
LEMMA ExitMoves ==
  ASSUME JobInv, NEW p \in Script, Exit(p), job[p].pc \notin Locking \cup {"rules"}
  PROVE  ScriptMoves(p)
<1>1. p \in Proc  BY DEF Proc
<1>2. JobTypeOK' /\ Others(p) /\ job'[p].pc = "done" /\ job'[p].kind = "none"
  BY <1>1, ExitEffect DEF JobInv
<1>3. JobInv'  BY <1>2, JobInvOfScript DEF ScriptPlaces, Payments
<1> QED  BY <1>2, <1>3 DEF ScriptMoves, Locking

\* A script has found access and goes on to verify the rand.
LEMMA AccessMoves ==
  ASSUME JobInv, NEW p \in Script, NEW r \in Rand \cup {NoRand},
         job[p].pc \in {"extra", "read"}, job[p].kind \in Payments,
         \/ job' = [job EXCEPT ![p].ok = TRUE, ![p].pc = "verify"]
         \/ job' = [job EXCEPT ![p].ok = TRUE, ![p].oldrand = r, ![p].pc = "verify"]
  PROVE  ScriptMoves(p)
<1>1. p \in Proc  BY DEF Proc
<1>2. JobTypeOK  BY DEF JobInv
<1>3. /\ JobTypeOK' /\ Others(p)
      /\ job'[p].pc = "verify" /\ job'[p].kind = job[p].kind
      /\ job'[p].addr = job[p].addr /\ job'[p].rand = job[p].rand
  BY <1>1, <1>2, AccessEffect
<1>4. job[p].addr \in Addr /\ job[p].rand \in Rand  BY DEF JobInv, JobFits
<1>5. JobInv'  BY <1>3, <1>4, JobInvOfScript DEF ScriptPlaces
<1> QED  BY <1>3, <1>5 DEF ScriptMoves, Locking

\* A script steps from one place to the next.
LEMMA ScriptMovesHold ==
  ASSUME JobInv, acl \in Acl, NEW p \in Script, ScriptNext(p)
  PROVE  ScriptMoves(p)
<1> USE DEF Locking, ScriptPlaces
<1>1. CASE ExtraAccess(p)
  <2>1. job[p].pc = "extra" /\ job[p].kind \in Payments \cup {"logout"}
    BY <1>1 DEF ExtraAccess, JobInv, JobFits
  <2>2. \/ Goto(p, "extra", "read") \/ Exit(p) \/ Goto(p, "extra", "unlist")
        \/ /\ job[p].kind = "topup"
           /\ job' = [job EXCEPT ![p].ok = TRUE, ![p].pc = "verify"]
    BY <1>1, <2>1 DEF ExtraAccess, Payments
  <2>3. CASE Goto(p, "extra", "read")
    <3>1. p \in Proc /\ "read" \in PCs  BY DEF Proc, PCs
    <3>2. /\ JobTypeOK' /\ Others(p) /\ job'[p].pc = "read"
          /\ job'[p].kind = job[p].kind /\ job'[p].addr = job[p].addr
          /\ job'[p].rand = job[p].rand
      BY <2>3, <3>1, GotoEffect DEF JobInv
    <3>3. job[p].addr \in Addr /\ (job[p].kind \in Payments => job[p].rand \in Rand)
      BY <2>1 DEF JobInv, JobFits
    <3>4. JobInv'  BY <2>1, <3>2, <3>3, JobInvOfScript
    <3> QED  BY <2>1, <3>2, <3>4 DEF ScriptMoves
  <2>4. CASE Exit(p)  BY <2>1, <2>4, ExitMoves
  <2>5. CASE Goto(p, "extra", "unlist")  BY <2>5, GotoMoves
  <2>6. CASE /\ job[p].kind = "topup"
             /\ job' = [job EXCEPT ![p].ok = TRUE, ![p].pc = "verify"]
    BY <2>1, <2>6, AccessMoves DEF Payments
  <2> QED  BY <2>2, <2>3, <2>4, <2>5, <2>6
<1>2. CASE ReadAcl(p)
  <2>1. /\ job[p].pc = "read" /\ job[p].kind \in Payments \cup {"logout"}
        /\ job[p].addr \in Addr
    BY <1>2 DEF ReadAcl, JobInv, JobFits
  <2>2. acl[job[p].addr] # Absent => acl[job[p].addr].rand \in Rand
    BY <2>1 DEF Acl, Entry
  <2>3. \/ Exit(p) \/ Goto(p, "read", "drop")
        \/ job[p].kind \in Payments /\ Goto(p, "read", "verify")
        \/ /\ job[p].kind \in Payments
           /\ job' = [job EXCEPT ![p].ok = TRUE, ![p].pc = "verify"]
        \/ /\ job[p].kind \in Payments /\ acl[job[p].addr] # Absent
           /\ job' = [job EXCEPT ![p].ok = TRUE, ![p].oldrand = acl[job[p].addr].rand,
                                 ![p].pc = "verify"]
    BY <1>2, <2>1 DEF ReadAcl, Payments
  <2>4. CASE Exit(p)  BY <2>1, <2>4, ExitMoves
  <2>5. CASE Goto(p, "read", "drop")  BY <2>5, GotoMoves
  <2>6. CASE job[p].kind \in Payments /\ Goto(p, "read", "verify")
    BY <2>6, GotoMoves
  <2>7. CASE /\ job[p].kind \in Payments
             /\ job' = [job EXCEPT ![p].ok = TRUE, ![p].pc = "verify"]
    BY <2>1, <2>7, AccessMoves
  <2>8. CASE /\ job[p].kind \in Payments /\ acl[job[p].addr] # Absent
             /\ job' = [job EXCEPT ![p].ok = TRUE, ![p].oldrand = acl[job[p].addr].rand,
                                   ![p].pc = "verify"]
    BY <2>1, <2>2, <2>8, AccessMoves
  <2> QED  BY <2>3, <2>4, <2>5, <2>6, <2>7, <2>8
<1>3. CASE Verify(p)
  <2>1. job[p].pc = "verify" /\ job[p].kind \in Payments
    BY <1>3 DEF Verify, JobInv, JobFits
  <2>2. \/ Exit(p) \/ Goto(p, "verify", "extra2") \/ Goto(p, "verify", "update")
    BY <1>3 DEF Verify
  <2> QED  BY <2>1, <2>2, ExitMoves, GotoMoves
<1>4. CASE TopupExtra(p)
  <2>1. Goto(p, "extra2", "update") \/ Goto(p, "extra2", "spawn")
    BY <1>4 DEF TopupExtra
  <2>2. job[p].pc = "extra2" /\ job[p].kind \in Payments
    BY <2>1 DEF Goto, JobInv, JobFits
  <2> QED  BY <2>1, <2>2, GotoMoves
<1>5. CASE TopupAcl(p)
  BY <1>5, ExitMoves, GotoMoves DEF TopupAcl, Payments
<1>6. CASE TopupLocal(p)
  BY <1>6, GotoMoves DEF TopupLocal, Payments
<1>7. CASE Spawn(p)
  BY <1>7, ExitMoves, GotoMoves DEF Spawn
<1>8. CASE DropEntry(p)  BY <1>8, ExitMoves, GotoMoves DEF DropEntry
<1>9. CASE RemoveLocal(p)  BY <1>9, GotoMoves DEF RemoveLocal
<1> QED
  BY <1>1, <1>2, <1>3, <1>4, <1>5, <1>6, <1>7, <1>8, <1>9 DEF ScriptNext

----------------------------------------------------------------------------
(* What the steps of a script do to the tables and to what it leaves behind. *)

\* A topup puts an entry into the table and takes none out.
LEMMA ToppedUpEffect ==
  ASSUME acl \in Acl, NEW a \in Addr, NEW t \in Int, NEW dt \in Int, NEW r \in Rand
  PROVE  /\ ToppedUp(a, t, dt, r) \in Acl
         /\ Present(acl) \subseteq Present(ToppedUp(a, t, dt, r))
<1> DEFINE new == [expire |-> (IF acl[a] = Absent THEN t ELSE acl[a].expire) + dt, rand |-> r]
<1>1. acl[a] \in Entry \cup {Absent}  BY DEF Acl
<1>2. new \in Entry  BY <1>1 DEF Entry, Minutes
<1>3. ToppedUp(a, t, dt, r) = [acl EXCEPT ![a] = new]  BY DEF ToppedUp
<1>4. new # Absent  BY <1>2, TablesAssumption
<1> HIDE DEF new
<1> QED  BY <1>2, <1>3, <1>4 DEF Acl, Present

\* Even a table that is written short is one, and whom it has no room for is
\* remembered.
LEMMA WrittenEffect ==
  ASSUME NEW table \in Acl, scrap \subseteq Addr, stranded \subseteq Addr, Written(table)
  PROVE  /\ acl' \in Acl /\ scrap' \subseteq Addr /\ stranded' \subseteq Addr
         /\ stranded \subseteq stranded'
         /\ Present(table) \subseteq Present(acl') \cup stranded'
<1>1. CASE acl' = table /\ scrap' = {} /\ UNCHANGED stranded  BY <1>1
<1>2. CASE WrittenShort(table)
  <2>1. PICK kept \in SUBSET Present(table), b \in Addr :
          LET left == [a \in Addr |-> IF a \in kept THEN table[a] ELSE Absent]
          IN  /\ kept # Present(table)
              /\ \/ acl' = left /\ scrap' \in {{}, {b}}
                 \/ /\ b \in Present(table) \ kept
                    /\ \E x \in 0..table[b].expire :
                         acl' = [left EXCEPT ![b] = [expire |-> x, rand |-> CutRand]]
                    /\ scrap' = {}
              /\ stranded' = stranded \cup (Present(table) \ Present(acl'))
    BY <1>2 DEF WrittenShort
  <2> DEFINE left == [a \in Addr |-> IF a \in kept THEN table[a] ELSE Absent]
  <2>2. left \in Acl  BY DEF Acl
  <2> HIDE DEF left
  <2>3. \A x \in Int : [expire |-> x, rand |-> CutRand] \in Entry
    BY GateAssumption DEF Entry, Minutes
  <2>4. acl' \in Acl /\ scrap' \subseteq Addr
    <3>1. CASE acl' = left /\ scrap' \in {{}, {b}}  BY <2>2, <3>1
    <3>2. CASE /\ \E x \in 0..table[b].expire :
                    acl' = [left EXCEPT ![b] = [expire |-> x, rand |-> CutRand]]
               /\ scrap' = {}
      BY <2>2, <2>3, <3>2 DEF Acl
    <3> QED  BY <2>1, <3>1, <3>2 DEF left
  <2>5. stranded' = stranded \cup (Present(table) \ Present(acl'))  BY <2>1
  <2> QED  BY <2>4, <2>5 DEF Present
<1> QED  BY <1>1, <1>2 DEF Written

\* Who refreshed, and has not come to the rules.
LEMMA GoneKept ==
  ASSUME \A c \in Cron : work'[c].gone = work[c].gone
  PROVE  Gone' = Gone
  BY DEF Gone

\* The steps of a script that only reads, or changes one of the tables.
LEMMA TableStep ==
  ASSUME DataInv, NEW p \in Script, ScriptMoves(p),
         acl' \in Acl, local' \in Local, scrap' \subseteq Addr, stranded' \subseteq Addr,
         Unlocked \/ UNCHANGED <<tableVars, local>>,
         UNCHANGED <<now, holder, ruleVars, issuerVars, pay, work>>,
         job'[p].pc = "rules" \/ Entered \cup stranded \subseteq (Entered \cup stranded)'
  PROVE  DataInv' /\ FreeStep(p)
<1>1. p \in Proc /\ \A c \in Cron : c \in Proc /\ c # p
  BY GateAssumption DEF Proc
<1>2. WorkInv'  BY <1>1, WorkInvKept DEF DataInv, ScriptMoves, Others
<1>3. PayInv'  BY DEF DataInv, PayInv, PayTypeOK, PayFits
<1>4. SharedTypeOK'  BY DEF DataInv, SharedTypeOK, ruleVars, issuerVars
<1>5. FreeStep(p)  BY GoneKept DEF FreeStep, ScriptMoves, Others, Explained
<1> QED  BY <1>2, <1>3, <1>4, <1>5 DEF DataInv, ScriptMoves

\* The process that a script leaves behind.
LEMMA TakePaymentEffect ==
  ASSUME PayInv, now \in 0..MaxTime, NEW p \in Script, NEW type \in {"acl", "local"},
         NEW a \in Addr, NEW dt \in {Day, Span}, NEW r \in Rand, NEW v \in {Tariff, Price},
         NEW old \in Rand \cup {NoRand}, TakePayment(p, type, a, dt, r, v, old)
  PROVE  PayInv'
<1> DEFINE new == [draw |-> "draw", old |-> "verifyold", turn |-> 1, type |-> type,
                   addr |-> a, dt |-> dt, rand |-> r, amount |-> v,
                   oldrand |-> old, oldvalue |-> -1, t |-> now]
<1>1. new \in PayRecord /\ new.old # "drawold"  BY DEF PayRecord, Drawn
<1>2. pay' = [pay EXCEPT ![p] = new]  BY DEF TakePayment
<1>3. p \in Proc  BY DEF Proc
<1> HIDE DEF new
<1> QED  BY <1>1, <1>2, <1>3 DEF PayInv, PayTypeOK, PayFits, Proc

\* A script that has given time leaves the payment behind.
LEMMA SpawnStep ==
  ASSUME DataInv, NEW p \in Script, Spawn(p), UNCHANGED work
  PROVE  DataInv' /\ FreeStep(p)
<1>1. /\ p \in Proc /\ \A c \in Cron : c \in Proc /\ c # p
      /\ ScriptMoves(p)
  BY GateAssumption, ScriptMovesHold DEF Proc, DataInv, SharedTypeOK, ScriptNext
<1>2. /\ job[p].addr \in Addr /\ job[p].rand \in Rand
      /\ job[p].oldrand \in Rand \cup {NoRand}
  BY <1>1 DEF Spawn, DataInv, JobInv, JobFits, JobTypeOK, JobRecord
<1>3. PayInv'
  <2>1. PayInv /\ now \in 0..MaxTime  BY DEF DataInv, SharedTypeOK
  <2> QED  BY <1>2, <2>1, TakePaymentEffect DEF Spawn
<1>4. WorkInv'  BY <1>1, WorkInvKept DEF DataInv, ScriptMoves, Others
<1>5. SharedTypeOK'
  BY DEF Spawn, DataInv, SharedTypeOK, aclVars, tableVars, ruleVars, issuerVars
<1>6. FreeStep(p)
  BY <1>1, GoneKept
  DEF Spawn, FreeStep, ScriptMoves, Others, aclVars, tableVars, ruleVars, Explained, Entered
<1> QED  BY <1>1, <1>3, <1>4, <1>5, <1>6 DEF DataInv, ScriptMoves

\* Every step of a script that clients start keeps the data in order, and is free.
LEMMA ScriptStepEffect ==
  ASSUME DataInv, NEW p \in Script, ScriptStep(p)
  PROVE  DataInv' /\ FreeStep(p)
<1> USE DEF ScriptStep, aclVars, tableVars
<1>1. /\ ScriptMoves(p) /\ acl \in Acl /\ local \in Local
      /\ scrap \subseteq Addr /\ stranded \subseteq Addr
  BY ScriptMovesHold DEF DataInv, SharedTypeOK
<1>2. ASSUME UNCHANGED <<now, aclVars, ruleVars, issuerVars, pay>>
      PROVE  DataInv' /\ FreeStep(p)
  BY <1>1, <1>2, TableStep DEF Entered
<1>3. CASE ExtraAccess(p)  BY <1>2, <1>3 DEF ExtraAccess
<1>4. CASE ReadAcl(p)  BY <1>2, <1>4 DEF ReadAcl
<1>5. CASE Verify(p)  BY <1>2, <1>5 DEF Verify
<1>6. CASE TopupExtra(p)  BY <1>2, <1>6 DEF TopupExtra
<1>7. CASE TopupAcl(p)
  <2>1. job[p].pc = "update" /\ job[p].kind = "grant"  BY <1>7 DEF TopupAcl, Goto
  <2>2. /\ p \in Proc /\ job[p].addr \in Addr /\ job[p].rand \in Rand
        /\ job[p].t \in Int /\ Day \in Int
    BY <2>1, GateAssumption
    DEF DataInv, JobInv, JobFits, JobTypeOK, JobRecord, Payments, Proc
  <2> DEFINE table == ToppedUp(job[p].addr, job[p].t, Day, job[p].rand)
  <2>3. table \in Acl /\ Present(acl) \subseteq Present(table)
    BY <1>1, <2>2, ToppedUpEffect
  <2>4. Written(table) \/ UNCHANGED tableVars
    BY <1>7 DEF TopupAcl, NotWritten, NotOpened
  <2> HIDE DEF table
  <2>5. /\ acl' \in Acl /\ scrap' \subseteq Addr /\ stranded' \subseteq Addr
        /\ stranded \subseteq stranded' /\ Present(acl) \subseteq Present(acl') \cup stranded'
    BY <1>1, <2>3, <2>4, WrittenEffect
  <2>6. UNCHANGED local  BY <1>7 DEF TopupAcl
  <2>7. Entered \cup stranded \subseteq (Entered \cup stranded)'
    BY <2>5, <2>6 DEF Entered, Present
  <2> QED  BY <1>1, <1>7, <2>5, <2>6, <2>7, TableStep DEF TopupAcl
<1>8. CASE TopupLocal(p)
  <2>1. job[p].pc \in {"update", "list"}  BY <1>8 DEF TopupLocal, Goto
  <2>2. p \in Proc /\ job[p].addr \in Addr /\ job[p].t \in Int /\ Span \in Int
    BY <2>1, GateAssumption DEF DataInv, JobInv, JobFits, JobTypeOK, JobRecord, Proc
  <2>3. PICK e \in Minutes \cup {Unlimited} : local' = [local EXCEPT ![job[p].addr] = e]
    <3>1. local[job[p].addr] \in Minutes \cup {Absent, Unlimited}
      BY <1>1, <2>2 DEF Local
    <3> QED  BY <1>8, <2>2, <3>1 DEF TopupLocal, Minutes
  <2>4. local' \in Local /\ e # Absent
    BY <1>1, <2>3, GateAssumption DEF Local, Minutes
  <2>5. UNCHANGED tableVars  BY <1>8 DEF TopupLocal
  <2>6. Entered \cup stranded \subseteq (Entered \cup stranded)'
    BY <1>1, <2>2, <2>3, <2>4, <2>5 DEF Entered, Local
  <2> QED  BY <1>1, <1>8, <2>4, <2>5, <2>6, TableStep DEF TopupLocal
<1>9. CASE Spawn(p)  BY <1>9, SpawnStep
<1>10. CASE DropEntry(p)
  <2>1. UNCHANGED <<now, local, holder, ruleVars, issuerVars, pay, work>> /\ Unlocked
    BY <1>10 DEF DropEntry
  <2>2. CASE /\ Goto(p, "drop", "rules")
             /\ Written([acl EXCEPT ![job[p].addr] = Absent]) \/ NotWritten
    <3>1. p \in Proc /\ "rules" \in PCs /\ JobTypeOK
      BY DEF Proc, PCs, DataInv, JobInv
    <3>2. job'[p].pc = "rules"  BY <2>2, <3>1, GotoEffect
    <3>3. [acl EXCEPT ![job[p].addr] = Absent] \in Acl  BY <1>1 DEF Acl
    <3>4. acl' \in Acl /\ scrap' \subseteq Addr /\ stranded' \subseteq Addr
      BY <1>1, <2>2, <3>3, WrittenEffect DEF NotWritten
    <3> QED  BY <1>1, <2>1, <3>2, <3>4, TableStep
  <2>3. CASE NotOpened
    BY <1>1, <2>1, <2>3, TableStep DEF NotOpened, Entered
  <2> QED  BY <1>10, <2>2, <2>3 DEF DropEntry
<1>11. CASE RemoveLocal(p)
  <2>1. local' \in Local /\ UNCHANGED tableVars
    BY <1>1, <1>11 DEF RemoveLocal, Local
  <2>2. job[p].pc = "unlist" /\ job'[p].pc = "rules"
    <3>1. p \in Proc /\ "rules" \in PCs /\ JobTypeOK
      BY DEF Proc, PCs, DataInv, JobInv
    <3> QED  BY <1>11, <3>1, GotoEffect DEF RemoveLocal
  <2> QED  BY <1>1, <1>11, <2>1, <2>2, TableStep DEF RemoveLocal
<1> QED
  BY <1>3, <1>4, <1>5, <1>6, <1>7, <1>8, <1>9, <1>10, <1>11 DEF ScriptNext

----------------------------------------------------------------------------
(* What takepayment does.                                                   *)

\* A step that changes nobody's place and takes out no entry.
StillStep ==
  /\ UNCHANGED <<holder, ruleVars>>
  /\ Unlocked \/ UNCHANGED <<tableVars, local>>
  /\ \A q \in Proc : job'[q].pc = job[q].pc
  /\ Explained \subseteq Explained'

\* The two machines stay what they are.
LEMMA MachineEffect ==
  ASSUME PayInv, NEW p \in Script,
         \/ /\ pay[p].draw # "none"
            /\ \E to \in {"draw", "rollback", "rollback2"} \cup Over : DrawGoesTo(p, to)
         \/ /\ pay[p].draw # "none" /\ pay[p].turn = 1
            /\ pay' = [pay EXCEPT ![p].draw = "rollback2"]
         \/ /\ pay[p].draw # "none"
            /\ pay' = [pay EXCEPT ![p].draw = "dead", ![p].old = "end"]
         \/ /\ pay[p].old # "end"
            /\ \E to \in {"verifyold", "drawold", "end"}, v \in Int :
                 /\ to = "drawold" => v > 0 /\ pay[p].oldrand \in Rand
                 /\ OldGoesTo(p, to, v)
  PROVE  PayInv'
<1>1. p \in Proc  BY DEF Proc
<1>2. pay[p] \in PayRecord
  BY <1>1 DEF PayInv, PayTypeOK, NoPay
<1>3. \A draw, old : \A turn \in {1, 2} : Turn(draw, old, turn) \in {1, 2}
  BY DEF Turn
<1>4. PayTypeOK /\ PayFits  BY DEF PayInv
<1>5. CASE \E to \in {"draw", "rollback", "rollback2"} \cup Over : DrawGoesTo(p, to)
  <2>1. PICK to \in {"draw", "rollback", "rollback2"} \cup Over :
          pay' = [pay EXCEPT ![p].draw = to, ![p].turn = Turn(to, pay[p].old, 1)]
    BY <1>5 DEF DrawGoesTo
  <2>2. PayTypeOK'  BY <1>1, <1>2, <1>3, <1>4, <2>1 DEF PayTypeOK, PayRecord
  <2>3. PayFits'  BY <1>1, <1>2, <1>4, <2>1 DEF PayTypeOK, PayFits, PayRecord, Proc
  <2> QED  BY <2>2, <2>3 DEF PayInv
<1>6. CASE pay' = [pay EXCEPT ![p].draw = "rollback2"]
  <2>1. PayTypeOK'  BY <1>1, <1>2, <1>4, <1>6 DEF PayTypeOK, PayRecord
  <2>2. PayFits'  BY <1>1, <1>2, <1>4, <1>6 DEF PayTypeOK, PayFits, PayRecord, Proc
  <2> QED  BY <2>1, <2>2 DEF PayInv
<1>8. CASE pay' = [pay EXCEPT ![p].draw = "dead", ![p].old = "end"]
  <2>1. PayTypeOK'  BY <1>1, <1>2, <1>4, <1>8 DEF PayTypeOK, PayRecord, Over
  <2>2. PayFits'  BY <1>1, <1>2, <1>4, <1>8 DEF PayTypeOK, PayFits, PayRecord, Proc
  <2> QED  BY <2>1, <2>2 DEF PayInv
<1>7. CASE \E to \in {"verifyold", "drawold", "end"}, v \in Int :
             /\ to = "drawold" => v > 0 /\ pay[p].oldrand \in Rand
             /\ OldGoesTo(p, to, v)
  <2>1. PICK to \in {"verifyold", "drawold", "end"}, v \in Int :
          /\ to = "drawold" => v > 0 /\ pay[p].oldrand \in Rand
          /\ pay' = [pay EXCEPT ![p].old = to, ![p].oldvalue = v,
                                ![p].turn = Turn(pay[p].draw, to, 2)]
    BY <1>7 DEF OldGoesTo
  <2>2. PayTypeOK'  BY <1>1, <1>2, <1>3, <1>4, <2>1 DEF PayTypeOK, PayRecord
  <2>3. PayFits'  BY <1>1, <1>2, <1>4, <2>1 DEF PayTypeOK, PayFits, PayRecord, Proc
  <2> QED  BY <2>2, <2>3 DEF PayInv
<1> QED  BY <1>5, <1>6, <1>7, <1>8

\* The issuer's accounts stay natural numbers.
LEMMA SellerIsPaid ==
  ASSUME value \in [Rand -> Nat], till \in Nat, unheard \in Nat, charged \in Nat,
         NEW r \in Rand, NEW v \in Nat, NEW o \in Outcomes,
         NEW minutes \in BOOLEAN, PaySeller(r, v, o, minutes)
  PROVE  /\ value' \in [Rand -> Nat] /\ till' \in Nat
         /\ unheard' \in Nat /\ charged' \in Nat
<1>1. CASE UNCHANGED issuerVars  BY <1>1 DEF issuerVars
<1>2. CASE /\ value[r] >= v /\ value' = [value EXCEPT ![r] = @ - v]
           /\ till' = till + v
           /\ unheard' = IF o = "lost" THEN unheard + v ELSE unheard
           /\ charged' = IF minutes /\ o = "paid" THEN charged + v ELSE charged
  BY <1>2
<1> QED  BY <1>1, <1>2 DEF PaySeller, Transfer

\* The same for what moves from one rand to another.
LEMMA RandIsPaid ==
  ASSUME value \in [Rand -> Nat], till \in Nat, unheard \in Nat, charged \in Nat,
         NEW r \in Rand, NEW to \in Rand, NEW v \in Nat, NEW o \in Outcomes,
         PayRand(r, to, v, o)
  PROVE  /\ value' \in [Rand -> Nat] /\ till' \in Nat
         /\ unheard' \in Nat /\ charged' \in Nat
<1>1. CASE UNCHANGED issuerVars  BY <1>1 DEF issuerVars
<1>2. CASE /\ value[r] >= v /\ value' = [value EXCEPT ![r] = @ - v, ![to] = @ + v]
           /\ UNCHANGED <<till, unheard, charged>> /\ r # to
  BY <1>2
<1> QED  BY <1>1, <1>2 DEF PayRand, Transfer

\* A step of takepayment leaves scripts where they are.
LEMMA StillStepEffect ==
  ASSUME DataInv, SharedTypeOK', PayInv', UNCHANGED <<job, work, holder, ruleVars>>,
         Unlocked \/ UNCHANGED <<tableVars, local>>,
         Entered \cup stranded \subseteq (Entered \cup stranded)'
  PROVE  DataInv' /\ StillStep
<1>1. JobInv'  BY DEF DataInv, JobInv, JobTypeOK, JobFits
<1>2. WorkInv'  BY WorkInvKept DEF DataInv
<1>3. StillStep  BY GoneKept DEF StillStep, Explained
<1> QED  BY <1>1, <1>2, <1>3 DEF DataInv

\* What a takepayment process that is not over has been told.
LEMMA PaymentIsOne ==
  ASSUME PayInv, NEW p \in Script, pay[p].draw # "none" \/ pay[p].old # "end"
  PROVE  /\ pay[p].type \in {"acl", "local"} /\ pay[p].addr \in Addr
         /\ pay[p].rand \in Rand /\ pay[p].amount \in Nat /\ pay[p].dt \in Int
         /\ pay[p].t \in Int /\ pay[p].oldrand \in Rand \cup {NoRand}
         /\ pay[p].oldvalue \in Int /\ pay[p].draw # "none"
<1>1. p \in Proc  BY DEF Proc
<1>2. pay[p] \in PayRecord  BY <1>1 DEF PayInv, PayTypeOK, NoPay
<1>3. Day \in Int /\ Span \in Int /\ Tariff \in Nat /\ Price \in Nat  BY GateAssumption
<1> QED  BY <1>2, <1>3 DEF PayRecord, Over, Drawn

\* Every step of takepayment keeps the data in order, and moves nobody.
LEMMA PayStepEffect ==
  ASSUME DataInv, NEW p \in Script, PayStep(p)
  PROVE  DataInv' /\ StillStep
<1> USE DEF PayStep, aclVars, tableVars, ruleVars, At
<1>1. /\ PayInv /\ now \in 0..MaxTime /\ acl \in Acl /\ local \in Local
      /\ scrap \subseteq Addr /\ stranded \subseteq Addr
      /\ value \in [Rand -> Nat] /\ till \in Nat /\ unheard \in Nat /\ charged \in Nat
  BY DEF DataInv, SharedTypeOK
<1>2. CASE Draw(p)
  <2>1. PICK o \in Outcomes :
          /\ PaySeller(pay[p].rand, pay[p].amount, o, FALSE)
          /\ DrawGoesTo(p, CASE o = "paid" -> "paid"
                             [] o = "refused" -> "rollback"
                             [] OTHER -> "draw")
    BY <1>2 DEF Draw
  <2>2. pay[p].draw = "draw"  BY <1>2 DEF Draw
  <2>3. PayInv'  BY <1>1, <2>1, <2>2, MachineEffect DEF Over, Drawn
  <2>4. /\ value' \in [Rand -> Nat] /\ till' \in Nat
        /\ unheard' \in Nat /\ charged' \in Nat
    BY <1>1, <2>1, <2>2, PaymentIsOne, SellerIsPaid
  <2>5. SharedTypeOK'  BY <1>2, <2>4 DEF Draw, DataInv, SharedTypeOK
  <2> QED  BY <1>2, <2>3, <2>5, StillStepEffect DEF Draw, Entered
<1>3. CASE RollbackLocal(p)
  <2>1. pay[p].draw = "rollback"  BY <1>3 DEF RollbackLocal
  <2>2. pay[p].addr \in Addr /\ pay[p].t \in Int /\ pay[p].dt \in Int
    BY <1>1, <2>1, PaymentIsOne
  <2>3. PICK e \in Minutes \cup {Unlimited} : local' = [local EXCEPT ![pay[p].addr] = e]
    <3>1. local[pay[p].addr] \in Minutes \cup {Absent, Unlimited}
      BY <1>1, <2>2 DEF Local
    <3> DEFINE left == CASE local[pay[p].addr] = Absent -> pay[p].t - pay[p].dt
                         [] local[pay[p].addr] = Unlimited -> Unlimited
                         [] OTHER -> local[pay[p].addr] - pay[p].dt
    <3>2. left \in Minutes \cup {Unlimited}  BY <2>2, <3>1 DEF Minutes
    <3>3. local' = [local EXCEPT ![pay[p].addr] = left]  BY <1>3 DEF RollbackLocal
    <3> QED  BY <3>2, <3>3
  <2>4. local' \in Local /\ e # Absent
    BY <1>1, <2>3, GateAssumption DEF Local, Minutes
  <2>5. Entered \cup stranded \subseteq (Entered \cup stranded)'
    BY <1>1, <1>3, <2>2, <2>3, <2>4 DEF RollbackLocal, Entered, Local
  <2>6. PayInv'  BY <1>1, <1>3, <2>1, MachineEffect DEF RollbackLocal, Over, Drawn
  <2>7. SharedTypeOK'
    BY <1>3, <2>4 DEF RollbackLocal, DataInv, SharedTypeOK, issuerVars
  <2> QED  BY <1>3, <2>5, <2>6, <2>7, StillStepEffect DEF RollbackLocal
<1>4. CASE RollbackAcl(p)
  <2>1. pay[p].draw = "rollback" /\ pay[p].turn = 1  BY <1>4 DEF RollbackAcl
  <2>2. PayInv'  BY <1>1, <1>4, <2>1, MachineEffect DEF RollbackAcl, Over, Drawn
  <2>3. SharedTypeOK'  BY <1>4 DEF RollbackAcl, DataInv, SharedTypeOK, issuerVars
  <2> QED  BY <1>4, <2>2, <2>3, StillStepEffect DEF RollbackAcl, Entered
<1>5. CASE RollbackAclUpdate(p)
  <2>1. pay[p].draw = "rollback2"  BY <1>5 DEF RollbackAclUpdate
  <2>2. /\ pay[p].addr \in Addr /\ pay[p].t \in Int /\ -pay[p].dt \in Int
        /\ pay[p].rand \in Rand
    BY <1>1, <2>1, PaymentIsOne
  <2> DEFINE table == ToppedUp(pay[p].addr, pay[p].t, -pay[p].dt, pay[p].rand)
  <2>3. table \in Acl /\ Present(acl) \subseteq Present(table)
    BY <1>1, <2>2, ToppedUpEffect
  <2>4. Written(table) \/ UNCHANGED tableVars
    BY <1>5 DEF RollbackAclUpdate, NotWritten, NotOpened
  <2> HIDE DEF table
  <2>5. /\ acl' \in Acl /\ scrap' \subseteq Addr /\ stranded' \subseteq Addr
        /\ stranded \subseteq stranded' /\ Present(acl) \subseteq Present(acl') \cup stranded'
    BY <1>1, <2>3, <2>4, WrittenEffect
  <2>6. Entered \cup stranded \subseteq (Entered \cup stranded)'
    BY <1>5, <2>5 DEF RollbackAclUpdate, Entered, Present
  <2>7. PayInv'  BY <1>1, <1>5, <2>1, MachineEffect DEF RollbackAclUpdate, Over, Drawn
  <2>8. SharedTypeOK'
    BY <1>5, <2>5 DEF RollbackAclUpdate, DataInv, SharedTypeOK, issuerVars
  <2> QED  BY <1>5, <2>6, <2>7, <2>8, StillStepEffect DEF RollbackAclUpdate
<1>6. CASE VerifyOld(p)
  <2>1. pay[p].old = "verifyold"  BY <1>6 DEF VerifyOld
  <2>2. pay[p].oldrand \in Rand \cup {NoRand}  BY <1>1, <2>1, PaymentIsOne
  <2>3. PICK to \in {"verifyold", "drawold", "end"}, v \in Int :
          /\ to = "drawold" => v > 0 /\ pay[p].oldrand \in Rand
          /\ OldGoesTo(p, to, v)
    <3>1. CASE OldGoesTo(p, "end", -1)  BY <3>1
    <3>2. CASE OldGoesTo(p, "verifyold", -1)  BY <3>2
    <3>3. CASE /\ pay[p].oldrand # NoRand /\ value[pay[p].oldrand] > 0
               /\ OldGoesTo(p, "drawold", value[pay[p].oldrand])
      <4>1. pay[p].oldrand \in Rand /\ value[pay[p].oldrand] \in Int
        BY <1>1, <2>2, <3>3
      <4> QED  BY <3>3, <4>1
    <3> QED  BY <1>6, <3>1, <3>2, <3>3 DEF VerifyOld
  <2>4. PayInv'  BY <1>1, <2>1, <2>3, MachineEffect
  <2>5. SharedTypeOK'  BY <1>6 DEF VerifyOld, DataInv, SharedTypeOK, issuerVars
  <2> QED  BY <1>6, <2>4, <2>5, StillStepEffect DEF VerifyOld, Entered
<1>7. CASE DrawOld(p)
  <2>1. PICK o \in Outcomes :
          /\ PayRand(pay[p].oldrand, pay[p].rand, pay[p].oldvalue, o)
          /\ OldGoesTo(p, IF o \in {"paid", "refused"} THEN "end" ELSE "drawold",
                       pay[p].oldvalue)
    BY <1>7 DEF DrawOld
  <2>2. pay[p].old = "drawold"  BY <1>7 DEF DrawOld
  <2>3. pay[p].oldrand \in Rand /\ pay[p].oldvalue > 0 /\ pay[p].oldvalue \in Int
        /\ pay[p].rand \in Rand
    BY <1>1, <2>2, PaymentIsOne DEF PayInv, PayFits
  <2>4. PayInv'  BY <1>1, <2>1, <2>2, <2>3, MachineEffect
  <2>5. /\ value' \in [Rand -> Nat] /\ till' \in Nat
        /\ unheard' \in Nat /\ charged' \in Nat
    BY <1>1, <2>1, <2>3, RandIsPaid
  <2>6. SharedTypeOK'  BY <1>7, <2>5 DEF DrawOld, DataInv, SharedTypeOK
  <2> QED  BY <1>7, <2>4, <2>6, StillStepEffect DEF DrawOld, Entered
<1> QED  BY <1>2, <1>3, <1>4, <1>5, <1>6, <1>7 DEF TakePaymentNext

----------------------------------------------------------------------------
(* What update-rules and expire-rules do.                                   *)

\* A process enters, goes on, or leaves a section in which others must wait.
EnterStep(p) ==
  /\ Unlocked /\ holder' = p
  /\ UNCHANGED <<acl, scrap, local, redirect, Gone>>
  /\ job[p].pc \in {"rules", "lock"} /\ job'[p].pc \in Locking
  /\ \A q \in Proc : q # p => job'[q].pc = job[q].pc
  /\ \/ job'[p].pc = "rules2" /\ filter' = Listed /\ stranded' = scrap
     \/ /\ job[p].pc = "lock" /\ job'[p].pc = "each"
        /\ UNCHANGED <<filter, stranded>>

InnerStep(p) ==
  /\ UNCHANGED <<holder, ruleVars, tableVars, local, Gone>>
  /\ job[p].pc \in {"each", "verifyrest", "drain"}
  /\ job'[p].pc \in {"each", "verifyrest", "drain"}
  /\ \A q \in Proc : q # p => job'[q].pc = job[q].pc

ReplaceStep(p) ==
  /\ UNCHANGED <<ruleVars, local>>
  /\ job[p].pc = "each"
  /\ \/ job'[p].pc = "rules"
     \/ job'[p].pc = "idle" /\ Explained \subseteq Explained'
  /\ holder' = Nobody
  /\ \A q \in Proc : q # p => job'[q].pc = job[q].pc

RedirectStep(p) ==
  /\ UNCHANGED <<tableVars, local, filter, Gone>>
  /\ job[p].pc = "rules2" /\ job'[p].pc \in {"idle", "done"}
  /\ redirect' = Listed /\ holder' = Nobody
  /\ \A q \in Proc : q # p => job'[q].pc = job[q].pc

CronStep(c) == FreeStep(c) \/ EnterStep(c) \/ InnerStep(c) \/ ReplaceStep(c)

\* One expire-rules works on its own variables.
LEMMA WorkInvOfCron ==
  ASSUME WorkInv, WorkTypeOK', NEW c \in Cron, Others(c),
         \A d \in Cron : d # c => work'[d] = work[d],
         work'[c].rest \in Nat,
         \A a, b \in work'[c].cur : a = b,
         job'[c].pc \notin {"verifyrest", "drain"} => work'[c].cur = {},
         job'[c].pc \notin Remembering => work'[c].gone = {},
         job'[c].pc \in {"each", "verifyrest", "drain"} =>
           /\ work'[c].todo \cap work'[c].cur = {}
           /\ work'[c].todo \cup work'[c].cur = Expired(work'[c].entries, job'[c].t)
  PROVE  WorkInv'
<1>1. \A d \in Cron : d # c => job'[d] = job[d]  BY DEF Others, Proc
<1> QED  BY <1>1 DEF WorkInv, WorkFits, Updating, Expired

\* A cron script goes on to the next place.
LEMMA CronGoes ==
  ASSUME JobInv, NEW c \in Cron, NEW from, NEW to \in CronPlaces, Goto(c, from, to)
  PROVE  /\ JobInv' /\ Others(c)
         /\ job[c].pc = from /\ job'[c].pc = to /\ job'[c].t = job[c].t
<1>1. c \in Proc /\ to \in PCs /\ JobTypeOK  BY DEF Proc, CronPlaces, PCs, JobInv
<1>2. /\ JobTypeOK' /\ Others(c)
      /\ job[c].pc = from /\ job'[c].pc = to /\ job'[c].t = job[c].t
  BY <1>1, GotoEffect
<1>3. JobInv'  BY <1>2, JobInvOfCron
<1> QED  BY <1>2, <1>3

\* The first half of update-rules, in any script.
LEMMA RulesFilterEffect ==
  ASSUME DataInv, NEW p \in Proc, RulesFilter(p), UNCHANGED work
  PROVE  DataInv' /\ EnterStep(p)
<1>1. Goto(p, "rules", "rules2") /\ "rules2" \in PCs /\ JobTypeOK
  BY DEF RulesFilter, PCs, DataInv, JobInv
<1>2. /\ JobTypeOK' /\ Others(p)
      /\ job[p].pc = "rules" /\ job'[p].pc = "rules2"
      /\ job'[p].kind = job[p].kind /\ job'[p].addr = job[p].addr
      /\ job'[p].rand = job[p].rand /\ job'[p].t = job[p].t
  BY <1>1, GotoEffect
<1>3. JobInv'
  <2>1. CASE p \in Script
    <3>1. job[p].addr \in Addr /\ (job[p].kind \in Payments => job[p].rand \in Rand)
      BY <1>2, <2>1 DEF DataInv, JobInv, JobFits
    <3> QED  BY <1>2, <2>1, <3>1, JobInvOfScript DEF DataInv, ScriptPlaces
  <2>2. CASE p \in Cron
    BY <1>2, <2>2, JobInvOfCron DEF DataInv, CronPlaces
  <2> QED  BY <2>1, <2>2 DEF Proc
<1>4. WorkInv'
  <2>1. CASE p \in Cron
    BY <1>2, <2>1, WorkInvOfCron DEF DataInv, WorkInv, WorkTypeOK, WorkFits, Remembering
  <2>2. CASE p \notin Cron
    BY <1>2, <2>2, WorkInvKept DEF DataInv, Others, Proc
  <2> QED  BY <2>1, <2>2
<1>5. SharedTypeOK'
  BY DEF RulesFilter, Lock, DataInv, SharedTypeOK, issuerVars, Listed, Entered
<1>6. PayInv'  BY DEF RulesFilter, DataInv, PayInv, PayTypeOK, PayFits
<1>7. EnterStep(p)  BY <1>2, GoneKept DEF RulesFilter, Lock, EnterStep, Others, Locking
<1> QED  BY <1>3, <1>4, <1>5, <1>6, <1>7 DEF DataInv

\* The second half.
LEMMA RulesRedirectEffect ==
  ASSUME DataInv, NEW p \in Proc, RulesRedirect(p), UNCHANGED work
  PROVE  DataInv' /\ RedirectStep(p)
<1>1. JobTypeOK /\ job[p].pc = "rules2"  BY DEF RulesRedirect, DataInv, JobInv
<1>2. JobInv' /\ Others(p) /\ job'[p].pc \in {"idle", "done"}
  <2>1. CASE p \in Script
    <3>1. Exit(p)  BY <2>1, GateAssumption DEF RulesRedirect
    <3>2. JobTypeOK' /\ Others(p) /\ job'[p].pc = "done" /\ job'[p].kind = "none"
      BY <1>1, <3>1, ExitEffect
    <3>3. JobInv'
      BY <2>1, <3>2, JobInvOfScript DEF DataInv, ScriptPlaces, Payments
    <3> QED  BY <3>2, <3>3
  <2>2. CASE p \in Cron
    <3>1. Goto(p, "rules2", "idle")  BY <2>2 DEF RulesRedirect
    <3> QED  BY <2>2, <3>1, CronGoes DEF DataInv, CronPlaces
  <2> QED  BY <2>1, <2>2 DEF Proc
<1>3. WorkInv'
  <2>1. CASE p \in Cron
    BY <1>1, <1>2, <2>1, WorkInvOfCron DEF DataInv, WorkInv, WorkTypeOK, WorkFits, Remembering
  <2>2. CASE p \notin Cron
    BY <1>2, <2>2, WorkInvKept DEF DataInv, Others, Proc
  <2> QED  BY <2>1, <2>2
<1>4. SharedTypeOK'
  BY DEF RulesRedirect, Unlock, DataInv, SharedTypeOK, tableVars, issuerVars, Listed, Entered
<1>5. PayInv'  BY DEF RulesRedirect, DataInv, PayInv, PayTypeOK, PayFits
<1>6. RedirectStep(p)
  BY <1>1, <1>2, GoneKept DEF RulesRedirect, Unlock, RedirectStep, Others
<1> QED  BY <1>2, <1>3, <1>4, <1>5, <1>6 DEF DataInv

\* What is due for an expired entry is a natural number, and what is paid for lasts.
LEMMA DueIsNat ==
  ASSUME NEW e \in Entry, NEW t \in Int, e.expire <= t
  PROVE  Due(e, t) \in Nat /\ e.expire + Missed(e, t) = t + 1
<1>1. e.expire \in Int  BY DEF Entry, Minutes
<1>2. Missed(e, t) \in Nat /\ e.expire + Missed(e, t) = t + 1  BY <1>1 DEF Missed
<1>3. \A m, n \in Nat : m * n \in Nat  OBVIOUS
<1> QED  BY <1>2, <1>3, GateAssumption DEF Due

\* The entry of an address that is looked at.
LEMMA ExpiredIsEntry ==
  ASSUME DataInv, NEW c \in Cron, Updating(c), NEW a \in work[c].todo \cup work[c].cur
  PROVE  /\ a \in Addr /\ work[c].entries[a] \in Entry /\ work[c].entries[a].rand \in Rand
         /\ work[c].entries[a].expire \in Int
         /\ work[c].entries[a].expire <= job[c].t /\ job[c].t \in Int
         /\ work[c].entries[a] # Absent
<1>1. work[c] \in WorkRecord /\ a \in Expired(work[c].entries, job[c].t)
  BY DEF DataInv, WorkInv, WorkTypeOK, WorkFits
<1>2. a \in Addr /\ work[c].entries[a] # Absent
      /\ work[c].entries[a].expire <= job[c].t
  BY <1>1 DEF Expired
<1>3. work[c].entries[a] \in Entry  BY <1>1, <1>2 DEF WorkRecord, Acl
<1>4. job[c].t \in Int
  BY GateAssumption DEF DataInv, JobInv, JobTypeOK, JobRecord, Proc
<1> QED  BY <1>2, <1>3, <1>4 DEF Entry, Minutes

\* Whoever an expire-rules that dies has dropped is not forgotten.
LEMMA DieEffect ==
  ASSUME WorkTypeOK, stranded \subseteq Addr, NEW c \in Cron, NEW place, Die(c, place),
         UNCHANGED local
  PROVE  /\ WorkTypeOK' /\ work'[c] = NoWork /\ stranded' \subseteq Addr
         /\ \A d \in Cron : d # c => work'[d] = work[d]
         /\ Explained \subseteq Explained'
<1>1. NoWork \in WorkRecord  BY DEF NoWork, WorkRecord, Acl
<1>2. /\ work' = [work EXCEPT ![c] = NoWork]
      /\ stranded' = stranded \cup work[c].gone /\ UNCHANGED acl
  BY DEF Die
<1>3. work[c].gone \subseteq Addr  BY DEF WorkTypeOK, WorkRecord
<1>4. /\ WorkTypeOK' /\ work'[c] = NoWork
      /\ \A d \in Cron : d # c => work'[d] = work[d]
  BY <1>1, <1>2 DEF WorkTypeOK
<1>5. Gone \subseteq Gone' \cup work[c].gone  BY <1>4 DEF Gone
<1>6. Entered' = Entered  BY <1>2 DEF Entered
<1> QED  BY <1>2, <1>3, <1>4, <1>5, <1>6 DEF Explained

\* The steps of expire-rules outside of its update of the table.
LEMMA CronOutsideEffect ==
  ASSUME DataInv, NEW c \in Cron,
         Begin(c) \/ Refresh(c) \/ NeedsUpdate(c) \/ ExtraEntries(c)
  PROVE  DataInv' /\ FreeStep(c)
<1> USE DEF aclVars, tableVars, ruleVars
<1>1. /\ JobInv /\ WorkInv /\ JobTypeOK /\ c \in Proc /\ acl \in Acl /\ local \in Local
      /\ now \in 0..MaxTime /\ scrap \subseteq Addr /\ stranded \subseteq Addr
  BY DEF DataInv, SharedTypeOK, JobInv, Proc
<1>2. ASSUME JobInv', WorkTypeOK', local' \in Local, Others(c),
             \A d \in Cron : d # c => work'[d] = work[d],
             work'[c].rest \in Nat, work'[c].cur = {},
             job'[c].pc \notin Remembering => work'[c].gone = {},
             job[c].pc \notin Locking \cup {"rules"}, job'[c].pc \notin Locking,
             Unlocked \/ UNCHANGED <<tableVars, local>>, stranded' \subseteq Addr,
             UNCHANGED <<now, acl, scrap, holder, ruleVars, issuerVars, pay>>,
             Explained \subseteq Explained'
      PROVE  DataInv' /\ FreeStep(c)
  <2>1. WorkInv'
    <3>1. job'[c].pc \notin {"each", "verifyrest", "drain"}  BY <1>2 DEF Locking
    <3> QED  BY <1>1, <1>2, <3>1, WorkInvOfCron
  <2>2. SharedTypeOK'  BY <1>1, <1>2 DEF DataInv, SharedTypeOK, issuerVars
  <2>3. PayInv'  BY <1>2 DEF DataInv, PayInv, PayTypeOK, PayFits
  <2>4. FreeStep(c)  BY <1>2 DEF FreeStep, Others
  <2> QED  BY <1>2, <2>1, <2>2, <2>3, <2>4 DEF DataInv
<1>3. /\ job[c].pc \notin {"verifyrest", "drain"} => work[c].cur = {}
      /\ job[c].pc \notin Remembering => work[c].gone = {}
  BY <1>1 DEF WorkInv, WorkFits
<1>4. work[c].rest \in Nat /\ WorkTypeOK  BY <1>1 DEF WorkInv, WorkFits
<1>5. UNCHANGED <<aclVars, work>> => Explained' = Explained
  BY GoneKept DEF Explained, Entered
<1>6. CASE Begin(c)
  <2>1. job[c].pc = "idle" /\ job' = [job EXCEPT ![c].pc = "refresh", ![c].t = now]
    BY <1>6 DEF Begin
  <2>2. JobTypeOK' /\ Others(c) /\ job'[c].pc = "refresh"
    <3> DEFINE new == [job[c] EXCEPT !.pc = "refresh", !.t = now]
    <3>1. job[c] \in JobRecord  BY <1>1 DEF JobTypeOK
    <3>2. new \in JobRecord /\ new.pc = "refresh"  BY <1>1, <3>1 DEF JobRecord, PCs
    <3>3. job' = [job EXCEPT ![c] = new]  BY <2>1
    <3> HIDE DEF new
    <3> QED  BY <1>1, <3>2, <3>3 DEF JobTypeOK, Others
  <2>3. JobInv'  BY <1>1, <2>2, JobInvOfCron DEF CronPlaces
  <2>4. UNCHANGED <<aclVars, work>> /\ WorkTypeOK'  BY <1>4, <1>6 DEF Begin, WorkTypeOK
  <2>5. UNCHANGED <<now, ruleVars, issuerVars, pay>>  BY <1>6 DEF Begin
  <2> QED
    BY <1>1, <1>2, <1>3, <1>4, <1>5, <2>1, <2>2, <2>3, <2>4, <2>5
    DEF Locking, Remembering
<1>7. CASE Refresh(c)
  <2> DEFINE expired == {a \in Addr : local[a] \notin {Absent, Unlimited}
                                      /\ local[a] <= job[c].t}
  <2>1. /\ Goto(c, "refresh", IF expired = {} THEN "needs" ELSE "extras")
        /\ local' = [a \in Addr |-> IF a \in expired THEN Absent ELSE local[a]]
        /\ work' = [work EXCEPT ![c].gone = expired]
        /\ Unlocked
    BY <1>7 DEF Refresh
  <2>2. /\ JobInv' /\ Others(c) /\ job[c].pc = "refresh"
        /\ job'[c].pc = IF expired = {} THEN "needs" ELSE "extras"
    BY <1>1, <2>1, CronGoes DEF CronPlaces
  <2>3. expired \in SUBSET Addr  OBVIOUS
  <2> HIDE DEF expired
  <2>4. local' \in Local  BY <1>1, <2>1 DEF Local
  <2>5. /\ WorkTypeOK' /\ work'[c].rest = work[c].rest /\ work'[c].cur = work[c].cur
        /\ work'[c].gone = expired
        /\ \A d \in Cron : d # c => work'[d] = work[d]
    BY <1>4, <2>1, <2>3 DEF WorkTypeOK, WorkRecord
  <2>6. UNCHANGED <<now, tableVars, holder, ruleVars, issuerVars, pay>>
    BY <1>7 DEF Refresh
  <2>7. Explained \subseteq Explained'
    <3>1. work[c].gone = {}  BY <1>3, <2>2 DEF Remembering
    <3>2. Gone' = Gone \cup expired  BY <2>5, <3>1 DEF Gone
    <3>3. Entered \subseteq Entered' \cup expired  BY <2>1, <2>6 DEF Entered
    <3> QED  BY <2>6, <3>2, <3>3 DEF Explained
  <2> QED
    BY <1>1, <1>2, <1>3, <1>4, <2>1, <2>2, <2>4, <2>5, <2>6, <2>7
    DEF Locking, Remembering
<1>8. CASE NeedsUpdate(c)
  <2>1. Goto(c, "needs", "idle") \/ Goto(c, "needs", "extras")
    BY <1>8 DEF NeedsUpdate
  <2>2. /\ JobInv' /\ Others(c) /\ job[c].pc = "needs"
        /\ job'[c].pc \in {"idle", "extras"}
    BY <1>1, <2>1, CronGoes DEF CronPlaces
  <2>3. UNCHANGED <<aclVars, work>> /\ WorkTypeOK'
    BY <1>4, <1>8 DEF NeedsUpdate, WorkTypeOK
  <2>4. UNCHANGED <<now, ruleVars, issuerVars, pay>>  BY <1>8 DEF NeedsUpdate
  <2> QED
    BY <1>1, <1>2, <1>3, <1>4, <1>5, <2>2, <2>3, <2>4 DEF Locking, Remembering
<1>9. CASE ExtraEntries(c)
  <2>1. /\ UNCHANGED <<now, local, holder, ruleVars, issuerVars, pay>> /\ Unlocked
    BY <1>9 DEF ExtraEntries
  <2>2. CASE /\ Goto(c, "extras", "lock")
             /\ work' = [work EXCEPT ![c].extra = {a \in Addr : local[a] # Absent}]
             /\ UNCHANGED tableVars
    <3>1. /\ JobInv' /\ Others(c) /\ job[c].pc = "extras" /\ job'[c].pc = "lock"
      BY <1>1, <2>2, CronGoes DEF CronPlaces
    <3>2. PICK found \in SUBSET Addr : work' = [work EXCEPT ![c].extra = found]
      BY <2>2
    <3>3. /\ WorkTypeOK' /\ work'[c].rest = work[c].rest /\ work'[c].cur = work[c].cur
          /\ work'[c].gone = work[c].gone
          /\ \A d \in Cron : d # c => work'[d] = work[d]
      BY <1>4, <3>2 DEF WorkTypeOK, WorkRecord
    <3>4. Explained' = Explained
      BY <2>1, <2>2, <3>3, GoneKept DEF Explained, Entered
    <3> QED
      BY <1>1, <1>2, <1>3, <1>4, <2>1, <2>2, <3>1, <3>3, <3>4 DEF Locking, Remembering
  <2>3. CASE Die(c, "extras")
    <3>1. DataInv' /\ FreeStep(c)
      <4>1. /\ JobInv' /\ Others(c) /\ job[c].pc = "extras" /\ job'[c].pc = "idle"
        BY <1>1, <2>3, CronGoes DEF Die, CronPlaces
      <4>2. /\ WorkTypeOK' /\ work'[c] = NoWork /\ stranded' \subseteq Addr
            /\ \A d \in Cron : d # c => work'[d] = work[d]
            /\ Explained \subseteq Explained'
        BY <1>1, <1>4, <2>1, <2>3, DieEffect
      <4>3. NoWork.rest = 0 /\ NoWork.cur = {} /\ NoWork.gone = {}  BY DEF NoWork
      <4>4. UNCHANGED <<acl, scrap>>  BY <2>3 DEF Die
      <4> QED
        BY <1>1, <1>2, <2>1, <4>1, <4>2, <4>3, <4>4 DEF Locking, Remembering
    <3> QED  BY <3>1
  <2> QED  BY <1>9, <2>2, <2>3 DEF ExtraEntries
<1> QED  BY <1>6, <1>7, <1>8, <1>9

\* expire-rules begins to update the table.
LEMMA BeginUpdateEffect ==
  ASSUME DataInv, NEW c \in Cron, BeginUpdate(c)
  PROVE  DataInv' /\ EnterStep(c)
<1> USE DEF aclVars, tableVars, ruleVars
<1>1. JobInv /\ WorkInv /\ WorkTypeOK /\ c \in Proc /\ acl \in Acl
  BY DEF DataInv, SharedTypeOK, WorkInv, Proc
<1>2. /\ JobInv' /\ Others(c) /\ job[c].pc = "lock" /\ job'[c].pc = "each"
      /\ job'[c].t = job[c].t
  BY <1>1, CronGoes DEF BeginUpdate, CronPlaces
<1> DEFINE entries == [a \in Addr |-> IF a \in work[c].extra THEN Absent ELSE acl[a]]
           todo == Expired(entries, job[c].t)
<1>3. work' = [work EXCEPT ![c].entries = entries, ![c].todo = todo]
  BY DEF BeginUpdate
<1>4. entries \in Acl  BY <1>1 DEF Acl
<1>5. todo \in SUBSET Addr  BY DEF Expired
<1>6. todo = Expired(entries, job'[c].t)  BY <1>2
<1> HIDE DEF entries, todo
<1>7. /\ WorkTypeOK' /\ work'[c].rest = work[c].rest /\ work'[c].cur = work[c].cur
      /\ work'[c].entries = entries /\ work'[c].todo = todo
      /\ \A d \in Cron : d # c => work'[d] = work[d]
      /\ work'[c].gone = work[c].gone
  BY <1>1, <1>3, <1>4, <1>5 DEF WorkTypeOK, WorkRecord
<1>8. work[c].cur = {} /\ work[c].rest \in Nat  BY <1>1, <1>2 DEF WorkInv, WorkFits
<1>9. WorkInv'  BY <1>1, <1>2, <1>6, <1>7, <1>8, WorkInvOfCron DEF Remembering
<1>10. SharedTypeOK'  BY <1>1 DEF BeginUpdate, Lock, DataInv, SharedTypeOK, issuerVars
<1>11. PayInv'  BY DEF BeginUpdate, DataInv, PayInv, PayTypeOK, PayFits
<1>12. EnterStep(c)  BY <1>2, <1>7, GoneKept DEF BeginUpdate, Lock, EnterStep, Others, Locking
<1> QED  BY <1>2, <1>9, <1>10, <1>11, <1>12 DEF DataInv

\* The table is written, or not, or the script dies.
LEMMA ReplaceEffect ==
  ASSUME DataInv, NEW c \in Cron, Replace(c)
  PROVE  DataInv' /\ ReplaceStep(c)
<1>1. /\ JobInv /\ WorkInv /\ WorkTypeOK /\ c \in Proc /\ acl \in Acl
      /\ scrap \subseteq Addr /\ stranded \subseteq Addr
  BY DEF DataInv, SharedTypeOK, WorkInv, Proc
<1>2. NoWork \in WorkRecord /\ NoWork.rest = 0 /\ NoWork.cur = {} /\ NoWork.gone = {}
  BY DEF NoWork, WorkRecord, Acl
<1>3. UNCHANGED <<now, local, ruleVars, issuerVars, pay>> /\ holder' = Nobody
  BY DEF Replace, Unlock
<1>4. ASSUME NEW to \in {"rules", "idle"}, Goto(c, "each", to),
             WorkTypeOK', work'[c] = NoWork, \A d \in Cron : d # c => work'[d] = work[d],
             acl' \in Acl, scrap' \subseteq Addr, stranded' \subseteq Addr,
             to = "idle" => Explained \subseteq Explained'
      PROVE  DataInv' /\ ReplaceStep(c)
  <2>1. JobInv' /\ Others(c) /\ job[c].pc = "each" /\ job'[c].pc = to
    BY <1>1, <1>4, CronGoes DEF CronPlaces
  <2>2. WorkInv'  BY <1>1, <1>2, <1>4, <2>1, WorkInvOfCron
  <2>3. SharedTypeOK'  BY <1>3, <1>4 DEF DataInv, SharedTypeOK, ruleVars, issuerVars
  <2>4. PayInv'  BY <1>3 DEF DataInv, PayInv, PayTypeOK, PayFits
  <2>5. ReplaceStep(c)  BY <1>3, <1>4, <2>1 DEF ReplaceStep, Others
  <2> QED  BY <2>1, <2>2, <2>3, <2>4, <2>5 DEF DataInv
<1>5. CASE /\ Goto(c, "each", "rules")
           /\ Written(work[c].entries) \/ NotWritten
           /\ work' = [work EXCEPT ![c] = NoWork]
  <2>1. /\ WorkTypeOK' /\ work'[c] = NoWork
        /\ \A d \in Cron : d # c => work'[d] = work[d]
    BY <1>1, <1>2, <1>5 DEF WorkTypeOK
  <2>2. work[c].entries \in Acl  BY <1>1 DEF WorkTypeOK, WorkRecord
  <2>3. acl' \in Acl /\ scrap' \subseteq Addr /\ stranded' \subseteq Addr
    BY <1>1, <1>5, <2>2, WrittenEffect DEF NotWritten, tableVars
  <2> QED  BY <1>4, <1>5, <2>1, <2>3
<1>6. CASE Die(c, "each")
  <2>1. /\ WorkTypeOK' /\ work'[c] = NoWork /\ stranded' \subseteq Addr
        /\ \A d \in Cron : d # c => work'[d] = work[d]
        /\ Explained \subseteq Explained'
    BY <1>1, <1>3, <1>6, DieEffect
  <2>2. Goto(c, "each", "idle") /\ UNCHANGED <<acl, scrap>>  BY <1>6 DEF Die
  <2> QED  BY <1>1, <1>4, <2>1, <2>2
<1> QED  BY <1>5, <1>6 DEF Replace

\* An entry is looked at: the issuer may be asked, under the lock.
LEMMA LookAtStep ==
  ASSUME DataInv, NEW c \in Cron, Updating(c), JobInv', Others(c),
         job'[c].pc \in {"each", "verifyrest", "drain"}, job'[c].t = job[c].t,
         WorkTypeOK', \A d \in Cron : d # c => work'[d] = work[d],
         work'[c].rest \in Nat, \A a, b \in work'[c].cur : a = b,
         work'[c].gone = work[c].gone,
         job'[c].pc = "each" => work'[c].cur = {},
         work'[c].todo \cap work'[c].cur = {},
         work'[c].todo \cup work'[c].cur = Expired(work'[c].entries, job[c].t),
         value' \in [Rand -> Nat], till' \in Nat, unheard' \in Nat, charged' \in Nat,
         UNCHANGED <<now, aclVars, ruleVars, pay>>
  PROVE  DataInv' /\ InnerStep(c)
<1> USE DEF aclVars, tableVars, ruleVars
<1>1. WorkInv'  BY WorkInvOfCron DEF DataInv, Updating, Remembering
<1>2. SharedTypeOK'  BY DEF DataInv, SharedTypeOK
<1>3. PayInv'  BY DEF DataInv, PayInv, PayTypeOK, PayFits
<1>4. InnerStep(c)  BY GoneKept DEF InnerStep, Updating, Others
<1> QED  BY <1>1, <1>2, <1>3, <1>4 DEF DataInv

\* Dropping an entry takes it, and nothing else, out of the expired ones.
LEMMA DroppedIsNotExpired ==
  ASSUME NEW entries \in Acl, NEW a \in Addr, NEW t \in Int
  PROVE  /\ [entries EXCEPT ![a] = Absent] \in Acl
         /\ Expired([entries EXCEPT ![a] = Absent], t) = Expired(entries, t) \ {a}
  BY DEF Acl, Expired

\* So does paying for it.
LEMMA PaidIsNotExpired ==
  ASSUME NEW entries \in Acl, NEW a \in Addr, NEW t \in Int, NEW n \in Int,
         entries[a] # Absent, entries[a].expire + n > t
  PROVE  /\ [entries EXCEPT ![a].expire = @ + n] \in Acl
         /\ Expired([entries EXCEPT ![a].expire = @ + n], t) = Expired(entries, t) \ {a}
<1> DEFINE new == [entries[a] EXCEPT !.expire = @ + n]
<1>1. entries[a] \in Entry  BY DEF Acl
<1>2. new \in Entry /\ new.expire = entries[a].expire + n
  BY <1>1 DEF Entry, Minutes
<1>3. [entries EXCEPT ![a].expire = @ + n] = [entries EXCEPT ![a] = new]  OBVIOUS
<1>4. new # Absent  BY <1>2, TablesAssumption
<1>5. ~(new.expire <= t)
  <2>1. entries[a].expire \in Int  BY <1>1 DEF Entry, Minutes
  <2> QED  BY <1>2, <2>1
<1> HIDE DEF new
<1>6. [entries EXCEPT ![a] = new] \in Acl  BY <1>2 DEF Acl
<1>7. Expired([entries EXCEPT ![a] = new], t) = Expired(entries, t) \ {a}
  BY <1>5 DEF Expired, Acl
<1> QED  BY <1>3, <1>6, <1>7

\* The steps of expire-rules in its update of the table.
LEMMA CronInsideEffect ==
  ASSUME DataInv, NEW c \in Cron,
         DropExpired(c) \/ Charge(c) \/ VerifyRest(c) \/ DrainRest(c)
  PROVE  DataInv' /\ InnerStep(c)
<1> DEFINE w == work[c]
           t == job[c].t
<1>1. /\ JobInv /\ JobTypeOK /\ WorkInv /\ WorkTypeOK /\ WorkFits /\ c \in Proc
      /\ value \in [Rand -> Nat] /\ till \in Nat /\ unheard \in Nat /\ charged \in Nat
  BY DEF DataInv, SharedTypeOK, JobInv, WorkInv, Proc
<1>2. Updating(c)
  BY DEF DropExpired, Charge, VerifyRest, DrainRest, Goto, Updating
<1>3. /\ w \in WorkRecord /\ w.rest \in Nat /\ \A a, b \in w.cur : a = b
      /\ w.todo \cap w.cur = {} /\ w.todo \cup w.cur = Expired(w.entries, t)
      /\ job[c].pc = "each" => w.cur = {}
  BY <1>1, <1>2 DEF WorkTypeOK, WorkFits
<1>4. /\ w.entries \in Acl /\ w.todo \subseteq Addr /\ w.cur \subseteq Addr /\ t \in Int
  BY <1>1, <1>3, GateAssumption DEF WorkRecord, JobTypeOK, JobRecord
<1>5. CASE DropExpired(c)
  <2>1. PICK a \in w.todo :
          work' = [work EXCEPT ![c].todo = @ \ {a}, ![c].entries[a] = Absent]
    BY <1>5 DEF DropExpired
  <2>2. UNCHANGED job /\ job[c].pc = "each" /\ a \in Addr  BY <1>4, <1>5 DEF DropExpired
  <2> DEFINE dropped == [w.entries EXCEPT ![a] = Absent]
  <2>3. dropped \in Acl /\ Expired(dropped, t) = Expired(w.entries, t) \ {a}
    BY <1>4, <2>2, DroppedIsNotExpired
  <2>4. work' = [work EXCEPT ![c].todo = @ \ {a}, ![c].entries = dropped]
    BY <2>1
  <2> HIDE DEF dropped
  <2>5. /\ WorkTypeOK' /\ work'[c].rest = w.rest /\ work'[c].cur = w.cur
        /\ work'[c].gone = w.gone
        /\ work'[c].todo = w.todo \ {a} /\ work'[c].entries = dropped
        /\ \A d \in Cron : d # c => work'[d] = work[d]
    BY <1>1, <1>3, <2>3, <2>4 DEF WorkTypeOK, WorkRecord
  <2>6. JobInv' /\ Others(c)  BY <1>1, <2>2 DEF JobInv, JobTypeOK, JobFits, Others
  <2>7. UNCHANGED <<now, aclVars, ruleVars, pay, value, till, unheard, charged>>
    BY <1>5 DEF DropExpired, issuerVars
  <2>8. /\ work'[c].cur = {}
        /\ work'[c].todo \cup work'[c].cur = Expired(work'[c].entries, t)
    BY <1>3, <2>2, <2>3, <2>5
  <2> QED  BY <1>1, <1>2, <1>3, <2>2, <2>5, <2>6, <2>7, <2>8, LookAtStep
<1>6. CASE Charge(c)
  <2>1. PICK a \in w.todo, o \in Outcomes :
          LET e == w.entries[a]
          IN  /\ PaySeller(e.rand, Due(e, t), o, TRUE)
              /\ IF o = "paid"
                   THEN /\ work' = [work EXCEPT
                                      ![c].todo = @ \ {a},
                                      ![c].entries[a].expire = @ + Missed(e, t),
                                      ![c].got[a] = @ + Due(e, t)]
                        /\ UNCHANGED job
                   ELSE /\ work' = [work EXCEPT ![c].todo = @ \ {a}, ![c].cur = {a}]
                        /\ Goto(c, "each", "verifyrest")
    BY <1>6 DEF Charge
  <2> DEFINE e == w.entries[a]
  <2>2. /\ a \in Addr /\ e \in Entry /\ e.rand \in Rand /\ e.expire \in Int
        /\ e.expire <= t /\ e # Absent
    BY <1>2, ExpiredIsEntry
  <2>3. Due(e, t) \in Nat /\ e.expire + Missed(e, t) = t + 1
    BY <1>4, <2>2, DueIsNat
  <2>4. /\ value' \in [Rand -> Nat] /\ till' \in Nat
        /\ unheard' \in Nat /\ charged' \in Nat
    BY <1>1, <2>1, <2>2, <2>3, SellerIsPaid
  <2>5. UNCHANGED <<now, aclVars, ruleVars, pay>> /\ job[c].pc = "each"
    BY <1>6 DEF Charge
  <2>6. CASE o = "paid"
    <3> DEFINE n == Missed(e, t)
               due == Due(e, t)
               paid == [w.entries EXCEPT ![a].expire = @ + n]
               gained == [w.got EXCEPT ![a] = @ + due]
    <3>1. n \in Int  BY <1>4, <2>2 DEF Missed
    <3>2. gained \in [Addr -> Int]
      <4>1. due \in Int  BY <2>3
      <4> HIDE DEF due
      <4> QED  BY <1>3, <4>1 DEF WorkRecord
    <3>3. paid \in Acl /\ Expired(paid, t) = Expired(w.entries, t) \ {a}
      <4>1. e.expire + n > t  BY <1>4, <2>3
      <4> HIDE DEF n
      <4> QED  BY <1>4, <2>2, <3>1, <4>1, PaidIsNotExpired
    <3>4. /\ work' = [work EXCEPT ![c].todo = @ \ {a}, ![c].entries = paid,
                                  ![c].got = gained]
          /\ UNCHANGED job
      <4>1. /\ work' = [work EXCEPT ![c].todo = @ \ {a},
                                    ![c].entries[a].expire = @ + Missed(e, t),
                                    ![c].got[a] = @ + Due(e, t)]
            /\ UNCHANGED job
        BY <2>1, <2>6
      <4> QED  BY <4>1
    <3> HIDE DEF n, due, paid, gained
    <3>5. /\ WorkTypeOK' /\ work'[c].rest = w.rest /\ work'[c].cur = w.cur
          /\ work'[c].gone = w.gone
          /\ work'[c].todo = w.todo \ {a} /\ work'[c].entries = paid
          /\ \A d \in Cron : d # c => work'[d] = work[d]
      BY <1>1, <1>3, <3>2, <3>3, <3>4 DEF WorkTypeOK, WorkRecord
    <3>6. JobInv' /\ Others(c)  BY <1>1, <3>4 DEF JobInv, JobTypeOK, JobFits, Others
    <3>7. /\ work'[c].cur = {}
          /\ work'[c].todo \cup work'[c].cur = Expired(work'[c].entries, t)
      BY <1>3, <2>5, <3>3, <3>5
    <3> QED  BY <1>1, <1>2, <1>3, <2>4, <2>5, <3>4, <3>5, <3>6, <3>7, LookAtStep
  <2>7. CASE o # "paid"
    <3>1. /\ work' = [work EXCEPT ![c].todo = @ \ {a}, ![c].cur = {a}]
          /\ Goto(c, "each", "verifyrest")
      BY <2>1, <2>7
    <3>2. /\ JobInv' /\ Others(c) /\ job'[c].pc = "verifyrest" /\ job'[c].t = t
      BY <1>1, <3>1, CronGoes DEF CronPlaces
    <3>3. /\ WorkTypeOK' /\ work'[c].rest = w.rest /\ work'[c].cur = {a}
          /\ work'[c].gone = w.gone
          /\ work'[c].todo = w.todo \ {a} /\ work'[c].entries = w.entries
          /\ \A d \in Cron : d # c => work'[d] = work[d]
      BY <1>1, <1>3, <2>2, <3>1 DEF WorkTypeOK, WorkRecord
    <3>4. work'[c].todo \cup work'[c].cur = Expired(work'[c].entries, t)
      BY <1>3, <2>5, <3>3
    <3> QED  BY <1>1, <1>2, <1>3, <2>4, <2>5, <3>2, <3>3, <3>4, LookAtStep
  <2> QED  BY <2>6, <2>7
<1>7. CASE VerifyRest(c)
  <2>1. PICK a \in w.cur :
          \/ /\ Goto(c, "verifyrest", "each")
             /\ work' = [work EXCEPT ![c].cur = {}, ![c].entries[a] = Absent]
          \/ /\ value[w.entries[a].rand] > 0
             /\ Goto(c, "verifyrest", "drain")
             /\ work' = [work EXCEPT
                           ![c].rest = Min({value[w.entries[a].rand],
                                            Due(w.entries[a], t)})]
    BY <1>7 DEF VerifyRest
  <2> DEFINE e == w.entries[a]
  <2>2. /\ a \in Addr /\ e \in Entry /\ e.rand \in Rand /\ e.expire \in Int
        /\ e.expire <= t /\ e # Absent
    BY <1>2, ExpiredIsEntry
  <2>3. UNCHANGED <<now, aclVars, ruleVars, pay, value, till, unheard, charged>>
        /\ job[c].pc = "verifyrest"
    BY <1>7 DEF VerifyRest, issuerVars
  <2>4. CASE /\ Goto(c, "verifyrest", "each")
             /\ work' = [work EXCEPT ![c].cur = {}, ![c].entries[a] = Absent]
    <3> DEFINE dropped == [w.entries EXCEPT ![a] = Absent]
    <3>1. dropped \in Acl /\ Expired(dropped, t) = Expired(w.entries, t) \ {a}
      BY <1>4, <2>2, DroppedIsNotExpired
    <3>2. work' = [work EXCEPT ![c].cur = {}, ![c].entries = dropped]
      BY <2>4
    <3> HIDE DEF dropped
    <3>3. /\ WorkTypeOK' /\ work'[c].rest = w.rest /\ work'[c].cur = {}
          /\ work'[c].gone = w.gone
          /\ work'[c].todo = w.todo /\ work'[c].entries = dropped
          /\ \A d \in Cron : d # c => work'[d] = work[d]
      BY <1>1, <1>3, <3>1, <3>2 DEF WorkTypeOK, WorkRecord
    <3>4. /\ JobInv' /\ Others(c) /\ job'[c].pc = "each" /\ job'[c].t = t
      BY <1>1, <2>4, CronGoes DEF CronPlaces
    <3>5. w.cur = {a}  BY <1>3
    <3>6. work'[c].todo \cup work'[c].cur = Expired(work'[c].entries, t)
      BY <1>3, <3>1, <3>3, <3>5
    <3> QED  BY <1>1, <1>2, <1>3, <2>3, <3>3, <3>4, <3>6, LookAtStep
  <2>5. CASE /\ value[e.rand] > 0
             /\ Goto(c, "verifyrest", "drain")
             /\ work' = [work EXCEPT ![c].rest = Min({value[e.rand], Due(e, t)})]
    <3> DEFINE rest == Min({value[e.rand], Due(e, t)})
    <3>1. rest \in Nat
      <4>1. value[e.rand] \in Nat /\ Due(e, t) \in Nat
        BY <1>1, <1>4, <2>2, DueIsNat
      <4>2. \A m, n \in Nat : Min({m, n}) \in Nat
        <5>1. TAKE m, n \in Nat
        <5>2. \E x \in {m, n} : \A y \in {m, n} : x =< y  OBVIOUS
        <5>3. Min({m, n}) \in {m, n}  BY <5>2 DEF Min
        <5> QED  BY <5>3
      <4> QED  BY <4>1, <4>2
    <3>2. work' = [work EXCEPT ![c].rest = rest]  BY <2>5
    <3> HIDE DEF rest
    <3>3. /\ WorkTypeOK' /\ work'[c].rest = rest /\ work'[c].cur = w.cur
          /\ work'[c].gone = w.gone
          /\ work'[c].todo = w.todo /\ work'[c].entries = w.entries
          /\ \A d \in Cron : d # c => work'[d] = work[d]
      <4> DEFINE new == [w EXCEPT !.rest = rest]
      <4>1. /\ new \in WorkRecord /\ new.rest = rest /\ new.cur = w.cur
            /\ new.gone = w.gone /\ new.todo = w.todo /\ new.entries = w.entries
        BY <1>3, <3>1 DEF WorkRecord
      <4>2. work' = [work EXCEPT ![c] = new]  BY <3>2
      <4> HIDE DEF new
      <4> QED  BY <1>1, <4>1, <4>2 DEF WorkTypeOK
    <3>4. /\ JobInv' /\ Others(c) /\ job'[c].pc = "drain" /\ job'[c].t = t
      BY <1>1, <2>5, CronGoes DEF CronPlaces
    <3> QED  BY <1>1, <1>2, <1>3, <2>3, <3>1, <3>3, <3>4, LookAtStep
  <2> QED  BY <2>1, <2>4, <2>5
<1>8. CASE DrainRest(c)
  <2>1. PICK a \in w.cur, o \in Outcomes :
          /\ PaySeller(w.entries[a].rand, w.rest, o, TRUE)
          /\ work' = [work EXCEPT ![c].cur = {}, ![c].rest = 0,
                                  ![c].entries[a] = Absent,
                                  ![c].got[a] = IF o = "paid" THEN @ + work[c].rest ELSE @]
    BY <1>8 DEF DrainRest
  <2>2. a \in Addr /\ w.entries[a].rand \in Rand  BY <1>2, ExpiredIsEntry
  <2>3. UNCHANGED <<now, aclVars, ruleVars, pay>> /\ Goto(c, "drain", "each")
    BY <1>8 DEF DrainRest
  <2>4. /\ value' \in [Rand -> Nat] /\ till' \in Nat
        /\ unheard' \in Nat /\ charged' \in Nat
    BY <1>1, <1>3, <2>1, <2>2, SellerIsPaid
  <2> DEFINE dropped == [w.entries EXCEPT ![a] = Absent]
  <2>5. dropped \in Acl /\ Expired(dropped, t) = Expired(w.entries, t) \ {a}
    BY <1>4, <2>2, DroppedIsNotExpired
  <2> DEFINE gained == [w.got EXCEPT ![a] = IF o = "paid" THEN @ + w.rest ELSE @]
  <2>6. /\ work' = [work EXCEPT ![c].cur = {}, ![c].rest = 0, ![c].entries = dropped,
                                 ![c].got = gained]
        /\ gained \in [Addr -> Int]
    <3>1. work' = [work EXCEPT ![c].cur = {}, ![c].rest = 0, ![c].entries = dropped,
                               ![c].got = gained]
      BY <2>1
    <3>2. gained \in [Addr -> Int]  BY <1>3 DEF WorkRecord
    <3> QED  BY <3>1, <3>2
  <2> HIDE DEF dropped, gained
  <2>7. /\ WorkTypeOK' /\ work'[c].rest = 0 /\ work'[c].cur = {}
        /\ work'[c].gone = w.gone
        /\ work'[c].todo = w.todo /\ work'[c].entries = dropped
        /\ \A d \in Cron : d # c => work'[d] = work[d]
    BY <1>1, <1>3, <2>5, <2>6 DEF WorkTypeOK, WorkRecord
  <2>8. /\ JobInv' /\ Others(c) /\ job'[c].pc = "each" /\ job'[c].t = t
    BY <1>1, <2>3, CronGoes DEF CronPlaces
  <2>9. w.cur = {a}  BY <1>3
  <2>10. work'[c].todo \cup work'[c].cur = Expired(work'[c].entries, t)
    BY <1>3, <2>5, <2>7, <2>9
  <2> QED  BY <1>1, <1>2, <1>3, <2>3, <2>4, <2>7, <2>8, <2>10, LookAtStep
<1> QED  BY <1>5, <1>6, <1>7, <1>8

----------------------------------------------------------------------------
(* The control half.                                                        *)

\* The lock, the chains and the rules that are still to be made, step by step.
LEMMA ControlStep ==
  ASSUME DataInv, ControlInv, NEW p \in Proc,
         \/ StillStep \/ FreeStep(p) \/ EnterStep(p) \/ InnerStep(p)
         \/ ReplaceStep(p) \/ RedirectStep(p)
  PROVE  ControlInv'
<1> USE DEF ruleVars, tableVars, Locking
<1>1. /\ LockFollowsPc /\ ChainsFollowPc /\ RemovalsAreFollowed
      /\ Nobody \notin Proc /\ holder \in Proc \cup {Nobody}
  BY GateAssumption DEF ControlInv, DataInv, SharedTypeOK
<1>2. Unlocked => \A q \in Proc : job[q].pc \notin Locking
  BY <1>1 DEF Unlocked, LockFollowsPc
<1>3. /\ UNCHANGED <<acl, scrap, local>> => Listed' = Listed /\ Entered' = Entered
      /\ UNCHANGED <<tableVars, local, Gone>> => Explained' = Explained
  BY DEF Listed, Entered, Explained
<1>4. CASE StillStep
  <2>1. LockFollowsPc'  BY <1>1, <1>4 DEF StillStep, LockFollowsPc
  <2>2. ChainsFollowPc'  BY <1>1, <1>2, <1>3, <1>4 DEF StillStep, ChainsFollowPc
  <2>3. RemovalsAreFollowed'  BY <1>1, <1>4 DEF StillStep, RemovalsAreFollowed
  <2> QED  BY <2>1, <2>2, <2>3 DEF ControlInv
<1>5. CASE FreeStep(p)
  <2>1. LockFollowsPc'  BY <1>1, <1>5 DEF FreeStep, LockFollowsPc
  <2>2. ChainsFollowPc'  BY <1>1, <1>2, <1>3, <1>5 DEF FreeStep, ChainsFollowPc
  <2>3. RemovalsAreFollowed'  BY <1>1, <1>5 DEF FreeStep, RemovalsAreFollowed
  <2> QED  BY <2>1, <2>2, <2>3 DEF ControlInv
<1>6. CASE EnterStep(p)
  <2>1. LockFollowsPc'  BY <1>1, <1>2, <1>6 DEF EnterStep, LockFollowsPc
  <2>2. ChainsFollowPc'  BY <1>1, <1>2, <1>3, <1>6 DEF EnterStep, ChainsFollowPc
  <2>3. RemovalsAreFollowed'
    <3>1. CASE filter' = Listed /\ stranded' = scrap
      BY <1>3, <1>6, <3>1 DEF EnterStep, RemovalsAreFollowed, Listed, Explained
    <3>2. CASE job[p].pc = "lock" /\ UNCHANGED <<filter, stranded>>
      BY <1>1, <1>3, <1>6, <3>2 DEF EnterStep, RemovalsAreFollowed
    <3> QED  BY <1>6, <3>1, <3>2 DEF EnterStep
  <2> QED  BY <2>1, <2>2, <2>3 DEF ControlInv
<1>7. CASE InnerStep(p)
  <2>1. LockFollowsPc'  BY <1>1, <1>7 DEF InnerStep, LockFollowsPc
  <2>2. ChainsFollowPc'  BY <1>1, <1>3, <1>7 DEF InnerStep, ChainsFollowPc
  <2>3. RemovalsAreFollowed'  BY <1>1, <1>3, <1>7 DEF InnerStep, RemovalsAreFollowed
  <2> QED  BY <2>1, <2>2, <2>3 DEF ControlInv
<1>8. CASE ReplaceStep(p)
  <2>1. LockFollowsPc'  BY <1>1, <1>8 DEF ReplaceStep, LockFollowsPc
  <2>2. \A q \in Proc : job[q].pc # "rules2" /\ job'[q].pc # "rules2"
    BY <1>1, <1>8 DEF ReplaceStep, LockFollowsPc
  <2>3. ChainsFollowPc'  BY <1>1, <1>8, <2>2 DEF ReplaceStep, ChainsFollowPc
  <2>4. RemovalsAreFollowed'  BY <1>1, <1>8 DEF ReplaceStep, RemovalsAreFollowed
  <2> QED  BY <2>1, <2>3, <2>4 DEF ControlInv
<1>9. CASE RedirectStep(p)
  <2>1. LockFollowsPc'  BY <1>1, <1>9 DEF RedirectStep, LockFollowsPc
  <2>2. ChainsFollowPc'  BY <1>1, <1>3, <1>9, <2>1 DEF RedirectStep, ChainsFollowPc, LockFollowsPc
  <2>3. RemovalsAreFollowed'
    BY <1>1, <1>3, <1>9 DEF RedirectStep, RemovalsAreFollowed
  <2> QED  BY <2>1, <2>2, <2>3 DEF ControlInv
<1> QED  BY <1>4, <1>5, <1>6, <1>7, <1>8, <1>9

----------------------------------------------------------------------------
\* At the start all is quiet.
LEMMA GateInvInit == Init => GateInv
<1> SUFFICES ASSUME Init PROVE GateInv  OBVIOUS
<1> USE DEF Init
<1>1. \A p \in Proc : job[p] = NoJob /\ pay[p] = NoPay
  BY DEF JobInit, PayInit
<1>2. \A c \in Cron : work[c] = NoWork /\ c \in Proc  BY DEF WorkInit, Proc
<1>3. SharedTypeOK
  <2>1. 0 \in 0..MaxTime  BY GateAssumption
  <2> QED  BY <2>1, GateAssumption, TablesAssumption DEF SharedTypeOK, Listed, Entered
<1>4. JobInv
  <2>1. NoJob \in JobRecord
    BY GateAssumption DEF NoJob, JobRecord, PCs, AllKinds
  <2>2. JobTypeOK  BY <2>1 DEF JobTypeOK, JobInit
  <2>3. JobFits
    BY <1>1 DEF JobFits, NoJob, Proc, ScriptPlaces, CronPlaces, Payments
  <2> QED  BY <2>2, <2>3 DEF JobInv
<1>5. PayInv
  <2>1. PayTypeOK  BY DEF PayTypeOK, PayInit
  <2>2. PayFits  BY <1>1 DEF PayFits, NoPay, Proc
  <2> QED  BY <2>1, <2>2 DEF PayInv
<1>6. WorkInv
  <2>1. NoWork \in WorkRecord  BY DEF NoWork, WorkRecord, Acl
  <2>2. WorkTypeOK  BY <2>1 DEF WorkTypeOK, WorkInit
  <2>3. WorkFits
    BY <1>1, <1>2 DEF WorkFits, NoWork, NoJob, Updating, Remembering
  <2> QED  BY <2>2, <2>3 DEF WorkInv
<1>7. ControlInv
  <2>1. LockFollowsPc  BY <1>1 DEF LockFollowsPc, NoJob, Locking
  <2>2. ChainsFollowPc  BY <1>1 DEF ChainsFollowPc, NoJob
  <2>3. RemovalsAreFollowed  BY DEF RemovalsAreFollowed, Listed, Explained
  <2> QED  BY <2>1, <2>2, <2>3 DEF ControlInv
<1> QED  BY <1>3, <1>4, <1>5, <1>6, <1>7 DEF GateInv, DataInv

\* Every step of every script, and of the clock, preserves the invariant.
LEMMA GateInvStep == GateInv /\ [Next]_vars => GateInv'
<1> SUFFICES ASSUME GateInv, [Next]_vars PROVE GateInv'  OBVIOUS
<1>1. DataInv /\ ControlInv  BY DEF GateInv
<1>2. CASE UNCHANGED vars
  <2>1. DataInv'
    BY <1>1, <1>2
    DEF vars, aclVars, tableVars, ruleVars, issuerVars, DataInv, SharedTypeOK, JobInv, JobTypeOK,
        JobFits, PayInv, PayTypeOK, PayFits, WorkInv, WorkTypeOK, WorkFits, Updating
  <2>2. ControlInv'
    BY <1>1, <1>2
    DEF vars, aclVars, tableVars, ruleVars, ControlInv, LockFollowsPc, ChainsFollowPc,
        RemovalsAreFollowed, Listed, Entered, Explained, Gone
  <2> QED  BY <2>1, <2>2 DEF GateInv
<1>3. CASE Tick
  <2>1. now' \in 0..MaxTime
    BY <1>1, <1>3, GateAssumption DEF Tick, DataInv, SharedTypeOK
  <2>2. DataInv'
    BY <1>1, <1>3, <2>1
    DEF Tick, aclVars, tableVars, ruleVars, issuerVars, DataInv, SharedTypeOK, JobInv, JobTypeOK,
        JobFits, PayInv, PayTypeOK, PayFits, WorkInv, WorkTypeOK, WorkFits, Updating
  <2>3. ControlInv'
    BY <1>1, <1>3
    DEF Tick, aclVars, tableVars, ruleVars, ControlInv, LockFollowsPc, ChainsFollowPc,
        RemovalsAreFollowed, Listed, Entered, Explained, Gone
  <2> QED  BY <2>2, <2>3 DEF GateInv
<1>4. ASSUME NEW p \in Script, Call(p), UNCHANGED work PROVE GateInv'
  <2>1. p \in Proc /\ now \in 0..MaxTime /\ JobInv
    BY <1>1 DEF Proc, DataInv, SharedTypeOK
  <2>2. JobInv' /\ Others(p) /\ job[p].pc = "idle" /\ job'[p].pc \in {"list", "unlist", "extra"}
    BY <1>4, <2>1, CallEffect
  <2>3. ScriptMoves(p)  BY <2>2 DEF ScriptMoves, Locking
  <2>4. DataInv' /\ FreeStep(p)
    BY <1>1, <1>4, <2>3, TableStep DEF Call, aclVars, tableVars, Entered, DataInv, SharedTypeOK
  <2> QED  BY <1>1, <2>1, <2>4, ControlStep DEF GateInv
<1>5. ASSUME NEW p \in Script, ScriptStep(p) PROVE GateInv'
  BY <1>1, <1>5, ScriptStepEffect, ControlStep DEF GateInv, Proc
<1>6. ASSUME NEW p \in Script, PayStep(p) PROVE GateInv'
  BY <1>1, <1>6, PayStepEffect, ControlStep DEF GateInv, Proc
<1>7. ASSUME NEW p \in Proc, RulesStep(p) PROVE GateInv'
  BY <1>1, <1>7, RulesFilterEffect, RulesRedirectEffect, ControlStep
  DEF GateInv, RulesStep, UpdateRules
<1>8. ASSUME NEW c \in Cron, CronNext(c) PROVE GateInv'
  <2>1. DataInv' /\ CronStep(c)
    BY <1>1, <1>8, CronOutsideEffect, BeginUpdateEffect, CronInsideEffect, ReplaceEffect
    DEF CronNext, CronStep
  <2> QED  BY <1>1, <2>1, ControlStep DEF GateInv, CronStep, Proc
<1> QED  BY <1>2, <1>3, <1>4, <1>5, <1>6, <1>7, <1>8 DEF Next

\* GateInv holds in every reachable state.
THEOREM GateInvariance == Spec => []GateInv
<1>1. Init => GateInv  BY GateInvInit
<1>2. GateInv /\ [Next]_vars => GateInv'  BY GateInvStep
<1> QED  BY <1>1, <1>2, PTL DEF Spec

\* The variables of all scripts, tables, chains and the issuer keep their types.
THEOREM GateTypeCorrect == Spec => []TypeOK
<1>1. GateInv => TypeOK
  BY DEF GateInv, DataInv, SharedTypeOK, JobInv, PayInv, WorkInv, TypeOK
<1> QED  BY <1>1, GateInvariance, PTL

\* A client that may pass is not sent to the payment page while nobody holds the acl
\* lock (update-rules).
THEOREM ChainsAgreeHolds == Spec => []ChainsAgree
<1>1. GateInv => ChainsAgree
  BY GateAssumption
  DEF GateInv, ControlInv, LockFollowsPc, ChainsFollowPc, ChainsAgree, Unlocked, Locking
<1> QED  BY <1>1, GateInvariance, PTL

\* When all scripts have ended nobody passes without an entry, whatever was removed
\* meanwhile and by whom (logout, whitelist, expire-rules), but for those who have
\* lost it by a full disk or by an expire-rules that has died.
THEOREM NoAccessWithoutEntryHolds == Spec => []NoAccessWithoutEntry
<1>1. GateInv => NoAccessWithoutEntry
  <2> SUFFICES ASSUME GateInv, Quiet PROVE filter \subseteq Entered \cup stranded
    BY DEF NoAccessWithoutEntry
  <2>1. \A p \in Proc : job[p].pc # "rules"  BY DEF Quiet, Proc
  <2>2. Gone = {}
    BY DEF GateInv, DataInv, WorkInv, WorkFits, Quiet, Remembering, Gone
  <2> QED  BY <2>1, <2>2 DEF GateInv, ControlInv, RemovalsAreFollowed, Explained
<1> QED  BY <1>1, GateInvariance, PTL

\* expire-rules writes no entry that had expired when it looked at the clock.
THEOREM WrittenTableIsFreshHolds == Spec => []WrittenTableIsFresh
<1>1. GateInv => WrittenTableIsFresh
  BY DEF GateInv, DataInv, WorkInv, WorkFits, WrittenTableIsFresh, Updating
<1> QED  BY <1>1, GateInvariance, PTL
=============================================================================
