----------------------------- MODULE TakePayment -----------------------------
(***************************************************************************)
(* takepayment, which grant-access and topup start in the background: two  *)
(* state machines run in turns, one call each.  The first draws the        *)
(* payment and rolls the granted time back when the rand cannot pay; the   *)
(* second moves what is left of the client's old rand to the new one.      *)
(***************************************************************************)
EXTENDS GateState

VARIABLE pay    \* the takepayment process each script has started

NoPay == [draw |-> "none", old |-> "end", turn |-> 1]

Drawn == {"paid", "undone"}     \* the first machine has ended
Over == Drawn \cup {"dead"}      \* ... or the process has, on an error

PayRecord ==
  [draw : {"draw", "rollback", "rollback2"} \cup Over,
   old : {"verifyold", "drawold", "end"},
   turn : {1, 2},               \* whose call is next
   type : {"acl", "local"},     \* the acl to roll back
   addr : Addr, dt : {Day, Span}, rand : Rand, amount : {Tariff, Price},
   oldrand : Rand \cup {NoRand}, oldvalue : Int, t : 0..MaxTime]

PayTypeOK == pay \in [Proc -> PayRecord \cup {NoPay}]

PayInit == pay = [p \in Proc |-> NoPay]

\* "takepayment type addr dt rand amount oldrand &"
TakePayment(p, type, addr, dt, rand, amount, oldrand) ==
  pay' = [pay EXCEPT ![p] =
            [draw |-> "draw", old |-> "verifyold", turn |-> 1, type |-> type,
             addr |-> addr, dt |-> dt, rand |-> rand, amount |-> amount,
             oldrand |-> oldrand, oldvalue |-> -1, t |-> now]]

\* Mutant of Turn: the loop also calls the machine that has ended.
TurnAlways(draw, old, turn) == 3 - turn

\* The loop over the tasks: the other machine is called next, if it is alive.
Turn(draw, old, turn) ==
  CASE turn = 1 /\ old # "end" -> 2
    [] turn = 2 /\ draw \notin Over -> 1
    [] OTHER -> turn

\* The call of machine 1 that p makes returns with its state at "to".
DrawGoesTo(p, to) ==
  pay' = [pay EXCEPT ![p].draw = to, ![p].turn = Turn(to, pay[p].old, 1)]

OldGoesTo(p, to, v) ==
  pay' = [pay EXCEPT ![p].old = to, ![p].oldvalue = v,
                     ![p].turn = Turn(pay[p].draw, to, 2)]

At(p, task, state) ==
  IF task = 1 THEN pay[p].turn = 1 /\ pay[p].draw = state
  ELSE pay[p].turn = 2 /\ pay[p].old = state

----------------------------------------------------------------------------
\* Mutant of Draw: no answer counts as success.
DrawGivesUp(p) ==
  /\ At(p, 1, "draw")
  /\ \E o \in Outcomes :
       /\ PaySeller(pay[p].rand, pay[p].amount, o, FALSE)
       /\ DrawGoesTo(p, IF o = "refused" THEN "rollback" ELSE "paid")
  /\ UNCHANGED <<now, aclVars, ruleVars, job>>

\* draw: the payment to the seller; without an answer it is tried again.
Draw(p) ==
  /\ At(p, 1, "draw")
  /\ \E o \in Outcomes :
       /\ PaySeller(pay[p].rand, pay[p].amount, o, FALSE)
       /\ DrawGoesTo(p, CASE o = "paid" -> "paid"
                          [] o = "refused" -> "rollback"
                          [] OTHER -> "draw")
  /\ UNCHANGED <<now, aclVars, ruleVars, job>>

\* Mutant of RollbackLocal: the entry is made to expire at once.
RollbackLocalEnds(p) ==
  /\ At(p, 1, "rollback")
  /\ pay[p].type = "local"
  /\ Unlocked
  /\ local' = [local EXCEPT ![pay[p].addr] =
                 IF @ = Unlimited THEN Unlimited ELSE pay[p].t]
  /\ DrawGoesTo(p, "undone")
  /\ UNCHANGED <<now, tableVars, holder, ruleVars, issuerVars, job>>

\* rollback with the local acl: topup by -dt, one critical section.
RollbackLocal(p) ==
  /\ At(p, 1, "rollback")
  /\ pay[p].type = "local"
  /\ Unlocked
  /\ local' = LET q == pay[p]
              IN  [local EXCEPT ![q.addr] = CASE @ = Absent -> q.t - q.dt
                                              [] @ = Unlimited -> Unlimited
                                              [] OTHER -> @ - q.dt]
  /\ DrawGoesTo(p, "undone")
  /\ UNCHANGED <<now, tableVars, holder, ruleVars, issuerVars, job>>

\* rollback with the acl: topup looks for extra access first ...
RollbackAcl(p) ==
  /\ At(p, 1, "rollback")
  /\ pay[p].type = "acl"
  /\ Unlocked
  /\ IF local[pay[p].addr] # Absent
       THEN DrawGoesTo(p, "undone")
       ELSE pay' = [pay EXCEPT ![p].draw = "rollback2"]
  /\ UNCHANGED <<now, aclVars, ruleVars, issuerVars, job>>

\* Mutant of ToppedUp: only an entry that is there gets the rand.
ToppedUpWithoutRand(a, t, dt, r) ==
  [acl EXCEPT ![a] = IF @ = Absent THEN [expire |-> t + dt]
                     ELSE [expire |-> @.expire + dt, rand |-> r]]

\* The table of acl.topup(a, t, dt, r).
ToppedUp(a, t, dt, r) ==
  [acl EXCEPT ![a] =
     [expire |-> (IF @ = Absent THEN t ELSE @.expire) + dt, rand |-> r]]

\* Mutant of RollbackAclUpdate: the time is not taken back.
RollbackAclForgets(p) ==
  /\ At(p, 1, "rollback2")
  /\ Unlocked
  /\ DrawGoesTo(p, "undone")
  /\ UNCHANGED <<now, aclVars, ruleVars, issuerVars, job>>

\* ... and then updates the table: the rand is written again with the time.  An
\* update that returns nil is tried again from the start; an error ends the
\* process, both machines of it.
RollbackAclUpdate(p) ==
  /\ At(p, 1, "rollback2")
  /\ Unlocked
  /\ \/ /\ Written(ToppedUp(pay[p].addr, pay[p].t, -pay[p].dt, pay[p].rand))
        /\ DrawGoesTo(p, "undone")
     \/ /\ NotWritten
        /\ DrawGoesTo(p, "rollback")
     \/ /\ NotOpened
        /\ pay' = [pay EXCEPT ![p].draw = "dead", ![p].old = "end"]
  /\ UNCHANGED <<now, local, holder, ruleVars, issuerVars, job>>

----------------------------------------------------------------------------
\* verifyold: nothing to do without an old rand or without value on it.
VerifyOld(p) ==
  /\ At(p, 2, "verifyold")
  /\ \/ /\ pay[p].oldrand = NoRand
        /\ OldGoesTo(p, "end", -1)
     \/ /\ pay[p].oldrand # NoRand
        /\ \/ OldGoesTo(p, "verifyold", -1)               \* network error
           \/ /\ value[pay[p].oldrand] <= 0
              /\ OldGoesTo(p, "end", -1)
           \/ /\ value[pay[p].oldrand] > 0
              /\ OldGoesTo(p, "drawold", value[pay[p].oldrand])
  /\ UNCHANGED <<now, aclVars, ruleVars, issuerVars, job>>

\* drawold: the old rand's value goes to the new rand.  When it is refused the
\* function returns verifyold, which is not yet a local name at that place: it
\* returns nil and the machine ends.
DrawOld(p) ==
  /\ At(p, 2, "drawold")
  /\ \E o \in Outcomes :
       /\ PayRand(pay[p].oldrand, pay[p].rand, pay[p].oldvalue, o)
       /\ OldGoesTo(p, IF o \in {"paid", "refused"} THEN "end" ELSE "drawold",
                    pay[p].oldvalue)
  /\ UNCHANGED <<now, aclVars, ruleVars, job>>

----------------------------------------------------------------------------
TakePaymentNext(p) ==
  \/ Draw(p) \/ RollbackLocal(p) \/ RollbackAcl(p) \/ RollbackAclUpdate(p)
  \/ VerifyOld(p) \/ DrawOld(p)

Settled(p) == pay[p].draw \in Over /\ pay[p].old = "end"
=============================================================================
