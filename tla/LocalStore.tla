----------------------------- MODULE LocalStore -----------------------------
(***************************************************************************)
(* What epoint.localacl promises its callers until a process is killed     *)
(* or a file operation fails:   the local acl is one table that topup,     *)
(* remove and refresh change in one step each.                             *)
(***************************************************************************)
EXTENDS Integers
CONSTANTS Proc, Addr, Times, Spans,
          Absent,      \* no entry
          Unlimited    \* an entry without an expire: infinite access

VARIABLES table,       \* the entry of each address
          view,        \* the table a reading process has got
          failed       \* TRUE when something has failed

tableVars == <<table, view>>

NoView == [a \in Addr |-> Absent]

LocalInit == view = [p \in Proc |-> NoView]

\* topup(addr, t, dt): a new address gets t+dt, a timed one dt more; a
\* whitelisted one keeps its entry.
LocalTopup(a, t, dt) ==
  /\ table[a] # Unlimited
  /\ table' = [table EXCEPT ![a] = IF @ = Absent THEN t + dt ELSE @ + dt]
  /\ UNCHANGED view

\* topup without dt: the address is whitelisted.
LocalWhitelist(a) ==
  /\ table' = [table EXCEPT ![a] = Unlimited]
  /\ UNCHANGED view

LocalRemove(a) ==
  /\ table' = [table EXCEPT ![a] = Absent]
  /\ UNCHANGED view

\* refresh() at time t drops every entry that has expired, and only those.
LocalRefresh(t) ==
  /\ table' = [a \in Addr |->
                 IF table[a] \notin {Absent, Unlimited} /\ table[a] <= t
                   THEN Absent ELSE table[a]]
  /\ UNCHANGED view

LocalRead(p) ==
  /\ view' = [view EXCEPT ![p] = table]
  /\ UNCHANGED table

LocalReturn(p) ==
  /\ view' = [view EXCEPT ![p] = NoView]
  /\ UNCHANGED table

LocalNext ==
  \/ \E a \in Addr : \/ \E t \in Times, dt \in Spans : LocalTopup(a, t, dt)
                     \/ LocalWhitelist(a)
                     \/ LocalRemove(a)
  \/ \E t \in Times : LocalRefresh(t)
  \/ \E p \in Proc : LocalRead(p) \/ LocalReturn(p)

\* Once something has failed, nothing is promised any more.
LocalSpec == LocalInit /\ [][failed' \/ LocalNext]_tableVars
=============================================================================
