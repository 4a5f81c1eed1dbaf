------------------------------ MODULE AclStore ------------------------------
(***************************************************************************)
(* What epoint.acl promises its callers: the acl is one table, an update   *)
(* replaces it by func(table) in one step and a read returns the table of  *)
(* one moment.  The table lives in a ram file system, so a reboot empties  *)
(* it, and when that is full an update may keep only a part of the table.  *)
(***************************************************************************)
CONSTANTS Proc,         \* processes
          Addr,         \* client addresses
          Val, NoVal,   \* what an entry says; "no entry"
          Op,           \* the functions callers pass to update
          Apply(_, _),  \* Apply(o, table): the table after function o
          CutOf(_)      \* what the rest of a line that is cut may be read as

Table == [Addr -> Val \cup {NoVal}]
EmptyTable == [a \in Addr |-> NoVal]

\* What may be left of table c: some entries whole, and one from a cut line.
Short(c) ==
  {d \in Table :
     /\ \A a \in Addr : \/ d[a] \in {c[a], NoVal}
                        \/ c[a] # NoVal /\ d[a] \in CutOf(c[a])
     /\ \A a, b \in Addr :
          d[a] \notin {c[a], NoVal} /\ d[b] \notin {c[b], NoVal} => a = b}

VARIABLES acl,   \* the table
          full,  \* the file system has no room for the new table
          seen   \* the table a read of each process has got, until it returns

storeVars == <<acl, full, seen>>

StoreInit ==
  /\ acl = EmptyTable
  /\ full = FALSE
  /\ seen = [p \in Proc |-> EmptyTable]

Update(o) ==
  /\ IF full THEN acl' \in Short(Apply(o, acl)) ELSE acl' = Apply(o, acl)
  /\ UNCHANGED <<full, seen>>

\* Room comes and goes.
Fill ==
  /\ full' \in BOOLEAN
  /\ UNCHANGED <<acl, seen>>

Read(p) ==
  /\ seen' = [seen EXCEPT ![p] = acl]
  /\ UNCHANGED <<acl, full>>

Return(p) ==
  /\ seen' = [seen EXCEPT ![p] = EmptyTable]
  /\ UNCHANGED <<acl, full>>

Reset ==
  /\ acl' = EmptyTable
  /\ full' = FALSE
  /\ seen' = [p \in Proc |-> EmptyTable]

StoreNext ==
  \/ \E o \in Op : Update(o)
  \/ Fill
  \/ \E p \in Proc : Read(p) \/ Return(p)
  \/ Reset

StoreSpec == StoreInit /\ [][StoreNext]_storeVars
=============================================================================
