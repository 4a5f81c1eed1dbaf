------------------------------ MODULE GateState ------------------------------
(***************************************************************************)
(* What the scripts of the vending machine share: the two acls, their      *)
(* lock, the firewall chains, the clock, and the issuer.  A script is a    *)
(* process that runs to its end; between two of its critical sections any  *)
(* other script may run.  The acls are the atomic tables of AclStore and   *)
(* LocalStore, which AclFile and LocalAcl implement.                       *)
(***************************************************************************)
EXTENDS Integers, FiniteSets

CONSTANTS Script,      \* scripts started for clients and the administrator
          Cron,        \* scripts cron starts: expire-rules
          Addr, Rand,
          NoRand,      \* no second rand
          CutRand,     \* what is left of a rand whose line is cut
          Seller,      \* the rand config.target is the fingerprint of, if used
          Nobody,      \* nobody holds the lock
          Absent,      \* no entry
          Unlimited,   \* local entry without an expire
          Tariff,      \* epoint.config.tariff: price of a minute
          Day,         \* minutes grant-access gives
          Price, Span, \* payment of a topup and the minutes it buys
          MaxTime,     \* last value of the clock
          InitValue,   \* value of each rand at the issuer at the start
          InitialAcl, InitialLocal,   \* contents of the acls at the start
          Faults       \* what may go wrong: replies are "lost", files cannot be
                       \* opened or written ("io"), the disk is "full" when a
                       \* file is closed, the local acl has "notes"

Proc == Script \cup Cron
Minutes == Int

ASSUME GateAssumption ==
  /\ Script \cap Cron = {} /\ Nobody \notin Proc
  /\ NoRand \notin Rand /\ Seller \in Rand \cup {NoRand} /\ CutRand \in Rand
  /\ Tariff \in Nat \ {0} /\ Day \in Nat \ {0}
  /\ Price \in Nat \ {0} /\ Span \in Nat \ {0} /\ MaxTime \in Nat
  /\ InitValue \in [Rand -> Nat]
  /\ Faults \subseteq {"lost", "io", "full", "notes"}
  /\ Absent \notin Int /\ Unlimited \notin Int /\ Absent # Unlimited

VARIABLES now,       \* the clock, in minutes
          acl,       \* /var/epoint.acl: [expire, rand] of each address
          scrap,     \* addresses without an entry that the cut end of that file
                     \* still names: update-rules sees them, load does not
          stranded,  \* history: who lost the entry by a fault, since the rules
                     \* were last made
          local,     \* /etc/epoint-local.acl: expire of each address
          holder,    \* who holds the exclusive acl lock from step to step
          filter,    \* addresses that chain MACFILTER lets through
          redirect,  \* addresses that chain MACREDIRECT does not redirect
          value,     \* what the issuer has for each rand
          till,      \* what the issuer has for the seller (config.target)
          unheard,   \* history: the part of it for which the reply was lost
          charged,   \* history: the part of it that expire-rules has drawn
          job        \* where each script is, and its local variables

tableVars == <<acl, scrap, stranded>>
aclVars == <<tableVars, local, holder>>
ruleVars == <<filter, redirect>>
issuerVars == <<value, till, unheard, charged>>

Entry == [expire : Minutes, rand : Rand]
Acl == [Addr -> Entry \cup {Absent}]
Local == [Addr -> Minutes \cup {Absent, Unlimited}]

ASSUME TablesAssumption ==
  Absent \notin Entry /\ InitialAcl \subseteq Acl /\ InitialLocal \subseteq Local

\* The addresses that have an entry, expired or not.
Entered == {a \in Addr : acl[a] # Absent \/ local[a] # Absent}

\* The addresses update-rules finds in the acl files.
Listed == Entered \cup scrap

----------------------------------------------------------------------------
\* The acl lock.  A critical section that talks to nobody is one step, taken
\* while nobody holds the lock; the others take it in one step and leave it
\* in a later one.
Unlocked == holder = Nobody

Lock(p) == Unlocked /\ holder' = p
Unlock == holder' = Nobody

Present(table) == {a \in Addr : table[a] # Absent}

\* What the full disk has room for: some of the entries, and of one more the
\* line cut in its expire or its rand, or before them.
WrittenShort(table) ==
  \E kept \in SUBSET Present(table), b \in Addr :
    LET left == [a \in Addr |-> IF a \in kept THEN table[a] ELSE Absent]
    IN  /\ kept # Present(table)
        /\ \/ acl' = left /\ scrap' \in {{}, {b}}
           \/ /\ b \in Present(table) \ kept
              /\ \E x \in 0..table[b].expire :
                   acl' = [left EXCEPT ![b] = [expire |-> x, rand |-> CutRand]]
              /\ scrap' = {}
        /\ stranded' = stranded \cup (Present(table) \ Present(acl'))

\* acl.update writes the table and returns true.  It does not hear of a disk
\* that is full when the file is closed, and puts the short file in place.
Written(table) ==
  \/ acl' = table /\ scrap' = {} /\ UNCHANGED stranded
  \/ "full" \in Faults /\ WrittenShort(table)

\* A write or the rename fails, and it returns nil ...
NotWritten == "io" \in Faults /\ UNCHANGED tableVars

\* ... or the file cannot be opened, and it raises an error: the script dies.
NotOpened == "io" \in Faults /\ UNCHANGED tableVars

----------------------------------------------------------------------------
\* The issuer, as protocol.lua calls it.

\* The outcomes of obligation_transfer(r, target, v), with the effect each
\* has: paid, refused ({}: the rand does not have the value), or no answer
\* (nil), because the request or the reply was lost.
Outcomes == {"paid", "refused", "nothing"} \cup (Faults \cap {"lost"})

\* Rand r pays v into the account "to".  The seller's own rand is not asked
\* for anything: the transfer counts as paid.
Transfer(r, v, outcome, self, account) ==
  IF self THEN outcome = "paid" /\ UNCHANGED issuerVars
  ELSE /\ outcome \in {"paid", "lost"} => value[r] >= v
       /\ outcome = "refused" => value[r] < v
       /\ IF outcome \in {"paid", "lost"} THEN account ELSE UNCHANGED issuerVars

\* The seller is paid, for time that has been given or (minutes) for minutes that
\* have passed.
PaySeller(r, v, outcome, minutes) ==
  Transfer(r, v, outcome, r = Seller,
           /\ value' = [value EXCEPT ![r] = @ - v]
           /\ till' = till + v
           /\ unheard' = IF outcome = "lost" THEN unheard + v ELSE unheard
           /\ charged' = IF minutes /\ outcome = "paid" THEN charged + v ELSE charged)

PayRand(r, to, v, outcome) ==
  Transfer(r, v, outcome, r = to,
           /\ value' = [value EXCEPT ![r] = @ - v, ![to] = @ + v]
           /\ UNCHANGED <<till, unheard, charged>>)
=============================================================================
