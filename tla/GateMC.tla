------------------------------- MODULE GateMC -------------------------------
(***************************************************************************)
(* Gate for TLC.  Rand r1 can pay twice what a grant costs, r2 once: a     *)
(* client may spend it at two addresses at once.                           *)
(***************************************************************************)
EXTENDS Gate, TLC
CONSTANTS s1, s2, s3, c1, a1, a2, r1, r2

OneScript == {s1}
TwoScripts == {s1, s2}
ThreeScripts == {s1, s2, s3}
OneCron == {c1}
NoCron == {}
OneAddr == {a1}
TwoAddrs == {a1, a2}
Rands == {r1, r2}
Values == [r \in Rands |-> IF r = r1 THEN 2 ELSE 1]

Grants == {"grant"}
GrantOrTopup == {"grant", "topup"}

NoFault == {}
SomeFaults == {"lost", "io"}
FileFaults == {"io", "full", "notes"}
LiveFaults == {"lost", "io", "notes"}

\* The acls at the start: empty ones, and ones with a client of either kind.
EmptyAcl == {[a \in Addr |-> Absent]}
EmptyLocal == {[a \in Addr |-> Absent]}
Client(a, e) == [x \in Addr |-> IF x = a THEN [expire |-> e, rand |-> r1] ELSE Absent]
Clients == EmptyAcl \cup {Client(a1, e) : e \in {0, 1}}
\* Everybody shares a rand, and is to be charged at once or after a minute.
Shared == {[a \in Addr |-> [expire |-> e, rand |-> r1]] : e \in {0, 1}}
NobodyOrShared == EmptyAcl \cup Shared
Whitelists ==
  {[a \in Addr |-> IF a = a1 THEN e ELSE Absent] : e \in {1, Unlimited}}

Sym == Permutations(Script)
\* Without cron and with empty acls, no action tells two addresses apart either.
SymOfPayments == Permutations(Script) \cup Permutations(Addr)
=============================================================================
