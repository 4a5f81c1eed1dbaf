----------------------------- MODULE LocalAclMC -----------------------------
(***************************************************************************)
(* LocalAcl for TLC: two processes, two addresses, a clock of two values,  *)
(* and the files an administrator has left: a timed entry, and a line that *)
(* is no rule.  Comments and unlimited entries come from the operations.   *)
(***************************************************************************)
EXTENDS LocalAcl
CONSTANTS p1, p2, i1, a1, a2

Procs == {p1, p2}
Inodes == {i1}
Addrs == {a1, a2}
Files == {<<[addr |-> a2, expire |-> 1], Bad>>}
AllFaults == {"kill", "io"}
SomeFault == {"kill"}
AnyMove == BOOLEAN
\* As with 192.168.1.105 and 192.168.1.10: a piece of a2 reads as a1.
MCGarbled(a) == IF a = a2 THEN {a1} ELSE {}
CopyMove == {TRUE}

Sym == Permutations(Procs)
=============================================================================
