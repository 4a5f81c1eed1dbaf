------------------------------ MODULE AclFileMC ------------------------------
(***************************************************************************)
(* AclFile for TLC.  The functions passed to update are the ones the       *)
(* scripts pass: a topup of an address (acl.topup) and its removal         *)
(* (logout, expire-rules).  An entry is the number of topups it has had,   *)
(* up to MaxTopup; a line that is cut in its expire is read as fewer.      *)
(***************************************************************************)
EXTENDS AclFile, Integers
CONSTANTS p1, p2, i1, i2, i3, a1, a2

MaxTopup == 2
Procs == {p1, p2}
Inodes == {i1, i2, i3}
Addrs == {a1, a2}
Vals == 1..MaxTopup

Ops == [kind : {"topup", "remove"}, addr : Addrs]

MCApply(o, c) ==
  IF o.kind = "remove" THEN [c EXCEPT ![o.addr] = 0]
  ELSE [c EXCEPT ![o.addr] = IF @ = MaxTopup THEN @ ELSE @ + 1]

MCCutOf(v) == 1..(v - 1)
=============================================================================
