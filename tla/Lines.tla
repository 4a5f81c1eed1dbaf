-------------------------------- MODULE Lines --------------------------------
(***************************************************************************)
(* Files of lines that are changed by writing the lines that remain to a   *)
(* new file: filter of localacl.lua and of fixip/acl.lua, sed and grep of  *)
(* whitelist-fixip.  A line is a comment, no rule, or the rule of an       *)
(* address; readers use the first rule of an address.                      *)
(***************************************************************************)
EXTENDS Integers, Sequences

\* The lines of f that are in S, in their order.
Kept(f, S) ==
  LET kept[n \in 0..Len(f)] ==
        IF n = 0 THEN <<>>
        ELSE IF f[n] \in S THEN Append(kept[n - 1], f[n]) ELSE kept[n - 1]
  IN  kept[Len(f)]
=============================================================================
