---------------------------- MODULE MCTimeOfUse ----------------------------
(* Two plans that meet in a minute; readings that lead both corrections to *)
(* their limits.                                                           *)
EXTENDS TimeOfUse
MCTou == <<[from |-> 0, to |-> 1, power |-> 4],
           [from |-> 1, to |-> 2, power |-> -4]>>
MCGrid == {-4, 0, 6}
MCUnset == {-3, 0, 7}
=============================================================================
