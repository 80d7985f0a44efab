----------------------------- MODULE MCAsyncCall -----------------------------
(* Two workers; one object of the first, one of the second. *)
EXTENDS AsyncCall

MCObj == {10, 11}
MCThreadOf == [o \in MCObj |-> o - 10]
=============================================================================
