------------------------------ MODULE MCPolling ------------------------------
(* Three chains on two workers: two of them share a thread. *)
EXTENDS Polling

MCObj == {10, 11, 12}
MCThreadOf == [o \in MCObj |-> IF o = 12 THEN 1 ELSE 0]
=============================================================================
