------------------------------ MODULE ByteQueue ------------------------------
(***************************************************************************)
(* What a CBuffCache is for its user: a queue of bytes, appended at the    *)
(* back, skipped at the front.                                             *)
(***************************************************************************)
EXTENDS Integers, Sequences

CONSTANT Data     \* the byte strings that are appended

VARIABLE q

Init == q = <<>>

Put(d) == q' = q \o d

Drop(n) == q' = SubSeq(q, n + 1, Len(q))

(* What changes nothing, as an empty string, is no step. *)
Next ==
  /\ q' # q
  /\ (\E d \in Data : Put(d)) \/ (\E n \in 1 .. Len(q) : Drop(n))

Spec == Init /\ [][Next]_q
=============================================================================
