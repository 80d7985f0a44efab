------------------------------ MODULE MCSockets ------------------------------
(* One client sends an empty message and a longer one, both answered, the  *)
(* other an empty one without an answer and one of an unknown type; recv() *)
(* takes the two shortest at once, and a connection holds one answer.      *)
EXTENDS Sockets

CONSTANTS a, b
Lengths == [c \in Client |-> IF c = a THEN <<2, 3>> ELSE <<2, 2>>]
UnknownType == {<<b, 2>>}
NoAnswer == {<<b, 1>>}
=============================================================================
