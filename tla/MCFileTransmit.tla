--------------------------- MODULE MCFileTransmit ---------------------------
EXTENDS FileTransmit, TLC

CONSTANTS a, b

(* Files of one full and one short chunk, and of a single short one. *)
Lengths == [c \in Client |-> IF c = a THEN 3 ELSE 2]
=============================================================================
