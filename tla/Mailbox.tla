------------------------------- MODULE Mailbox -------------------------------
(***************************************************************************)
(* What libcore promises to its callers: every thread owns a mailbox, a    *)
(* call posted to it is delivered once, in the order of the posts.         *)
(***************************************************************************)
EXTENDS Sequences

CONSTANTS Box,    \* the mailboxes, one for each thread
          Call    \* what is posted

VARIABLE box      \* the calls posted and not yet delivered

Init == box = [b \in Box |-> <<>>]

Post(b, c) == box' = [box EXCEPT ![b] = Append(@, c)]

Deliver(b) == box[b] # <<>> /\ box' = [box EXCEPT ![b] = Tail(@)]

Next == \E b \in Box : Deliver(b) \/ \E c \in Call : Post(b, c)

SafeSpec == Init /\ [][Next]_box

(* Delivery is not put off forever. *)
Delivered == \A b \in Box : WF_box(Deliver(b))

Spec == SafeSpec /\ Delivered
=============================================================================
