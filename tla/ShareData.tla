----------------------------- MODULE ShareData -----------------------------
(***************************************************************************)
(* The data of asynchronous calls: blocks that count the handles           *)
(* (ASyncCallDataInst) which point to them and delete themselves with the  *)
(* last one.  A query fills a block of its own, or has one that belongs to *)
(* the device, or none, for which all threads use one; the node of the     *)
(* call takes a further handle to another thread.  The count is changed    *)
(* under a spin lock, the block deleted after it.                          *)
(***************************************************************************)
EXTENDS Integers, Sequences, FiniteSets, Functions

CONSTANTS
  CallThread, \* the main thread and the workers
  Block,      \* the memory for blocks
  Permanent,  \* those of GetInstance() and of a device's member
  MaxCalls    \* bound: calls, and blocks filled

Nothing == "nothing"

ASSUME ShareDataAssumption ==
  /\ IsFiniteSet(CallThread) /\ Nothing \notin Block
  /\ Permanent \subseteq Block /\ MaxCalls \in Nat

VARIABLES
  ref,    \* m_ref of each block
  live,   \* the blocks that are allocated
  handle, \* for each thread: its local handle, that of the node which it
          \* sends, that of the call which it handles
  list,   \* for each thread: the blocks of the calls in its list
  drop,   \* for each thread: the block of which it drops a handle, and the
          \* count that it found
  calls, fills

shareVars == <<ref, live, handle, list, drop, calls, fills>>

Idle == [local |-> Nothing, node |-> Nothing, call |-> Nothing]
NoDrop == [block |-> Nothing, found |-> 0]

ShareInit ==
  /\ ref = [b \in Block |-> IF b \in Permanent THEN 1 ELSE 0]
  /\ live = Permanent
  /\ handle = [t \in CallThread |-> Idle]
  /\ list = [t \in CallThread |-> <<>>]
  /\ drop = [t \in CallThread |-> NoDrop]
  /\ calls = 0 /\ fills = 0
-----------------------------------------------------------------------------
Runs(t) == drop[t] = NoDrop /\ handle[t].node = Nothing

(* A query has data of its own; the memory may be that of an older block. *)
Fill(t, b) ==
  /\ Runs(t) /\ handle[t].local = Nothing
  /\ fills < MaxCalls /\ fills' = fills + 1
  /\ b \notin live /\ live' = live \cup {b}
  /\ ref' = [ref EXCEPT ![b] = 1]
  /\ handle' = [handle EXCEPT ![t].local = b]
  /\ UNCHANGED <<list, drop, calls>>

(* operator=(): the block that the node was made with, which no other      *)
(* thread has seen, is deleted, and another handle taken.                  *)
Takes(t, b) ==
  /\ ref' = [ref EXCEPT ![b] = @ + 1]
  /\ handle' = [handle EXCEPT ![t].node = b]

(* SendAsyncAction(), SendSyncAction(): with the data of a query, those of *)
(* the call that is handled, or permanent ones.                            *)
SendAction(t, b) ==
  /\ Runs(t)
  /\ b \in ({handle[t].local, handle[t].call} \ {Nothing}) \cup Permanent
  /\ calls < MaxCalls /\ calls' = calls + 1
  /\ Takes(t, b)
  /\ UNCHANGED <<live, list, drop, fills>>

Push(t, u) ==
  /\ handle[t].node # Nothing
  /\ list' = [list EXCEPT ![u] = Append(@, handle[t].node)]
  /\ handle' = [handle EXCEPT ![t].node = Nothing]
  /\ UNCHANGED <<ref, live, drop, calls, fills>>

Pop(t) ==
  /\ handle[t] = Idle /\ drop[t] = NoDrop /\ list[t] # <<>>
  /\ list' = [list EXCEPT ![t] = Tail(@)]
  /\ handle' = [handle EXCEPT ![t].call = Head(list[t])]
  /\ UNCHANGED <<ref, live, drop, calls, fills>>

(* ~ASyncCallDataInst(): of the local handle, when the query returns, then *)
(* of the node, when it is deleted.  decref() with the lock held ...       *)
Decref(t, which) ==
  /\ Runs(t) /\ handle[t][which] # Nothing
  /\ which = "call" => handle[t].local = Nothing
  /\ ref' = [ref EXCEPT ![handle[t][which]] = @ - 1]
  /\ drop' = [drop EXCEPT ![t] = [block |-> handle[t][which],
                                 found |-> ref'[handle[t][which]]]]
  /\ handle' = [handle EXCEPT ![t][which] = Nothing]
  /\ UNCHANGED <<live, list, calls, fills>>

(* Mutant: the count is read again without the lock. *)
LooksAgain(t) == ref[drop[t].block] = 0
(* ... and after it: by the count that was found. *)
Deletes(t) == drop[t].found = 0

Delete(t) ==
  /\ drop[t] # NoDrop /\ drop' = [drop EXCEPT ![t] = NoDrop]
  /\ live' = IF Deletes(t) THEN live \ {drop[t].block} ELSE live
  /\ UNCHANGED <<ref, handle, list, calls, fills>>

ShareNext ==
  \E t \in CallThread :
    \/ \E b \in Block : Fill(t, b) \/ SendAction(t, b)
    \/ \E u \in CallThread : Push(t, u)
    \/ Pop(t)
    \/ Decref(t, "local") \/ Decref(t, "call")
    \/ Delete(t)

ShareSpec == ShareInit /\ [][ShareNext]_shareVars
-----------------------------------------------------------------------------
Pointed(b) ==
  \E t \in CallThread :
    b \in {handle[t][h] : h \in DOMAIN Idle} \cup Range(list[t])
Deleting(b) == {t \in CallThread : drop[t].block = b /\ drop[t].found = 0}

(* No block is deleted under a handle, in a thread or in a list, nor twice,*)
(* nor forgotten: one with no handle any more is about to be deleted, by   *)
(* one thread.  The permanent ones stay.                                   *)
FreedOnce ==
  /\ Permanent \subseteq live
  /\ \A b \in Block : Pointed(b) => b \in live /\ Deleting(b) = {}
  /\ \A b \in Block \ Permanent : ~Pointed(b) =>
       Cardinality(Deleting(b)) = (IF b \in live THEN 1 ELSE 0)
=============================================================================
