------------------------------ MODULE AsyncCall ------------------------------
(***************************************************************************)
(* The asynchronous-call core of libcore: the worker threads' request      *)
(* lists (CWorkThread), the main thread's callback list with its wake-up   *)
(* socket pair (CCmdOpt), the reactor loop that drains it (CReactor,       *)
(* CPollerUnit) and the shutdown of the pool (CThreadPool::Stop).          *)
(*                                                                         *)
(* A call is identified by the CAsyncCallSupport object it is for: cmd,    *)
(* param and data do not influence any step of this core.                  *)
(***************************************************************************)
EXTENDS Integers, Sequences

CONSTANTS
  NThreads,     \* worker threads in CThreadPool::m_vec_WorkThreads
  Obj,          \* the CAsyncCallSupport objects
  ThreadOf,     \* m_n_thread_index of each object
  RecvMax,      \* bytes one recv() takes: sizeof(int)
  SockCap,      \* one-byte messages the socket pair holds before send() blocks
  QMax,         \* bound: no list grows beyond QMax entries
  CanStop       \* whether the application ever calls CReactor::StopLoop

Thread == 0 .. NThreads - 1
Main   == -1                  \* the thread that runs CReactor::RunLoop
Actor  == Thread \cup {Main}
Idle   == -2                  \* "nobody", where an actor or an object is expected

ASSUME AsyncCallAssumption ==
  /\ NThreads \in Nat \ {0}
  /\ ThreadOf \in [Obj -> Thread] /\ Idle \notin Obj
  /\ RecvMax \in Nat \ {0}
  /\ SockCap \in Nat \ {0}
  /\ QMax \in Nat \ {0}
  /\ CanStop \in BOOLEAN

VARIABLES
  running,   \* CReactor::m_b_running, a plain bool read by every thread
  reqs,      \* CWorkThread::m_list_req of each thread
  sleep,     \* CWorkThread::m_b_sleep of each thread
  wpc,       \* where each worker is in CWorkThread::run
  cmdq,      \* CCmdOpt::m_list_aync_callback
  bytes,     \* wake-up bytes in the socket pair
  sender,    \* the actor blocked in send() with CCmdOpt::m_mutex held, or Idle
  sending,   \* the call that actor is about to push
  mpc,       \* where the main thread is in CReactor::RunLoop
  readable,  \* FD_ISSET(m_n_poll_id, &rd) after the last select()
  joining    \* index i of the loop in CThreadPool::Stop

workerVars == <<reqs, sleep, wpc>>
cmdVars    == <<cmdq, bytes, sender, sending>>
mainVars   == <<mpc, readable, joining>>
vars       == <<running, workerVars, cmdVars, mainVars>>

WorkerPc == {"check", "pop", "wait", "woken", "exec", "stopped"}
MainPc   == {"check", "timers", "select", "timers2", "dispatch", "drain",
             "callback", "signal", "join", "done"}

(* Where the main thread runs application code: timer and poller callbacks *)
(* and DoSyncAction.                                                       *)
UserCode == {"timers", "timers2", "dispatch", "callback"}

TypeOK ==
  /\ running \in BOOLEAN
  /\ reqs \in [Thread -> Seq(Obj)]
  /\ sleep \in [Thread -> BOOLEAN]
  /\ wpc \in [Thread -> WorkerPc]
  /\ cmdq \in Seq(Obj)
  /\ bytes \in 0 .. SockCap
  /\ sender \in Actor \cup {Idle}
  /\ sending \in Obj \cup {Idle}
  /\ mpc \in MainPc
  /\ readable \in BOOLEAN
  /\ joining \in 0 .. NThreads

Init ==
  /\ running = TRUE
  /\ reqs = [t \in Thread |-> <<>>]
  /\ sleep = [t \in Thread |-> FALSE]
  /\ wpc = [t \in Thread |-> "check"]
  /\ cmdq = <<>>
  /\ bytes = 0
  /\ sender = Idle
  /\ sending = Idle
  /\ mpc = "check"
  /\ readable = FALSE
  /\ joining = 0

(* An actor executes application code, and is not inside a blocked send(). *)
InUserCode(a) ==
  /\ sender # a
  /\ IF a = Main THEN mpc \in UserCode ELSE wpc[a] = "exec"

-----------------------------------------------------------------------------
(* Worker thread *)

(* while(CReactor::GetInstance()->IsRun()) *)
WorkerCheck(t) ==
  /\ wpc[t] = "check"
  /\ wpc' = [wpc EXCEPT ![t] = IF running THEN "pop" ELSE "stopped"]
  /\ UNCHANGED <<running, reqs, sleep, cmdVars, mainVars>>

(* Pop under the lock; with an empty list set m_b_sleep and wait, the lock *)
(* released by pthread_cond_wait itself.                                   *)
WorkerPop(t) ==
  /\ wpc[t] = "pop"
  /\ \/ /\ reqs[t] # <<>>
        /\ reqs' = [reqs EXCEPT ![t] = Tail(@)]
        /\ wpc' = [wpc EXCEPT ![t] = "exec"]
        /\ UNCHANGED sleep
     \/ /\ reqs[t] = <<>>
        /\ sleep' = [sleep EXCEPT ![t] = TRUE]
        /\ wpc' = [wpc EXCEPT ![t] = "wait"]
        /\ UNCHANGED reqs
  /\ UNCHANGED <<running, cmdVars, mainVars>>

(* pthread_cond_wait may return without a signal. *)
SpuriousWakeup(t) ==
  /\ wpc[t] = "wait"
  /\ wpc' = [wpc EXCEPT ![t] = "woken"]
  /\ UNCHANGED <<running, reqs, sleep, cmdVars, mainVars>>

(* The woken thread has the lock again: m_b_sleep = false, unlock. *)
WorkerWake(t) ==
  /\ wpc[t] = "woken"
  /\ sleep' = [sleep EXCEPT ![t] = FALSE]
  /\ wpc' = [wpc EXCEPT ![t] = "check"]
  /\ UNCHANGED <<running, reqs, cmdVars, mainVars>>

(* DoAsyncAction returned. *)
WorkerDone(t) ==
  /\ wpc[t] = "exec"
  /\ sender # t
  /\ wpc' = [wpc EXCEPT ![t] = "check"]
  /\ UNCHANGED <<running, reqs, sleep, cmdVars, mainVars>>

(* pthread_cond_signal on the condition of thread t: wakes it if it waits. *)
Signalled(t) ==
  IF wpc[t] = "wait" THEN [wpc EXCEPT ![t] = "woken"] ELSE wpc

-----------------------------------------------------------------------------
(* Sending calls *)

(* Mutant: the signal is forgotten. *)
SendAsyncActionNoSignal(a, o) ==
  /\ InUserCode(a)
  /\ Len(reqs[ThreadOf[o]]) < QMax
  /\ reqs' = [reqs EXCEPT ![ThreadOf[o]] = Append(@, o)]
  /\ UNCHANGED <<running, sleep, wpc, cmdVars, mainVars>>

(* CAsyncCallSupport::SendAsyncAction: push on the list of the object's    *)
(* thread and signal it if it sleeps, under that thread's lock.            *)
SendAsyncAction(a, o) ==
  LET t == ThreadOf[o] IN
  /\ InUserCode(a)
  /\ Len(reqs[t]) < QMax
  /\ reqs' = [reqs EXCEPT ![t] = Append(@, o)]
  /\ wpc' = IF sleep[t] THEN Signalled(t) ELSE wpc
  /\ UNCHANGED <<running, sleep, cmdVars, mainVars>>

(* Mutants: a byte for every call; the list is tested after the push; the  *)
(* push is at the head.                                                    *)
SendSyncActionByteEach(a, o) ==
  /\ InUserCode(a) /\ sender = Idle /\ Len(cmdq) < QMax
  /\ bytes < SockCap /\ bytes' = bytes + 1
  /\ cmdq' = Append(cmdq, o)
  /\ UNCHANGED <<running, workerVars, sender, sending, mainVars>>

SendSyncActionLateTest(a, o) ==
  /\ InUserCode(a) /\ sender = Idle /\ Len(cmdq) < QMax
  /\ cmdq' = Append(cmdq, o)
  /\ UNCHANGED <<running, workerVars, bytes, sender, sending, mainVars>>

SendSyncActionAtHead(a, o) ==
  /\ InUserCode(a) /\ sender = Idle /\ Len(cmdq) < QMax
  /\ \/ cmdq # <<>> /\ UNCHANGED bytes
     \/ cmdq = <<>> /\ bytes < SockCap /\ bytes' = bytes + 1
  /\ cmdq' = <<o>> \o cmdq
  /\ UNCHANGED <<running, workerVars, sender, sending, mainVars>>

(* CCmdOpt::SendSyncAction, under CCmdOpt::m_mutex: one byte into the      *)
(* socket when the list is empty, then the push.                           *)
SendSyncAction(a, o) ==
  /\ InUserCode(a)
  /\ sender = Idle
  /\ Len(cmdq) < QMax
  /\ \/ cmdq # <<>> /\ UNCHANGED bytes
     \/ cmdq = <<>> /\ bytes < SockCap /\ bytes' = bytes + 1
  /\ cmdq' = Append(cmdq, o)
  /\ UNCHANGED <<running, workerVars, sender, sending, mainVars>>

(* The same call when the socket is full: send() blocks, the lock is held. *)
SendSyncBlock(a, o) ==
  /\ InUserCode(a)
  /\ sender = Idle
  /\ cmdq = <<>> /\ bytes = SockCap
  /\ sender' = a
  /\ sending' = o
  /\ UNCHANGED <<running, workerVars, cmdq, bytes, mainVars>>

(* Mutant: a return path that leaves m_mutex locked. *)
SendSyncUnblockLocked ==
  /\ sender # Idle /\ bytes < SockCap /\ cmdq = <<>>
  /\ bytes' = bytes + 1
  /\ cmdq' = Append(cmdq, sending)
  /\ UNCHANGED <<running, workerVars, sender, sending, mainVars>>

(* The socket has room again: send() returns, the call is pushed. *)
SendSyncUnblock ==
  /\ sender # Idle
  /\ bytes < SockCap
  /\ bytes' = bytes + 1
  /\ cmdq' = Append(cmdq, sending)
  /\ sender' = Idle
  /\ sending' = Idle
  /\ UNCHANGED <<running, workerVars, mainVars>>

(* CReactor::StopLoop, called from application code. *)
StopLoop(a) ==
  /\ CanStop
  /\ InUserCode(a)
  /\ running' = FALSE
  /\ UNCHANGED <<workerVars, cmdVars, mainVars>>

-----------------------------------------------------------------------------
(* Main thread *)

MainGoes(from, to) == mpc = from /\ mpc' = to

(* while(m_b_running) of RunLoop; the exit enters CThreadPool::Stop. *)
MainCheck ==
  /\ MainGoes("check", IF running THEN "timers" ELSE "signal")
  /\ UNCHANGED <<running, workerVars, cmdVars, readable, joining>>

(* First ProcessTimeEvent over. *)
MainEndTimers ==
  /\ sender # Main
  /\ MainGoes("timers", "select")
  /\ UNCHANGED <<running, workerVars, cmdVars, readable, joining>>

(* select() returns because the wake-up socket is readable. *)
MainSelectByte ==
  /\ bytes > 0
  /\ MainGoes("select", "timers2")
  /\ readable' = TRUE
  /\ UNCHANGED <<running, workerVars, cmdVars, joining>>

(* select() returns for a timeout or another descriptor. *)
MainSelectOther ==
  /\ bytes = 0
  /\ MainGoes("select", "timers2")
  /\ readable' = FALSE
  /\ UNCHANGED <<running, workerVars, cmdVars, joining>>

MainEndTimers2 ==
  /\ sender # Main
  /\ MainGoes("timers2", "dispatch")
  /\ UNCHANGED <<running, workerVars, cmdVars, readable, joining>>

(* Mutants: a one-byte buffer; the descriptor stays marked readable.       *)
MainRecvOneByte ==
  /\ sender # Main /\ readable /\ bytes > 0
  /\ MainGoes("dispatch", "drain")
  /\ bytes' = bytes - 1
  /\ readable' = FALSE
  /\ UNCHANGED <<running, workerVars, cmdq, sender, sending, joining>>

MainRecvStaysReadable ==
  /\ sender # Main /\ readable /\ bytes > 0
  /\ MainGoes("dispatch", "drain")
  /\ bytes' = IF bytes > RecvMax THEN bytes - RecvMax ELSE 0
  /\ UNCHANGED <<running, workerVars, cmdq, sender, sending, readable, joining>>

(* HandPollerEvents reaches CCmdOpt: InPutNotify starts with its recv(). *)
MainRecv ==
  /\ sender # Main
  /\ readable /\ bytes > 0          \* recv() blocks on an empty socket
  /\ MainGoes("dispatch", "drain")
  /\ bytes' = IF bytes > RecvMax THEN bytes - RecvMax ELSE 0
  /\ readable' = FALSE
  /\ UNCHANGED <<running, workerVars, cmdq, sender, sending, joining>>

(* One turn of the loop in InPutNotify: Pop under the lock, return when the *)
(* list is empty, otherwise call DoSyncAction.                              *)
MainPop ==
  /\ sender = Idle
  /\ \/ /\ cmdq # <<>>
        /\ cmdq' = Tail(cmdq)
        /\ MainGoes("drain", "callback")
     \/ /\ cmdq = <<>>
        /\ UNCHANGED cmdq
        /\ MainGoes("drain", "dispatch")
  /\ UNCHANGED <<running, workerVars, bytes, sender, sending, readable, joining>>

(* DoSyncAction returned. *)
MainEndCallback ==
  /\ sender # Main
  /\ MainGoes("callback", "drain")
  /\ UNCHANGED <<running, workerVars, cmdVars, readable, joining>>

(* All pollers were handled. *)
MainEndDispatch ==
  /\ sender # Main
  /\ ~readable
  /\ MainGoes("dispatch", "check")
  /\ UNCHANGED <<running, workerVars, cmdVars, readable, joining>>

(* Mutant: stop() only joins. *)
StopSignalNoWakeUp ==
  /\ joining < NThreads
  /\ MainGoes("signal", "join")
  /\ UNCHANGED <<running, workerVars, cmdVars, readable, joining>>

(* CWorkThread::stop of thread i: WakeUp without the thread's lock ... *)
StopSignal ==
  /\ joining < NThreads
  /\ MainGoes("signal", "join")
  /\ wpc' = Signalled(joining)
  /\ UNCHANGED <<running, reqs, sleep, cmdVars, readable, joining>>

(* ... then pthread_join. *)
StopJoin ==
  /\ MainGoes("join", "signal")
  /\ wpc[joining] = "stopped"
  /\ joining' = joining + 1
  /\ UNCHANGED <<running, workerVars, cmdVars, readable>>

StopReturn ==
  /\ joining = NThreads
  /\ MainGoes("signal", "done")
  /\ UNCHANGED <<running, workerVars, cmdVars, readable, joining>>

-----------------------------------------------------------------------------

WorkerStep(t) ==
  WorkerCheck(t) \/ WorkerPop(t) \/ WorkerWake(t) \/ WorkerDone(t)

UserCall(a) ==
  \/ \E o \in Obj : SendAsyncAction(a, o) \/ SendSyncAction(a, o) \/ SendSyncBlock(a, o)
  \/ StopLoop(a)

MainStep ==
  \/ MainCheck \/ MainEndTimers \/ MainSelectByte \/ MainEndTimers2 \/ MainRecv
  \/ MainPop \/ MainEndCallback \/ MainEndDispatch
  \/ StopSignal \/ StopJoin \/ StopReturn

Next ==
  \/ \E t \in Thread : WorkerStep(t) \/ SpuriousWakeup(t)
  \/ \E a \in Actor : UserCall(a)
  \/ SendSyncUnblock
  \/ MainStep \/ MainSelectOther

(* Threads are scheduled and application code returns; nothing makes a     *)
(* timer expire, another descriptor ready or a wait return spuriously.     *)
Fairness ==
  /\ \A t \in Thread : WF_vars(WorkerStep(t))
  /\ WF_vars(MainStep)
  /\ WF_vars(SendSyncUnblock)

Spec == Init /\ [][Next]_vars
FairSpec == Spec /\ Fairness

-----------------------------------------------------------------------------
(* Properties *)

(* No callback is stranded: while the main thread's list holds a call,     *)
(* either a byte in the socket will end the next select() or InPutNotify   *)
(* is in its drain loop (SendSyncAction writes the byte only when it finds *)
(* the list empty).                                                        *)
NoLostWakeup == cmdq # <<>> => bytes > 0 \/ mpc \in {"drain", "callback"}

(* No request is stranded: a worker that waits on its condition has an     *)
(* empty list, although AddAsyncCallReq signals only when m_b_sleep is set. *)
NoStrandedRequest == \A t \in Thread : wpc[t] = "wait" => reqs[t] = <<>>

(* The reactor never blocks in recv(): what select() reported is still     *)
(* there when HandPollerEvents comes to CCmdOpt after the second timer     *)
(* pass, and no path drains the socket twice.                              *)
RecvNeverBlocks == mpc = "dispatch" /\ readable => bytes > 0

(* A sender stuck in send() is the only one that can starve the drain loop: *)
(* it holds m_mutex with the list empty, so no queued callback waits       *)
(* behind it.                                                              *)
BlockedSenderHidesNothing == sender # Idle => cmdq = <<>>

(* CThreadPool::Stop joins the threads in order, and only after the loop   *)
(* ended: no worker before the joined index is alive.                      *)
JoinedThreadsStopped ==
  /\ \A t \in Thread : wpc[t] = "stopped" => ~running
  /\ \A t \in Thread : t < joining => wpc[t] = "stopped"

(* pthread_join returns: a worker that is asleep, or anywhere else but     *)
(* between its IsRun test and the wait, when Stop comes to it is signalled *)
(* or sees m_b_running itself, unless a full wake-up socket holds a sender. *)
(* A worker at "pop" with an empty list is the exception: WakeUp is sent   *)
(* without the worker's lock, so it can come before the wait.              *)
JoinReturns ==
  \A t \in Thread :
    (mpc = "signal" /\ joining = t /\ wpc[t] # "pop")
      ~> (wpc[t] = "stopped" \/ sender # Idle)

(* The main thread gets out of the drain loop's wait for m_mutex, but for  *)
(* the one deadlock of this design: a worker in send() on the full socket  *)
(* with m_mutex held, and nothing left to drain.  With more objects than   *)
(* one recv() takes bytes, wake-up bytes can pile up as far as that.       *)
Deadlock ==
  mpc = "drain" /\ sender \in Thread /\ bytes = SockCap /\ cmdq = <<>>
DrainGoesOn == mpc = "drain" ~> mpc # "drain" \/ Deadlock

(* The mailboxes of the workers are their request lists, the main thread's *)
(* is CCmdOpt's list.                                                      *)
Boxes == [a \in Actor |-> IF a = Main THEN cmdq ELSE reqs[a]]
Mail == INSTANCE Mailbox WITH Box <- Actor, Call <- Obj, box <- Boxes

(* The lists of libcore deliver each call once and in the order of the     *)
(* posts, whoever sends it and however the threads interleave: AsyncCall   *)
(* implements the safety part of Mailbox.                                  *)
ImplementsMailbox == Mail!SafeSpec
=============================================================================
