------------------------------- MODULE Polling -------------------------------
(***************************************************************************)
(* The device drivers on top of the asynchronous-call core.  Every driver  *)
(* polls its device through a chain: a one-shot timer fires and sends a    *)
(* query to the driver's worker thread; the worker talks to the device and *)
(* sends the answer, good or failed, to the main thread; DoSyncAction      *)
(* takes the answer and starts the timer again.  Obj is here the set of    *)
(* chains (one for each timer of a driver).                                *)
(***************************************************************************)
EXTENDS AsyncCall, FiniteSets

VARIABLES
  armed,     \* chains whose CTimer is active
  working,   \* the query each worker executes, Idle between queries
  answered,  \* whether that worker already sent its answer
  handling,  \* the chain whose answer DoSyncAction handles, or Idle
  left       \* history: the wake-up bytes the last recv() left in the socket

chainVars == <<armed, working, answered, handling, left>>
pollVars  == <<vars, chainVars>>

(* StartDevice started every timer before RunLoop. *)
PollingInit ==
  /\ Init
  /\ armed = Obj
  /\ working = [t \in Thread |-> Idle]
  /\ answered = [t \in Thread |-> FALSE]
  /\ handling = Idle
  /\ left = 0

-----------------------------------------------------------------------------

(* Mutant: the timer is started to repeat forever, as CDIDevice does. *)
TimerFiresForever(o) ==
  /\ mpc \in {"timers", "timers2"}
  /\ o \in armed
  /\ SendAsyncAction(Main, o)
  /\ UNCHANGED chainVars

(* ProcessTimeOutEvent: the one-shot timer is over, the query is sent. *)
TimerFires(o) ==
  /\ mpc \in {"timers", "timers2"}
  /\ o \in armed
  /\ armed' = armed \ {o}
  /\ SendAsyncAction(Main, o)
  /\ UNCHANGED <<working, answered, handling, left>>

(* DoAsyncAction starts on the query at the head of the list. *)
TakeQuery(t) ==
  /\ WorkerPop(t)
  /\ working' = IF reqs[t] # <<>> THEN [working EXCEPT ![t] = Head(reqs[t])] ELSE working
  /\ UNCHANGED <<armed, answered, handling, left>>

(* The last call of DoAsyncAction sends the answer; with a full wake-up    *)
(* socket it is sent only when there is room again.                        *)
SendAnswer(t) ==
  /\ wpc[t] = "exec"
  /\ \/ /\ ~answered[t]
        /\ SendSyncAction(t, working[t]) \/ SendSyncBlock(t, working[t])
        /\ answered' = [answered EXCEPT ![t] = TRUE]
     \/ sender = t /\ SendSyncUnblock /\ UNCHANGED answered
  /\ UNCHANGED <<armed, working, handling, left>>

(* Mutant: an error path of DoAsyncAction returns without an answer. *)
QueryDoneUnanswered(t) ==
  /\ WorkerDone(t)
  /\ working' = [working EXCEPT ![t] = Idle]
  /\ answered' = [answered EXCEPT ![t] = FALSE]
  /\ UNCHANGED <<armed, handling, left>>

QueryDone(t) ==
  /\ answered[t]
  /\ WorkerDone(t)
  /\ working' = [working EXCEPT ![t] = Idle]
  /\ answered' = [answered EXCEPT ![t] = FALSE]
  /\ UNCHANGED <<armed, handling, left>>

(* InPutNotify starts with its recv(). *)
DrainStarts ==
  /\ MainRecv
  /\ left' = bytes'
  /\ UNCHANGED <<armed, working, answered, handling>>

(* DoSyncAction starts on the answer at the head of CCmdOpt's list. *)
TakeAnswer ==
  /\ MainPop
  /\ handling' = IF cmdq # <<>> THEN Head(cmdq) ELSE Idle
  /\ UNCHANGED <<armed, working, answered, left>>

(* The handler of the answer ends with StartTimer. *)
Rearm ==
  /\ MainEndCallback
  /\ armed' = armed \cup {handling}
  /\ handling' = Idle
  /\ UNCHANGED <<working, answered, left>>

-----------------------------------------------------------------------------

WorkerRuns(t) ==
  \/ (WorkerCheck(t) \/ WorkerWake(t)) /\ UNCHANGED chainVars
  \/ TakeQuery(t) \/ SendAnswer(t) \/ QueryDone(t)

(* A loop pass ends its timer phases only with the due timers fired; which *)
(* timers are due is the clock's choice.                                   *)
MainRuns ==
  \/ /\ \/ MainCheck \/ MainEndTimers \/ MainSelectByte \/ MainEndTimers2
        \/ MainEndDispatch
     /\ UNCHANGED chainVars
  \/ DrainStarts \/ TakeAnswer \/ Rearm

(* select() also returns for the nearest timer. *)
SelectTimeout == armed # {} /\ MainSelectOther /\ UNCHANGED chainVars

PollingNext ==
  \/ \E t \in Thread :
       WorkerRuns(t) \/ (SpuriousWakeup(t) /\ UNCHANGED chainVars)
  \/ MainRuns
  \/ SelectTimeout
  \/ \E o \in Obj : TimerFires(o)

(* Threads are scheduled; a driver's query returns (libmodbus times out);  *)
(* select() returns when the nearest timer is due; a timer that is active  *)
(* again and again in a timer phase has become due at one of them.         *)
PollingFairness ==
  /\ \A t \in Thread : WF_pollVars(WorkerRuns(t))
  /\ WF_pollVars(MainRuns \/ SelectTimeout)
  /\ \A o \in Obj : SF_pollVars(TimerFires(o))

PollingSpec == PollingInit /\ [][PollingNext]_pollVars /\ PollingFairness

-----------------------------------------------------------------------------
(* Properties *)

Occurrences(s, o) == Cardinality({i \in 1 .. Len(s) : s[i] = o})

(* Where the one token of a chain can be. *)
InFlight(o) ==
  LET t == ThreadOf[o] IN
    Occurrences(reqs[t], o)
    + (IF working[t] = o /\ ~answered[t] THEN 1 ELSE 0)
    + (IF sending = o THEN 1 ELSE 0)
    + Occurrences(cmdq, o)
    + (IF handling = o THEN 1 ELSE 0)

(* A chain is single-flight: its timer is armed, or exactly one query or   *)
(* answer of it is under way.  On the strength of this a driver shares a   *)
(* read buffer between its worker and its handlers; module Drivers has the *)
(* handler for which that is not enough.                                   *)
SingleFlight ==
  \A o \in Obj : InFlight(o) = IF o \in armed THEN 0 ELSE 1

(* Between two recv() no more than one byte for each chain, and one for    *)
(* the answer that ends the next select(), is added to what the first of   *)
(* them left in the socket: a drain pass makes room for RecvMax bytes, but *)
(* can have every chain answer into an empty list.  So a worker comes to   *)
(* block in send(), with m_mutex held, only behind a backlog that earlier  *)
(* passes left.                                                            *)
WakeupsBounded ==
  /\ bytes <= left + Cardinality(Obj) + 1
  /\ sender # Idle /\ bytes = SockCap => SockCap <= left + Cardinality(Obj)

(* The backlog fills the socket again and again, and a worker that blocks  *)
(* in send() on it shuts the others and the drain loop out: for good       *)
(* (AsyncCall's Deadlock), or for as long as such blocking recurs, since   *)
(* nothing makes m_mutex fair.                                             *)
SocketKeepsFilling == []<>(sender # Idle)

(* Polling never dies out but for that: every chain is armed again and     *)
(* again.                                                                  *)
PollsForever ==
  SocketKeepsFilling \/ \A o \in Obj : []<>(o \in armed) /\ []<>(o \notin armed)

(* But for that too, every call of a driver is delivered in the end, once  *)
(* and in order, so that neither wake-up protocol leaves one behind.       *)
ImplementsLiveMailbox == Mail!SafeSpec /\ (SocketKeepsFilling \/ Mail!Delivered)
=============================================================================
