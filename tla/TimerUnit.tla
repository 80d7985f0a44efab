------------------------------ MODULE TimerUnit ------------------------------
(***************************************************************************)
(* CTimerUnit and CTimeNode driven by the reactor loop: two passes over    *)
(* the expired timers and one select() per loop, the callbacks of timers   *)
(* and pollers starting and stopping timers at will.  Everything here runs *)
(* on the main thread; only the clock moves by itself.  The heap is the    *)
(* set that CMinHeap implements (modules MinHeap and PriorityQueue).       *)
(***************************************************************************)
EXTENDS Integers, FiniteSets

CONSTANTS
  Timer,      \* the CTimeNode objects
  Intervals,  \* intervals application code starts timers with, in ms
  Counts,     \* repeat counts it starts them with
  MaxClock    \* bound: the clock stops here

Forever == -1   \* the count (UINT64)-1, which no run counts down to 0

ASSUME TimerUnitAssumption ==
  /\ Intervals \subseteq Nat \ {0}
  /\ Counts \subseteq (Nat \ {0}) \cup {Forever}
  /\ MaxClock \in Nat

VARIABLES
  clock,     \* what gettimeofday() returns
  now,       \* CTimerUnit::m_time_now
  heap,      \* CTimerUnit::m_heap_timer
  expired,   \* m_n_expired of each timer
  interval,  \* m_n_trig_interval
  repeat,    \* m_n_repeat
  pc,        \* where the main thread is in CReactor::RunLoop
  timeout,   \* the argument of CPollerUnit::Wait, Forever for (UINT64)-1
  deadline,  \* when the select() in progress times out, Forever for never
  fired      \* timers fired in this pass of ProcessTimeEvent (history)

nodeVars == <<heap, expired, interval, repeat>>
loopVars == <<pc, timeout, deadline>>
vars     == <<clock, now, nodeVars, loopVars, fired>>

(* "pass1" and "pass2" are the two ProcessTimeEvent calls of a loop turn,  *)
(* "cb1" and "cb2" the callbacks they make.                                *)
Pc == {"update1", "pass1", "cb1", "minwait", "select", "waiting",
       "update2", "pass2", "cb2", "dispatch"}
UserCode == {"cb1", "cb2", "dispatch"}

TypeOK ==
  /\ clock \in 0 .. MaxClock
  /\ now \in 0 .. MaxClock
  /\ heap \subseteq Timer
  /\ expired \in [Timer -> Nat]
  /\ interval \in [Timer -> Nat]
  /\ repeat \in [Timer -> Nat \cup {Forever}]
  /\ pc \in Pc
  /\ timeout \in Nat \cup {Forever}
  /\ deadline \in Nat \cup {Forever}
  /\ fired \subseteq Timer

Init ==
  /\ clock = 0 /\ now = 0
  /\ heap = {}
  /\ expired = [n \in Timer |-> 0]
  /\ interval = [n \in Timer |-> 0]
  /\ repeat = [n \in Timer |-> 0]
  /\ pc = "dispatch"             \* main() starts timers before RunLoop
  /\ timeout = 0 /\ deadline = 0
  /\ fired = {}

Goes(from, to) == pc = from /\ pc' = to

Earliest == {n \in heap : \A m \in heap : expired[n] <= expired[m]}

-----------------------------------------------------------------------------
(* CTimeNode, called from application code *)

(* StartTimer: StopTimer if active, then RegisterTimer, which takes the    *)
(* cached time of the loop.                                                *)
StartTimer(n, i, c) ==
  /\ pc \in UserCode
  /\ repeat' = [repeat EXCEPT ![n] = c]
  /\ interval' = [interval EXCEPT ![n] = i]
  /\ expired' = [expired EXCEPT ![n] = now + i]
  /\ heap' = (IF repeat[n] # 0 THEN heap \ {n} ELSE heap) \cup {n}
  /\ UNCHANGED <<clock, now, loopVars, fired>>

StopTimer(n) ==
  /\ pc \in UserCode
  /\ repeat[n] # 0
  /\ heap' = heap \ {n}
  /\ repeat' = [repeat EXCEPT ![n] = 0]
  /\ UNCHANGED <<clock, now, expired, interval, loopVars, fired>>

-----------------------------------------------------------------------------
(* The loop *)

(* UpdateNow at the start of ProcessTimeEvent. *)
UpdateNow(from, to) ==
  /\ Goes(from, to)
  /\ now' = clock
  /\ fired' = {}
  /\ UNCHANGED <<clock, nodeVars, timeout, deadline>>

(* --m_n_repeat *)
Decremented(c) == IF c = Forever THEN Forever ELSE c - 1

(* Mutant: the post-decrement, m_n_repeat-- tested instead of --m_n_repeat. *)
FirePostDecrement(pass, cb, n) ==
  /\ Goes(pass, cb)
  /\ n \in Earliest
  /\ now >= expired[n]
  /\ repeat' = [repeat EXCEPT ![n] = Decremented(@)]
  /\ expired' = [expired EXCEPT ![n] = now + interval[n]]
  /\ fired' = fired \cup {n}
  /\ UNCHANGED <<clock, now, heap, interval, timeout, deadline>>

(* Dequeue the earliest timer when it is due and enter TimerNotify, which  *)
(* registers a repeating timer again before it calls the handler.          *)
Fire(pass, cb, n) ==
  LET left == Decremented(repeat[n]) IN
  /\ Goes(pass, cb)
  /\ n \in Earliest
  /\ now >= expired[n]
  /\ repeat' = [repeat EXCEPT ![n] = left]
  /\ \/ /\ left = 0
        /\ heap' = heap \ {n}
        /\ UNCHANGED expired
     \/ /\ left # 0
        /\ heap' = heap
        /\ expired' = [expired EXCEPT ![n] = now + interval[n]]
  /\ fired' = fired \cup {n}
  /\ UNCHANGED <<clock, now, interval, timeout, deadline>>

(* Mutant: the time is read again after every callback. *)
CallbackReturnsUpdatesNow(cb, pass) ==
  /\ Goes(cb, pass)
  /\ now' = clock
  /\ UNCHANGED <<clock, nodeVars, timeout, deadline, fired>>

CallbackReturns(cb, pass) ==
  /\ Goes(cb, pass)
  /\ UNCHANGED <<clock, now, nodeVars, timeout, deadline, fired>>

EndPass(pass, to) ==
  /\ Goes(pass, to)
  /\ \A n \in heap : now < expired[n]
  /\ UNCHANGED <<clock, now, nodeVars, timeout, deadline, fired>>

(* Mutant: the cached time is used. *)
GetMinWaitTimeCached ==
  /\ Goes("minwait", "select")
  /\ \/ heap = {} /\ timeout' = Forever
     \/ \E n \in Earliest :
          timeout' = IF expired[n] > now THEN expired[n] - now ELSE 0
  /\ UNCHANGED <<clock, now, nodeVars, deadline, fired>>

(* GetMinWaitTime: the time is read again unless no timer is active. *)
GetMinWaitTime ==
  /\ Goes("minwait", "select")
  /\ \/ /\ heap = {}
        /\ timeout' = Forever
        /\ UNCHANGED now
     \/ \E n \in Earliest :
          /\ now' = clock
          /\ timeout' = IF expired[n] > clock THEN expired[n] - clock ELSE 0
  /\ UNCHANGED <<clock, nodeVars, deadline, fired>>

(* Mutant: no time left is passed to select() as no limit. *)
SelectStartsUnlimited ==
  /\ Goes("select", "waiting")
  /\ deadline' = IF timeout \in {0, Forever} THEN Forever ELSE clock + timeout
  /\ UNCHANGED <<clock, now, nodeVars, timeout, fired>>

SelectStarts ==
  /\ Goes("select", "waiting")
  /\ deadline' = IF timeout = Forever THEN Forever ELSE clock + timeout
  /\ UNCHANGED <<clock, now, nodeVars, timeout, fired>>

(* A timeout beyond the bound on the clock is over when the clock stops.   *)
SelectTimesOut ==
  /\ deadline # Forever
  /\ clock >= deadline \/ clock = MaxClock
  /\ Goes("waiting", "update2")
  /\ UNCHANGED <<clock, now, nodeVars, timeout, deadline, fired>>

(* A descriptor is ready, or a signal interrupts select(). *)
SelectEvent ==
  /\ deadline = Forever \/ clock < deadline
  /\ Goes("waiting", "update2")
  /\ UNCHANGED <<clock, now, nodeVars, timeout, deadline, fired>>

DispatchReturns ==
  /\ Goes("dispatch", "update1")
  /\ UNCHANGED <<clock, now, nodeVars, timeout, deadline, fired>>

Tick ==
  /\ clock < MaxClock
  /\ clock' = clock + 1
  /\ UNCHANGED <<now, nodeVars, loopVars, fired>>

UserCall ==
  \E n \in Timer :
    StopTimer(n) \/ \E i \in Intervals, c \in Counts : StartTimer(n, i, c)

ProcessTimeEvent ==
  \/ UpdateNow("update1", "pass1") \/ UpdateNow("update2", "pass2")
  \/ \E n \in Timer : Fire("pass1", "cb1", n) \/ Fire("pass2", "cb2", n)
  \/ CallbackReturns("cb1", "pass1") \/ CallbackReturns("cb2", "pass2")
  \/ EndPass("pass1", "minwait") \/ EndPass("pass2", "dispatch")

LoopStep ==
  ProcessTimeEvent \/ GetMinWaitTime \/ SelectStarts \/ SelectTimesOut \/ DispatchReturns

Next == UserCall \/ LoopStep \/ SelectEvent \/ Tick

(* The main thread is scheduled, handlers return, time passes; no          *)
(* descriptor need ever become ready.                                      *)
Spec == Init /\ [][Next]_vars /\ WF_vars(LoopStep) /\ WF_vars(Tick)

-----------------------------------------------------------------------------
(* Properties *)

(* A timer is in the heap exactly while it is active.  StartTimer and      *)
(* StopTimer decide by m_n_repeat alone whether to unlink the node, and    *)
(* CMinHeap neither detects a second Insert nor a Remove of a stranger.    *)
HeapMatchesActive == \A n \in Timer : n \in heap <=> repeat[n] # 0

(* However handlers restart timers, their own included, no timer fires     *)
(* twice in one pass: ProcessTimeEvent always ends and the pollers get     *)
(* their turn.                                                             *)
OncePerPass ==
  [][\A n \in Timer :
       (Fire("pass1", "cb1", n) \/ Fire("pass2", "cb2", n)) => n \notin fired]_vars

(* select() is never given more time than there is to the earliest timer,  *)
(* by the clock and not by the time cached before the callbacks ran, and   *)
(* no limit only when no timer is active.                                  *)
NeverSleepsPastATimer ==
  [][pc = "minwait" /\ pc' = "select" =>
       \A n \in heap :
         /\ timeout' # Forever
         /\ clock + timeout' <= (IF expired[n] > clock THEN expired[n] ELSE clock)]_vars

(* Every due timer fires, unless it is stopped or started anew. *)
DueTimersFire ==
  \A n \in Timer :
    (n \in heap /\ expired[n] <= clock) ~> (n \notin heap \/ expired[n] > clock)
=============================================================================
