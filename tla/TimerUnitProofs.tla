--------------------------- MODULE TimerUnitProofs ---------------------------
(***************************************************************************)
(* Proofs about the timer unit, for any set of timers, any positive        *)
(* intervals and any repeat counts.                                        *)
(***************************************************************************)
EXTENDS TimerUnit, TLAPS

(* Active timers have the positive interval they were started with. *)
ActiveInterval == \A n \in heap : interval[n] > 0

(* What already fired in this pass and is active again is not due in it. *)
FiredNotDue ==
  pc \in {"pass1", "cb1", "pass2", "cb2"} =>
    \A n \in fired \cap heap : expired[n] > now

IInv ==
  /\ TypeOK
  /\ HeapMatchesActive
  /\ ActiveInterval
  /\ FiredNotDue

LEMMA InitIInv == Init => IInv
BY TimerUnitAssumption
DEF Init, IInv, TypeOK, Pc, HeapMatchesActive, ActiveInterval, FiredNotDue

LEMMA DecrementedType ==
  ASSUME NEW c \in Nat \cup {Forever}, c # 0
  PROVE  Decremented(c) \in Nat \cup {Forever}
BY DEF Decremented, Forever

LEMMA StartTimerIInv ==
  ASSUME IInv, NEW n \in Timer, NEW i \in Intervals, NEW c \in Counts, StartTimer(n, i, c)
  PROVE  IInv'
<1>1. i \in Nat /\ i > 0 /\ c \in Nat \cup {Forever} /\ c # 0
  BY TimerUnitAssumption DEF Forever
<1>2. TypeOK'
  BY <1>1 DEF IInv, TypeOK, StartTimer, loopVars
<1>3. HeapMatchesActive'
  BY <1>1 DEF IInv, TypeOK, HeapMatchesActive, StartTimer
<1>4. ActiveInterval' /\ FiredNotDue'
  BY <1>1 DEF IInv, TypeOK, ActiveInterval, FiredNotDue, StartTimer, loopVars
<1>5. QED
  BY <1>2, <1>3, <1>4 DEF IInv

LEMMA StopTimerIInv ==
  ASSUME IInv, NEW n \in Timer, StopTimer(n)
  PROVE  IInv'
BY DEF IInv, TypeOK, HeapMatchesActive, ActiveInterval, FiredNotDue,
       StopTimer, loopVars, UserCode

LEMMA FireIInv ==
  ASSUME IInv, NEW n \in Timer, Fire("pass1", "cb1", n) \/ Fire("pass2", "cb2", n)
  PROVE  IInv'
<1> DEFINE left == Decremented(repeat[n])
<1>1. n \in heap /\ repeat[n] \in Nat \cup {Forever} /\ repeat[n] # 0
  BY DEF Fire, Earliest, IInv, TypeOK, HeapMatchesActive
<1>2. left \in Nat \cup {Forever}
  BY <1>1, DecrementedType
<1>3. /\ pc' \in {"cb1", "cb2"}
      /\ pc \in {"pass1", "pass2"}
      /\ now >= expired[n]
      /\ repeat' = [repeat EXCEPT ![n] = left]
      /\ fired' = fired \cup {n}
      /\ UNCHANGED <<clock, now, interval, timeout, deadline>>
  BY DEF Fire, Goes
<1>4. \/ left = 0 /\ heap' = heap \ {n} /\ UNCHANGED expired
      \/ left # 0 /\ heap' = heap /\ expired' = [expired EXCEPT ![n] = now + interval[n]]
  BY DEF Fire
<1> HIDE DEF left
<1>5. TypeOK'
  BY <1>2, <1>3, <1>4 DEF IInv, TypeOK, Pc
<1>6. HeapMatchesActive'
  BY <1>1, <1>3, <1>4 DEF IInv, TypeOK, HeapMatchesActive
<1>7. ActiveInterval'
  BY <1>3, <1>4 DEF IInv, ActiveInterval
<1>8. FiredNotDue'
  BY <1>1, <1>3, <1>4 DEF IInv, TypeOK, FiredNotDue, ActiveInterval
<1>9. QED
  BY <1>5, <1>6, <1>7, <1>8 DEF IInv

LEMMA GetMinWaitTimeIInv ==
  ASSUME IInv, GetMinWaitTime
  PROVE  IInv'
<1>1. /\ UNCHANGED <<clock, nodeVars, deadline, fired>>
      /\ pc' = "select"
      /\ now' \in {now, clock}
  BY DEF GetMinWaitTime, Goes
<1>2. timeout' \in Nat \cup {Forever}
  <2>1. CASE heap = {}
    BY <2>1 DEF GetMinWaitTime, Earliest
  <2>2. ASSUME NEW n \in Earliest,
               timeout' = IF expired[n] > clock THEN expired[n] - clock ELSE 0
        PROVE  timeout' \in Nat
    BY <2>2 DEF Earliest, IInv, TypeOK
  <2>3. QED
    BY <2>1, <2>2 DEF GetMinWaitTime
<1>3. TypeOK'
  BY <1>1, <1>2 DEF IInv, TypeOK, nodeVars, Pc
<1>4. HeapMatchesActive' /\ ActiveInterval' /\ FiredNotDue'
  BY <1>1 DEF IInv, HeapMatchesActive, ActiveInterval, FiredNotDue, nodeVars
<1>5. QED
  BY <1>3, <1>4 DEF IInv

LEMMA NextIInv == IInv /\ [Next]_vars => IInv'
<1> SUFFICES ASSUME IInv, [Next]_vars PROVE IInv'
  OBVIOUS
<1>1. CASE UserCall
  BY <1>1, StartTimerIInv, StopTimerIInv DEF UserCall
<1>2. ASSUME NEW from \in Pc, NEW to \in {"pass1", "pass2"}, UpdateNow(from, to)
      PROVE  IInv'
  BY <1>2 DEF UpdateNow, Goes, IInv, TypeOK, HeapMatchesActive, ActiveInterval,
       FiredNotDue, nodeVars, Pc
<1>3. ASSUME CallbackReturns("cb1", "pass1") \/ CallbackReturns("cb2", "pass2")
      PROVE  IInv'
  BY <1>3 DEF CallbackReturns, Goes, IInv, TypeOK, HeapMatchesActive, ActiveInterval,
       FiredNotDue, nodeVars, Pc
<1>4. ASSUME EndPass("pass1", "minwait") \/ EndPass("pass2", "dispatch")
      PROVE  IInv'
  BY <1>4 DEF EndPass, Goes, IInv, TypeOK, HeapMatchesActive, ActiveInterval,
       FiredNotDue, nodeVars, Pc
<1>5. CASE ProcessTimeEvent
  BY <1>2, <1>3, <1>4, <1>5, FireIInv DEF ProcessTimeEvent, Pc
<1>6. CASE SelectStarts
  BY <1>6 DEF SelectStarts, Goes, IInv, TypeOK, HeapMatchesActive, ActiveInterval,
       FiredNotDue, nodeVars, Pc
<1>7. CASE SelectTimesOut \/ SelectEvent
  BY <1>7 DEF SelectTimesOut, SelectEvent, Goes, IInv, TypeOK, HeapMatchesActive,
       ActiveInterval,
              FiredNotDue, nodeVars, Pc
<1>8. CASE DispatchReturns
  BY <1>8 DEF DispatchReturns, Goes, IInv, TypeOK, HeapMatchesActive, ActiveInterval,
              FiredNotDue, nodeVars, Pc
<1>9. CASE Tick
  BY <1>9, TimerUnitAssumption
  DEF Tick, IInv, TypeOK, HeapMatchesActive, ActiveInterval, FiredNotDue,
      nodeVars, loopVars
<1>10. CASE UNCHANGED vars
  BY <1>10 DEF vars, IInv, TypeOK, HeapMatchesActive, ActiveInterval, FiredNotDue,
       nodeVars, loopVars
<1>11. QED
  BY <1>1, <1>5, <1>6, <1>7, <1>8, <1>9, <1>10, GetMinWaitTimeIInv DEF Next, LoopStep

-----------------------------------------------------------------------------

THEOREM Invariance == Spec => []IInv
BY InitIInv, NextIInv, PTL DEF Spec

(* Types. *)
THEOREM TypeCorrect == Spec => []TypeOK
BY Invariance, PTL DEF IInv

(* A node is linked into the heap exactly while its timer is active: no    *)
(* sequence of starts and stops, from handlers or from outside, inserts a  *)
(* node twice or removes one that is not there.                            *)
THEOREM HeapHoldsActiveTimers == Spec => []HeapMatchesActive
BY Invariance, PTL DEF IInv

(* select() never sleeps past the earliest timer: the wait is computed     *)
(* from the clock as it is then, and is the least over all active timers.  *)
THEOREM NoOversleeping == Spec => NeverSleepsPastATimer
<1> DEFINE Awake ==
      pc = "minwait" /\ pc' = "select" =>
        \A n \in heap :
          /\ timeout' # Forever
          /\ clock + timeout' <= (IF expired[n] > clock THEN expired[n] ELSE clock)
<1>1. ASSUME IInv, [Next]_vars, pc = "minwait", pc' = "select"
      PROVE  GetMinWaitTime
  BY <1>1 DEF Next, UserCall, StartTimer, StopTimer, loopVars, LoopStep, ProcessTimeEvent,
              UpdateNow, Fire, CallbackReturns, EndPass, SelectStarts, SelectTimesOut,
              DispatchReturns, SelectEvent, Tick, Goes, vars
<1>2. ASSUME IInv, GetMinWaitTime, NEW n \in heap
      PROVE  /\ timeout' # Forever
             /\ clock + timeout' <= (IF expired[n] > clock THEN expired[n] ELSE clock)
  <2>1. PICK m \in Earliest :
          timeout' = IF expired[m] > clock THEN expired[m] - clock ELSE 0
    BY <1>2 DEF GetMinWaitTime
  <2>2. expired[m] <= expired[n]
    BY <2>1, <1>2 DEF Earliest
  <2>3. clock \in Nat /\ expired[m] \in Nat /\ expired[n] \in Nat
    BY <1>2, <2>1 DEF Earliest, IInv, TypeOK
  <2>4. QED
    BY <2>1, <2>2, <2>3 DEF Forever
<1>3. IInv /\ [Next]_vars => Awake
  BY <1>1, <1>2
<1>4. QED
  BY <1>3, Invariance, PTL DEF Spec, NeverSleepsPastATimer

(* No timer fires twice in one pass of ProcessTimeEvent, so a pass over N  *)
(* timers makes at most N callbacks, whatever the handlers start.          *)
THEOREM PassesTerminate == Spec => OncePerPass
<1>1. ASSUME IInv, NEW n \in Timer, Fire("pass1", "cb1", n) \/ Fire("pass2", "cb2", n)
      PROVE  n \notin fired
  <2>1. n \in heap /\ now >= expired[n] /\ pc \in {"pass1", "pass2"}
    BY <1>1 DEF Fire, Goes, Earliest
  <2>2. now \in Nat /\ expired[n] \in Nat
    BY <1>1 DEF IInv, TypeOK
  <2>3. QED
    BY <1>1, <2>1, <2>2 DEF IInv, FiredNotDue
<1>2. IInv => \A n \in Timer :
                (Fire("pass1", "cb1", n) \/ Fire("pass2", "cb2", n)) => n \notin fired
  BY <1>1
<1>3. QED
  BY <1>2, Invariance, PTL DEF OncePerPass
=============================================================================
