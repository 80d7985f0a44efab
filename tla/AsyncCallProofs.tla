--------------------------- MODULE AsyncCallProofs ---------------------------
(***************************************************************************)
(* Proofs about the asynchronous-call core and about the polling of the    *)
(* drivers on top of it, for any number of threads, objects, list bounds   *)
(* and socket sizes.                                                       *)
(***************************************************************************)
EXTENDS Polling, FiniteSetTheorems, TLAPS

(* m_b_sleep is true exactly while the worker is in the wait or has been   *)
(* woken and not yet taken the lock again.                                 *)
SleepFlag == \A t \in Thread : sleep[t] <=> wpc[t] \in {"wait", "woken"}

(* A blocked sender holds m_mutex, the list is empty and the call it will  *)
(* push is known.                                                          *)
BlockedSender == sender # Idle => cmdq = <<>> /\ sending \in Obj

(* What select() reported stays in the socket until the recv().            *)
ReadableMeansBytes == readable => bytes > 0

(* The loop of CThreadPool::Stop runs after the reactor loop ended.        *)
StopPhase ==
  /\ mpc \in {"signal", "join", "done"} => ~running
  /\ mpc = "join" => joining < NThreads

IInv ==
  /\ TypeOK
  /\ SleepFlag
  /\ NoStrandedRequest
  /\ BlockedSender
  /\ ReadableMeansBytes
  /\ NoLostWakeup
  /\ StopPhase
  /\ JoinedThreadsStopped
(* The Idle marker and the main thread are not worker threads. *)
LEMMA ActorFacts ==
  /\ Thread \subseteq Nat
  /\ Main \notin Thread
  /\ Idle \notin Actor
<1>1. Thread \subseteq Nat
  BY AsyncCallAssumption DEF Thread
<1>2. Main \notin Nat /\ Idle \notin Nat /\ Idle # Main
  BY SMT DEF Main, Idle
<1>3. QED
  BY <1>1, <1>2 DEF Actor

LEMMA InitIInv == Init => IInv
<1> SUFFICES ASSUME Init PROVE IInv
  OBVIOUS
<1>1. TypeOK
  <2>1. \A t \in Thread : reqs[t] \in Seq(Obj) /\ sleep[t] \in BOOLEAN /\ wpc[t] \in WorkerPc
    BY DEF Init, WorkerPc
  <2>2. reqs \in [Thread -> Seq(Obj)] /\ sleep \in [Thread -> BOOLEAN]
            /\ wpc \in [Thread -> WorkerPc]
    BY <2>1 DEF Init
  <2>3. bytes \in 0 .. SockCap /\ joining \in 0 .. NThreads
    BY AsyncCallAssumption DEF Init
  <2>4. cmdq \in Seq(Obj)
    BY DEF Init
  <2>5. mpc \in MainPc /\ running \in BOOLEAN /\ readable \in BOOLEAN
    BY DEF Init, MainPc
  <2>6. sender \in Actor \cup {Idle} /\ sending \in Obj \cup {Idle}
    BY DEF Init
  <2>7. QED
    BY <2>2, <2>3, <2>4, <2>5, <2>6 DEF TypeOK
<1>2. SleepFlag /\ NoStrandedRequest /\ BlockedSender /\ ReadableMeansBytes
  BY DEF Init, SleepFlag, NoStrandedRequest, BlockedSender, ReadableMeansBytes
<1>3. NoLostWakeup /\ StopPhase /\ JoinedThreadsStopped
  BY ActorFacts DEF Init, NoLostWakeup, StopPhase, JoinedThreadsStopped
<1>4. QED
  BY <1>1, <1>2, <1>3 DEF IInv

LEMMA NextIInv == IInv /\ [Next]_vars => IInv'
<1> SUFFICES ASSUME IInv, [Next]_vars PROVE IInv'
  OBVIOUS
<1> USE AsyncCallAssumption, ActorFacts
    DEF IInv, TypeOK, SleepFlag, NoStrandedRequest, BlockedSender, ReadableMeansBytes,
        NoLostWakeup, StopPhase, JoinedThreadsStopped, WorkerPc, MainPc,
        vars, workerVars, cmdVars, mainVars
<1>1. ASSUME NEW t \in Thread, WorkerCheck(t)
      PROVE IInv'
  BY <1>1 DEF WorkerCheck
<1>2. ASSUME NEW t \in Thread, WorkerPop(t)
      PROVE IInv'
  <2>1. TypeOK'
    <3>1. CASE reqs[t] # <<>>
      <4> DEFINE r == reqs[t]
      <4>1. r \in Seq(Obj) /\ r # <<>>
        BY <3>1
      <4> HIDE DEF r
      <4>2. Tail(r) \in Seq(Obj)
        BY <4>1
      <4>3. reqs' = [reqs EXCEPT ![t] = Tail(r)]
        BY <1>2, <3>1 DEF WorkerPop, r
      <4>4. reqs' \in [Thread -> Seq(Obj)]
        BY <4>2, <4>3
      <4>5. QED
        BY <1>2, <3>1, <4>4 DEF WorkerPop
    <3>2. CASE reqs[t] = <<>>
      BY <1>2, <3>2 DEF WorkerPop
    <3>3. QED
      BY <3>1, <3>2
  <2>2. SleepFlag' /\ NoStrandedRequest' /\ JoinedThreadsStopped'
    <3>1. SleepFlag'
      BY <1>2 DEF WorkerPop
    <3>2. NoStrandedRequest'
      BY <1>2 DEF WorkerPop
    <3>3. JoinedThreadsStopped'
      BY <1>2 DEF WorkerPop
    <3>. QED
      BY <3>1, <3>2, <3>3
  <2>3. BlockedSender' /\ ReadableMeansBytes' /\ NoLostWakeup' /\ StopPhase'
    BY <1>2 DEF WorkerPop
  <2>4. QED
    BY <2>1, <2>2, <2>3
<1>3. ASSUME NEW t \in Thread, SpuriousWakeup(t)
      PROVE IInv'
  BY <1>3 DEF SpuriousWakeup
<1>4. ASSUME NEW t \in Thread, WorkerWake(t)
      PROVE IInv'
  BY <1>4 DEF WorkerWake
<1>5. ASSUME NEW t \in Thread, WorkerDone(t)
      PROVE IInv'
  BY <1>5 DEF WorkerDone
<1>6. ASSUME NEW a \in Actor, NEW o \in Obj, SendAsyncAction(a, o)
      PROVE IInv'
  <2> DEFINE w == ThreadOf[o]
  <2>1. w \in Thread
    OBVIOUS
  <2>2. /\ reqs' = [reqs EXCEPT ![w] = Append(@, o)]
        /\ wpc' = IF sleep[w] THEN Signalled(w) ELSE wpc
        /\ UNCHANGED <<running, sleep, cmdVars, mainVars>>
    BY <1>6 DEF SendAsyncAction
  <2>3. Append(reqs[w], o) \in Seq(Obj)
    BY <2>1
  <2> HIDE DEF w
  <2>4. TypeOK'
    BY <2>1, <2>2, <2>3 DEF Signalled
  <2>5. wpc'[w] # "wait"
    BY <2>1, <2>2 DEF Signalled
  <2>6. SleepFlag' /\ NoStrandedRequest' /\ JoinedThreadsStopped'
    BY <2>1, <2>2, <2>5 DEF Signalled
  <2>7. BlockedSender' /\ ReadableMeansBytes' /\ NoLostWakeup' /\ StopPhase'
    BY <2>2
  <2>8. QED
    BY <2>4, <2>6, <2>7
<1>7. ASSUME NEW a \in Actor, NEW o \in Obj, SendSyncAction(a, o)
      PROVE IInv'
  BY <1>7 DEF SendSyncAction
<1>8. ASSUME NEW a \in Actor, NEW o \in Obj, SendSyncBlock(a, o)
      PROVE IInv'
  BY <1>8 DEF SendSyncBlock
<1>9. ASSUME NEW a \in Actor, StopLoop(a)
      PROVE IInv'
  BY <1>9 DEF StopLoop, InUserCode
<1>10. CASE SendSyncUnblock
  BY <1>10 DEF SendSyncUnblock
<1>11. CASE MainCheck
  BY <1>11 DEF MainCheck, MainGoes
<1>12. CASE MainEndTimers
  BY <1>12 DEF MainEndTimers, MainGoes
<1>13. CASE MainSelectByte
  BY <1>13 DEF MainSelectByte, MainGoes
<1>14. CASE MainSelectOther
  BY <1>14 DEF MainSelectOther, MainGoes
<1>15. CASE MainEndTimers2
  BY <1>15 DEF MainEndTimers2, MainGoes
<1>16. CASE MainRecv
  <2>1. bytes' \in 0 .. SockCap
    BY <1>16 DEF MainRecv
  <2>2. QED
    BY <1>16, <2>1 DEF MainRecv, MainGoes
<1>17. CASE MainPop
  <2>1. cmdq' \in Seq(Obj)
    BY <1>17 DEF MainPop
  <2>2. QED
    BY <1>17, <2>1 DEF MainPop, MainGoes
<1>18. CASE MainEndCallback
  BY <1>18 DEF MainEndCallback, MainGoes
<1>19. CASE MainEndDispatch
  BY <1>19 DEF MainEndDispatch, MainGoes
<1>20. CASE StopSignal
  BY <1>20 DEF StopSignal, MainGoes, Signalled
<1>21. CASE StopJoin
  BY <1>21 DEF StopJoin, MainGoes
<1>22. CASE StopReturn
  BY <1>22 DEF StopReturn, MainGoes
<1>23. CASE UNCHANGED vars
  BY <1>23
<1>24. QED
  BY <1>1, <1>2, <1>3, <1>4, <1>5, <1>6, <1>7, <1>8, <1>9, <1>10, <1>11, <1>12,
       <1>13, <1>14, <1>15, <1>16, <1>17, <1>18, <1>19, <1>20, <1>21, <1>22,
       <1>23 DEF Next, WorkerStep, UserCall, MainStep
-----------------------------------------------------------------------------

THEOREM Invariance == Spec => []IInv
BY InitIInv, NextIInv, PTL DEF Spec

(* Types: the lists hold objects, the socket never holds more than fits.   *)
THEOREM TypeCorrect == Spec => []TypeOK
BY Invariance, PTL DEF IInv

(* A callback queued for the main thread always has its wake-up: no        *)
(* interleaving of any number of senders with select(), recv() and the     *)
(* drain loop strands it.                                                  *)
THEOREM CallbacksKeepTheirWakeup == Spec => []NoLostWakeup
BY Invariance, PTL DEF IInv

(* A worker asleep on its condition has nothing queued.                    *)
THEOREM SleepersHaveNoWork == Spec => []NoStrandedRequest
BY Invariance, PTL DEF IInv

(* Bytes seen by select() are still in the socket at the recv().           *)
THEOREM RecvFindsItsBytes == Spec => []RecvNeverBlocks
<1>1. IInv => RecvNeverBlocks
  BY DEF IInv, ReadableMeansBytes, RecvNeverBlocks
<1>2. QED
  BY <1>1, Invariance, PTL

(* Stop joins threads in order and only threads that left run().           *)
THEOREM StopJoinsInOrder == Spec => []JoinedThreadsStopped
BY Invariance, PTL DEF IInv

(* A sender that blocks in a full wake-up socket holds m_mutex over an     *)
(* empty list.                                                             *)
THEOREM BlockedSenderSafe == Spec => []BlockedSenderHidesNothing
<1>1. IInv => BlockedSenderHidesNothing
  BY DEF IInv, BlockedSender, BlockedSenderHidesNothing
<1>2. QED
  BY <1>1, Invariance, PTL
-----------------------------------------------------------------------------
(* AsyncCall implements the safety part of Mailbox. *)

LEMMA InitMail == Init => Mail!Init
<1> SUFFICES ASSUME Init PROVE Mail!Init
  OBVIOUS
<1>1. \A a \in Actor : (IF a = Main THEN cmdq ELSE reqs[a]) = <<>>
  BY DEF Init, Actor
<1>2. QED
  BY <1>1 DEF Mail!Init, Boxes

(* What a step does to the lists is what it does to the mailboxes.         *)
LEMMA BoxesUnchanged == UNCHANGED <<reqs, cmdq>> => UNCHANGED Boxes
BY DEF Boxes

LEMMA BoxOfWorker ==
  ASSUME NEW t \in Thread, NEW s, TypeOK,
         reqs' = [reqs EXCEPT ![t] = s], cmdq' = cmdq
  PROVE  /\ Boxes' = [Boxes EXCEPT ![t] = s]
         /\ Boxes[t] = reqs[t]
BY ActorFacts DEF Boxes, TypeOK, Actor

LEMMA BoxOfMain ==
  ASSUME NEW s, cmdq' = s, reqs' = reqs
  PROVE  /\ Boxes' = [Boxes EXCEPT ![Main] = s]
         /\ Boxes[Main] = cmdq
BY DEF Boxes, Actor

LEMMA StepMail == IInv /\ [Next]_vars => [Mail!Next]_Boxes
<1> SUFFICES ASSUME IInv, [Next]_vars PROVE [Mail!Next]_Boxes
  OBVIOUS
<1> USE DEF vars, workerVars, cmdVars, mainVars
<1>0. TypeOK /\ Main \in Actor /\ Thread \subseteq Actor
  BY DEF IInv, Actor
<1>1. ASSUME NEW t \in Thread, WorkerPop(t)
      PROVE [Mail!Next]_Boxes
  <2>1. CASE reqs[t] # <<>>
    <3>1. reqs' = [reqs EXCEPT ![t] = Tail(reqs[t])] /\ cmdq' = cmdq
      BY <1>1, <2>1 DEF WorkerPop
    <3>2. Boxes' = [Boxes EXCEPT ![t] = Tail(Boxes[t])] /\ Boxes[t] # <<>>
      BY <1>0, <2>1, <3>1, BoxOfWorker
    <3>3. Mail!Deliver(t)
      BY <3>2 DEF Mail!Deliver
    <3>4. QED
      BY <1>0, <3>3 DEF Mail!Next
  <2>2. CASE reqs[t] = <<>>
    BY <1>1, <2>2, BoxesUnchanged DEF WorkerPop
  <2>3. QED
    BY <2>1, <2>2
<1>2. ASSUME NEW a \in Actor, NEW o \in Obj, SendAsyncAction(a, o)
      PROVE [Mail!Next]_Boxes
  <2> DEFINE w == ThreadOf[o]
  <2>1. w \in Thread
    BY AsyncCallAssumption
  <2>2. reqs' = [reqs EXCEPT ![w] = Append(reqs[w], o)] /\ cmdq' = cmdq
    BY <1>2 DEF SendAsyncAction
  <2> HIDE DEF w
  <2>3. Boxes' = [Boxes EXCEPT ![w] = Append(Boxes[w], o)]
    BY <1>0, <2>1, <2>2, BoxOfWorker
  <2>4. Mail!Post(w, o)
    BY <2>3 DEF Mail!Post
  <2>5. QED
    BY <1>0, <2>1, <2>4 DEF Mail!Next
<1>3. ASSUME NEW o \in Obj, cmdq' = Append(cmdq, o), reqs' = reqs
      PROVE [Mail!Next]_Boxes
  <2>1. Boxes' = [Boxes EXCEPT ![Main] = Append(Boxes[Main], o)]
    BY <1>3, BoxOfMain
  <2>2. Mail!Post(Main, o)
    BY <2>1 DEF Mail!Post
  <2>3. QED
    BY <1>0, <2>2 DEF Mail!Next
<1>4. ASSUME NEW a \in Actor, NEW o \in Obj, SendSyncAction(a, o)
      PROVE [Mail!Next]_Boxes
  BY <1>3, <1>4 DEF SendSyncAction
<1>5. CASE SendSyncUnblock
  BY <1>3, <1>5 DEF SendSyncUnblock, IInv, BlockedSender
<1>6. CASE MainPop
  <2>1. CASE cmdq # <<>>
    <3>1. cmdq' = Tail(cmdq) /\ reqs' = reqs
      BY <1>6, <2>1 DEF MainPop
    <3>2. Boxes' = [Boxes EXCEPT ![Main] = Tail(Boxes[Main])] /\ Boxes[Main] # <<>>
      BY <2>1, <3>1, BoxOfMain
    <3>3. Mail!Deliver(Main)
      BY <3>2 DEF Mail!Deliver
    <3>4. QED
      BY <1>0, <3>3 DEF Mail!Next
  <2>2. CASE cmdq = <<>>
    BY <1>6, <2>2, BoxesUnchanged DEF MainPop
  <2>3. QED
    BY <2>1, <2>2
<1>7. ASSUME UNCHANGED <<reqs, cmdq>>
      PROVE [Mail!Next]_Boxes
  BY <1>7, BoxesUnchanged
<1>8. ASSUME NEW t \in Thread, WorkerStep(t) \/ SpuriousWakeup(t)
      PROVE [Mail!Next]_Boxes
  BY <1>1, <1>7, <1>8
  DEF WorkerStep, WorkerCheck, WorkerWake, WorkerDone, SpuriousWakeup
<1>9. ASSUME NEW a \in Actor, UserCall(a)
      PROVE [Mail!Next]_Boxes
  BY <1>2, <1>4, <1>7, <1>9 DEF UserCall, SendSyncBlock, StopLoop
<1>10. CASE MainStep \/ MainSelectOther
  BY <1>6, <1>7, <1>10
  DEF MainStep, MainCheck, MainEndTimers, MainSelectByte, MainSelectOther, MainEndTimers2,
      MainRecv, MainEndCallback, MainEndDispatch, StopSignal, StopJoin, StopReturn
<1>11. QED
  BY <1>5, <1>7, <1>8, <1>9, <1>10 DEF Next

(* Every behaviour of the core is one of the mailboxes: calls are neither  *)
(* lost, duplicated nor reordered, for any number of threads and objects.  *)
THEOREM Refinement == Spec => ImplementsMailbox
<1>1. Spec => Mail!Init /\ [][Mail!Next]_Boxes
  BY InitMail, StepMail, Invariance, PTL DEF Spec
<1>2. QED
  BY <1>1 DEF ImplementsMailbox, Mail!SafeSpec

-----------------------------------------------------------------------------
(* Polling: where the one token of a chain is.                             *)
Places == {"timer", "request", "query", "send", "callback", "handler"}
Among(s, o) == \E i \in 1 .. Len(s) : s[i] = o
At(o, place) ==
  CASE place = "timer"    -> o \in armed
    [] place = "request"  -> Among(reqs[ThreadOf[o]], o)
    [] place = "query"    -> working[ThreadOf[o]] = o /\ ~answered[ThreadOf[o]]
    [] place = "send"     -> sending = o
    [] place = "callback" -> Among(cmdq, o)
    [] place = "handler"  -> handling = o

InOnePlace(o) == \E p \in Places : \A q \in Places : At(o, q) <=> q = p
NoneTwice(s) == \A i, j \in 1 .. Len(s) : s[i] = s[j] => i = j

PollTypes ==
  /\ armed \subseteq Obj
  /\ working \in [Thread -> Obj \cup {Idle}] /\ answered \in [Thread -> BOOLEAN]
  /\ handling \in Obj \cup {Idle}

(* A chain is with its own thread only. *)
AtHome ==
  \A t \in Thread :
    /\ \A i \in 1 .. Len(reqs[t]) : ThreadOf[reqs[t][i]] = t
    /\ working[t] # Idle => ThreadOf[working[t]] = t

(* There is a query, an answer or a blocked send() only where the code     *)
(* that is about it runs.                                                  *)
InStep ==
  /\ \A t \in Thread : (working[t] # Idle <=> wpc[t] = "exec") /\ (answered[t] => wpc[t] = "exec")
  /\ handling # Idle <=> mpc = "callback"
  /\ sending # Idle <=> sender # Idle

OnceEach ==
  /\ \A t \in Thread : NoneTwice(reqs[t])
  /\ NoneTwice(cmdq)
  /\ \A o \in Obj : InOnePlace(o)

PollInv == IInv /\ PollTypes /\ AtHome /\ InStep /\ OnceEach

(* The chains that may still send an answer, and the one whose worker is   *)
(* blocked in sending it.  From its recv() to the end of the drain loop    *)
(* each of them has its byte in reserve, for no timer fires there; outside *)
(* at most one byte is written, for the first answer in an empty list.     *)
Unanswered == {o \in Obj : At(o, "request") \/ At(o, "query")}
Blocked == IF sender = Idle THEN 0 ELSE 1
BytesFit ==
  /\ left \in Nat
  /\ IF mpc \in {"drain", "callback"}
     THEN bytes + Cardinality(Unanswered) + Blocked <= left + Cardinality(Obj)
     ELSE bytes <= left + Cardinality(Obj) + (IF cmdq = <<>> THEN 0 ELSE 1)

-----------------------------------------------------------------------------
LEMMA AtIs ==
  ASSUME NEW o
  PROVE  /\ At(o, "timer") <=> o \in armed
         /\ At(o, "request") <=> Among(reqs[ThreadOf[o]], o)
         /\ At(o, "query") <=> working[ThreadOf[o]] = o /\ ~answered[ThreadOf[o]]
         /\ At(o, "send") <=> sending = o
         /\ At(o, "callback") <=> Among(cmdq, o)
         /\ At(o, "handler") <=> handling = o
BY DEF At

LEMMA AtIsNext ==
  ASSUME NEW o
  PROVE  /\ At(o, "timer")' <=> o \in armed'
         /\ At(o, "request")' <=> Among(reqs'[ThreadOf[o]], o)
         /\ At(o, "query")' <=> working'[ThreadOf[o]] = o /\ ~answered'[ThreadOf[o]]
         /\ At(o, "send")' <=> sending' = o
         /\ At(o, "callback")' <=> Among(cmdq', o)
         /\ At(o, "handler")' <=> handling' = o
BY DEF At, Among

(* A step that moves one token, or none.                                   *)
LEMMA OneMoves ==
  ASSUME NEW x \in Obj, NEW p \in Places,
         \A o \in Obj : InOnePlace(o),
         \A o \in Obj \ {x} : \A q \in Places : At(o, q)' <=> At(o, q),
         \A q \in Places : At(x, q)' <=> q = p
  PROVE  \A o \in Obj : InOnePlace(o)'
<1> SUFFICES ASSUME NEW o \in Obj PROVE InOnePlace(o)'
  OBVIOUS
<1>1. CASE o = x
  BY <1>1 DEF InOnePlace
<1>2. CASE o # x
  BY <1>2 DEF InOnePlace
<1>. QED
  BY <1>1, <1>2

LEMMA NoneMoves ==
  ASSUME \A o \in Obj : InOnePlace(o),
         \A o \in Obj : \A q \in Places : At(o, q)' <=> At(o, q)
  PROVE  \A o \in Obj : InOnePlace(o)'
BY DEF InOnePlace

LEMMA Appending ==
  ASSUME NEW s \in Seq(Obj), NEW x \in Obj
  PROVE  /\ \A o : Among(Append(s, x), o) <=> Among(s, o) \/ o = x
         /\ NoneTwice(s) /\ ~Among(s, x) => NoneTwice(Append(s, x))
<1>1. /\ Len(Append(s, x)) = Len(s) + 1 /\ Len(s) \in Nat
      /\ \A i \in 1 .. Len(s) + 1 : Append(s, x)[i] = IF i = Len(s) + 1 THEN x ELSE s[i]
  OBVIOUS
<1>2. ASSUME NEW o PROVE Among(Append(s, x), o) <=> Among(s, o) \/ o = x
  BY <1>1 DEF Among
<1>3. NoneTwice(s) /\ ~Among(s, x) => NoneTwice(Append(s, x))
  BY <1>1 DEF Among, NoneTwice
<1>. QED
  BY <1>2, <1>3

LEMMA Taking ==
  ASSUME NEW s \in Seq(Obj), s # <<>>, NoneTwice(s)
  PROVE  /\ \A o : Among(Tail(s), o) <=> Among(s, o) /\ o # Head(s)
         /\ NoneTwice(Tail(s)) /\ Among(s, Head(s)) /\ Head(s) \in Obj /\ Tail(s) \in Seq(Obj)
<1>1. /\ Len(Tail(s)) = Len(s) - 1 /\ Len(s) \in Nat \ {0} /\ Head(s) = s[1]
      /\ \A i \in 1 .. Len(s) - 1 : Tail(s)[i] = s[i + 1]
  OBVIOUS
<1>2. ASSUME NEW o PROVE Among(Tail(s), o) <=> Among(s, o) /\ o # Head(s)
  <2>1. Among(Tail(s), o) => Among(s, o) /\ o # Head(s)
    BY <1>1 DEF Among, NoneTwice
  <2>2. ASSUME Among(s, o), o # Head(s) PROVE Among(Tail(s), o)
    <3>1. PICK i \in 1 .. Len(s) : s[i] = o
      BY <2>2 DEF Among
    <3>2. i - 1 \in 1 .. Len(s) - 1 /\ Tail(s)[i - 1] = s[i]
      BY <1>1, <2>2, <3>1
    <3>. QED
      BY <1>1, <3>1, <3>2 DEF Among
  <2>. QED
    BY <2>1, <2>2
<1>3. NoneTwice(Tail(s))
  BY <1>1 DEF NoneTwice
<1>4. Among(s, Head(s))
  BY <1>1 DEF Among
<1>. QED
  BY <1>2, <1>3, <1>4

LEMMA PollingIsAsyncCall == PollingInit => Init
BY DEF PollingInit

LEMMA PollingStepIsAsyncCall == PollInv /\ [PollingNext]_pollVars => [Next]_vars
<1> SUFFICES ASSUME PollInv, [PollingNext]_pollVars PROVE [Next]_vars
  OBVIOUS
<1> USE DEF Next
<1>1. ASSUME NEW t \in Thread, WorkerRuns(t) PROVE Next \/ UNCHANGED vars
  <2>1. CASE WorkerCheck(t) \/ WorkerWake(t) \/ TakeQuery(t) \/ QueryDone(t)
    BY <2>1 DEF TakeQuery, QueryDone, WorkerStep
  <2>2. CASE SendAnswer(t)
    <3>1. CASE SendSyncUnblock
      BY <3>1
    <3>2. CASE wpc[t] = "exec" /\ (SendSyncAction(t, working[t]) \/ SendSyncBlock(t, working[t]))
      <4>1. working[t] \in Obj
        BY <3>2 DEF PollInv, InStep, PollTypes
      <4>. QED
        BY <3>2, <4>1 DEF UserCall, Actor
    <3>. QED
      BY <2>2, <3>1, <3>2 DEF SendAnswer
  <2>. QED
    BY <1>1, <2>1, <2>2 DEF WorkerRuns
<1>2. CASE MainRuns \/ SelectTimeout
  BY <1>2 DEF MainRuns, SelectTimeout, MainStep, DrainStarts, TakeAnswer, Rearm
<1>3. ASSUME NEW o \in Obj, TimerFires(o) PROVE Next
  BY <1>3 DEF TimerFires, UserCall, Actor
<1>4. CASE UNCHANGED pollVars
  BY <1>4 DEF pollVars
<1>5. ASSUME NEW t \in Thread, SpuriousWakeup(t) PROVE Next
  BY <1>5
<1>. QED
  BY <1>1, <1>2, <1>3, <1>4, <1>5 DEF PollingNext

LEMMA InitPollInv == PollingInit => PollInv
<1> SUFFICES ASSUME PollingInit PROVE PollInv
  OBVIOUS
<1> USE AsyncCallAssumption DEF PollingInit
<1>1. IInv
  BY InitIInv
<1>2. PollTypes /\ AtHome /\ InStep
  <2>1. \A t \in Thread : working[t] = Idle /\ ~answered[t] /\ wpc[t] = "check" /\ reqs[t] = <<>>
    BY DEF Init
  <2>. QED
    BY <2>1 DEF Init, PollTypes, AtHome, InStep
<1>3. (\A t \in Thread : NoneTwice(reqs[t])) /\ NoneTwice(cmdq)
  BY DEF Init, NoneTwice
<1>4. ASSUME NEW o \in Obj PROVE InOnePlace(o)
  <2>1. ~Among(reqs[ThreadOf[o]], o) /\ ~Among(cmdq, o)
    BY DEF Init, Among
  <2>2. working[ThreadOf[o]] # o /\ sending # o /\ handling # o /\ o \in armed
    BY DEF Init
  <2>. QED
    BY <2>1, <2>2, AtIs DEF InOnePlace, Places
<1>. QED
  BY <1>1, <1>2, <1>3, <1>4 DEF PollInv, OnceEach

(* A step of the core that touches no list and no worker's or handler's    *)
(* code.                                                                   *)
LEMMA QuietKeepsPollInv ==
  ASSUME PollInv, IInv',
         UNCHANGED <<armed, working, answered, handling, reqs, cmdq, sender, sending>>,
         \A t \in Thread : wpc'[t] = "exec" <=> wpc[t] = "exec",
         mpc' = "callback" <=> mpc = "callback"
  PROVE  PollInv'
<1>1. PollTypes' /\ AtHome' /\ InStep'
  BY DEF PollInv, PollTypes, AtHome, InStep
<1>2. \A o \in Obj : \A q \in Places : At(o, q)' <=> At(o, q)
  BY DEF At
<1>3. OnceEach'
  BY <1>2, NoneMoves DEF PollInv, OnceEach, NoneTwice
<1>. QED
  BY <1>1, <1>3 DEF PollInv

LEMMA TimerKeepsPollInv ==
  ASSUME PollInv, IInv', NEW x \in Obj, TimerFires(x)
  PROVE  PollInv'
<1> USE AsyncCallAssumption DEF PollInv
<1> DEFINE w == ThreadOf[x]
<1>1. /\ w \in Thread /\ reqs \in [Thread -> Seq(Obj)] /\ x \in armed /\ armed' = armed \ {x}
      /\ reqs' = [reqs EXCEPT ![w] = Append(reqs[w], x)]
      /\ UNCHANGED <<cmdq, sender, sending, working, answered, handling, mpc>>
  BY DEF TimerFires, SendAsyncAction, IInv, TypeOK, cmdVars, mainVars
<1>2. \A t \in Thread : wpc'[t] = "exec" <=> wpc[t] = "exec"
  BY <1>1 DEF TimerFires, SendAsyncAction, Signalled, IInv, TypeOK
<1>3. At(x, "timer") /\ \A q \in Places : At(x, q) => q = "timer"
  BY <1>1, AtIs DEF OnceEach, InOnePlace, Places
<1>4. /\ \A o : Among(reqs'[w], o) <=> Among(reqs[w], o) \/ o = x
      /\ NoneTwice(reqs[w]) /\ ~Among(reqs[w], x) => NoneTwice(reqs'[w])
      /\ \A t \in Thread : t # w => reqs'[t] = reqs[t]
      /\ reqs[w] \in Seq(Obj) /\ reqs'[w] = Append(reqs[w], x)
  BY <1>1, Appending
<1>5. ~Among(reqs[w], x)
  BY <1>3, AtIs DEF Places
<1>6. PollTypes' /\ InStep'
  BY <1>1, <1>2 DEF PollTypes, InStep
<1>7. AtHome'
  <2>1. \A i \in 1 .. Len(reqs'[w]) : ThreadOf[reqs'[w][i]] = w
    BY <1>1, <1>4 DEF AtHome
  <2>. QED
    BY <1>1, <1>4, <2>1 DEF AtHome
<1>8. \A t \in Thread : NoneTwice(reqs'[t])
  BY <1>1, <1>4, <1>5 DEF OnceEach
<1>9. \A o \in Obj \ {x} : \A q \in Places : At(o, q)' <=> At(o, q)
  <2> TAKE o \in Obj \ {x}
  <2>1. Among(reqs'[ThreadOf[o]], o) <=> Among(reqs[ThreadOf[o]], o)
    BY <1>1, <1>4
  <2>. QED
    BY <1>1, <2>1, AtIs, AtIsNext DEF Places
<1>10. \A q \in Places : At(x, q)' <=> q = "request"
  <2>1. x \notin armed' /\ Among(reqs'[ThreadOf[x]], x)
    BY <1>1, <1>4
  <2>2. ~At(x, "query") /\ ~At(x, "send") /\ ~At(x, "callback") /\ ~At(x, "handler")
    BY <1>3 DEF Places
  <2>. QED
    BY <1>1, <2>1, <2>2, AtIs, AtIsNext DEF Places
<1>11. \A o \in Obj : InOnePlace(o)'
  BY <1>9, <1>10, OneMoves DEF OnceEach, Places
<1>12. OnceEach'
  BY <1>1, <1>8, <1>11 DEF OnceEach, NoneTwice
<1>. QED
  BY <1>6, <1>7, <1>12

LEMMA TakeQueryKeepsPollInv ==
  ASSUME PollInv, IInv', NEW t \in Thread, TakeQuery(t)
  PROVE  PollInv'
<1> USE AsyncCallAssumption DEF PollInv
<1> DEFINE s == reqs[t]
<1>1. s \in Seq(Obj) /\ NoneTwice(s) /\ reqs \in [Thread -> Seq(Obj)]
          /\ wpc \in [Thread -> WorkerPc]
  BY DEF IInv, TypeOK, OnceEach
<1>2. /\ wpc[t] = "pop" /\ working[t] = Idle /\ ~answered[t]
      /\ UNCHANGED <<cmdq, sender, sending, armed, answered, handling, mpc>>
  BY DEF TakeQuery, WorkerPop, cmdVars, mainVars, InStep
<1>3. CASE s = <<>>
  <2>1. UNCHANGED <<armed, working, answered, handling, reqs, cmdq, sender, sending, mpc>>
    BY <1>2, <1>3 DEF TakeQuery, WorkerPop
  <2>2. wpc' = [wpc EXCEPT ![t] = "wait"]
    BY <1>3 DEF TakeQuery, WorkerPop
  <2>. QED
    BY <1>1, <1>2, <2>1, <2>2, QuietKeepsPollInv
<1>4. CASE s # <<>>
  <2>0. PICK x \in Obj : x = Head(s)
    BY <1>1, <1>4, Taking
  <2>1. /\ reqs' = [reqs EXCEPT ![t] = Tail(s)] /\ working' = [working EXCEPT ![t] = x]
        /\ wpc' = [wpc EXCEPT ![t] = "exec"]
    BY <1>4, <2>0 DEF TakeQuery, WorkerPop
  <2>2. /\ \A o : Among(Tail(s), o) <=> Among(s, o) /\ o # x
        /\ NoneTwice(Tail(s)) /\ Among(s, x) /\ x \in Obj /\ Tail(s) \in Seq(Obj)
    BY <1>1, <1>4, <2>0, Taking
  <2>3. /\ reqs'[t] = Tail(s) /\ working'[t] = x /\ wpc'[t] = "exec"
        /\ \A u \in Thread : u # t => reqs'[u] = reqs[u] /\ working'[u] = working[u]
             /\ wpc'[u] = wpc[u]
    BY <1>1, <2>1 DEF PollTypes
  <2>4. ThreadOf[x] = t /\ x # Idle
    <3>1. x = s[1] /\ 1 \in 1 .. Len(s)
      BY <1>1, <1>4, <2>0
    <3>. QED
      BY <2>2, <3>1 DEF AtHome
  <2>5. PollTypes'
    BY <1>2, <2>1, <2>2 DEF PollTypes
  <2>6. InStep'
    BY <1>2, <2>3, <2>4 DEF InStep
  <2>7. AtHome'
    <3>1. \A i \in 1 .. Len(Tail(s)) : ThreadOf[Tail(s)[i]] = t
      <4>1. /\ Len(Tail(s)) = Len(s) - 1 /\ Len(s) \in Nat
            /\ \A i \in 1 .. Len(s) - 1 : Tail(s)[i] = s[i + 1]
        BY <1>1, <1>4
      <4>2. \A i \in 1 .. Len(s) : ThreadOf[s[i]] = t
        BY DEF AtHome
      <4> HIDE DEF s
      <4>. QED
        BY <4>1, <4>2
    <3> DEFINE Home(u, q, k) == (\A i \in 1 .. Len(q) : ThreadOf[q[i]] = u)
        /\ (k # Idle => ThreadOf[k] = u)
    <3>2. \A u \in Thread : Home(u, reqs[u], working[u])
      BY DEF AtHome
    <3>3. Home(t, Tail(s), x)
      BY <2>4, <3>1
    <3>4. (\A u \in Thread : Home(u, reqs'[u], working'[u])) => AtHome'
      BY DEF AtHome
    <3> HIDE DEF Home, s
    <3>. QED
      BY <2>3, <3>2, <3>3, <3>4
  <2>8. At(x, "request") /\ \A q \in Places : At(x, q) => q = "request"
    <3>1. At(x, "request")
      BY <2>2, <2>4, AtIs
    <3>. QED
      BY <2>2, <3>1 DEF OnceEach, InOnePlace, Places
  <2> HIDE DEF s
  <2>9. \A o \in Obj \ {x} : \A q \in Places : At(o, q)' <=> At(o, q)
    <3> TAKE o \in Obj \ {x}
    <3>1. Among(reqs'[ThreadOf[o]], o) <=> Among(reqs[ThreadOf[o]], o)
      BY <2>2, <2>3 DEF s
    <3>2. working'[ThreadOf[o]] = o <=> working[ThreadOf[o]] = o
      BY <1>2, <2>3
    <3>. QED
      BY <1>2, <3>1, <3>2, AtIs, AtIsNext DEF Places
  <2>10. \A q \in Places : At(x, q)' <=> q = "query"
    <3>1. ~Among(reqs'[ThreadOf[x]], x) /\ working'[ThreadOf[x]] = x /\ ~answered'[ThreadOf[x]]
      BY <1>2, <2>2, <2>3, <2>4
    <3>2. ~At(x, "timer") /\ ~At(x, "send") /\ ~At(x, "callback") /\ ~At(x, "handler")
      BY <2>8 DEF Places
    <3>. QED
      BY <1>2, <3>1, <3>2, AtIs, AtIsNext DEF Places
  <2>11. \A o \in Obj : InOnePlace(o)'
    BY <2>2, <2>9, <2>10, OneMoves DEF OnceEach, Places
  <2>12. OnceEach'
    <3>1. \A u \in Thread : NoneTwice(reqs'[u])
      <4>1. \A u \in Thread : NoneTwice(reqs[u])
        BY DEF OnceEach
      <4> HIDE DEF s
      <4>. QED
        BY <2>2, <2>3, <4>1
    <3>2. NoneTwice(cmdq')
      BY <1>2 DEF OnceEach
    <3>. QED
      BY <2>11, <3>1, <3>2 DEF OnceEach, NoneTwice
  <2>. QED
    BY <2>5, <2>6, <2>7, <2>12
<1>. QED
  BY <1>3, <1>4

(* What the three forms of SendAnswer have in common: an answer goes from  *)
(* its worker, or from the blocked send(), to where it is next.            *)
LEMMA SendAnswerKeepsPollInv ==
  ASSUME PollInv, IInv', NEW t \in Thread, SendAnswer(t)
  PROVE  PollInv'
<1> USE AsyncCallAssumption DEF PollInv
<1>1. /\ cmdq \in Seq(Obj) /\ NoneTwice(cmdq) /\ Idle \notin Actor
      /\ wpc[t] = "exec" /\ working[t] \in Obj /\ ThreadOf[working[t]] = t
  BY ActorFacts DEF IInv, TypeOK, OnceEach, SendAnswer, InStep, AtHome, PollTypes
<1>2. UNCHANGED <<armed, working, handling, reqs, wpc, mpc>>
  BY DEF SendAnswer, SendSyncAction, SendSyncBlock, SendSyncUnblock, workerVars, mainVars
<1>3. CASE ~answered[t] /\ answered' = [answered EXCEPT ![t] = TRUE]
           /\ (SendSyncAction(t, working[t]) \/ SendSyncBlock(t, working[t]))
  <2>0. PICK x \in Obj : x = working[t]
    BY <1>1
  <2>1. At(x, "query") /\ \A q \in Places : At(x, q) => q = "query"
    <3>1. At(x, "query")
      BY <1>1, <1>3, <2>0, AtIs
    <3>. QED
      BY <1>1, <3>1 DEF OnceEach, InOnePlace, Places
  <2>2. answered'[t] /\ \A u \in Thread : u # t => answered'[u] = answered[u]
    BY <1>3 DEF PollTypes
  <2>3. /\ sender = Idle /\ sending = Idle
        /\ \/ cmdq' = Append(cmdq, x) /\ UNCHANGED <<sender, sending>>
           \/ cmdq' = cmdq /\ sender' = t /\ sending' = x
    BY <1>3, <2>0 DEF SendSyncAction, SendSyncBlock, InStep
  <2>4. /\ \A o : Among(Append(cmdq, x), o) <=> Among(cmdq, o) \/ o = x
        /\ NoneTwice(cmdq) /\ ~Among(cmdq, x) => NoneTwice(Append(cmdq, x))
    BY <1>1, Appending
  <2>5. ~Among(cmdq, x)
    BY <2>1, AtIs DEF Places
  <2>6. PollTypes'
    BY <1>2, <1>3 DEF PollTypes
  <2>7. InStep' /\ AtHome'
    BY <1>1, <1>2, <2>0, <2>2, <2>3 DEF InStep, AtHome, Actor
  <2>8. NoneTwice(cmdq)' /\ \A u \in Thread : NoneTwice(reqs[u])'
    BY <1>1, <1>2, <2>3, <2>4, <2>5 DEF OnceEach, NoneTwice
  <2> DEFINE p == IF cmdq' = cmdq THEN "send" ELSE "callback"
  <2>9. ThreadOf[x] = t
    BY <1>1, <2>0
  <2>10. cmdq' # cmdq <=> cmdq' = Append(cmdq, x)
    <3>1. Append(cmdq, x) # cmdq
      <4>1. Len(Append(cmdq, x)) = Len(cmdq) + 1 /\ Len(cmdq) \in Nat
        BY <1>1
      <4>. QED
        BY <4>1
    <3>. QED
      BY <2>3, <3>1
  <2>11. \A o \in Obj \ {x} : \A q \in Places : At(o, q)' <=> At(o, q)
    <3> TAKE o \in Obj \ {x}
    <3>1. working[ThreadOf[o]] = o => ThreadOf[o] # t
      BY <2>0
    <3>2. (working'[ThreadOf[o]] = o /\ ~answered'[ThreadOf[o]])
            <=> (working[ThreadOf[o]] = o /\ ~answered[ThreadOf[o]])
      BY <1>2, <2>2, <3>1
    <3>3. Among(cmdq', o) <=> Among(cmdq, o)
      BY <2>3, <2>4
    <3>4. sending' = o <=> sending = o
      BY <2>3
    <3>. QED
      BY <1>2, <3>2, <3>3, <3>4, AtIs, AtIsNext DEF Places
  <2>12. \A q \in Places : At(x, q)' <=> q = p
    <3>1. ~answered'[ThreadOf[x]] <=> FALSE
      BY <2>2, <2>9
    <3>2. ~At(x, "timer") /\ ~At(x, "request") /\ ~At(x, "callback") /\ ~At(x, "handler")
      BY <2>1 DEF Places
    <3>3. Among(cmdq', x) <=> p = "callback"
      BY <2>3, <2>4, <2>5, <2>10
    <3>4. sending' = x <=> p = "send"
      BY <2>3, <2>9, <2>10
    <3>. QED
      BY <1>2, <3>1, <3>2, <3>3, <3>4, AtIs, AtIsNext DEF Places
  <2>13. p \in Places
    BY DEF Places
  <2> HIDE DEF p
  <2>14. \A o \in Obj : InOnePlace(o)'
    BY <2>11, <2>12, <2>13, OneMoves DEF OnceEach
  <2>. QED
    BY <2>6, <2>7, <2>8, <2>14 DEF OnceEach
<1>4. CASE sender = t /\ SendSyncUnblock /\ UNCHANGED answered
  <2>0. PICK x \in Obj : x = sending
    BY <1>1, <1>4, ActorFacts DEF SendSyncUnblock, InStep, IInv, TypeOK, Actor
  <2>1. cmdq' = Append(cmdq, x) /\ sender' = Idle /\ sending' = Idle
    BY <1>4, <2>0 DEF SendSyncUnblock
  <2>2. At(x, "send") /\ \A q \in Places : At(x, q) => q = "send"
    <3>1. At(x, "send")
      BY <2>0, AtIs
    <3>. QED
      BY <2>1, <3>1 DEF OnceEach, InOnePlace, Places
  <2>3. /\ \A o : Among(Append(cmdq, x), o) <=> Among(cmdq, o) \/ o = x
        /\ NoneTwice(cmdq) /\ ~Among(cmdq, x) => NoneTwice(Append(cmdq, x))
    BY <1>1, <2>1, Appending
  <2>4. ~Among(cmdq, x)
    BY <2>2, AtIs DEF Places
  <2>5. PollTypes' /\ InStep' /\ AtHome'
    BY <1>2, <1>4, <2>1 DEF PollTypes, InStep, AtHome
  <2>6. NoneTwice(cmdq)' /\ \A u \in Thread : NoneTwice(reqs[u])'
    BY <1>1, <1>2, <2>1, <2>3, <2>4 DEF OnceEach, NoneTwice
  <2>7. \A o \in Obj \ {x} : \A q \in Places : At(o, q)' <=> At(o, q)
    BY <1>2, <1>4, <2>0, <2>1, <2>3, AtIs, AtIsNext DEF Places
  <2>8. \A q \in Places : At(x, q)' <=> q = "callback"
    <3>1. ~At(x, "timer") /\ ~At(x, "request") /\ ~At(x, "query") /\ ~At(x, "handler")
      BY <2>2 DEF Places
    <3>2. Among(cmdq', x) /\ sending' # x
      BY <2>1, <2>3
    <3>. QED
      BY <1>2, <1>4, <3>1, <3>2, AtIs, AtIsNext DEF Places
  <2>9. \A o \in Obj : InOnePlace(o)'
    BY <2>7, <2>8, OneMoves DEF OnceEach, Places
  <2>. QED
    BY <2>5, <2>6, <2>9 DEF OnceEach
<1>. QED
  BY <1>3, <1>4 DEF SendAnswer

LEMMA QueryDoneKeepsPollInv ==
  ASSUME PollInv, IInv', NEW t \in Thread, QueryDone(t)
  PROVE  PollInv'
<1> USE AsyncCallAssumption DEF PollInv
<1>1. /\ answered[t] /\ UNCHANGED <<armed, handling, reqs, cmdq, sender, sending, mpc>>
      /\ working' = [working EXCEPT ![t] = Idle] /\ answered' = [answered EXCEPT ![t] = FALSE]
      /\ wpc' = [wpc EXCEPT ![t] = "check"] /\ wpc \in [Thread -> WorkerPc]
  BY DEF QueryDone, WorkerDone, cmdVars, mainVars, IInv, TypeOK
<1>2. /\ working'[t] = Idle /\ ~answered'[t] /\ wpc'[t] = "check"
      /\ \A u \in Thread : u # t =>
           working'[u] = working[u] /\ answered'[u] = answered[u] /\ wpc'[u] = wpc[u]
  BY <1>1 DEF PollTypes
<1>3. PollTypes' /\ InStep' /\ AtHome'
  BY <1>1, <1>2 DEF PollTypes, InStep, AtHome
<1>4. \A o \in Obj : \A q \in Places : At(o, q)' <=> At(o, q)
  <2> TAKE o \in Obj
  <2>1. (working'[ThreadOf[o]] = o /\ ~answered'[ThreadOf[o]])
          <=> (working[ThreadOf[o]] = o /\ ~answered[ThreadOf[o]])
    BY <1>1, <1>2
  <2>. QED
    BY <1>1, <2>1, AtIs, AtIsNext DEF Places
<1>5. OnceEach'
  BY <1>1, <1>4, NoneMoves DEF OnceEach, NoneTwice
<1>. QED
  BY <1>3, <1>5

LEMMA TakeAnswerKeepsPollInv ==
  ASSUME PollInv, IInv', TakeAnswer
  PROVE  PollInv'
<1> USE AsyncCallAssumption DEF PollInv
<1>1. /\ cmdq \in Seq(Obj) /\ NoneTwice(cmdq) /\ mpc = "drain" /\ handling = Idle
      /\ UNCHANGED <<armed, working, answered, reqs, wpc, sender, sending>>
  BY DEF TakeAnswer, MainPop, MainGoes, IInv, TypeOK, OnceEach, InStep, workerVars
<1>2. CASE cmdq = <<>>
  <2>1. /\ UNCHANGED <<armed, working, answered, handling, reqs, cmdq, sender, sending>>
        /\ mpc' = "dispatch"
    BY <1>1, <1>2 DEF TakeAnswer, MainPop, MainGoes
  <2>. QED
    BY <1>1, <2>1, QuietKeepsPollInv
<1>3. CASE cmdq # <<>>
  <2>0. PICK x \in Obj : x = Head(cmdq)
    BY <1>1, <1>3, Taking
  <2>1. cmdq' = Tail(cmdq) /\ mpc' = "callback" /\ handling' = x
    BY <1>3, <2>0 DEF TakeAnswer, MainPop, MainGoes
  <2>2. /\ \A o : Among(Tail(cmdq), o) <=> Among(cmdq, o) /\ o # x
        /\ NoneTwice(Tail(cmdq)) /\ Among(cmdq, x) /\ x \in Obj
    BY <1>1, <1>3, <2>0, Taking
  <2>3. PollTypes' /\ InStep' /\ AtHome'
    BY <1>1, <2>1, <2>2 DEF PollTypes, InStep, AtHome
  <2>4. At(x, "callback") /\ \A q \in Places : At(x, q) => q = "callback"
    <3>1. At(x, "callback")
      BY <2>2, AtIs
    <3>. QED
      BY <2>2, <3>1 DEF OnceEach, InOnePlace, Places
  <2>5. \A o \in Obj \ {x} : \A q \in Places : At(o, q)' <=> At(o, q)
    BY <1>1, <2>1, <2>2, AtIs, AtIsNext DEF Places
  <2>6. \A q \in Places : At(x, q)' <=> q = "handler"
    <3>1. ~At(x, "timer") /\ ~At(x, "request") /\ ~At(x, "query") /\ ~At(x, "send")
      BY <2>4 DEF Places
    <3>. QED
      BY <1>1, <2>1, <2>2, <3>1, AtIs, AtIsNext DEF Places
  <2>7. \A o \in Obj : InOnePlace(o)'
    BY <2>2, <2>5, <2>6, OneMoves DEF OnceEach, Places
  <2>8. OnceEach'
    BY <1>1, <2>1, <2>2, <2>7 DEF OnceEach, NoneTwice
  <2>. QED
    BY <2>3, <2>8
<1>. QED
  BY <1>2, <1>3

LEMMA RearmKeepsPollInv ==
  ASSUME PollInv, IInv', Rearm
  PROVE  PollInv'
<1> USE AsyncCallAssumption DEF PollInv
<1>0. PICK x \in Obj : x = handling
  BY DEF Rearm, MainEndCallback, MainGoes, InStep, PollTypes
<1>1. /\ mpc = "callback" /\ mpc' = "drain" /\ handling' = Idle /\ armed' = armed \cup {x}
      /\ UNCHANGED <<working, answered, reqs, wpc, cmdq, sender, sending>>
  BY <1>0 DEF Rearm, MainEndCallback, MainGoes, workerVars, cmdVars
<1>3. PollTypes' /\ InStep' /\ AtHome'
  BY <1>1 DEF PollTypes, InStep, AtHome
<1>4. At(x, "handler") /\ \A q \in Places : At(x, q) => q = "handler"
  <2>1. At(x, "handler")
    BY <1>0, AtIs
  <2>. QED
    BY <2>1 DEF OnceEach, InOnePlace, Places
<1>5. \A o \in Obj \ {x} : \A q \in Places : At(o, q)' <=> At(o, q)
  BY <1>0, <1>1, AtIs, AtIsNext DEF Places
<1>6. \A q \in Places : At(x, q)' <=> q = "timer"
  <2>1. ~At(x, "request") /\ ~At(x, "query") /\ ~At(x, "send") /\ ~At(x, "callback")
    BY <1>4 DEF Places
  <2>. QED
    BY <1>0, <1>1, <2>1, AtIs, AtIsNext DEF Places
<1>7. \A o \in Obj : InOnePlace(o)'
  BY <1>5, <1>6, OneMoves DEF OnceEach, Places
<1>8. OnceEach'
  BY <1>1, <1>7 DEF OnceEach, NoneTwice
<1>. QED
  BY <1>3, <1>8

LEMMA NextPollInv == PollInv /\ [PollingNext]_pollVars => PollInv'
<1> SUFFICES ASSUME PollInv, [PollingNext]_pollVars PROVE PollInv'
  OBVIOUS
<1>1. IInv'
  BY PollingStepIsAsyncCall, NextIInv DEF PollInv
<1> DEFINE Quiet ==
      /\ UNCHANGED <<armed, working, answered, handling, reqs, cmdq, sender, sending>>
      /\ \A t \in Thread : wpc'[t] = "exec" <=> wpc[t] = "exec"
      /\ mpc' = "callback" <=> mpc = "callback"
<1>2. Quiet => PollInv'
  BY <1>1, QuietKeepsPollInv
<1>3. wpc \in [Thread -> WorkerPc]
  BY DEF PollInv, IInv, TypeOK
<1>4. ASSUME NEW t \in Thread, WorkerCheck(t) \/ WorkerWake(t)
                 \/ SpuriousWakeup(t), UNCHANGED chainVars
      PROVE Quiet
  BY <1>3, <1>4 DEF WorkerCheck, WorkerWake, SpuriousWakeup, cmdVars, mainVars, chainVars
<1>5. ASSUME \/ /\ \/ MainCheck \/ MainEndTimers \/ MainSelectByte \/ MainEndTimers2
                   \/ MainEndDispatch \/ MainSelectOther
                /\ UNCHANGED chainVars
             \/ DrainStarts
      PROVE Quiet
  BY <1>5 DEF MainCheck, MainEndTimers, MainSelectByte, MainEndTimers2, DrainStarts, MainRecv,
       MainEndDispatch, MainSelectOther, MainGoes, workerVars, cmdVars, chainVars
<1>6. UNCHANGED pollVars => Quiet
  BY DEF pollVars, vars, workerVars, cmdVars, mainVars, chainVars
<1> HIDE DEF Quiet
<1>7. ASSUME NEW t \in Thread, WorkerRuns(t) PROVE PollInv'
  BY <1>1, <1>2, <1>4, <1>7, TakeQueryKeepsPollInv, SendAnswerKeepsPollInv,
       QueryDoneKeepsPollInv
     DEF WorkerRuns
<1>8. CASE MainRuns \/ SelectTimeout
  BY <1>1, <1>2, <1>5, <1>8, TakeAnswerKeepsPollInv, RearmKeepsPollInv DEF MainRuns,
       SelectTimeout
<1>. QED
  BY <1>1, <1>2, <1>4, <1>6, <1>7, <1>8, TimerKeepsPollInv DEF PollingNext

(* The token of each chain is in one place at every moment: its timer, the *)
(* worker's list, the worker, a blocked send(), CCmdOpt's list or the      *)
(* handler that starts the timer again.                                    *)
THEOREM TokensMove == PollingSpec => []PollInv
BY InitPollInv, NextPollInv, PTL DEF PollingSpec

LEMMA OccursOnce ==
  ASSUME NEW s \in Seq(Obj), NEW o, NoneTwice(s)
  PROVE  Occurrences(s, o) = IF Among(s, o) THEN 1 ELSE 0
<1> DEFINE I == {i \in 1 .. Len(s) : s[i] = o}
<1>1. CASE Among(s, o)
  <2>1. PICK k \in 1 .. Len(s) : s[k] = o
    BY <1>1 DEF Among
  <2>2. I = {k}
    BY <2>1 DEF NoneTwice
  <2>. QED
    BY <1>1, <2>2, FS_Singleton DEF Occurrences
<1>2. CASE ~Among(s, o)
  <2>1. I = {}
    BY <1>2 DEF Among
  <2>. QED
    BY <1>2, <2>1, FS_EmptySet DEF Occurrences
<1>. QED
  BY <1>1, <1>2

LEMMA PollInvIsSingleFlight == PollInv => SingleFlight
<1> SUFFICES ASSUME PollInv, NEW o \in Obj PROVE InFlight(o) = IF o \in armed THEN 0 ELSE 1
  BY DEF SingleFlight
<1> USE AsyncCallAssumption DEF PollInv
<1> DEFINE t == ThreadOf[o]
<1>1. /\ t \in Thread /\ reqs[t] \in Seq(Obj) /\ cmdq \in Seq(Obj)
      /\ NoneTwice(reqs[t]) /\ NoneTwice(cmdq)
  BY DEF IInv, TypeOK, OnceEach
<1>2. /\ Occurrences(reqs[t], o) = IF At(o, "request") THEN 1 ELSE 0
      /\ Occurrences(cmdq, o) = IF At(o, "callback") THEN 1 ELSE 0
  BY <1>1, OccursOnce, AtIs
<1>3. InFlight(o) = (IF At(o, "request") THEN 1 ELSE 0) + (IF At(o, "query") THEN 1 ELSE 0)
                    + (IF At(o, "send") THEN 1 ELSE 0) + (IF At(o, "callback") THEN 1 ELSE 0)
                    + (IF At(o, "handler") THEN 1 ELSE 0)
  BY <1>2, AtIs DEF InFlight
<1>4. PICK p \in Places : \A q \in Places : At(o, q) <=> q = p
  BY DEF OnceEach, InOnePlace
<1>5. o \in armed <=> p = "timer"
  BY <1>4, AtIs DEF Places
<1>6. /\ At(o, "request") <=> p = "request"
      /\ At(o, "query") <=> p = "query"
      /\ At(o, "send") <=> p = "send"
      /\ At(o, "callback") <=> p = "callback"
      /\ At(o, "handler") <=> p = "handler"
  BY <1>4 DEF Places
<1>. QED
  BY <1>3, <1>5, <1>6 DEF Places

(* Polling on top of the core is an instance of it: every step of a timer, *)
(* a query or an answer is a step of AsyncCall, so that what holds of the  *)
(* core, ImplementsMailbox included, holds of the drivers that poll.       *)
THEOREM PollingImplementsAsyncCall == PollingSpec => Spec
<1>1. PollingInit => Init
  BY PollingIsAsyncCall
<1>2. PollInv /\ [PollingNext]_pollVars => [Next]_vars
  BY PollingStepIsAsyncCall
<1>. QED
  BY <1>1, <1>2, TokensMove, PTL DEF PollingSpec, Spec

(* A chain is single-flight: its timer is armed, or exactly one query or   *)
(* answer of it is under way: no handler of a chain runs while the worker  *)
(* is at a query of the same chain.                                        *)
THEOREM ChainsAreSingleFlight == PollingSpec => []SingleFlight
BY InitPollInv, NextPollInv, PollInvIsSingleFlight, PTL DEF PollingSpec

-----------------------------------------------------------------------------
LEMMA UnansweredSame ==
  ASSUME UNCHANGED <<reqs, working, answered>>
  PROVE  Unanswered' = Unanswered
BY AtIs, AtIsNext DEF Unanswered

LEMMA TakingLeavesUnanswered ==
  ASSUME PollInv, NEW t \in Thread, TakeQuery(t)
  PROVE  Unanswered' = Unanswered
<1> USE AsyncCallAssumption DEF PollInv
<1> DEFINE s == reqs[t]
<1>1. s \in Seq(Obj) /\ NoneTwice(s) /\ reqs \in [Thread -> Seq(Obj)]
      /\ working[t] = Idle /\ ~answered[t] /\ UNCHANGED answered
  BY DEF IInv, TypeOK, OnceEach, TakeQuery, WorkerPop, InStep
<1>2. CASE s = <<>>
  BY <1>1, <1>2, UnansweredSame DEF TakeQuery, WorkerPop
<1>3. CASE s # <<>>
  <2>1. /\ reqs'[t] = Tail(s) /\ working'[t] = Head(s)
        /\ \A u \in Thread : u # t => reqs'[u] = reqs[u] /\ working'[u] = working[u]
    BY <1>1, <1>3 DEF TakeQuery, WorkerPop, PollTypes
  <2>2. \A o : Among(Tail(s), o) <=> Among(s, o) /\ o # Head(s)
    BY <1>1, <1>3, Taking
  <2>3. Among(s, Head(s))
    BY <1>1, <1>3, Taking
  <2>4. ASSUME NEW o \in Obj
        PROVE  (At(o, "request")' \/ At(o, "query")') <=> (At(o, "request") \/ At(o, "query"))
    <3>1. CASE ThreadOf[o] = t
      <4>1. (At(o, "request") \/ At(o, "query")) <=> Among(s, o)
        BY <1>1, <3>1, AtIs
      <4>2. (At(o, "request")' \/ At(o, "query")') <=> (Among(Tail(s), o) \/ Head(s) = o)
        BY <1>1, <2>1, <3>1, AtIsNext
      <4>. QED
        BY <2>2, <2>3, <4>1, <4>2
    <3>2. CASE ThreadOf[o] # t
      BY <1>1, <2>1, <3>2, AtIs, AtIsNext
    <3>. QED
      BY <3>1, <3>2
  <2>. QED
    BY <2>4 DEF Unanswered
<1>. QED
  BY <1>2, <1>3

LEMMA DoneLeavesUnanswered ==
  ASSUME PollInv, NEW t \in Thread, QueryDone(t)
  PROVE  Unanswered' = Unanswered
<1> USE AsyncCallAssumption DEF PollInv
<1>1. /\ answered[t] /\ reqs' = reqs /\ working'[t] = Idle
      /\ \A u \in Thread : u # t => working'[u] = working[u] /\ answered'[u] = answered[u]
  BY DEF QueryDone, WorkerDone, PollTypes
<1>2. ASSUME NEW o \in Obj
      PROVE  (At(o, "request")' \/ At(o, "query")') <=> (At(o, "request") \/ At(o, "query"))
  BY <1>1, AtIs, AtIsNext
<1>. QED
  BY <1>2 DEF Unanswered

LEMMA AnsweringLeavesOneLess ==
  ASSUME PollInv, NEW t \in Thread, wpc[t] = "exec", ~answered[t],
         answered' = [answered EXCEPT ![t] = TRUE], UNCHANGED <<reqs, working>>
  PROVE  working[t] \in Unanswered /\ Unanswered' = Unanswered \ {working[t]}
<1> USE AsyncCallAssumption DEF PollInv
<1>1. PICK x \in Obj : x = working[t]
  BY DEF InStep, PollTypes
<1>2. ThreadOf[x] = t /\ At(x, "query")
  BY <1>1, AtIs DEF AtHome
<1>3. ~At(x, "request")
  BY <1>2 DEF OnceEach, InOnePlace, Places
<1>4. answered'[t] /\ \A u \in Thread : u # t => answered'[u] = answered[u]
  BY DEF PollTypes
<1>5. ASSUME NEW o \in Obj
      PROVE  (At(o, "request")' \/ At(o, "query")') <=> (At(o, "request")
                 \/ At(o, "query")) /\ o # x
  <2>1. CASE o = x
    BY <1>1, <1>2, <1>3, <1>4, <2>1, AtIs, AtIsNext
  <2>2. CASE o # x
    <3>1. (working'[ThreadOf[o]] = o /\ ~answered'[ThreadOf[o]])
            <=> (working[ThreadOf[o]] = o /\ ~answered[ThreadOf[o]])
      BY <1>1, <1>4, <2>2
    <3>. QED
      BY <2>2, <3>1, AtIs, AtIsNext
  <2>. QED
    BY <2>1, <2>2
<1>. QED
  BY <1>1, <1>2, <1>5 DEF Unanswered

LEMMA UnansweredCounts ==
  ASSUME IsFiniteSet(Obj)
  PROVE  /\ IsFiniteSet(Unanswered) /\ Cardinality(Unanswered) \in Nat /\ Cardinality(Obj) \in Nat
         /\ Cardinality(Unanswered) <= Cardinality(Obj)
         /\ \A x \in Unanswered : Cardinality(Unanswered \ {x}) = Cardinality(Unanswered) - 1
         /\ \A x \in Obj \ Unanswered : Cardinality(Unanswered) <= Cardinality(Obj) - 1
<1>1. Unanswered \subseteq Obj
  BY DEF Unanswered
<1>2. IsFiniteSet(Unanswered) /\ Cardinality(Unanswered) <= Cardinality(Obj)
  BY <1>1, FS_Subset
<1>3. Cardinality(Unanswered) \in Nat /\ Cardinality(Obj) \in Nat
  BY <1>2, FS_CardinalityType
<1>4. \A x \in Unanswered : Cardinality(Unanswered \ {x}) = Cardinality(Unanswered) - 1
  BY <1>2, FS_RemoveElement
<1>5. ASSUME NEW x \in Obj \ Unanswered PROVE Cardinality(Unanswered) <= Cardinality(Obj) - 1
  <2>1. Unanswered \subseteq Obj \ {x} /\ IsFiniteSet(Obj \ {x})
    BY <1>1, FS_RemoveElement
  <2>2. Cardinality(Unanswered) <= Cardinality(Obj \ {x})
    BY <2>1, FS_Subset
  <2>. QED
    BY <2>2, FS_RemoveElement
<1>. QED
  BY <1>2, <1>3, <1>4, <1>5

LEMMA InitBytesFit == IsFiniteSet(Obj) /\ PollingInit => BytesFit
BY UnansweredCounts DEF PollingInit, Init, BytesFit

LEMMA NextBytesFit ==
  IsFiniteSet(Obj) /\ PollInv /\ BytesFit /\ [PollingNext]_pollVars => BytesFit'
<1> SUFFICES ASSUME IsFiniteSet(Obj), PollInv, BytesFit, [PollingNext]_pollVars PROVE BytesFit'
  OBVIOUS
<1> DEFINE C == Cardinality(Obj)
           U == Cardinality(Unanswered)
           Inside == mpc \in {"drain", "callback"}
           Ends == IF cmdq = <<>> THEN 0 ELSE 1
<1>1. /\ C \in Nat /\ U \in Nat /\ U <= C /\ bytes \in Nat /\ RecvMax \in Nat
      /\ left \in Nat /\ cmdq \in Seq(Obj) /\ Ends \in {0, 1}
      /\ (sender = Idle /\ Blocked = 0) \/ (sender # Idle /\ Blocked = 1)
      /\ sender # Idle => cmdq = <<>> /\ sending \in Obj
  BY UnansweredCounts, AsyncCallAssumption
     DEF PollInv, IInv, TypeOK, BlockedSender, BytesFit, Blocked
<1>2. IF Inside THEN bytes + U + Blocked <= left + C ELSE bytes <= left + C + Ends
  BY DEF BytesFit
<1>3. ASSUME Unanswered' = Unanswered, UNCHANGED <<bytes, cmdq, sender, left>>,
             Inside' <=> Inside
      PROVE BytesFit'
  BY <1>1, <1>2, <1>3 DEF BytesFit, Blocked
<1>4. ASSUME NEW t \in Thread, WorkerRuns(t) PROVE BytesFit'
  <2>1. CASE (WorkerCheck(t) \/ WorkerWake(t)) /\ UNCHANGED chainVars
    BY <1>3, <2>1, UnansweredSame DEF WorkerCheck, WorkerWake, cmdVars, mainVars,
         chainVars
  <2>2. CASE TakeQuery(t)
    BY <1>3, <2>2, TakingLeavesUnanswered DEF TakeQuery, WorkerPop, cmdVars, mainVars
  <2>3. CASE QueryDone(t)
    BY <1>3, <2>3, DoneLeavesUnanswered DEF QueryDone, WorkerDone, cmdVars, mainVars
  <2>4. ASSUME wpc[t] = "exec", ~answered[t], answered' = [answered EXCEPT ![t] = TRUE],
               UNCHANGED <<reqs, working, mpc, left>>,
               SendSyncAction(t, working[t]) \/ SendSyncBlock(t, working[t])
        PROVE  BytesFit'
    <3>1. Cardinality(Unanswered') = U - 1
      BY <1>4, <2>4, AnsweringLeavesOneLess, UnansweredCounts
    <3>2. sender = Idle /\ Blocked = 0
      BY <1>1, <2>4 DEF SendSyncAction, SendSyncBlock
    <3>3. CASE SendSyncAction(t, working[t])
      <4>1. working[t] \in Obj /\ cmdq' = Append(cmdq, working[t]) /\ sender' = sender
        BY <2>4, <3>3 DEF SendSyncAction, PollInv, InStep, PollTypes
      <4>2. cmdq' # <<>> /\ Blocked' = 0
        BY <1>1, <3>2, <4>1 DEF Blocked
      <4>3. (Ends = 1 /\ bytes' = bytes) \/ (Ends = 0 /\ bytes' = bytes + 1)
        BY <3>3 DEF SendSyncAction
      <4> HIDE DEF U, C, Ends, Inside
      <4>4. IF Inside THEN bytes' + (U - 1) <= left + C ELSE bytes' <= left + C + 1
        BY <1>1, <1>2, <3>2, <4>3
      <4>. QED
        BY <1>1, <2>4, <3>1, <4>2, <4>3, <4>4 DEF BytesFit, C, Inside
    <3>4. CASE SendSyncBlock(t, working[t])
      <4>1. t # Idle
        BY <1>4, ActorFacts DEF Actor
      <4>2. UNCHANGED <<bytes, cmdq>> /\ Blocked' = 1
        BY <3>4, <4>1 DEF SendSyncBlock, Blocked
      <4> HIDE DEF U, C, Inside
      <4>3. IF Inside THEN bytes + (U - 1) + 1 <= left + C ELSE bytes <= left + C + Ends
        BY <1>1, <1>2, <3>2
      <4>. QED
        BY <1>1, <2>4, <3>1, <4>2, <4>3 DEF BytesFit, C, Inside
    <3>. QED
      BY <2>4, <3>3, <3>4
  <2>5. ASSUME SendSyncUnblock, UNCHANGED <<working, answered, left>> PROVE BytesFit'
    <3>1. Unanswered' = Unanswered
      BY <2>5, UnansweredSame DEF SendSyncUnblock, workerVars
    <3>2. /\ sending \in Obj /\ cmdq' = Append(cmdq, sending) /\ bytes' = bytes + 1
          /\ Ends = 0 /\ Blocked = 1 /\ Blocked' = 0 /\ mpc' = mpc
      BY <1>1, <2>5 DEF SendSyncUnblock, Blocked, mainVars
    <3>3. cmdq' # <<>>
      BY <1>1, <3>2
    <3> HIDE DEF U, C, Ends, Inside
    <3>4. IF Inside THEN bytes' + U <= left + C ELSE bytes' <= left + C + 1
      BY <1>1, <1>2, <3>2
    <3>. QED
      BY <1>1, <2>5, <3>1, <3>2, <3>3, <3>4 DEF BytesFit, C, U, Inside
  <2>6. CASE SendAnswer(t)
    BY <2>4, <2>5, <2>6 DEF SendAnswer, SendSyncAction, SendSyncBlock, workerVars, mainVars
  <2>. QED
    BY <1>4, <2>1, <2>2, <2>3, <2>6 DEF WorkerRuns
<1>5. ASSUME MainCheck \/ MainEndTimers \/ MainSelectByte \/ MainEndTimers2 \/ MainEndDispatch
             \/ MainSelectOther, UNCHANGED chainVars
      PROVE  BytesFit'
  <2>1. UNCHANGED <<reqs, working, answered, bytes, cmdq, sender, left>> /\ ~Inside /\ ~Inside'
    BY <1>5 DEF MainCheck, MainEndTimers, MainSelectByte, MainEndTimers2, MainEndDispatch,
                MainSelectOther, MainGoes, workerVars, cmdVars, chainVars
  <2>. QED
    BY <1>3, <2>1, UnansweredSame
<1>6. CASE DrainStarts
  <2>1. /\ UNCHANGED <<reqs, working, answered, sender>> /\ mpc' = "drain" /\ left' = bytes'
        /\ bytes' = IF bytes > RecvMax THEN bytes - RecvMax ELSE 0
    BY <1>6 DEF DrainStarts, MainRecv, MainGoes, workerVars
  <2>2. Unanswered' = Unanswered /\ Blocked' = Blocked
    BY <2>1, UnansweredSame DEF Blocked
  <2>3. U + Blocked <= C
    <3>1. ASSUME sender # Idle PROVE sending \in Obj \ Unanswered
      <4>1. sending \in Obj /\ At(sending, "send")
        BY <1>1, <3>1, AtIs
      <4>2. ~At(sending, "request") /\ ~At(sending, "query")
        BY <4>1 DEF PollInv, OnceEach, InOnePlace, Places
      <4>. QED
        BY <4>1, <4>2 DEF Unanswered
    <3>2. sender # Idle => U <= C - 1
      BY <3>1, UnansweredCounts
    <3> HIDE DEF U, C
    <3>. QED
      BY <1>1, <3>2
  <2> HIDE DEF U, C
  <2>4. bytes' \in Nat /\ bytes' + U + Blocked <= bytes' + C
    BY <1>1, <2>1, <2>3
  <2>. QED
    BY <2>1, <2>2, <2>4 DEF BytesFit, U, C
<1>7. CASE TakeAnswer
  <2>1. /\ UNCHANGED <<reqs, working, answered, bytes, sender, left>> /\ Inside
        /\ (cmdq # <<>> /\ mpc' = "callback") \/ (cmdq' = cmdq /\ cmdq = <<>> /\ mpc' = "dispatch")
    BY <1>7 DEF TakeAnswer, MainPop, MainGoes, workerVars
  <2>2. Unanswered' = Unanswered /\ Blocked' = Blocked
    BY <2>1, UnansweredSame DEF Blocked
  <2> HIDE DEF U, C
  <2>3. bytes + U + Blocked <= left + C /\ bytes <= left + C
    BY <1>1, <1>2, <2>1
  <2>. QED
    BY <1>1, <2>1, <2>2, <2>3 DEF BytesFit, U, C
<1>8. CASE Rearm
  BY <1>3, <1>8, UnansweredSame DEF Rearm, MainEndCallback, MainGoes, workerVars, cmdVars
<1>9. ASSUME NEW o \in Obj, TimerFires(o) PROVE BytesFit'
  <2>1. UNCHANGED <<bytes, cmdq, sender, mpc, left>> /\ ~Inside
    BY <1>9 DEF TimerFires, SendAsyncAction, cmdVars, mainVars
  <2>. QED
    BY <1>1, <1>2, <2>1 DEF BytesFit
<1>10. ASSUME NEW t \in Thread, SpuriousWakeup(t), UNCHANGED chainVars PROVE BytesFit'
  BY <1>3, <1>10, UnansweredSame DEF SpuriousWakeup, cmdVars, mainVars, chainVars
<1>11. CASE UNCHANGED pollVars
  BY <1>3, <1>11, UnansweredSame DEF pollVars, vars, workerVars, cmdVars, mainVars,
       chainVars
<1>. QED
  BY <1>4, <1>5, <1>6, <1>7, <1>8, <1>9, <1>10, <1>11 DEF PollingNext, MainRuns,
       SelectTimeout

(* Between two recv() of the main thread the wake-up socket gains no more  *)
(* than one byte for each chain and one for the answer that ends the next  *)
(* select(), however many chains there are for the bytes one recv() takes. *)
(* A worker is blocked in send(), with CCmdOpt's m_mutex held, only on a   *)
(* backlog that earlier passes left.                                       *)
THEOREM WakeupBytesGrowSlowly ==
  ASSUME IsFiniteSet(Obj) PROVE PollingSpec => []WakeupsBounded
<1>1. PollingInit => PollInv /\ BytesFit
  BY InitPollInv, InitBytesFit
<1>2. PollInv /\ BytesFit /\ [PollingNext]_pollVars => PollInv' /\ BytesFit'
  BY NextPollInv, NextBytesFit
<1>3. PollInv /\ BytesFit => WakeupsBounded
  <2> SUFFICES ASSUME PollInv, BytesFit PROVE WakeupsBounded
    OBVIOUS
  <2> DEFINE C == Cardinality(Obj)
             U == Cardinality(Unanswered)
  <2>1. /\ U \in Nat /\ C \in Nat /\ bytes \in Nat /\ left \in Nat /\ SockCap \in Nat
        /\ Blocked \in {0, 1} /\ (sender # Idle => cmdq = <<>>)
    BY UnansweredCounts, AsyncCallAssumption
       DEF PollInv, IInv, TypeOK, BlockedSender, BytesFit, Blocked
  <2>2. \/ bytes + U + Blocked <= left + C
        \/ bytes <= left + C + (IF cmdq = <<>> THEN 0 ELSE 1)
    BY DEF BytesFit
  <2> HIDE DEF U, C
  <2>3. bytes <= left + C + 1 /\ (cmdq = <<>> => bytes <= left + C)
    BY <2>1, <2>2
  <2>. QED
    BY <2>1, <2>3 DEF WakeupsBounded, C
<1>. QED
  BY <1>1, <1>2, <1>3, PTL DEF PollingSpec
=============================================================================
