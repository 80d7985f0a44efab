----------------------------- MODULE EssDrivers -----------------------------
(***************************************************************************)
(* The drivers of ESSEMS for its meter, its battery (BCMU) and its cooler. *)
(* Each chain of queries goes timer, request, answer, timer; the cooler    *)
(* asks for another of three blocks in each round.  The meter's thread     *)
(* serves the cooler, too.                                                 *)
(***************************************************************************)
EXTENDS Integers, Sequences, FiniteSets

CONSTANTS
  MaxWaiting  \* bound: the length of a thread's list

ASSUME EssDriversAssumption == MaxWaiting \in Nat

Chain == {"realtime", "ordinary", "basic", "nominal", "cooler"}
EssThread == {"METER_THREAD", "BCMU_THREAD"}
ThreadOf(c) == IF c \in {"basic", "nominal"} THEN "BCMU_THREAD" ELSE "METER_THREAD"
CoolerBlock == 0 .. 2
Unread == -1

VARIABLES
  armed,         \* the chains whose timer is active
  lists,          \* each thread's list
  answers,       \* the list of the main thread
  nominal_step,  \* m_n_query_step of TestBcmu, which no constructor sets
  step,          \* m_n_query_step of TestLiquidCooler
  buffer,        \* the block that its m_modbus_query_data holds
  shown,         \* what was published as data of a block: Unread or a block
  failed         \* history: the blocks whose query has failed

cooler == <<step, buffer, shown, failed>>
essVars == <<armed, lists, answers, nominal_step, cooler>>

(* All devices have been started. *)
EssInit ==
  /\ armed = Chain
  /\ lists = [t \in EssThread |-> <<>>] /\ answers = <<>>
  /\ nominal_step \in 0 .. 2
  /\ step = 0 /\ buffer = Unread
  /\ shown = [b \in CoolerBlock |-> Unread] /\ failed = {}
-----------------------------------------------------------------------------
SendAsyncAction(c, t) ==
  /\ Len(lists[t]) < MaxWaiting
  /\ lists' = [lists EXCEPT ![t] = Append(@, c)]

EssTimeOutEvent(c) ==
  /\ c \in armed /\ armed' = armed \ {c}
  /\ SendAsyncAction(c, ThreadOf(c))
  /\ UNCHANGED <<answers, nominal_step, cooler>>

(* TestBcmu::PowerOnOrOff(): its request stands between those of chains. *)
PowerOnOrOff ==
  /\ SendAsyncAction("power", "BCMU_THREAD")
  /\ UNCHANGED <<armed, answers, nominal_step, cooler>>

(* EssAsyncAction(): the power command has no answer, nor has a query at a  *)
(* step that its switch does not know.                                     *)
Answered(c) ==
  CASE c = "power"   -> FALSE
    [] c = "nominal" -> nominal_step \in {0, 1}
    [] c = "cooler"  -> step \in CoolerBlock
    [] OTHER         -> TRUE

(* libmodbus leaves the buffer alone if it fails; the result is not sent   *)
(* (TestMeter) or not looked at.                                           *)
EssAsyncAction(t) ==
  /\ lists[t] # <<>>
  /\ lists' = [lists EXCEPT ![t] = Tail(@)]
  /\ LET c == Head(lists[t]) IN
       /\ answers' = IF Answered(c) THEN Append(answers, c) ELSE answers
       /\ IF c = "cooler" /\ Answered(c)
          THEN \/ buffer' = step /\ UNCHANGED failed
               \/ failed' = failed \cup {step} /\ UNCHANGED buffer
          ELSE UNCHANGED <<buffer, failed>>
  /\ UNCHANGED <<armed, nominal_step, step, shown>>

(* Mutant: another chain has no case in its driver's switch. *)
RearmedButOrdinary(c) == {c} \ {"nominal", "ordinary"}
(* EssSyncAction() of TestBcmu has no case for the nominal chain. *)
Rearmed(c) == {c} \ {"nominal"}

(* OnQueryDataResp(): nobody looks at whether the query has failed; the    *)
(* block in between has nothing that is published.                         *)
BlockPublished(s) == IF s \in {0, 2} THEN [shown EXCEPT ![s] = buffer] ELSE shown

(* The handler of the cooler's last block sends its answer once more.      *)
EssSyncAction ==
  /\ answers # <<>>
  /\ armed' = armed \cup Rearmed(Head(answers))
  /\ IF Head(answers) = "cooler"
     THEN /\ shown' = BlockPublished(step % 5) /\ step' = step + 1
          /\ answers' = Tail(answers) \o (IF step % 5 = 2 THEN <<"cooler">> ELSE <<>>)
     ELSE answers' = Tail(answers) /\ UNCHANGED <<shown, step>>
  /\ UNCHANGED <<lists, nominal_step, buffer, failed>>

EssNext ==
  \/ \E c \in Chain : EssTimeOutEvent(c)
  \/ PowerOnOrOff
  \/ \E t \in EssThread : EssAsyncAction(t)
  \/ EssSyncAction

EssSpec == EssInit /\ [][EssNext]_essVars
-----------------------------------------------------------------------------
Tokens(c) ==
  Cardinality({c} \cap armed)
  + Cardinality({n \in DOMAIN answers : answers[n] = c})
  + Cardinality({n \in DOMAIN lists[ThreadOf(c)] : lists[ThreadOf(c)][n] = c})

(* A chain is in one place: a second one would double its queries, none    *)
(* would end them.  Two chains do end: that of the battery's nominal data  *)
(* after its first round, and that of the cooler after its third, when the *)
(* step counts on and the switch of the request knows no more than three.  *)
ChainsAreSingle ==
  \A c \in Chain :
    /\ Tokens(c) = 0 => c = "nominal" \/ (c = "cooler" /\ step > 3)
    /\ Tokens(c) > 1 => c = "cooler" /\ step > 2

(* What is published as data of a block was read as that block, but for    *)
(* a block whose query has failed: then it is what the buffer had.         *)
CoolerShowsItsBlocks ==
  \A b \in CoolerBlock : shown[b] \in {b, Unread} \/ b \in failed

(* TestMeter, TestBcmu, TestLiquidCooler: chains of queries go on, singly, *)
(* and TestLiquidCooler::OnQueryDataResp() publishes a block as that block.*)
ChainsGoOn == ChainsAreSingle /\ CoolerShowsItsBlocks
=============================================================================
