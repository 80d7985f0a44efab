----------------------------- MODULE PcsControl -----------------------------
(***************************************************************************)
(* Power control of the ESSEMS storage cabinet.  Every 180 ms the schedule *)
(* (TOU) calls IACESEMS::SetPower(), which closes the battery's contactors,*)
(* switches the inverter (PCS) on or off and sets its power.  The driver   *)
(* TestPcs supervises switching on and off with a timer each, which repeat *)
(* the command until the work state it polls agrees, and two chains of     *)
(* queries write that work state, each with a code of its own.             *)
(***************************************************************************)
EXTENDS Integers, Sequences

CONSTANTS
  Powers,   \* the powers the schedule asks for; positive ones discharge
  Limits,   \* what GetMaxChargePower() and GetMaxDisChargePower() may return
  MaxReqs   \* bound: the length of the list of the worker of the PCS

ASSUME PcsControlAssumption ==
  Powers \subseteq Int /\ 0 \in Powers /\ Limits \subseteq Nat /\ MaxReqs \in Nat

(* RUNSTATE, and the codes of the inverter's register 0x6057. *)
TURNON  == 0
TURNOFF == 1
Stopped  == 0
Starting == 1
Running  == 3
Closing  == 5

VARIABLES
  inverter,    \* register 0x6057
  contactor,   \* the battery's contactors as the BCMU driver has polled them last
  plan,        \* the power SetPower() was called with last
  set_power,   \* m_set_power
  work_state,  \* m_pcs_data->m_u16_work_state
  opening,     \* m_timer_open_pcs is active
  closing,     \* m_timer_close_pcs is active
  waiting,     \* the chains whose query is under way: their timer is not active
  reqs,        \* the worker's list of requests
  acks         \* its answers that are not handled yet

vars == <<inverter, contactor, plan, set_power, work_state, opening, closing,
          waiting, reqs, acks>>

Chains == {"realtime", "ordinary"}
Command(c) == [cmd |-> c]
SetActivePower(p) == [cmd |-> "power", power |-> p]

(* The data of the devices are in a block of memory nobody initialises. *)
Init ==
  /\ inverter = Stopped /\ contactor \in {"open", "both", "closed"}
  /\ plan = 0 /\ set_power = 0 /\ work_state \in {TURNON, TURNOFF, Running}
  /\ opening = FALSE /\ closing = FALSE
  /\ waiting = {}
  /\ reqs = <<>> /\ acks = <<>>
-----------------------------------------------------------------------------
(* The worker's list: what a handler of the main thread sends, in order. *)
Send(requests) ==
  /\ Len(reqs \o requests) <= MaxReqs
  /\ reqs' = reqs \o requests

(* Mutant: the power is stored after the test. *)
StoreWhenOn(p) == set_power' = IF work_state = TURNON THEN p ELSE set_power
(* TestPcs::SetP(): the power is kept even if it cannot be sent now. *)
Store(p) == set_power' = p
PowerRequest(p) == IF work_state = TURNON THEN <<SetActivePower(p)>> ELSE <<>>

(* TestPcs::PowerOnOrOff(): not if the inverter seems to be in that state, *)
(* nor if that switching is supervised already.  The other supervision     *)
(* goes on.                                                                *)
MustTurnOn  == work_state # TURNON /\ ~opening
MustTurnOff == work_state # TURNOFF /\ ~closing

(* IACESEMS::SetPower() with 0, or during a fault of the system. *)
SetPowerZero ==
  /\ plan' = 0 /\ Store(0)
  /\ Send(PowerRequest(0) \o IF MustTurnOff THEN <<Command("off")>> ELSE <<>>)
  /\ closing' = (closing \/ MustTurnOff)
  /\ UNCHANGED <<contactor, opening>>

(* ... with the main contactor open: the BCMU is told to close it. *)
SetPowerOpen(p) ==
  /\ p # 0 /\ plan' = p
  /\ contactor \in {"open", "asked"} /\ contactor' = "asked"
  /\ Store(0) /\ Send(PowerRequest(0))
  /\ UNCHANGED <<opening, closing>>

(* ... with the contactor of the precharging still closed. *)
SetPowerPrecharge(p) ==
  /\ p # 0 /\ plan' = p /\ contactor = "both"
  /\ UNCHANGED <<contactor, set_power, opening, closing, reqs>>

(* ... with an inverter that is not seen running. *)
SetPowerTurnOn(p) ==
  /\ p # 0 /\ plan' = p /\ contactor = "closed" /\ work_state # TURNON
  /\ Send(IF MustTurnOn THEN <<Command("on")>> ELSE <<>>)
  /\ opening' = TRUE
  /\ UNCHANGED <<contactor, set_power, closing>>

(* ... and with one that is: within what the battery allows. *)
Limited(p, max) == IF p < -max THEN -max ELSE IF p > max THEN max ELSE p
SetPowerRunning(p) ==
  /\ p # 0 /\ plan' = p /\ contactor = "closed" /\ work_state = TURNON
  /\ \E max \in Limits : Store(Limited(p, max)) /\ Send(PowerRequest(Limited(p, max)))
  /\ UNCHANGED <<contactor, opening, closing>>

(* TOU::CalPower(), by both of its timers. *)
CalPower ==
  /\ \/ SetPowerZero
     \/ \E p \in Powers : \/ SetPowerOpen(p) \/ SetPowerPrecharge(p)
                          \/ SetPowerTurnOn(p) \/ SetPowerRunning(p)
  /\ UNCHANGED <<inverter, work_state, waiting, acks>>

(* TestPcs::ProcessTimeOutEvent(): opening. *)
OpeningFires ==
  /\ opening
  /\ \/ /\ work_state = TURNON /\ opening' = FALSE
        /\ Store(set_power) /\ Send(PowerRequest(set_power))
     \/ /\ work_state # TURNON /\ Send(<<Command("on")>>)
        /\ UNCHANGED <<set_power, opening>>
  /\ UNCHANGED <<inverter, contactor, plan, work_state, closing, waiting, acks>>

(* Mutant: the timer is started again, the command not sent again. *)
ClosingFiresSilently ==
  /\ closing
  /\ closing' = (work_state # TURNOFF)
  /\ set_power' = IF closing' THEN set_power ELSE 0
  /\ UNCHANGED <<inverter, contactor, plan, work_state, opening, waiting, reqs, acks>>
(* Closing. *)
ClosingFires ==
  /\ closing
  /\ \/ /\ work_state = TURNOFF /\ closing' = FALSE
        /\ Store(0) /\ UNCHANGED reqs
     \/ /\ work_state # TURNOFF /\ Send(<<Command("off")>>)
        /\ UNCHANGED <<set_power, closing>>
  /\ UNCHANGED <<inverter, contactor, plan, work_state, opening, waiting, acks>>

QueryFires(chain) ==
  /\ chain \notin waiting /\ waiting' = waiting \cup {chain}
  /\ Send(<<Command(chain)>>)
  /\ UNCHANGED <<inverter, contactor, plan, set_power, work_state, opening, closing,
                 acks>>
-----------------------------------------------------------------------------
(* TestPcs::DoAsyncAction(), in the worker.  Any access may fail, and the  *)
(* result of a write is ignored.                                           *)
Turned(cmd) ==
  CASE cmd = "on"  /\ inverter = Stopped -> Starting
    [] cmd = "off" /\ inverter \in {Starting, Running} -> Closing
    [] OTHER -> inverter

Write(done) ==
  /\ reqs # <<>> /\ Head(reqs).cmd \in {"on", "off", "power"}
  /\ reqs' = Tail(reqs)
  /\ inverter' = IF done THEN Turned(Head(reqs).cmd) ELSE inverter
  /\ UNCHANGED <<contactor, plan, set_power, work_state, opening, closing, waiting, acks>>

(* A query of the ordinary chain reads one of four blocks in turn; Nothing *)
(* stands for a read that failed and for the blocks without the register.  *)
Nothing == -1
Answer(chain, s) == [cmd |-> chain, state |-> s]
Query(chain, s) ==
  /\ reqs # <<>> /\ Head(reqs) = Command(chain)
  /\ reqs' = Tail(reqs) /\ acks' = Append(acks, Answer(chain, s))
  /\ UNCHANGED <<inverter, contactor, plan, set_power, work_state, opening, closing,
                 waiting>>
QuerySucceeds(chain) == Query(chain, inverter)
QueryFails(chain)    == Query(chain, Nothing)
-----------------------------------------------------------------------------
(* TestPcs::DoSyncAction(): the chain's timer is started again in any      *)
(* case, and the register is the new work state.  The power is set while   *)
(* the old state is in place: nothing is sent for one that begins to run.  *)
Published(ack) ==
  IF ack.state = Nothing THEN work_state
  ELSE IF ack.cmd = "realtime" THEN ack.state
  ELSE IF ack.state % 2 = 1 THEN TURNON ELSE TURNOFF

OnAnswer ==
  /\ acks # <<>> /\ acks' = Tail(acks)
  /\ LET ack == Head(acks)
         off == ack.cmd = "realtime" /\ Published(ack) # work_state /\ Published(ack) = TURNOFF IN
       /\ work_state' = Published(ack)
       /\ Store(IF off THEN 0 ELSE set_power)
       /\ Send(IF off THEN PowerRequest(0) ELSE <<>>)
       /\ waiting' = waiting \ {ack.cmd}
  /\ UNCHANGED <<inverter, contactor, plan, opening, closing>>
-----------------------------------------------------------------------------
(* The devices: switching takes time, and the battery opens its contactors *)
(* when it must.                                                           *)
InverterMoves ==
  /\ \/ inverter = Starting /\ inverter' = Running
     \/ inverter = Closing /\ inverter' = Stopped
  /\ UNCHANGED <<contactor, plan, set_power, work_state, opening, closing, waiting,
                 reqs, acks>>
BatteryMoves ==
  /\ \/ contactor = "asked" /\ contactor' = "both"
     \/ contactor = "both" /\ contactor' = "closed"
     \/ contactor = "closed" /\ contactor' = "open"
  /\ UNCHANGED <<inverter, plan, set_power, work_state, opening, closing, waiting,
                 reqs, acks>>

Next ==
  \/ CalPower \/ OpeningFires \/ ClosingFires
  \/ \E chain \in Chains : QueryFires(chain)
  \/ \E done \in BOOLEAN : Write(done)
  \/ \E chain \in Chains : QuerySucceeds(chain) \/ QueryFails(chain)
  \/ OnAnswer
  \/ InverterMoves \/ BatteryMoves

Work == (\E done \in BOOLEAN : Write(done))
    \/ \E chain \in Chains : QueryFails(chain) \/ QuerySucceeds(chain)

(* Timers fire, threads run and the inverter obeys.  A line that works     *)
(* now and then lets a write and a query through now and then; the bound   *)
(* of the list is not the program's, hence the strong fairness of what     *)
(* sends.                                                                  *)
Fairness ==
  /\ SF_vars(CalPower) /\ SF_vars(OpeningFires) /\ SF_vars(ClosingFires)
  /\ SF_vars(QueryFires("realtime"))
  /\ WF_vars(Work) /\ WF_vars(OnAnswer)
  /\ SF_vars(Write(TRUE) /\ Head(reqs).cmd = "off") /\ SF_vars(QuerySucceeds("realtime"))
  /\ WF_vars(InverterMoves)

Spec == Init /\ [][Next]_vars /\ Fairness
-----------------------------------------------------------------------------
(* Once the schedule has asked for zero, no power is sent that was asked   *)
(* for before: not by the supervision of an opening, not by a late answer. *)
NoStalePower ==
  [][\A n \in DOMAIN reqs' :
       n > Len(reqs) /\ reqs'[n].cmd = "power" /\ reqs'[n].power # 0 => plan' # 0]_vars

(* If the schedule asks for zero from some time on, the inverter stops for *)
(* good, although commands and samples are lost.  The exception: an        *)
(* opening is supervised for ever, since each time its timer fires the     *)
(* work state is not TURNON; then the two supervisions command the         *)
(* inverter on and off in turn.                                            *)
ZeroPlanStops ==
  <>[](plan = 0) => <>[](inverter = Stopped) \/ <>[]opening
=============================================================================
