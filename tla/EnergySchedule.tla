--------------------------- MODULE EnergySchedule ---------------------------
(***************************************************************************)
(* The energy schedule of the PEDEMS plug-in: once a second the main       *)
(* thread compares the last reported state of charge with its thresholds   *)
(* and commands the diesel generator and the photovoltaic inverters.  The  *)
(* report is a poll of the battery (SC5000) old, the commands wait in the  *)
(* request list of a worker thread each, and a Modbus write that fails is  *)
(* not noticed: only the next pass repeats it.                             *)
(***************************************************************************)
EXTENDS Integers, Sequences

CONSTANTS
  Soc,          \* the states of charge, 0 the lowest
  DgOn, DgOff,  \* threshold_dg_turnon, threshold_dg_turnoff
  PvOff, PvLimit, PvUnlimit,  \* threshold_pv_turn_off, threadhold_pv_limit, _unlimit
  Load,         \* the sums EnergySchedule() gets from the three GetPower()
  PvNum,        \* m_vec_pv.size()
  W16, W32,     \* 2^16 and 2^32, the ranges of a register and of UINT32
  MaxQueue,     \* bound: requests in the list of a worker
  MaxSwings     \* bound: how often the state of charge crosses a band

ASSUME ScheduleAssumption ==
  /\ Soc \subseteq Nat /\ 0 \in Soc
  /\ {DgOn, DgOff, PvOff, PvLimit, PvUnlimit} \subseteq Nat
  /\ DgOn <= DgOff /\ PvUnlimit <= PvLimit /\ PvLimit <= PvOff
  /\ W16 \in Nat \ {0} /\ W32 \in Nat \ {0} /\ W16 <= W32
  /\ Load \subseteq 0 .. W32 - 1
  /\ PvNum \in Nat \ {0}
  /\ MaxQueue \in Nat /\ MaxSwings \in Nat

VARIABLES
  soc,          \* the battery's own state of charge
  m_soc,        \* ESSData: the last one reported, 0 at first
  poll,         \* the critical-data poll: what is under way, and what it brings
  dieselReq,    \* the diesel's requests (DGTest, TURN_ON_OFF)
  running,      \* the diesel's register 1001
  pvReq,        \* an inverter's requests (SG1100, POWER_SET)
  limit,        \* the inverter's register 5039
  written,      \* history: what the last write to it was for
  starts,       \* history: how often the diesel was started
  released,     \* history: how often the production was allowed again
  low, full,    \* history: the band the charge left last
  dips, peaks   \* history: how often the charge went from one band to the other

plant == <<soc, low, full, dips, peaks>>
vars == <<plant, m_soc, poll, dieselReq, running, pvReq, limit, written, starts, released>>

Timer == [at |-> "timer"]
Asked == [at |-> "asked"]
Answered(s) == [at |-> "answered", soc |-> s]
Failed == [at |-> "failed"]

Init ==
  /\ soc \in Soc /\ m_soc = 0 /\ poll = Timer
  /\ dieselReq = <<>> /\ running = FALSE
  /\ pvReq = <<>> /\ limit = W16 - 1
  /\ written = [p |-> W16 - 1, for |-> "nothing"] /\ starts = 0 /\ released = 0
  /\ low = (soc < DgOn) /\ full = (soc > PvOff)
  /\ dips = 0 /\ peaks = 0
-----------------------------------------------------------------------------
(* The battery charges or discharges.  A dip leads from above DgOff to     *)
(* below DgOn, a peak from above PvOff to below PvLimit.                   *)
ChargeChanges(s) ==
  /\ soc' = s
  /\ low' = IF s < DgOn THEN TRUE ELSE IF s > DgOff THEN FALSE ELSE low
  /\ full' = IF s > PvOff THEN TRUE ELSE IF s < PvLimit THEN FALSE ELSE full
  /\ dips' = IF ~low /\ low' THEN dips + 1 ELSE dips
  /\ peaks' = IF full /\ ~full' THEN peaks + 1 ELSE peaks
  /\ dips' + peaks' <= MaxSwings
  /\ UNCHANGED <<m_soc, poll, dieselReq, running, pvReq, limit, written, starts, released>>

(* SC5000: ProcessTimeOutEvent() of TIMER_CRITICAL. *)
PollTimer ==
  /\ poll = Timer /\ poll' = Asked
  /\ UNCHANGED <<plant, m_soc, dieselReq, running, pvReq, limit, written, starts, released>>

(* SC5000: QueryCriticalData() in the worker; the state of charge is in    *)
(* the second of three reads, and the last one that was made counts.       *)
QueryAnswers ==
  /\ poll = Asked /\ poll' = Answered(soc)
  /\ UNCHANGED <<plant, m_soc, dieselReq, running, pvReq, limit, written, starts, released>>
QueryFails ==
  /\ poll = Asked /\ poll' = Failed
  /\ UNCHANGED <<plant, m_soc, dieselReq, running, pvReq, limit, written, starts, released>>

(* Mutant: does not poll again after an error. *)
OnQueryCriticalDataDies ==
  /\ poll.at = "answered"
  /\ m_soc' = poll.soc
  /\ poll' = Timer
  /\ UNCHANGED <<plant, dieselReq, running, pvReq, limit, written, starts, released>>
(* SC5000: onQueryCriticalData() in the main thread. *)
OnQueryCriticalData ==
  /\ poll.at \in {"answered", "failed"}
  /\ m_soc' = IF poll.at = "answered" THEN poll.soc ELSE m_soc
  /\ poll' = Timer
  /\ UNCHANGED <<plant, dieselReq, running, pvReq, limit, written, starts, released>>
-----------------------------------------------------------------------------
(* DieselManager::Start() and Stop(), with DGTest's TurnOnOrOff(). *)
SendDiesel(on) == dieselReq' = Append(dieselReq, on)

(* Mutant: one threshold for both. *)
ScheduleDieselOneThreshold ==
  IF m_soc < DgOn THEN SendDiesel(TRUE) ELSE SendDiesel(FALSE)
ScheduleDiesel ==
  CASE m_soc < DgOn  -> SendDiesel(TRUE)
    [] m_soc > DgOff -> SendDiesel(FALSE)
    [] OTHER         -> UNCHANGED dieselReq

(* PVDeviceManager::SetPower(), with SG1100's SetPower(), of UINT32. *)
Share(total) == (total % W32) \div PvNum
SendPv(total, what) == pvReq' = Append(pvReq, [p |-> Share(total), for |-> what])

(* Mutant: one threshold for limiting and stopping. *)
SchedulePvOneThreshold(load) ==
  CASE m_soc > PvOff     -> SendPv(0, "stop")
    [] m_soc < PvUnlimit -> SendPv(-1, "all")
    [] OTHER             -> SendPv(load, "load")
(* Mutant: trusts the command it sent last to have arrived. *)
SchedulePvOnce(load) ==
  CASE m_soc > PvOff /\ written.for # "stop" -> SendPv(0, "stop")
    [] m_soc < PvUnlimit /\ written.for = "stop" -> SendPv(-1, "all")
    [] PvUnlimit <= m_soc /\ m_soc < PvLimit -> SendPv(load, "load")
    [] OTHER             -> UNCHANGED pvReq
SchedulePv(load) ==
  CASE m_soc > PvOff     -> SendPv(0, "stop")
    [] m_soc < PvUnlimit -> SendPv(-1, "all")
    [] PvUnlimit <= m_soc /\ m_soc < PvLimit -> SendPv(load, "load")
    [] OTHER             -> UNCHANGED pvReq

(* EnergySchedule() *)
EnergySchedule ==
  /\ Len(dieselReq) < MaxQueue /\ Len(pvReq) < MaxQueue
  /\ ScheduleDiesel
  /\ \E load \in Load : SchedulePv(load)
  /\ UNCHANGED <<plant, m_soc, poll, running, limit, written, starts, released>>
-----------------------------------------------------------------------------
(* DGTest: DoAsyncAction() of TURN_ON_OFF; the result of the write is      *)
(* dropped.                                                                *)
DieselWrite ==
  /\ dieselReq # <<>>
  /\ running' = Head(dieselReq) /\ dieselReq' = Tail(dieselReq)
  /\ starts' = IF ~running /\ running' THEN starts + 1 ELSE starts
  /\ UNCHANGED <<plant, m_soc, poll, pvReq, limit, written, released>>
DieselWriteFails ==
  /\ dieselReq # <<>> /\ dieselReq' = Tail(dieselReq)
  /\ UNCHANGED <<plant, m_soc, poll, running, pvReq, limit, written, starts, released>>

(* SG1100: DoAsyncAction() of POWER_SET: the register has 16 bits. *)
Register(p) == p % W16
PvWrite ==
  /\ pvReq # <<>>
  /\ limit' = Register(Head(pvReq).p) /\ pvReq' = Tail(pvReq)
  /\ written' = Head(pvReq)
  /\ released' = IF written.for = "stop" /\ written'.for # "stop" THEN released + 1 ELSE released
  /\ UNCHANGED <<plant, m_soc, poll, dieselReq, running, starts>>
PvWriteFails ==
  /\ pvReq # <<>> /\ pvReq' = Tail(pvReq)
  /\ UNCHANGED <<plant, m_soc, poll, dieselReq, running, limit, written, starts, released>>

Next ==
  \/ \E s \in Soc \ {soc} : ChargeChanges(s)
  \/ PollTimer \/ QueryAnswers \/ QueryFails \/ OnQueryCriticalData
  \/ EnergySchedule
  \/ DieselWrite \/ DieselWriteFails \/ PvWrite \/ PvWriteFails

(* Timers and threads run; a device that is asked again and again answers  *)
(* again and again.                                                        *)
Fairness ==
  /\ WF_vars(PollTimer) /\ WF_vars(QueryAnswers \/ QueryFails)
  /\ SF_vars(QueryAnswers) /\ WF_vars(OnQueryCriticalData)
  /\ WF_vars(EnergySchedule)
  /\ WF_vars(DieselWrite \/ DieselWriteFails) /\ SF_vars(DieselWrite)
  /\ WF_vars(PvWrite \/ PvWriteFails) /\ SF_vars(PvWrite)

Spec == Init /\ [][Next]_vars /\ Fairness
-----------------------------------------------------------------------------
(* The hysteresis holds end to end, whatever is late or lost: the diesel   *)
(* starts again only as often as the charge really fell from above DgOff   *)
(* to below DgOn.  (One start more: m_soc is 0 before the first answer.)   *)
DieselDoesNotChatter == starts <= 1 + dips

(* Production is allowed again only as often as the charge really fell     *)
(* from above PvOff to below PvLimit.                                      *)
PvDoesNotChatter == released <= peaks

(* Both: every start and every release is owed to a swing of the charge. *)
DoesNotChatter == DieselDoesNotChatter /\ PvDoesNotChatter

(* However many writes are lost, a low battery gets the diesel to run and  *)
(* a charged one to stop.                                                  *)
DieselFollows ==
  /\ <>[](soc < DgOn) => <>[]running
  /\ <>[](soc > DgOff) => <>[]~running

(* However many writes are lost, a full battery stops the production, and  *)
(* one with room gets all of it.                                           *)
PvFollows ==
  /\ <>[](soc > PvOff) => <>[](limit = 0)
  /\ <>[](soc < PvUnlimit) => <>[](limit = Register(Share(-1)))

(* Both: the plant does what the state of charge asks for. *)
Follows == DieselFollows /\ PvFollows
=============================================================================
