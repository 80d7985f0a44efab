----------------------------- MODULE TimeOfUse -----------------------------
(***************************************************************************)
(* The time-of-use schedule of ESSEMS: a timer looks each second which     *)
(* power the table has for this minute, another corrects that power every  *)
(* 180 ms by what flows through the meter of the grid.  A positive power   *)
(* discharges the battery; powers are in units of which a half is exact.   *)
(***************************************************************************)
EXTENDS Integers, Sequences

CONSTANTS
  Day,           \* minutes of a day
  Tou,           \* m_sz_tou: [from, to : minutes, power]
  Grid,          \* what the meter of the grid may show, even numbers
  Antibackflow,  \* m_u16_power_antibackflow, even
  Demand,        \* m_u16_power_demand, even
  Soc,           \* states of charge
  MinSoc, MaxSoc,
  Unset,       \* what m_demand may be at the start: no constructor sets it
  MaxWindup      \* bound: of the two corrections

ASSUME TimeOfUseAssumption ==
  /\ Day \in Nat \ {0} /\ 0 \in Grid
  /\ Tou \in Seq([from : Nat, to : Nat, power : Int])
  /\ \A s \in {Grid, Soc, Unset} : s \subseteq Int
  /\ {Antibackflow, Demand, MinSoc, MaxSoc, MaxWindup} \subseteq Int

VARIABLES
  now,                     \* the minute
  grid, soc,               \* the data of the meter and of the battery
  pv_consume,              \* m_pFunAntibackflow is ConsumePv, not NotConsumePv
  demand_dynamic,          \* m_pFunDemand is ConsumDemand
  m_tou_power,
  m_antibackflow, m_demand,
  power                    \* what SetPower() was called with last

devices == <<now, grid, soc>>
modes == <<pv_consume, demand_dynamic>>
touVars == <<devices, modes, m_tou_power, m_antibackflow, m_demand, power>>

(* The constructor takes the modes from data that nobody has set. *)
TouInit ==
  /\ now = 0 /\ grid = 0 /\ soc \in Soc
  /\ pv_consume \in BOOLEAN /\ demand_dynamic \in BOOLEAN
  /\ m_tou_power = 0 /\ m_antibackflow = 0 /\ m_demand \in Unset
  /\ power = 0
-----------------------------------------------------------------------------
Half(x) == x \div 2
AtMost(x, y) == IF x <= y THEN x ELSE y
AtLeast(x, y) == IF x >= y THEN x ELSE y

ConsumePv == AtMost(m_antibackflow + Half(grid - Antibackflow), 0)
(* Mutant: the correction is not limited by the plan. *)
NotConsumePvUnlimited(tou) == IF tou <= 0 THEN 0 ELSE ConsumePv
NotConsumePv(tou) == IF tou <= 0 THEN 0 ELSE AtLeast(ConsumePv, -tou)

ConsumDemand == AtLeast(m_demand + Half(grid - Demand), 0)
NotConsumDemand(tou) == IF tou >= 0 THEN 0 ELSE AtMost(ConsumDemand, -tou)

(* The discharge is cut off by the minimum as the charge is by the maximum. *)
CutOff(p) ==
  IF (p < 0 /\ soc >= MaxSoc) \/ (p > 0 /\ soc >= MinSoc) THEN 0 ELSE p

TouCalPower(tou) ==
  /\ m_antibackflow' = IF pv_consume THEN ConsumePv ELSE NotConsumePv(tou)
  /\ m_demand' = IF demand_dynamic THEN ConsumDemand ELSE NotConsumDemand(tou)
  /\ m_antibackflow' >= -MaxWindup /\ m_demand' <= MaxWindup
  /\ power' = CutOff(tou + m_antibackflow' + m_demand')

(* The first entry whose time it is, both its ends included. *)
Matches(i) == Tou[i].from <= now /\ now <= Tou[i].to
First == {i \in DOMAIN Tou : Matches(i) /\ \A j \in 1 .. i - 1 : ~Matches(j)}
Planned == IF First = {} THEN 0 ELSE Tou[CHOOSE i \in First : TRUE].power

TouTimer ==
  /\ Planned # m_tou_power
  /\ m_tou_power' = Planned /\ TouCalPower(Planned)
  /\ UNCHANGED <<devices, modes>>

GridPowerMonitorTimer ==
  /\ TouCalPower(m_tou_power)
  /\ UNCHANGED <<devices, modes, m_tou_power>>

(* A minute passes, or the devices publish data. *)
DevicesMove ==
  /\ \/ now' = (now + 1) % Day /\ UNCHANGED <<grid, soc>>
     \/ grid' \in Grid /\ UNCHANGED <<now, soc>>
     \/ soc' \in Soc /\ UNCHANGED <<now, grid>>
  /\ UNCHANGED <<modes, m_tou_power, m_antibackflow, m_demand, power>>

TouNext == TouTimer \/ GridPowerMonitorTimer \/ DevicesMove

TouSpec == TouInit /\ [][TouNext]_touVars
-----------------------------------------------------------------------------
Between(p, q) == IF q >= 0 THEN 0 <= p /\ p <= q ELSE q <= p /\ p <= 0

(* Unless a dynamic mode is on, the corrections take away from the planned *)
(* power and never turn it round, whatever the meter has shown, whatever   *)
(* was planned before, whatever m_demand was.                              *)
WithinPlan ==
  /\ ~pv_consume /\ ~demand_dynamic => Between(power, m_tou_power)
  /\ ~pv_consume /\ m_tou_power > 0 => power >= 0
  /\ ~demand_dynamic /\ m_tou_power < 0 => power <= 0

(* The battery is not discharged at or below its minimum (EMSDevice.h:     *)
(* m_u16_minsoc is the minimum of the time-of-use schedule).               *)
KeepsMinSoc == [][power' # power /\ power' > 0 => soc > MinSoc]_touVars
=============================================================================
