---------------------------- MODULE EssemsProofs ----------------------------
(***************************************************************************)
(* ESSEMS: no power older than a plan of zero is sent to the inverter; the *)
(* time-of-use schedule keeps its power within the plan; the chains of     *)
(* queries stay single, and the cooler's data are shown for what they are. *)
(* For any powers, limits, tables and readings and lists of any length.    *)
(***************************************************************************)
EXTENDS PcsControl, TimeOfUse, EssDrivers, SequenceTheorems, FiniteSetTheorems, TLAPS

Request == [cmd : {"on", "off"} \cup Chains] \cup [cmd : {"power"}, power : Int]

TypeOK ==
  /\ plan \in Int /\ set_power \in Int
  /\ reqs \in Seq(Request)

(* Why the late senders of set_power, the supervision of an opening and    *)
(* the answer of a query, send nothing old.                                *)
ZeroIsStored == plan = 0 => set_power = 0

IInv == TypeOK /\ ZeroIsStored

(* What NoStalePower says of a step. *)
Fresh(r) == r.cmd = "power" /\ r.power # 0 => plan' # 0
SendsNothingStale ==
  \A n \in DOMAIN reqs' :
    n > Len(reqs) /\ reqs'[n].cmd = "power" /\ reqs'[n].power # 0 => plan' # 0

LEMMA RequestTypes ==
  /\ \A c \in {"on", "off"} \cup Chains : Command(c) \in Request
  /\ \A p \in Int : SetActivePower(p) \in Request
BY DEF Request, Command, SetActivePower

(* What is sent is typed and not stale if each of its requests is. *)
LEMMA SendKeeps ==
  ASSUME reqs \in Seq(Request), NEW requests \in Seq(Request), Send(requests),
         \A n \in 1 .. Len(requests) : Fresh(requests[n])
  PROVE  reqs' \in Seq(Request) /\ SendsNothingStale
<1>1. reqs' = reqs \o requests
  BY DEF Send
<1>2. reqs' \in Seq(Request) /\ Len(reqs') = Len(reqs) + Len(requests)
  BY <1>1, ConcatProperties
<1>3. ASSUME NEW n \in DOMAIN reqs', n > Len(reqs) PROVE Fresh(reqs'[n])
  <2>1. n - Len(reqs) \in 1 .. Len(requests)
    BY <1>2, <1>3, LenProperties
  <2>2. reqs'[n] = requests[n - Len(reqs)]
    BY <1>1, <1>2, <1>3, ConcatProperties
  <2>. QED
    BY <2>1, <2>2
<1>. QED
  BY <1>2, <1>3 DEF Fresh, SendsNothingStale

(* The list only gets shorter, or stays. *)
LEMMA TakeKeeps ==
  ASSUME reqs \in Seq(Request),
         reqs' = reqs \/ (reqs # <<>> /\ reqs' = Tail(reqs))
  PROVE  reqs' \in Seq(Request) /\ SendsNothingStale
<1>1. reqs' \in Seq(Request) /\ Len(reqs') <= Len(reqs)
  BY LenProperties, HeadTailProperties
<1>. QED
  BY <1>1, LenProperties DEF SendsNothingStale

LEMMA PowerRequestFresh ==
  ASSUME NEW p \in Int, p = 0 \/ plan' # 0
  PROVE  /\ PowerRequest(p) \in Seq(Request)
         /\ Len(PowerRequest(p)) \in {0, 1}
         /\ \A n \in 1 .. Len(PowerRequest(p)) : Fresh(PowerRequest(p)[n])
BY RequestTypes DEF PowerRequest, SetActivePower, Fresh

LEMMA CommandFresh ==
  ASSUME NEW c \in {"on", "off"} \cup Chains
  PROVE  /\ <<Command(c)>> \in Seq(Request)
         /\ Fresh(Command(c))
BY RequestTypes DEF Command, Fresh, Chains

LEMMA CalPowerKeeps ==
  ASSUME IInv, CalPower
  PROVE  IInv' /\ SendsNothingStale
<1>. USE PcsControlAssumption
<1>1. CASE SetPowerZero
  <2>. DEFINE off == IF MustTurnOff THEN <<Command("off")>> ELSE <<>>
              sent == PowerRequest(0) \o off
  <2>1. plan' = 0 /\ set_power' = 0 /\ Send(sent)
    BY <1>1 DEF SetPowerZero, Store
  <2>2. /\ PowerRequest(0) \in Seq(Request)
        /\ \A n \in 1 .. Len(PowerRequest(0)) : Fresh(PowerRequest(0)[n])
    BY PowerRequestFresh
  <2>3. /\ off \in Seq(Request) /\ \A n \in 1 .. Len(off) : Fresh(off[n])
    BY CommandFresh
  <2>4. sent \in Seq(Request) /\ \A n \in 1 .. Len(sent) : Fresh(sent[n])
    <3>. HIDE DEF off
    <3>1. sent \in Seq(Request) /\ Len(sent) = Len(PowerRequest(0)) + Len(off)
      BY <2>2, <2>3, ConcatProperties
    <3>2. ASSUME NEW n \in 1 .. Len(sent) PROVE Fresh(sent[n])
      <4>1. CASE n <= Len(PowerRequest(0))
        <5>1. sent[n] = PowerRequest(0)[n] /\ n \in 1 .. Len(PowerRequest(0))
          BY <2>2, <2>3, <3>1, <4>1, ConcatProperties, LenProperties
        <5>. QED
          BY <2>2, <5>1
      <4>2. CASE n > Len(PowerRequest(0))
        <5>1. /\ sent[n] = off[n - Len(PowerRequest(0))]
              /\ n - Len(PowerRequest(0)) \in 1 .. Len(off)
          BY <2>2, <2>3, <3>1, <4>2, ConcatProperties, LenProperties
        <5>. QED
          BY <2>3, <5>1
      <4>. QED
        BY <2>2, <4>1, <4>2, LenProperties
    <3>. QED
      BY <3>1, <3>2
  <2>5. reqs' \in Seq(Request) /\ SendsNothingStale
    <3>. HIDE DEF sent
    <3>. QED
      BY <2>1, <2>4, SendKeeps DEF IInv, TypeOK
  <2>. QED
    BY <2>1, <2>5 DEF IInv, TypeOK, ZeroIsStored
<1>2. ASSUME NEW p \in Powers, SetPowerOpen(p)
      PROVE  IInv' /\ SendsNothingStale
  <2>1. plan' = p /\ p # 0 /\ set_power' = 0 /\ Send(PowerRequest(0))
    BY <1>2 DEF SetPowerOpen, Store
  <2>2. reqs' \in Seq(Request) /\ SendsNothingStale
    BY <2>1, PowerRequestFresh, SendKeeps DEF IInv, TypeOK
  <2>. QED
    BY <2>1, <2>2 DEF IInv, TypeOK, ZeroIsStored
<1>3. ASSUME NEW p \in Powers, SetPowerPrecharge(p)
      PROVE  IInv' /\ SendsNothingStale
  BY <1>3, TakeKeeps DEF SetPowerPrecharge, IInv, TypeOK, ZeroIsStored
<1>4. ASSUME NEW p \in Powers, SetPowerTurnOn(p)
      PROVE  IInv' /\ SendsNothingStale
  <2>. DEFINE sent == IF MustTurnOn THEN <<Command("on")>> ELSE <<>>
  <2>1. plan' = p /\ p # 0 /\ set_power' = set_power /\ Send(sent)
    BY <1>4 DEF SetPowerTurnOn
  <2>2. sent \in Seq(Request) /\ \A n \in 1 .. Len(sent) : Fresh(sent[n])
    BY CommandFresh
  <2>3. reqs' \in Seq(Request) /\ SendsNothingStale
    <3>. HIDE DEF sent
    <3>. QED
      BY <2>1, <2>2, SendKeeps DEF IInv, TypeOK
  <2>. QED
    BY <2>1, <2>3 DEF IInv, TypeOK, ZeroIsStored
<1>5. ASSUME NEW p \in Powers, SetPowerRunning(p)
      PROVE  IInv' /\ SendsNothingStale
  <2>1. PICK max \in Limits :
          Store(Limited(p, max)) /\ Send(PowerRequest(Limited(p, max)))
    BY <1>5 DEF SetPowerRunning
  <2>2. plan' = p /\ p # 0 /\ Limited(p, max) \in Int
    BY <1>5 DEF SetPowerRunning, Limited
  <2>3. reqs' \in Seq(Request) /\ SendsNothingStale
    BY <2>1, <2>2, PowerRequestFresh, SendKeeps DEF IInv, TypeOK
  <2>. QED
    BY <2>1, <2>2, <2>3 DEF IInv, TypeOK, ZeroIsStored, Store
<1>. QED
  BY <1>1, <1>2, <1>3, <1>4, <1>5 DEF CalPower

LEMMA SupervisionKeeps ==
  ASSUME IInv, OpeningFires \/ ClosingFires
  PROVE  IInv' /\ SendsNothingStale
<1>1. CASE /\ plan' = plan /\ set_power' = set_power
           /\ Send(PowerRequest(set_power))
  <2>1. reqs' \in Seq(Request) /\ SendsNothingStale
    BY <1>1, PowerRequestFresh, SendKeeps DEF IInv, TypeOK, ZeroIsStored
  <2>. QED
    BY <1>1, <2>1 DEF IInv, TypeOK, ZeroIsStored
<1>2. ASSUME NEW c \in {"on", "off"},
             plan' = plan, set_power' = set_power, Send(<<Command(c)>>)
      PROVE  IInv' /\ SendsNothingStale
  <2>1. <<Command(c)>> \in Seq(Request)
        /\ \A n \in 1 .. Len(<<Command(c)>>) : Fresh(<<Command(c)>>[n])
    BY CommandFresh
  <2>2. reqs' \in Seq(Request) /\ SendsNothingStale
    BY <1>2, <2>1, SendKeeps DEF IInv, TypeOK
  <2>. QED
    BY <1>2, <2>2 DEF IInv, TypeOK, ZeroIsStored
<1>3. CASE plan' = plan /\ set_power' = 0 /\ UNCHANGED reqs
  BY <1>3, TakeKeeps DEF IInv, TypeOK, ZeroIsStored
<1>. QED
  BY <1>1, <1>2, <1>3 DEF OpeningFires, ClosingFires, Store

LEMMA AnswerKeeps ==
  ASSUME IInv, OnAnswer
  PROVE  IInv' /\ SendsNothingStale
<1>1. PICK off \in BOOLEAN :
        /\ set_power' = IF off THEN 0 ELSE set_power
        /\ Send(IF off THEN PowerRequest(0) ELSE <<>>)
        /\ plan' = plan
  BY DEF OnAnswer, Store
<1>2. reqs' \in Seq(Request) /\ SendsNothingStale
  <2>1. CASE off
    BY <1>1, <2>1, PowerRequestFresh, SendKeeps DEF IInv, TypeOK
  <2>2. CASE ~off
    <3>1. /\ Send(<<>>) /\ <<>> \in Seq(Request)
          /\ \A n \in 1 .. Len(<<>>) : Fresh(<<>>[n])
      BY <1>1, <2>2
    <3>. QED
      BY <3>1, SendKeeps DEF IInv, TypeOK
  <2>. QED
    BY <2>1, <2>2
<1>. QED
  BY <1>1, <1>2 DEF IInv, TypeOK, ZeroIsStored

LEMMA QueryKeeps ==
  ASSUME IInv, NEW chain \in Chains, QueryFires(chain)
  PROVE  IInv' /\ SendsNothingStale
<1>1. <<Command(chain)>> \in Seq(Request) /\ Fresh(Command(chain))
  BY CommandFresh
<1>2. reqs' \in Seq(Request) /\ SendsNothingStale
  <2>1. Send(<<Command(chain)>>)
    BY DEF QueryFires
  <2>2. \A n \in 1 .. Len(<<Command(chain)>>) : Fresh(<<Command(chain)>>[n])
    BY <1>1
  <2>. QED
    BY <1>1, <2>1, <2>2, SendKeeps DEF IInv, TypeOK
<1>. QED
  BY <1>2 DEF QueryFires, IInv, TypeOK, ZeroIsStored

(* The worker and the devices send nothing to the list. *)
LEMMA OthersKeep ==
  ASSUME IInv,
         \/ \E done \in BOOLEAN : Write(done)
         \/ \E chain \in Chains : QuerySucceeds(chain) \/ QueryFails(chain)
         \/ InverterMoves \/ BatteryMoves \/ UNCHANGED vars
  PROVE  IInv' /\ SendsNothingStale
<1>1. /\ plan' = plan /\ set_power' = set_power
      /\ reqs' = reqs \/ (reqs # <<>> /\ reqs' = Tail(reqs))
  BY DEF Write, QuerySucceeds, QueryFails, Query, InverterMoves, BatteryMoves, vars
<1>. QED
  BY <1>1, TakeKeeps DEF IInv, TypeOK, ZeroIsStored

LEMMA InitIInv == Init => IInv
BY DEF Init, IInv, TypeOK, ZeroIsStored

LEMMA StepKeeps ==
  ASSUME IInv, [Next]_vars
  PROVE  IInv' /\ SendsNothingStale
BY CalPowerKeeps, SupervisionKeeps, QueryKeeps, AnswerKeeps, OthersKeep DEF Next

(* Once the schedule has asked for zero, no power is sent that was asked   *)
(* for before: TestPcs::SetP() keeps the zero even if it cannot send it.   *)
THEOREM NothingStaleIsSent == Spec => NoStalePower
<1>1. IInv /\ [Next]_vars => IInv'
  BY StepKeeps
<1>2. IInv /\ [Next]_vars =>
        [\A n \in DOMAIN reqs' :
           n > Len(reqs) /\ reqs'[n].cmd = "power" /\ reqs'[n].power # 0 => plan' # 0]_vars
  BY StepKeeps DEF SendsNothingStale
<1>. QED
  BY <1>1, <1>2, InitIInv, PTL DEF Spec, NoStalePower

-----------------------------------------------------------------------------
(* The time-of-use schedule *)

TouTypeOK ==
  /\ grid \in Int
  /\ pv_consume \in BOOLEAN /\ demand_dynamic \in BOOLEAN
  /\ m_tou_power \in Int /\ m_antibackflow \in Int /\ m_demand \in Int
  /\ power \in Int

TouInv == TouTypeOK /\ WithinPlan

LEMMA PlannedIsInt == Planned \in Int
<1>1. CASE First = {}
  BY <1>1 DEF Planned
<1>2. CASE First # {}
  <2>1. ASSUME NEW i \in DOMAIN Tou PROVE Tou[i].power \in Int
    <3>. DEFINE Slot == [from : Nat, to : Nat, power : Int]
    <3>1. Tou \in Seq(Slot)
      BY TimeOfUseAssumption
    <3>2. Tou[i] \in Slot
      <4>. HIDE DEF Slot
      <4>. QED
        BY <3>1, i \in DOMAIN Tou
    <3>. QED
      BY <3>2
  <2>2. (CHOOSE i \in First : TRUE) \in DOMAIN Tou
    BY <1>2 DEF First
  <2>. QED
    BY <1>2, <2>1, <2>2 DEF Planned
<1>. QED
  BY <1>1, <1>2

(* A correction of the discharge lies between the plan, turned round, and  *)
(* nothing; there is none for a charge.                                    *)
LEMMA AntibackflowBounds ==
  ASSUME TouTypeOK, NEW tou \in Int
  PROVE  /\ ConsumePv \in Int /\ ConsumePv <= 0
         /\ NotConsumePv(tou) \in Int
         /\ tou <= 0 => NotConsumePv(tou) = 0
         /\ tou > 0 => -tou <= NotConsumePv(tou) /\ NotConsumePv(tou) <= 0
<1>1. Half(grid - Antibackflow) \in Int
  BY TimeOfUseAssumption DEF TouTypeOK, Half
<1>2. ConsumePv \in Int /\ ConsumePv <= 0
  BY <1>1 DEF TouTypeOK, ConsumePv, AtMost
<1>. QED
  BY <1>2 DEF NotConsumePv, AtLeast

(* The same for the correction of the charge. *)
LEMMA DemandBounds ==
  ASSUME TouTypeOK, NEW tou \in Int
  PROVE  /\ ConsumDemand \in Int /\ ConsumDemand >= 0
         /\ NotConsumDemand(tou) \in Int
         /\ tou >= 0 => NotConsumDemand(tou) = 0
         /\ tou < 0 => 0 <= NotConsumDemand(tou) /\ NotConsumDemand(tou) <= -tou
<1>1. Half(grid - Demand) \in Int
  BY TimeOfUseAssumption DEF TouTypeOK, Half
<1>2. ConsumDemand \in Int /\ ConsumDemand >= 0
  BY <1>1 DEF TouTypeOK, ConsumDemand, AtLeast
<1>. QED
  BY <1>2 DEF NotConsumDemand, AtMost

(* Whatever was corrected before, a new power is within the plan it is     *)
(* computed for.                                                           *)
LEMMA TouCalPowerKeeps ==
  ASSUME TouTypeOK, NEW tou \in Int,
         TouCalPower(tou), m_tou_power' = tou, UNCHANGED <<devices, modes>>
  PROVE  TouInv'
<1>. USE AntibackflowBounds, DemandBounds
<1>1. /\ m_antibackflow' \in Int
      /\ m_antibackflow' = IF pv_consume THEN ConsumePv ELSE NotConsumePv(tou)
  BY DEF TouCalPower, TouTypeOK
<1>2. /\ m_demand' \in Int
      /\ m_demand' = IF demand_dynamic THEN ConsumDemand ELSE NotConsumDemand(tou)
  BY DEF TouCalPower, TouTypeOK
<1>3. /\ power' \in Int
      /\ power' \in {0, tou + m_antibackflow' + m_demand'}
  BY <1>1, <1>2 DEF TouCalPower, CutOff
<1>4. TouTypeOK'
  BY <1>1, <1>2, <1>3 DEF TouTypeOK, devices, modes
<1>5. ~pv_consume /\ ~demand_dynamic => Between(power', tou)
  BY <1>1, <1>2, <1>3 DEF Between
<1>6. ~pv_consume /\ tou > 0 => power' >= 0
  BY <1>1, <1>2, <1>3 DEF TouTypeOK
<1>7. ~demand_dynamic /\ tou < 0 => power' <= 0
  BY <1>1, <1>2, <1>3 DEF TouTypeOK
<1>8. WithinPlan'
  BY <1>5, <1>6, <1>7 DEF WithinPlan, Between, modes
<1>. QED
  BY <1>4, <1>8 DEF TouInv

LEMMA TouInitInv ==
  ASSUME TouInit
  PROVE  TouInv
BY TimeOfUseAssumption DEF TouInit, TouInv, TouTypeOK, WithinPlan, Between

LEMMA TouNextInv ==
  ASSUME TouInv, [TouNext]_touVars
  PROVE  TouInv'
<1>1. CASE TouTimer
  BY <1>1, PlannedIsInt, TouCalPowerKeeps DEF TouTimer, TouInv
<1>2. CASE GridPowerMonitorTimer
  BY <1>2, TouCalPowerKeeps DEF GridPowerMonitorTimer, TouInv, TouTypeOK
<1>3. CASE DevicesMove
  BY <1>3, TimeOfUseAssumption DEF DevicesMove, TouInv, TouTypeOK, WithinPlan,
              Between, modes
<1>4. CASE UNCHANGED touVars
  BY <1>4 DEF touVars, devices, modes, TouInv, TouTypeOK, WithinPlan, Between
<1>. QED
  BY <1>1, <1>2, <1>3, <1>4 DEF TouNext

(* The corrections of TOU::TouCalPower() never turn the planned power round,  *)
(* for every table, reading, threshold and initial m_demand.               *)
THEOREM PlanIsNotTurnedRound == TouSpec => []WithinPlan
<1>1. TouInit => TouInv
  BY TouInitInv
<1>2. TouInv /\ [TouNext]_touVars => TouInv'
  BY TouNextInv
<1>3. TouInv => WithinPlan
  BY DEF TouInv
<1>. QED
  BY <1>1, <1>2, <1>3, PTL DEF TouSpec

-----------------------------------------------------------------------------
(* The chains of queries of the meter, the battery and the cooler *)

(* The positions of a in a sequence. *)
Where(s, a) == {i \in 1 .. Len(s) : s[i] = a}

LEMMA WhereFinite ==
  ASSUME NEW S, NEW s \in Seq(S), NEW a
  PROVE  IsFiniteSet(Where(s, a)) /\ Cardinality(Where(s, a)) \in Nat
<1>1. IsFiniteSet(1 .. Len(s))
  BY FS_Interval
<1>2. Where(s, a) \subseteq 1 .. Len(s)
  BY DEF Where
<1>. QED
  BY <1>1, <1>2, FS_Subset, FS_CardinalityType

LEMMA WhereAppend ==
  ASSUME NEW S, NEW s \in Seq(S), NEW x \in S, NEW a
  PROVE  Cardinality(Where(Append(s, x), a)) = Cardinality(Where(s, a)) + (IF x = a THEN 1 ELSE 0)
<1> DEFINE n == Len(s) + 1
<1>1. /\ Len(Append(s, x)) = n /\ n \in Nat /\ Len(s) \in Nat
      /\ \A i \in 1 .. n : Append(s, x)[i] = IF i = n THEN x ELSE s[i]
  OBVIOUS
<1>2. n \notin Where(s, a)
  BY DEF Where
<1>3. CASE x = a
  <2>1. Where(Append(s, x), a) = Where(s, a) \cup {n}
    BY <1>1, <1>3 DEF Where
  <2>. QED
    BY <1>2, <1>3, <2>1, WhereFinite, FS_AddElement
<1>4. CASE x # a
  <2>1. Where(Append(s, x), a) = Where(s, a)
    BY <1>1, <1>4 DEF Where
  <2>. QED
    BY <1>4, <2>1, WhereFinite
<1>. QED
  BY <1>3, <1>4

LEMMA WhereTail ==
  ASSUME NEW S, NEW s \in Seq(S), s # <<>>, NEW a
  PROVE  Cardinality(Where(Tail(s), a)) = Cardinality(Where(s, a)) - (IF Head(s) = a THEN 1 ELSE 0)
<1>1. /\ Len(Tail(s)) = Len(s) - 1 /\ Len(s) \in Nat \ {0} /\ Head(s) = s[1] /\ Tail(s) \in Seq(S)
      /\ \A i \in 1 .. Len(s) - 1 : Tail(s)[i] = s[i + 1]
  OBVIOUS
<1> DEFINE W == Where(s, a)
           T == Where(Tail(s), a)
           f == [i \in T |-> i + 1]
<1>2. T \subseteq 1 .. Len(s) - 1 /\ \A i \in 1 .. Len(s) - 1 : i \in T <=> i + 1 \in W
  BY <1>1 DEF Where
<1>3. W \subseteq 1 .. Len(s) /\ (1 \in W <=> Head(s) = a)
  BY <1>1 DEF Where
<1>4. IsFiniteSet(W) /\ IsFiniteSet(T) /\ Cardinality(W) \in Nat
  BY <1>1, WhereFinite
<1> HIDE DEF W, T
<1>5. f \in Bijection(T, W \ {1})
  <2>1. f \in [T -> W \ {1}]
    BY <1>1, <1>2
  <2>2. \A i, j \in T : f[i] = f[j] => i = j
    BY <1>1, <1>2
  <2>3. ASSUME NEW k \in W \ {1} PROVE \E i \in T : f[i] = k
    <3>1. k - 1 \in 1 .. Len(s) - 1 /\ (k - 1) + 1 = k
      BY <1>1, <1>3
    <3>2. k - 1 \in T
      BY <1>2, <3>1
    <3>. QED
      BY <3>1, <3>2
  <2>. QED
    BY <2>1, <2>2, <2>3 DEF Bijection, Injection, Surjection, IsInjective
<1>6. Cardinality(T) = Cardinality(W \ {1})
  BY <1>4, <1>5, FS_Bijection DEF ExistsBijection
<1>7. Cardinality(W \ {1}) = IF 1 \in W THEN Cardinality(W) - 1 ELSE Cardinality(W)
  BY <1>4, FS_RemoveElement
<1>. QED
  BY <1>3, <1>4, <1>6, <1>7 DEF W, T

(* A chain's requests are in its own thread's list. *)
Served(t) == {c \in Chain : ThreadOf(c) = t} \cup {"power"}

EssTypeOK ==
  /\ armed \subseteq Chain
  /\ lists \in [EssThread -> Seq(Chain \cup {"power"})]
  /\ \A t \in EssThread : lists[t] \in Seq(Served(t))
  /\ answers \in Seq(Chain)
  /\ nominal_step \in 0 .. 2 /\ step \in 0 .. 4
  /\ buffer \in CoolerBlock \cup {Unread}
  /\ shown \in [CoolerBlock -> CoolerBlock \cup {Unread}] /\ failed \subseteq CoolerBlock

Timed(c) == IF c \in armed THEN 1 ELSE 0
Asked(c) == Cardinality(Where(lists[ThreadOf(c)], c))
Waits(c) == Cardinality(Where(answers, c))

(* Where the chains are: the cooler's has an answer too many from its      *)
(* third round on, until that is handled.                                  *)
OrdinarySingle(c) ==
  LET n == Timed(c) + Asked(c) + Waits(c)
  IN  n <= 1 /\ (c # "nominal" => n = 1)
CoolerSingle ==
  /\ step <= 2 => Timed("cooler") + Asked("cooler") + Waits("cooler") = 1
  /\ step = 3 => Waits("cooler") = 1
  /\ step = 4 => Waits("cooler") = 0

(* A block that is about to be published was read as that block. *)
BufferIsOfStep ==
  Waits("cooler") # 0 /\ step <= 2 => buffer = step \/ step \in failed

ChainInv ==
  /\ EssTypeOK
  /\ \A c \in Chain \ {"cooler"} : OrdinarySingle(c)
  /\ CoolerSingle /\ BufferIsOfStep /\ CoolerShowsItsBlocks

LEMMA CountsAreNat ==
  ASSUME EssTypeOK, NEW c \in Chain
  PROVE  Timed(c) \in {0, 1} /\ Asked(c) \in Nat /\ Waits(c) \in Nat
<1>1. /\ ThreadOf(c) \in EssThread /\ answers \in Seq(Chain)
      /\ lists[ThreadOf(c)] \in Seq(Chain \cup {"power"})
  BY DEF EssTypeOK, ThreadOf, EssThread
<1>2. Asked(c) \in Nat
  BY <1>1, WhereFinite DEF Asked
<1>3. Waits(c) \in Nat
  BY <1>1, WhereFinite DEF Waits
<1>. QED
  BY <1>2, <1>3 DEF Timed

LEMMA TokensAre ==
  ASSUME EssTypeOK, NEW c \in Chain
  PROVE  Tokens(c) = Timed(c) + Asked(c) + Waits(c)
<1>1. /\ ThreadOf(c) \in EssThread /\ answers \in Seq(Chain)
      /\ lists[ThreadOf(c)] \in Seq(Chain \cup {"power"})
  BY DEF EssTypeOK, ThreadOf, EssThread
<1>2. Cardinality({c} \cap armed) = Timed(c)
  <2>1. CASE c \in armed
    <3>1. {c} \cap armed = {c}
      BY <2>1
    <3>. QED
      BY <2>1, <3>1, FS_Singleton DEF Timed
  <2>2. CASE c \notin armed
    <3>1. {c} \cap armed = {}
      BY <2>2
    <3>. QED
      BY <2>2, <3>1, FS_EmptySet DEF Timed
  <2>. QED
    BY <2>1, <2>2
<1>3. Cardinality({n \in DOMAIN answers : answers[n] = c}) = Waits(c)
  <2>1. {n \in DOMAIN answers : answers[n] = c} = Where(answers, c)
    BY <1>1 DEF Where
  <2>. QED
    BY <2>1 DEF Waits
<1>4. Cardinality({n \in DOMAIN lists[ThreadOf(c)] : lists[ThreadOf(c)][n] = c}) = Asked(c)
  <2> DEFINE s == lists[ThreadOf(c)]
  <2>1. {n \in DOMAIN s : s[n] = c} = Where(s, c)
    BY <1>1 DEF Where
  <2>. QED
    BY <2>1 DEF Asked
<1>. QED
  BY <1>2, <1>3, <1>4, CountsAreNat DEF Tokens

LEMMA InvIsEnough ==
  ASSUME ChainInv PROVE ChainsGoOn
<1>1. ASSUME NEW c \in Chain
      PROVE  /\ Tokens(c) = 0 => c = "nominal" \/ (c = "cooler" /\ step > 3)
             /\ Tokens(c) > 1 => c = "cooler" /\ step > 2
  <2>1. /\ Tokens(c) = Timed(c) + Asked(c) + Waits(c) /\ step \in 0 .. 4
        /\ Timed(c) \in {0, 1} /\ Asked(c) \in Nat /\ Waits(c) \in Nat
    BY TokensAre, CountsAreNat DEF ChainInv, EssTypeOK
  <2>2. CASE c = "cooler"
    BY <2>1, <2>2 DEF ChainInv, CoolerSingle
  <2>3. CASE c # "cooler"
    BY <2>1, <2>3 DEF ChainInv, OrdinarySingle
  <2>. QED
    BY <2>2, <2>3
<1>. QED
  BY <1>1 DEF ChainInv, ChainsGoOn, ChainsAreSingle

LEMMA EssInitInv == EssInit => ChainInv
<1> SUFFICES ASSUME EssInit PROVE ChainInv
  OBVIOUS
<1>1. EssTypeOK
  <2>1. \A t \in EssThread : lists[t] = <<>>
    BY DEF EssInit
  <2>. QED
    BY <2>1 DEF EssInit, EssTypeOK, CoolerBlock
<1>2. ASSUME NEW c \in Chain PROVE Timed(c) = 1 /\ Asked(c) = 0 /\ Waits(c) = 0
  <2>1. lists[ThreadOf(c)] = <<>> /\ answers = <<>> /\ c \in armed
    BY DEF EssInit, ThreadOf, EssThread
  <2>2. Where(<<>>, c) = {}
    BY DEF Where
  <2>. QED
    BY <2>1, <2>2, FS_EmptySet DEF Timed, Asked, Waits
<1>3. "cooler" \in Chain /\ step = 0 /\ shown = [b \in CoolerBlock |-> Unread]
  BY DEF EssInit, Chain
<1>. QED
  BY <1>1, <1>2, <1>3
     DEF ChainInv, OrdinarySingle, CoolerSingle, BufferIsOfStep, CoolerShowsItsBlocks

LEMMA PowerIsNoChain == "power" \notin Chain
BY DEF Chain

(* A request is counted with its chain. *)
LEMMA SendCounts ==
  ASSUME EssTypeOK, NEW t \in EssThread, NEW x \in Served(t), SendAsyncAction(x, t)
  PROVE  /\ lists' \in [EssThread -> Seq(Chain \cup {"power"})]
         /\ \A u \in EssThread : lists'[u] \in Seq(Served(u))
         /\ \A c \in Chain : Asked(c)' = Asked(c) + (IF x = c THEN 1 ELSE 0)
<1>1. /\ lists[t] \in Seq(Chain \cup {"power"}) /\ lists[t] \in Seq(Served(t))
      /\ x \in Chain \cup {"power"}
      /\ lists' = [lists EXCEPT ![t] = Append(lists[t], x)]
      /\ lists \in [EssThread -> Seq(Chain \cup {"power"})]
  BY DEF EssTypeOK, Served, SendAsyncAction
<1>2. Append(lists[t], x) \in Seq(Chain \cup {"power"}) /\ Append(lists[t], x) \in Seq(Served(t))
  BY <1>1
<1>3. ASSUME NEW c \in Chain PROVE Asked(c)' = Asked(c) + (IF x = c THEN 1 ELSE 0)
  <2>1. ThreadOf(c) \in EssThread
    BY DEF ThreadOf, EssThread
  <2>2. CASE ThreadOf(c) = t
    <3>1. lists'[ThreadOf(c)] = Append(lists[ThreadOf(c)], x)
      BY <1>1, <2>1, <2>2
    <3>2. Asked(c)' = Cardinality(Where(Append(lists[ThreadOf(c)], x), c))
      BY <3>1 DEF Asked, Where
    <3>. QED
      BY <1>1, <2>2, <3>2, WhereAppend DEF Asked
  <2>3. CASE ThreadOf(c) # t
    <3>1. lists'[ThreadOf(c)] = lists[ThreadOf(c)]
      BY <1>1, <2>1, <2>3
    <3>2. Asked(c)' = Asked(c)
      BY <3>1 DEF Asked, Where
    <3>3. x # c
      BY <2>3, PowerIsNoChain DEF Served
    <3>. QED
      BY <3>2, <3>3, CountsAreNat
  <2>. QED
    BY <2>2, <2>3
<1>. QED
  BY <1>1, <1>2, <1>3 DEF EssTypeOK

LEMMA TakeCounts ==
  ASSUME EssTypeOK, NEW t \in EssThread, lists[t] # <<>>,
         lists' = [lists EXCEPT ![t] = Tail(lists[t])]
  PROVE  /\ Head(lists[t]) \in Served(t)
         /\ lists' \in [EssThread -> Seq(Chain \cup {"power"})]
         /\ \A u \in EssThread : lists'[u] \in Seq(Served(u))
         /\ \A c \in Chain : Asked(c)' = Asked(c) - (IF Head(lists[t]) = c THEN 1 ELSE 0)
<1>1. /\ lists[t] \in Seq(Chain \cup {"power"}) /\ lists[t] \in Seq(Served(t))
      /\ lists \in [EssThread -> Seq(Chain \cup {"power"})]
  BY DEF EssTypeOK
<1>2. /\ Tail(lists[t]) \in Seq(Chain \cup {"power"}) /\ Tail(lists[t]) \in Seq(Served(t))
      /\ Head(lists[t]) \in Served(t)
  BY <1>1
<1>3. ASSUME NEW c \in Chain
      PROVE  Asked(c)' = Asked(c) - (IF Head(lists[t]) = c THEN 1 ELSE 0)
  <2>1. ThreadOf(c) \in EssThread
    BY DEF ThreadOf, EssThread
  <2>2. CASE ThreadOf(c) = t
    <3>1. lists'[ThreadOf(c)] = Tail(lists[t])
      BY <1>1, <2>1, <2>2
    <3>2. Asked(c)' = Cardinality(Where(Tail(lists[t]), c))
      BY <3>1 DEF Asked, Where
    <3>. QED
      BY <1>1, <2>2, <3>2, WhereTail DEF Asked
  <2>3. CASE ThreadOf(c) # t
    <3>1. lists'[ThreadOf(c)] = lists[ThreadOf(c)]
      BY <1>1, <2>1, <2>3
    <3>2. Asked(c)' = Asked(c)
      BY <3>1 DEF Asked, Where
    <3>3. Head(lists[t]) # c
      BY <1>2, <2>3, PowerIsNoChain DEF Served
    <3>. QED
      BY <3>2, <3>3, CountsAreNat
  <2>. QED
    BY <2>2, <2>3
<1>. QED
  BY <1>1, <1>2, <1>3 DEF EssTypeOK

(* A chain's timer becomes its request, another request counts for none. *)
LEMMA TimeOutKeeps ==
  ASSUME ChainInv, (\E k \in Chain : EssTimeOutEvent(k)) \/ PowerOnOrOff
  PROVE  ChainInv'
<1>1. PICK x \in Chain \cup {"power"}, t \in EssThread :
        /\ x \in Served(t) /\ SendAsyncAction(x, t)
        /\ IF x \in Chain THEN x \in armed /\ armed' = armed \ {x} ELSE UNCHANGED armed
        /\ UNCHANGED <<answers, nominal_step, cooler>>
  <2>1. ASSUME NEW k \in Chain, EssTimeOutEvent(k)
        PROVE  ThreadOf(k) \in EssThread /\ k \in Served(ThreadOf(k))
    BY <2>1 DEF ThreadOf, EssThread, Served
  <2>2. "BCMU_THREAD" \in EssThread /\ "power" \in Served("BCMU_THREAD")
    BY DEF EssThread, Served
  <2>. QED
    BY <2>1, <2>2, PowerIsNoChain DEF EssTimeOutEvent, PowerOnOrOff
<1>2. EssTypeOK /\ UNCHANGED <<answers, nominal_step, step, buffer, shown, failed>>
  BY <1>1 DEF ChainInv, cooler
<1>3. EssTypeOK'
  <2>1. armed' \subseteq Chain
    BY <1>1, <1>2 DEF EssTypeOK
  <2>2. /\ lists' \in [EssThread -> Seq(Chain \cup {"power"})]
        /\ \A u \in EssThread : lists'[u] \in Seq(Served(u))
    BY <1>1, <1>2, SendCounts
  <2>. QED
    BY <1>2, <2>1, <2>2 DEF EssTypeOK
<1>4. ASSUME NEW c \in Chain
      PROVE  Waits(c)' = Waits(c) /\ Timed(c)' + Asked(c)' = Timed(c) + Asked(c)
  <2>1. Asked(c)' = Asked(c) + (IF x = c THEN 1 ELSE 0)
    BY <1>1, <1>2, SendCounts
  <2>2. Timed(c)' = Timed(c) - (IF x = c THEN 1 ELSE 0)
    BY <1>1 DEF Timed
  <2>3. Waits(c)' = Waits(c)
    BY <1>2 DEF Waits, Where
  <2>. QED
    BY <1>2, <2>1, <2>2, <2>3, CountsAreNat
<1>5. ASSUME NEW c \in Chain \ {"cooler"} PROVE OrdinarySingle(c)'
  BY <1>4 DEF ChainInv, OrdinarySingle
<1>6. CoolerSingle' /\ BufferIsOfStep' /\ CoolerShowsItsBlocks'
  <2>1. "cooler" \in Chain
    BY DEF Chain
  <2>. QED
    BY <1>2, <1>4, <2>1 DEF ChainInv, CoolerSingle, BufferIsOfStep, CoolerShowsItsBlocks
<1>. QED
  BY <1>3, <1>5, <1>6 DEF ChainInv

(* A query that is answered moves on to the answers, with its block if it  *)
(* is the cooler's; another is dropped, which ends the nominal chain, and  *)
(* a cooler's chain whose step is past the last block.                     *)
LEMMA AsyncKeeps ==
  ASSUME ChainInv, NEW t \in EssThread, EssAsyncAction(t)
  PROVE  ChainInv'
<1> DEFINE x == Head(lists[t])
<1>1. /\ lists[t] # <<>> /\ lists' = [lists EXCEPT ![t] = Tail(lists[t])]
      /\ answers' = IF Answered(x) THEN Append(answers, x) ELSE answers
      /\ IF x = "cooler" /\ Answered(x)
         THEN \/ buffer' = step /\ UNCHANGED failed
              \/ failed' = failed \cup {step} /\ UNCHANGED buffer
         ELSE UNCHANGED <<buffer, failed>>
      /\ UNCHANGED <<armed, nominal_step, step, shown>>
  BY DEF EssAsyncAction
<1>2. EssTypeOK /\ answers \in Seq(Chain)
  BY DEF ChainInv, EssTypeOK
<1>3. /\ x \in Served(t) /\ lists' \in [EssThread -> Seq(Chain \cup {"power"})]
      /\ \A u \in EssThread : lists'[u] \in Seq(Served(u))
      /\ \A c \in Chain : Asked(c)' = Asked(c) - (IF x = c THEN 1 ELSE 0)
  BY <1>1, <1>2, TakeCounts
<1>4. /\ Answered(x) => x \in Chain
      /\ x \in Chain \ {"nominal", "cooler"} => Answered(x)
      /\ x = "cooler" => (Answered(x) <=> step \in CoolerBlock)
  <2>1. x \in Chain \cup {"power"}
    BY <1>3 DEF Served
  <2>2. x = "power" => ~Answered(x)
    BY DEF Answered
  <2>3. x = "cooler" => (Answered(x) <=> step \in CoolerBlock)
    BY DEF Answered
  <2>4. x \in Chain \ {"nominal", "cooler"} => Answered(x)
    BY DEF Answered, Chain
  <2>. QED
    BY <2>1, <2>2, <2>3, <2>4
<1> HIDE DEF x
<1>5. EssTypeOK'
  <2>1. answers' \in Seq(Chain)
    BY <1>1, <1>2, <1>4
  <2>2. x = "cooler" /\ Answered(x) => step \in CoolerBlock
    BY <1>4
  <2>3. buffer' \in CoolerBlock \cup {Unread} /\ failed' \subseteq CoolerBlock
    BY <1>1, <1>2, <2>2 DEF EssTypeOK
  <2>. QED
    BY <1>1, <1>2, <1>3, <2>1, <2>3 DEF EssTypeOK
<1>6. ASSUME NEW c \in Chain
      PROVE  /\ Timed(c)' = Timed(c)
             /\ Asked(c)' = Asked(c) - (IF x = c THEN 1 ELSE 0)
             /\ Waits(c)' = Waits(c) + (IF x = c /\ Answered(x) THEN 1 ELSE 0)
  <2>1. Timed(c)' = Timed(c)
    BY <1>1 DEF Timed
  <2>2. CASE Answered(x)
    <3>1. Waits(c)' = Cardinality(Where(Append(answers, x), c))
      BY <1>1, <2>2 DEF Waits, Where
    <3>2. x \in Chain
      BY <1>4, <2>2
    <3>. QED
      BY <1>2, <1>3, <2>1, <2>2, <3>1, <3>2, WhereAppend DEF Waits
  <2>3. CASE ~Answered(x)
    <3>1. Waits(c)' = Waits(c)
      BY <1>1, <2>3 DEF Waits, Where
    <3>. QED
      BY <1>2, <1>3, <2>1, <2>3, <3>1, CountsAreNat
  <2>. QED
    BY <2>2, <2>3
<1>7. ASSUME NEW c \in Chain PROVE Timed(c) \in {0, 1} /\ Asked(c) \in Nat /\ Waits(c) \in Nat
  BY <1>2, CountsAreNat
<1>8. "cooler" \in Chain /\ step \in 0 .. 4 /\ step' = step /\ shown' = shown
  BY <1>1, <1>2 DEF Chain, EssTypeOK
<1>9. ASSUME NEW c \in Chain \ {"cooler"} PROVE OrdinarySingle(c)'
  <2>1. OrdinarySingle(c) /\ (x = c => c = "nominal" \/ Answered(x))
    BY <1>4 DEF ChainInv
  <2>. QED
    BY <1>6, <1>7, <2>1 DEF OrdinarySingle
<1>10. CoolerSingle'
  <2>1. CoolerSingle /\ (x = "cooler" => (Answered(x) <=> step <= 2))
    BY <1>4, <1>8 DEF ChainInv, CoolerBlock
  <2>. QED
    BY <1>6, <1>7, <1>8, <2>1 DEF CoolerSingle
<1>11. BufferIsOfStep'
  <2>1. CASE x = "cooler" /\ Answered(x)
    BY <1>1, <1>8, <2>1 DEF BufferIsOfStep
  <2>2. CASE ~(x = "cooler" /\ Answered(x))
    <3>1. Waits("cooler")' = Waits("cooler")
      BY <1>6, <1>7, <1>8, <2>2
    <3>. QED
      BY <1>1, <2>2, <3>1 DEF ChainInv, BufferIsOfStep
  <2>. QED
    BY <2>1, <2>2
<1>12. CoolerShowsItsBlocks'
  <2>1. failed \subseteq failed'
    BY <1>1
  <2>. QED
    BY <1>8, <2>1 DEF ChainInv, CoolerShowsItsBlocks
<1>. QED
  BY <1>5, <1>9, <1>10, <1>11, <1>12 DEF ChainInv

(* An answer arms its chain's timer again; the cooler's steps on.  At the  *)
(* last block there are two of it, of which one is handled with no block.  *)
LEMMA SyncKeeps ==
  ASSUME ChainInv, EssSyncAction
  PROVE  ChainInv'
<1> DEFINE x == Head(answers)
           again == IF x = "cooler" /\ step % 5 = 2 THEN 1 ELSE 0
<1>1. /\ answers # <<>> /\ armed' = armed \cup Rearmed(x)
      /\ answers' = IF again = 1 THEN Tail(answers) \o <<"cooler">> ELSE Tail(answers)
      /\ IF x = "cooler" THEN shown' = BlockPublished(step % 5) /\ step' = step + 1
                         ELSE UNCHANGED <<shown, step>>
      /\ UNCHANGED <<lists, nominal_step, buffer, failed>>
  <2>1. answers \in Seq(Chain) /\ answers # <<>>
    BY DEF ChainInv, EssTypeOK, EssSyncAction
  <2>2. Tail(answers) \in Seq(Chain)
    BY <2>1
  <2>3. Tail(answers) \o <<>> = Tail(answers)
    BY <2>2
  <2>. QED
    BY <2>1, <2>3 DEF EssSyncAction
<1>2. /\ EssTypeOK /\ answers \in Seq(Chain) /\ x \in Chain /\ Tail(answers) \in Seq(Chain)
      /\ step \in 0 .. 4 /\ "cooler" \in Chain
  BY <1>1 DEF ChainInv, EssTypeOK, Chain
<1>3. Tail(answers) \o <<"cooler">> = Append(Tail(answers), "cooler")
  BY <1>2
<1>9. again \in {0, 1} /\ again = IF x = "cooler" /\ step = 2 THEN 1 ELSE 0
  BY <1>2
<1> HIDE DEF x, again
<1>4. ASSUME NEW c \in Chain
      PROVE  /\ Timed(c) \in {0, 1} /\ Asked(c) \in Nat /\ Waits(c) \in Nat
             /\ x = c => Waits(c) >= 1
             /\ Asked(c)' = Asked(c)
             /\ Timed(c)' = IF x = c /\ c # "nominal" THEN 1 ELSE Timed(c)
             /\ Waits(c)' = Waits(c) - (IF x = c THEN 1 ELSE 0)
                              + (IF c = "cooler" THEN again ELSE 0)
  <2>1. Timed(c) \in {0, 1} /\ Asked(c) \in Nat /\ Waits(c) \in Nat
    BY <1>2, CountsAreNat
  <2>2. Asked(c)' = Asked(c)
    BY <1>1 DEF Asked, Where
  <2>3. Timed(c)' = IF x = c /\ c # "nominal" THEN 1 ELSE Timed(c)
    BY <1>1 DEF Timed, Rearmed
  <2>4. Cardinality(Where(Tail(answers), c)) = Waits(c) - (IF x = c THEN 1 ELSE 0)
    BY <1>1, <1>2, WhereTail DEF Waits, x
  <2>5. Cardinality(Where(Tail(answers), c)) \in Nat
    BY <1>2, WhereFinite
  <2>6. Waits(c)' = Cardinality(Where(Tail(answers), c)) + (IF c = "cooler" THEN again ELSE 0)
    <3>1. CASE again = 1
      <4>1. Waits(c)' = Cardinality(Where(Append(Tail(answers), "cooler"), c))
        BY <1>1, <1>3, <3>1 DEF Waits, Where
      <4>2. Cardinality(Where(Append(Tail(answers), "cooler"), c))
              = Cardinality(Where(Tail(answers), c)) + (IF "cooler" = c THEN 1 ELSE 0)
        <5> DEFINE s == Tail(answers)
        <5>1. s \in Seq(Chain) /\ "cooler" \in Chain
          BY <1>2
        <5> HIDE DEF s
        <5>2. Cardinality(Where(Append(s, "cooler"), c))
                = Cardinality(Where(s, c)) + (IF "cooler" = c THEN 1 ELSE 0)
          BY <5>1, WhereAppend
        <5>. QED
          BY <5>2 DEF s
      <4>. QED
        BY <2>5, <3>1, <4>1, <4>2
    <3>2. CASE again = 0
      <4>1. Waits(c)' = Cardinality(Where(Tail(answers), c))
        BY <1>1, <3>2 DEF Waits, Where
      <4>. QED
        BY <2>5, <3>2, <4>1
    <3>. QED
      BY <1>9, <3>1, <3>2
  <2>. QED
    BY <2>1, <2>2, <2>3, <2>4, <2>5, <2>6
<1>5. x = "cooler" => step \in 0 .. 3
  BY <1>2, <1>4 DEF ChainInv, CoolerSingle
<1>6. step % 5 = step
  BY <1>2
<1>7. EssTypeOK'
  <2>1. armed' \subseteq Chain /\ answers' \in Seq(Chain) /\ step' \in 0 .. 4
    BY <1>1, <1>2, <1>3, <1>5 DEF EssTypeOK, Rearmed
  <2>2. shown' \in [CoolerBlock -> CoolerBlock \cup {Unread}]
    BY <1>1, <1>2 DEF EssTypeOK, BlockPublished
  <2>. QED
    BY <1>1, <1>2, <2>1, <2>2 DEF EssTypeOK
<1>8. ASSUME NEW c \in Chain \ {"cooler"} PROVE OrdinarySingle(c)'
  BY <1>4 DEF ChainInv, OrdinarySingle
<1>10. CoolerSingle'
  <2>1. CoolerSingle
    BY DEF ChainInv
  <2>2. CASE x = "cooler"
    <3>1. /\ step' = step + 1 /\ step \in 0 .. 3 /\ (again = IF step = 2 THEN 1 ELSE 0)
          /\ Timed("cooler")' = 1 /\ Asked("cooler")' = Asked("cooler")
          /\ Waits("cooler")' = Waits("cooler") - 1 + again /\ Waits("cooler") >= 1
          /\ Timed("cooler") \in {0, 1} /\ Asked("cooler") \in Nat /\ Waits("cooler") \in Nat
      BY <1>1, <1>2, <1>4, <1>5, <1>9, <2>2
    <3>2. step <= 2 => Asked("cooler") = 0 /\ Waits("cooler") = 1
      BY <2>1, <3>1 DEF CoolerSingle
    <3>3. step = 3 => Waits("cooler") = 1
      BY <2>1 DEF CoolerSingle
    <3>. QED
      BY <3>1, <3>2, <3>3 DEF CoolerSingle
  <2>3. CASE x # "cooler"
    BY <1>1, <1>2, <1>4, <1>9, <2>1, <2>3 DEF CoolerSingle
  <2>. QED
    BY <2>2, <2>3
<1>11. BufferIsOfStep'
  <2>1. CASE x = "cooler"
    <3>1. step <= 1 => Waits("cooler")' = 0
      BY <1>2, <1>4, <1>9, <2>1 DEF ChainInv, CoolerSingle
    <3>2. step' = step + 1
      BY <1>1, <2>1
    <3>. QED
      BY <1>2, <3>1, <3>2 DEF BufferIsOfStep
  <2>2. CASE x # "cooler"
    <3>1. Waits("cooler")' = Waits("cooler")
      BY <1>2, <1>4, <1>9, <2>2
    <3>. QED
      BY <1>1, <2>2, <3>1 DEF ChainInv, BufferIsOfStep
  <2>. QED
    BY <2>1, <2>2
<1>12. CoolerShowsItsBlocks'
  <2>1. CASE x = "cooler" /\ step \in {0, 2}
    <3>1. Waits("cooler") # 0 /\ step <= 2
      BY <1>2, <1>4, <2>1
    <3>2. buffer = step \/ step \in failed
      BY <3>1 DEF ChainInv, BufferIsOfStep
    <3>3. shown' = [shown EXCEPT ![step] = buffer] /\ failed' = failed
      BY <1>1, <1>6, <2>1 DEF BlockPublished
    <3>. QED
      BY <1>2, <3>2, <3>3 DEF ChainInv, CoolerShowsItsBlocks, EssTypeOK
  <2>2. CASE ~(x = "cooler" /\ step \in {0, 2})
    <3>1. shown' = shown /\ failed' = failed
      BY <1>1, <1>6, <2>2 DEF BlockPublished
    <3>. QED
      BY <3>1 DEF ChainInv, CoolerShowsItsBlocks
  <2>. QED
    BY <2>1, <2>2
<1>. QED
  BY <1>7, <1>8, <1>10, <1>11, <1>12 DEF ChainInv

(* The chains of the drivers of ESSEMS stay single, end only where their   *)
(* drivers forget them, and the cooler's blocks are not mixed up, with     *)
(* lists of any length and queries that fail at any time.                  *)
THEOREM ChainsStaySingle == EssSpec => []ChainsGoOn
<1>1. EssInit => ChainInv
  BY EssInitInv
<1>2. ChainInv /\ [EssNext]_essVars => ChainInv'
  <2> SUFFICES ASSUME ChainInv, [EssNext]_essVars PROVE ChainInv'
    OBVIOUS
  <2>1. CASE EssNext
    BY <2>1, TimeOutKeeps, AsyncKeeps, SyncKeeps DEF EssNext
  <2>2. CASE UNCHANGED essVars
    BY <2>2 DEF essVars, cooler, ChainInv, EssTypeOK, OrdinarySingle, CoolerSingle,
         BufferIsOfStep,
                CoolerShowsItsBlocks, Timed, Asked, Waits, Where
  <2>. QED
    BY <2>1, <2>2
<1>3. ChainInv => ChainsGoOn
  BY InvIsEnough
<1>. QED
  BY <1>1, <1>2, <1>3, PTL DEF EssSpec
=============================================================================
