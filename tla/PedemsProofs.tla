---------------------------- MODULE PedemsProofs ----------------------------
(***************************************************************************)
(* Proofs about the PEDEMS plug-in: its energy schedule, for every set of  *)
(* states of charge, all thresholds and any length of the lists of         *)
(* requests; the sampling of its drivers, for a device that changes as     *)
(* often as it likes; its start-up, for every Device.json.                 *)
(***************************************************************************)
EXTENDS EnergySchedule, Drivers, Startup, TLAPS

(* What the schedule knows and asks for moves through a pipe: a device     *)
(* stands at its front (0), the commands in its list follow, then the      *)
(* charge last reported and, at its end n, the report under way.  Each     *)
(* place asks for "on" or "off", or for neither.                           *)
Owed(pipe, n, done, count, quiet) ==
  \E lev \in [0 .. n -> 0 .. count] :
    /\ \A i, j \in 0 .. n : i < j =>
         lev[i] <= lev[j] /\ (pipe[i] = "off" /\ pipe[j] = "on" => lev[i] < lev[j])
    /\ quiet => \A i \in 0 .. n : pipe[i] = "off" => lev[i] < count
    /\ done <= lev[0]

(* Things move on, are repeated or get lost, but do not overtake.          *)
InOrder(pipe2, m, pipe, n) ==
  \E g \in [0 .. m -> 0 .. n] :
    /\ \A i, j \in 0 .. m : i < j => g[i] <= g[j]
    /\ \A i \in 0 .. m : pipe2[i] = pipe[g[i]]

(* Such a pipe owes what it owed before, once the device's own step from   *)
(* "off" to "on" is paid for.                                              *)
LEMMA PipeMoves ==
  ASSUME NEW n \in Nat, NEW m \in Nat, NEW count \in Nat, NEW done \in Nat,
         NEW quiet \in BOOLEAN, NEW pipe, NEW pipe2, InOrder(pipe2, m, pipe, n),
         Owed(pipe, n, done, count, quiet)
  PROVE  Owed(pipe2, m, IF pipe[0] = "off" /\ pipe2[0] = "on" THEN done + 1 ELSE done,
              count, quiet)
<1>0. PICK g \in [0 .. m -> 0 .. n] :
        /\ \A i, j \in 0 .. m : i < j => g[i] <= g[j]
        /\ \A i \in 0 .. m : pipe2[i] = pipe[g[i]]
  BY DEF InOrder
<1>1. PICK lev \in [0 .. n -> 0 .. count] :
        /\ \A i, j \in 0 .. n : i < j =>
             lev[i] <= lev[j] /\ (pipe[i] = "off" /\ pipe[j] = "on" => lev[i] < lev[j])
        /\ quiet => \A i \in 0 .. n : pipe[i] = "off" => lev[i] < count
        /\ done <= lev[0]
  BY DEF Owed
<1> DEFINE lev2 == [i \in 0 .. m |-> lev[g[i]]]
<1>2. lev2 \in [0 .. m -> 0 .. count]
  BY <1>0
<1>3. ASSUME NEW i \in 0 .. m, NEW j \in 0 .. m, i < j
      PROVE  lev2[i] <= lev2[j] /\ (pipe2[i] = "off" /\ pipe2[j] = "on" => lev2[i] < lev2[j])
  <2>1. g[i] \in 0 .. n /\ g[j] \in 0 .. n /\ g[i] <= g[j]
    BY <1>0, <1>3
  <2>2. CASE g[i] = g[j]
    BY <1>0, <1>3, <2>1, <2>2
  <2>3. CASE g[i] < g[j]
    BY <1>0, <1>1, <1>3, <2>1, <2>3
  <2>. QED
    BY <2>1, <2>2, <2>3
<1>4. quiet => \A i \in 0 .. m : pipe2[i] = "off" => lev2[i] < count
  BY <1>0, <1>1
<1>5. (IF pipe[0] = "off" /\ pipe2[0] = "on" THEN done + 1 ELSE done) <= lev2[0]
  <2>1. 0 \in 0 .. m /\ 0 \in 0 .. n /\ g[0] \in 0 .. n /\ pipe2[0] = pipe[g[0]]
    BY <1>0
  <2>2. CASE g[0] = 0
    BY <1>1, <2>1, <2>2
  <2>3. CASE g[0] # 0
    <3>1. lev2[0] = lev[g[0]] /\ lev[0] \in Nat /\ lev[g[0]] \in Nat
      BY <2>1
    <3>2. lev[0] <= lev[g[0]] /\ (pipe[0] = "off" /\ pipe[g[0]] = "on" => lev[0] < lev[g[0]])
      BY <1>1, <2>1, <2>3
    <3>. QED
      BY <1>1, <2>1, <3>1, <3>2
  <2>. QED
    BY <2>2, <2>3
<1>. QED
  BY <1>2, <1>3, <1>4, <1>5 DEF Owed

(* A sample at the end of the pipe.  Only a low charge asks for "on".      *)
LEMMA PipeSamples ==
  ASSUME NEW n \in Nat \ {0}, NEW count \in Nat, NEW done \in Nat,
         NEW quiet \in BOOLEAN, NEW pipe, NEW pipe2,
         \A i \in 0 .. n - 1 : pipe2[i] = pipe[i],
         pipe2[n] = "off" => ~quiet, pipe2[n] = "on" => quiet,
         Owed(pipe, n, done, count, quiet)
  PROVE  Owed(pipe2, n, done, count, quiet)
<1>1. PICK lev \in [0 .. n -> 0 .. count] :
        /\ \A i, j \in 0 .. n : i < j =>
             lev[i] <= lev[j] /\ (pipe[i] = "off" /\ pipe[j] = "on" => lev[i] < lev[j])
        /\ quiet => \A i \in 0 .. n : pipe[i] = "off" => lev[i] < count
        /\ done <= lev[0]
  BY DEF Owed
<1> DEFINE lev2 == [lev EXCEPT ![n] = count]
<1>2. lev2 \in [0 .. n -> 0 .. count] /\ lev2[n] = count
      /\ \A i \in 0 .. n - 1 : lev2[i] = lev[i]
  OBVIOUS
<1> HIDE DEF lev2
<1>3. ASSUME NEW i \in 0 .. n, NEW j \in 0 .. n, i < j
      PROVE  lev2[i] <= lev2[j] /\ (pipe2[i] = "off" /\ pipe2[j] = "on" => lev2[i] < lev2[j])
  BY <1>1, <1>2, <1>3
<1>4. quiet => \A i \in 0 .. n : pipe2[i] = "off" => lev2[i] < count
  BY <1>1, <1>2
<1>5. done <= lev2[0]
  BY <1>1, <1>2
<1>. QED
  BY <1>2, <1>3, <1>4, <1>5 DEF Owed

(* The charge moves: a new swing is a new count.                           *)
LEMMA PipeSwings ==
  ASSUME NEW n \in Nat, NEW count \in Nat, NEW done \in Nat,
         NEW quiet \in BOOLEAN, NEW quiet2 \in BOOLEAN, NEW pipe,
         Owed(pipe, n, done, count, quiet)
  PROVE  Owed(pipe, n, done, IF ~quiet /\ quiet2 THEN count + 1 ELSE count, quiet2)
<1>1. PICK lev \in [0 .. n -> 0 .. count] :
        /\ \A i, j \in 0 .. n : i < j =>
             lev[i] <= lev[j] /\ (pipe[i] = "off" /\ pipe[j] = "on" => lev[i] < lev[j])
        /\ quiet => \A i \in 0 .. n : pipe[i] = "off" => lev[i] < count
        /\ done <= lev[0]
  BY DEF Owed
<1>2. CASE ~quiet /\ quiet2
  <2>1. lev \in [0 .. n -> 0 .. count + 1] /\ \A i \in 0 .. n : lev[i] < count + 1
    OBVIOUS
  <2>. QED
    BY <1>1, <1>2, <2>1 DEF Owed
<1>3. CASE ~(~quiet /\ quiet2)
  BY <1>1, <1>3 DEF Owed
<1>. QED
  BY <1>2, <1>3
-----------------------------------------------------------------------------
(* The pipe of a device with n commands under way.                         *)
Pipe(device, commands, n, known, report) ==
  [i \in 0 .. n + 2 |-> IF i = 0 THEN device
                        ELSE IF i <= n THEN commands[i]
                        ELSE IF i = n + 1 THEN known ELSE report]

(* The n commands without the first one; the device's step, if it is one   *)
(* from "off" to "on".                                                     *)
Rest(commands, n) == [i \in 1 .. n - 1 |-> commands[i + 1]]
Counted(device, after, done) == IF device = "off" /\ after = "on" THEN done + 1 ELSE done

LEMMA CommandLeaves ==
  ASSUME NEW n \in Nat \ {0}, NEW count \in Nat, NEW done \in Nat, NEW quiet \in BOOLEAN,
         NEW device, NEW commands, NEW known, NEW report,
         NEW after \in {device, commands[1]},
         Owed(Pipe(device, commands, n, known, report), n + 2, done, count, quiet)
  PROVE  Owed(Pipe(after, Rest(commands, n), n - 1, known, report), n + 1,
              Counted(device, after, done), count, quiet)
<1> DEFINE p == Pipe(device, commands, n, known, report)
           p2 == Pipe(after, Rest(commands, n), n - 1, known, report)
           g == [i \in 0 .. n + 1 |->
                   IF i = 0 THEN IF after = device THEN 0 ELSE 1 ELSE i + 1]
<1>1. g \in [0 .. n + 1 -> 0 .. n + 2] /\ \A i, j \in 0 .. n + 1 : i < j => g[i] <= g[j]
  OBVIOUS
<1>2. \A i \in 0 .. n + 1 : p2[i] = p[g[i]]
  BY DEF Pipe, Rest
<1>3. p[0] = device /\ p2[0] = after
  BY DEF Pipe
<1>4. n + 1 \in Nat /\ n + 2 \in Nat /\ Owed(p, n + 2, done, count, quiet)
  OBVIOUS
<1> HIDE DEF p, p2, g
<1>6. InOrder(p2, n + 1, p, n + 2)
  BY <1>1, <1>2 DEF InOrder
<1>5. Owed(p2, n + 1, IF p[0] = "off" /\ p2[0] = "on" THEN done + 1 ELSE done, count, quiet)
  BY <1>4, <1>6, PipeMoves
<1>. QED
  BY <1>3, <1>5 DEF p2, Counted

LEMMA CommandEnters ==
  ASSUME NEW n \in Nat, NEW count \in Nat, NEW done \in Nat, NEW quiet \in BOOLEAN,
         NEW device, NEW commands, NEW known, NEW report,
         Owed(Pipe(device, commands, n, known, report), n + 2, done, count, quiet)
  PROVE  Owed(Pipe(device, [i \in 1 .. n + 1 |-> IF i = n + 1 THEN known ELSE commands[i]],
                   n + 1, known, report), n + 3, done, count, quiet)
<1> DEFINE p == Pipe(device, commands, n, known, report)
           p2 == Pipe(device, [i \in 1 .. n + 1 |-> IF i = n + 1 THEN known ELSE commands[i]],
                      n + 1, known, report)
           g == [i \in 0 .. n + 3 |-> IF i <= n + 1 THEN i ELSE i - 1]
<1>1. g \in [0 .. n + 3 -> 0 .. n + 2] /\ \A i, j \in 0 .. n + 3 : i < j => g[i] <= g[j]
  OBVIOUS
<1>2. \A i \in 0 .. n + 3 : p2[i] = p[g[i]]
  BY DEF Pipe
<1>3. p[0] = p2[0]
  BY DEF Pipe
<1>4. n + 3 \in Nat /\ n + 2 \in Nat /\ Owed(p, n + 2, done, count, quiet)
  OBVIOUS
<1> HIDE DEF p, p2, g
<1>6. InOrder(p2, n + 3, p, n + 2)
  BY <1>1, <1>2 DEF InOrder
<1>5. Owed(p2, n + 3, IF p[0] = "off" /\ p2[0] = "on" THEN done + 1 ELSE done, count, quiet)
  BY <1>4, <1>6, PipeMoves
<1>. QED
  BY <1>3, <1>5 DEF p2

LEMMA ReportTaken ==
  ASSUME NEW n \in Nat, NEW count \in Nat, NEW done \in Nat, NEW quiet \in BOOLEAN,
         NEW device, NEW commands, NEW known, NEW report,
         Owed(Pipe(device, commands, n, known, report), n + 2, done, count, quiet)
  PROVE  Owed(Pipe(device, commands, n, report, report), n + 2, done, count, quiet)
<1> DEFINE p == Pipe(device, commands, n, known, report)
           p2 == Pipe(device, commands, n, report, report)
           g == [i \in 0 .. n + 2 |-> IF i <= n THEN i ELSE n + 2]
<1>1. g \in [0 .. n + 2 -> 0 .. n + 2] /\ \A i, j \in 0 .. n + 2 : i < j => g[i] <= g[j]
  OBVIOUS
<1>2. \A i \in 0 .. n + 2 : p2[i] = p[g[i]]
  BY DEF Pipe
<1>3. p[0] = p2[0]
  BY DEF Pipe
<1>4. n + 2 \in Nat /\ Owed(p, n + 2, done, count, quiet)
  OBVIOUS
<1> HIDE DEF p, p2, g
<1>6. InOrder(p2, n + 2, p, n + 2)
  BY <1>1, <1>2 DEF InOrder
<1>5. Owed(p2, n + 2, IF p[0] = "off" /\ p2[0] = "on" THEN done + 1 ELSE done, count, quiet)
  BY <1>4, <1>6, PipeMoves
<1>. QED
  BY <1>3, <1>5 DEF p2

LEMMA ReportComes ==
  ASSUME NEW n \in Nat, NEW count \in Nat, NEW done \in Nat, NEW quiet \in BOOLEAN,
         NEW device, NEW commands, NEW known, NEW report, NEW sample,
         sample = "off" => ~quiet, sample = "on" => quiet,
         Owed(Pipe(device, commands, n, known, report), n + 2, done, count, quiet)
  PROVE  Owed(Pipe(device, commands, n, known, sample), n + 2, done, count, quiet)
<1> DEFINE p == Pipe(device, commands, n, known, report)
           p2 == Pipe(device, commands, n, known, sample)
<1>1. \A i \in 0 .. (n + 2) - 1 : p2[i] = p[i]
  BY DEF Pipe
<1>2. p2[n + 2] = sample
  BY DEF Pipe
<1>3. n + 2 \in Nat \ {0} /\ Owed(p, n + 2, done, count, quiet)
  OBVIOUS
<1> HIDE DEF p, p2
<1>4. Owed(p2, n + 2, done, count, quiet)
  BY <1>1, <1>2, <1>3, PipeSamples
<1>. QED
  BY <1>4 DEF p2
-----------------------------------------------------------------------------
Command == [p : Int, for : {"nothing", "stop", "all", "load"}]

ScheduleTypes ==
  /\ soc \in Soc /\ m_soc \in Nat
  /\ poll \in {Timer, Asked, Failed} \cup {Answered(s) : s \in Soc}
  /\ dieselReq \in Seq(BOOLEAN) /\ running \in BOOLEAN
  /\ pvReq \in Seq(Command) /\ written \in Command
  /\ starts \in Nat /\ released \in Nat /\ dips \in Nat /\ peaks \in Nat
  /\ low \in BOOLEAN /\ full \in BOOLEAN

(* The charge is in the bands that are kept of it.                         *)
Bands ==
  /\ (soc < DgOn => low) /\ (soc > DgOff => ~low)
  /\ (soc > PvOff => full) /\ (soc < PvLimit => ~full)

Report == IF poll.at = "answered" THEN poll.soc ELSE m_soc

(* "on" is the diesel running, "off" is what a dip must come before.       *)
Turns(on) == IF on THEN "on" ELSE "off"
AsksDiesel(s) == IF s < DgOn THEN "on" ELSE IF s > DgOff THEN "off" ELSE "neither"
DieselLine(q) == [i \in 1 .. Len(q) |-> Turns(q[i])]
DieselOwed ==
  Owed(Pipe(Turns(running), DieselLine(dieselReq), Len(dieselReq),
            AsksDiesel(m_soc), AsksDiesel(Report)),
       Len(dieselReq) + 2, starts, dips + 1, low)

(* "on" is production allowed, "off" production stopped.                   *)
Allows(r) == IF r.for = "stop" THEN "off" ELSE "on"
AsksPv(s) == IF s > PvOff THEN "off" ELSE IF s < PvLimit THEN "on" ELSE "neither"
PvLine(q) == [i \in 1 .. Len(q) |-> Allows(q[i])]
PvOwed ==
  Owed(Pipe(Allows(written), PvLine(pvReq), Len(pvReq), AsksPv(m_soc), AsksPv(Report)),
       Len(pvReq) + 2, released, peaks, ~full)

IInv == ScheduleTypes /\ Bands /\ DieselOwed /\ PvOwed

LEMMA InitIInv == Init => IInv
<1> SUFFICES ASSUME Init PROVE IInv
  OBVIOUS
<1> USE ScheduleAssumption
<1>1. ScheduleTypes /\ Bands
  <2>0. /\ soc \in Nat /\ DgOn \in Nat /\ DgOff \in Nat /\ PvOff \in Nat /\ PvLimit \in Nat
        /\ DgOn <= DgOff /\ PvLimit <= PvOff
    BY DEF Init
  <2>6. low = (soc < DgOn) /\ full = (soc > PvOff)
    BY DEF Init
  <2>1. low \in BOOLEAN /\ full \in BOOLEAN
    <3>1. low \in BOOLEAN
      BY <2>0, <2>6, SMT
    <3>2. full \in BOOLEAN
      BY <2>0, <2>6, SMT
    <3>. QED
      BY <3>1, <3>2
  <2>2. written \in Command
    BY DEF Init, Command
  <2>3. Bands
    <3>1. low <=> soc < DgOn
      BY <2>6, Zenon
    <3>2. full <=> soc > PvOff
      BY <2>6, Zenon
    <3>3. (soc > DgOff => ~(soc < DgOn)) /\ (soc < PvLimit => ~(soc > PvOff))
      BY <2>0
    <3>. QED
      BY <3>1, <3>2, <3>3, Zenon DEF Bands
  <2>4. soc \in Soc /\ m_soc \in Nat /\ starts \in Nat /\ released \in Nat
        /\ dips \in Nat /\ peaks \in Nat
    BY DEF Init
  <2>7. dieselReq \in Seq(BOOLEAN) /\ pvReq \in Seq(Command)
    BY DEF Init
  <2>8. running \in BOOLEAN
    BY DEF Init
  <2>5. poll \in {Timer, Asked, Failed} \cup {Answered(s) : s \in Soc}
    BY DEF Init
  <2>. QED
    BY <2>1, <2>2, <2>3, <2>4, <2>5, <2>7, <2>8 DEF ScheduleTypes
<1>2. DieselOwed
  <2> DEFINE p == Pipe("off", DieselLine(<<>>), 0, AsksDiesel(0), AsksDiesel(0))
             lev == [i \in 0 .. 2 |-> IF i = 0 THEN 0 ELSE 1]
  <2>1. lev \in [0 .. 2 -> 0 .. 1] /\ lev[0] = 0 /\ lev[1] = 1 /\ lev[2] = 1
    OBVIOUS
  <2>2. p[0] = "off" /\ p[1] # "off" /\ p[2] # "off"
    BY DEF Pipe, AsksDiesel
  <2> HIDE DEF p, lev
  <2>3. \A i, j \in 0 .. 2 : i < j =>
          lev[i] <= lev[j] /\ (p[i] = "off" /\ p[j] = "on" => lev[i] < lev[j])
    BY <2>1, <2>2
  <2>4. \A i \in 0 .. 2 : p[i] = "off" => lev[i] < 1
    BY <2>1, <2>2
  <2>5. Owed(p, 2, 0, 1, low)
    BY <2>1, <2>3, <2>4 DEF Owed
  <2>6. m_soc = 0 /\ Report = 0 /\ dieselReq = <<>> /\ running = FALSE
        /\ starts = 0 /\ dips = 0 /\ Len(dieselReq) = 0 /\ Turns(running) = "off"
    BY DEF Init, Report, Timer, Turns
  <2>. QED
    BY <2>5, <2>6 DEF DieselOwed, p
<1>3. PvOwed
  <2> DEFINE p == Pipe("on", PvLine(<<>>), 0, AsksPv(0), AsksPv(0))
             lev == [i \in 0 .. 2 |-> 0]
  <2>1. lev \in [0 .. 2 -> 0 .. 0] /\ \A i \in 0 .. 2 : lev[i] = 0
    OBVIOUS
  <2>2. \A i \in 0 .. 2 : p[i] # "off"
    BY DEF Pipe, AsksPv
  <2> HIDE DEF p, lev
  <2>5. Owed(p, 2, 0, 0, ~full)
    BY <2>1, <2>2 DEF Owed
  <2>6. m_soc = 0 /\ Report = 0 /\ pvReq = <<>> /\ released = 0 /\ peaks = 0
        /\ Len(pvReq) = 0 /\ Allows(written) = "on"
    BY DEF Init, Report, Timer, Allows
  <2>. QED
    BY <2>5, <2>6 DEF PvOwed, p
<1>. QED
  BY <1>1, <1>2, <1>3 DEF IInv
-----------------------------------------------------------------------------
LEMMA ChargeKeepsIInv ==
  ASSUME IInv, NEW s \in Soc, ChargeChanges(s)
  PROVE  IInv'
<1> USE ScheduleAssumption DEF IInv
<1>1. ScheduleTypes' /\ Bands'
  <2>1. low' \in BOOLEAN /\ full' \in BOOLEAN
    <3>1. low \in BOOLEAN /\ full \in BOOLEAN
      BY DEF ScheduleTypes
    <3>2. low' \in {TRUE, FALSE, low} /\ full' \in {TRUE, FALSE, full}
      BY DEF ChargeChanges
    <3>. QED
      BY <3>1, <3>2
  <2>2. dips' \in Nat /\ peaks' \in Nat
    BY DEF ChargeChanges, ScheduleTypes
  <2>3. Bands'
    <3>1. soc' = s /\ (s < DgOn => low') /\ (s > PvOff => full')
      BY DEF ChargeChanges
    <3>2. s > DgOff => ~low'
      BY DEF ChargeChanges
    <3>3. s < PvLimit => ~full'
      BY DEF ChargeChanges
    <3>. QED
      BY <3>1, <3>2, <3>3 DEF Bands
  <2>4. /\ soc' \in Soc
        /\ UNCHANGED <<m_soc, poll, dieselReq, running, pvReq, written, starts, released>>
    BY DEF ChargeChanges
  <2>. QED
    BY <2>1, <2>2, <2>3, <2>4 DEF ScheduleTypes
<1>2. Report' = Report
  BY DEF ChargeChanges, Report
<1>3. DieselOwed'
  <2> DEFINE p == Pipe(Turns(running), DieselLine(dieselReq), Len(dieselReq),
                       AsksDiesel(m_soc), AsksDiesel(Report))
  <2>1. p' = p /\ Len(dieselReq') + 2 = Len(dieselReq) + 2 /\ starts' = starts
    BY <1>2 DEF ChargeChanges, Pipe, DieselLine, Turns, AsksDiesel
  <2>2. Len(dieselReq) + 2 \in Nat /\ dips + 1 \in Nat /\ starts \in Nat
    BY DEF ScheduleTypes
  <2>7. low \in BOOLEAN /\ low' \in BOOLEAN
    BY <1>1 DEF ScheduleTypes
  <2>3. (IF ~low /\ low' THEN dips + 1 + 1 ELSE dips + 1) = dips' + 1
    BY DEF ChargeChanges
  <2>4. Owed(p, Len(dieselReq) + 2, starts, dips + 1, low)
    BY DEF DieselOwed
  <2> HIDE DEF p
  <2>5. Owed(p, Len(dieselReq) + 2, starts, IF ~low /\ low' THEN dips + 1 + 1 ELSE dips + 1, low')
    BY <2>2, <2>4, <2>7, PipeSwings
  <2>6. Owed(p', Len(dieselReq') + 2, starts', dips' + 1, low')
    BY <2>1, <2>3, <2>5
  <2>. QED
    BY <2>6 DEF DieselOwed, p
<1>4. PvOwed'
  <2> DEFINE p == Pipe(Allows(written), PvLine(pvReq), Len(pvReq),
                       AsksPv(m_soc), AsksPv(Report))
  <2>1. p' = p /\ Len(pvReq') + 2 = Len(pvReq) + 2 /\ released' = released
    BY <1>2 DEF ChargeChanges, Pipe, PvLine, Allows, AsksPv
  <2>2. Len(pvReq) + 2 \in Nat /\ peaks \in Nat /\ released \in Nat
    BY DEF ScheduleTypes
  <2>7. (~full) \in BOOLEAN /\ (~full') \in BOOLEAN
    OBVIOUS
  <2>3. (IF ~~full /\ ~full' THEN peaks + 1 ELSE peaks) = peaks'
    BY DEF ChargeChanges
  <2>4. Owed(p, Len(pvReq) + 2, released, peaks, ~full)
    BY DEF PvOwed
  <2> HIDE DEF p
  <2>5. Owed(p, Len(pvReq) + 2, released, IF ~~full /\ ~full' THEN peaks + 1 ELSE peaks, ~full')
    BY <2>2, <2>4, <2>7, PipeSwings
  <2>6. Owed(p', Len(pvReq') + 2, released', peaks', ~full')
    BY <2>1, <2>3, <2>5
  <2>. QED
    BY <2>6 DEF PvOwed, p
<1>. QED
  BY <1>1, <1>3, <1>4

(* A step that leaves the pipe alone. *)
LEMMA DieselStays ==
  ASSUME DieselOwed, Report' = Report, UNCHANGED <<m_soc, dieselReq, running, starts, dips, low>>
  PROVE  DieselOwed'
BY DEF DieselOwed, Pipe, DieselLine, Turns, AsksDiesel

LEMMA PvStays ==
  ASSUME PvOwed, Report' = Report, UNCHANGED <<m_soc, pvReq, written, released, peaks, full>>
  PROVE  PvOwed'
BY DEF PvOwed, Pipe, PvLine, Allows, AsksPv

LEMMA PollKeepsIInv ==
  ASSUME IInv, PollTimer \/ QueryFails
  PROVE  IInv'
<1> USE DEF PollTimer, QueryFails, plant
<1>1. Report' = Report
  BY DEF Report, Timer, Asked, Failed
<1>2. ScheduleTypes' /\ Bands'
  BY DEF IInv, ScheduleTypes, Bands
<1>3. UNCHANGED <<m_soc, dieselReq, running, starts, dips, low>>
  OBVIOUS
<1>4. UNCHANGED <<m_soc, pvReq, written, released, peaks, full>>
  OBVIOUS
<1>. QED
  BY <1>1, <1>2, <1>3, <1>4, DieselStays, PvStays DEF IInv

LEMMA AnswerKeepsIInv ==
  ASSUME IInv, QueryAnswers
  PROVE  IInv'
<1> USE ScheduleAssumption DEF IInv
<1>1. /\ poll' = Answered(soc)
      /\ UNCHANGED <<soc, low, full, dips, peaks, m_soc, dieselReq, running, pvReq, written,
                     starts, released>>
  BY DEF QueryAnswers, plant
<1>2. Report' = soc
  BY <1>1 DEF Report, Answered
<1>3. ScheduleTypes' /\ Bands'
  BY <1>1 DEF ScheduleTypes, Bands
<1>4. DieselOwed'
  <2>1. Len(dieselReq) \in Nat /\ dips + 1 \in Nat /\ starts \in Nat
    BY DEF ScheduleTypes
  <2>2. low \in BOOLEAN
    BY DEF ScheduleTypes
  <2>3. (AsksDiesel(soc) = "off" => ~low) /\ (AsksDiesel(soc) = "on" => low)
    BY DEF Bands, AsksDiesel
  <2>4. Owed(Pipe(Turns(running), DieselLine(dieselReq), Len(dieselReq),
                  AsksDiesel(m_soc), AsksDiesel(soc)),
             Len(dieselReq) + 2, starts, dips + 1, low)
    BY <2>1, <2>2, <2>3, ReportComes DEF DieselOwed
  <2>. QED
    BY <1>1, <1>2, <2>4 DEF DieselOwed, Pipe, DieselLine, Turns, AsksDiesel
<1>5. PvOwed'
  <2>1. Len(pvReq) \in Nat /\ peaks \in Nat /\ released \in Nat
    BY DEF ScheduleTypes
  <2>2. (~full) \in BOOLEAN
    OBVIOUS
  <2>3. (AsksPv(soc) = "off" => ~~full) /\ (AsksPv(soc) = "on" => ~full)
    BY DEF Bands, AsksPv
  <2>4. Owed(Pipe(Allows(written), PvLine(pvReq), Len(pvReq), AsksPv(m_soc), AsksPv(soc)),
             Len(pvReq) + 2, released, peaks, ~full)
    BY <2>1, <2>2, <2>3, ReportComes DEF PvOwed
  <2>. QED
    BY <1>1, <1>2, <2>4 DEF PvOwed, Pipe, PvLine, Allows, AsksPv
<1>. QED
  BY <1>3, <1>4, <1>5

LEMMA HandlerKeepsIInv ==
  ASSUME IInv, OnQueryCriticalData
  PROVE  IInv'
<1> USE ScheduleAssumption DEF IInv
<1>1. /\ m_soc' = Report /\ poll' = Timer
      /\ UNCHANGED <<soc, low, full, dips, peaks, dieselReq, running, pvReq, written,
                     starts, released>>
  BY DEF OnQueryCriticalData, plant, Report
<1>2. Report' = Report
  BY <1>1 DEF Report, Timer
<1>3. ScheduleTypes' /\ Bands'
  <2>1. Report \in Nat
    BY DEF Report, ScheduleTypes, Timer, Asked, Failed, Answered
  <2>. QED
    BY <1>1, <2>1 DEF ScheduleTypes, Bands
<1>4. DieselOwed'
  <2>1. Len(dieselReq) \in Nat /\ dips + 1 \in Nat /\ starts \in Nat
    BY DEF ScheduleTypes
  <2>2. low \in BOOLEAN
    BY DEF ScheduleTypes
  <2>3. Owed(Pipe(Turns(running), DieselLine(dieselReq), Len(dieselReq),
                  AsksDiesel(Report), AsksDiesel(Report)),
             Len(dieselReq) + 2, starts, dips + 1, low)
    BY <2>1, <2>2, ReportTaken DEF DieselOwed
  <2>. QED
    BY <1>1, <1>2, <2>3 DEF DieselOwed, Pipe, DieselLine, Turns, AsksDiesel
<1>5. PvOwed'
  <2>1. Len(pvReq) \in Nat /\ peaks \in Nat /\ released \in Nat
    BY DEF ScheduleTypes
  <2>2. (~full) \in BOOLEAN
    OBVIOUS
  <2>3. Owed(Pipe(Allows(written), PvLine(pvReq), Len(pvReq), AsksPv(Report), AsksPv(Report)),
             Len(pvReq) + 2, released, peaks, ~full)
    BY <2>1, <2>2, ReportTaken DEF PvOwed
  <2>. QED
    BY <1>1, <1>2, <2>3 DEF PvOwed, Pipe, PvLine, Allows, AsksPv
<1>. QED
  BY <1>3, <1>4, <1>5
-----------------------------------------------------------------------------
(* What a list asks for when a request is appended or its first leaves. *)
LEMMA DieselLines ==
  ASSUME NEW q \in Seq(BOOLEAN)
  PROVE  /\ \A on \in BOOLEAN :
              DieselLine(Append(q, on)) =
                [i \in 1 .. Len(q) + 1 |-> IF i = Len(q) + 1 THEN Turns(on) ELSE DieselLine(q)[i]]
         /\ q # <<>> =>
              /\ DieselLine(Tail(q)) = [i \in 1 .. Len(q) - 1 |-> DieselLine(q)[i + 1]]
              /\ DieselLine(q)[1] = Turns(Head(q))
BY DEF DieselLine

LEMMA PvLines ==
  ASSUME NEW q \in Seq(Command)
  PROVE  /\ \A r \in Command :
              PvLine(Append(q, r)) =
                [i \in 1 .. Len(q) + 1 |-> IF i = Len(q) + 1 THEN Allows(r) ELSE PvLine(q)[i]]
         /\ q # <<>> =>
              /\ PvLine(Tail(q)) = [i \in 1 .. Len(q) - 1 |-> PvLine(q)[i + 1]]
              /\ PvLine(q)[1] = Allows(Head(q))
BY DEF PvLine

LEMMA DieselIsSent ==
  ASSUME IInv, NEW on \in BOOLEAN, SendDiesel(on), AsksDiesel(m_soc) = Turns(on),
         Report' = Report, UNCHANGED <<m_soc, running, starts, dips, low>>
  PROVE  DieselOwed'
<1> USE DEF IInv, SendDiesel
<1> DEFINE n == Len(dieselReq)
           line == DieselLine(dieselReq)
<1>1. n \in Nat /\ dips + 1 \in Nat /\ starts \in Nat /\ dieselReq \in Seq(BOOLEAN)
  BY DEF ScheduleTypes
<1>2. low \in BOOLEAN
  BY DEF ScheduleTypes
<1>3. Len(dieselReq') = n + 1 /\ Len(dieselReq') + 2 = n + 3
  BY <1>1
<1>4. DieselLine(dieselReq') =
        [i \in 1 .. n + 1 |-> IF i = n + 1 THEN AsksDiesel(m_soc) ELSE line[i]]
  BY <1>1, DieselLines
<1>5. Owed(Pipe(Turns(running), line, n, AsksDiesel(m_soc), AsksDiesel(Report)),
           n + 2, starts, dips + 1, low)
  BY DEF DieselOwed
<1> HIDE DEF n, line
<1>6. Owed(Pipe(Turns(running),
          [i \in 1 .. n + 1 |-> IF i = n + 1 THEN AsksDiesel(m_soc) ELSE line[i]],
                n + 1, AsksDiesel(m_soc), AsksDiesel(Report)), n + 3, starts, dips + 1, low)
  BY <1>1, <1>2, <1>5, CommandEnters
<1>7. Owed(Pipe(Turns(running), DieselLine(dieselReq'), Len(dieselReq'), AsksDiesel(m_soc),
                AsksDiesel(Report)), Len(dieselReq') + 2, starts, dips + 1, low)
  BY <1>3, <1>4, <1>6
<1>8. Turns(running') = Turns(running) /\ AsksDiesel(m_soc') = AsksDiesel(m_soc)
      /\ AsksDiesel(Report') = AsksDiesel(Report)
  BY DEF Turns, AsksDiesel
<1>. QED
  BY <1>7, <1>8 DEF DieselOwed

LEMMA PvIsSent ==
  ASSUME IInv, NEW r \in Command, pvReq' = Append(pvReq, r), AsksPv(m_soc) = Allows(r),
         Report' = Report, UNCHANGED <<m_soc, written, released, peaks, full>>
  PROVE  PvOwed'
<1> USE DEF IInv
<1> DEFINE n == Len(pvReq)
           line == PvLine(pvReq)
           quiet == ~full
<1>1. n \in Nat /\ peaks \in Nat /\ released \in Nat /\ pvReq \in Seq(Command)
  BY DEF ScheduleTypes
<1>2. quiet \in BOOLEAN
  OBVIOUS
<1>3. Len(pvReq') = n + 1 /\ Len(pvReq') + 2 = n + 3
  BY <1>1
<1>4. PvLine(pvReq') = [i \in 1 .. n + 1 |-> IF i = n + 1 THEN AsksPv(m_soc) ELSE line[i]]
  BY <1>1, PvLines
<1>5. Owed(Pipe(Allows(written), line, n, AsksPv(m_soc), AsksPv(Report)),
           n + 2, released, peaks, quiet)
  BY DEF PvOwed
<1> HIDE DEF n, line, quiet
<1>6. Owed(Pipe(Allows(written),
          [i \in 1 .. n + 1 |-> IF i = n + 1 THEN AsksPv(m_soc) ELSE line[i]],
                n + 1, AsksPv(m_soc), AsksPv(Report)), n + 3, released, peaks, quiet)
  BY <1>1, <1>2, <1>5, CommandEnters
<1>7. Owed(Pipe(Allows(written), PvLine(pvReq'), Len(pvReq'), AsksPv(m_soc), AsksPv(Report)),
           Len(pvReq') + 2, released, peaks, quiet)
  BY <1>3, <1>4, <1>6
<1>8. Allows(written') = Allows(written) /\ AsksPv(m_soc') = AsksPv(m_soc)
      /\ AsksPv(Report') = AsksPv(Report)
  BY DEF Allows, AsksPv
<1>. QED
  BY <1>7, <1>8 DEF PvOwed, quiet

LEMMA ScheduleKeepsIInv ==
  ASSUME IInv, EnergySchedule
  PROVE  IInv'
<1> USE ScheduleAssumption
<1>1. PICK load \in Load : SchedulePv(load)
  BY DEF EnergySchedule
<1>2. UNCHANGED <<plant, m_soc, poll, running, limit, written, starts, released>> /\ ScheduleDiesel
  BY DEF EnergySchedule
<1>3. Report' = Report
  BY <1>2 DEF Report
<1>4. UNCHANGED <<m_soc, running, starts, dips, low>>
      /\ UNCHANGED <<m_soc, written, released, peaks, full>>
  BY <1>2 DEF plant
<1>5. m_soc \in Nat
  BY DEF IInv, ScheduleTypes
<1>6. dieselReq' \in Seq(BOOLEAN) /\ DieselOwed'
  <2>0. dieselReq \in Seq(BOOLEAN) /\ DieselOwed
    BY DEF IInv, ScheduleTypes
  <2>1. CASE m_soc < DgOn
    <3>0. ~(m_soc > DgOff)
      BY <1>5, <2>1
    <3>1. SendDiesel(TRUE)
      BY <1>2, <2>1, <3>0 DEF ScheduleDiesel
    <3>2. AsksDiesel(m_soc) = Turns(TRUE)
      BY <2>1 DEF AsksDiesel, Turns
    <3>3. DieselOwed'
      BY <1>3, <1>4, <3>1, <3>2, DieselIsSent
    <3>. QED
      BY <2>0, <3>1, <3>3 DEF SendDiesel
  <2>2. CASE m_soc > DgOff
    <3>1. ~(m_soc < DgOn)
      BY <1>5, <2>2
    <3>2. SendDiesel(FALSE)
      BY <1>2, <2>2, <3>1 DEF ScheduleDiesel
    <3>3. AsksDiesel(m_soc) = Turns(FALSE)
      BY <2>2, <3>1 DEF AsksDiesel, Turns
    <3>4. DieselOwed'
      BY <1>3, <1>4, <3>2, <3>3, DieselIsSent
    <3>. QED
      BY <2>0, <3>2, <3>4 DEF SendDiesel
  <2>3. CASE ~(m_soc < DgOn) /\ ~(m_soc > DgOff)
    <3>1. UNCHANGED dieselReq
      BY <1>2, <2>3 DEF ScheduleDiesel
    <3>. QED
      BY <1>3, <1>4, <2>0, <3>1, DieselStays
  <2>. QED
    BY <2>1, <2>2, <2>3
<1>7. pvReq' \in Seq(Command) /\ PvOwed'
  <2>0. pvReq \in Seq(Command) /\ PvOwed
    BY DEF IInv, ScheduleTypes
  <2>1. ASSUME NEW total \in Int PROVE Share(total) \in Int
    BY <2>1 DEF Share
  <2>2. ASSUME NEW total \in Int, NEW what \in {"stop", "all", "load"}, SendPv(total, what),
               AsksPv(m_soc) = IF what = "stop" THEN "off" ELSE "on"
        PROVE  pvReq' \in Seq(Command) /\ PvOwed'
    <3> DEFINE r == [p |-> Share(total), for |-> what]
    <3>1. r \in Command /\ AsksPv(m_soc) = Allows(r)
      BY <2>1, <2>2 DEF Command, Allows
    <3>2. pvReq' = Append(pvReq, r)
      BY <2>2 DEF SendPv
    <3> HIDE DEF r
    <3>. QED
      BY <1>3, <1>4, <2>0, <3>1, <3>2, PvIsSent
  <2>3. CASE m_soc > PvOff
    <3>0. ~(m_soc < PvUnlimit) /\ ~(m_soc < PvLimit)
      BY <1>5, <2>3
    <3>1. SendPv(0, "stop") /\ AsksPv(m_soc) = "off"
      BY <1>1, <2>3, <3>0 DEF SchedulePv, AsksPv
    <3>. QED
      BY <2>2, <3>1
  <2>4. CASE m_soc < PvUnlimit
    <3>1. ~(m_soc > PvOff) /\ m_soc < PvLimit /\ ~(PvUnlimit <= m_soc)
      BY <1>5, <2>4
    <3>2. SendPv(-1, "all") /\ AsksPv(m_soc) = "on"
      BY <1>1, <2>4, <3>1 DEF SchedulePv, AsksPv
    <3>. QED
      BY <2>2, <3>2
  <2>5. CASE PvUnlimit <= m_soc /\ m_soc < PvLimit
    <3>1. ~(m_soc > PvOff) /\ ~(m_soc < PvUnlimit) /\ load \in Int
      BY <1>5, <2>5
    <3>2. SendPv(load, "load") /\ AsksPv(m_soc) = "on"
      BY <1>1, <2>5, <3>1 DEF SchedulePv, AsksPv
    <3>. QED
      BY <2>2, <3>1, <3>2
  <2>6. CASE ~(m_soc > PvOff) /\ ~(m_soc < PvUnlimit) /\ ~(PvUnlimit <= m_soc /\ m_soc < PvLimit)
    <3>1. UNCHANGED pvReq
      BY <1>1, <2>6 DEF SchedulePv
    <3>. QED
      BY <1>3, <1>4, <2>0, <3>1, PvStays
  <2>. QED
    BY <2>3, <2>4, <2>5, <2>6
<1>8. ScheduleTypes' /\ Bands'
  BY <1>2, <1>6, <1>7 DEF IInv, ScheduleTypes, Bands, plant
<1>. QED
  BY <1>6, <1>7, <1>8 DEF IInv
-----------------------------------------------------------------------------
(* A request leaves the list, whether the write it stands for arrives.     *)
LEMMA DieselTakesOne ==
  ASSUME IInv, dieselReq # <<>>, dieselReq' = Tail(dieselReq), Report' = Report,
         NEW after \in {Turns(running), Turns(Head(dieselReq))}, Turns(running') = after,
         starts' = (IF Turns(running) = "off" /\ after = "on" THEN starts + 1 ELSE starts),
         UNCHANGED <<m_soc, dips, low>>
  PROVE  DieselOwed' /\ starts' \in Nat
<1> USE DEF IInv
<1> DEFINE n == Len(dieselReq)
           line == DieselLine(dieselReq)
           device == Turns(running)
           quiet == low
           count == dips + 1
<1>1. n \in Nat \ {0} /\ count \in Nat /\ starts \in Nat /\ dieselReq \in Seq(BOOLEAN)
  BY DEF ScheduleTypes
<1>2. quiet \in BOOLEAN
  BY DEF ScheduleTypes
<1>3. Len(dieselReq') = n - 1 /\ Len(dieselReq') + 2 = n + 1
  BY <1>1
<1>4. DieselLine(dieselReq') = Rest(line, n) /\ line[1] = Turns(Head(dieselReq))
  BY <1>1, DieselLines DEF Rest
<1>5. Owed(Pipe(device, line, n, AsksDiesel(m_soc), AsksDiesel(Report)),
           n + 2, starts, count, quiet)
  BY DEF DieselOwed
<1>6. after \in {device, line[1]}
  BY <1>4
<1>7. starts' = Counted(device, after, starts)
  BY DEF Counted
<1> HIDE DEF n, line, quiet, count, device
<1>8. Owed(Pipe(after, Rest(line, n), n - 1, AsksDiesel(m_soc), AsksDiesel(Report)), n + 1,
           Counted(device, after, starts), count, quiet)
  BY <1>1, <1>2, <1>5, <1>6, CommandLeaves
<1>9. Owed(Pipe(after, DieselLine(dieselReq'), Len(dieselReq'), AsksDiesel(m_soc),
                AsksDiesel(Report)), Len(dieselReq') + 2, starts', count, quiet)
  BY <1>3, <1>4, <1>7, <1>8
<1>10. AsksDiesel(m_soc') = AsksDiesel(m_soc) /\ AsksDiesel(Report') = AsksDiesel(Report)
  BY DEF AsksDiesel
<1>. QED
  BY <1>1, <1>9, <1>10 DEF DieselOwed, quiet, count

LEMMA PvTakesOne ==
  ASSUME IInv, pvReq # <<>>, pvReq' = Tail(pvReq), Report' = Report,
         written' \in {written, Head(pvReq)},
         released' = (IF written.for = "stop" /\ written'.for # "stop"
                      THEN released + 1 ELSE released),
         UNCHANGED <<m_soc, peaks, full>>
  PROVE  PvOwed' /\ released' \in Nat
<1> USE DEF IInv
<1> DEFINE n == Len(pvReq)
           line == PvLine(pvReq)
           quiet == ~full
<1>1. n \in Nat \ {0} /\ peaks \in Nat /\ released \in Nat /\ pvReq \in Seq(Command)
  BY DEF ScheduleTypes
<1>2. quiet \in BOOLEAN
  OBVIOUS
<1>3. Len(pvReq') = n - 1 /\ Len(pvReq') + 2 = n + 1
  BY <1>1
<1>4. PvLine(pvReq') = Rest(line, n) /\ line[1] = Allows(Head(pvReq))
  BY <1>1, PvLines DEF Rest
<1>5. Owed(Pipe(Allows(written), line, n, AsksPv(m_soc), AsksPv(Report)),
           n + 2, released, peaks, quiet)
  BY DEF PvOwed
<1>6. Allows(written') \in {Allows(written), line[1]}
  BY <1>4 DEF Allows
<1>7. released' = Counted(Allows(written), Allows(written'), released)
  BY DEF Allows, Counted
<1> HIDE DEF n, line, quiet
<1>8. Owed(Pipe(Allows(written'), Rest(line, n), n - 1, AsksPv(m_soc), AsksPv(Report)), n + 1,
           Counted(Allows(written), Allows(written'), released), peaks, quiet)
  BY <1>1, <1>2, <1>5, <1>6, CommandLeaves
<1>9. Owed(Pipe(Allows(written'), PvLine(pvReq'), Len(pvReq'), AsksPv(m_soc), AsksPv(Report)),
           Len(pvReq') + 2, released', peaks, quiet)
  BY <1>3, <1>4, <1>7, <1>8
<1>10. AsksPv(m_soc') = AsksPv(m_soc) /\ AsksPv(Report') = AsksPv(Report)
  BY DEF AsksPv
<1>. QED
  BY <1>1, <1>9, <1>10 DEF PvOwed, quiet

LEMMA DieselWriteKeepsIInv ==
  ASSUME IInv, DieselWrite \/ DieselWriteFails
  PROVE  IInv'
<1>1. /\ dieselReq # <<>> /\ dieselReq' = Tail(dieselReq)
      /\ running' \in {running, Head(dieselReq)}
      /\ UNCHANGED <<soc, low, full, dips, peaks, m_soc, poll, pvReq, written, released>>
  BY DEF DieselWrite, DieselWriteFails, plant
<1>2. starts' = IF ~running /\ running' THEN starts + 1 ELSE starts
  BY DEF DieselWrite, DieselWriteFails
<1>3. Report' = Report
  BY <1>1 DEF Report
<1>4. DieselOwed' /\ starts' \in Nat
  <2>1. Turns(running') \in {Turns(running), Turns(Head(dieselReq))}
    <3>1. running' = running \/ running' = Head(dieselReq)
      BY <1>1
    <3>. QED
      BY <3>1, Zenon
  <2>2. starts' = IF Turns(running) = "off" /\ Turns(running') = "on" THEN starts + 1 ELSE starts
    BY <1>2 DEF Turns
  <2>. QED
    BY <1>1, <1>3, <2>1, <2>2, DieselTakesOne
<1>5. PvOwed'
  BY <1>1, <1>3, PvStays DEF IInv
<1>6. dieselReq' \in Seq(BOOLEAN) /\ running' \in BOOLEAN
  <2>1. dieselReq \in Seq(BOOLEAN) /\ running \in BOOLEAN
    BY DEF IInv, ScheduleTypes
  <2>2. Head(dieselReq) \in BOOLEAN /\ Tail(dieselReq) \in Seq(BOOLEAN)
    BY <1>1, <2>1
  <2>. QED
    BY <1>1, <2>1, <2>2
<1>7. ScheduleTypes' /\ Bands'
  BY <1>1, <1>4, <1>6 DEF IInv, ScheduleTypes, Bands
<1>. QED
  BY <1>4, <1>5, <1>7 DEF IInv

LEMMA PvWriteKeepsIInv ==
  ASSUME IInv, PvWrite \/ PvWriteFails
  PROVE  IInv'
<1>1. /\ pvReq # <<>> /\ pvReq' = Tail(pvReq)
      /\ written' \in {written, Head(pvReq)}
      /\ UNCHANGED <<soc, low, full, dips, peaks, m_soc, poll, dieselReq, running, starts>>
  BY DEF PvWrite, PvWriteFails, plant
<1>2. released' = IF written.for = "stop" /\ written'.for # "stop"
                  THEN released + 1 ELSE released
  BY DEF PvWrite, PvWriteFails
<1>3. Report' = Report
  BY <1>1 DEF Report
<1>4. PvOwed' /\ released' \in Nat
  BY <1>1, <1>2, <1>3, PvTakesOne
<1>5. DieselOwed'
  BY <1>1, <1>3, DieselStays DEF IInv
<1>6. pvReq' \in Seq(Command) /\ written' \in Command
  <2>1. pvReq \in Seq(Command) /\ written \in Command
    BY DEF IInv, ScheduleTypes
  <2>2. Head(pvReq) \in Command /\ Tail(pvReq) \in Seq(Command)
    BY <1>1, <2>1
  <2>. QED
    BY <1>1, <2>1, <2>2
<1>7. ScheduleTypes' /\ Bands'
  BY <1>1, <1>4, <1>6 DEF IInv, ScheduleTypes, Bands
<1>. QED
  BY <1>4, <1>5, <1>7 DEF IInv

LEMMA NextKeepsIInv == IInv /\ [Next]_vars => IInv'
<1> SUFFICES ASSUME IInv, [Next]_vars PROVE IInv'
  OBVIOUS
<1>1. CASE \E s \in Soc \ {soc} : ChargeChanges(s)
  BY <1>1, ChargeKeepsIInv
<1>2. CASE PollTimer \/ QueryFails
  BY <1>2, PollKeepsIInv
<1>3. CASE QueryAnswers
  BY <1>3, AnswerKeepsIInv
<1>4. CASE OnQueryCriticalData
  BY <1>4, HandlerKeepsIInv
<1>5. CASE EnergySchedule
  BY <1>5, ScheduleKeepsIInv
<1>6. CASE DieselWrite \/ DieselWriteFails
  BY <1>6, DieselWriteKeepsIInv
<1>7. CASE PvWrite \/ PvWriteFails
  BY <1>7, PvWriteKeepsIInv
<1>8. CASE UNCHANGED vars
  <2>1. Report' = Report
    BY <1>8 DEF vars, Report
  <2>2. ScheduleTypes' /\ Bands'
    BY <1>8 DEF vars, plant, IInv, ScheduleTypes, Bands
  <2>3. UNCHANGED <<m_soc, dieselReq, running, starts, dips, low>>
        /\ UNCHANGED <<m_soc, pvReq, written, released, peaks, full>>
    BY <1>8 DEF vars, plant
  <2>. QED
    BY <2>1, <2>2, <2>3, DieselStays, PvStays DEF IInv
<1>. QED
  BY <1>1, <1>2, <1>3, <1>4, <1>5, <1>6, <1>7, <1>8 DEF Next

(* The schedule's hysteresis holds end to end: however old the report of   *)
(* the charge is, however long the lists of requests and whatever write is *)
(* lost, the diesel starts only for a dip of the charge, and production is *)
(* allowed again only for a peak that has passed (EnergySchedule()).       *)
THEOREM ScheduleDoesNotChatter == Spec => []DoesNotChatter
<1>1. IInv => DoesNotChatter
  <2> SUFFICES ASSUME IInv PROVE DoesNotChatter
    OBVIOUS
  <2>1. starts \in Nat /\ dips \in Nat /\ released \in Nat /\ peaks \in Nat
        /\ Len(dieselReq) \in Nat /\ Len(pvReq) \in Nat
    BY DEF IInv, ScheduleTypes
  <2>2. starts <= dips + 1
    BY <2>1 DEF IInv, DieselOwed, Owed
  <2>3. released <= peaks
    BY <2>1 DEF IInv, PvOwed, Owed
  <2>. QED
    BY <2>1, <2>2, <2>3 DEF DoesNotChatter, DieselDoesNotChatter, PvDoesNotChatter
<1>. QED
  BY <1>1, InitIInv, NextKeepsIInv, PTL DEF Spec

-----------------------------------------------------------------------------
(* Where the query of a chain is between two expiries of its timer.        *)
Asking(l)     == \E i \in 1 .. Len(reqs) : reqs[i] = l
Working(l)    == work # Idle /\ work.level = l
Answering(l)  == \E i \in 1 .. Len(acks) : acks[i].level = l
Publishing(l) == handling # Idle /\ handling.level = l

QueryOf(l) ==
  [at : {"query"}, level : {l}, next : 1 .. Table[l].reads + 1, ok : BOOLEAN,
   buf : [Blocks(l) -> Int]]
AnswerOf(l) ==
  [at : {"answer"}, level : {l}, buf : [Blocks(l) -> Int], ok : BOOLEAN]
Answers == UNION {AnswerOf(l) : l \in Level}

DriverTypes ==
  /\ driver \in DOMAIN Drivers /\ ver \in Nat
  /\ armed \subseteq Level /\ reqs \in Seq(Level)
  /\ work = Idle \/ (work \in QueryOf(work.level) /\ work.level \in Level)
  /\ shared \in [Blocks("critical") -> Int]
  /\ acks \in Seq(Answers)
  /\ handling = Idle \/ handling \in Answers
  /\ DOMAIN pub = Level
  /\ asked \in [Level -> Nat] /\ \A l \in Level : asked[l] <= ver

(* A timer, a request, the query that runs, an answer or its handler: a    *)
(* chain is one of them, once.                                             *)
OneAtATime ==
  /\ \A i, j \in 1 .. Len(reqs) : reqs[i] = reqs[j] => i = j
  /\ \A i, j \in 1 .. Len(acks) : acks[i].level = acks[j].level => i = j
  /\ \A l \in armed : ~Asking(l) /\ ~Working(l) /\ ~Answering(l) /\ ~Publishing(l)
  /\ \A l \in Level :
       /\ Asking(l) => ~Working(l) /\ ~Answering(l) /\ ~Publishing(l)
       /\ Working(l) => ~Answering(l) /\ ~Publishing(l)
       /\ Answering(l) => ~Publishing(l)

(* The first n blocks of a buffer were read since the timer fired.         *)
Fresh(l, buf, n, since) == \A b \in 1 .. n : buf[b] >= since[l]
Filled(l, buf, sh) == IF Table[l].fills = "shared" THEN sh ELSE buf

(* What a strict chain has read so far, and what it sent, is fresh unless  *)
(* a read failed; after a failure it reads no more.                        *)
FreshQuery(query, sh, since) ==
  LET l == query.level IN
  l \in Strict =>
    IF query.ok THEN Fresh(l, Filled(l, query.buf, sh), query.next - 1, since)
    ELSE query.next > Table[l].reads
FreshAnswer(answer, sh, since) ==
  LET l == answer.level IN
  l \in Strict /\ answer.ok => Fresh(l, Filled(l, answer.buf, sh), Table[l].reads, since)
FreshOrFailed ==
  /\ work # Idle => FreshQuery(work, shared, asked)
  /\ \A i \in 1 .. Len(acks) : FreshAnswer(acks[i], shared, asked)
  /\ handling # Idle => FreshAnswer(handling, shared, asked)

DriversInv == DriverTypes /\ OneAtATime /\ FreshOrFailed

(* What the proofs need to know of the drivers that there are.             *)
LEMMA TheChains ==
  ASSUME driver \in DOMAIN Drivers
  PROVE  /\ "critical" \in Level /\ Strict \subseteq Level
         /\ \A l \in Level : Table[l].reads \in 1 .. 3
         /\ \A l \in Level : Table[l].fills = "shared" => l = "critical"
         /\ \A l \in Level : Table[l].sends = "shared" =>
              l = "critical" \/ (driver = "SG1100" /\ l = "important")
         /\ \A l \in Strict :
              /\ Table[l].checks /\ Table[l].reports
              /\ Table[l].sends = Table[l].fills /\ Table[l].fills \in {"own", "shared"}
              /\ Table[l].aborts \/ Table[l].reads = 1
<1> USE DEF Level, Table, Drivers, Three, Chain, Strict
<1>1. CASE driver = "SG1100"
  BY <1>1 DEF SG1100Critical, SG1100Important, SG1100Unimportant
<1>2. CASE driver = "DGTest"
  BY <1>2 DEF DGTestCritical, DGTestImportant, DGTestUnimportant
<1>3. CASE driver = "SC5000"
  BY <1>3 DEF SC5000Critical, SC5000Important, SC5000Unimportant
<1>4. CASE driver = "YT320"
  BY <1>4 DEF YT320Critical
<1>. QED
  BY <1>1, <1>2, <1>3, <1>4

LEMMA InitDriversInv == DriversInit => DriversInv
<1> SUFFICES ASSUME DriversInit PROVE DriversInv
  OBVIOUS
<1> USE DEF DriversInit
<1>1. driver \in DOMAIN Drivers /\ "critical" \in Level /\ Table["critical"].reads \in 1 .. 3
  BY TheChains
<1>2. DriverTypes
  <2>1. \A l \in Level : asked[l] <= ver
    OBVIOUS
  <2>3. reqs \in Seq(Level) /\ acks \in Seq(Answers) /\ armed \subseteq Level
        /\ work = Idle /\ handling = Idle /\ ver \in Nat
    OBVIOUS
  <2>2. shared \in [Blocks("critical") -> Int] /\ DOMAIN pub = Level /\ asked \in [Level -> Nat]
    BY <1>1 DEF Zeros, Blocks
  <2>. QED
    BY <1>1, <2>1, <2>2, <2>3 DEF DriverTypes
<1>3. OneAtATime
  BY DEF OneAtATime, Asking, Working, Answering, Publishing
<1>4. FreshOrFailed
  BY DEF FreshOrFailed
<1>. QED
  BY <1>2, <1>3, <1>4 DEF DriversInv

LEMMA ChangeKeepsDriversInv ==
  ASSUME DriversInv, DeviceChanges
  PROVE  DriversInv'
<1> USE DEF DriversInv, DeviceChanges
<1>1. UNCHANGED <<Level, Table, Strict>>
  BY DEF Level, Table, Strict
<1>2. DriverTypes'
  BY <1>1 DEF DriverTypes, QueryOf, AnswerOf, Answers, Blocks
<1>3. OneAtATime'
  BY <1>1 DEF OneAtATime, Asking, Working, Answering, Publishing
<1>4. FreshOrFailed'
  BY <1>1 DEF FreshOrFailed, FreshQuery, FreshAnswer, Filled
<1>. QED
  BY <1>2, <1>3, <1>4

LEMMA TimerKeepsDriversInv ==
  ASSUME DriversInv, NEW l \in Level, TimerFires(l)
  PROVE  DriversInv'
<1> USE DEF DriversInv
<1>1. UNCHANGED <<Level, Table, Strict>>
  BY DEF Level, Table, Strict, TimerFires
<1>2. /\ l \in armed /\ armed' = armed \ {l} /\ reqs' = Append(reqs, l) /\ reqs \in Seq(Level)
      /\ handling = Idle
      /\ asked' = [asked EXCEPT ![l] = ver]
      /\ UNCHANGED <<driver, ver, work, shared, acks, handling, pub>>
  BY DEF TimerFires, DriverTypes
<1>3. DriverTypes'
  <2>1. asked' \in [Level -> Nat] /\ \A k \in Level : asked'[k] <= ver
    BY <1>2 DEF DriverTypes
  <2>2. reqs' \in Seq(Level) /\ armed' \subseteq Level
    BY <1>2 DEF DriverTypes
  <2>3. Answers' = Answers /\ (\A k : QueryOf(k)' = QueryOf(k) /\ Blocks(k)' = Blocks(k))
    BY <1>1 DEF QueryOf, AnswerOf, Answers, Blocks
  <2>. QED
    BY <1>1, <1>2, <2>1, <2>2, <2>3 DEF DriverTypes
<1>4. ~Asking(l) /\ ~Working(l) /\ ~Answering(l) /\ ~Publishing(l)
  BY <1>2 DEF OneAtATime
<1>5. OneAtATime'
  <2>1. \A i \in 1 .. Len(reqs') : reqs'[i] = IF i = Len(reqs) + 1 THEN l ELSE reqs[i]
    BY <1>2
  <2>2. Len(reqs') = Len(reqs) + 1 /\ Len(reqs) \in Nat
    BY <1>2
  <2>3. \A i, j \in 1 .. Len(reqs') : reqs'[i] = reqs'[j] => i = j
    BY <1>4, <2>1, <2>2 DEF OneAtATime, Asking
  <2>4. \A k : Asking(k)' <=> Asking(k) \/ k = l
    BY <2>1, <2>2 DEF Asking
  <2>5. \A k : /\ Working(k)' <=> Working(k)
               /\ Answering(k)' <=> Answering(k)
               /\ Publishing(k)' <=> Publishing(k)
    BY <1>2 DEF Working, Answering, Publishing
  <2>. QED
    BY <1>1, <1>2, <1>4, <2>3, <2>4, <2>5 DEF OneAtATime
<1>6. FreshOrFailed'
  <2>1. \A k \in Level : k # l => asked'[k] = asked[k]
    BY <1>2 DEF DriverTypes
  <2>2. Strict \subseteq Level
    BY TheChains DEF DriverTypes
  <2>3. work # Idle => FreshQuery(work, shared, asked')
    BY <1>4, <2>1, <2>2 DEF FreshOrFailed, FreshQuery, Fresh, Working
  <2>4. ASSUME NEW i \in 1 .. Len(acks) PROVE FreshAnswer(acks[i], shared, asked')
    BY <1>4, <2>1, <2>2 DEF FreshOrFailed, FreshAnswer, Fresh, Answering
  <2>. QED
    BY <1>1, <1>2, <2>3, <2>4 DEF FreshOrFailed, FreshQuery, FreshAnswer, Filled
<1>. QED
  BY <1>3, <1>5, <1>6

LEMMA StartKeepsDriversInv ==
  ASSUME DriversInv, StartQuery
  PROVE  DriversInv'
<1> USE DEF DriversInv
<1> DEFINE l == Head(reqs)
<1>1. UNCHANGED <<Level, Table, Strict>>
  BY DEF Level, Table, Strict, StartQuery
<1>2. /\ work = Idle /\ reqs # <<>> /\ reqs \in Seq(Level) /\ reqs' = Tail(reqs)
      /\ work' = [at |-> "query", level |-> l, next |-> 1, ok |-> TRUE, buf |-> Zeros(l)]
      /\ UNCHANGED <<driver, ver, armed, shared, acks, handling, pub, asked>>
  BY DEF StartQuery, DriverTypes
<1>3. l \in Level /\ l = reqs[1] /\ Len(reqs) \in Nat \ {0} /\ Len(reqs') = Len(reqs) - 1
      /\ (\A i \in 1 .. Len(reqs') : reqs'[i] = reqs[i + 1]) /\ reqs' \in Seq(Level)
  BY <1>2
<1>4. Table[l].reads \in 1 .. 3
  BY <1>3, TheChains DEF DriverTypes
<1> HIDE DEF l
<1>5. work' \in QueryOf(l) /\ work' # Idle /\ work'.level = l /\ work'.ok /\ work'.next = 1
  BY <1>2, <1>4 DEF QueryOf, Zeros, Blocks, Idle
<1>6. DriverTypes'
  <2>1. Answers' = Answers /\ (\A k : QueryOf(k)' = QueryOf(k) /\ Blocks(k)' = Blocks(k))
    BY <1>1 DEF QueryOf, AnswerOf, Answers, Blocks
  <2>. QED
    BY <1>1, <1>2, <1>3, <1>5, <2>1 DEF DriverTypes
<1>7. OneAtATime'
  <2>1. \A i, j \in 1 .. Len(reqs') : reqs'[i] = reqs'[j] => i = j
    BY <1>3 DEF OneAtATime
  <2>2. \A k : Asking(k)' => Asking(k) /\ k # l
    BY <1>3 DEF OneAtATime, Asking
  <2>3. Asking(l)
    BY <1>3 DEF Asking
  <2>4. \A k : /\ Working(k)' <=> k = l
               /\ Answering(k)' <=> Answering(k)
               /\ Publishing(k)' <=> Publishing(k)
    BY <1>2, <1>5 DEF Working, Answering, Publishing
  <2>. QED
    BY <1>1, <1>2, <1>3, <2>1, <2>2, <2>3, <2>4 DEF OneAtATime
<1>8. FreshOrFailed'
  <2>1. FreshQuery(work', shared, asked)
    BY <1>5 DEF FreshQuery, Fresh
  <2>. QED
    BY <1>1, <1>2, <2>1 DEF FreshOrFailed, FreshQuery, FreshAnswer, Filled
<1>. QED
  BY <1>6, <1>7, <1>8

(* What a read that succeeds or fails leaves as it is.                     *)
LEMMA ReadKeepsDriversInv ==
  ASSUME DriversInv, ReadSucceeds \/ ReadFails
  PROVE  DriversInv'
<1> USE DEF DriversInv
<1> DEFINE l == work.level
<1>1. UNCHANGED <<Level, Table, Strict>>
  BY DEF Level, Table, Strict, ReadSucceeds, ReadFails
<1>2. /\ Reading /\ work # Idle /\ work \in QueryOf(l) /\ l \in Level
           /\ work.next \in 1 .. Table[l].reads
      /\ UNCHANGED <<driver, ver, armed, reqs, acks, handling, pub, asked>>
  BY DEF ReadSucceeds, ReadFails, Reading, DriverTypes, Blocks
<1>3. /\ Table[l].reads \in 1 .. 3
      /\ \A k \in Level : Table[k].fills = "shared" => k = "critical"
      /\ Strict \subseteq Level
      /\ l \in Strict => Table[l].aborts \/ Table[l].reads = 1
  BY <1>2, TheChains DEF DriverTypes
<1>4. work' \in QueryOf(l) /\ work'.level = l /\ work' # Idle
          /\ shared' \in [Blocks("critical") -> Int]
  <2>1. shared \in [Blocks("critical") -> Int] /\ ver \in Int
    BY DEF DriverTypes
  <2>2. work.buf \in [Blocks(l) -> Int]
            /\ [work.buf EXCEPT ![work.next] = ver] \in [Blocks(l) -> Int]
    BY <1>2, <2>1 DEF QueryOf
  <2>3. work.next + 1 \in 1 .. Table[l].reads + 1 /\ Table[l].reads + 1 \in 1 .. Table[l].reads + 1
    BY <1>2, <1>3
  <2>4. ASSUME NEW n \in 1 .. Table[l].reads + 1, NEW ok \in BOOLEAN, NEW buf \in [Blocks(l) -> Int]
        PROVE  /\ [at |-> "query", level |-> l, next |-> n, ok |-> ok, buf |-> buf] \in QueryOf(l)
               /\ [at |-> "query", level |-> l, next |-> n, ok |-> ok, buf |-> buf] # Idle
    BY DEF QueryOf, Idle
  <2>6. CASE ReadSucceeds /\ Table[l].fills = "shared"
    <3>1. work' = [at |-> "query", level |-> l, next |-> work.next + 1, ok |-> TRUE,
              buf |-> work.buf]
      BY <1>2, <2>6 DEF ReadSucceeds, QueryOf
    <3>2. shared' = [shared EXCEPT ![work.next] = ver]
      BY <2>6 DEF ReadSucceeds
    <3>3. work' \in QueryOf(l) /\ work' # Idle
      BY <2>2, <2>3, <2>4, <3>1
    <3>. QED
      BY <2>1, <3>1, <3>2, <3>3
  <2>7. CASE ReadSucceeds /\ Table[l].fills # "shared"
    <3>1. work' = [at |-> "query", level |-> l, next |-> work.next + 1, ok |-> TRUE,
                   buf |-> [work.buf EXCEPT ![work.next] = ver]]
      BY <1>2, <2>7 DEF ReadSucceeds, QueryOf
    <3>2. shared' = shared
      BY <2>7 DEF ReadSucceeds
    <3>3. work' \in QueryOf(l) /\ work' # Idle
      BY <2>2, <2>3, <2>4, <3>1
    <3>. QED
      BY <2>1, <3>1, <3>2, <3>3
  <2>8. CASE ReadFails
    <3>1. work' = [at |-> "query", level |-> l, next |-> AfterFailure(l, work.next), ok |-> FALSE,
                   buf |-> work.buf]
      BY <1>2, <2>8 DEF ReadFails, QueryOf
    <3>2. shared' = shared
      BY <2>8 DEF ReadFails
    <3>3. AfterFailure(l, work.next) \in 1 .. Table[l].reads + 1
      BY <2>3 DEF AfterFailure
    <3>4. work' \in QueryOf(l) /\ work' # Idle
      BY <2>2, <2>4, <3>1, <3>3
    <3>. QED
      BY <2>1, <3>1, <3>2, <3>4
  <2>. QED
    BY <2>6, <2>7, <2>8
<1>5. DriverTypes'
  <2>1. Answers' = Answers /\ (\A k : QueryOf(k)' = QueryOf(k) /\ Blocks(k)' = Blocks(k))
    BY <1>1 DEF QueryOf, AnswerOf, Answers, Blocks
  <2>. QED
    BY <1>1, <1>2, <1>4, <2>1 DEF DriverTypes
<1>6. OneAtATime'
  BY <1>1, <1>2, <1>4 DEF OneAtATime, Asking, Working, Answering, Publishing
<1>7. Table[l].fills # "shared" => shared' = shared
  BY DEF ReadSucceeds, ReadFails
<1>8. ASSUME NEW answer, FreshAnswer(answer, shared, asked), answer.level # l
      PROVE  FreshAnswer(answer, shared', asked)
  <2>1. answer.level \in Strict =>
          Filled(answer.level, answer.buf, shared') = Filled(answer.level, answer.buf, shared)
    BY <1>2, <1>3, <1>7, <1>8 DEF Filled
  <2>. QED
    BY <1>8, <2>1 DEF FreshAnswer
<1>9. /\ \A i \in 1 .. Len(acks) : FreshAnswer(acks[i], shared', asked)
      /\ handling # Idle => FreshAnswer(handling, shared', asked)
  <2>1. \A i \in 1 .. Len(acks) : acks[i].level # l
    BY <1>2 DEF OneAtATime, Working, Answering
  <2>2. handling # Idle => handling.level # l
    BY <1>2 DEF OneAtATime, Working, Publishing
  <2>. QED
    BY <1>8, <2>1, <2>2 DEF FreshOrFailed
<1>10. ASSUME l \in Strict
       PROVE  IF work'.ok THEN Fresh(l, Filled(l, work'.buf, shared'), work'.next - 1, asked)
              ELSE work'.next > Table[l].reads
  <2> DEFINE old == Filled(l, work.buf, shared)
             new == Filled(l, work'.buf, shared')
  <2>1. work.ok /\ Fresh(l, old, work.next - 1, asked) /\ work.next \in 1 .. Table[l].reads
    BY <1>2, <1>3, <1>10 DEF FreshOrFailed, FreshQuery
  <2>2. CASE ReadSucceeds
    <3>1. work'.ok /\ work'.next = work.next + 1
      BY <1>2, <2>2 DEF ReadSucceeds, QueryOf
    <3>2. new = [old EXCEPT ![work.next] = ver]
      <4>1. CASE Table[l].fills = "shared"
        BY <1>2, <2>2, <4>1 DEF ReadSucceeds, QueryOf, Filled
      <4>2. CASE Table[l].fills # "shared"
        BY <1>2, <2>2, <4>2 DEF ReadSucceeds, QueryOf, Filled
      <4>. QED
        BY <4>1, <4>2
    <3>3. DOMAIN old = 1 .. Table[l].reads
      BY <1>2, <1>3 DEF Filled, QueryOf, Blocks, DriverTypes
    <3>4. ver >= asked[l]
      BY <1>2 DEF DriverTypes
    <3> HIDE DEF old, new
    <3>5. ASSUME NEW b \in 1 .. work.next
          PROVE  new[b] >= asked[l]
      <4>1. CASE b = work.next
        BY <2>1, <3>2, <3>3, <3>4, <4>1
      <4>2. CASE b # work.next
        <5>1. b \in 1 .. work.next - 1 /\ b \in 1 .. Table[l].reads
          BY <1>3, <2>1, <3>5, <4>2
        <5>2. new[b] = old[b]
          BY <3>2, <3>3, <4>2, <5>1
        <5>. QED
          BY <2>1, <5>1, <5>2 DEF Fresh
      <4>. QED
        BY <4>1, <4>2
    <3>6. Fresh(l, new, work'.next - 1, asked)
      BY <2>1, <3>1, <3>5, <1>3 DEF Fresh
    <3>. QED
      BY <3>1, <3>6 DEF new
  <2>3. CASE ReadFails
    <3>1. ~work'.ok /\ work'.next = AfterFailure(l, work.next)
      BY <1>2, <2>3 DEF ReadFails, QueryOf
    <3>2. work'.next > Table[l].reads
      BY <1>3, <1>10, <2>1, <3>1 DEF AfterFailure
    <3>. QED
      BY <3>1, <3>2
  <2>. QED
    BY <2>2, <2>3
<1>11. FreshOrFailed'
  <2>1. FreshQuery(work', shared', asked)
    BY <1>4, <1>10 DEF FreshQuery
  <2>. QED
    BY <1>1, <1>2, <1>9, <2>1 DEF FreshOrFailed, FreshQuery, FreshAnswer, Filled
<1>. QED
  BY <1>5, <1>6, <1>11

LEMMA SendKeepsDriversInv ==
  ASSUME DriversInv, SendAnswer
  PROVE  DriversInv'
<1> USE DEF DriversInv
<1> DEFINE l == work.level
           answer == [at |-> "answer", level |-> l, buf |-> work.buf,
                      ok |-> Table[l].reports => work.ok]
<1>1. UNCHANGED <<Level, Table, Strict>>
  BY DEF Level, Table, Strict, SendAnswer
<1>2. /\ work # Idle /\ ~Reading /\ work' = Idle /\ acks \in Seq(Answers)
      /\ acks' = Append(acks, answer)
      /\ UNCHANGED <<driver, ver, armed, reqs, shared, handling, pub, asked>>
      /\ work \in QueryOf(l) /\ l \in Level
  BY DEF SendAnswer, DriverTypes
<1>3. answer \in Answers /\ answer.level = l /\ answer.buf = work.buf
  <2>1. (Table[l].reports => work.ok) \in BOOLEAN
    OBVIOUS
  <2>2. answer \in AnswerOf(l)
    BY <1>2, <2>1 DEF QueryOf, AnswerOf
  <2>. QED
    BY <1>2, <2>2 DEF Answers
<1>4. FreshAnswer(answer, shared, asked)
  <2>1. CASE l \in Strict /\ answer.ok
    <3>1. Table[l].reports /\ Table[l].reads \in 1 .. 3
      BY <1>2, <2>1, TheChains DEF DriverTypes
    <3>2. work.ok
      BY <2>1, <3>1
    <3>3. work.next = Table[l].reads + 1
      BY <1>2, <3>1 DEF QueryOf, Reading, Blocks
    <3>4. Fresh(l, Filled(l, work.buf, shared), work.next - 1, asked)
      BY <1>2, <2>1, <3>2 DEF FreshOrFailed, FreshQuery
    <3>5. work.next - 1 = Table[l].reads
      BY <3>1, <3>3
    <3>. QED
      BY <1>3, <3>4, <3>5 DEF FreshAnswer
  <2>. QED
    BY <1>3, <2>1 DEF FreshAnswer
<1> HIDE DEF answer
<1>5. /\ Len(acks') = Len(acks) + 1 /\ Len(acks) \in Nat /\ acks' \in Seq(Answers)
      /\ \A i \in 1 .. Len(acks') : acks'[i] = IF i = Len(acks) + 1 THEN answer ELSE acks[i]
  BY <1>2, <1>3
<1>6. DriverTypes'
  <2>1. Answers' = Answers /\ (\A k : Blocks(k)' = Blocks(k))
    BY <1>1 DEF AnswerOf, Answers, Blocks
  <2>. QED
    BY <1>1, <1>2, <1>5, <2>1 DEF DriverTypes
<1>7. OneAtATime'
  <2>1. Working(l)
    BY <1>2 DEF Working
  <2>2. \A i \in 1 .. Len(acks) : acks[i].level # l
    BY <1>2, <2>1 DEF OneAtATime, Answering
  <2>3. \A i, j \in 1 .. Len(acks') : acks'[i].level = acks'[j].level => i = j
    BY <1>3, <1>5, <2>2 DEF OneAtATime
  <2>4. \A k : Answering(k)' <=> Answering(k) \/ k = l
    BY <1>3, <1>5 DEF Answering
  <2>5. \A k : /\ Asking(k)' <=> Asking(k)
               /\ ~Working(k)'
               /\ Publishing(k)' <=> Publishing(k)
    BY <1>2 DEF Working, Asking, Publishing
  <2>. QED
    BY <1>1, <1>2, <2>1, <2>3, <2>4, <2>5 DEF OneAtATime
<1>8. FreshOrFailed'
  <2>1. \A i \in 1 .. Len(acks') : FreshAnswer(acks'[i], shared, asked)
    BY <1>4, <1>5 DEF FreshOrFailed
  <2>. QED
    BY <1>1, <1>2, <2>1 DEF FreshOrFailed, FreshQuery, FreshAnswer, Filled
<1>. QED
  BY <1>6, <1>7, <1>8

LEMMA TakeKeepsDriversInv ==
  ASSUME DriversInv, StartHandler
  PROVE  DriversInv'
<1> USE DEF DriversInv
<1>1. UNCHANGED <<Level, Table, Strict>>
  BY DEF Level, Table, Strict, StartHandler
<1>2. /\ handling = Idle /\ acks # <<>> /\ acks \in Seq(Answers)
      /\ handling' = Head(acks) /\ acks' = Tail(acks)
      /\ UNCHANGED <<driver, ver, armed, reqs, work, shared, pub, asked>>
  BY DEF StartHandler, DriverTypes
<1>3. /\ Len(acks) \in Nat \ {0} /\ Len(acks') = Len(acks) - 1 /\ acks' \in Seq(Answers)
      /\ \A i \in 1 .. Len(acks') : acks'[i] = acks[i + 1]
      /\ handling' = acks[1] /\ handling' \in Answers
  BY <1>2
<1>4. handling'.level \in Level /\ handling' # Idle
  BY <1>3 DEF Answers, AnswerOf, Idle
<1>5. DriverTypes'
  <2>1. Answers' = Answers /\ (\A k : Blocks(k)' = Blocks(k) /\ QueryOf(k)' = QueryOf(k))
    BY <1>1 DEF AnswerOf, Answers, Blocks, QueryOf
  <2>. QED
    BY <1>1, <1>2, <1>3, <2>1 DEF DriverTypes
<1>6. OneAtATime'
  <2>1. \A i, j \in 1 .. Len(acks') : acks'[i].level = acks'[j].level => i = j
    <3>1. \A i, j \in 1 .. Len(acks) : acks[i].level = acks[j].level => i = j
      BY DEF OneAtATime
    <3>2. \A i \in 1 .. Len(acks') : i + 1 \in 1 .. Len(acks) /\ acks'[i] = acks[i + 1]
      BY <1>3
    <3> HIDE DEF DriversInv
    <3>. SUFFICES ASSUME NEW i \in 1 .. Len(acks'), NEW j \in 1 .. Len(acks'),
                         acks'[i].level = acks'[j].level
                  PROVE  i = j
      OBVIOUS
    <3>3. i + 1 = j + 1
      BY <3>1, <3>2
    <3>. QED
      BY <1>3, <3>3
  <2>2. \A k : Answering(k)' => Answering(k) /\ k # handling'.level
    BY <1>3 DEF OneAtATime, Answering
  <2>3. Answering(handling'.level)
    BY <1>3 DEF Answering
  <2>4. \A k : /\ Asking(k)' <=> Asking(k)
               /\ Working(k)' <=> Working(k)
               /\ Publishing(k)' <=> k = handling'.level
    BY <1>2, <1>4 DEF Working, Asking, Publishing
  <2>. QED
    BY <1>1, <1>2, <1>4, <2>1, <2>2, <2>3, <2>4 DEF OneAtATime
<1>7. FreshOrFailed'
  <2>1. /\ \A i \in 1 .. Len(acks') : FreshAnswer(acks'[i], shared, asked)
        /\ FreshAnswer(handling', shared, asked)
    BY <1>3 DEF FreshOrFailed
  <2>. QED
    BY <1>1, <1>2, <2>1 DEF FreshOrFailed, FreshQuery, FreshAnswer, Filled
<1>. QED
  BY <1>5, <1>6, <1>7

LEMMA HandleKeepsDriversInv ==
  ASSUME DriversInv, EndHandler
  PROVE  DriversInv'
<1> USE DEF DriversInv
<1> DEFINE l == handling.level
<1>1. UNCHANGED <<Level, Table, Strict>>
  BY DEF Level, Table, Strict, EndHandler
<1>2. /\ handling # Idle /\ handling' = Idle /\ armed' = armed \cup {l}
      /\ UNCHANGED <<driver, ver, reqs, work, shared, acks, asked>>
      /\ DOMAIN pub' = DOMAIN pub /\ handling \in Answers
  BY DEF EndHandler, DriverTypes
<1>3. l \in Level
  BY <1>2 DEF Answers, AnswerOf
<1>4. DriverTypes'
  <2>1. Answers' = Answers /\ (\A k : Blocks(k)' = Blocks(k) /\ QueryOf(k)' = QueryOf(k))
    BY <1>1 DEF AnswerOf, Answers, Blocks, QueryOf
  <2>. QED
    BY <1>1, <1>2, <1>3, <2>1 DEF DriverTypes
<1>5. OneAtATime'
  <2>1. \A k : /\ Asking(k)' <=> Asking(k)
               /\ Working(k)' <=> Working(k)
               /\ Answering(k)' <=> Answering(k)
               /\ ~Publishing(k)'
    BY <1>2 DEF Working, Asking, Answering, Publishing
  <2>2. ~Asking(l) /\ ~Working(l) /\ ~Answering(l)
    BY <1>2, <1>3 DEF OneAtATime, Publishing
  <2>. QED
    BY <1>1, <1>2, <2>1, <2>2 DEF OneAtATime
<1>6. FreshOrFailed'
  BY <1>1, <1>2 DEF FreshOrFailed, FreshQuery, FreshAnswer, Filled
<1>. QED
  BY <1>4, <1>5, <1>6

LEMMA NextKeepsDriversInv == DriversInv /\ [DriversNext]_driversVars => DriversInv'
<1> SUFFICES ASSUME DriversInv, [DriversNext]_driversVars PROVE DriversInv'
  OBVIOUS
<1>1. CASE DeviceChanges
  BY <1>1, ChangeKeepsDriversInv
<1>2. CASE \E l \in Level : TimerFires(l)
  BY <1>2, TimerKeepsDriversInv
<1>3. CASE StartQuery
  BY <1>3, StartKeepsDriversInv
<1>4. CASE ReadSucceeds \/ ReadFails
  BY <1>4, ReadKeepsDriversInv
<1>5. CASE SendAnswer
  BY <1>5, SendKeepsDriversInv
<1>6. CASE StartHandler
  BY <1>6, TakeKeepsDriversInv
<1>7. CASE EndHandler
  BY <1>7, HandleKeepsDriversInv
<1>8. CASE UNCHANGED driversVars
  <2>1. UNCHANGED <<Level, Table, Strict>>
    BY <1>8 DEF driversVars, Level, Table, Strict
  <2>2. Answers' = Answers /\ (\A k : Blocks(k)' = Blocks(k) /\ QueryOf(k)' = QueryOf(k))
    BY <2>1 DEF AnswerOf, Answers, Blocks, QueryOf
  <2>3. DriverTypes'
    BY <1>8, <2>1, <2>2 DEF driversVars, DriversInv, DriverTypes
  <2>4. OneAtATime'
    BY <1>8, <2>1 DEF driversVars, DriversInv, OneAtATime, Asking, Working,
         Answering, Publishing
  <2>5. FreshOrFailed'
    BY <1>8, <2>1 DEF driversVars, DriversInv, FreshOrFailed, FreshQuery,
         FreshAnswer, Filled
  <2>. QED
    BY <2>3, <2>4, <2>5 DEF DriversInv
<1>. QED
  BY <1>1, <1>2, <1>3, <1>4, <1>5, <1>6, <1>7, <1>8 DEF DriversNext

(* A chain is never in flight twice, and so its timer is lock enough: no   *)
(* handler takes m_vec_critical_data while the worker fills it, except in  *)
(* SG1100, whose important handler is sent that buffer although another    *)
(* chain fills it (ProcessTimeOutEvent(), QueryImPortantData()).           *)
THEOREM OnlyImportantDataTear == DriversSpec => []TornOnlyBy
<1>1. DriversInv => TornOnlyBy
  <2> SUFFICES ASSUME DriversInv,
                      handling # Idle, Table[handling.level].sends = "shared",
                      work # Idle, Table[work.level].fills = "shared",
                      ~(driver = "SG1100" /\ handling.level = "important")
               PROVE  FALSE
    BY DEF TornOnlyBy
  <2>1. work.level \in Level /\ handling.level \in Level
    BY DEF DriversInv, DriverTypes, Answers, AnswerOf
  <2>2. work.level = "critical" /\ handling.level = "critical"
    BY <2>1, TheChains DEF DriversInv, DriverTypes
  <2>3. Working("critical") /\ Publishing("critical")
    BY <2>1, <2>2 DEF Working, Publishing
  <2>. QED
    BY <2>1, <2>2, <2>3 DEF DriversInv, OneAtATime
<1>. QED
  BY <1>1, InitDriversInv, NextKeepsDriversInv, PTL DEF DriversSpec

(* What a strict chain publishes is a complete sample, read after the      *)
(* timer fired that asked for it, whichever reads fail meanwhile           *)
(* (onQueryCriticalData() and its likes).                                  *)
THEOREM SamplesAreFresh == DriversSpec => PublishesFreshSamples
<1> DEFINE Step == \A l \in Strict : pub'[l] # pub[l] => \A b \in Blocks(l) : pub'[l][b] >= asked[l]
<1>1. DriversInv /\ [DriversNext]_driversVars => [Step]_driversVars
  <2> SUFFICES ASSUME DriversInv, DriversNext, NEW l \in Strict, pub'[l] # pub[l],
      NEW b \in Blocks(l)
               PROVE  pub'[l][b] >= asked[l]
    OBVIOUS
  <2>1. EndHandler
    BY DEF DriversNext, DeviceChanges, TimerFires, StartQuery, ReadSucceeds,
         ReadFails, SendAnswer,
           StartHandler
  <2>2. l \in Level /\ DOMAIN pub = Level
    BY TheChains DEF DriversInv, DriverTypes
  <2>3. Accepts(handling) /\ handling.level = l /\ pub'[l] = Content(handling)
    BY <2>1, <2>2 DEF EndHandler
  <2>4. /\ Table[l].checks /\ Table[l].sends = Table[l].fills
        /\ Table[l].fills \in {"own", "shared"}
    BY TheChains DEF DriversInv, DriverTypes
  <2>5. handling.ok /\ Content(handling) = Filled(l, handling.buf, shared)
    BY <2>3, <2>4 DEF Accepts, Content, Filled
  <2>6. Fresh(l, Filled(l, handling.buf, shared), Table[l].reads, asked)
    BY <2>1, <2>3, <2>5 DEF DriversInv, FreshOrFailed, FreshAnswer, EndHandler
  <2>. QED
    BY <2>3, <2>5, <2>6 DEF Fresh, Blocks
<1>. QED
  BY <1>1, InitDriversInv, NextKeepsDriversInv, PTL DEF DriversSpec, PublishesFreshSamples

-----------------------------------------------------------------------------
StartTypes ==
  /\ config \in [Entries -> Entry] /\ Entries \subseteq Nat \ {0}
  /\ pc \in {"ems", "create", "server", "start", "startEms", "loop", "dead"}
  /\ next \in Nat \ {0}
  /\ thread \in [Entries -> Int] /\ registered \in [Uuid -> Int]
  /\ managed \subseteq Created /\ scheduled \in Nat

(* A thread is chosen once, among those of the entry's line.               *)
ThreadsChosen ==
  \A i \in Created : thread[i] \in Threads(config[i].port) /\ i < next

(* Registered are devices that have a thread, under their own name.        *)
RegisteredAreCreated ==
  \A u \in Uuid : registered[u] # -1 =>
    IF registered[u] = 0 THEN u = Ems
    ELSE registered[u] \in Created /\ config[registered[u]].uuid = u

(* A device is found under its name, unless it has none and another one    *)
(* has none either and came first.                                         *)
ManagedAreRegistered ==
  pc # "dead" =>
    \A i \in managed :
      \/ registered[config[i].uuid] = i
      \/ /\ config[i].uuid = NoUuid
         /\ Ems = NoUuid \/ \E j \in Created : j < i /\ config[j].uuid = NoUuid

Devices == {registered[u] : u \in Uuid} \ {-1}

(* Started is what is registered; the schedule runs only once that is so.  *)
StartedAreRegistered ==
  /\ enabled \subseteq Devices \cup {0}
  /\ pc \in {"ems", "create", "server", "start"} => scheduled = 0
  /\ pc = "startEms" \/ (pc = "loop" /\ scheduled > 0) => Devices \subseteq enabled

StartInv ==
  /\ StartTypes /\ ThreadsChosen /\ RegisteredAreCreated /\ ManagedAreRegistered
  /\ StartedAreRegistered

(* A line's thread is one of the devices' threads, and there is one.       *)
LEMMA LineThreads ==
  ASSUME NEW port \in 0 .. MaxPort
  PROVE  /\ Threads(port) \subseteq 1 .. ThreadNum
         /\ port # 0 => \A s, t \in Threads(port) : s = t
<1>1. port % ThreadNum \in 0 .. ThreadNum - 1
  BY StartupAssumption
<1>. QED
  BY <1>1, StartupAssumption DEF Threads

LEMMA InitStartInv == StartInit => StartInv
<1> SUFFICES ASSUME StartInit PROVE StartInv
  OBVIOUS
<1> USE StartupAssumption DEF StartInit
<1>1. PICK n \in 0 .. MaxEntries : config \in [1 .. n -> Entry]
  BY DEF Configs
<1>2. Entries = 1 .. n /\ Created = {}
  BY <1>1 DEF Entries, Created
<1>3. StartTypes
  BY <1>1, <1>2 DEF StartTypes, Entries
<1>. QED
  BY <1>2, <1>3 DEF StartInv, ThreadsChosen, RegisteredAreCreated, ManagedAreRegistered,
                    StartedAreRegistered, Devices

(* What registering a device does to the names: a device that is not in    *)
(* yet gets in under a name nobody has; the only loser the process         *)
(* survives has no name, and somebody else has none.                       *)
LEMMA Registering ==
  ASSUME StartTypes, NEW u \in Uuid, NEW i \in Int, NEW then, then # "dead",
         RegisterDevice(u, i, then)
  PROVE  /\ registered' \in [Uuid -> Int]
         /\ \A v \in Uuid : registered'[v] # registered[v] =>
              v = u /\ registered[v] = -1 /\ registered'[v] = i
         /\ pc' \in {then, "dead"}
         /\ pc' # "dead" => registered'[u] = i \/ (u = NoUuid /\ registered[u] # -1)
<1>1. CASE registered[u] = -1 /\ registered' = [registered EXCEPT ![u] = i] /\ pc' = then
  BY <1>1 DEF StartTypes
<1>2. CASE /\ registered[u] # -1 /\ UNCHANGED registered
           /\ pc' = IF \E v \in Uuid \ {NoUuid} : registered[v] # -1 THEN "dead" ELSE then
  BY <1>2 DEF StartTypes
<1>. QED
  BY <1>1, <1>2 DEF RegisterDevice

LEMMA EmsKeepsStartInv ==
  ASSUME StartInv, InitEMSDevice
  PROVE  StartInv'
<1> USE StartupAssumption DEF StartInv
<1>1. /\ pc = "ems" /\ UNCHANGED <<config, next, opened, thread, managed, enabled, scheduled>>
      /\ Entries' = Entries /\ Created' = Created
  BY DEF InitEMSDevice, Entries, Created
<1>2. /\ registered' \in [Uuid -> Int] /\ pc' \in {"create", "dead"}
      /\ \A v \in Uuid : registered'[v] # registered[v] =>
              v = Ems /\ registered[v] = -1 /\ registered'[v] = 0
  <2>1. CASE RegisterDevice(Ems, 0, "create")
    BY <2>1, Registering
  <2>2. CASE UNCHANGED registered /\ pc' = "create"
    BY <2>2 DEF StartTypes
  <2>. QED
    BY <2>1, <2>2 DEF InitEMSDevice
<1>3. StartTypes'
  BY <1>1, <1>2 DEF StartTypes
<1>4. ThreadsChosen' /\ RegisteredAreCreated'
  BY <1>1, <1>2 DEF ThreadsChosen, Threads, RegisteredAreCreated
<1>5. ManagedAreRegistered'
  <2>1. \A i \in managed : config[i].uuid \in Uuid /\ i \in Nat \ {0}
    BY DEF StartTypes, Created, Entry
  <2>. QED
    BY <1>1, <1>2, <2>1 DEF ManagedAreRegistered
<1>6. StartedAreRegistered'
  BY <1>1, <1>2 DEF StartedAreRegistered, Devices, StartTypes
<1>. QED
  BY <1>3, <1>4, <1>5, <1>6

LEMMA CreateKeepsStartInv ==
  ASSUME StartInv, CreateDevice
  PROVE  StartInv'
<1> USE StartupAssumption DEF StartInv
<1> DEFINE u == config[next].uuid
<1>1. /\ pc = "create" /\ next \in Entries /\ next' = next + 1 /\ next \in Nat \ {0}
      /\ UNCHANGED <<config, enabled, scheduled>> /\ Entries' = Entries
      /\ managed' \subseteq managed \cup {next} /\ managed \subseteq managed'
      /\ u \in Uuid /\ config[next].port \in 0 .. MaxPort
  BY DEF CreateDevice, Entries, StartTypes, Entry
<1>2. PICK t \in Threads(config[next].port) : thread' = [thread EXCEPT ![next] = t]
  BY DEF CreateDevice
<1>3. t \in Int /\ t # -1
  BY <1>1, LineThreads
<1>4. /\ registered' \in [Uuid -> Int] /\ pc' \in {"create", "dead"}
      /\ \A v \in Uuid : registered'[v] # registered[v] =>
              v = u /\ registered[v] = -1 /\ registered'[v] = next
      /\ pc' # "dead" => registered'[u] = next \/ (u = NoUuid /\ registered[u] # -1)
  <2>1. RegisterDevice(u, next, "create")
    BY DEF CreateDevice
  <2> HIDE DEF u
  <2>. QED
    BY <1>1, <2>1, Registering
<1>5. thread' \in [Entries -> Int] /\ thread'[next] = t
      /\ \A i \in Entries : i # next => thread'[i] = thread[i]
  BY <1>1, <1>2, <1>3 DEF StartTypes
<1>6. Created' = Created \cup {next} /\ next \notin Created
  <2>1. next \notin Created
    BY <1>1 DEF ThreadsChosen
  <2>2. ASSUME NEW i \in Entries PROVE i \in Created' <=> i \in Created \cup {next}
    BY <1>1, <1>3, <1>5 DEF Created
  <2>. QED
    BY <1>1, <2>1, <2>2 DEF Created
<1>7. StartTypes'
  BY <1>1, <1>4, <1>5, <1>6 DEF StartTypes
<1>8. ThreadsChosen'
  <2>1. \A i \in Created : i \in Entries /\ i # next /\ i \in Nat /\ i < next + 1
    BY <1>1, <1>6 DEF ThreadsChosen, Created, StartTypes
  <2>2. \A i \in Created' : thread'[i] \in Threads(config[i].port) /\ i < next + 1
    BY <1>1, <1>2, <1>5, <1>6, <2>1 DEF ThreadsChosen
  <2>. QED
    BY <1>1, <2>2 DEF ThreadsChosen, Threads
<1>9. RegisteredAreCreated'
  BY <1>1, <1>4, <1>6 DEF RegisteredAreCreated
<1>10. ManagedAreRegistered'
  <2> SUFFICES ASSUME pc' # "dead", NEW i \in managed'
               PROVE  \/ registered'[config[i].uuid] = i
                      \/ /\ config[i].uuid = NoUuid
                         /\ Ems = NoUuid \/ \E j \in Created' : j < i /\ config[j].uuid = NoUuid
    BY <1>1 DEF ManagedAreRegistered
  <2>1. CASE i = next
    <3>1. CASE registered'[u] = next
      BY <2>1, <3>1
    <3>2. CASE u = NoUuid /\ registered[u] # -1
      <4>1. CASE registered[u] = 0
        BY <1>1, <2>1, <3>2, <4>1 DEF RegisteredAreCreated
      <4>2. CASE registered[u] # 0
        <5>1. registered[u] \in Created /\ config[registered[u]].uuid = NoUuid
          BY <1>1, <3>2, <4>2 DEF RegisteredAreCreated
        <5>2. registered[u] < next
          BY <5>1 DEF ThreadsChosen
        <5>. QED
          BY <1>6, <2>1, <3>2, <5>1, <5>2
      <4>. QED
        BY <4>1, <4>2
    <3>. QED
      BY <1>4, <3>1, <3>2
  <2>2. CASE i # next
    <3>1. i \in managed /\ config[i].uuid \in Uuid /\ i \in Nat \ {0}
      BY <1>1, <2>2 DEF StartTypes, Created, Entry
    <3>2. \/ registered[config[i].uuid] = i
          \/ /\ config[i].uuid = NoUuid
             /\ Ems = NoUuid \/ \E j \in Created : j < i /\ config[j].uuid = NoUuid
      BY <1>1, <3>1 DEF ManagedAreRegistered
    <3>. QED
      BY <1>4, <1>6, <3>1, <3>2
  <2>. QED
    BY <2>1, <2>2
<1>11. StartedAreRegistered'
  <2>1. Devices \subseteq Devices'
    <3>1. ASSUME NEW v \in Uuid, registered[v] # -1
          PROVE  registered[v] \in Devices'
      BY <1>4, <3>1 DEF Devices
    <3>. QED
      BY <3>1 DEF Devices
  <2>. QED
    BY <1>1, <1>4, <2>1 DEF StartedAreRegistered
<1>. QED
  BY <1>7, <1>8, <1>9, <1>10, <1>11

LEMMA RestKeepsStartInv ==
  ASSUME StartInv,
         \/ CreateFails \/ EndsEarly \/ AllCreated \/ EndInitEMS \/ StartDevices \/ StartEMS
         \/ UNCHANGED startVars
  PROVE  StartInv'
<1> USE StartupAssumption DEF StartInv
<1>1. UNCHANGED <<config, next, opened, thread, registered, managed>>
      /\ Entries' = Entries /\ Created' = Created /\ Devices' = Devices
  BY DEF CreateFails, EndsEarly, AllCreated, EndInitEMS, StartDevices, StartEMS,
       startVars,
         Entries, Created, Devices
<1>2. \/ pc = "create" /\ pc' = "server" /\ UNCHANGED <<enabled, scheduled>>
      \/ pc = "server" /\ pc' \in {"start", "loop"} /\ UNCHANGED <<enabled, scheduled>>
      \/ pc = "start" /\ pc' = "startEms" /\ Enable(Devices)
      \/ pc = "startEms" /\ pc' = "loop" /\ Enable({0})
      \/ UNCHANGED <<pc, enabled, scheduled>>
  BY DEF CreateFails, EndsEarly, AllCreated, EndInitEMS, StartDevices, StartEMS,
       startVars, Devices
<1>3. scheduled' \in Nat
  BY <1>2 DEF Enable, StartTypes
<1>4. StartTypes'
  BY <1>1, <1>2, <1>3 DEF StartTypes
<1>5. ThreadsChosen' /\ RegisteredAreCreated' /\ ManagedAreRegistered'
  BY <1>1, <1>2 DEF ThreadsChosen, Threads, RegisteredAreCreated, ManagedAreRegistered
<1>6. StartedAreRegistered'
  BY <1>1, <1>2 DEF StartedAreRegistered, Enable
<1>. QED
  BY <1>4, <1>5, <1>6

LEMMA NextKeepsStartInv == StartInv /\ [StartNext]_startVars => StartInv'
<1> SUFFICES ASSUME StartInv, [StartNext]_startVars PROVE StartInv'
  OBVIOUS
<1>1. CASE InitEMSDevice
  BY <1>1, EmsKeepsStartInv
<1>2. CASE CreateDevice
  BY <1>2, CreateKeepsStartInv
<1>3. CASE \/ CreateFails \/ EndsEarly \/ AllCreated \/ EndInitEMS \/ StartDevices \/ StartEMS
           \/ UNCHANGED startVars
  BY <1>3, RestKeepsStartInv
<1>. QED
  BY <1>1, <1>2, <1>3 DEF StartNext, RunLoop, Dead

(* Whatever Device.json lists and whatever fails, the devices of a line    *)
(* share one thread, which is not that of the log, and have it before they *)
(* are started (EMSDevice::SetDevAsyncCallThread()).                       *)
THEOREM LinesHaveOneThread == StartSpec => []ThreadsFit
<1>1. StartInv => ThreadsFit
  <2> SUFFICES ASSUME StartInv PROVE ThreadsFit
    OBVIOUS
  <2> USE StartupAssumption DEF StartInv
  <2>1. \A i \in Created : config[i].port \in 0 .. MaxPort /\ i \in Entries
    BY DEF StartTypes, Created, Entry
  <2>2. OneThreadPerLine
    BY <2>1, LineThreads DEF OneThreadPerLine, ThreadsChosen
  <2>3. \A i \in enabled \ {0} : i \in Created
    BY DEF StartedAreRegistered, RegisteredAreCreated, Devices
  <2>4. StartedHaveAThread
    BY <2>1, <2>3, LineThreads DEF StartedHaveAThread, ThreadsChosen
  <2>. QED
    BY <2>2, <2>4 DEF ThreadsFit
<1>. QED
  BY <1>1, InitStartInv, NextKeepsStartInv, PTL DEF StartSpec

(* A device the schedule counts and commands is also polled, unless it and *)
(* an earlier one have no uuid (DeviceManager::RegisterDevice(),           *)
(* StartEMS()).                                                            *)
THEOREM ScheduledDevicesArePolled == StartSpec => []CommandedArePolled
<1>1. StartInv => CommandedArePolled
  <2> SUFFICES ASSUME StartInv, pc = "loop", scheduled > 0, NEW i \in managed \ enabled
               PROVE  /\ config[i].uuid = NoUuid
                      /\ Ems = NoUuid \/ \E j \in Created : j < i /\ config[j].uuid = NoUuid
    BY DEF CommandedArePolled
  <2>1. config[i].uuid \in Uuid /\ i # -1
    BY DEF StartInv, StartTypes, Created, Entry
  <2>2. registered[config[i].uuid] # i
    BY <2>1 DEF StartInv, StartedAreRegistered, Devices
  <2>. QED
    BY <2>2 DEF StartInv, ManagedAreRegistered
<1>. QED
  BY <1>1, InitStartInv, NextKeepsStartInv, PTL DEF StartSpec
=============================================================================
