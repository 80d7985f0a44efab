---------------------------- MODULE PartsProofs ----------------------------
(***************************************************************************)
(* The parts of the program that work by themselves: the log is whole; the *)
(* entries of the kinds of devices do not mix, and an update that nothing  *)
(* has overtaken keeps what it was not meant to change; the data of calls  *)
(* are freed once; inputs and outputs settle.  For files of any size, any  *)
(* kinds of devices, and any number of lines, restarts, requests, threads, *)
(* blocks, reads and values under way.  And the socket buffer is a queue   *)
(* of bytes that reads no byte nobody wrote and wastes no more than half.  *)
(***************************************************************************)
EXTENDS BuffCache, LogFiles, Config, ShareData, DigitalIo, SequenceTheorems,
        FiniteSetTheorems, FunctionTheorems, TLAPS

-----------------------------------------------------------------------------
(* The log files *)

(* The sizes that the proof depends on. *)
Sizes == YearDays \in Nat \ {0} /\ MaxSize \in Nat \ {0} /\ MaxIndex \in Nat

LogTypeOK ==
  /\ today \in Nat /\ asked \in Nat
  /\ reqs \in Seq(Nat)
  /\ m_nDay \in DayName \cup {NoFile} /\ m_nIndex \in Nat
  /\ files \in [DayName -> [Index -> Seq(Nat)]]

(* The list has the lines that were asked for last, in order. *)
QueueInOrder ==
  /\ \A p \in 1 .. Len(reqs) : reqs[p] <= asked
  /\ \A p, q \in 1 .. Len(reqs) :
       p < q /\ reqs[p] # Check /\ reqs[q] # Check => reqs[p] < reqs[q]

(* What is written was asked for before what waits. *)
WrittenFirst ==
  \A d \in DayName : \A i \in Index : \A p \in 1 .. Len(files[d][i]) :
    /\ files[d][i][p] <= asked
    /\ \A q \in 1 .. Len(reqs) : reqs[q] # Check => files[d][i][p] < reqs[q]

(* NoGaps, with all the files before one. *)
FilledInTurn ==
  \A d \in DayName : \A i \in Index :
    /\ Len(files[d][i]) <= MaxSize
    /\ files[d][i] # <<>> => \A j \in Index : j < i => Len(files[d][j]) >= MaxSize

(* The rotation starts behind full files; there is a file for each line.   *)
IndexIsBehind == m_nDay # NoFile => \A j \in Index : j < m_nIndex => Full(j)
CheckComesFirst == m_nDay = NoFile => reqs # <<>> /\ reqs[1] = Check

LogInv ==
  /\ LogTypeOK /\ QueueInOrder /\ WrittenFirst /\ FilledInTurn
  /\ IndexIsBehind /\ CheckComesFirst /\ InOrder /\ LinesAccounted

LEMMA LogInitInv == Sizes /\ LogInit => LogInv
<1>. SUFFICES ASSUME Sizes, LogInit PROVE LogInv
  OBVIOUS
<1>. USE DEF LogInit
<1>1. /\ \A d \in DayName : \A i \in Index : files[d][i] = <<>>
      /\ reqs = <<Check>> /\ asked = 0
  OBVIOUS
<1>2. LogTypeOK
  BY DEF LogTypeOK, Check
<1>3. QueueInOrder
  BY <1>1 DEF QueueInOrder, Check
<1>4. WrittenFirst /\ FilledInTurn /\ InOrder
  <2>1. \A d \in DayName : \A i \in Index : Len(files[d][i]) = 0 /\ 1 .. Len(files[d][i]) = {}
    BY <1>1
  <2>2. MaxSize \in Nat
    BY DEF Sizes
  <2>3. InOrder
    BY <1>1 DEF InOrder
  <2>. QED
    BY <1>1, <2>1, <2>2, <2>3 DEF WrittenFirst, FilledInTurn
<1>5. IndexIsBehind /\ CheckComesFirst
  BY <1>1 DEF IndexIsBehind, CheckComesFirst
<1>6. LinesAccounted
  BY <1>1 DEF LinesAccounted
<1>. QED
  BY <1>2, <1>3, <1>4, <1>5, <1>6 DEF LogInv

(* A line that was asked for joins the list as its largest. *)
LEMMA WriteLogKeeps == LogInv /\ WriteLog => LogInv'
<1>. SUFFICES ASSUME LogInv, WriteLog PROVE LogInv'
  OBVIOUS
<1>. USE DEF WriteLog, LogInv
<1>1. /\ asked' = asked + 1 /\ asked' \in Nat /\ asked \in Nat
      /\ reqs' = Append(reqs, asked + 1) /\ reqs' \in Seq(Nat)
      /\ Len(reqs') = Len(reqs) + 1 /\ Len(reqs) \in Nat
      /\ \A p \in 1 .. Len(reqs) : reqs'[p] = reqs[p]
      /\ reqs'[Len(reqs) + 1] = asked + 1
  BY AppendProperties DEF LogTypeOK
<1>2. LogTypeOK'
  BY <1>1 DEF LogTypeOK
<1>3. QueueInOrder'
  BY <1>1 DEF QueueInOrder, LogTypeOK
<1>4. WrittenFirst'
  <2>. SUFFICES ASSUME NEW d \in DayName, NEW i \in Index, NEW p \in 1 .. Len(files[d][i])
                PROVE  /\ files[d][i][p] <= asked'
                       /\ \A q \in 1 .. Len(reqs') : reqs'[q] # Check => files[d][i][p] < reqs'[q]
    BY DEF WrittenFirst
  <2>1. files[d][i][p] \in Nat
    BY DEF LogTypeOK
  <2>2. /\ files[d][i][p] <= asked
        /\ \A q \in 1 .. Len(reqs) : reqs[q] # Check => files[d][i][p] < reqs[q]
    BY DEF WrittenFirst
  <2>3. \A q \in 1 .. Len(reqs') :
          \/ q \in 1 .. Len(reqs) /\ reqs'[q] = reqs[q]
          \/ reqs'[q] = asked + 1
    <3> HIDE DEF LogInv, WriteLog
    <3>. QED
      BY <1>1
  <2>. QED
    BY <1>1, <2>1, <2>2, <2>3
<1>5. FilledInTurn' /\ InOrder' /\ IndexIsBehind'
  BY DEF FilledInTurn, InOrder, IndexIsBehind, Full
<1>6. CheckComesFirst'
  BY <1>1 DEF CheckComesFirst, LogTypeOK
<1>7. LinesAccounted'
  <2>. SUFFICES ASSUME NEW n \in 1 .. asked' PROVE (Written(n) \/ Queued(n) \/ n \in lost \cup cut)'
    BY DEF LinesAccounted
  <2>1. CASE n = asked + 1
    BY <1>1, <2>1 DEF Queued
  <2>2. CASE n \in 1 .. asked
    <3>1. CASE Queued(n)
      BY <1>1, <3>1 DEF Queued, LogTypeOK
    <3>. QED
      BY <2>2, <3>1 DEF LinesAccounted, Written
  <2>. QED
    BY <1>1, <2>1, <2>2
<1>. QED
  BY <1>2, <1>3, <1>4, <1>5, <1>6, <1>7

LEMMA CheckKeeps == LogInv /\ ProcessTimeOutEvent => LogInv'
<1>. SUFFICES ASSUME LogInv, ProcessTimeOutEvent PROVE LogInv'
  OBVIOUS
<1>. USE DEF ProcessTimeOutEvent, LogInv
<1>1. /\ reqs' = Append(reqs, Check) /\ reqs' \in Seq(Nat)
      /\ Len(reqs') = Len(reqs) + 1 /\ Len(reqs) \in Nat
      /\ \A p \in 1 .. Len(reqs) : reqs'[p] = reqs[p]
      /\ reqs'[Len(reqs) + 1] = Check
  BY AppendProperties DEF LogTypeOK, Check
<1>2. LogTypeOK'
  BY <1>1 DEF LogTypeOK
<1>3. QueueInOrder'
  BY <1>1 DEF QueueInOrder, LogTypeOK, Check
<1>4. WrittenFirst'
  BY <1>1 DEF WrittenFirst
<1>5. FilledInTurn' /\ InOrder' /\ IndexIsBehind'
  BY DEF FilledInTurn, InOrder, IndexIsBehind, Full
<1>6. CheckComesFirst'
  BY <1>1 DEF CheckComesFirst, LogTypeOK
<1>7. LinesAccounted'
  <2>. SUFFICES ASSUME NEW n \in 1 .. asked PROVE (Written(n) \/ Queued(n) \/ n \in lost \cup cut)'
    BY DEF LinesAccounted
  <2>1. CASE Queued(n)
    BY <1>1, <2>1 DEF Queued, LogTypeOK
  <2>. QED
    BY <2>1 DEF LinesAccounted, Written
<1>. QED
  BY <1>2, <1>3, <1>4, <1>5, <1>6, <1>7

(* Nothing that is proved speaks of the clock. *)
LEMMA MidnightKeeps == LogInv /\ Midnight => LogInv'
<1>. SUFFICES ASSUME LogInv, Midnight PROVE LogInv'
  OBVIOUS
<1>1. today' \in Nat /\ UNCHANGED <<asked, reqs, m_nDay, m_nIndex, files, lost, cut>>
  BY DEF Midnight, LogInv, LogTypeOK
<1>2. LogTypeOK' /\ QueueInOrder' /\ CheckComesFirst'
  BY <1>1 DEF LogInv, LogTypeOK, QueueInOrder, CheckComesFirst
<1>3. WrittenFirst' /\ FilledInTurn'
  BY <1>1 DEF LogInv, WrittenFirst, FilledInTurn
<1>4. IndexIsBehind' /\ InOrder' /\ LinesAccounted'
  BY <1>1 DEF LogInv, IndexIsBehind, Full, InOrder, LinesAccounted, Written, Queued
<1>. QED
  BY <1>2, <1>3, <1>4 DEF LogInv

LEMMA RestartKeeps == LogInv /\ ProcessRestart => LogInv'
<1>. SUFFICES ASSUME LogInv, ProcessRestart PROVE LogInv'
  OBVIOUS
<1>. USE DEF LogInv
<1>1. /\ reqs' = <<Check>> /\ m_nDay' = NoFile /\ m_nIndex' = 1
      /\ lost' = lost \cup ({reqs[p] : p \in DOMAIN reqs} \ {Check})
      /\ UNCHANGED <<today, asked, files, cut>>
  BY DEF ProcessRestart
<1>2. LogTypeOK' /\ QueueInOrder'
  BY <1>1 DEF LogTypeOK, QueueInOrder, Check
<1>3. WrittenFirst' /\ FilledInTurn' /\ InOrder'
  BY <1>1 DEF WrittenFirst, FilledInTurn, InOrder
<1>4. IndexIsBehind' /\ CheckComesFirst'
  BY <1>1 DEF IndexIsBehind, CheckComesFirst
<1>5. LinesAccounted'
  <2>. SUFFICES ASSUME NEW n \in 1 .. asked PROVE (Written(n) \/ Queued(n) \/ n \in lost \cup cut)'
    BY <1>1 DEF LinesAccounted
  <2>1. CASE Queued(n)
    BY <1>1, <2>1 DEF Queued, Check
  <2>. QED
    BY <1>1, <2>1 DEF LinesAccounted, Written
<1>. QED
  BY <1>2, <1>3, <1>4, <1>5

(* The head of the list is taken: what is left stays as it was. *)
LEMMA TakeFacts ==
  ASSUME LogTypeOK, QueueInOrder, reqs # <<>>
  PROVE  /\ Head(reqs) = reqs[1] /\ Head(reqs) \in Nat /\ Head(reqs) <= asked
         /\ Tail(reqs) \in Seq(Nat) /\ Len(Tail(reqs)) = Len(reqs) - 1
         /\ Len(reqs) \in Nat /\ Len(reqs) >= 1
         /\ \A p \in 1 .. Len(Tail(reqs)) : Tail(reqs)[p] = reqs[p + 1]
         /\ \A n : n # Head(reqs) /\ Queued(n) => \E p \in 1 .. Len(Tail(reqs)) : Tail(reqs)[p] = n
<1>1. /\ Head(reqs) = reqs[1] /\ Tail(reqs) \in Seq(Nat) /\ Len(Tail(reqs)) = Len(reqs) - 1
      /\ Len(reqs) \in Nat /\ Len(reqs) >= 1
      /\ \A p \in 1 .. Len(Tail(reqs)) : Tail(reqs)[p] = reqs[p + 1]
  BY HeadTailProperties, EmptySeq DEF LogTypeOK
<1>2. Head(reqs) \in Nat /\ Head(reqs) <= asked
  BY <1>1 DEF LogTypeOK, QueueInOrder
<1>3. ASSUME NEW n, n # Head(reqs), Queued(n)
      PROVE  \E p \in 1 .. Len(Tail(reqs)) : Tail(reqs)[p] = n
  <2>1. PICK p \in 1 .. Len(reqs) : reqs[p] = n
    BY <1>3 DEF Queued, LogTypeOK
  <2>2. p # 1 /\ p - 1 \in 1 .. Len(Tail(reqs))
    BY <1>1, <1>3, <2>1
  <2>3. Tail(reqs)[p - 1] = n
    BY <1>1, <2>1, <2>2
  <2>. QED
    BY <2>2, <2>3
<1>. QED
  BY <1>1, <1>2, <1>3

LEMMA TakeKeepsQueue ==
  ASSUME LogTypeOK, QueueInOrder, WrittenFirst, reqs # <<>>, reqs' = Tail(reqs), UNCHANGED asked
  PROVE  QueueInOrder'
BY TakeFacts DEF QueueInOrder, LogTypeOK

(* A check opens the first file of a new day. *)
LEMMA DoCheckKeeps ==
  ASSUME Sizes, LogInv, DoAsyncAction, Head(reqs) = Check
  PROVE  LogInv'
<1>. USE DEF LogInv
<1>1. /\ reqs # <<>> /\ reqs' = Tail(reqs) /\ CheckNewFile
      /\ UNCHANGED <<today, asked, files, lost, cut>>
  BY DEF DoAsyncAction
<1>2. m_nDay' \in DayName /\ m_nDay' # NoFile /\ m_nIndex' \in {1, m_nIndex} /\ m_nIndex' \in Nat
      /\ (m_nIndex' = 1 \/ (m_nDay' = m_nDay /\ m_nIndex' = m_nIndex))
  <2>1. today % YearDays \in 0 .. YearDays - 1
    BY DEF Sizes, LogTypeOK
  <2>. QED
    BY <1>1, <2>1 DEF CheckNewFile, DayName, NoFile, LogTypeOK
<1>3. LogTypeOK' /\ QueueInOrder'
  BY <1>1, <1>2, TakeFacts, TakeKeepsQueue DEF LogTypeOK
<1>4. WrittenFirst'
  <2>. SUFFICES ASSUME NEW d \in DayName, NEW i \in Index, NEW p \in 1 .. Len(files[d][i])
                PROVE  /\ files[d][i][p] <= asked
                       /\ \A q \in 1 .. Len(reqs') : reqs'[q] # Check => files[d][i][p] < reqs'[q]
    BY <1>1 DEF WrittenFirst
  <2>1. /\ files[d][i][p] <= asked
        /\ \A q \in 1 .. Len(reqs) : reqs[q] # Check => files[d][i][p] < reqs[q]
    BY DEF WrittenFirst
  <2>2. \A q \in 1 .. Len(reqs') : q + 1 \in 1 .. Len(reqs) /\ reqs'[q] = reqs[q + 1]
    BY <1>1, TakeFacts
  <2>. QED
    BY <2>1, <2>2
<1>5. FilledInTurn' /\ InOrder'
  BY <1>1 DEF FilledInTurn, InOrder
<1>6. IndexIsBehind' /\ CheckComesFirst'
  BY <1>1, <1>2 DEF IndexIsBehind, CheckComesFirst, Full, Index
<1>7. LinesAccounted'
  <2>. SUFFICES ASSUME NEW n \in 1 .. asked PROVE (Written(n) \/ Queued(n) \/ n \in lost \cup cut)'
    BY <1>1 DEF LinesAccounted
  <2>1. CASE Queued(n)
    <3>1. n # Head(reqs)
      BY DEF Check
    <3>2. PICK p \in 1 .. Len(Tail(reqs)) : Tail(reqs)[p] = n
      BY <1>1, <2>1, <3>1, TakeFacts
    <3>3. p \in DOMAIN reqs' /\ reqs'[p] = n
      BY <1>1, <3>2, TakeFacts
    <3>. QED
      BY <3>3 DEF Queued
  <2>. QED
    BY <1>1, <2>1 DEF LinesAccounted, Written
<1>. QED
  BY <1>3, <1>4, <1>5, <1>6, <1>7

(* The rotation only passes full files. *)
LEMMA RotatedFacts ==
  ASSUME Sizes, LogTypeOK, IndexIsBehind, m_nDay \in DayName, m_nDay # NoFile,
         NEW i \in Index, Rotated(i)
  PROVE  \A j \in Index : j < i => Len(files[m_nDay][j]) >= MaxSize
<1>. SUFFICES ASSUME NEW j \in Index, j < i PROVE Len(files[m_nDay][j]) >= MaxSize
  OBVIOUS
<1>1. j \in Nat /\ i \in Nat /\ m_nIndex \in Nat
  BY DEF Index, Sizes, LogTypeOK
<1>2. CASE j < m_nIndex
  BY <1>2 DEF IndexIsBehind, Full
<1>3. CASE j >= m_nIndex
  BY <1>1, <1>3 DEF Rotated, Full
<1>. QED
  BY <1>1, <1>2, <1>3

(* A line goes behind all that are written, in the last file in use.       *)
LEMMA LineIsAppended ==
  ASSUME Sizes, LogInv, reqs # <<>>, reqs' = Tail(reqs), Head(reqs) # Check,
         UNCHANGED <<today, asked, lost, m_nDay>>, m_nDay # NoFile,
         NEW i \in Index, Rotated(i), m_nIndex' = i, Appended(Head(reqs), i), cut \subseteq cut'
  PROVE  LogInv'
<1>. USE DEF LogInv
<1>. DEFINE line == Head(reqs)
<1>1. reqs # <<>> /\ reqs' = Tail(reqs) /\ UNCHANGED <<today, asked, lost, m_nDay>>
  OBVIOUS
<1>2. m_nDay \in DayName /\ m_nDay # NoFile
  BY DEF LogTypeOK
<1>3. /\ i \in Index /\ Rotated(i) /\ m_nIndex' = i
      /\ files' = [files EXCEPT ![m_nDay][i] = Append(@, line)]
  BY DEF Appended
<1>4. line \in Nat /\ line <= asked /\ line = reqs[1] /\ asked \in Nat
  BY <1>1, TakeFacts DEF LogTypeOK
<1>5. \A d \in DayName : \A j \in Index :
        /\ (d # m_nDay \/ j # i) => files'[d][j] = files[d][j]
        /\ files[d][j] \in Seq(Nat) /\ Len(files[d][j]) \in Nat
  BY <1>2, <1>3 DEF LogTypeOK
<1>6. files'[m_nDay][i] = Append(files[m_nDay][i], line)
  BY <1>2, <1>3 DEF LogTypeOK
<1>. DEFINE old == files[m_nDay][i]
<1>7. /\ files'[m_nDay][i] \in Seq(Nat)
      /\ Len(files'[m_nDay][i]) = Len(old) + 1
      /\ \A p \in 1 .. Len(old) : files'[m_nDay][i][p] = old[p]
      /\ files'[m_nDay][i][Len(old) + 1] = line
  BY <1>2, <1>4, <1>5, <1>6, AppendProperties
<1>8. /\ Len(old) < MaxSize /\ MaxSize \in Nat
      /\ \A j \in Index : j < i => Len(files[m_nDay][j]) >= MaxSize
      /\ \A j \in Index : j > i => files[m_nDay][j] = <<>>
  <2>1. Len(old) < MaxSize /\ MaxSize \in Nat
    BY <1>2, <1>3, <1>5 DEF Rotated, Full, Sizes
  <2>2. \A j \in Index : j < i => Len(files[m_nDay][j]) >= MaxSize
    BY <1>2, <1>3, RotatedFacts
  <2>3. ASSUME NEW j \in Index, j > i, files[m_nDay][j] # <<>> PROVE FALSE
    <3>1. Len(old) >= MaxSize
      BY <1>2, <2>3 DEF FilledInTurn, Index
    <3>. QED
      BY <1>2, <1>5, <2>1, <3>1
  <2>. QED
    BY <2>1, <2>2, <2>3
<1>9. \A d \in DayName : \A j \in Index :
        /\ files'[d][j] \in Seq(Nat)
        /\ Len(files[d][j]) <= Len(files'[d][j])
        /\ \A p \in 1 .. Len(files'[d][j]) :
             \/ p \in 1 .. Len(files[d][j]) /\ files'[d][j][p] = files[d][j][p]
             \/ d = m_nDay /\ j = i /\ p = Len(old) + 1 /\ files'[d][j][p] = line
  <2>. HIDE DEF line
  <2>. SUFFICES ASSUME NEW d \in DayName, NEW j \in Index
                PROVE /\ files'[d][j] \in Seq(Nat)
                      /\ Len(files[d][j]) <= Len(files'[d][j])
                      /\ \A p \in 1 .. Len(files'[d][j]) :
                           \/ p \in 1 .. Len(files[d][j]) /\ files'[d][j][p] = files[d][j][p]
                           \/ d = m_nDay /\ j = i /\ p = Len(old) + 1 /\ files'[d][j][p] = line
    OBVIOUS
  <2>1. CASE d # m_nDay \/ j # i
    BY <1>5, <2>1
  <2>2. CASE d = m_nDay /\ j = i
    <3>1. Len(old) \in Nat /\ Len(files'[d][j]) = Len(old) + 1 /\ files[d][j] = old
      BY <1>5, <1>7, <2>2
    <3>2. ASSUME NEW p \in 1 .. Len(files'[d][j])
          PROVE  \/ p \in 1 .. Len(files[d][j]) /\ files'[d][j][p] = files[d][j][p]
                 \/ p = Len(old) + 1 /\ files'[d][j][p] = line
      <4>1. p \in 1 .. Len(old) \/ p = Len(old) + 1
        BY <3>1
      <4>. QED
        BY <1>7, <2>2, <3>1, <4>1
    <3>. QED
      BY <1>7, <2>2, <3>1, <3>2
  <2>. QED
    BY <2>1, <2>2
<1>10. LogTypeOK'
  <2>1. i \in Nat
    BY DEF Index, Sizes
  <2>2. files' \in [DayName -> [Index -> Seq(Nat)]]
    <3>. HIDE DEF line
    <3>1. files' = [files EXCEPT ![m_nDay] = [files[m_nDay] EXCEPT ![i] = Append(old, line)]]
      BY <1>2, <1>3 DEF LogTypeOK
    <3>2. Append(old, line) \in Seq(Nat)
      BY <1>6, <1>7
    <3>3. [files[m_nDay] EXCEPT ![i] = Append(old, line)] \in [Index -> Seq(Nat)]
      BY <1>2, <3>2 DEF LogTypeOK
    <3>. QED
      BY <1>2, <3>1, <3>3 DEF LogTypeOK
  <2>3. reqs' \in Seq(Nat)
    BY <1>1, TakeFacts
  <2>. QED
    BY <1>1, <1>3, <2>1, <2>2, <2>3 DEF LogTypeOK
<1>11. QueueInOrder'
  BY <1>1, TakeKeepsQueue
<1>12. WrittenFirst'
  <2>. SUFFICES ASSUME NEW d \in DayName, NEW j \in Index, NEW p \in 1 .. Len(files'[d][j])
                PROVE  /\ files'[d][j][p] <= asked
                       /\ \A q \in 1 .. Len(reqs') : reqs'[q] # Check => files'[d][j][p] < reqs'[q]
    BY <1>1 DEF WrittenFirst
  <2>1. \A q \in 1 .. Len(reqs') : reqs'[q] = reqs[q + 1] /\ q + 1 \in 1 .. Len(reqs) /\ 1 < q + 1
    BY <1>1, TakeFacts
  <2>2. CASE p \in 1 .. Len(files[d][j]) /\ files'[d][j][p] = files[d][j][p]
    BY <2>1, <2>2 DEF WrittenFirst
  <2>3. CASE files'[d][j][p] = line
    <3>1. 1 \in 1 .. Len(reqs) /\ reqs[1] # Check
      BY <1>1, <1>4, TakeFacts
    <3>2. \A q \in 1 .. Len(reqs') : reqs'[q] # Check => reqs[1] < reqs'[q]
      BY <2>1, <3>1 DEF QueueInOrder
    <3>. QED
      BY <1>4, <2>3, <3>2
  <2>. QED
    BY <1>9, <2>2, <2>3
<1>13. FilledInTurn'
  <2>. HIDE DEF line
  <2>. SUFFICES ASSUME NEW d \in DayName, NEW j \in Index
                PROVE  /\ Len(files'[d][j]) <= MaxSize
                       /\ files'[d][j] # <<>> =>
                            \A k \in Index : k < j => Len(files'[d][k]) >= MaxSize
    BY DEF FilledInTurn
  <2>1. CASE d = m_nDay /\ j = i
    <3>1. Len(files'[d][j]) = Len(old) + 1 /\ Len(old) \in Nat
      BY <1>5, <1>7, <2>1
    <3>2. Len(files'[d][j]) <= MaxSize
      BY <1>8, <3>1
    <3>3. ASSUME NEW k \in Index, k < j PROVE Len(files'[d][k]) >= MaxSize
      <4>1. k # i
        BY <2>1, <3>3 DEF Index, Sizes
      <4>2. files'[d][k] = files[m_nDay][k]
        BY <1>5, <2>1, <4>1, Zenon
      <4>. QED
        BY <1>8, <2>1, <3>3, <4>2
    <3>. QED
      BY <3>2, <3>3
  <2>2. CASE d # m_nDay \/ j # i
    <3>1. files'[d][j] = files[d][j]
      BY <1>5, <2>2
    <3>2. files[d][j] # <<>> => \A k \in Index : k < j => Len(files[d][k]) >= MaxSize
      BY DEF FilledInTurn
    <3>3. ASSUME NEW k \in Index, Len(files[d][k]) >= MaxSize PROVE Len(files'[d][k]) >= MaxSize
      <4>1. Len(files'[d][k]) \in Nat
        BY <1>9
      <4>. QED
        BY <1>5, <1>8, <1>9, <3>3, <4>1
    <3>4. Len(files[d][j]) <= MaxSize
      BY DEF FilledInTurn
    <3>. QED
      BY <3>1, <3>2, <3>3, <3>4
  <2>. QED
    BY <2>1, <2>2
<1>14. IndexIsBehind'
  <2>. SUFFICES ASSUME NEW j \in Index, j < i PROVE Len(files'[m_nDay][j]) >= MaxSize
    BY <1>1, <1>3 DEF IndexIsBehind, Full
  <2>1. j # i
    BY DEF Index, Sizes
  <2>. QED
    BY <1>2, <1>5, <1>8, <2>1
<1>15. CheckComesFirst'
  BY <1>1, <1>2 DEF CheckComesFirst
<1>16. InOrder'
  <2>. SUFFICES ASSUME NEW d \in DayName, NEW j \in Index, NEW k \in Index,
                       NEW p \in DOMAIN files'[d][j], NEW q \in DOMAIN files'[d][k],
                       j < k \/ (j = k /\ p < q)
                PROVE  files'[d][j][p] < files'[d][k][q]
    BY DEF InOrder
  <2>1. p \in 1 .. Len(files'[d][j]) /\ q \in 1 .. Len(files'[d][k])
    <3> HIDE DEF LogInv, line
    <3>1. files'[d][j] \in Seq(Nat) /\ files'[d][k] \in Seq(Nat)
      BY <1>9
    <3>2. /\ DOMAIN files'[d][j] = 1 .. Len(files'[d][j])
          /\ DOMAIN files'[d][k] = 1 .. Len(files'[d][k])
      BY <3>1, LenProperties
    <3>. QED
      BY <3>2
  <2>0. \/ p \in 1 .. Len(files[d][j]) /\ files'[d][j][p] = files[d][j][p]
        \/ d = m_nDay /\ j = i /\ p = Len(old) + 1
    BY <1>9, <2>1
  <2>2. CASE q \in 1 .. Len(files[d][k]) /\ files'[d][k][q] = files[d][k][q]
    <3>1. CASE p \in 1 .. Len(files[d][j]) /\ files'[d][j][p] = files[d][j][p]
      <4>1. p \in DOMAIN files[d][j] /\ q \in DOMAIN files[d][k]
        BY <1>5, <2>2, <3>1
      <4>. QED
        BY <2>2, <3>1, <4>1 DEF InOrder
    <3>2. CASE d = m_nDay /\ j = i /\ p = Len(old) + 1
      <4>1. ~(i < k)
        <5>1. i < k => Len(files[d][k]) = 0
          BY <1>8, <3>2
        <5>. QED
          BY <2>2, <5>1
      <4>2. i = k /\ Len(old) + 1 < q /\ q \in 1 .. Len(old)
        BY <2>2, <3>2, <4>1
      <4>. QED
        BY <1>2, <1>5, <4>2
    <3>. QED
      BY <2>0, <3>1, <3>2
  <2>3. CASE d = m_nDay /\ k = i /\ q = Len(old) + 1 /\ files'[d][k][q] = line
    <3>1. p \in 1 .. Len(files[d][j]) /\ files'[d][j][p] = files[d][j][p]
      <4>1. ~(d = m_nDay /\ j = i /\ p = Len(old) + 1)
        BY <1>2, <1>5, <2>3 DEF Index
      <4>. QED
        BY <2>0, <4>1
    <3>2. 1 \in 1 .. Len(reqs) /\ reqs[1] # Check
      BY <1>1, <1>4, TakeFacts
    <3>. QED
      BY <1>4, <2>3, <3>1, <3>2 DEF WrittenFirst
  <2>. QED
    BY <1>9, <2>1, <2>2, <2>3
<1>17. LinesAccounted'
  <2>. SUFFICES ASSUME NEW n \in 1 .. asked PROVE (Written(n) \/ Queued(n) \/ n \in lost \cup cut)'
    BY <1>1 DEF LinesAccounted
  <2>1. CASE n = line
    <3>1. Len(old) + 1 \in DOMAIN files'[m_nDay][i]
      BY <1>2, <1>5, <1>7
    <3>. QED
      BY <1>2, <1>7, <2>1, <3>1 DEF Written
  <2>2. CASE Queued(n) /\ n # line
    <3>1. PICK p \in 1 .. Len(Tail(reqs)) : Tail(reqs)[p] = n
      BY <1>1, <2>2, TakeFacts
    <3>2. p \in DOMAIN reqs' /\ reqs'[p] = n
      BY <1>1, <3>1, TakeFacts
    <3>. QED
      BY <3>2 DEF Queued
  <2>3. CASE Written(n)
    <3>1. PICK d \in DayName, j \in Index : \E p \in DOMAIN files[d][j] : files[d][j][p] = n
      BY <2>3 DEF Written
    <3>2. PICK p \in 1 .. Len(files[d][j]) : files[d][j][p] = n
      BY <1>5, <3>1
    <3>3. p \in DOMAIN files'[d][j] /\ files'[d][j][p] = n
      <4>1. CASE d = m_nDay /\ j = i
        <5>1. files'[d][j][p] = old[p] /\ p \in 1 .. Len(old) + 1
          <6>1. p \in 1 .. Len(old) /\ Len(old) \in Nat
            BY <1>2, <1>5, <3>2, <4>1
          <6>2. files'[m_nDay][i][p] = old[p]
            BY <1>7, <6>1, Zenon
          <6>3. p \in 1 .. Len(old) + 1
            BY <6>1
          <6>. QED
            BY <4>1, <6>2, <6>3
        <5>2. DOMAIN files'[d][j] = 1 .. Len(old) + 1
          BY <1>7, <4>1
        <5>. QED
          BY <3>2, <4>1, <5>1, <5>2
      <4>2. CASE d # m_nDay \/ j # i
        BY <1>5, <3>2, <4>2
      <4>. QED
        BY <4>1, <4>2
    <3>. QED
      BY <3>3 DEF Written
  <2>4. n \in lost \cup cut => n \in lost' \cup cut'
    BY <1>1
  <2>. QED
    BY <2>1, <2>2, <2>3, <2>4 DEF LinesAccounted
<1>. QED
  BY <1>10, <1>11, <1>12, <1>13, <1>14, <1>15, <1>16, <1>17

(* A line the disk has no room for leaves the files as they are.           *)
LEMMA LineIsDropped ==
  ASSUME Sizes, LogInv, reqs # <<>>, reqs' = Tail(reqs), Head(reqs) # Check,
         UNCHANGED <<today, asked, lost, m_nDay, files>>, m_nDay # NoFile,
         NEW i \in Index, Rotated(i), m_nIndex' = i, cut' = cut \cup {Head(reqs)}
  PROVE  LogInv'
<1>. USE DEF LogInv
<1>1. m_nDay \in DayName /\ i \in Nat
  BY DEF LogTypeOK, Index, Sizes
<1>2. LogTypeOK' /\ QueueInOrder'
  BY <1>1, TakeFacts, TakeKeepsQueue DEF LogTypeOK
<1>3. WrittenFirst'
  <2>. SUFFICES ASSUME NEW d \in DayName, NEW j \in Index, NEW p \in 1 .. Len(files[d][j])
                PROVE  /\ files[d][j][p] <= asked
                       /\ \A q \in 1 .. Len(reqs') : reqs'[q] # Check => files[d][j][p] < reqs'[q]
    BY DEF WrittenFirst
  <2>1. /\ files[d][j][p] <= asked
        /\ \A q \in 1 .. Len(reqs) : reqs[q] # Check => files[d][j][p] < reqs[q]
    BY DEF WrittenFirst
  <2>2. \A q \in 1 .. Len(reqs') : q + 1 \in 1 .. Len(reqs) /\ reqs'[q] = reqs[q + 1]
    BY TakeFacts
  <2>. QED
    BY <2>1, <2>2
<1>4. FilledInTurn' /\ InOrder' /\ CheckComesFirst'
  BY DEF FilledInTurn, InOrder, CheckComesFirst
<1>5. IndexIsBehind'
  BY <1>1, RotatedFacts DEF IndexIsBehind, Full
<1>6. LinesAccounted'
  <2>. SUFFICES ASSUME NEW n \in 1 .. asked, n # Head(reqs)
                PROVE  (Written(n) \/ Queued(n) \/ n \in lost \cup cut)'
    BY DEF LinesAccounted
  <2>1. CASE Queued(n)
    <3>1. PICK p \in 1 .. Len(Tail(reqs)) : Tail(reqs)[p] = n
      BY <2>1, TakeFacts
    <3>2. p \in DOMAIN reqs' /\ reqs'[p] = n
      BY <3>1, TakeFacts
    <3>. QED
      BY <3>2 DEF Queued
  <2>. QED
    BY <2>1 DEF LinesAccounted, Written
<1>. QED
  BY <1>2, <1>3, <1>4, <1>5, <1>6

LEMMA DoLineKeeps ==
  ASSUME Sizes, LogInv, DoAsyncAction, Head(reqs) # Check
  PROVE  LogInv'
<1>. DEFINE line == Head(reqs)
<1>1. /\ reqs # <<>> /\ reqs' = Tail(reqs) /\ UNCHANGED <<today, asked, lost, m_nDay>>
      /\ WriteLine(line)
  BY DEF DoAsyncAction
<1>2. m_nDay # NoFile
  BY <1>1, TakeFacts DEF LogInv, CheckComesFirst, LogTypeOK
<1>3. PICK i \in Index : Rotated(i) /\ m_nIndex' = i /\ Put(line, i)
  BY <1>1, <1>2 DEF WriteLine
<1>4. CASE Appended(line, i) /\ cut \subseteq cut'
  BY <1>1, <1>2, <1>3, <1>4, LineIsAppended
<1>5. CASE UNCHANGED files /\ cut' = cut \cup {line}
  BY <1>1, <1>2, <1>3, <1>5, LineIsDropped
<1>. QED
  BY <1>3, <1>4, <1>5 DEF Put

LEMMA LogNextInv == Sizes /\ LogInv /\ [LogNext]_logVars => LogInv'
<1>. SUFFICES ASSUME Sizes, LogInv, [LogNext]_logVars PROVE LogInv'
  OBVIOUS
<1>1. CASE UNCHANGED logVars
  <2>1. UNCHANGED <<today, asked, reqs, m_nDay, m_nIndex, files, lost, cut>>
    BY <1>1 DEF logVars
  <2>2. LogTypeOK' /\ QueueInOrder' /\ CheckComesFirst'
    BY <2>1 DEF LogInv, LogTypeOK, QueueInOrder, CheckComesFirst
  <2>3. WrittenFirst' /\ FilledInTurn'
    BY <2>1 DEF LogInv, WrittenFirst, FilledInTurn
  <2>4. IndexIsBehind' /\ InOrder' /\ LinesAccounted'
    BY <2>1 DEF LogInv, IndexIsBehind, Full, InOrder, LinesAccounted, Written, Queued
  <2>. QED
    BY <2>2, <2>3, <2>4 DEF LogInv
<1>2. CASE DoAsyncAction
  BY <1>2, DoCheckKeeps, DoLineKeeps
<1>. QED
  BY <1>1, <1>2, WriteLogKeeps, CheckKeeps, MidnightKeeps, RestartKeeps DEF LogNext

(* The files of a day are filled in turn and in the order of the calls of  *)
(* Log::WriteLog(), and no line is lost but with the process or on a disk  *)
(* that has no room for it (Log::DoAsyncAction(), CheckNewFile()).         *)
THEOREM TheLogIsWhole == ASSUME Sizes PROVE LogSpec => []LogIsWhole
<1>1. LogInv => LogIsWhole
  <2>. SUFFICES ASSUME LogInv PROVE LogIsWhole
    OBVIOUS
  <2>1. NoGaps
    <3>. SUFFICES ASSUME NEW d \in DayName, NEW i \in Index
                  PROVE  /\ Len(files[d][i]) <= MaxSize
                         /\ i > 1 /\ files[d][i] # <<>> => Len(files[d][i - 1]) >= MaxSize
      BY DEF NoGaps
    <3>1. i > 1 => i - 1 \in Index /\ i - 1 < i
      BY DEF Index, Sizes
    <3>. QED
      BY <3>1 DEF LogInv, FilledInTurn
  <2>. QED
    BY <2>1 DEF LogInv, LogIsWhole
<1>. QED
  BY <1>1, LogInitInv, LogNextInv, PTL DEF LogSpec

-----------------------------------------------------------------------------
(* The configuration tool and its service *)

Page == {"connect", "product", "devices"}
Entry == [kind : DeviceKind \cup {"none"}, edit : Nat]
Cfg == {f \in [DeviceKind -> Entry] : OfItsKind(f)}
Tool == [page : Page, known : BOOLEAN, cfg : Cfg, form : Entry, kind : DeviceKind,
         base : Int, saved : SUBSET DeviceKind]
GetRequest == [get : Page]
SetRequest == [set : Cfg, base : Int, saved : SUBSET DeviceKind]
GetAnswer == [page : Page, cfg : Cfg, rev : Int]
SetAnswer == [page : {"none"}]

(* Each file and each copy under way has its entries where they belong. *)
ConfigTypeOK ==
  /\ file \in Cfg /\ disk \in Cfg /\ running \in Cfg /\ rev \in Nat
  /\ ui \in Tool /\ ui.form.kind \in {ui.kind, "none"}
  /\ up \in Seq(GetRequest \cup SetRequest)
  /\ down \in Seq(GetAnswer \cup SetAnswer)
  /\ edits \in Nat

LEMMA CfgFacts ==
  /\ \A f \in Cfg : \A k \in DeviceKind : f[k] \in Entry /\ f[k].kind \in {k, "none"}
  /\ Empty \in Cfg /\ Installed \in Cfg /\ None \in Entry
BY DEF Cfg, Entry, OfItsKind, Empty, Installed, None

(* Saving the form under its kind leaves every entry where it belongs. *)
LEMMA SaveFacts ==
  ASSUME NEW f \in Cfg, NEW k \in DeviceKind, NEW e \in Entry, e.kind \in {k, "none"}
  PROVE  [f EXCEPT ![k] = e] \in Cfg
BY DEF Cfg, OfItsKind

LEMMA RequestFacts ==
  ASSUME NEW m \in GetRequest \cup SetRequest
  PROVE  /\ "get" \in DOMAIN m => m \in GetRequest
         /\ "set" \in DOMAIN m => m \in SetRequest
BY DEF GetRequest, SetRequest

LEMMA AnswerFacts ==
  ASSUME NEW m \in GetAnswer \cup SetAnswer, m.page \in Page
  PROVE  m \in GetAnswer
BY DEF GetAnswer, SetAnswer, Page

LEMMA LoadedFacts ==
  ASSUME NEW u \in Tool, NEW f \in Cfg, NEW r \in Int
  PROVE  /\ Loaded(u, f, r) \in Tool
         /\ Loaded(u, f, r).form.kind \in {Loaded(u, f, r).kind, "none"}
BY CfgFacts DEF Loaded, Shows, Tool

LEMMA FreshFacts == FreshTool \in Tool /\ FreshTool.form = None
<1>1. (CHOOSE k \in DeviceKind : TRUE) \in DeviceKind
  BY ConfigAssumption
<1>. QED
  BY <1>1, CfgFacts DEF FreshTool, Tool, Page

LEMMA HandledFacts ==
  ASSUME NEW u \in Tool, u.form.kind \in {u.kind, "none"},
         NEW m \in GetAnswer \cup SetAnswer
  PROVE  /\ Handled(u, m) \in Tool
         /\ Handled(u, m).form.kind \in {Handled(u, m).kind, "none"}
<1>1. CASE m.page # u.page
  BY <1>1 DEF Handled
<1>2. CASE m.page = u.page /\ u.page = "devices"
  <2>1. m \in GetAnswer
    BY <1>2, AnswerFacts DEF Tool
  <2>2. m.cfg \in Cfg /\ m.rev \in Int
    BY <2>1 DEF GetAnswer
  <2>. QED
    BY <1>2, <2>2, LoadedFacts DEF Handled
<1>3. CASE m.page = u.page /\ u.page # "devices"
  BY <1>3 DEF Handled, Tool
<1>. QED
  BY <1>1, <1>2, <1>3

LEMMA SendKeepsType ==
  ASSUME ConfigTypeOK, NEW m \in GetRequest \cup SetRequest, Send(m)
  PROVE  up' \in Seq(GetRequest \cup SetRequest)
BY AppendProperties DEF Send, ConfigTypeOK

LEMMA ConfigInitTypeOK == ConfigInit => ConfigTypeOK
<1>. SUFFICES ASSUME ConfigInit PROVE ConfigTypeOK
  OBVIOUS
<1>1. PICK known \in BOOLEAN : ui = [FreshTool EXCEPT !.known = known]
  BY DEF ConfigInit
<1>2. ui \in Tool /\ ui.form = None
  BY <1>1, FreshFacts DEF Tool
<1>. QED
  BY <1>2, CfgFacts DEF ConfigInit, ConfigTypeOK, None

LEMMA ConfigNextTypeOK == ConfigTypeOK /\ [ConfigNext]_configVars => ConfigTypeOK'
<1>. SUFFICES ASSUME ConfigTypeOK, [ConfigNext]_configVars PROVE ConfigTypeOK'
  OBVIOUS
<1>. USE DEF served
<1>1. CASE Connect
  BY <1>1 DEF Connect, ConfigTypeOK
<1>2. ASSUME NEW page \in Page, OpenPage(page) PROVE ConfigTypeOK'
  <2>1. ui' \in Tool /\ ui'.form = ui.form /\ ui'.kind = ui.kind
    BY <1>2 DEF OpenPage, ConfigTypeOK, Tool
  <2>2. up' \in Seq(GetRequest \cup SetRequest)
    <3>1. CASE page = "connect"
      BY <1>2, <3>1 DEF OpenPage, ConfigTypeOK
    <3>2. CASE page # "connect"
      <4>1. [get |-> page] \in GetRequest
        BY DEF GetRequest
      <4>. QED
        BY <1>2, <3>2, <4>1, SendKeepsType DEF OpenPage
    <3>. QED
      BY <3>1, <3>2
  <2>. QED
    BY <1>2, <2>1, <2>2 DEF OpenPage, ConfigTypeOK
<1>3. CASE Edit
  <2>1. edits' \in Nat /\ ui' = [ui EXCEPT !.form = [kind |-> ui.kind, edit |-> edits']]
    BY <1>3 DEF Edit, ConfigTypeOK
  <2>2. [kind |-> ui.kind, edit |-> edits'] \in Entry
    BY <2>1 DEF ConfigTypeOK, Tool, Entry
  <2>3. ui' \in Tool /\ ui'.form.kind = ui'.kind
    BY <2>1, <2>2 DEF ConfigTypeOK, Tool
  <2>. QED
    BY <1>3, <2>1, <2>3 DEF Edit, ConfigTypeOK
<1>4. CASE Save
  <2>1. ui.cfg \in Cfg /\ ui.kind \in DeviceKind /\ ui.form \in Entry
    BY DEF ConfigTypeOK, Tool
  <2>2. [ui.cfg EXCEPT ![ui.kind] = ui.form] \in Cfg
    BY <2>1, SaveFacts DEF ConfigTypeOK
  <2>3. ui' = [ui EXCEPT !.cfg = [ui.cfg EXCEPT ![ui.kind] = ui.form],
                         !.saved = ui.saved \cup {ui.kind}]
    BY <1>4 DEF Save, ConfigTypeOK, Tool
  <2>4. ui' \in Tool /\ ui'.form = ui.form /\ ui'.kind = ui.kind
    BY <2>1, <2>2, <2>3 DEF ConfigTypeOK, Tool
  <2>. QED
    BY <1>4, <2>4 DEF Save, ConfigTypeOK
<1>5. CASE Update
  <2>1. [set |-> ui.cfg, base |-> ui.base, saved |-> ui.saved] \in SetRequest
    BY DEF ConfigTypeOK, Tool, SetRequest
  <2>. QED
    BY <1>5, <2>1, SendKeepsType DEF Update, ConfigTypeOK
<1>6. ASSUME NEW k \in DeviceKind, SelectKind(k) PROVE ConfigTypeOK'
  BY <1>6, CfgFacts DEF SelectKind, Shows, ConfigTypeOK, Tool
<1>7. CASE Get
  <2>1. Head(up) \in GetRequest /\ up' \in Seq(GetRequest \cup SetRequest)
    BY <1>7, RequestFacts, HeadTailProperties DEF Get, Answer, ConfigTypeOK
  <2>2. [page |-> Head(up).get, cfg |-> file, rev |-> rev] \in GetAnswer
    BY <2>1 DEF ConfigTypeOK, GetRequest, GetAnswer
  <2>3. down' \in Seq(GetAnswer \cup SetAnswer)
    BY <1>7, <2>2, AppendProperties DEF Get, Answer, ConfigTypeOK
  <2>. QED
    BY <1>7, <2>1, <2>3 DEF Get, Answer, ConfigTypeOK
<1>8. CASE Set \/ SetFails
  <2>1. /\ Head(up) \in SetRequest /\ up' \in Seq(GetRequest \cup SetRequest)
        /\ ui' = ui /\ edits' = edits
    BY <1>8, RequestFacts, HeadTailProperties DEF Set, SetFails, Done, Answer,
         ConfigTypeOK
  <2>2. down' \in Seq(GetAnswer \cup SetAnswer)
    <3>1. [page |-> "none"] \in SetAnswer
      BY DEF SetAnswer
    <3>. QED
      <4>1. down' = Append(down, [page |-> "none"])
        BY <1>8 DEF Set, SetFails, Done, Answer
      <4>. QED
        BY <3>1, <4>1, AppendProperties DEF ConfigTypeOK
  <2>3. file' \in Cfg /\ rev' \in Nat
    BY <1>8, <2>1, CfgFacts DEF Set, SetFails, SetRequest, ConfigTypeOK
  <2>. QED
    BY <1>8, <2>1, <2>2, <2>3 DEF Set, SetFails, ConfigTypeOK
<1>9. CASE Receive
  <2>1. Head(down) \in GetAnswer \cup SetAnswer
        /\ down' \in Seq(GetAnswer \cup SetAnswer)
    BY <1>9, HeadTailProperties DEF Receive, ConfigTypeOK
  <2>2. ui' \in Tool /\ ui'.form.kind \in {ui'.kind, "none"}
    BY <1>9, <2>1, HandledFacts DEF Receive, ConfigTypeOK
  <2>. QED
    BY <1>9, <2>1, <2>2 DEF Receive, ConfigTypeOK
<1>10. CASE ReceiveTwo
  BY <1>10 DEF ReceiveTwo, ConfigTypeOK
<1>11. CASE ReceivePiece
  <2>1. down' \in Seq(GetAnswer \cup SetAnswer)
    BY <1>11, HeadTailProperties DEF ReceivePiece, ConfigTypeOK
  <2>2. ui' \in Tool /\ ui'.form.kind \in {ui'.kind, "none"}
    <3>1. ui' = Loaded(ui, Empty, -1) \/ ui' = ui
      BY <1>11 DEF ReceivePiece
    <3>2. -1 \in Int /\ Empty \in Cfg
      BY CfgFacts
    <3>. QED
      BY <3>1, <3>2, LoadedFacts DEF ConfigTypeOK
  <2>. QED
    BY <1>11, <2>1, <2>2 DEF ReceivePiece, ConfigTypeOK
<1>12. CASE ReceiveRest
  BY <1>12, FreshFacts DEF ReceiveRest, ConfigTypeOK, None
<1>13. CASE WriteBack
  BY <1>13, CfgFacts DEF WriteBack, Truncated, WrittenBack, ConfigTypeOK
<1>14. CASE ServiceRestart
  BY <1>14 DEF ServiceRestart, ConfigTypeOK
<1>15. ASSUME NEW k \in DeviceKind, OtherUpdates(k) PROVE ConfigTypeOK'
  <2>1. [kind |-> k, edit |-> MaxEdits + 1] \in Entry
    BY ConfigAssumption DEF Entry
  <2>2. [kind |-> k, edit |-> MaxEdits + 1].kind \in {k, "none"}
    OBVIOUS
  <2>3. [file EXCEPT ![k] = [kind |-> k, edit |-> MaxEdits + 1]] \in Cfg
    BY <2>1, <2>2, SaveFacts DEF ConfigTypeOK
  <2>4. file' \in Cfg /\ rev' \in Nat
    BY <1>15, <2>3 DEF OtherUpdates, ConfigTypeOK
  <2>. QED
    BY <1>15, <2>4 DEF OtherUpdates, ConfigTypeOK
<1>16. CASE UNCHANGED configVars
  BY <1>16 DEF configVars, ConfigTypeOK
<1>. QED
  BY <1>1, <1>2, <1>3, <1>4, <1>5, <1>6, <1>7, <1>8, <1>9, <1>10, <1>11, <1>12,
     <1>13, <1>14, <1>15, <1>16 DEF ConfigNext, Page

(* The entries of one kind never get under the key of another (the pages   *)
(* of devicecfg.cpp share one form, which is built anew when the kind is   *)
(* changed).                                                               *)
THEOREM EntriesStayWithTheirKind == ConfigSpec => []KindsDoNotMix
<1>1. ConfigTypeOK => KindsDoNotMix
  BY DEF ConfigTypeOK, KindsDoNotMix, Cfg, Tool
<1>. QED
  BY <1>1, ConfigInitTypeOK, ConfigNextTypeOK, PTL DEF ConfigSpec
-----------------------------------------------------------------------------
(* A copy of revision base that was changed under the keys saved only is   *)
(* the file, but for those keys, while the revision is the file's.         *)
Agrees(cfg, base, saved) ==
  /\ base <= rev
  /\ base = rev => \A k \in DeviceKind \ saved : cfg[k] = file[k]
UpToDate ==
  /\ Agrees(ui.cfg, ui.base, ui.saved)
  /\ \A n \in 1 .. Len(up) :
       up[n] \in SetRequest => Agrees(up[n].set, up[n].base, up[n].saved)
  /\ \A n \in 1 .. Len(down) :
       down[n] \in GetAnswer => Agrees(down[n].cfg, down[n].rev, {})
ConfigInv == ConfigTypeOK /\ UpToDate

(* What agreed with the file agrees after a change of the file, since it   *)
(* is older then.                                                          *)
LEMMA AgreesAfterChange ==
  ASSUME ConfigTypeOK, rev' = rev + 1, NEW cfg, NEW base \in Int, NEW saved,
         Agrees(cfg, base, saved)
  PROVE  Agrees(cfg, base, saved)'
BY DEF Agrees, ConfigTypeOK

LEMMA InitUpToDate == ConfigInit => UpToDate
<1>. SUFFICES ASSUME ConfigInit PROVE UpToDate
  OBVIOUS
<1>1. ui.base = -1 /\ rev = 0 /\ up = <<>> /\ down = <<>>
  BY DEF ConfigInit, FreshTool
<1>. QED
  BY <1>1 DEF UpToDate, Agrees

(* With the file as it was, only what is new has to be looked at. *)
LEMMA SameFile ==
  ASSUME UNCHANGED <<file, rev>>, NEW cfg, NEW base, NEW saved,
         Agrees(cfg, base, saved)
  PROVE  Agrees(cfg, base, saved)'
BY DEF Agrees

LEMMA SendUpToDate ==
  ASSUME ConfigTypeOK, UpToDate, NEW m \in GetRequest \cup SetRequest, Send(m),
         m \in SetRequest => Agrees(m.set, m.base, m.saved),
         NEW n \in 1 .. Len(up'), up'[n] \in SetRequest
  PROVE  Agrees(up'[n].set, up'[n].base, up'[n].saved)
<1>1. CASE n \in 1 .. Len(up) /\ up'[n] = up[n]
  BY <1>1 DEF UpToDate
<1>2. CASE up'[n] = m
  BY <1>2
<1>3. CASE up' = up
  BY <1>1, <1>3
<1>4. CASE up' = Append(up, m)
  <2>1. up \in Seq(GetRequest \cup SetRequest)
    BY DEF ConfigTypeOK
  <2>2. Len(up') = Len(up) + 1 /\ Len(up) \in Nat /\ up'[Len(up) + 1] = m
        /\ \A l \in 1 .. Len(up) : up'[l] = up[l]
    BY <1>4, <2>1, AppendProperties
  <2>3. n \in 1 .. Len(up) \/ n = Len(up) + 1
    BY <2>2
  <2>. QED
    BY <1>1, <1>2, <2>2, <2>3
<1>. QED
  BY <1>3, <1>4 DEF Send

LEMMA NextUpToDate ==
  ConfigTypeOK /\ UpToDate /\ [ConfigNext]_configVars => UpToDate'
<1>. SUFFICES ASSUME ConfigTypeOK, UpToDate, [ConfigNext]_configVars
              PROVE  UpToDate'
  OBVIOUS
<1>. USE DEF served
<1>0. Agrees(ui.cfg, ui.base, ui.saved) /\ ui.base \in Int /\ rev \in Nat
  BY DEF UpToDate, ConfigTypeOK, Tool
<1>1. CASE Connect \/ Edit \/ (\E k \in DeviceKind : SelectKind(k)) \/ ReceiveTwo
          \/ UNCHANGED configVars
  <2>1. /\ UNCHANGED <<file, rev, up, down>>
        /\ ui'.cfg = ui.cfg /\ ui'.base = ui.base /\ ui'.saved = ui.saved
    BY <1>1 DEF Connect, Edit, SelectKind, Shows, ReceiveTwo, configVars,
         ConfigTypeOK, Tool
  <2>. QED
    BY <2>1 DEF UpToDate, Agrees
<1>2. CASE WriteBack
  BY <1>2 DEF WriteBack, Truncated, WrittenBack, UpToDate, Agrees
<1>3. ASSUME NEW page \in Page, OpenPage(page) PROVE UpToDate'
  <2>1. /\ UNCHANGED <<file, rev, down>>
        /\ ui'.cfg = ui.cfg /\ ui'.base = ui.base /\ ui'.saved = ui.saved
    BY <1>3 DEF OpenPage, ConfigTypeOK, Tool
  <2>2. ASSUME NEW n \in 1 .. Len(up'), up'[n] \in SetRequest
        PROVE  Agrees(up'[n].set, up'[n].base, up'[n].saved)
    <3>1. CASE page = "connect"
      BY <1>3, <2>2, <3>1 DEF OpenPage, UpToDate
    <3>2. CASE page # "connect"
      <4>1. Send([get |-> page])
        BY <1>3, <3>2 DEF OpenPage
      <4>2. [get |-> page] \in GetRequest /\ [get |-> page] \notin SetRequest
        BY DEF GetRequest, SetRequest
      <4>. QED
        BY <2>2, <4>1, <4>2, SendUpToDate
    <3>. QED
      BY <3>1, <3>2
  <2>. QED
    BY <2>1, <2>2 DEF UpToDate, Agrees
<1>4. CASE Save
  <2>1. UNCHANGED <<file, rev, up, down>>
    BY <1>4 DEF Save
  <2>2. /\ ui'.base = ui.base /\ ui'.saved = ui.saved \cup {ui.kind}
        /\ ui'.cfg = [ui.cfg EXCEPT ![ui.kind] = ui.form]
    BY <1>4 DEF Save, ConfigTypeOK, Tool
  <2>3. \A k \in DeviceKind \ ui'.saved : ui'.cfg[k] = ui.cfg[k]
    BY <2>2 DEF ConfigTypeOK, Tool, Cfg
  <2>4. Agrees(ui.cfg, ui.base, ui.saved)' 
    BY <1>0, <2>1, <2>2, <2>3 DEF Agrees
  <2>. QED
    BY <2>1, <2>4 DEF UpToDate, Agrees
<1>5. CASE Update
  <2>. DEFINE m == [set |-> ui.cfg, base |-> ui.base, saved |-> ui.saved]
  <2>1. UNCHANGED <<file, rev, ui, down>> /\ Send(m)
    BY <1>5 DEF Update
  <2>2. m \in SetRequest /\ Agrees(m.set, m.base, m.saved)
    BY <1>0 DEF ConfigTypeOK, Tool, SetRequest
  <2>3. \A n \in 1 .. Len(up') : up'[n] \in SetRequest =>
          Agrees(up'[n].set, up'[n].base, up'[n].saved)
    <3>. HIDE DEF m
    <3>. QED
      BY <2>1, <2>2, SendUpToDate
  <2>. QED
    BY <2>1, <2>3 DEF UpToDate, Agrees
<1>6. CASE Get
  <2>. DEFINE m == [page |-> Head(up).get, cfg |-> file, rev |-> rev]
  <2>1. UNCHANGED <<file, rev, ui>> /\ up # <<>> /\ up' = Tail(up) /\ down' = Append(down, m)
    BY <1>6 DEF Get, Answer
  <2>2. Agrees(m.cfg, m.rev, {})
    BY <1>0 DEF Agrees
  <2>3. ASSUME NEW n \in 1 .. Len(up'), up'[n] \in SetRequest
        PROVE  Agrees(up[n].set, up[n].base, up[n].saved)'
    <3>1. up'[n] = up[n + 1] /\ n + 1 \in 1 .. Len(up)
      BY <2>1, HeadTailProperties DEF ConfigTypeOK
    <3>. QED
      BY <2>1, <2>3, <3>1, SameFile DEF UpToDate
  <2>4. ASSUME NEW n \in 1 .. Len(down'), down'[n] \in GetAnswer
        PROVE  Agrees(down[n].cfg, down[n].rev, {})'
    <3>. HIDE DEF m
    <3>1. \/ n \in 1 .. Len(down) /\ down'[n] = down[n]
          \/ down'[n] = m
      BY <2>1, AppendProperties DEF ConfigTypeOK
    <3>. QED
      BY <2>1, <2>2, <2>4, <3>1, SameFile DEF UpToDate
  <2>. QED
    BY <1>0, <2>1, <2>3, <2>4, SameFile DEF UpToDate
<1>7. CASE Set \/ SetFails
  <2>1. /\ UNCHANGED ui /\ up # <<>> /\ up' = Tail(up)
        /\ down' = Append(down, [page |-> "none"])
        /\ UNCHANGED <<file, rev>> \/ rev' = rev + 1
    BY <1>7 DEF Set, SetFails, Done, Answer
  <2>2. \A cfg, saved : \A base \in Int :
          Agrees(cfg, base, saved) => Agrees(cfg, base, saved)'
    BY <2>1, SameFile, AgreesAfterChange
  <2>3. ASSUME NEW n \in 1 .. Len(up'), up'[n] \in SetRequest
        PROVE  Agrees(up[n].set, up[n].base, up[n].saved)'
    <3>1. up'[n] = up[n + 1] /\ n + 1 \in 1 .. Len(up)
      BY <2>1, HeadTailProperties DEF ConfigTypeOK
    <3>2. up'[n].base \in Int
      BY <2>3 DEF SetRequest
    <3>. QED
      BY <2>2, <2>3, <3>1, <3>2 DEF UpToDate
  <2>4. ASSUME NEW n \in 1 .. Len(down'), down'[n] \in GetAnswer
        PROVE  Agrees(down[n].cfg, down[n].rev, {})'
    <3>1. [page |-> "none"] \notin GetAnswer
      BY DEF GetAnswer, Page
    <3>2. n \in 1 .. Len(down) /\ down'[n] = down[n]
      <4>1. n \in 1 .. Len(down) + 1 /\ Len(down) \in Nat
        BY <2>1, AppendProperties DEF ConfigTypeOK
      <4>. QED
        BY <2>1, <2>4, <3>1, <4>1, AppendProperties DEF ConfigTypeOK
    <3>3. down'[n].rev \in Int
      BY <2>4 DEF GetAnswer
    <3>. QED
      BY <2>2, <2>4, <3>2, <3>3 DEF UpToDate
  <2>. QED
    BY <1>0, <2>1, <2>2, <2>3, <2>4 DEF UpToDate
<1>8. CASE Receive \/ ReceivePiece
  <2>1. UNCHANGED <<file, rev, up>> /\ down # <<>> /\ down' = Tail(down)
    BY <1>8 DEF Receive, ReceivePiece
  <2>2. Head(down) = down[1] /\ 1 \in 1 .. Len(down) /\ Head(down) \in GetAnswer \cup SetAnswer
    BY <2>1, HeadTailProperties DEF ConfigTypeOK
  <2>3. Agrees(ui.cfg, ui.base, ui.saved)'
    <3>1. CASE ui' = ui
      BY <1>0, <2>1, <3>1 DEF Agrees
    <3>2. CASE ui' = Loaded(ui, Empty, -1)
      <4>1. ui'.base = -1
        BY <3>2 DEF Loaded, Shows, ConfigTypeOK, Tool
      <4>. QED
        BY <1>0, <2>1, <4>1 DEF Agrees
    <3>3. CASE ui' = [ui EXCEPT !.known = TRUE]
      <4>1. ui'.cfg = ui.cfg /\ ui'.base = ui.base /\ ui'.saved = ui.saved
        BY <3>3 DEF ConfigTypeOK, Tool
      <4>. QED
        BY <1>0, <2>1, <4>1 DEF Agrees
    <3>4. CASE /\ Head(down).page = ui.page /\ ui.page = "devices"
               /\ ui' = Loaded(ui, Head(down).cfg, Head(down).rev)
      <4>1. Head(down) \in GetAnswer
        BY <2>2, <3>4, AnswerFacts DEF ConfigTypeOK, Tool
      <4>2. Agrees(Head(down).cfg, Head(down).rev, {})
        BY <2>2, <4>1 DEF UpToDate
      <4>3. /\ ui'.cfg = Head(down).cfg /\ ui'.base = Head(down).rev /\ ui'.saved = {}
        BY <3>4 DEF Loaded, Shows, ConfigTypeOK, Tool
      <4>. QED
        BY <2>1, <4>2, <4>3 DEF Agrees
    <3>. QED
      BY <1>8, <3>1, <3>2, <3>3, <3>4 DEF Receive, ReceivePiece, Handled
  <2>4. ASSUME NEW n \in 1 .. Len(down'), down'[n] \in GetAnswer
        PROVE  Agrees(down[n].cfg, down[n].rev, {})'
    <3>1. down'[n] = down[n + 1] /\ n + 1 \in 1 .. Len(down)
      BY <2>1, HeadTailProperties DEF ConfigTypeOK
    <3>. QED
      BY <2>1, <2>4, <3>1, SameFile DEF UpToDate
  <2>5. \A n \in 1 .. Len(up') :
          up'[n] \in SetRequest => Agrees(up[n].set, up[n].base, up[n].saved)'
    BY <2>1, SameFile DEF UpToDate
  <2>. QED
    BY <2>3, <2>4, <2>5 DEF UpToDate
<1>9. CASE ReceiveRest
  <2>1. UNCHANGED <<file, rev>> /\ ui'.base = -1 /\ up' = <<>> /\ down' = <<>>
    BY <1>9 DEF ReceiveRest, FreshTool
  <2>. QED
    BY <1>0, <2>1 DEF UpToDate, Agrees
<1>10. CASE ServiceRestart
  <2>1. UNCHANGED ui /\ up' = <<>> /\ down' = <<>> /\ (UNCHANGED <<file, rev>> \/ rev' = rev + 1)
    BY <1>10 DEF ServiceRestart
  <2>2. Agrees(ui.cfg, ui.base, ui.saved)'
    BY <1>0, <2>1, AgreesAfterChange DEF Agrees
  <2>. QED
    BY <2>1, <2>2 DEF UpToDate
<1>11. ASSUME NEW k \in DeviceKind, OtherUpdates(k) PROVE UpToDate'
  <2>1. UNCHANGED <<ui, up, down>> /\ rev' = rev + 1
    BY <1>11 DEF OtherUpdates
  <2>2. ASSUME NEW n \in 1 .. Len(up), up[n] \in SetRequest
        PROVE  Agrees(up[n].set, up[n].base, up[n].saved)'
    <3>1. up[n].base \in Int
      BY <2>2 DEF SetRequest
    <3>. QED
      BY <2>1, <2>2, <3>1, AgreesAfterChange DEF UpToDate
  <2>3. ASSUME NEW n \in 1 .. Len(down), down[n] \in GetAnswer
        PROVE  Agrees(down[n].cfg, down[n].rev, {})'
    <3>1. down[n].rev \in Int
      BY <2>3 DEF GetAnswer
    <3>. QED
      BY <2>1, <2>3, <3>1, AgreesAfterChange DEF UpToDate
  <2>4. Agrees(ui.cfg, ui.base, ui.saved)'
    BY <1>0, <2>1, AgreesAfterChange DEF Agrees
  <2>. QED
    BY <2>1, <2>2, <2>3, <2>4 DEF UpToDate
<1>. QED
  BY <1>1, <1>2, <1>3, <1>4, <1>5, <1>6, <1>7, <1>8, <1>9, <1>10, <1>11
       DEF ConfigNext, Page

(* A tool whose copy nothing has overtaken changes with its update no kind *)
(* that it has not saved (on_btn_update_clicked() sends the whole copy,    *)
(* DEV_CONF_SET writes it whole).                                          *)
THEOREM AnUpdateKeepsTheRest == ConfigSpec => UpdateKeepsTheRest
<1>1. ASSUME ConfigInv, [ConfigNext]_configVars
      PROVE  [Set /\ Head(up).base = rev =>
                \A k \in DeviceKind \ Head(up).saved : file'[k] = file[k]]_configVars
  <2>. SUFFICES ASSUME Set, Head(up).base = rev
                PROVE  \A k \in DeviceKind \ Head(up).saved : file'[k] = file[k]
    OBVIOUS
  <2>1. 1 \in 1 .. Len(up) /\ Head(up) = up[1] /\ up[1] \in SetRequest
    BY <1>1, RequestFacts, HeadTailProperties DEF Set, ConfigInv, ConfigTypeOK
  <2>2. Agrees(up[1].set, up[1].base, up[1].saved)
    BY <1>1, <2>1 DEF ConfigInv, UpToDate
  <2>. QED
    BY <2>1, <2>2 DEF Set, Agrees
<1>2. ConfigInit => ConfigInv
  BY ConfigInitTypeOK, InitUpToDate DEF ConfigInv
<1>3. ConfigInv /\ [ConfigNext]_configVars => ConfigInv'
  BY ConfigNextTypeOK, NextUpToDate DEF ConfigInv
<1>. QED
  BY <1>1, <1>2, <1>3, PTL DEF ConfigSpec, UpdateKeepsTheRest

-----------------------------------------------------------------------------
(* The data of asynchronous calls *)

Handle == {"local", "node", "call"}
Blocks == Block \cup {Nothing}

ShareTypeOK ==
  /\ ref \in [Block -> Int] /\ live \subseteq Block
  /\ handle \in [CallThread -> [local : Blocks, node : Blocks, call : Blocks]]
  /\ list \in [CallThread -> Seq(Block)]
  /\ drop \in [CallThread -> [block : Blocks, found : Int]]

(* Where the handles of a block are. *)
Held(b) == {p \in CallThread \X Handle : handle[p[1]][p[2]] = b}
Listed(b) ==
  {p \in CallThread \X Nat : p[2] \in 1 .. Len(list[p[1]]) /\ list[p[1]][p[2]] = b}
Pinned(b) == IF b \in Permanent THEN 1 ELSE 0

(* The count of a block is that of its handles. *)
Counted(b) ==
  /\ IsFiniteSet(Held(b)) /\ IsFiniteSet(Listed(b))
  /\ ref[b] = Pinned(b) + Cardinality(Held(b)) + Cardinality(Listed(b))

(* A block that is counted is allocated; one that is not is about to be    *)
(* deleted, by one thread, or free.                                        *)
Settled(b) ==
  /\ ref[b] > 0 => b \in live /\ Deleting(b) = {}
  /\ ref[b] = 0 => IF b \in live THEN \E t \in CallThread : Deleting(b) = {t}
                                 ELSE Deleting(b) = {}

ShareInv == ShareTypeOK /\ \A b \in Block : Counted(b) /\ Settled(b)

LEMMA HandleFields ==
  ASSUME ShareTypeOK, NEW t \in CallThread
  PROVE  /\ handle[t].local = handle[t]["local"] /\ handle[t].node = handle[t]["node"]
         /\ handle[t].call = handle[t]["call"]
         /\ \A h \in Handle : handle[t][h] \in Blocks
BY DEF ShareTypeOK, Handle

LEMMA DomainIdle == DOMAIN Idle = Handle
BY DEF Idle, Handle

LEMMA HeldFinite == IsFiniteSet(CallThread \X Handle)
<1>1. IsFiniteSet(Handle)
  <2>1. Handle = {"local"} \cup {"node"} \cup {"call"}
    BY DEF Handle
  <2>. QED
    BY <2>1, FS_Singleton, FS_Union
<1>. QED
  BY <1>1, ShareDataAssumption, FS_Product

LEMMA ShareInitInv == ShareInit => ShareInv
<1> SUFFICES ASSUME ShareInit PROVE ShareInv
  OBVIOUS
<1>1. ShareTypeOK
  <2>1. Idle \in [local : Blocks, node : Blocks, call : Blocks]
        /\ NoDrop \in [block : Blocks, found : Int]
    BY DEF Idle, NoDrop, Blocks
  <2>. QED
    BY <2>1, ShareDataAssumption DEF ShareInit, ShareTypeOK
<1>2. ASSUME NEW b \in Block PROVE Counted(b) /\ Settled(b)
  <2>1. b # Nothing /\ Pinned(b) \in {0, 1}
    BY ShareDataAssumption DEF Pinned
  <2>2. Held(b) = {}
    BY <2>1 DEF ShareInit, Held, Idle, Handle
  <2>3. Listed(b) = {}
    BY DEF ShareInit, Listed
  <2>4. Deleting(b) = {}
    BY <2>1 DEF ShareInit, Deleting, NoDrop
  <2>5. ref[b] = Pinned(b) /\ (b \in live <=> b \in Permanent)
    BY ShareDataAssumption DEF ShareInit, Pinned
  <2>6. IsFiniteSet({}) /\ Cardinality({}) = 0
    BY FS_EmptySet
  <2>. QED
    BY <2>1, <2>2, <2>3, <2>4, <2>5, <2>6 DEF Counted, Settled, Pinned
<1>. QED
  BY <1>1, <1>2 DEF ShareInv

LEMMA ShareInvIsEnough == ShareInv => FreedOnce
<1> SUFFICES ASSUME ShareInv PROVE FreedOnce
  OBVIOUS
<1>1. ASSUME NEW b \in Block
      PROVE  /\ Cardinality(Held(b)) \in Nat /\ Cardinality(Listed(b)) \in Nat
             /\ ref[b] = Pinned(b) + Cardinality(Held(b)) + Cardinality(Listed(b))
             /\ Pinned(b) \in {0, 1} /\ (b \in Permanent => Pinned(b) = 1)
             /\ (b \notin Permanent => Pinned(b) = 0)
             /\ (Cardinality(Held(b)) = 0 <=> Held(b) = {})
             /\ (Cardinality(Listed(b)) = 0 <=> Listed(b) = {})
  BY FS_CardinalityType, FS_EmptySet DEF ShareInv, Counted, Pinned
<1>2. ASSUME NEW b \in Block PROVE Pointed(b) <=> Held(b) # {} \/ Listed(b) # {}
  <2>1. ASSUME NEW t \in CallThread, b \in {handle[t][h] : h \in DOMAIN Idle}
        PROVE  Held(b) # {}
    <3>1. PICK h \in Handle : handle[t][h] = b
      BY <2>1, DomainIdle
    <3>2. <<t, h>> \in Held(b)
      BY <3>1 DEF Held
    <3>. QED
      BY <3>2
  <2>2. ASSUME NEW t \in CallThread, b \in Range(list[t]) PROVE Listed(b) # {}
    <3>1. PICK i \in DOMAIN list[t] : list[t][i] = b
      BY <2>2 DEF Range
    <3>2. i \in 1 .. Len(list[t]) /\ i \in Nat
      BY DEF ShareInv, ShareTypeOK
    <3>3. <<t, i>> \in Listed(b)
      BY <3>1, <3>2 DEF Listed
    <3>. QED
      BY <3>3
  <2>3. ASSUME Held(b) # {} PROVE Pointed(b)
    <3>1. PICK p \in CallThread \X Handle : handle[p[1]][p[2]] = b
      BY <2>3 DEF Held
    <3>. QED
      BY <3>1, DomainIdle DEF Pointed
  <2>4. ASSUME Listed(b) # {} PROVE Pointed(b)
    <3>1. PICK p \in CallThread \X Nat : p[2] \in 1 .. Len(list[p[1]]) /\ list[p[1]][p[2]] = b
      BY <2>4 DEF Listed
    <3>2. DOMAIN list[p[1]] = 1 .. Len(list[p[1]])
      BY <3>1 DEF ShareInv, ShareTypeOK
    <3>3. b \in Range(list[p[1]])
      BY <3>1, <3>2 DEF Range
    <3>. QED
      BY <3>1, <3>3 DEF Pointed
  <2>. QED
    BY <2>1, <2>2, <2>3, <2>4 DEF Pointed
<1>3. ASSUME NEW b \in Permanent PROVE b \in live
  BY <1>1, ShareDataAssumption DEF ShareInv, Settled
<1>4. ASSUME NEW b \in Block, Pointed(b) PROVE b \in live /\ Deleting(b) = {}
  <2>1. ref[b] > 0
    <3>1. Cardinality(Held(b)) # 0 \/ Cardinality(Listed(b)) # 0
      BY <1>1, <1>2, <1>4
    <3>. QED
      BY <1>1, <3>1
  <2>. QED
    BY <2>1 DEF ShareInv, Settled
<1>5. ASSUME NEW b \in Block \ Permanent, ~Pointed(b)
      PROVE  Cardinality(Deleting(b)) = (IF b \in live THEN 1 ELSE 0)
  <2>1. ref[b] = 0
    BY <1>1, <1>2, <1>5
  <2>2. CASE b \in live
    <3>1. PICK t \in CallThread : Deleting(b) = {t}
      BY <2>1, <2>2 DEF ShareInv, Settled
    <3>. QED
      BY <2>2, <3>1, FS_Singleton
  <2>3. CASE b \notin live
    <3>1. Deleting(b) = {}
      BY <2>1, <2>3 DEF ShareInv, Settled
    <3>. QED
      BY <2>3, <3>1, FS_EmptySet
  <2>. QED
    BY <2>2, <2>3
<1>. QED
  BY <1>3, <1>4, <1>5 DEF FreedOnce

(* One handle of a thread is set to v. *)
Sets(t, h, v) ==
  /\ handle' \in [CallThread -> [local : Blocks, node : Blocks, call : Blocks]]
  /\ \A u \in CallThread : \A k \in Handle :
       handle'[u][k] = IF u = t /\ k = h THEN v ELSE handle[u][k]

LEMMA SetsOne ==
  ASSUME ShareTypeOK, NEW t \in CallThread, NEW v \in Blocks
  PROVE  /\ handle' = [handle EXCEPT ![t].local = v] => Sets(t, "local", v)
         /\ handle' = [handle EXCEPT ![t].node = v] => Sets(t, "node", v)
         /\ handle' = [handle EXCEPT ![t].call = v] => Sets(t, "call", v)
<1>1. handle \in [CallThread -> [local : Blocks, node : Blocks, call : Blocks]]
  BY DEF ShareTypeOK
<1>2. ASSUME handle' = [handle EXCEPT ![t].local = v] PROVE Sets(t, "local", v)
  <2>1. /\ handle'[t] = [local |-> v, node |-> handle[t].node, call |-> handle[t].call]
        /\ \A u \in CallThread : u # t => handle'[u] = handle[u]
    BY <1>1, <1>2
  <2>2. handle' \in [CallThread -> [local : Blocks, node : Blocks, call : Blocks]]
    BY <1>1, <1>2
  <2>. QED
    BY <1>1, <2>1, <2>2 DEF Sets, Handle
<1>3. ASSUME handle' = [handle EXCEPT ![t].node = v] PROVE Sets(t, "node", v)
  <2>1. /\ handle'[t] = [local |-> handle[t].local, node |-> v, call |-> handle[t].call]
        /\ \A u \in CallThread : u # t => handle'[u] = handle[u]
    BY <1>1, <1>3
  <2>2. handle' \in [CallThread -> [local : Blocks, node : Blocks, call : Blocks]]
    BY <1>1, <1>3
  <2>. QED
    BY <1>1, <2>1, <2>2 DEF Sets, Handle
<1>4. ASSUME handle' = [handle EXCEPT ![t].call = v] PROVE Sets(t, "call", v)
  <2>1. /\ handle'[t] = [local |-> handle[t].local, node |-> handle[t].node, call |-> v]
        /\ \A u \in CallThread : u # t => handle'[u] = handle[u]
    BY <1>1, <1>4
  <2>2. handle' \in [CallThread -> [local : Blocks, node : Blocks, call : Blocks]]
    BY <1>1, <1>4
  <2>. QED
    BY <1>1, <2>1, <2>2 DEF Sets, Handle
<1>. QED
  BY <1>2, <1>3, <1>4

LEMMA HeldCounts ==
  ASSUME NEW t \in CallThread, NEW h \in Handle, NEW v, Sets(t, h, v),
         NEW b \in Block, IsFiniteSet(Held(b))
  PROVE  /\ IsFiniteSet(Held(b)')
         /\ Cardinality(Held(b)') = Cardinality(Held(b)) + (IF v = b THEN 1 ELSE 0)
                                      - (IF handle[t][h] = b THEN 1 ELSE 0)
<1> DEFINE x == <<t, h>>
<1>1. /\ x \in Held(b) <=> handle[t][h] = b
      /\ Cardinality(Held(b)) \in Nat
  BY FS_CardinalityType DEF Held
<1>2. Held(b)' = IF v = b THEN Held(b) \cup {x} ELSE Held(b) \ {x}
  <2>1. ASSUME NEW p \in CallThread \X Handle
        PROVE  handle'[p[1]][p[2]] = IF p = x THEN v ELSE handle[p[1]][p[2]]
    BY DEF Sets
  <2>2. x \in CallThread \X Handle
    OBVIOUS
  <2> HIDE DEF x
  <2>. QED
    BY <2>1, <2>2 DEF Held
<1> HIDE DEF x
<1>3. CASE v = b
  BY <1>1, <1>2, <1>3, FS_AddElement
<1>4. CASE v # b
  BY <1>1, <1>2, <1>4, FS_RemoveElement
<1>. QED
  BY <1>3, <1>4

LEMMA PushCounts ==
  ASSUME ShareTypeOK, NEW u \in CallThread, NEW x \in Block,
         list' = [list EXCEPT ![u] = Append(@, x)], NEW b \in Block, IsFiniteSet(Listed(b))
  PROVE  /\ IsFiniteSet(Listed(b)')
         /\ Cardinality(Listed(b)') = Cardinality(Listed(b)) + (IF x = b THEN 1 ELSE 0)
<1> DEFINE y == <<u, Len(list[u]) + 1>>
<1>1. /\ list \in [CallThread -> Seq(Block)] /\ list[u] \in Seq(Block)
      /\ Len(list[u]) \in Nat /\ Cardinality(Listed(b)) \in Nat
  BY FS_CardinalityType DEF ShareTypeOK
<1>2. /\ list'[u] = Append(list[u], x)
      /\ \A t \in CallThread : t # u => list'[t] = list[t]
  BY <1>1
<1>3. y \notin Listed(b) /\ y \in CallThread \X Nat
  BY <1>1 DEF Listed
<1>4. Listed(b)' = IF x = b THEN Listed(b) \cup {y} ELSE Listed(b)
  <2>1. ASSUME NEW p \in CallThread \X Nat
        PROVE  p[2] \in 1 .. Len(list'[p[1]]) /\ list'[p[1]][p[2]] = b
                 <=> (p = y /\ x = b) \/ (p[2] \in 1 .. Len(list[p[1]]) /\ list[p[1]][p[2]] = b)
    <3>1. CASE p[1] = u
      <4>1. /\ Len(Append(list[u], x)) = Len(list[u]) + 1
            /\ \A i \in 1 .. Len(list[u]) + 1 :
                 Append(list[u], x)[i] = IF i = Len(list[u]) + 1 THEN x ELSE list[u][i]
        BY <1>1
      <4>2. p[2] \in Nat /\ (p = y <=> p[2] = Len(list[u]) + 1)
        BY <3>1
      <4>. QED
        BY <1>1, <1>2, <3>1, <4>1, <4>2
    <3>2. CASE p[1] # u
      BY <1>2, <3>2
    <3>. QED
      BY <3>1, <3>2
  <2>. QED
    BY <1>3, <2>1 DEF Listed
<1> HIDE DEF y
<1>5. CASE x = b
  BY <1>1, <1>3, <1>4, <1>5, FS_AddElement
<1>6. CASE x # b
  BY <1>1, <1>4, <1>6
<1>. QED
  BY <1>5, <1>6

LEMMA PopCounts ==
  ASSUME ShareTypeOK, NEW t \in CallThread, list[t] # <<>>,
         list' = [list EXCEPT ![t] = Tail(@)], NEW b \in Block, IsFiniteSet(Listed(b))
  PROVE  /\ IsFiniteSet(Listed(b)')
         /\ Cardinality(Listed(b)') = Cardinality(Listed(b)) - (IF Head(list[t]) = b THEN 1 ELSE 0)
<1> DEFINE y == <<t, 1>>
           N == Listed(b)'
           M == Listed(b)
           f == [p \in N |-> IF p[1] = t THEN <<t, p[2] + 1>> ELSE p]
<1>1. /\ list \in [CallThread -> Seq(Block)] /\ list[t] \in Seq(Block)
      /\ Len(list[t]) \in Nat \ {0} /\ Cardinality(M) \in Nat
      /\ Head(list[t]) = list[t][1]
      /\ Len(Tail(list[t])) = Len(list[t]) - 1
      /\ \A i \in 1 .. Len(list[t]) - 1 : Tail(list[t])[i] = list[t][i + 1]
  BY FS_CardinalityType DEF ShareTypeOK
<1>2. /\ list'[t] = Tail(list[t])
      /\ \A u \in CallThread : u # t => list'[u] = list[u]
  BY <1>1
<1>3. y \in M <=> Head(list[t]) = b
  BY <1>1 DEF Listed
<1>4. /\ N \subseteq CallThread \X Nat /\ M \subseteq CallThread \X Nat
      /\ \A u \in CallThread : \A i \in Nat :
           /\ u # t => (<<u, i>> \in N <=> <<u, i>> \in M)
           /\ <<t, i>> \in N <=> i # 0 /\ <<t, i + 1>> \in M
      /\ <<t, 0>> \notin M
  <2>1. N \subseteq CallThread \X Nat /\ M \subseteq CallThread \X Nat /\ <<t, 0>> \notin M
    BY <1>1 DEF Listed
  <2>2. ASSUME NEW u \in CallThread, NEW i \in Nat, u # t
        PROVE  <<u, i>> \in N <=> <<u, i>> \in M
    BY <1>2, <2>2 DEF Listed
  <2>3. ASSUME NEW i \in Nat PROVE <<t, i>> \in N <=> i # 0 /\ <<t, i + 1>> \in M
    <3>1. <<t, i>> \in N <=> i \in 1 .. Len(Tail(list[t])) /\ Tail(list[t])[i] = b
      BY <1>2 DEF Listed
    <3>2. <<t, i + 1>> \in M <=> i + 1 \in 1 .. Len(list[t]) /\ list[t][i + 1] = b
      BY DEF Listed
    <3>. QED
      BY <1>1, <3>1, <3>2
  <2>. QED
    BY <2>1, <2>2, <2>3
<1> HIDE DEF N, M
<1>5. f \in Bijection(N, M \ {y})
  <2>1. ASSUME NEW p \in N PROVE f[p] \in M \ {y}
    <3>1. PICK u \in CallThread, i \in Nat : p = <<u, i>>
      BY <1>4
    <3>2. CASE u = t
      <4>1. i # 0 /\ <<t, i + 1>> \in M /\ f[p] = <<t, i + 1>>
        BY <1>4, <3>1, <3>2
      <4>. QED
        BY <4>1
    <3>3. CASE u # t
      BY <1>4, <3>1, <3>3
    <3>. QED
      BY <3>2, <3>3
  <2>2. ASSUME NEW p \in N, NEW q \in N, f[p] = f[q] PROVE p = q
    <3>1. PICK u \in CallThread, i \in Nat : p = <<u, i>>
      BY <1>4
    <3>2. PICK v \in CallThread, j \in Nat : q = <<v, j>>
      BY <1>4
    <3>. QED
      BY <2>2, <3>1, <3>2
  <2>3. ASSUME NEW q \in M \ {y} PROVE \E p \in N : f[p] = q
    <3>1. PICK u \in CallThread, j \in Nat : q = <<u, j>>
      BY <1>4
    <3>2. CASE u = t
      <4>1. j # 0 /\ j # 1 /\ j - 1 \in Nat /\ (j - 1) + 1 = j /\ j - 1 # 0
        BY <1>4, <2>3, <3>1, <3>2
      <4>2. <<t, j - 1>> \in N
        BY <1>4, <3>1, <3>2, <4>1
      <4>3. f[<<t, j - 1>>] = q
        BY <3>1, <3>2, <4>1, <4>2
      <4>. QED
        BY <4>2, <4>3
    <3>3. CASE u # t
      <4>1. q \in N
        BY <1>4, <3>1, <3>3
      <4>. QED
        BY <3>1, <3>3, <4>1
    <3>. QED
      BY <3>2, <3>3
  <2>. QED
    BY <2>1, <2>2, <2>3 DEF Bijection, Injection, Surjection, IsInjective
<1>6. IsFiniteSet(M \ {y}) /\ Cardinality(M \ {y})
          = Cardinality(M) - (IF Head(list[t]) = b THEN 1 ELSE 0)
  <2>1. IsFiniteSet(M)
    BY DEF M
  <2>2. IsFiniteSet(M \ {y})
    BY <2>1, FS_RemoveElement
  <2>3. Cardinality(M \ {y}) = IF y \in M THEN Cardinality(M) - 1 ELSE Cardinality(M)
    BY <2>1, FS_RemoveElement
  <2> HIDE DEF y
  <2>. QED
    BY <1>1, <1>3, <2>2, <2>3
<1>7. IsFiniteSet(N) /\ Cardinality(N) = Cardinality(M \ {y})
  <2>1. ExistsBijection(N, M \ {y})
    BY <1>5 DEF ExistsBijection
  <2>2. ExistsBijection(M \ {y}, N)
    BY <2>1, Fun_ExistsBijSymmetric
  <2>. QED
    BY <1>6, <2>2, FS_Bijection
<1>. QED
  BY <1>6, <1>7 DEF N, M

LEMMA SameHandles ==
  ASSUME NEW b
  PROVE  /\ handle' = handle => Held(b)' = Held(b)
         /\ list' = list => Listed(b)' = Listed(b)
         /\ drop' = drop => Deleting(b)' = Deleting(b)
BY DEF Held, Listed, Deleting

LEMMA CountFacts ==
  ASSUME ShareInv, NEW b \in Block
  PROVE  /\ IsFiniteSet(Held(b)) /\ IsFiniteSet(Listed(b))
         /\ Cardinality(Held(b)) \in Nat /\ Cardinality(Listed(b)) \in Nat
         /\ Pinned(b) \in {0, 1} /\ ref[b] \in Nat /\ b # Nothing
         /\ ref[b] = Pinned(b) + Cardinality(Held(b)) + Cardinality(Listed(b))
<1>1. Counted(b)
  BY DEF ShareInv
<1>2. Cardinality(Held(b)) \in Nat /\ Cardinality(Listed(b)) \in Nat
  BY <1>1, FS_CardinalityType DEF Counted
<1>3. Pinned(b) \in {0, 1}
  BY DEF Pinned
<1>. QED
  BY <1>1, <1>2, <1>3, ShareDataAssumption DEF Counted

(* A block with a handle, or a permanent one, is counted and stays. *)
LEMMA HeldIsCounted ==
  ASSUME ShareInv, NEW b \in Block,
         b \in Permanent \/ \E t \in CallThread : \E h \in Handle : handle[t][h] = b
  PROVE  ref[b] > 0 /\ b \in live /\ Deleting(b) = {}
<1>1. ref[b] > 0
  <2>1. CASE b \in Permanent
    <3>1. Pinned(b) = 1
      BY <2>1 DEF Pinned
    <3>. QED
      BY <3>1, CountFacts
  <2>2. CASE \E t \in CallThread : \E h \in Handle : handle[t][h] = b
    <3>1. PICK t \in CallThread, h \in Handle : handle[t][h] = b
      BY <2>2
    <3>2. <<t, h>> \in Held(b)
      BY <3>1 DEF Held
    <3>3. Cardinality(Held(b)) # 0
      BY <3>2, CountFacts, FS_EmptySet
    <3>. QED
      BY <3>3, CountFacts
  <2>. QED
    BY <2>1, <2>2
<1>. QED
  BY <1>1 DEF ShareInv, Settled

LEMMA FillKeeps ==
  ASSUME ShareInv, NEW t \in CallThread, NEW x \in Block, Fill(t, x)
  PROVE  ShareInv'
<1>1. /\ ShareTypeOK /\ x \notin live /\ live' = live \cup {x}
      /\ ref' = [ref EXCEPT ![x] = 1] /\ handle[t]["local"] = Nothing
      /\ handle' = [handle EXCEPT ![t].local = x] /\ UNCHANGED <<list, drop>>
  BY DEF ShareInv, Fill, ShareTypeOK
<1>2. x \in Blocks /\ Sets(t, "local", x) /\ "local" \in Handle
  BY <1>1, SetsOne DEF Blocks, Handle
<1>3. ShareTypeOK'
  BY <1>1, <1>2 DEF ShareTypeOK, Sets
<1>4. ref[x] = 0 /\ Deleting(x) = {}
  <2>1. ~(ref[x] > 0)
    BY <1>1 DEF ShareInv, Settled
  <2>2. ref[x] = 0
    BY <2>1, CountFacts
  <2>. QED
    BY <1>1, <2>2 DEF ShareInv, Settled
<1>5. ASSUME NEW b \in Block PROVE Counted(b)' /\ Settled(b)'
  <2>1. /\ IsFiniteSet(Held(b)')
        /\ Cardinality(Held(b)') = Cardinality(Held(b)) + (IF x = b THEN 1 ELSE 0)
    <3>1. handle[t]["local"] # b
      BY <1>1, CountFacts
    <3>2. /\ IsFiniteSet(Held(b)')
          /\ Cardinality(Held(b)') = Cardinality(Held(b)) + (IF x = b THEN 1 ELSE 0)
                                       - (IF handle[t]["local"] = b THEN 1 ELSE 0)
      BY <1>2, CountFacts, HeldCounts
    <3>. QED
      BY <3>1, <3>2, CountFacts
  <2>2. Listed(b)' = Listed(b) /\ Deleting(b)' = Deleting(b)
    BY <1>1, SameHandles
  <2>3. ref'[b] = IF x = b THEN 1 ELSE ref[b]
    BY <1>1 DEF ShareTypeOK
  <2>4. Counted(b)'
    BY <1>4, <2>1, <2>2, <2>3, CountFacts DEF Counted, Pinned
  <2>5. Settled(b)'
    BY <1>1, <1>4, <2>2, <2>3 DEF ShareInv, Settled
  <2>. QED
    BY <2>4, <2>5
<1>. QED
  BY <1>3, <1>5 DEF ShareInv

LEMMA SendKeeps ==
  ASSUME ShareInv, NEW t \in CallThread, NEW x \in Block, SendAction(t, x)
  PROVE  ShareInv'
<1>1. /\ ShareTypeOK /\ ref' = [ref EXCEPT ![x] = ref[x] + 1] /\ handle[t]["node"] = Nothing
      /\ x \in {handle[t]["local"], handle[t]["call"]} \cup Permanent
      /\ handle' = [handle EXCEPT ![t].node = x] /\ UNCHANGED <<live, list, drop>>
  BY DEF ShareInv, SendAction, Takes, Runs, ShareTypeOK
<1>2. x \in Blocks /\ Sets(t, "node", x) /\ "node" \in Handle
  BY <1>1, SetsOne DEF Blocks, Handle
<1>3. ShareTypeOK'
  BY <1>1, <1>2 DEF ShareTypeOK, Sets
<1>4. ref[x] > 0
  BY <1>1, HeldIsCounted DEF Handle
<1>5. ASSUME NEW b \in Block PROVE Counted(b)' /\ Settled(b)'
  <2>1. /\ IsFiniteSet(Held(b)')
        /\ Cardinality(Held(b)') = Cardinality(Held(b)) + (IF x = b THEN 1 ELSE 0)
    <3>1. handle[t]["node"] # b
      BY <1>1, CountFacts
    <3>2. /\ IsFiniteSet(Held(b)')
          /\ Cardinality(Held(b)') = Cardinality(Held(b)) + (IF x = b THEN 1 ELSE 0)
                                       - (IF handle[t]["node"] = b THEN 1 ELSE 0)
      BY <1>2, CountFacts, HeldCounts
    <3>. QED
      BY <3>1, <3>2, CountFacts
  <2>2. Listed(b)' = Listed(b) /\ Deleting(b)' = Deleting(b)
    BY <1>1, SameHandles
  <2>3. ref'[b] = IF x = b THEN ref[b] + 1 ELSE ref[b]
    BY <1>1 DEF ShareTypeOK
  <2>4. Counted(b)'
    BY <2>1, <2>2, <2>3, CountFacts DEF Counted, Pinned
  <2>5. (ref'[b] > 0 <=> ref[b] > 0) /\ (ref'[b] = 0 <=> ref[b] = 0)
    BY <1>4, <2>3, CountFacts
  <2>6. Settled(b)'
    BY <1>1, <2>2, <2>5 DEF ShareInv, Settled
  <2>. QED
    BY <2>4, <2>6
<1>. QED
  BY <1>3, <1>5 DEF ShareInv

(* A handle goes to a list, or comes from one: the counts stay. *)
LEMMA PassOnKeeps ==
  ASSUME ShareInv, NEW t \in CallThread, (\E u \in CallThread : Push(t, u)) \/ Pop(t)
  PROVE  ShareInv'
<1>1. ShareTypeOK
  BY DEF ShareInv
<1>2. CASE \E u \in CallThread : Push(t, u)
  <2> PICK u \in CallThread : Push(t, u)
    BY <1>2
  <2> DEFINE x == handle[t].node
  <2>1. /\ x = handle[t]["node"] /\ x \in Block
        /\ list' = [list EXCEPT ![u] = Append(@, x)]
        /\ handle' = [handle EXCEPT ![t].node = Nothing] /\ UNCHANGED <<ref, live, drop>>
    BY <1>1, HandleFields DEF Push, Handle, Blocks
  <2>2. Nothing \in Blocks /\ Sets(t, "node", Nothing) /\ "node" \in Handle
    BY <1>1, <2>1, SetsOne DEF Blocks, Handle
  <2> HIDE DEF x
  <2>3. ShareTypeOK'
    <3>1. list' \in [CallThread -> Seq(Block)]
      <4>1. list \in [CallThread -> Seq(Block)]
        BY <1>1 DEF ShareTypeOK
      <4>2. Append(list[u], x) \in Seq(Block)
        BY <2>1, <4>1
      <4>. QED
        BY <2>1, <4>1, <4>2
    <3>. QED
      BY <1>1, <2>1, <2>2, <3>1 DEF ShareTypeOK, Sets
  <2>4. ASSUME NEW b \in Block PROVE Counted(b)' /\ Settled(b)'
    <3>1. /\ IsFiniteSet(Held(b)')
          /\ Cardinality(Held(b)') = Cardinality(Held(b)) + (IF Nothing = b THEN 1 ELSE 0)
                                       - (IF handle[t]["node"] = b THEN 1 ELSE 0)
      BY <2>2, CountFacts, HeldCounts
    <3>2. /\ IsFiniteSet(Listed(b)')
          /\ Cardinality(Listed(b)') = Cardinality(Listed(b)) + (IF x = b THEN 1 ELSE 0)
      BY <1>1, <2>1, CountFacts, PushCounts
    <3>3. Counted(b)'
      BY <2>1, <3>1, <3>2, CountFacts DEF Counted, Pinned
    <3>4. Deleting(b)' = Deleting(b)
      BY <2>1, SameHandles
    <3>. QED
      BY <2>1, <3>3, <3>4 DEF ShareInv, Settled
  <2>. QED
    BY <2>3, <2>4 DEF ShareInv
<1>3. CASE Pop(t)
  <2> DEFINE x == Head(list[t])
  <2>1. /\ handle[t]["call"] = Nothing /\ list[t] # <<>>
        /\ list' = [list EXCEPT ![t] = Tail(@)]
        /\ handle' = [handle EXCEPT ![t].call = x] /\ UNCHANGED <<ref, live, drop>>
    BY <1>3 DEF Pop, Idle
  <2>2. x \in Block /\ x \in Blocks
    BY <1>1, <2>1 DEF ShareTypeOK, Blocks
  <2>3. Sets(t, "call", x) /\ "call" \in Handle
    BY <1>1, <2>1, <2>2, SetsOne DEF Handle
  <2>4. ShareTypeOK'
    <3>1. list' \in [CallThread -> Seq(Block)]
      <4>1. list \in [CallThread -> Seq(Block)]
        BY <1>1 DEF ShareTypeOK
      <4>2. Tail(list[t]) \in Seq(Block)
        BY <2>1, <4>1
      <4>. QED
        BY <2>1, <4>1, <4>2
    <3>. QED
      BY <1>1, <2>1, <2>3, <3>1 DEF ShareTypeOK, Sets
  <2>5. ASSUME NEW b \in Block PROVE Counted(b)' /\ Settled(b)'
    <3>1. /\ IsFiniteSet(Held(b)')
          /\ Cardinality(Held(b)') = Cardinality(Held(b)) + (IF x = b THEN 1 ELSE 0)
                                       - (IF handle[t]["call"] = b THEN 1 ELSE 0)
      BY <2>2, <2>3, CountFacts, HeldCounts
    <3>2. /\ IsFiniteSet(Listed(b)')
          /\ Cardinality(Listed(b)') = Cardinality(Listed(b)) - (IF x = b THEN 1 ELSE 0)
      BY <1>1, <2>1, CountFacts, PopCounts
    <3> HIDE DEF x
    <3>3. Counted(b)'
      <4>1. handle[t]["call"] # b /\ ref'[b] = ref[b] /\ Pinned(b)' = Pinned(b)
        BY <2>1, CountFacts DEF Pinned
      <4>2. Cardinality(Held(b)') = Cardinality(Held(b)) + (IF x = b THEN 1 ELSE 0)
        BY <3>1, <4>1, CountFacts
      <4>3. ref'[b] = Pinned(b) + Cardinality(Held(b)') + Cardinality(Listed(b)')
        BY <3>2, <4>1, <4>2, CountFacts
      <4>. QED
        BY <3>1, <3>2, <4>1, <4>3 DEF Counted
    <3>4. Deleting(b)' = Deleting(b)
      BY <2>1, SameHandles
    <3>. QED
      BY <2>1, <3>3, <3>4 DEF ShareInv, Settled
  <2>. QED
    BY <2>4, <2>5 DEF ShareInv
<1>. QED
  BY <1>2, <1>3

(* The last handle takes the block with it: its thread deletes it. *)
LEMMA DecrefKeeps ==
  ASSUME ShareInv, NEW t \in CallThread, Decref(t, "local") \/ Decref(t, "call")
  PROVE  ShareInv'
<1>1. PICK h \in {"local", "call"} : Decref(t, h)
  OBVIOUS
<1> DEFINE x == handle[t][h]
<1>2. /\ ShareTypeOK /\ h \in Handle /\ x \in Block /\ drop[t] = NoDrop
      /\ ref' = [ref EXCEPT ![x] = ref[x] - 1]
      /\ drop' = [drop EXCEPT ![t] = [block |-> x, found |-> ref'[x]]]
      /\ UNCHANGED <<live, list>>
  BY <1>1, HandleFields DEF ShareInv, Decref, Runs, Handle, Blocks
<1>3. Sets(t, h, Nothing) /\ Nothing \in Blocks
  <2>1. handle' = [handle EXCEPT ![t][h] = Nothing] /\ Nothing \in Blocks
    BY <1>1 DEF Decref, Blocks
  <2>2. CASE h = "local"
    BY <1>2, <2>1, <2>2, SetsOne
  <2>3. CASE h = "call"
    BY <1>2, <2>1, <2>3, SetsOne
  <2>. QED
    BY <2>1, <2>2, <2>3
<1>4. ref[x] > 0 /\ x \in live /\ Deleting(x) = {}
  BY <1>2, HeldIsCounted
<1> HIDE DEF x
<1>5. ref' \in [Block -> Int] /\ ref'[x] = ref[x] - 1
  BY <1>2 DEF ShareTypeOK
<1>6. ShareTypeOK'
  <2>1. [block |-> x, found |-> ref'[x]] \in [block : Blocks, found : Int]
    BY <1>2, <1>5 DEF Blocks
  <2>. QED
    BY <1>2, <1>3, <1>5, <2>1 DEF ShareTypeOK, Sets
<1>7. ASSUME NEW b \in Block PROVE Counted(b)' /\ Settled(b)'
  <2>1. /\ IsFiniteSet(Held(b)')
        /\ Cardinality(Held(b)') = Cardinality(Held(b)) + (IF Nothing = b THEN 1 ELSE 0)
                                     - (IF x = b THEN 1 ELSE 0)
    BY <1>2, <1>3, CountFacts, HeldCounts DEF x
  <2>2. Listed(b)' = Listed(b)
    BY <1>2, SameHandles
  <2>3. ref'[b] = IF x = b THEN ref[b] - 1 ELSE ref[b]
    BY <1>2 DEF ShareTypeOK
  <2>4. Counted(b)'
    BY <2>1, <2>2, <2>3, CountFacts DEF Counted, Pinned
  <2>5. /\ t \notin Deleting(b)
        /\ Deleting(b)' = IF x = b /\ ref'[x] = 0 THEN Deleting(b) \cup {t} ELSE Deleting(b)
    <3>1. drop[t].block = Nothing /\ b # Nothing
      BY <1>2, CountFacts DEF NoDrop
    <3>2. /\ drop'[t].block = x /\ drop'[t].found = ref'[x]
          /\ \A u \in CallThread : u # t => drop'[u] = drop[u]
      BY <1>2 DEF ShareTypeOK
    <3>. QED
      BY <3>1, <3>2 DEF Deleting
  <2>6. Settled(b)'
    <3>1. CASE x = b
      <4>1. ref'[b] = ref[b] - 1 /\ ref[b] > 0 /\ b \in live' /\ Deleting(b) = {} /\ ref[b] \in Nat
        BY <1>2, <1>4, <2>3, <3>1, CountFacts
      <4>2. CASE ref'[b] = 0
        BY <2>5, <3>1, <4>1, <4>2 DEF Settled
      <4>3. CASE ref'[b] # 0
        BY <2>5, <3>1, <4>1, <4>3 DEF Settled
      <4>. QED
        BY <4>2, <4>3
    <3>2. CASE x # b
      BY <1>2, <2>3, <2>5, <3>2 DEF ShareInv, Settled
    <3>. QED
      BY <3>1, <3>2
  <2>. QED
    BY <2>4, <2>6
<1>. QED
  BY <1>6, <1>7 DEF ShareInv

LEMMA DeleteKeeps ==
  ASSUME ShareInv, NEW t \in CallThread, Delete(t)
  PROVE  ShareInv'
<1> DEFINE x == drop[t].block
<1>1. /\ ShareTypeOK /\ drop' = [drop EXCEPT ![t] = NoDrop]
      /\ live' = IF drop[t].found = 0 THEN live \ {x} ELSE live
      /\ UNCHANGED <<ref, handle, list>>
  BY DEF ShareInv, Delete, Deletes
<1>2. ShareTypeOK'
  <2>1. NoDrop \in [block : Blocks, found : Int]
    BY DEF NoDrop, Blocks
  <2>. QED
    BY <1>1, <2>1 DEF ShareTypeOK
<1>3. ASSUME NEW b \in Block PROVE Counted(b)' /\ Settled(b)'
  <2>1. Held(b)' = Held(b) /\ Listed(b)' = Listed(b) /\ ref'[b] = ref[b]
    BY <1>1, SameHandles
  <2>2. Counted(b)'
    BY <2>1, CountFacts DEF Counted, Pinned
  <2>3. Deleting(b)' = Deleting(b) \ {t}
    <3>1. /\ drop'[t].block = Nothing /\ b # Nothing
          /\ \A u \in CallThread : u # t => drop'[u] = drop[u]
      BY <1>1, CountFacts DEF ShareTypeOK, NoDrop
    <3>. QED
      BY <3>1 DEF Deleting
  <2>4. CASE t \in Deleting(b)
    <3>1. x = b /\ drop[t].found = 0
      BY <2>4 DEF Deleting
    <3>2. ref[b] = 0 /\ b \in live /\ Deleting(b) = {t}
      <4>1. ~(ref[b] > 0)
        BY <2>4 DEF ShareInv, Settled
      <4>2. ref[b] = 0
        BY <4>1, CountFacts
      <4>3. b \in live /\ \E u \in CallThread : Deleting(b) = {u}
        BY <2>4, <4>2 DEF ShareInv, Settled
      <4>. QED
        BY <2>4, <4>2, <4>3
    <3>3. Deleting(b)' = {} /\ b \notin live' /\ ref'[b] = 0
      BY <1>1, <2>1, <2>3, <3>1, <3>2
    <3>. QED
      BY <2>2, <3>3 DEF Settled
  <2>5. CASE t \notin Deleting(b)
    <3>1. Deleting(b)' = Deleting(b)
      BY <2>3, <2>5
    <3>2. b \in live' <=> b \in live
      BY <1>1, <2>5 DEF Deleting
    <3>. QED
      BY <2>1, <2>2, <3>1, <3>2 DEF ShareInv, Settled
  <2>. QED
    BY <2>4, <2>5
<1>. QED
  BY <1>2, <1>3 DEF ShareInv

(* The data of a call are freed when, and only when, their last handle is  *)
(* gone, by one thread, whatever the threads and the handles they pass on: *)
(* ASyncCallDataInst counts under its lock and decides by what it found.   *)
THEOREM DataAreFreedOnce == ShareSpec => []FreedOnce
<1>1. ShareInit => ShareInv
  BY ShareInitInv
<1>2. ShareInv /\ [ShareNext]_shareVars => ShareInv'
  <2> SUFFICES ASSUME ShareInv, [ShareNext]_shareVars PROVE ShareInv'
    OBVIOUS
  <2>1. CASE ShareNext
    BY <2>1, FillKeeps, SendKeeps, PassOnKeeps, DecrefKeeps, DeleteKeeps DEF ShareNext
  <2>2. CASE UNCHANGED shareVars
    BY <2>2 DEF shareVars, ShareInv, ShareTypeOK, Counted, Settled, Held, Listed,
         Deleting, Pinned
  <2>. QED
    BY <2>1, <2>2
<1>3. ShareInv => FreedOnce
  BY ShareInvIsEnough
<1>. QED
  BY <1>1, <1>2, <1>3, PTL DEF ShareSpec

-----------------------------------------------------------------------------
(* Digital inputs and outputs *)

(* How many reads have been handled, and how many values written.          *)
ReadsDone == Len(seen) - Len(samples)
WritesDone == Len(sets) - Len(writes)

DioTypeOK ==
  /\ level \in Level /\ reads \in Nat
  /\ samples \in Seq(Value) /\ seen \in Seq(Value) /\ first \in Value
  /\ m_n_last_value \in Value /\ m_n_value \in Value
  /\ writes \in Seq(Level) /\ sets \in Seq(Level)
  /\ ReadsDone \in Nat /\ WritesDone \in Nat

(* The handled reads, with the value before them; those that agree with    *)
(* the one before.                                                         *)
Got(n) == IF n = 1 THEN first ELSE seen[n - 1]
Repeats(n) == n # 1 /\ Got(n) = Got(n - 1)
LastOf(n, k) == Repeats(n) /\ \A m \in 1 .. k : m > n => ~Repeats(m)
TakenOver(k) ==
  \/ \E n \in 1 .. k : LastOf(n, k) /\ m_n_value = Got(n)
  \/ m_n_value = Unknown /\ \A n \in 1 .. k : ~Repeats(n)

(* What waits was read last; what waits to be written was set last. *)
InputsInOrder ==
  /\ \A n \in 1 .. Len(samples) : samples[n] = seen[ReadsDone + n]
  /\ m_n_last_value = Got(ReadsDone + 1)
OutputsInOrder ==
  /\ \A n \in 1 .. Len(writes) : writes[n] = sets[WritesDone + n]
  /\ WritesDone # 0 => missed \/ pin = sets[WritesDone]

DioInv == DioTypeOK /\ InputsInOrder /\ OutputsInOrder /\ TakenOver(ReadsDone + 1)

(* The definition of Debounced, with the numbers of the reads. *)
LEMMA HandledReads ==
  ASSUME DioTypeOK
  PROVE  /\ DOMAIN (<<first>> \o SubSeq(seen, 1, Len(seen) - Len(samples))) = 1 .. ReadsDone + 1
         /\ \A n \in 1 .. ReadsDone + 1 :
              (<<first>> \o SubSeq(seen, 1, Len(seen) - Len(samples)))[n] = Got(n)
<1> DEFINE s == SubSeq(seen, 1, ReadsDone)
           h == <<first>> \o s
<1>1. /\ seen \in Seq(Value) /\ Len(seen) \in Nat /\ Len(samples) \in Nat /\ ReadsDone \in Nat
      /\ ReadsDone <= Len(seen)
  BY DEF DioTypeOK, ReadsDone
<1> HIDE DEF ReadsDone
<1>2. /\ s \in Seq(Value) /\ Len(s) = ReadsDone
      /\ \A n \in 1 .. ReadsDone : s[n] = seen[n]
  BY <1>1
<1>3. <<first>> \in Seq(Value) /\ Len(<<first>>) = 1 /\ <<first>>[1] = first
  BY DEF DioTypeOK
<1> HIDE DEF s
<1>4. h \in Seq(Value) /\ Len(h) = ReadsDone + 1 /\ DOMAIN h = 1 .. ReadsDone + 1
  BY <1>1, <1>2, <1>3, ConcatProperties, LenProperties
<1>5. ASSUME NEW n \in 1 .. ReadsDone + 1 PROVE h[n] = Got(n)
  BY <1>1, <1>2, <1>3, ConcatProperties DEF Got
<1>. QED
  BY <1>4, <1>5 DEF ReadsDone, s

LEMMA DioInvIsEnough == DioInv => ValuesSettle
<1> SUFFICES ASSUME DioInv PROVE ValuesSettle
  OBVIOUS
<1>1. Debounced
  <2> DEFINE h == <<first>> \o SubSeq(seen, 1, Len(seen) - Len(samples))
  <2>1. DOMAIN h = 1 .. ReadsDone + 1 /\ \A n \in 1 .. ReadsDone + 1 : h[n] = Got(n)
    BY HandledReads DEF DioInv
  <2>2. ReadsDone \in Nat
    BY DEF DioInv, DioTypeOK
  <2> HIDE DEF h
  <2>3. \A n \in 1 .. ReadsDone + 1 : Repeats(n) <=> n > 1 /\ h[n] = h[n - 1]
    BY <2>1, <2>2 DEF Repeats
  <2>4. \/ \E n \in DOMAIN h : /\ n > 1 /\ h[n] = h[n - 1]
                               /\ \A m \in DOMAIN h : m > n => ~(m > 1 /\ h[m] = h[m - 1])
                               /\ m_n_value = h[n]
        \/ m_n_value = Unknown /\ \A n \in DOMAIN h : ~(n > 1 /\ h[n] = h[n - 1])
    BY <2>1, <2>3 DEF DioInv, TakenOver, LastOf
  <2>. QED
    BY <2>4 DEF Debounced, h
<1>2. OutputIsLastSet
  <2> SUFFICES ASSUME writes = <<>>, sets # <<>> PROVE missed \/ pin = sets[Len(sets)]
    BY DEF OutputIsLastSet
  <2>1. Len(sets) \in Nat /\ Len(sets) # 0 /\ Len(writes) = 0
    BY DEF DioInv, DioTypeOK
  <2>2. WritesDone = Len(sets)
    BY <2>1 DEF WritesDone
  <2>. QED
    BY <2>1, <2>2 DEF DioInv, OutputsInOrder
<1>. QED
  BY <1>1, <1>2 DEF ValuesSettle

LEMMA DioInitInv == DioInit => DioInv
<1> SUFFICES ASSUME DioInit PROVE DioInv
  OBVIOUS
<1>1. /\ Len(seen) = 0 /\ Len(samples) = 0 /\ Len(sets) = 0 /\ Len(writes) = 0
  BY DEF DioInit
<1>2. ReadsDone = 0 /\ WritesDone = 0
  BY <1>1 DEF ReadsDone, WritesDone
<1>3. DioTypeOK
  BY <1>2 DEF DioInit, DioTypeOK, Value, Unknown
<1>4. Got(1) = first /\ \A n \in 1 .. 1 : ~Repeats(n)
  BY DEF Got, Repeats
<1>5. TakenOver(ReadsDone + 1)
  BY <1>2, <1>4 DEF TakenOver, DioInit
<1>6. InputsInOrder
  BY <1>1, <1>2, <1>4 DEF InputsInOrder, DioInit
<1>7. OutputsInOrder
  BY <1>1, <1>2 DEF OutputsInOrder
<1>. QED
  BY <1>3, <1>5, <1>6, <1>7 DEF DioInv

(* TakenOver says the same of states that agree on the first k reads. *)
LEMMA TakenOverSame ==
  ASSUME NEW k \in Nat, TakenOver(k), m_n_value' = m_n_value,
         \A n \in 1 .. k : Got(n)' = Got(n)
  PROVE  TakenOver(k)'
<1>1. \A n \in 1 .. k : Repeats(n)' <=> Repeats(n)
  BY DEF Repeats
<1>2. \A n \in 1 .. k : LastOf(n, k)' <=> LastOf(n, k)
  BY <1>1 DEF LastOf
<1>. QED
  BY <1>1, <1>2 DEF TakenOver

LEMMA InputStepKeeps ==
  ASSUME DioInv, LevelChanges \/ DiTimeOutEvent \/ DiDoAsyncAction
  PROVE  DioInv'
<1>1. /\ DioTypeOK /\ samples \in Seq(Value) /\ seen \in Seq(Value) /\ ReadsDone \in Nat
      /\ Len(seen) \in Nat /\ Len(samples) \in Nat
  BY DEF DioInv, DioTypeOK
<1>2. /\ UNCHANGED <<m_n_last_value, m_n_value, first>>
      /\ UNCHANGED <<writes, pin, sets, missed>>
      /\ \/ UNCHANGED <<samples, seen>>
         \/ \E v \in Value : samples' = Append(samples, v) /\ seen' = Append(seen, v)
  BY <1>1 DEF LevelChanges, DiTimeOutEvent, DiDoAsyncAction, outputs, DioTypeOK,
       Value, Unknown
<1>3. /\ samples' \in Seq(Value) /\ seen' \in Seq(Value) /\ ReadsDone' = ReadsDone
      /\ Len(seen') \in Nat /\ Len(samples') \in Nat
      /\ \A n \in 1 .. Len(seen) : seen'[n] = seen[n]
      /\ \A n \in 1 .. Len(samples') : samples'[n] = seen'[ReadsDone + n]
  <2>1. CASE UNCHANGED <<samples, seen>>
    BY <1>1, <2>1 DEF DioInv, InputsInOrder, ReadsDone
  <2>2. ASSUME NEW v \in Value, samples' = Append(samples, v), seen' = Append(seen, v)
        PROVE <1>3!:
    <3>1. Len(samples') = Len(samples) + 1 /\ Len(seen') = Len(seen) + 1
      BY <1>1, <2>2
    <3>2. ReadsDone' = ReadsDone
      BY <1>1, <3>1 DEF ReadsDone
    <3>3. ASSUME NEW n \in 1 .. Len(samples') PROVE samples'[n] = seen'[ReadsDone + n]
      <4>1. CASE n = Len(samples')
        <5>1. ReadsDone + n = Len(seen) + 1
          BY <1>1, <3>1, <4>1 DEF ReadsDone
        <5>. QED
          BY <1>1, <2>2, <3>1, <4>1, <5>1
      <4>2. CASE n # Len(samples')
        <5>1. n \in 1 .. Len(samples) /\ ReadsDone + n \in 1 .. Len(seen)
          BY <1>1, <3>1, <4>2 DEF ReadsDone
        <5>2. samples[n] = seen[ReadsDone + n]
          BY <5>1 DEF DioInv, InputsInOrder
        <5>. QED
          BY <1>1, <2>2, <5>1, <5>2
      <4>. QED
        BY <4>1, <4>2
    <3>4. samples' \in Seq(Value) /\ seen' \in Seq(Value) /\ Len(seen') \in Nat
              /\ Len(samples') \in Nat
      BY <1>1, <2>2
    <3>5. \A n \in 1 .. Len(seen) : seen'[n] = seen[n]
      BY <1>1, <2>2
    <3>. QED
      BY <3>2, <3>3, <3>4, <3>5
  <2>. QED
    BY <1>2, <2>1, <2>2
<1>4. WritesDone' = WritesDone
  BY <1>2 DEF WritesDone
<1>5. DioTypeOK'
  <2>1. level' \in Level /\ reads' \in Nat
    BY <1>1 DEF LevelChanges, DiTimeOutEvent, DiDoAsyncAction, DioTypeOK, Level
  <2>. QED
    BY <1>1, <1>2, <1>3, <1>4, <2>1 DEF DioTypeOK
<1>6. ASSUME NEW n \in 1 .. ReadsDone + 1 PROVE Got(n)' = Got(n)
  <2>1. n # 1 => n - 1 \in 1 .. Len(seen)
    BY <1>1 DEF ReadsDone
  <2>. QED
    BY <1>2, <1>3, <2>1 DEF Got
<1>7. TakenOver(ReadsDone + 1)'
  <2>1. ASSUME NEW k \in Nat, k = ReadsDone + 1 PROVE TakenOver(k)'
    BY <1>2, <1>6, <2>1, TakenOverSame DEF DioInv
  <2>2. PICK k \in Nat : k = ReadsDone + 1
    BY <1>1
  <2>. QED
    BY <1>3, <2>1, <2>2 DEF TakenOver, LastOf, Repeats, Got
<1>8. InputsInOrder'
  <2>1. PICK k \in 1 .. ReadsDone + 1 : k = ReadsDone + 1
    BY <1>1
  <2>2. m_n_last_value = Got(k) /\ Got(k)' = Got(k)
    BY <1>6, <2>1 DEF DioInv, InputsInOrder
  <2>3. m_n_last_value' = Got(ReadsDone + 1)'
    BY <1>2, <1>3, <2>1, <2>2 DEF Got
  <2>. QED
    BY <1>3, <2>3 DEF InputsInOrder
<1>9. OutputsInOrder'
  BY <1>2, <1>4 DEF DioInv, OutputsInOrder
<1>. QED
  BY <1>5, <1>7, <1>8, <1>9 DEF DioInv

(* A sample is the next read; it is taken over if it agrees.               *)
LEMMA SampleKeeps ==
  ASSUME DioInv, DiDoSyncAction
  PROVE  DioInv'
<1>1. /\ DioTypeOK /\ samples \in Seq(Value) /\ seen \in Seq(Value) /\ ReadsDone \in Nat
      /\ Len(seen) \in Nat /\ Len(samples) \in Nat \ {0} /\ samples # <<>>
  BY DEF DioInv, DioTypeOK, DiDoSyncAction
<1>2. /\ samples' = Tail(samples) /\ m_n_last_value' = Head(samples)
      /\ m_n_value' = IF Head(samples) = m_n_last_value THEN Head(samples) ELSE m_n_value
      /\ UNCHANGED <<level, reads, first, seen, writes, pin, sets, missed>>
  BY DEF DiDoSyncAction, Remembers, outputs
<1>3. PICK k \in Nat : k = ReadsDone + 1
  BY <1>1
<1>4. /\ samples' \in Seq(Value) /\ Len(samples') = Len(samples) - 1 /\ Head(samples) \in Value
      /\ Head(samples) = samples[1]
      /\ \A n \in 1 .. Len(samples) - 1 : samples'[n] = samples[n + 1]
  BY <1>1, <1>2
<1>5. ReadsDone' = k /\ ReadsDone' = ReadsDone + 1
  BY <1>1, <1>2, <1>3, <1>4 DEF ReadsDone
<1>6. Head(samples) = Got(k + 1) /\ m_n_last_value = Got(k)
  <2>1. samples[1] = seen[k]
    BY <1>1, <1>3 DEF DioInv, InputsInOrder
  <2>2. m_n_last_value = Got(k)
    BY <1>3 DEF DioInv, InputsInOrder
  <2>3. Got(k + 1) = seen[k]
    BY <1>1, <1>3 DEF Got
  <2>. QED
    BY <1>4, <2>1, <2>2, <2>3
<1>7. \A n : Got(n)' = Got(n) /\ (Repeats(n)' <=> Repeats(n))
  BY <1>2 DEF Got, Repeats
<1>8. DioTypeOK'
  <2>1. m_n_value' \in Value
    BY <1>1, <1>2, <1>4 DEF DioTypeOK
  <2>2. WritesDone' = WritesDone
    BY <1>2 DEF WritesDone
  <2>. QED
    BY <1>1, <1>2, <1>3, <1>4, <1>5, <2>1, <2>2 DEF DioTypeOK
<1>9. InputsInOrder'
  <2>1. ASSUME NEW n \in 1 .. Len(samples') PROVE samples'[n] = seen'[k + n]
    <3>1. n + 1 \in 1 .. Len(samples) /\ samples'[n] = samples[n + 1] /\ ReadsDone + (n + 1) = k + n
      BY <1>1, <1>3, <1>4
    <3>2. samples[n + 1] = seen[ReadsDone + (n + 1)]
      BY <3>1 DEF DioInv, InputsInOrder
    <3>. QED
      BY <1>2, <3>1, <3>2
  <2>2. m_n_last_value' = Got(k + 1)'
    BY <1>2, <1>6 DEF Got
  <2>. QED
    BY <1>5, <2>1, <2>2 DEF InputsInOrder, Got
<1>10. TakenOver(k + 1)'
  <2>1. TakenOver(k)
    BY <1>3 DEF DioInv
  <2>2. (k + 1) - 1 = k /\ k + 1 # 1 /\ k + 1 \in 1 .. k + 1 /\ 1 .. k + 1 = (1 .. k) \cup {k + 1}
    BY <1>1, <1>3
  <2>3. CASE Head(samples) = m_n_last_value
    <3>1. Repeats(k + 1) /\ m_n_value' = Got(k + 1)
      BY <1>2, <1>6, <2>2, <2>3 DEF Repeats
    <3>2. \A m \in 1 .. k + 1 : ~(m > k + 1)
      OBVIOUS
    <3>3. LastOf(k + 1, k + 1)'
      BY <1>7, <3>1, <3>2 DEF LastOf
    <3>4. m_n_value' = Got(k + 1)'
      BY <1>7, <3>1
    <3>. QED
      BY <2>2, <3>3, <3>4 DEF TakenOver
  <2>4. CASE Head(samples) # m_n_last_value
    <3>1. ~Repeats(k + 1) /\ m_n_value' = m_n_value
      BY <1>2, <1>6, <2>2, <2>4 DEF Repeats
    <3>2. \A n \in 1 .. k : LastOf(n, k) => LastOf(n, k + 1)'
      BY <1>7, <2>2, <3>1 DEF LastOf
    <3>3. \A n \in 1 .. k : n \in 1 .. k + 1 /\ Got(n)' = Got(n)
      BY <1>7
    <3>4. CASE \E n \in 1 .. k : LastOf(n, k) /\ m_n_value = Got(n)
      BY <3>1, <3>2, <3>3, <3>4 DEF TakenOver
    <3>5. CASE m_n_value = Unknown /\ \A n \in 1 .. k : ~Repeats(n)
      BY <1>7, <2>2, <3>1, <3>5 DEF TakenOver, Unknown
    <3>. QED
      BY <2>1, <3>4, <3>5 DEF TakenOver
  <2>. QED
    BY <2>3, <2>4
<1>11. TakenOver(ReadsDone + 1)'
  BY <1>5, <1>10 DEF TakenOver, LastOf, Repeats, Got
<1>12. OutputsInOrder'
  BY <1>2 DEF DioInv, OutputsInOrder, WritesDone
<1>. QED
  BY <1>8, <1>9, <1>11, <1>12 DEF DioInv

(* What is set waits behind what was set before. *)
LEMMA SetKeeps ==
  ASSUME DioInv, NEW v \in Level, SetDoValue(v)
  PROVE  DioInv'
<1>1. /\ writes \in Seq(Level) /\ sets \in Seq(Level) /\ WritesDone \in Nat
      /\ Len(sets) \in Nat /\ Len(writes) \in Nat
  BY DEF DioInv, DioTypeOK
<1>2. /\ sets' = Append(sets, v) /\ writes' = Append(writes, v) /\ UNCHANGED <<pin, missed>>
      /\ UNCHANGED inputs
  BY DEF SetDoValue
<1>3. Len(sets') = Len(sets) + 1 /\ Len(writes') = Len(writes) + 1
  BY <1>1, <1>2
<1>4. WritesDone' = WritesDone
  BY <1>1, <1>3 DEF WritesDone
<1>5. DioTypeOK'
  <2>1. sets' \in Seq(Level) /\ writes' \in Seq(Level)
    BY <1>1, <1>2
  <2>. QED
    BY <1>2, <1>4, <2>1 DEF DioInv, DioTypeOK, inputs, ReadsDone
<1>6. ASSUME NEW n \in 1 .. Len(writes') PROVE writes'[n] = sets'[WritesDone + n]
  <2>1. CASE n = Len(writes')
    <3>1. WritesDone + n = Len(sets) + 1
      BY <1>1, <1>3, <2>1 DEF WritesDone
    <3>. QED
      BY <1>1, <1>2, <1>3, <2>1, <3>1
  <2>2. CASE n # Len(writes')
    <3>1. n \in 1 .. Len(writes) /\ WritesDone + n \in 1 .. Len(sets)
      BY <1>1, <1>3, <2>2 DEF WritesDone
    <3>2. writes[n] = sets[WritesDone + n]
      BY <3>1 DEF DioInv, OutputsInOrder
    <3>. QED
      BY <1>1, <1>2, <3>1, <3>2
  <2>. QED
    BY <2>1, <2>2
<1>7. WritesDone # 0 => missed' \/ pin' = sets'[WritesDone]
  <2> SUFFICES ASSUME WritesDone # 0 PROVE missed' \/ pin' = sets'[WritesDone]
    OBVIOUS
  <2>1. WritesDone \in 1 .. Len(sets)
    BY <1>1 DEF WritesDone
  <2>2. sets'[WritesDone] = sets[WritesDone]
    BY <1>1, <1>2, <2>1
  <2>. QED
    BY <1>2, <2>2 DEF DioInv, OutputsInOrder
<1>8. OutputsInOrder'
  BY <1>4, <1>6, <1>7 DEF OutputsInOrder
<1>9. InputsInOrder' /\ TakenOver(ReadsDone + 1)'
  BY <1>2 DEF DioInv, inputs, InputsInOrder, TakenOver, LastOf, Repeats, Got, ReadsDone
<1>. QED
  BY <1>5, <1>8, <1>9 DEF DioInv

LEMMA WriteKeeps ==
  ASSUME DioInv, DoDoAsyncAction
  PROVE  DioInv'
<1>1. /\ writes \in Seq(Level) /\ sets \in Seq(Level) /\ WritesDone \in Nat
      /\ Len(sets) \in Nat /\ Len(writes) \in Nat \ {0} /\ writes # <<>>
  BY DEF DioInv, DioTypeOK, DoDoAsyncAction
<1>2. /\ writes' = Tail(writes) /\ sets' = sets /\ UNCHANGED inputs
      /\ missed' = TRUE \/ pin' = Head(writes)
  BY DEF DoDoAsyncAction
<1>3. /\ writes' \in Seq(Level) /\ Len(writes') = Len(writes) - 1 /\ Head(writes) = writes[1]
      /\ \A n \in 1 .. Len(writes) - 1 : writes'[n] = writes[n + 1]
  BY <1>1, <1>2
<1>4. WritesDone' = WritesDone + 1 /\ WritesDone + 1 \in Nat /\ WritesDone + 1 # 0
  <2>1. Len(sets') = Len(sets) /\ Len(writes') = Len(writes) - 1
    BY <1>2, <1>3
  <2>2. Len(sets) \in Nat /\ Len(writes) \in Nat /\ Len(sets) - Len(writes) \in Nat
    BY <1>1 DEF WritesDone
  <2>. QED
    BY <2>1, <2>2 DEF WritesDone
<1>5. DioTypeOK'
  BY <1>1, <1>2, <1>3, <1>4 DEF DioInv, DioTypeOK, inputs, ReadsDone
<1>6. ASSUME NEW n \in 1 .. Len(writes') PROVE writes'[n] = sets'[(WritesDone + 1) + n]
  <2>1. n + 1 \in 1 .. Len(writes) /\ writes'[n] = writes[n + 1]
            /\ WritesDone + (n + 1) = (WritesDone + 1) + n
    BY <1>1, <1>3
  <2>2. writes[n + 1] = sets[WritesDone + (n + 1)]
    BY <2>1 DEF DioInv, OutputsInOrder
  <2>. QED
    BY <1>2, <2>1, <2>2
<1>7. missed' \/ pin' = sets'[WritesDone + 1]
  <2>1. writes[1] = sets[WritesDone + 1]
    BY <1>1 DEF DioInv, OutputsInOrder
  <2>2. CASE missed' = TRUE
    BY <2>2
  <2>3. CASE pin' = Head(writes)
    <3>1. pin' = sets'[WritesDone + 1]
      BY <1>2, <1>3, <2>1, <2>3
    <3>. QED
      BY <3>1
  <2>. QED
    BY <1>2, <2>2, <2>3
<1>8. OutputsInOrder'
  BY <1>4, <1>6, <1>7 DEF OutputsInOrder
<1>9. InputsInOrder' /\ TakenOver(ReadsDone + 1)'
  BY <1>2 DEF DioInv, inputs, InputsInOrder, TakenOver, LastOf, Repeats, Got, ReadsDone
<1>. QED
  BY <1>5, <1>8, <1>9 DEF DioInv

(* An input has the value of the latest two reads that agree, an output    *)
(* that which was set last, for any number of reads and calls under way.   *)
THEOREM InputsAndOutputsSettle == DioSpec => []ValuesSettle
<1>1. DioInit => DioInv
  BY DioInitInv
<1>2. DioInv /\ [DioNext]_dioVars => DioInv'
  <2> SUFFICES ASSUME DioInv, [DioNext]_dioVars PROVE DioInv'
    OBVIOUS
  <2>1. CASE DioNext
    BY <2>1, InputStepKeeps, SampleKeeps, SetKeeps, WriteKeeps DEF DioNext
  <2>2. CASE UNCHANGED dioVars
    BY <2>2 DEF dioVars, inputs, outputs, DioInv, DioTypeOK, InputsInOrder,
         OutputsInOrder,
                TakenOver, LastOf, Repeats, Got, ReadsDone, WritesDone
  <2>. QED
    BY <2>1, <2>2
<1>3. DioInv => ValuesSettle
  BY DioInvIsEnough
<1>. QED
  BY <1>1, <1>2, <1>3, PTL DEF DioSpec

-----------------------------------------------------------------------------
(* The socket buffer *)

(* The data lies in the written part of the block; without a block there   *)
(* is no data.                                                             *)
CacheInv ==
  /\ TypeOK
  /\ InBlock
  /\ NoGarbage
  /\ NoOverAllocation
  /\ block_size = 0 => head = 0 /\ len = 0

(* A copy leaves a block of the same size with d from at on. *)
LEMMA WriteType ==
  ASSUME NEW size \in Nat, NEW m \in [0 .. size - 1 -> Byte \cup {Garbage}],
         NEW at \in Nat, NEW d \in Seq(Byte)
  PROVE  Write(m, at, d) \in [0 .. size - 1 -> Byte \cup {Garbage}]
<1>. SUFFICES ASSUME NEW i \in 0 .. size - 1
              PROVE  (IF at <= i /\ i < at + Len(d) THEN d[i - at + 1] ELSE m[i])
                       \in Byte \cup {Garbage}
  BY DEF Write
<1>1. CASE at <= i /\ i < at + Len(d)
  <2>1. i - at + 1 \in 1 .. Len(d)
    BY <1>1
  <2>. QED
    BY <1>1, <2>1
<1>2. CASE ~(at <= i /\ i < at + Len(d))
  BY <1>2
<1>. QED
  BY <1>1, <1>2

(* ToFront keeps the size of the block when the data is inside it. *)
LEMMA ToFrontType ==
  ASSUME NEW size \in Nat, NEW m \in [0 .. size - 1 -> Byte \cup {Garbage}],
         NEW from \in Nat, NEW n \in Nat, from + n <= size
  PROVE  ToFront(m, from, n) \in [0 .. size - 1 -> Byte \cup {Garbage}]
BY DEF ToFront

(* A fresh block has the size asked for. *)
LEMMA FreshType ==
  ASSUME NEW size \in Nat
  PROVE  Fresh(size) \in [0 .. size - 1 -> Byte \cup {Garbage}]
BY DEF Fresh

(* What is seen of the block is a byte string. *)
LEMMA ContentsType ==
  ASSUME len \in Nat, NoGarbage
  PROVE  /\ Contents \in Seq(Byte)
         /\ Len(Contents) = len
         /\ \A i \in 1 .. len : Contents[i] = mem[head + i - 1]
<1>1. \A i \in 1 .. len : mem[head + i - 1] \in Byte
  BY DEF NoGarbage
<1>2. Contents \in [1 .. len -> Byte]
  BY <1>1 DEF Contents
<1>3. Contents \in Seq(Byte)
  BY <1>2
<1>. QED
  BY <1>2, <1>3 DEF Contents

(* Every chunk is a byte string with at least one byte. *)
LEMMA ChunkType ==
  ASSUME NEW d \in Chunks
  PROVE  d \in Seq(Byte) /\ Len(d) \in Nat /\ Len(d) > 0
<1>1. d \in Seq(Byte) /\ d # <<>>
  BY CacheAssumption DEF CacheAssumption
<1>. QED
  BY <1>1

(* How every append() leaves the buffer: the block of a legal size, the    *)
(* old data in its order, then the new data.                               *)
BytesAppended(d) ==
  /\ TypeOK' /\ InBlock'
  /\ block_size' # 0
  /\ len' = len + Len(d)
  /\ \A i \in 1 .. len : mem'[head' + i - 1] = mem[head + i - 1]
  /\ \A i \in 1 .. Len(d) : mem'[head' + len + i - 1] = d[i]
  /\ peak' = IF len' > peak THEN len' ELSE peak
  /\ \/ block_size' = block_size
     \/ block_size' > InitBlock => block_size' < 2 * len'

(* fix_block_size() goes above the first size only when the half is too    *)
(* small.                                                                  *)
LEMMA FixBlockSizeBound ==
  ASSUME NEW need \in Nat, NEW s \in BlockSizes, FixBlockSize(need, s),
         block_size = 0 \/ need > block_size, block_size \in Nat
  PROVE  s \in Nat /\ s # 0 /\ s >= need /\ (s > InitBlock => s < 2 * need)
<1>1. s \in Nat \ {0} /\ s >= need
  BY CacheAssumption DEF CacheAssumption, FixBlockSize
<1>2. ASSUME s > InitBlock, s >= 2 * need
      PROVE  FALSE
  <2>1. PICK r \in BlockSizes : s = 2 * r
    BY <1>1, <1>2, CacheAssumption DEF CacheAssumption
  <2>2. r \in Nat \ {0}
    BY CacheAssumption DEF CacheAssumption
  <2>3. r >= need /\ r >= block_size
    BY <1>2, <2>1, <2>2
  <2>4. s <= r
    BY <2>1, <2>3 DEF FixBlockSize
  <2>. QED
    BY <2>1, <2>2, <2>4
<1>. QED
  BY <1>1, <1>2, CacheAssumption DEF CacheAssumption

LEMMA AppendFirstResult ==
  ASSUME CacheInv, NEW d \in Chunks, AppendFirst(d)
  PROVE  BytesAppended(d)
<1>1. d \in Seq(Byte) /\ Len(d) \in Nat /\ Len(d) > 0
  BY ChunkType
<1>2. /\ block_size = 0 /\ head = 0 /\ len = 0 /\ peak \in Nat
      /\ head' = 0 /\ len' = Len(d)
      /\ peak' = IF len' > peak THEN len' ELSE peak
  BY DEF CacheInv, TypeOK, AppendFirst, Longest
<1>3. PICK s \in BlockSizes :
        /\ FixBlockSize(Len(d), s)
        /\ block_size' = s
        /\ mem' = Write(Fresh(s), 0, d)
  BY DEF AppendFirst
<1>4. s \in Nat /\ s # 0 /\ s >= Len(d) /\ (s > InitBlock => s < 2 * Len(d))
  BY <1>1, <1>2, <1>3, FixBlockSizeBound
<1>5. Fresh(s) \in [0 .. s - 1 -> Byte \cup {Garbage}]
  BY <1>4, FreshType
<1>6. mem' \in [0 .. s - 1 -> Byte \cup {Garbage}]
  BY <1>1, <1>3, <1>4, <1>5, WriteType
<1>7. TypeOK' /\ InBlock'
  BY <1>1, <1>2, <1>3, <1>4, <1>6 DEF TypeOK, InBlock
<1>8. \A i \in 1 .. Len(d) : mem'[head' + len + i - 1] = d[i]
  BY <1>1, <1>2, <1>3, <1>4, <1>5 DEF Write
<1>. QED
  BY <1>1, <1>2, <1>3, <1>4, <1>7, <1>8 DEF BytesAppended

LEMMA AppendInPlaceResult ==
  ASSUME CacheInv, NEW d \in Chunks, AppendInPlace(d)
  PROVE  BytesAppended(d)
<1>1. d \in Seq(Byte) /\ Len(d) \in Nat /\ Len(d) > 0
  BY ChunkType
<1>2. /\ block_size \in BlockSizes /\ block_size \in Nat /\ block_size # 0
      /\ head \in Nat /\ len \in Nat /\ peak \in Nat
      /\ mem \in [0 .. block_size - 1 -> Byte \cup {Garbage}]
      /\ Len(d) + head + len <= block_size
      /\ mem' = Write(mem, head + len, d)
      /\ head' = head /\ len' = len + Len(d) /\ block_size' = block_size
      /\ peak' = IF len' > peak THEN len' ELSE peak
  BY CacheAssumption
  DEF CacheInv, TypeOK, AppendInPlace, FitsBehind, Longest, CacheAssumption
<1>3. mem' \in [0 .. block_size' - 1 -> Byte \cup {Garbage}]
  BY <1>1, <1>2, WriteType
<1>4. TypeOK' /\ InBlock'
  BY <1>1, <1>2, <1>3 DEF TypeOK, InBlock
<1>5. \A i \in 1 .. len : mem'[head' + i - 1] = mem[head + i - 1]
  BY <1>1, <1>2 DEF Write
<1>6. \A i \in 1 .. Len(d) : mem'[head' + len + i - 1] = d[i]
  BY <1>1, <1>2 DEF Write
<1>. QED
  BY <1>1, <1>2, <1>4, <1>5, <1>6 DEF BytesAppended

LEMMA AppendCompactResult ==
  ASSUME CacheInv, NEW d \in Chunks, AppendCompact(d)
  PROVE  BytesAppended(d)
<1>. DEFINE moved == ToFront(mem, head, len)
<1>1. d \in Seq(Byte) /\ Len(d) \in Nat /\ Len(d) > 0
  BY ChunkType
<1>2. /\ block_size \in BlockSizes /\ block_size \in Nat /\ block_size # 0
      /\ head \in Nat /\ len \in Nat /\ peak \in Nat
      /\ head + len <= block_size
      /\ mem \in [0 .. block_size - 1 -> Byte \cup {Garbage}]
      /\ Len(d) + len <= block_size
      /\ mem' = Write(moved, len, d)
      /\ head' = 0 /\ len' = len + Len(d) /\ block_size' = block_size
      /\ peak' = IF len' > peak THEN len' ELSE peak
  BY CacheAssumption
  DEF CacheInv, TypeOK, InBlock, AppendCompact, FitsBehind, Longest, CacheAssumption
<1>3. moved \in [0 .. block_size - 1 -> Byte \cup {Garbage}]
  BY <1>2, ToFrontType
<1>4. \A i \in 1 .. len : moved[i - 1] = mem[head + i - 1]
  BY <1>2 DEF ToFront
<1>. HIDE DEF moved
<1>5. mem' \in [0 .. block_size' - 1 -> Byte \cup {Garbage}]
  BY <1>1, <1>2, <1>3, WriteType
<1>6. TypeOK' /\ InBlock'
  BY <1>1, <1>2, <1>5 DEF TypeOK, InBlock
<1>7. \A i \in 1 .. len : mem'[head' + i - 1] = mem[head + i - 1]
  BY <1>1, <1>2, <1>3, <1>4 DEF Write
<1>8. \A i \in 1 .. Len(d) : mem'[head' + len + i - 1] = d[i]
  BY <1>1, <1>2, <1>3 DEF Write
<1>. QED
  BY <1>1, <1>2, <1>6, <1>7, <1>8 DEF BytesAppended

LEMMA AppendGrowResult ==
  ASSUME CacheInv, NEW d \in Chunks, AppendGrow(d)
  PROVE  BytesAppended(d)
<1>1. d \in Seq(Byte) /\ Len(d) \in Nat /\ Len(d) > 0
  BY ChunkType
<1>2. /\ block_size \in Nat /\ len \in Nat /\ peak \in Nat /\ NoGarbage
      /\ Len(d) + len > block_size
      /\ head' = 0 /\ len' = len + Len(d)
      /\ peak' = IF len' > peak THEN len' ELSE peak
  BY CacheAssumption DEF CacheInv, TypeOK, AppendGrow, Longest, CacheAssumption
<1>3. PICK s \in BlockSizes :
        /\ FixBlockSize(Len(d) + len, s)
        /\ block_size' = s
        /\ mem' = Write(Write(Fresh(s), 0, Contents), len, d)
  BY DEF AppendGrow
<1>4. /\ s \in Nat /\ s # 0 /\ s >= Len(d) + len
      /\ s > InitBlock => s < 2 * (Len(d) + len)
  <2>1. Len(d) + len \in Nat
    BY <1>1, <1>2
  <2>. QED
    BY <1>2, <1>3, <2>1, FixBlockSizeBound
<1>5. Fresh(s) \in [0 .. s - 1 -> Byte \cup {Garbage}]
  BY <1>4, FreshType
<1>6. /\ Contents \in Seq(Byte) /\ Len(Contents) = len
      /\ \A i \in 1 .. len : Contents[i] = mem[head + i - 1]
  BY <1>2, ContentsType
<1>. DEFINE copied == Write(Fresh(s), 0, Contents)
<1>7. copied \in [0 .. s - 1 -> Byte \cup {Garbage}]
  BY <1>4, <1>5, <1>6, WriteType
<1>8. \A i \in 1 .. len : copied[i - 1] = Contents[i]
  BY <1>1, <1>2, <1>4, <1>5, <1>6 DEF Write
<1>9. mem' = Write(copied, len, d)
  BY <1>3
<1>. HIDE DEF copied
<1>10. mem' \in [0 .. s - 1 -> Byte \cup {Garbage}]
  BY <1>1, <1>2, <1>4, <1>7, <1>9, WriteType
<1>11. TypeOK' /\ InBlock'
  BY <1>1, <1>2, <1>3, <1>4, <1>10 DEF TypeOK, InBlock
<1>12. \A i \in 1 .. len : mem'[head' + i - 1] = mem[head + i - 1]
  <2>1. \A i \in 1 .. len : copied[i - 1] = mem[head + i - 1]
    BY <1>6, <1>8
  <2>. QED
    BY <1>1, <1>2, <1>4, <1>7, <1>9, <2>1 DEF Write
<1>13. \A i \in 1 .. Len(d) : mem'[head' + len + i - 1] = d[i]
  BY <1>1, <1>2, <1>4, <1>7, <1>9 DEF Write
<1>. QED
  BY <1>1, <1>2, <1>3, <1>4, <1>11, <1>12, <1>13 DEF BytesAppended

(* A sequence is the function of its places. *)
LEMMA SeqIsFunction ==
  ASSUME NEW S, NEW s \in Seq(S)
  PROVE  s = [i \in 1 .. Len(s) |-> s[i]]
OBVIOUS

(* Every append() keeps the invariant and appends to the contents. *)
LEMMA AppendCorrect ==
  ASSUME CacheInv, NEW d \in Chunks, AppendBytes(d)
  PROVE  CacheInv' /\ Contents' = Contents \o d
<1>1. d \in Seq(Byte) /\ Len(d) \in Nat /\ Len(d) > 0
  BY ChunkType
<1>2. BytesAppended(d)
  BY AppendFirstResult, AppendInPlaceResult, AppendGrowResult,
     AppendCompactResult DEF AppendBytes
<1>3. /\ len \in Nat /\ len' = len + Len(d) /\ head' \in Nat /\ NoGarbage
      /\ \A i \in 1 .. len : mem'[head' + i - 1] = mem[head + i - 1]
      /\ \A i \in 1 .. Len(d) : mem'[head' + len + i - 1] = d[i]
  BY <1>2 DEF CacheInv, TypeOK, BytesAppended
<1>4. /\ Contents \in Seq(Byte) /\ Len(Contents) = len
      /\ \A i \in 1 .. len : Contents[i] = mem[head + i - 1]
  BY <1>3, ContentsType
<1>5. \A i \in 1 .. len' :
        mem'[head' + i - 1] = IF i <= len THEN Contents[i] ELSE d[i - len]
  <2>. SUFFICES ASSUME NEW i \in 1 .. len'
                PROVE  mem'[head' + i - 1]
                         = IF i <= len THEN Contents[i] ELSE d[i - len]
    OBVIOUS
  <2>1. CASE i <= len
    <3>1. i \in 1 .. len
      BY <1>3, <2>1
    <3>2. mem'[head' + i - 1] = mem[head + i - 1] /\ Contents[i] = mem[head + i - 1]
      BY <1>3, <1>4, <3>1
    <3>. QED
      BY <2>1, <3>2
  <2>2. CASE ~(i <= len)
    <3>1. PICK k \in 1 .. Len(d) : i = len + k
      <4>1. i - len \in 1 .. Len(d) /\ i = len + (i - len)
        BY <1>1, <1>3, <2>2
      <4>. QED
        BY <4>1
    <3>2. mem'[head' + len + k - 1] = d[k]
      BY <1>3
    <3>3. head' + len + k - 1 = head' + i - 1 /\ i - len = k
      BY <1>1, <1>3, <3>1
    <3>. QED
      BY <2>2, <3>2, <3>3
  <2>. QED
    BY <1>3, <2>1, <2>2
<1>6. NoGarbage'
  <2>. SUFFICES ASSUME NEW i \in 1 .. len'
                PROVE  mem'[head' + i - 1] \in Byte
    BY DEF NoGarbage
  <2>1. CASE i <= len
    BY <1>3, <1>4, <1>5, <2>1
  <2>2. CASE i > len
    <3>1. i - len \in 1 .. Len(d)
      BY <1>1, <1>3, <2>2
    <3>2. d[i - len] \in Byte
      BY <1>1, <3>1
    <3>. QED
      BY <1>3, <1>5, <2>2, <3>2
  <2>. QED
    BY <1>3, <2>1, <2>2
<1>7. Contents' = Contents \o d
  <2>1. Contents' = [i \in 1 .. len' |-> mem'[head' + i - 1]]
    BY DEF Contents
  <2>2. Contents \o d
          = [i \in 1 .. len' |-> IF i <= len THEN Contents[i] ELSE d[i - len]]
    <3>1. /\ Contents \o d \in Seq(Byte)
          /\ Len(Contents \o d) = len'
          /\ \A i \in 1 .. len' :
               (Contents \o d)[i] = IF i <= len THEN Contents[i] ELSE d[i - len]
      BY <1>1, <1>3, <1>4, ConcatProperties
    <3>2. Contents \o d = [i \in 1 .. len' |-> (Contents \o d)[i]]
      <4>. DEFINE whole == Contents \o d
      <4>1. whole \in Seq(Byte) /\ Len(whole) = len'
        BY <3>1
      <4>. HIDE DEF whole
      <4>2. whole = [i \in 1 .. len' |-> whole[i]]
        BY <4>1, SeqIsFunction
      <4>. QED
        BY <4>2 DEF whole
    <3>. QED
      BY <3>1, <3>2
  <2>. QED
    BY <1>5, <2>1, <2>2
<1>8. NoOverAllocation'
  BY <1>1, <1>2, CacheAssumption
  DEF BytesAppended, CacheInv, TypeOK, NoOverAllocation, CacheAssumption
<1>. QED
  BY <1>2, <1>6, <1>7, <1>8 DEF BytesAppended, CacheInv

(* Every skip() keeps the invariant and drops from the front, or finds     *)
(* nothing to drop.                                                        *)
LEMMA SkipCorrect ==
  ASSUME CacheInv, NEW n \in 1 .. MaxSkip, Skip(n)
  PROVE  /\ CacheInv'
         /\ \/ Contents' = Contents
            \/ \E k \in 1 .. Len(Contents) :
                 Contents' = SubSeq(Contents, k + 1, Len(Contents))
<1>1. /\ n \in Nat /\ n > 0 /\ head \in Nat /\ len \in Nat /\ peak \in Nat
      /\ NoGarbage
  BY CacheAssumption DEF CacheInv, TypeOK, CacheAssumption
<1>2. /\ Contents \in Seq(Byte) /\ Len(Contents) = len
      /\ \A i \in 1 .. len : Contents[i] = mem[head + i - 1]
  BY <1>1, ContentsType
<1>3. CASE SkipAll(n)
  <2>1. CacheInv' /\ len' = 0
    <3>1. CASE block_size > InitBlock
      BY <1>1, <1>3, <3>1, CacheAssumption
      DEF SkipAll, Clear, CacheInv, TypeOK, InBlock, NoGarbage, NoOverAllocation,
          CacheAssumption
    <3>2. CASE ~(block_size > InitBlock)
      BY <1>1, <1>3, <3>2, CacheAssumption
      DEF SkipAll, CacheInv, TypeOK, InBlock, NoGarbage, NoOverAllocation,
          CacheAssumption
    <3>. QED
      BY <3>1, <3>2
  <2>2. Contents' = <<>>
    BY <2>1 DEF Contents
  <2>3. CASE len = 0
    BY <1>2, <2>1, <2>2, <2>3
  <2>4. CASE len # 0
    <3>1. len \in 1 .. Len(Contents)
      BY <1>1, <1>2, <2>4
    <3>2. SubSeq(Contents, len + 1, Len(Contents)) = <<>>
      BY <1>1, <1>2
    <3>. QED
      BY <2>1, <2>2, <3>1, <3>2
  <2>. QED
    BY <2>3, <2>4
<1>4. CASE SkipSome(n)
  <2>1. /\ n < len /\ head' = head + n /\ len' = len - n
        /\ mem' = mem /\ block_size' = block_size /\ peak' = peak
    BY <1>4 DEF SkipSome
  <2>2. TypeOK' /\ InBlock' /\ NoOverAllocation'
    BY <1>1, <2>1, CacheAssumption
    DEF CacheInv, TypeOK, InBlock, NoOverAllocation, CacheAssumption
  <2>3. \A i \in 1 .. len' :
          i + n \in 1 .. len /\ mem'[head' + i - 1] = Contents[i + n]
    <3>. SUFFICES ASSUME NEW i \in 1 .. len'
                  PROVE  i + n \in 1 .. len /\ mem'[head' + i - 1] = Contents[i + n]
      OBVIOUS
    <3>1. i + n \in 1 .. len
      BY <1>1, <2>1
    <3>2. Contents[i + n] = mem[head + (i + n) - 1]
      BY <1>2, <3>1
    <3>3. head' + i - 1 = head + (i + n) - 1
      BY <1>1, <2>1
    <3>. QED
      BY <2>1, <3>1, <3>2, <3>3
  <2>4. NoGarbage'
    <3>1. \A i \in 1 .. len : Contents[i] \in Byte
      BY <1>2
    <3>. QED
      BY <2>3, <3>1 DEF NoGarbage
  <2>5. Contents' = [i \in 1 .. len' |-> Contents[i + n]]
    BY <2>3 DEF Contents
  <2>6. SubSeq(Contents, n + 1, Len(Contents)) = [i \in 1 .. len' |-> Contents[i + n]]
    BY <1>1, <1>2, <2>1
  <2>7. n \in 1 .. Len(Contents)
    BY <1>1, <1>2, <2>1
  <2>8. (block_size = 0 => head = 0 /\ len = 0)'
    BY <1>1, <2>1 DEF CacheInv
  <2>. QED
    BY <2>2, <2>4, <2>5, <2>6, <2>7, <2>8 DEF CacheInv
<1>. QED
  BY <1>3, <1>4 DEF Skip

LEMMA CacheInit == Init => CacheInv
<1>. SUFFICES ASSUME Init PROVE CacheInv
  OBVIOUS
<1>1. mem \in [0 .. block_size - 1 -> Byte \cup {Garbage}]
  BY DEF Init
<1>. QED
  BY <1>1, CacheAssumption
  DEF Init, CacheInv, TypeOK, InBlock, NoGarbage, NoOverAllocation, CacheAssumption

LEMMA CacheStep == CacheInv /\ [Next]_vars => CacheInv'
<1>. SUFFICES ASSUME CacheInv, [Next]_vars PROVE CacheInv'
  OBVIOUS
<1>1. CASE UNCHANGED vars
  BY <1>1 DEF vars, CacheInv, TypeOK, InBlock, NoGarbage, NoOverAllocation
<1>2. CASE Next
  BY <1>2, AppendCorrect, SkipCorrect DEF Next
<1>. QED
  BY <1>1, <1>2

(* The inductive invariant holds of every reachable buffer. *)
THEOREM CacheInvariance == Spec => []CacheInv
BY CacheInit, CacheStep, PTL DEF Spec

(* TypeOK for every buffer. *)
THEOREM TheBytesAreTyped == Spec => []TypeOK
BY CacheInvariance, PTL DEF CacheInv

(* The data never leaves the block, whatever is appended and skipped. *)
THEOREM StaysInBlock == Spec => []InBlock
BY CacheInvariance, PTL DEF CacheInv

(* The user never reads a byte nobody wrote. *)
THEOREM ReadsOnlyWritten == Spec => []NoGarbage
BY CacheInvariance, PTL DEF CacheInv

(* The block is less than twice the longest content. *)
THEOREM AllocationBounded == Spec => []NoOverAllocation
BY CacheInvariance, PTL DEF CacheInv

(* CBuffCache implements a byte queue. *)
THEOREM TheCacheIsAByteQueue == Spec => ImplementsByteQueue
<1>1. Init => BQ!Init
  BY DEF Init, BQ!Init, Contents
<1>2. CacheInv /\ [Next]_vars => [BQ!Next]_Contents
  <2>. SUFFICES ASSUME CacheInv, [Next]_vars PROVE [BQ!Next]_Contents
    OBVIOUS
  <2>1. CASE UNCHANGED vars
    BY <2>1 DEF vars, Contents
  <2>2. ASSUME NEW d \in Chunks, AppendBytes(d)
        PROVE  BQ!Next \/ Contents' = Contents
    BY <2>2, AppendCorrect DEF BQ!Next, BQ!Put
  <2>3. ASSUME NEW n \in 1 .. MaxSkip, Skip(n)
        PROVE  BQ!Next \/ Contents' = Contents
    BY <2>3, SkipCorrect DEF BQ!Next, BQ!Drop
  <2>. QED
    BY <2>1, <2>2, <2>3 DEF Next
<1>. QED
  BY <1>1, <1>2, CacheInvariance, PTL DEF Spec, ImplementsByteQueue, BQ!Spec

=============================================================================
