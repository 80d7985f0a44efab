------------------------------ MODULE LogFiles ------------------------------
(***************************************************************************)
(* The log: any thread asks for lines to be written, worker thread 0       *)
(* writes them to files named after the day, without the year, and an      *)
(* index.  A full file is followed by one with the next index; a timer     *)
(* looks every ten seconds whether the day is over.  The process may end   *)
(* and be started again at any time; fopen() failing ends it, too.         *)
(***************************************************************************)
EXTENDS Integers, Sequences, FiniteSets

CONSTANTS
  YearDays,  \* days with different names
  MaxSize,   \* MAX_LOG_FILE_SIZE, in lines
  MaxIndex,  \* bound: files of one name
  MaxLines,  \* bound: lines asked for
  MaxDays,   \* bound: days that pass
  MaxQueue,  \* bound: requests in thread 0's list
  MaxStarts, \* bound: how often the process is started
  MaxCuts    \* bound: lines the disk has no room for

(* What the module that gives the constants their values assumes. *)
ASSUME LogAssumption ==
  /\ YearDays \in Nat \ {0} /\ MaxSize \in Nat \ {0}
  /\ MaxLines <= MaxSize * (MaxIndex - 1)
  /\ {MaxIndex, MaxLines, MaxDays, MaxQueue, MaxStarts, MaxCuts} \subseteq Nat

DayName == 0 .. YearDays - 1
Index == 1 .. MaxIndex
Check == 0         \* the request CHECKNEWFILE; WRITELOG is the line's number
NoFile == -1

VARIABLES
  today,    \* days passed
  starts,   \* how often the process was started
  asked,    \* lines asked for; each has its number
  reqs,     \* the list of thread 0
  m_nDay,   \* the day of m_pFile, NoFile before the first check
  m_nIndex, \* its index
  files,    \* the lines of each file
  lost,     \* history: the lines in the list of a process that ended
  cut       \* history: the lines the disk had no room for, or not for all of

logVars == <<today, starts, asked, reqs, m_nDay, m_nIndex, files, lost, cut>>

(* InitLog() asks for the first check. *)
LogInit ==
  /\ today = 0 /\ starts = 1 /\ asked = 0
  /\ reqs = <<Check>>
  /\ m_nDay = NoFile /\ m_nIndex = 1
  /\ files = [d \in DayName |-> [i \in Index |-> <<>>]]
  /\ lost = {} /\ cut = {}
-----------------------------------------------------------------------------
(* Mutant: the latest line goes to the head of the list. *)
WriteLogFirst ==
  /\ asked < MaxLines /\ Len(reqs) < MaxQueue
  /\ asked' = asked + 1 /\ reqs' = <<asked + 1>> \o reqs
  /\ UNCHANGED <<today, starts, m_nDay, m_nIndex, files, lost, cut>>
WriteLog ==
  /\ asked < MaxLines /\ Len(reqs) < MaxQueue
  /\ asked' = asked + 1 /\ reqs' = Append(reqs, asked + 1)
  /\ UNCHANGED <<today, starts, m_nDay, m_nIndex, files, lost, cut>>

ProcessTimeOutEvent ==
  /\ Len(reqs) < MaxQueue /\ reqs' = Append(reqs, Check)
  /\ UNCHANGED <<today, starts, asked, m_nDay, m_nIndex, files, lost, cut>>

Midnight ==
  /\ today < MaxDays /\ today' = today + 1
  /\ UNCHANGED <<starts, asked, reqs, m_nDay, m_nIndex, files, lost, cut>>

(* Mutant: keeps the index. *)
CheckNewFileKeepsIndex ==
  m_nDay' = today % YearDays /\ UNCHANGED m_nIndex
CheckNewFile ==
  /\ m_nDay' = today % YearDays
  /\ m_nIndex' = IF m_nDay = m_nDay' THEN m_nIndex ELSE 1

Full(i) == Len(files[m_nDay][i]) >= MaxSize

(* The rotation ends at the first file from m_nIndex on that is not full. *)
Rotated(i) ==
  i >= m_nIndex /\ ~Full(i) /\ \A j \in m_nIndex .. i - 1 : Full(j)

(* Mutant: the line that finds the file full only opens the next. *)
WriteLineUnlessFull(line) ==
  IF m_nDay = NoFile THEN UNCHANGED <<m_nIndex, files, cut>>
  ELSE \E i \in Index :
         /\ Rotated(i) /\ m_nIndex' = i /\ UNCHANGED cut
         /\ files' = IF Full(m_nIndex) THEN files
                     ELSE [files EXCEPT ![m_nDay][i] = Append(@, line)]

(* fprintf() and fflush(), whose results nobody looks at: of a line the    *)
(* disk has no room for, nothing is written, or a piece.                   *)
Appended(line, i) == files' = [files EXCEPT ![m_nDay][i] = Append(@, line)]
Put(line, i) ==
  \/ Appended(line, i) /\ UNCHANGED cut
  \/ /\ Cardinality(cut) < MaxCuts /\ cut' = cut \cup {line}
     /\ Appended(line, i) \/ UNCHANGED files

(* DoAsyncAction() of WRITELOG; without a file the line goes to stdout. *)
WriteLine(line) ==
  IF m_nDay = NoFile THEN UNCHANGED <<m_nIndex, files, cut>>
  ELSE \E i \in Index : Rotated(i) /\ m_nIndex' = i /\ Put(line, i)

DoAsyncAction ==
  /\ reqs # <<>> /\ reqs' = Tail(reqs)
  /\ IF Head(reqs) = Check
     THEN CheckNewFile /\ UNCHANGED <<files, cut>>
     ELSE WriteLine(Head(reqs)) /\ UNCHANGED m_nDay
  /\ UNCHANGED <<today, starts, asked, lost>>

(* The process ends, and is started again. *)
ProcessRestart ==
  /\ starts < MaxStarts /\ starts' = starts + 1
  /\ reqs' = <<Check>>
  /\ m_nDay' = NoFile /\ m_nIndex' = 1
  /\ lost' = lost \cup ({reqs[p] : p \in DOMAIN reqs} \ {Check})
  /\ UNCHANGED <<today, asked, files, cut>>

LogNext ==
  \/ WriteLog \/ ProcessTimeOutEvent \/ Midnight \/ DoAsyncAction \/ ProcessRestart

LogSpec == LogInit /\ [][LogNext]_logVars
-----------------------------------------------------------------------------
(* The files of a day are filled one after the other, and none beyond its  *)
(* limit, whichever process and whichever year wrote them.                 *)
NoGaps ==
  \A d \in DayName : \A i \in Index :
    /\ Len(files[d][i]) <= MaxSize
    /\ i > 1 /\ files[d][i] # <<>> => Len(files[d][i - 1]) >= MaxSize

(* Read by index, the files of a day have the lines in the order in which  *)
(* they were asked for, each once.  (Of one in cut it is a piece, which    *)
(* fills as much of the file as a line, or does not count.)                *)
InOrder ==
  \A d \in DayName : \A i, j \in Index :
    \A p \in DOMAIN files[d][i], q \in DOMAIN files[d][j] :
      i < j \/ (i = j /\ p < q) => files[d][i][p] < files[d][j][q]

Written(n) ==
  \E d \in DayName : \E i \in Index : \E p \in DOMAIN files[d][i] : files[d][i][p] = n
Queued(n) == \E p \in DOMAIN reqs : reqs[p] = n

(* Every line is written, or waits in the list, unless the process ended   *)
(* with it in the list or the disk was full when it was its turn: no       *)
(* rotation and no midnight drops one.                                     *)
LinesAccounted ==
  \A n \in 1 .. asked : Written(n) \/ Queued(n) \/ n \in lost \cup cut

(* All three: the log is whole and in order, over restarts and years, but  *)
(* for what a process or a full disk took with it.                         *)
LogIsWhole == NoGaps /\ InOrder /\ LinesAccounted
=============================================================================
