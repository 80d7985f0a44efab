----------------------------- MODULE DigitalIo -----------------------------
(***************************************************************************)
(* Digital inputs and outputs.  A repeating timer asks the worker for the  *)
(* level of an input, whether or not the last answer has come; a value is  *)
(* taken over when two samples agree.  An output is set through the worker *)
(* each time, since nothing remembers what it was set to.                  *)
(***************************************************************************)
EXTENDS Integers, Sequences

CONSTANTS
  MaxUnderWay,  \* bound: the requests and samples under way
  MaxReads, \* bound: reads
  MaxSets   \* bound: calls of SetDoValue

ASSUME DigitalIoAssumption == {MaxUnderWay, MaxReads, MaxSets} \subseteq Nat

Unknown == -1       \* the value before any, and that of a read that failed
Level == {0, 1}
Value == Level \cup {Unknown}

VARIABLES
  level,           \* the input
  reads, writes,   \* the worker's lists: reads asked for, levels to write
  samples,         \* the reads that are not handled yet
  m_n_last_value, m_n_value,
  pin,             \* the output
  first, seen,     \* history: m_n_last_value at the start, all that was read
  sets, missed     \* history: the values set, whether the last write failed

inputs == <<level, reads, samples, m_n_last_value, m_n_value, first, seen>>
outputs == <<writes, pin, sets, missed>>
dioVars == <<inputs, outputs>>

(* The constructor does not set m_n_last_value. *)
DioInit ==
  /\ level \in Level /\ reads = 0 /\ samples = <<>>
  /\ m_n_value = Unknown /\ first \in Value /\ m_n_last_value = first
  /\ seen = <<>>
  /\ writes = <<>> /\ pin \in Level /\ sets = <<>> /\ missed = FALSE
-----------------------------------------------------------------------------
LevelChanges ==
  /\ level' = 1 - level
  /\ UNCHANGED <<reads, samples, m_n_last_value, m_n_value, first, seen, outputs>>

(* DiDevice *)
DiTimeOutEvent ==
  /\ reads + Len(samples) < MaxUnderWay /\ Len(seen) + reads < MaxReads
  /\ reads' = reads + 1
  /\ UNCHANGED <<level, samples, m_n_last_value, m_n_value, first, seen, outputs>>

DiDoAsyncAction ==
  /\ reads > 0 /\ reads' = reads - 1
  /\ \E value \in {level, Unknown} :
       samples' = Append(samples, value) /\ seen' = Append(seen, value)
  /\ UNCHANGED <<level, m_n_last_value, m_n_value, first, outputs>>

(* Mutant: the last value is that which was taken over last. *)
RemembersTaken(value) ==
  m_n_last_value' = IF value = m_n_last_value THEN value ELSE m_n_value
Remembers(value) == m_n_last_value' = value

DiDoSyncAction ==
  /\ samples # <<>> /\ samples' = Tail(samples)
  /\ m_n_value' = IF Head(samples) = m_n_last_value THEN Head(samples) ELSE m_n_value
  /\ Remembers(Head(samples))
  /\ UNCHANGED <<level, reads, first, seen, outputs>>
-----------------------------------------------------------------------------
(* DoDevice: m_n_value is -1 for ever, so that no call is left out; the    *)
(* value travels as the command.                                           *)
SetDoValue(value) ==
  /\ Len(sets) < MaxSets
  /\ sets' = Append(sets, value) /\ writes' = Append(writes, value)
  /\ UNCHANGED <<inputs, pin, missed>>

DoDoAsyncAction ==
  /\ writes # <<>> /\ writes' = Tail(writes)
  /\ \/ pin' = Head(writes) /\ missed' = FALSE
     \/ UNCHANGED pin /\ missed' = TRUE
  /\ UNCHANGED <<inputs, sets>>

DioNext ==
  \/ LevelChanges \/ DiTimeOutEvent \/ DiDoAsyncAction \/ DiDoSyncAction
  \/ \E value \in Level : SetDoValue(value)
  \/ DoDoAsyncAction

DioSpec == DioInit /\ [][DioNext]_dioVars
-----------------------------------------------------------------------------
(* The value of an input is that of the latest two reads in a row that     *)
(* agree, of those handled, in the order in which they were read; a level  *)
(* that one read has seen is not reported.  What m_n_last_value was at the *)
(* start counts as a read.                                                 *)
Debounced ==
  LET handled == <<first>> \o SubSeq(seen, 1, Len(seen) - Len(samples))
      Agree(n) == n > 1 /\ handled[n] = handled[n - 1]
      Latest(n) == Agree(n) /\ \A m \in DOMAIN handled : m > n => ~Agree(m)
  IN  \/ \E n \in DOMAIN handled : Latest(n) /\ m_n_value = handled[n]
      \/ m_n_value = Unknown /\ \A n \in DOMAIN handled : ~Agree(n)

(* An output has the value that was set last, once all are written, unless *)
(* the last write failed.                                                  *)
OutputIsLastSet ==
  writes = <<>> /\ sets # <<>> => missed \/ pin = sets[Len(sets)]

(* DiDevice reports the latest two reads that agree, DoDevice leaves an    *)
(* output at what it was set to last.                                      *)
ValuesSettle == Debounced /\ OutputIsLastSet
=============================================================================
