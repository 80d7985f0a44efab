------------------------------ MODULE Drivers ------------------------------
(***************************************************************************)
(* How the PEDEMS drivers sample a device.  A query of a chain reads one   *)
(* or more blocks of registers over Modbus in the worker, each of which    *)
(* may fail on its own, and sends a buffer and a result to the main        *)
(* thread, whose handler publishes the buffer in the device's data or      *)
(* drops it.  The drivers share this shape and differ in what they do      *)
(* about failures and in which buffer they send.                           *)
(***************************************************************************)
EXTENDS Integers, Sequences

CONSTANT MaxVer   \* bound: how often the device's registers change

ASSUME DriversAssumption == MaxVer \in Nat \ {0}

(* A chain: the reads of its query; whether a failed read ends the query;  *)
(* whether the query fills, and whether it sends, m_vec_critical_data,     *)
(* which all queries share, or a buffer of its own; whether it reports the *)
(* result of its last read; whether the handler looks at that result.      *)
Chain(reads, aborts, fills, sends, reports, checks) ==
  [reads |-> reads, aborts |-> aborts, fills |-> fills, sends |-> sends,
   reports |-> reports, checks |-> checks]

SG1100Critical    == Chain(1, FALSE, "shared", "shared", TRUE, TRUE)
SG1100Important   == Chain(3, FALSE, "own", "shared", TRUE, TRUE)
SG1100Unimportant == Chain(2, FALSE, "own", "own", TRUE, TRUE)
DGTestCritical    == Chain(2, TRUE, "own", "own", TRUE, TRUE)
DGTestImportant   == Chain(2, TRUE, "own", "own", TRUE, TRUE)
DGTestUnimportant == Chain(1, TRUE, "own", "own", TRUE, TRUE)
SC5000Critical    == Chain(3, TRUE, "own", "own", TRUE, TRUE)
SC5000Important   == Chain(2, TRUE, "own", "own", FALSE, TRUE)
SC5000Unimportant == Chain(2, TRUE, "own", "own", TRUE, TRUE)
YT320Critical     == Chain(2, FALSE, "shared", "shared", TRUE, FALSE)

Three(c, i, u) == [critical |-> c, important |-> i, unimportant |-> u]
Drivers ==
  [SG1100 |-> Three(SG1100Critical, SG1100Important, SG1100Unimportant),
   DGTest |-> Three(DGTestCritical, DGTestImportant, DGTestUnimportant),
   SC5000 |-> Three(SC5000Critical, SC5000Important, SC5000Unimportant),
   YT320  |-> [critical |-> YT320Critical]]

VARIABLES
  driver,    \* which driver this is
  ver,       \* the device: how often its registers have changed
  armed,     \* chains whose timer is active
  reqs,      \* the worker's list of requests
  work,      \* the query the worker executes, or Idle
  shared,    \* m_vec_critical_data
  acks,      \* CCmdOpt's list of answers
  handling,  \* the answer the main thread handles, or Idle
  pub,       \* the device's data: what was published last for each chain
  asked      \* history: ver when the query that is under way was sent

driversVars == <<driver, ver, armed, reqs, work, shared, acks, handling, pub, asked>>

Idle == [at |-> "idle"]
Table == Drivers[driver]
Level == DOMAIN Table
Blocks(l) == 1 .. Table[l].reads

(* The content of a buffer or of published data: for each block the        *)
(* version it was read at, 0 while it is still filled with zeros, Junk     *)
(* where the bytes are those of something else.                            *)
Junk == -1
Zeros(l) == [b \in Blocks(l) |-> 0]

DriversInit ==
  /\ driver \in DOMAIN Drivers
  /\ ver = 1
  /\ armed = Level
  /\ reqs = <<>> /\ work = Idle
  /\ shared = Zeros("critical")
  /\ acks = <<>> /\ handling = Idle
  /\ pub = [l \in Level |-> Zeros(l)]
  /\ asked = [l \in Level |-> 0]
-----------------------------------------------------------------------------
DeviceChanges ==
  /\ ver < MaxVer /\ ver' = ver + 1
  /\ UNCHANGED <<driver, armed, reqs, work, shared, acks, handling, pub, asked>>

(* Mutant: the timer is started to repeat. *)
TimerFiresAgain(l) ==
  /\ handling = Idle
  /\ l \in armed
  /\ reqs' = Append(reqs, l)
  /\ asked' = [asked EXCEPT ![l] = ver]
  /\ UNCHANGED <<driver, ver, armed, work, shared, acks, handling, pub>>
(* ProcessTimeOutEvent(); the timers are one-shot. *)
TimerFires(l) ==
  /\ handling = Idle
  /\ l \in armed /\ armed' = armed \ {l}
  /\ reqs' = Append(reqs, l)
  /\ asked' = [asked EXCEPT ![l] = ver]
  /\ UNCHANGED <<driver, ver, work, shared, acks, handling, pub>>

(* DoAsyncAction() calls the query; one that has a buffer of its own fills *)
(* it with zeros first.                                                    *)
StartQuery ==
  /\ work = Idle /\ reqs # <<>> /\ reqs' = Tail(reqs)
  /\ LET l == Head(reqs) IN
       work' = [at |-> "query", level |-> l, next |-> 1, ok |-> TRUE, buf |-> Zeros(l)]
  /\ UNCHANGED <<driver, ver, armed, shared, acks, handling, pub, asked>>

Reading == work # Idle /\ work.next \in Blocks(work.level)

ReadSucceeds ==
  /\ Reading
  /\ IF Table[work.level].fills = "shared"
     THEN /\ shared' = [shared EXCEPT ![work.next] = ver]
          /\ work' = [work EXCEPT !.next = @ + 1, !.ok = TRUE]
     ELSE /\ work' = [work EXCEPT !.next = @ + 1, !.ok = TRUE, !.buf[work.next] = ver]
          /\ UNCHANGED shared
  /\ UNCHANGED <<driver, ver, armed, reqs, acks, handling, pub, asked>>

(* Mutant: goes on after a failed read. *)
AfterFailureGoesOn(l, n) == n + 1
(* A failed read leaves its part of the buffer as it is. *)
AfterFailure(l, n) ==
  IF Table[l].aborts THEN Table[l].reads + 1 ELSE n + 1

ReadFails ==
  /\ Reading
  /\ work' = [work EXCEPT !.next = AfterFailure(work.level, @), !.ok = FALSE]
  /\ UNCHANGED <<driver, ver, armed, reqs, shared, acks, handling, pub, asked>>

(* SendSyncAction() at the end of the query.  A shared buffer is sent by   *)
(* reference, its content is what it is when the handler reads it.         *)
SendAnswer ==
  /\ work # Idle /\ ~Reading /\ work' = Idle
  /\ acks' = Append(acks, [at |-> "answer", level |-> work.level, buf |-> work.buf,
                           ok |-> Table[work.level].reports => work.ok])
  /\ UNCHANGED <<driver, ver, armed, reqs, shared, handling, pub, asked>>

(* DoSyncAction() calls the handler ... *)
StartHandler ==
  /\ handling = Idle /\ acks # <<>>
  /\ handling' = Head(acks) /\ acks' = Tail(acks)
  /\ UNCHANGED <<driver, ver, armed, reqs, work, shared, pub, asked>>

Accepts(answer) == Table[answer.level].checks => answer.ok

Content(answer) ==
  LET l == answer.level IN
  IF Table[l].sends = "own" THEN answer.buf
  ELSE IF Table[l].fills = "shared" THEN shared
  ELSE [b \in Blocks(l) |-> Junk]

(* ... which takes the data and starts the chain's timer again. *)
EndHandler ==
  /\ handling # Idle
  /\ pub' = IF Accepts(handling)
            THEN [pub EXCEPT ![handling.level] = Content(handling)] ELSE pub
  /\ armed' = armed \cup {handling.level}
  /\ handling' = Idle
  /\ UNCHANGED <<driver, ver, reqs, work, shared, acks, asked>>

DriversNext ==
  \/ DeviceChanges
  \/ \E l \in Level : TimerFires(l)
  \/ StartQuery \/ ReadSucceeds \/ ReadFails \/ SendAnswer
  \/ StartHandler \/ EndHandler

DriversSpec == DriversInit /\ [][DriversNext]_driversVars
-----------------------------------------------------------------------------
(* The chains that drop what a failed read left incomplete.  The others:   *)
(* SG1100's important data are not those of its query, its unimportant     *)
(* ones and SC5000's important ones are published with zeros for a read    *)
(* that failed, YT-320's with whatever the read before last brought.       *)
Strict ==
  CASE driver = "SG1100" -> {"critical"}
    [] driver = "DGTest" -> {"critical", "important", "unimportant"}
    [] driver = "SC5000" -> {"critical", "unimportant"}
    [] driver = "YT320"  -> {}

(* What such a chain publishes was read from the device in full after the  *)
(* timer fired that asked for it: no zeros, nothing left from before.      *)
PublishesFreshSamples ==
  [][\A l \in Strict : pub'[l] # pub[l] =>
       \A b \in Blocks(l) : pub'[l][b] >= asked[l]]_driversVars

(* A handler takes data from m_vec_critical_data, which has no lock, while *)
(* the worker's query is about to fill it or is filling it, in one case    *)
(* only: SG1100's important handler, which is sent the buffer of the       *)
(* critical query.  For a chain that is sent the buffer it fills, the      *)
(* timer is lock enough.                                                   *)
TornOnlyBy ==
  /\ handling # Idle /\ Table[handling.level].sends = "shared"
  /\ work # Idle /\ Table[work.level].fills = "shared"
  => driver = "SG1100" /\ handling.level = "important"

(* No handler takes data from the buffer of another query: SG1100's        *)
(* ImportantData calls its field the line voltage ("xian dianya").           *)
TakesItsOwnData == \A l \in Level : \A b \in Blocks(l) : pub[l][b] # Junk
=============================================================================
