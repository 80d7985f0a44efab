---------------------------- MODULE FileTransmit ----------------------------
(***************************************************************************)
(* The upload of a program update: the configuration clients (SanYi_Cfg)   *)
(* send a file in chunks, one outstanding at a time, over a connection     *)
(* each; the service (SysCfgModule) keeps the ONE FileTransmite all the    *)
(* connections share.  The service handles a message to the end, with its  *)
(* answer, before it looks at the next one.                                *)
(***************************************************************************)
EXTENDS Integers, Sequences, FiniteSets

CONSTANTS
  Client,
  FileLen,      \* [Client -> Nat]: the bytes of each client's file
  ChunkSize,    \* chunkSize: the most bytes of one message
  MaxFd,        \* the highest descriptor the process may have (ulimit -n)
  MaxClicks,    \* bound: how often each user clicks a button
  MaxFaults,    \* bound: open() and write() calls that fail or fall short
  None          \* no file, and the MD5 of nobody

(* The bytes of the clients' files. *)
Bytes == UNION {{c} \X (1 .. FileLen[c]) : c \in Client}

ASSUME TransmitAssumption ==
  /\ FileLen \in [Client -> Nat \ {0}]
  /\ ChunkSize \in Nat \ {0}
  /\ MaxFd \in Nat /\ MaxClicks \in Nat /\ MaxFaults \in Nat
  /\ None \notin Seq(Bytes)

VARIABLES
  open,           \* the open descriptors; 0 is the terminal the process starts with
  m_file_fd, m_file_size, m_str_file_md5,
  file,           \* the bytes of trunk.zip, each named by its owner and place
  up, down,       \* [Client -> Seq(Message)]: what is under way on each connection
  phase,          \* [Client -> ...]: m_b_uploading, and whether the client still
                  \* hears ("stuck" if not) and runs ("gone" if not)
  pos,            \* [Client -> Nat]: m_n_send_size, the bytes read of the own file
  outcome,        \* history: [Client -> ...]: how the last upload ended for the user
  clicks, faults, \* counters of the bounds
  installed,      \* history: how often each client's file was unpacked and run
  failedInstalls, \* history: how often tar or run.sh failed on it
  successes,      \* history: how often each client was told so
  disturbed,      \* history: clients that had company, or cancelled, since their START
  impatient,      \* history: clients that clicked upload during their upload
  superseded,     \* history: uploads in progress that a START replaced
  earlyCancels    \* history: cancellations before the first upload

server  == <<open, m_file_fd, m_file_size, m_str_file_md5, file>>
unpacked == <<installed, failedInstalls>>
history == <<unpacked, disturbed, impatient, superseded, earlyCancels>>
client  == <<phase, pos, outcome, successes>>
vars == <<server, up, down, client, clicks, faults, history>>

Whole(c) == [i \in 1 .. FileLen[c] |-> <<c, i>>]

Start        == [type |-> "START"]
Comment(d)   == [type |-> "COMMENT", data |-> d]
Failer       == [type |-> "FAILER"]
Answer(t, r) == [type |-> t, ret |-> r]

Init ==
  /\ open = {0} /\ m_file_fd = 0 /\ m_file_size = 0
  /\ m_str_file_md5 = None /\ file = None
  /\ up = [c \in Client |-> <<>>] /\ down = [c \in Client |-> <<>>]
  /\ phase = [c \in Client |-> "idle"] /\ pos = [c \in Client |-> 0]
  /\ outcome = [c \in Client |-> "none"]
  /\ clicks = [c \in Client |-> 0] /\ faults = 0
  /\ installed = [c \in Client |-> 0] /\ failedInstalls = [c \in Client |-> 0]
  /\ successes = [c \in Client |-> 0]
  /\ disturbed = {} /\ impatient = {} /\ superseded = 0 /\ earlyCancels = 0
-----------------------------------------------------------------------------
(* The service.                                                            *)

Receive(c) == up[c] # <<>> /\ up' = [up EXCEPT ![c] = Tail(@)]
(* What is sent to a client that is gone is lost, or kills: see ServerDies. *)
Reply(c, a) ==
  down' = IF phase[c] = "gone" THEN down ELSE [down EXCEPT ![c] = Append(@, a)]

Fault == faults < MaxFaults /\ faults' = faults + 1
LowestFree(fd) ==
  /\ fd \in (0 .. MaxFd) \ open
  /\ \A x \in (0 .. MaxFd) \ open : fd <= x

(* Mutant: open() without O_TRUNC. *)
OpenSucceedsAppending(fd) ==
  /\ LowestFree(fd)
  /\ open' = open \cup {fd} /\ m_file_fd' = fd
  /\ file' = IF file = None THEN <<>> ELSE file
  /\ UNCHANGED faults

(* open() of trunk.zip with O_CREAT | O_APPEND | O_TRUNC. *)
OpenSucceeds(fd) ==
  /\ LowestFree(fd)
  /\ open' = open \cup {fd} /\ m_file_fd' = fd /\ file' = <<>>
  /\ UNCHANGED faults

OpenFails ==
  /\ m_file_fd' = -1
  /\ UNCHANGED <<open, file>>
  /\ IF 0 .. MaxFd \subseteq open THEN UNCHANGED faults ELSE Fault

(* HandSysCfgMsg of FILE_TRANSMIT_START, with TransmitStart(). *)
TransmitStart(c) ==
  /\ Receive(c) /\ Head(up[c]).type = "START"
  /\ m_file_size' = FileLen[c] /\ m_str_file_md5' = c
  /\ OpenFails \/ \E fd \in 0 .. MaxFd : OpenSucceeds(fd)
  /\ Reply(c, Answer("START", IF m_file_fd' <= 0 THEN -1 ELSE 0))
  /\ superseded' = IF m_file_fd > 0 THEN superseded + 1 ELSE superseded
  /\ disturbed' = Client \ {c}
  /\ UNCHANGED <<client, clicks, unpacked, impatient, earlyCancels>>

(* Mutant: forgets the descriptor without closing it. *)
CloseFileLeaks ==
  /\ open' = open /\ m_file_fd' = -1 /\ file' = None
(* close() of m_file_fd, and rm -f of trunk.zip. *)
CloseFile ==
  /\ open' = open \ {m_file_fd} /\ m_file_fd' = -1 /\ file' = None

(* tar and run.sh; whether they fail is only logged. *)
Unpack(content) ==
  LET Counted(times) ==
        [c \in Client |-> IF content = Whole(c) THEN times[c] + 1 ELSE times[c]]
  IN
  \/ installed' = Counted(installed) /\ UNCHANGED failedInstalls
  \/ failedInstalls' = Counted(failedInstalls) /\ UNCHANGED installed

(* Mutant: takes any file of the announced size. *)
TransmitSucessUnchecked(content, c) ==
  CloseFile /\ Unpack(content) /\ Reply(c, Answer("COMMENT", 0))
(* TransmitSucess(): the MD5 test, then Unpack, whose result an inner ret  *)
(* hides from the one that is returned.                                    *)
TransmitSucess(content, c) ==
  /\ CloseFile
  /\ IF content = Whole(m_str_file_md5)
     THEN Unpack(content) /\ Reply(c, Answer("COMMENT", 0))
     ELSE UNCHANGED unpacked /\ Reply(c, Answer("COMMENT", -1))

(* TransmitComment() once write() took n bytes, 0 standing for an error. *)
Written(d, n, c) ==
  LET content == file \o SubSeq(d, 1, n) IN
  /\ m_file_size' = m_file_size - n
  /\ \/ n = 0 /\ CloseFile /\ Reply(c, Answer("COMMENT", -1))
        /\ UNCHANGED unpacked
     \/ n > 0 /\ m_file_size' = 0 /\ TransmitSucess(content, c)
     \/ n > 0 /\ m_file_size' # 0
        /\ file' = content /\ Reply(c, Answer("COMMENT", m_file_size'))
        /\ UNCHANGED <<open, m_file_fd, unpacked>>
NotOpen(c) ==
  /\ m_file_fd <= 0 /\ Reply(c, Answer("COMMENT", -1))
  /\ UNCHANGED <<server, faults, unpacked>>

(* HandSysCfgMsg of FILE_TRANSMIT_COMMENT, with TransmitComment(). *)
TransmitComment(c) ==
  /\ Receive(c) /\ Head(up[c]).type = "COMMENT"
  /\ LET d == Head(up[c]).data IN
     \/ NotOpen(c)
     \/ /\ m_file_fd > 0
        /\ \E n \in 0 .. Len(d) :
             /\ IF n < Len(d) THEN Fault ELSE UNCHANGED faults
             /\ Written(d, n, c)
        /\ UNCHANGED m_str_file_md5
  /\ disturbed' = disturbed \cup (Client \ {c})
  /\ UNCHANGED <<client, clicks, impatient, superseded, earlyCancels>>

(* HandSysCfgMsg of FILE_TRANSMIT_FAILER, with TransmitFailer(): whoever's *)
(* upload is in progress; nobody is told.                                  *)
TransmitFailer(c) ==
  /\ Receive(c) /\ Head(up[c]).type = "FAILER"
  /\ CloseFile
  /\ earlyCancels' = IF m_file_fd = 0 THEN earlyCancels + 1 ELSE earlyCancels
  /\ disturbed' = Client
  /\ UNCHANGED <<m_file_size, m_str_file_md5, down, client, clicks, faults,
                 unpacked, impatient, superseded>>

(* The answer to a client that has gone is one send() too many: SIGPIPE,   *)
(* which nothing handles, ends the process and so every connection.        *)
ServerDies(c) ==
  /\ phase[c] = "gone" /\ up[c] # <<>> /\ Head(up[c]).type # "FAILER"
  /\ phase' = [x \in Client |-> "gone"]
  /\ up' = [x \in Client |-> <<>>] /\ down' = [x \in Client |-> <<>>]
  /\ UNCHANGED <<server, pos, outcome, successes, clicks, faults, history>>
-----------------------------------------------------------------------------
(* The clients.                                                            *)

Click(c) == clicks[c] < MaxClicks /\ clicks' = [clicks EXCEPT ![c] = @ + 1]
SendMsg(c, m) == up' = [up EXCEPT ![c] = Append(@, m)]

ChunkEnd(c, from) ==
  IF from + ChunkSize < FileLen[c] THEN from + ChunkSize ELSE FileLen[c]
(* Mutant: waits for an answer without a chunk at the end of the file. *)
SendFileNothingAtEnd(c, from) ==
  IF from = FileLen[c] THEN UNCHANGED <<up, pos>>
  ELSE /\ SendMsg(c, Comment(SubSeq(Whole(c), from + 1, ChunkEnd(c, from))))
       /\ pos' = [pos EXCEPT ![c] = ChunkEnd(c, from)]

(* Mutant: reads the file from the start for every chunk. *)
SendFileRewinds(c, from) ==
  /\ SendMsg(c, Comment(SubSeq(Whole(c), 1, ChunkEnd(c, 0))))
  /\ pos' = [pos EXCEPT ![c] = ChunkEnd(c, 0)]

(* SendFile(): the next chunk, an empty one at the end of the file. *)
SendFile(c, from) ==
  /\ SendMsg(c, Comment(SubSeq(Whole(c), from + 1, ChunkEnd(c, from))))
  /\ pos' = [pos EXCEPT ![c] = ChunkEnd(c, from)]

Busy(c) == phase[c] = "uploading" \/ up[c] # <<>> \/ down[c] # <<>>

(* on_btn_upload_clicked(): nothing keeps the user from clicking twice. *)
UploadClicked(c) ==
  /\ phase[c] # "gone" /\ Click(c)
  /\ SendMsg(c, Start)
  /\ impatient' = IF Busy(c) THEN impatient \cup {c} ELSE impatient
  /\ outcome' = [outcome EXCEPT ![c] = "none"]
  /\ UNCHANGED <<server, down, phase, pos, successes, faults, unpacked,
                 disturbed, superseded, earlyCancels>>

(* on_btn_cancel_clicked(): asks the service to cancel, and goes on. *)
CancelClicked(c) ==
  /\ phase[c] # "gone" /\ Click(c)
  /\ SendMsg(c, Failer)
  /\ UNCHANGED <<server, down, client, faults, history>>

(* CompleteRecv() takes an answer only when it is all the buffer holds;    *)
(* with a second one behind it, none is ever taken again.  (An answer, of  *)
(* 12 bytes, is assumed not to arrive in parts.)                           *)
Receives(c) == phase[c] \notin {"gone", "stuck"}
AnswersCoalesce(c) ==
  /\ Receives(c) /\ Len(down[c]) >= 2
  /\ phase' = [phase EXCEPT ![c] = "stuck"]
  /\ UNCHANGED <<server, up, down, pos, outcome, successes, clicks, faults, history>>

(* The answer is off the connection. *)
Take(c, type) ==
  /\ Receives(c) /\ down[c] # <<>> /\ Head(down[c]).type = type
  /\ down' = [down EXCEPT ![c] = Tail(@)]
  /\ UNCHANGED <<server, clicks, faults, history>>

(* HandNetMsg() of FILE_TRANSMIT_START, with StartSendFile(); the user is  *)
(* not told of a refusal.                                                  *)
StartAnswered(c) ==
  /\ Take(c, "START")
  /\ IF Head(down[c]).ret = 0
     THEN /\ phase' = [phase EXCEPT ![c] = "uploading"]
          /\ SendFile(c, 0)
          /\ UNCHANGED outcome
     ELSE /\ outcome' = [outcome EXCEPT ![c] = "refused"]
          /\ UNCHANGED <<up, phase, pos>>
  /\ UNCHANGED successes

(* The rest of HandNetMsg() of FILE_TRANSMIT_COMMENT: StopSendFile()       *)
(* crashes on its null m_upload_file when nothing is being uploaded.       *)
StopSendFile(c) ==
  phase' = [phase EXCEPT ![c] = IF @ = "uploading" THEN "idle" ELSE "gone"]

CommentAnswered(c) ==
  /\ Take(c, "COMMENT")
  /\ LET ret == Head(down[c]).ret IN
     \/ /\ ret > 0
        /\ IF phase[c] = "uploading" THEN SendFile(c, pos[c])
                                     ELSE UNCHANGED <<up, pos>>
        /\ UNCHANGED <<phase, outcome, successes>>
     \/ /\ ret = 0
        /\ outcome' = [outcome EXCEPT ![c] = "ok"]
        /\ successes' = [successes EXCEPT ![c] = @ + 1]
        /\ StopSendFile(c)
        /\ UNCHANGED <<up, pos>>
     \/ /\ ret < 0
        /\ outcome' = [outcome EXCEPT ![c] = "failed"]
        /\ StopSendFile(c)
        /\ UNCHANGED <<up, pos, successes>>

(* The client is closed or loses its connection: what the service had not  *)
(* received yet may be lost.                                               *)
Quit(c) ==
  /\ phase[c] # "gone"
  /\ phase' = [phase EXCEPT ![c] = "gone"]
  /\ \E n \in 0 .. Len(up[c]) : up' = [up EXCEPT ![c] = SubSeq(@, 1, n)]
  /\ down' = [down EXCEPT ![c] = <<>>]
  /\ UNCHANGED <<server, pos, outcome, successes, clicks, faults, history>>

HandSysCfgMsg(c) == TransmitStart(c) \/ TransmitComment(c) \/ TransmitFailer(c)
HandNetMsg(c) == StartAnswered(c) \/ CommentAnswered(c) \/ AnswersCoalesce(c)
User(c) == UploadClicked(c) \/ CancelClicked(c) \/ Quit(c)

Next == \E c \in Client : HandSysCfgMsg(c) \/ HandNetMsg(c) \/ User(c) \/ ServerDies(c)

(* The reactor serves every readable connection, the Qt event loop of each *)
(* client its own.                                                         *)
Fairness == \A c \in Client : WF_vars(HandSysCfgMsg(c)) /\ WF_vars(HandNetMsg(c))
Spec == Init /\ [][Next]_vars /\ Fairness
-----------------------------------------------------------------------------
Message == {Start, Failer} \cup [type : {"COMMENT"}, data : Seq(Bytes)]
AnswerSet == [type : {"START", "COMMENT"}, ret : Int]

(* The type of the state of the service, the connections and the clients. *)
TypeOK ==
  /\ open \subseteq 0 .. MaxFd /\ m_file_fd \in -1 .. MaxFd
  /\ m_file_size \in Int /\ m_str_file_md5 \in Client \cup {None}
  /\ file = None \/ file \in Seq(Bytes)
  /\ up \in [Client -> Seq(Message)] /\ down \in [Client -> Seq(AnswerSet)]
  /\ phase \in [Client -> {"idle", "uploading", "stuck", "gone"}]
  /\ pos \in [Client -> Nat] /\ \A c \in Client : pos[c] <= FileLen[c]
  /\ outcome \in [Client -> {"none", "ok", "failed", "refused"}]
  /\ clicks \in [Client -> Nat] /\ faults \in Nat
  /\ installed \in [Client -> Nat] /\ failedInstalls \in [Client -> Nat]
  /\ successes \in [Client -> Nat]
  /\ disturbed \subseteq Client /\ impatient \subseteq Client
  /\ superseded \in Nat /\ earlyCancels \in Nat

(* While an upload is open its descriptor is, trunk.zip exists, and what   *)
(* m_file_size still expects is the announced size less the bytes of the   *)
(* file, whoever's uploads replaced each other before.                     *)
SizeAccounts ==
  m_file_fd > 0 =>
    /\ m_file_fd \in open
    /\ file # None
    /\ m_file_size + Len(file) = FileLen[m_str_file_md5]

(* Whoever is told of a success had its own whole file installed, or tar   *)
(* or run.sh failed on that file, which nobody is told: once for every     *)
(* time it is told, and nobody else's file is ever unpacked.               *)
Promised(c) == {i \in DOMAIN down[c] : down[c][i] = Answer("COMMENT", 0)}
SuccessIsUnpacked ==
  \A c \in Client :
    LET told == successes[c] + Cardinality(Promised(c)) IN
    \/ told = installed[c] + failedInstalls[c]
    \/ phase[c] = "gone" /\ successes[c] <= installed[c] + failedInstalls[c]

(* An upload only fails when something happened to it: another client was  *)
(* heard, the user cancelled or clicked twice, a call failed, somebody     *)
(* cancelled before the first upload (which closes the terminal, whose     *)
(* descriptor TransmitStart takes for a failure), or too many uploads were *)
(* replaced and took their descriptors with them.                          *)
FailureHasACause ==
  \A c \in Client :
    outcome[c] \in {"failed", "refused"} =>
      \/ c \in disturbed \cup impatient
      \/ faults > 0 \/ earlyCancels > 0 \/ superseded >= MaxFd

(* The descriptors nobody will close are those of the replaced uploads.    *)
LeakAccounted ==
  Cardinality(open \ {0, m_file_fd}) = superseded

(* Both: the device's accounts of bytes and descriptors are right. *)
Accounts == SizeAccounts /\ LeakAccounted

(* An upload ends, with whatever result.  A client is left waiting for     *)
(* ever only by a user who did not wait, whose two answers at a time       *)
(* CompleteRecv() cannot tell apart.                                       *)
UploadEnds ==
  \A c \in Client :
    phase[c] = "uploading" ~> \/ phase[c] \in {"idle", "gone"}
                              \/ phase[c] = "stuck" /\ c \in impatient
=============================================================================
