------------------------------- MODULE Sockets -------------------------------
(***************************************************************************)
(* The sockets of the main thread: the pass of CPollerUnit over its        *)
(* pollers, the listening CTcpV4Server, and the CTcpSocketItem of every    *)
(* accepted connection, which cuts the stream of bytes into messages and   *)
(* deletes itself when its client has gone.                                *)
(***************************************************************************)
EXTENDS Integers, Sequences, FiniteSets

CONSTANTS
  Client,
  FrameLen,   \* [Client -> Seq(Nat)]: the lengths of the messages a client sends
  Unknown,    \* the messages, as <<client, number>>, of an unknown type
  Silent,     \* the messages that are not answered
  SendMax,    \* the answers a connection holds for a client that does not read
  HeadLen,    \* the bytes of the header (8)
  RecvMax,    \* MAX_RECV_BUFF
  MaxSend,    \* bound: the bytes that arrive at a time
  Address,    \* bound: where the pollers, ordered by their addresses, may lie
  ServerAt,   \* the address of the server
  WakeUpAt    \* the address of CCmdOpt

Frame(c) == DOMAIN FrameLen[c]

ASSUME SocketsAssumption ==
  /\ IsFiniteSet(Client) /\ HeadLen \in Nat \ {0} /\ RecvMax \in Nat \ {0} /\ MaxSend \in Nat
  /\ FrameLen \in [Client -> Seq(Nat)]
  /\ \A c \in Client : \A i \in Frame(c) : FrameLen[c][i] >= HeadLen
  /\ Unknown \subseteq Client \X Nat /\ \A m \in Unknown : m[2] \in Frame(m[1])
  /\ Silent \subseteq Client \X Nat /\ SendMax \in Nat
  /\ Address \subseteq Nat \ {0} /\ Cardinality(Address) >= Cardinality(Client) + 2
  /\ {ServerAt, WakeUpAt} \subseteq Address /\ ServerAt # WakeUpAt
  /\ Client \cap {"server", "wakeup", "none"} = {}

VARIABLES
  conn,       \* [Client -> ...]: new, queued for accept(), open, or closed
  backlog,    \* the connections accept() has not returned yet, in order
  arrived,    \* [Client -> Nat]: bytes of the stream that arrived
  fin,        \* the clients that closed their end
  unread,     \* [Client -> Nat]: the answers a client has not read yet
  poller,     \* m_set_poller_unit: [Address -> what lies there]
  fd,         \* [Client -> Nat]: m_n_poll_id of the connection's item
  received,   \* [Client -> Nat]: bytes recv() returned
  taken,      \* [Client -> Nat]: bytes of them skipped in m_recv_buff
  handled,    \* history: [Client -> Seq]: the bytes of each message handled
  rd,         \* the descriptors select() found readable
  pc, cur,    \* where the main thread is, and on which connection's behalf
  it,         \* the iterator of the pass: the poller it visits next, or End
  iRecv,      \* what the last recv() returned
  closed      \* history: descriptors closed in this pass

kernel == <<conn, backlog, arrived, fin, unread>>
items  == <<poller, fd, received, taken, handled>>
loop   == <<rd, pc, cur, it, iRecv, closed>>
vars   == <<kernel, items, loop>>

None == "none"
End  == 0
ListenFd == 1
WakeFd   == 2

(* The number of the byte behind the i-th message of a stream. *)
Behind(c, i) ==
  LET sum[n \in 0 .. Len(FrameLen[c])] ==
        IF n = 0 THEN 0 ELSE sum[n - 1] + FrameLen[c][n]
  IN sum[i]
Stream(c) == Behind(c, Len(FrameLen[c]))

(* Two pollers never go: the server, and CCmdOpt, standing here for all    *)
(* that have nothing to do in a pass.                                      *)
Init ==
  /\ poller = [a \in Address |-> CASE a = ServerAt -> "server"
                                   [] a = WakeUpAt -> "wakeup"
                                   [] OTHER -> None]
  /\ conn = [c \in Client |-> "new"] /\ backlog = <<>>
  /\ arrived = [c \in Client |-> 0] /\ fin = {}
  /\ unread = [c \in Client |-> 0]
  /\ fd = [c \in Client |-> -1]
  /\ received = [c \in Client |-> 0] /\ taken = [c \in Client |-> 0]
  /\ handled = [c \in Client |-> <<>>]
  /\ rd = {} /\ pc = "select" /\ cur = None /\ it = End /\ iRecv = 0 /\ closed = {}
-----------------------------------------------------------------------------
(* The clients and the network.                                            *)

Connect(c) ==
  /\ conn[c] = "new"
  /\ conn' = [conn EXCEPT ![c] = "queued"] /\ backlog' = Append(backlog, c)
  /\ UNCHANGED <<arrived, fin, unread, items, loop>>

Arrive(c) ==
  /\ conn[c] \in {"queued", "open"} /\ c \notin fin
  /\ \E n \in 1 .. MaxSend :
       /\ arrived[c] + n <= Stream(c)
       /\ arrived' = [arrived EXCEPT ![c] = @ + n]
  /\ UNCHANGED <<conn, backlog, fin, unread, items, loop>>

Close(c) ==
  /\ conn[c] \in {"queued", "open"} /\ c \notin fin
  /\ fin' = fin \cup {c}
  /\ UNCHANGED <<conn, backlog, arrived, unread, items, loop>>

(* The client takes an answer; nothing makes it do so. *)
Read(c) ==
  /\ unread[c] > 0 /\ c \notin fin
  /\ unread' = [unread EXCEPT ![c] = @ - 1]
  /\ UNCHANGED <<conn, backlog, arrived, fin, items, loop>>
-----------------------------------------------------------------------------
(* The pass over the pollers.                                              *)

Registered == {a \in Address : poller[a] # None}
After(a) ==
  LET later == {x \in Registered : x > a} IN
  IF later = {} THEN End ELSE CHOOSE x \in later : \A y \in later : x <= y

FdAt(a) ==
  CASE poller[a] = "server" -> ListenFd
    [] poller[a] = "wakeup" -> WakeFd
    [] OTHER -> fd[poller[a]]

ToRead(c) == arrived[c] > received[c]
Readable ==
  {fd[c] : c \in {x \in Client : conn[x] = "open" /\ (ToRead(x) \/ x \in fin)}}
    \cup (IF backlog = <<>> THEN {} ELSE {ListenFd})

(* Wait(), once select() has something to return. *)
Select ==
  /\ pc = "select" /\ Readable # {}
  /\ rd' = Readable /\ closed' = {}
  /\ pc' = "pass" /\ it' = After(End)
  /\ UNCHANGED <<kernel, items, cur, iRecv>>

EndPass ==
  /\ pc = "pass" /\ it = End
  /\ pc' = "select"
  /\ UNCHANGED <<kernel, items, rd, cur, it, iRecv, closed>>

(* poller = ( *it++ ), before its handler runs. *)
Step(a) == it' = After(a)

Skip ==
  /\ pc = "pass" /\ it # End /\ FdAt(it) \notin rd
  /\ Step(it)
  /\ UNCHANGED <<kernel, items, rd, pc, cur, iRecv, closed>>

(* CTcpV4Server::InPutNotify() with the attach() of the new item, which    *)
(* malloc() may put anywhere and accept() gives the lowest free number.    *)
Accept ==
  /\ pc = "pass" /\ it # End /\ poller[it] = "server" /\ ListenFd \in rd
  /\ LET c == Head(backlog)
         used == {ListenFd, WakeFd} \cup {fd[x] : x \in Client}
     IN
     /\ backlog' = Tail(backlog)
     /\ conn' = [conn EXCEPT ![c] = "open"]
     /\ \E a \in Address \ Registered : poller' = [poller EXCEPT ![a] = c]
     /\ \E n \in 1 .. Cardinality(Client) + 2 :
          /\ n \notin used /\ 1 .. n - 1 \subseteq used
          /\ fd' = [fd EXCEPT ![c] = n]
  /\ Step(it)
  /\ UNCHANGED <<arrived, fin, unread, received, taken, handled, rd, pc, cur, iRecv, closed>>

(* accept() fails, which nothing looks into: for want of a descriptor, and *)
(* the connection stays where it is, or because its client has gone.       *)
AcceptFails ==
  /\ pc = "pass" /\ it # End /\ poller[it] = "server" /\ ListenFd \in rd
  /\ \/ UNCHANGED <<conn, backlog>>
     \/ /\ Head(backlog) \in fin
        /\ conn' = [conn EXCEPT ![Head(backlog)] = "closed"]
        /\ backlog' = Tail(backlog)
  /\ Step(it)
  /\ UNCHANGED <<arrived, fin, unread, items, rd, pc, cur, iRecv, closed>>

(* Mutant: the iterator stays on the poller while its handler runs. *)
InputStepsLater(c) ==
  /\ pc = "pass" /\ it # End /\ poller[it] = c /\ fd[c] \in rd
  /\ it' = it
  /\ pc' = "recv" /\ cur' = c /\ iRecv' = 0
  /\ UNCHANGED <<kernel, items, rd, closed>>
(* CTcpSocketItem::InPutNotify() is called. *)
Input(c) ==
  /\ pc = "pass" /\ it # End /\ poller[it] = c /\ fd[c] \in rd
  /\ Step(it)
  /\ pc' = "recv" /\ cur' = c /\ iRecv' = 0
  /\ UNCHANGED <<kernel, items, rd, closed>>
-----------------------------------------------------------------------------
(* CTcpSocketItem::InPutNotify().                                          *)

(* HunpUpNotiry(): delete this, which closes the descriptor. *)
Delete(c) ==
  /\ poller' = [a \in Address |-> IF poller[a] = c THEN None ELSE poller[a]]
  /\ conn' = [conn EXCEPT ![c] = "closed"]
  /\ fd' = [fd EXCEPT ![c] = -1] /\ closed' = closed \cup {fd[c]}
  /\ pc' = "pass" /\ UNCHANGED cur

(* recv() of a blocking socket: it returns what there is, or the end of    *)
(* the stream, and waits for one of them.                                  *)
RecvNetData(c) ==
  /\ pc = "recv" /\ cur = c
  /\ \/ /\ ToRead(c)
        /\ LET there == arrived[c] - received[c] IN
           iRecv' = IF there < RecvMax THEN there ELSE RecvMax
        /\ received' = [received EXCEPT ![c] = @ + iRecv']
        /\ pc' = "frames"
        /\ UNCHANGED <<conn, poller, fd, cur, closed>>
     \/ /\ ~ToRead(c) /\ c \in fin
        /\ Delete(c)
        /\ UNCHANGED <<received, iRecv>>
  /\ UNCHANGED <<backlog, arrived, fin, unread, taken, handled, rd, it>>

DataLen(c) == received[c] - taken[c]
(* The message whose header is at the front of the buffer. *)
Front(c) == CHOOSE i \in Frame(c) : Behind(c, i - 1) <= taken[c] /\ taken[c] < Behind(c, i)

(* Mutant: compares the length of the body alone. *)
CompleteWithoutHead(c) ==
  DataLen(c) >= HeadLen /\ FrameLen[c][Front(c)] - HeadLen <= DataLen(c)
(* onRecvCompelete() of both servers: header and body are there. *)
Complete(c) ==
  DataLen(c) >= HeadLen /\ FrameLen[c][Front(c)] <= DataLen(c)

(* Mutant: reads on until there is nothing more. *)
RecvAgainAlways == pc' = "recv"
(* The buffer holds no further message: recv() again after a full read. *)
RecvAgain == pc' = IF iRecv = RecvMax THEN "recv" ELSE "pass"

Incomplete(c) ==
  /\ pc = "frames" /\ cur = c /\ ~Complete(c)
  /\ RecvAgain
  /\ UNCHANGED <<kernel, items, rd, cur, it, iRecv, closed>>

(* Mutant: one message per recv(). *)
GoOnOnce(left) == RecvAgain
GoOn(left) == IF left > 0 THEN pc' = pc ELSE RecvAgain

(* SendData() of the answer: send() blocks while the connection has no     *)
(* room for it, unless the client has closed.                              *)
Answers(c) == <<c, Front(c)>> \notin Silent \cup Unknown
SendData(c) ==
  IF Answers(c) /\ c \notin fin
  THEN unread[c] < SendMax /\ unread' = [unread EXCEPT ![c] = @ + 1]
  ELSE UNCHANGED unread

(* HandSysCfgMsg() or HandRunCfgMsg() of a message, with its answer, and   *)
(* the skip() of at most what the buffer holds.                            *)
HandMsg(c) ==
  /\ pc = "frames" /\ cur = c /\ Complete(c) /\ <<c, Front(c)>> \notin Unknown
  /\ SendData(c)
  /\ LET end == taken[c] + FrameLen[c][Front(c)]
         upTo == IF end < received[c] THEN end ELSE received[c]
     IN
     /\ handled' = [handled EXCEPT ![c] = Append(@, <<taken[c], upTo>>)]
     /\ taken' = [taken EXCEPT ![c] = upTo]
     /\ GoOn(received[c] - upTo)
  /\ UNCHANGED <<conn, backlog, arrived, fin, poller, fd, received, rd, cur, it, iRecv,
                 closed>>

HandUnknown(c) ==
  /\ pc = "frames" /\ cur = c /\ Complete(c) /\ <<c, Front(c)>> \in Unknown
  /\ Delete(c)
  /\ UNCHANGED <<backlog, arrived, fin, unread, received, taken, handled, rd, it, iRecv>>

(* SendData() to a client that has closed: SIGPIPE, or an item that is     *)
(* deleted under its own InPutNotify().                                    *)
Dies(c) ==
  /\ pc = "frames" /\ cur = c /\ Complete(c) /\ Answers(c) /\ c \in fin
  /\ pc' = "dead"
  /\ UNCHANGED <<kernel, items, rd, cur, it, iRecv, closed>>

InPutNotify(c) ==
  Input(c) \/ RecvNetData(c) \/ Incomplete(c) \/ HandMsg(c) \/ HandUnknown(c)

Main ==
  \/ Select \/ Skip \/ Accept \/ AcceptFails \/ EndPass
  \/ \E c \in Client : InPutNotify(c) \/ Dies(c)
Next == Main \/ \E c \in Client : Connect(c) \/ Arrive(c) \/ Close(c) \/ Read(c)

(* The main thread runs; no client owes the service anything.              *)
Spec == Init /\ [][Next]_vars /\ WF_vars(Main)
-----------------------------------------------------------------------------
(* What is handled are the client's messages, whole, in order, each once.  *)
FramesAsSent ==
  \A c \in Client : \A i \in DOMAIN handled[c] :
    i \in Frame(c) /\ handled[c][i] = <<Behind(c, i - 1), Behind(c, i)>>

(* The iterator of the pass never points at a poller that is gone, whoever *)
(* deletes itself and whoever is accepted during the pass.                 *)
NoDanglingIterator == it # End /\ pc # "dead" => poller[it] # None

(* The main thread waits for one client, and with it every timer and every *)
(* other client, in three cases only: in recv() after one that was full to *)
(* the brim, or on a descriptor accept() has just reused that was readable *)
(* before it was closed in the same pass; and in send() to a client that   *)
(* sent more messages than the connection holds answers, and reads none.   *)
WaitsToRecv(c) == pc = "recv" /\ cur = c /\ ~ToRead(c) /\ c \notin fin
WaitsToSend(c) ==
  /\ pc = "frames" /\ cur = c /\ Complete(c) /\ Answers(c)
  /\ c \notin fin /\ unread[c] >= SendMax
HeldUpBy(c) == WaitsToRecv(c) \/ WaitsToSend(c)
HeldUpOnlyBy ==
  \A c \in Client :
    HeldUpBy(c) =>
      \/ pc = "recv" /\ (iRecv = RecvMax \/ fd[c] \in closed)
      \/ pc = "frames" /\ unread[c] = SendMax /\ Len(handled[c]) >= SendMax

(* The main thread is held up or dead for good; or no whole message of an  *)
(* open connection waits for ever to be handled, and no connection to be   *)
(* accepted or dropped, but for an accept() that fails again and again.    *)
Waiting(c) ==
  conn[c] = "open" /\ \E i \in Frame(c) : Len(handled[c]) < i /\ Behind(c, i) <= arrived[c]
FramesHandled ==
  \/ <>[](pc = "dead" \/ \E c \in Client : HeldUpBy(c))
  \/ /\ \A c \in Client : []<>~Waiting(c)
     /\ []<>(backlog = <<>>) \/ []<><<AcceptFails>>_vars
=============================================================================
