--------------------------- MODULE SocketsProofs ---------------------------
(***************************************************************************)
(* The messages of a stream are handed on whole, in order and once; the    *)
(* iterator of a pass never points at a poller that is gone; the main      *)
(* thread waits for a client in three cases only.  For any clients, lengths*)
(* of messages, sizes of reads, and orders of the pollers' addresses.      *)
(***************************************************************************)
EXTENDS Sockets, SequenceTheorems, FiniteSetTheorems, WellFoundedInduction, TLAPS

(* Induction, as the smallest counterexample. *)
LEMMA NatMin ==
  ASSUME NEW T, T \subseteq Nat, T # {}
  PROVE  \E x \in T : \A y \in T : x <= y
<1> DEFINE R == OpToRel(<, Nat)
<1>1. IsWellFoundedOn(R, Nat)
  BY NatLessThanWellFounded
<1>2. \A x, y \in Nat : x < y => <<x, y>> \in R
  BY DEF OpToRel
<1> HIDE DEF R
<1>3. \E x \in T : \A y \in T : ~ (<<y, x>> \in R)
  BY <1>1, WFMin, Zenon
<1>4. PICK x \in T : \A y \in T : ~ (<<y, x>> \in R)
  BY <1>3
<1>5. \A y \in T : x <= y
  <2> TAKE y \in T
  <2>1. x \in Nat /\ y \in Nat
    OBVIOUS
  <2>2. ~(y < x)
    BY <1>2, <1>4, <2>1
  <2>. QED
    BY <2>1, <2>2
<1>. QED
  BY <1>5

(* The recursive function in Behind() exists for every stream. *)
LEMMA SumsExist ==
  ASSUME NEW s \in Seq(Nat), NEW N \in 0 .. Len(s)
  PROVE  \E f : f = [n \in 0 .. N |-> IF n = 0 THEN 0 ELSE f[n - 1] + s[n]]
<1> DEFINE Def(k, f) == f = [n \in 0 .. k |-> IF n = 0 THEN 0 ELSE f[n - 1] + s[n]]
           T == {k \in Nat : ~ \E f : Def(k, f)}
<1>0. N \in Nat
  OBVIOUS
<1> SUFFICES ASSUME T # {} PROVE FALSE
  BY <1>0, Zenon
<1>1. T \subseteq Nat
  OBVIOUS
<1>2. PICK k \in T : \A j \in T : k <= j
  BY <1>1, NatMin
<1>3. k # 0
  <2>1. Def(0, [n \in 0 .. 0 |-> 0])
    OBVIOUS
  <2>. QED
    BY <2>1
<1>4. k - 1 \in Nat /\ ~(k - 1 \in T)
  <2>1. k \in Nat /\ k - 1 \in Nat
    BY <1>1, <1>3
  <2> HIDE DEF T
  <2>2. k - 1 \in T => k <= k - 1
    BY <1>2
  <2>. QED
    BY <2>1, <2>2
<1>5. PICK f : Def(k - 1, f)
  BY <1>4
<1> DEFINE g == [n \in 0 .. k |-> IF n = k THEN f[k - 1] + s[k] ELSE f[n]]
<1>6. Def(k, g)
  <2>1. \A n \in 0 .. k : g[n] = IF n = 0 THEN 0 ELSE g[n - 1] + s[n]
    BY <1>3, <1>5
  <2>. QED
    BY <2>1
<1>. QED
  BY <1>2, <1>6

(* The sums of the lengths up to each message of a stream. *)
IsSum(s, f) == f = [n \in 0 .. Len(s) |-> IF n = 0 THEN 0 ELSE f[n - 1] + s[n]]

LEMMA BehindIsSum ==
  ASSUME NEW c \in Client, NEW i
  PROVE  Behind(c, i) = (CHOOSE f : IsSum(FrameLen[c], f))[i]
BY DEF Behind, IsSum

LEMMA BehindUnfolds ==
  ASSUME NEW c \in Client
  PROVE  /\ Behind(c, 0) = 0
         /\ \A i \in Frame(c) : Behind(c, i) = Behind(c, i - 1) + FrameLen[c][i]
<1>1. FrameLen[c] \in Seq(Nat) /\ Len(FrameLen[c]) \in Nat /\ Frame(c) = 1 .. Len(FrameLen[c])
  BY SocketsAssumption DEF Frame
<1>2. \E f : IsSum(FrameLen[c], f)
  <2>1. Len(FrameLen[c]) \in 0 .. Len(FrameLen[c])
    BY <1>1
  <2>. QED
    BY <1>1, <2>1, SumsExist, Zenon DEF IsSum
<1>3. PICK sum : IsSum(FrameLen[c], sum) /\ sum = CHOOSE f : IsSum(FrameLen[c], f)
  BY <1>2
<1>4. \A i : Behind(c, i) = sum[i]
  BY <1>3, BehindIsSum
<1>5. sum[0] = 0
  BY <1>1, <1>3 DEF IsSum
<1>6. \A i \in 1 .. Len(FrameLen[c]) : sum[i] = sum[i - 1] + FrameLen[c][i]
  <2> TAKE i \in 1 .. Len(FrameLen[c])
  <2>1. i \in 0 .. Len(FrameLen[c]) /\ i # 0
    BY <1>1
  <2>. QED
    BY <2>1, <1>3, Zenon DEF IsSum
<1>. QED
  BY <1>1, <1>4, <1>5, <1>6
-----------------------------------------------------------------------------
Opened(c) == conn[c] = "open"
InPass == pc \in {"pass", "recv", "frames"}

SocketsTypeOK ==
  /\ conn \in [Client -> {"new", "queued", "open", "closed"}]
  /\ backlog \in Seq(Client)
  /\ arrived \in [Client -> Nat] /\ fin \subseteq Client
  /\ poller \in [Address -> Client \cup {"server", "wakeup", None}]
  /\ fd \in [Client -> Int]
  /\ received \in [Client -> Nat] /\ taken \in [Client -> Nat]
  /\ handled \in [Client -> Seq(Nat \X Nat)]
  /\ rd \subseteq Nat /\ closed \subseteq Int
  /\ pc \in {"select", "pass", "recv", "frames", "dead"}
  /\ cur \in Client \cup {None} /\ it \in Address \cup {End} /\ iRecv \in Nat

(* Whom accept() may still return, each once. *)
QueueOK ==
  /\ \A i \in DOMAIN backlog : conn[backlog[i]] = "queued"
  /\ \A i, j \in DOMAIN backlog : backlog[i] = backlog[j] => i = j

(* A client's poller is there as long as its connection, at one address.   *)
PollersOK ==
  /\ poller[ServerAt] = "server"
  /\ \A a \in Address : poller[a] = "server" => a = ServerAt
  /\ \A a \in Address : poller[a] \in Client => Opened(poller[a])
  /\ \A a, b \in Address : poller[a] \in Client /\ poller[a] = poller[b] => a = b

(* The iterator has left the poller whose handler runs behind.             *)
CurIsPast ==
  pc \in {"recv", "frames"} =>
    /\ cur \in Client /\ Opened(cur)
    /\ \A a \in Address : poller[a] = cur => it = End \/ a < it

(* Until the server has been visited, the backlog is as select() saw it,   *)
(* or longer.                                                              *)
BacklogWaits ==
  InPass /\ it # End /\ it <= ServerAt /\ ListenFd \in rd => backlog # <<>>

(* accept() gives no number twice, nor one of the two that never close.    *)
FdsOK ==
  /\ \A c \in Client : IF Opened(c) THEN fd[c] \in Nat \ {ListenFd, WakeFd} ELSE fd[c] = -1
  /\ \A c, d \in Client : Opened(c) /\ fd[c] = fd[d] => c = d

(* Whatever select() reported is still somebody's, or closed since.        *)
RdKnown ==
  InPass => \A n \in rd \ closed : n = ListenFd \/ \E c \in Client : fd[c] = n

(* Whoever the pass has yet to visit still has what select() reported.     *)
YetToRead ==
  InPass /\ it # End =>
    \A a \in Address : \A c \in Client :
      a >= it /\ poller[a] = c /\ fd[c] \in rd \ closed => ToRead(c) \/ c \in fin

RecvHasCause ==
  pc = "recv" => ToRead(cur) \/ cur \in fin \/ iRecv = RecvMax \/ fd[cur] \in closed

(* The buffer starts with the message that is due.                         *)
BuffersOK ==
  \A c \in Client :
    /\ Len(handled[c]) <= Len(FrameLen[c])
    /\ taken[c] = Behind(c, Len(handled[c]))
    /\ taken[c] <= received[c] /\ received[c] <= arrived[c] /\ arrived[c] <= Stream(c)

PassInv ==
  /\ SocketsTypeOK /\ QueueOK /\ PollersOK /\ CurIsPast /\ BacklogWaits /\ FdsOK
  /\ NoDanglingIterator /\ RdKnown /\ YetToRead /\ RecvHasCause
MessagesInv == BuffersOK /\ FramesAsSent
AnswersInv ==
  /\ unread \in [Client -> Nat]
  /\ \A c \in Client : unread[c] <= SendMax /\ unread[c] <= Len(handled[c])
-----------------------------------------------------------------------------
(* Messages are not empty: the bytes behind them are in their order.       *)
LEMMA BehindRises ==
  ASSUME NEW c \in Client, NEW j \in 0 .. Len(FrameLen[c])
  PROVE  Behind(c, j) \in Nat /\ \A i \in 0 .. j - 1 : Behind(c, i) < Behind(c, j)
<1> DEFINE N == Len(FrameLen[c])
           B(k) == Behind(c, k)
           Good(k) == B(k) \in Nat /\ \A i \in 0 .. k - 1 : B(i) < B(k)
           T == {k \in Nat : k <= N /\ ~Good(k)}
<1>1. N \in Nat /\ Frame(c) = 1 .. N /\ j \in Nat /\ j <= N
  BY SocketsAssumption DEF Frame
<1>2. B(0) = 0 /\ \A k \in 1 .. N : B(k) = B(k - 1) + FrameLen[c][k]
  BY <1>1, BehindUnfolds
<1>3. \A k \in 1 .. N : FrameLen[c][k] \in Nat /\ FrameLen[c][k] > 0
  <2> TAKE k \in 1 .. N
  <2>1. FrameLen[c] \in Seq(Nat) /\ k \in DOMAIN FrameLen[c]
    BY <1>1, SocketsAssumption DEF Frame
  <2>2. FrameLen[c][k] \in Nat
    BY <2>1, ElementOfSeq
  <2>3. FrameLen[c][k] >= HeadLen /\ HeadLen \in Nat \ {0}
    BY <1>1, SocketsAssumption
  <2>. QED
    BY <2>2, <2>3
<1> HIDE DEF N, B
<1>4. T = {}
  <2> SUFFICES ASSUME T # {} PROVE FALSE
    OBVIOUS
  <2>1. PICK k \in T : \A l \in T : k <= l
    BY NatMin
  <2>2. k \in Nat /\ k <= N /\ ~Good(k)
    OBVIOUS
  <2>3. k # 0
    BY <1>2, <2>2
  <2>4. k - 1 \in Nat /\ k - 1 <= N /\ Good(k - 1)
    BY <2>1, <2>2, <2>3, <1>1
  <2>5. k \in 1 .. N
    BY <2>2, <2>3, <1>1
  <2>6. B(k) = B(k - 1) + FrameLen[c][k] /\ FrameLen[c][k] \in Nat /\ FrameLen[c][k] > 0
    BY <1>2, <1>3, <2>5
  <2>7. B(k) \in Nat /\ B(k - 1) < B(k)
    BY <2>4, <2>6
  <2>8. \A i \in 0 .. k - 1 : B(i) < B(k)
    <3> TAKE i \in 0 .. k - 1
    <3>1. CASE i = k - 1
      BY <2>7, <3>1
    <3>2. CASE i # k - 1
      <4>1. i \in 0 .. (k - 1) - 1 /\ i \in 0 .. N
        BY <2>2, <3>2, <1>1
      <4>2. B(i) < B(k - 1)
        BY <2>4, <4>1
      <4>3. k - 1 \in 0 .. N /\ i < k - 1
        BY <2>2, <3>2, <2>4
      <4>4. B(i) \in Nat
        <5>1. i \in Nat /\ i <= N /\ i < k
          BY <4>1, <4>3, <2>2, <1>1
        <5>2. ~(i \in T)
          BY <2>1, <2>2, <5>1
        <5>. QED
          BY <5>1, <5>2
      <4>. QED
        BY <4>2, <4>4, <2>4, <2>7
    <3>. QED
      BY <3>1, <3>2
  <2>. QED
    BY <2>2, <2>7, <2>8
<1>5. Good(j)
  BY <1>1, <1>4
<1>. QED
  BY <1>5 DEF B

(* The message at the front of the buffer is the one after those handled.  *)
LEMMA FrontIsNext ==
  ASSUME NEW c \in Client, NEW k \in Nat, k < Len(FrameLen[c]), taken[c] = Behind(c, k)
  PROVE  Front(c) = k + 1
<1> DEFINE N == Len(FrameLen[c])
           B(i) == Behind(c, i)
<1>1. N \in Nat /\ Frame(c) = 1 .. N
  BY SocketsAssumption DEF Frame
<1>2. \A j \in 0 .. N : B(j) \in Nat /\ \A i \in 0 .. j - 1 : B(i) < B(j)
  BY BehindRises
<1>3. taken[c] = B(k) /\ k < N
  OBVIOUS
<1>4. Front(c) = CHOOSE i \in Frame(c) : B(i - 1) <= taken[c] /\ taken[c] < B(i)
  BY DEF Front
<1> HIDE DEF N, B
<1>5. k + 1 \in 1 .. N /\ B(k) \in Nat /\ B(k) < B(k + 1)
  BY <1>1, <1>2, <1>3
<1>6. \A i \in 1 .. N : B(i - 1) <= B(k) /\ B(k) < B(i) => i = k + 1
  <2> TAKE i \in 1 .. N
  <2> HAVE B(i - 1) <= B(k) /\ B(k) < B(i)
  <2>1. i - 1 \in 0 .. N /\ i \in 0 .. N /\ k \in 0 .. N /\ i \in Nat
    BY <1>1, <1>3
  <2>2. B(i) \in Nat /\ B(i - 1) \in Nat
    BY <1>2, <2>1
  <2>3. ~(k < i - 1)
    <3> SUFFICES ASSUME k < i - 1 PROVE FALSE
      OBVIOUS
    <3>1. k \in 0 .. (i - 1) - 1
      BY <2>1
    <3>2. B(k) < B(i - 1)
      BY <1>2, <2>1, <3>1
    <3>. QED
      BY <2>2, <3>2, <1>5
  <2>4. ~(i <= k)
    <3> SUFFICES ASSUME i <= k PROVE FALSE
      OBVIOUS
    <3>1. CASE i = k
      BY <3>1, <2>2
    <3>2. CASE i < k
      <4>1. i \in 0 .. k - 1
        BY <2>1, <3>2
      <4>2. B(i) < B(k)
        BY <1>2, <2>1, <4>1
      <4>. QED
        BY <2>2, <1>5, <4>2
    <3>. QED
      BY <2>1, <3>1, <3>2
  <2>. QED
    BY <2>1, <2>3, <2>4
<1>7. \A i \in Frame(c) : (B(i - 1) <= taken[c] /\ taken[c] < B(i)) <=> i = k + 1
  <2> TAKE i \in Frame(c)
  <2>1. i = k + 1 => B(i - 1) = B(k)
    <3>1. (k + 1) - 1 = k
      OBVIOUS
    <3>. QED
      BY <3>1
  <2>. QED
    BY <1>1, <1>3, <1>5, <1>6, <2>1
<1>8. k + 1 \in Frame(c)
  BY <1>1, <1>5
<1>. QED
  BY <1>4, <1>7, <1>8
-----------------------------------------------------------------------------
(* The messages: the invariant of the streams is kept by every step.       *)
LEMMA MessagesInit == Init => SocketsTypeOK /\ MessagesInv
<1> SUFFICES ASSUME Init PROVE SocketsTypeOK /\ MessagesInv
  OBVIOUS
<1>1. SocketsTypeOK
  BY SocketsAssumption DEF Init, SocketsTypeOK, None, End
<1>2. \A c \in Client : /\ handled[c] = <<>> /\ taken[c] = 0 /\ received[c] = 0 /\ arrived[c] = 0
  BY DEF Init
<1>3. \A c \in Client : Len(FrameLen[c]) \in Nat /\ Behind(c, 0) = 0 /\ Stream(c) \in Nat
  <2> TAKE c \in Client
  <2>1. Len(FrameLen[c]) \in Nat /\ Len(FrameLen[c]) \in 0 .. Len(FrameLen[c])
    BY SocketsAssumption
  <2>. QED
    BY <2>1, BehindUnfolds, BehindRises DEF Stream
<1>4. BuffersOK
  BY <1>2, <1>3 DEF BuffersOK
<1>5. FramesAsSent
  BY <1>2 DEF FramesAsSent
<1>. QED
  BY <1>1, <1>4, <1>5 DEF MessagesInv

LEMMA ReceiveKeeps ==
  ASSUME SocketsTypeOK, BuffersOK, NEW c \in Client, RecvNetData(c)
  PROVE  /\ received' \in [Client -> Nat] /\ iRecv' \in Nat
         /\ \A d \in Client : received[d] <= received'[d] /\ received'[d] <= arrived[d]
<1>1. CASE ToRead(c) /\ received' = [received EXCEPT ![c] = @ + iRecv']
           /\ iRecv' = LET there == arrived[c] - received[c] IN
                       IF there < RecvMax THEN there ELSE RecvMax
  <2> DEFINE there == arrived[c] - received[c]
  <2>1. received \in [Client -> Nat] /\ arrived \in [Client -> Nat] /\ RecvMax \in Nat
    BY SocketsAssumption DEF SocketsTypeOK
  <2>2. there \in Nat /\ there > 0
    BY <1>1, <2>1 DEF ToRead
  <2>3. iRecv' \in Nat /\ iRecv' <= there
    BY <1>1, <2>1, <2>2
  <2>4. \A d \in Client : received[d] <= arrived[d]
    BY DEF BuffersOK
  <2>. QED
    BY <1>1, <2>1, <2>2, <2>3, <2>4
<1>2. CASE UNCHANGED <<received, iRecv>>
  BY <1>2 DEF SocketsTypeOK, BuffersOK
<1>. QED
  BY <1>1, <1>2 DEF RecvNetData

LEMMA HandMsgKeeps ==
  ASSUME SocketsTypeOK, BuffersOK, NEW c \in Client, HandMsg(c)
  PROVE  LET k == Len(handled[c]) IN
         /\ k \in Nat /\ k < Len(FrameLen[c]) /\ k + 1 \in Frame(c)
         /\ handled' = [handled EXCEPT ![c] = Append(@, <<Behind(c, k), Behind(c, k + 1)>>)]
         /\ taken' = [taken EXCEPT ![c] = Behind(c, k + 1)]
         /\ Behind(c, k) \in Nat /\ Behind(c, k + 1) \in Nat
         /\ Behind(c, k + 1) <= received[c]
<1> DEFINE k == Len(handled[c])
           N == Len(FrameLen[c])
           next == Behind(c, k + 1)
<1>1. handled[c] \in Seq(Nat \X Nat) /\ FrameLen[c] \in Seq(Nat) /\ Frame(c) = 1 .. N
  BY SocketsAssumption DEF SocketsTypeOK, Frame
<1>2. k \in Nat /\ N \in Nat
  BY <1>1
<1>3. /\ k <= N /\ taken[c] = Behind(c, k) /\ received[c] <= arrived[c] /\ arrived[c] <= Stream(c)
      /\ taken[c] \in Nat /\ received[c] \in Nat /\ arrived[c] \in Nat
  BY DEF BuffersOK, SocketsTypeOK
<1>4. Stream(c) = Behind(c, N) /\ HeadLen \in Nat \ {0}
  BY SocketsAssumption DEF Stream
<1>5. /\ DataLen(c) = received[c] - taken[c]
      /\ DataLen(c) >= HeadLen /\ FrameLen[c][Front(c)] <= DataLen(c)
  BY DEF HandMsg, Complete, DataLen
<1>6. N \in 0 .. N /\ k \in 0 .. N
  BY <1>2, <1>3
<1>7. Behind(c, N) \in Nat /\ Behind(c, k) \in Nat
  BY <1>6, BehindRises
<1> HIDE DEF k, N, next
<1>8. k < N
  <2> SUFFICES ASSUME k = N PROVE FALSE
    BY <1>2, <1>3
  <2>. QED
    BY <1>3, <1>4, <1>5, <1>7
<1>9. Front(c) = k + 1
  BY <1>2, <1>3, <1>8, FrontIsNext DEF N
<1>10. k + 1 \in Frame(c) /\ k + 1 \in 0 .. N
  BY <1>1, <1>2, <1>8
<1>11. next = Behind(c, k) + FrameLen[c][k + 1]
  <2>1. (k + 1) - 1 = k
    BY <1>2
  <2>. QED
    BY <1>10, <2>1, BehindUnfolds DEF next
<1>12. next \in Nat
  BY <1>10, BehindRises DEF next, N
<1>13. FrameLen[c][k + 1] \in Nat
  BY <1>1, <1>10, ElementOfSeq DEF N
<1>14. next <= received[c]
  BY <1>3, <1>5, <1>9, <1>11, <1>13, <1>7
<1>15. (IF next < received[c] THEN next ELSE received[c]) = next
  BY <1>3, <1>12, <1>14
<1>16. taken[c] + FrameLen[c][Front(c)] = next
  BY <1>3, <1>9, <1>11
<1>17. /\ handled' = [handled EXCEPT ![c] = Append(@, <<taken[c], next>>)]
       /\ taken' = [taken EXCEPT ![c] = next]
  BY <1>15, <1>16 DEF HandMsg
<1>. QED
  BY <1>2, <1>3, <1>7, <1>8, <1>10, <1>12, <1>14, <1>17 DEF k, N, next

(* Of the streams only arrivals, recv() and the messages handled change    *)
(* anything.                                                               *)
LEMMA MessagesStep ==
  ASSUME SocketsTypeOK, MessagesInv, [Next]_vars
  PROVE  MessagesInv'
<1> DEFINE Keeps == UNCHANGED <<arrived, received, taken, handled>>
<1>1. CASE Keeps
  <2>1. BuffersOK'
    BY <1>1 DEF MessagesInv, BuffersOK
  <2>2. FramesAsSent'
    BY <1>1 DEF MessagesInv, FramesAsSent
  <2>. QED
    BY <2>1, <2>2 DEF MessagesInv
<1>2. ASSUME NEW c \in Client, Arrive(c) PROVE MessagesInv'
  <2>1. PICK n \in 1 .. MaxSend : /\ arrived[c] + n <= Stream(c)
                                  /\ arrived' = [arrived EXCEPT ![c] = @ + n]
    BY <1>2 DEF Arrive
  <2>2. UNCHANGED <<received, taken, handled>>
    BY <1>2 DEF Arrive, items
  <2>3. n \in Nat /\ arrived \in [Client -> Nat] /\ received \in [Client -> Nat]
    BY SocketsAssumption DEF SocketsTypeOK
  <2>4. \A d \in Client : received[d] <= arrived'[d] /\ arrived'[d] <= Stream(d)
    BY <2>1, <2>3 DEF MessagesInv, BuffersOK
  <2>5. BuffersOK'
    BY <2>2, <2>4 DEF MessagesInv, BuffersOK
  <2>6. FramesAsSent'
    BY <2>2 DEF MessagesInv, FramesAsSent
  <2>. QED
    BY <2>5, <2>6 DEF MessagesInv
<1>3. ASSUME NEW c \in Client, RecvNetData(c) PROVE MessagesInv'
  <2>1. UNCHANGED <<arrived, taken, handled>>
    BY <1>3 DEF RecvNetData
  <2>2. /\ received' \in [Client -> Nat]
        /\ \A d \in Client : received[d] <= received'[d] /\ received'[d] <= arrived[d]
    BY <1>3, ReceiveKeeps DEF MessagesInv
  <2>3. taken \in [Client -> Nat] /\ received \in [Client -> Nat]
    BY DEF SocketsTypeOK
  <2>4. \A d \in Client : taken[d] <= received'[d]
    BY <2>2, <2>3 DEF MessagesInv, BuffersOK
  <2>5. BuffersOK'
    BY <2>1, <2>2, <2>4 DEF MessagesInv, BuffersOK
  <2>6. FramesAsSent'
    BY <2>1 DEF MessagesInv, FramesAsSent
  <2>. QED
    BY <2>5, <2>6 DEF MessagesInv
<1>4. ASSUME NEW c \in Client, HandMsg(c) PROVE MessagesInv'
  <2>1. UNCHANGED <<arrived, received>>
    BY <1>4 DEF HandMsg
  <2> DEFINE k == Len(handled[c])
             m == <<Behind(c, k), Behind(c, k + 1)>>
  <2>2. /\ k \in Nat /\ k < Len(FrameLen[c]) /\ k + 1 \in Frame(c)
        /\ handled' = [handled EXCEPT ![c] = Append(@, m)]
        /\ taken' = [taken EXCEPT ![c] = Behind(c, k + 1)]
        /\ Behind(c, k) \in Nat /\ Behind(c, k + 1) \in Nat
        /\ Behind(c, k + 1) <= received[c]
    BY <1>4, HandMsgKeeps DEF MessagesInv
  <2>3. handled[c] \in Seq(Nat \X Nat) /\ m \in Nat \X Nat
    BY <2>2 DEF SocketsTypeOK
  <2>4. Len(FrameLen[c]) \in Nat
    BY SocketsAssumption
  <2>5. handled'[c] = Append(handled[c], m) /\ \A d \in Client \ {c} : handled'[d] = handled[d]
    BY <2>2 DEF SocketsTypeOK
  <2>6. taken'[c] = Behind(c, k + 1) /\ \A d \in Client \ {c} : taken'[d] = taken[d]
    BY <2>2 DEF SocketsTypeOK
  <2>7. /\ Len(handled'[c]) = k + 1
        /\ \A i \in 1 .. k : handled'[c][i] = handled[c][i]
        /\ handled'[c][k + 1] = m
        /\ DOMAIN handled'[c] = 1 .. k + 1 /\ DOMAIN handled[c] = 1 .. k
    BY <2>3, <2>5, AppendProperties
  <2> HIDE DEF k, m
  <2>8. k + 1 <= Len(FrameLen[c])
    BY <2>2, <2>4
  <2>9. BuffersOK'
    <3> SUFFICES ASSUME NEW d \in Client
                 PROVE  /\ Len(handled'[d]) <= Len(FrameLen[d])
                        /\ taken'[d] = Behind(d, Len(handled'[d]))
                        /\ taken'[d] <= received[d] /\ received[d] <= arrived[d]
                        /\ arrived[d] <= Stream(d)
      BY <2>1 DEF BuffersOK
    <3>1. CASE d = c
      BY <2>2, <2>6, <2>7, <2>8, <3>1 DEF MessagesInv, BuffersOK
    <3>2. CASE d # c
      BY <2>5, <2>6, <3>2 DEF MessagesInv, BuffersOK
    <3>. QED
      BY <3>1, <3>2
  <2>10. FramesAsSent'
    <3> SUFFICES ASSUME NEW d \in Client, NEW i \in DOMAIN handled'[d]
                 PROVE  i \in Frame(d) /\ handled'[d][i] = <<Behind(d, i - 1), Behind(d, i)>>
      BY DEF FramesAsSent
    <3>1. CASE d # c
      BY <2>5, <3>1 DEF MessagesInv, FramesAsSent
    <3>2. CASE d = c /\ i = k + 1
      <4>1. (k + 1) - 1 = k
        BY <2>2
      <4>. QED
        BY <2>2, <2>7, <3>2, <4>1 DEF m
    <3>3. CASE d = c /\ i # k + 1
      <4>1. i \in 1 .. k
        BY <2>2, <2>7, <3>3
      <4>. QED
        BY <2>7, <3>3, <4>1 DEF MessagesInv, FramesAsSent
    <3>. QED
      BY <3>1, <3>2, <3>3
  <2>. QED
    BY <2>9, <2>10 DEF MessagesInv
<1>5. CASE Select \/ EndPass \/ Skip \/ Accept \/ AcceptFails \/ UNCHANGED vars
  BY <1>1, <1>5 DEF Select, EndPass, Skip, Accept, AcceptFails, vars, kernel, items
<1>6. ASSUME NEW c \in Client, Connect(c) \/ Close(c) \/ Read(c) \/ Input(c)
      PROVE  MessagesInv'
  BY <1>1, <1>6 DEF Connect, Close, Read, Input, kernel, items
<1>7. ASSUME NEW c \in Client, Incomplete(c) \/ HandUnknown(c) \/ Dies(c) PROVE MessagesInv'
  BY <1>1, <1>7 DEF Incomplete, HandUnknown, Dies, kernel, items
<1>. QED
  BY <1>2, <1>3, <1>4, <1>5, <1>6, <1>7 DEF Next, Main, InPutNotify
-----------------------------------------------------------------------------
(* The pass.  The poller that comes after another one. *)
LEMMA AfterIsNext ==
  ASSUME NEW a \in Nat, Address \subseteq Nat \ {0}
  PROVE  \/ After(a) = End /\ \A x \in Registered : ~(a < x)
         \/ /\ After(a) \in Registered /\ After(a) # End /\ a < After(a)
            /\ \A x \in Registered : a < x => After(a) <= x
<1> DEFINE later == {x \in Registered : x > a}
<1>1. Registered \subseteq Nat \ {0}
  BY DEF Registered
<1>2. CASE later = {}
  <2>1. After(a) = End
    BY <1>2 DEF After
  <2>. QED
    BY <1>1, <1>2, <2>1
<1>3. CASE later # {}
  <2>1. later \subseteq Nat
    BY <1>1
  <2>2. \E x \in later : \A y \in later : x <= y
    BY <1>3, <2>1, NatMin
  <2>3. After(a) = CHOOSE x \in later : \A y \in later : x <= y
    BY <1>3 DEF After
  <2>4. After(a) \in later /\ \A y \in later : After(a) <= y
    BY <2>2, <2>3
  <2>. QED
    BY <1>1, <2>4 DEF End
<1>. QED
  BY <1>2, <1>3

(* A new connection is queued behind the others.                           *)
LEMMA ConnectKeeps ==
  ASSUME PassInv, NEW c \in Client, Connect(c)
  PROVE  PassInv'
<1>1. /\ conn[c] = "new" /\ conn' = [conn EXCEPT ![c] = "queued"] /\ backlog' = Append(backlog, c)
      /\ UNCHANGED <<arrived, fin, poller, fd, received, taken, handled>>
      /\ UNCHANGED <<rd, pc, cur, it, iRecv, closed>>
  BY DEF Connect, items, loop
<1>2. \A d \in Client : Opened(d)' <=> Opened(d)
  BY <1>1 DEF PassInv, SocketsTypeOK, Opened
<1>3. backlog \in Seq(Client) /\ conn \in [Client -> {"new", "queued", "open", "closed"}]
  BY DEF PassInv, SocketsTypeOK
<1>4. /\ backlog' \in Seq(Client) /\ backlog' # <<>>
      /\ DOMAIN backlog' = 1 .. Len(backlog) + 1 /\ DOMAIN backlog = 1 .. Len(backlog)
      /\ Len(backlog) \in Nat /\ backlog'[Len(backlog) + 1] = c
      /\ \A i \in 1 .. Len(backlog) : backlog'[i] = backlog[i]
  BY <1>1, <1>3, AppendProperties
<1>10. SocketsTypeOK'
  BY <1>1, <1>2, <1>3, <1>4 DEF PassInv, SocketsTypeOK
<1>11. QueueOK'
  BY <1>1, <1>2, <1>3, <1>4 DEF PassInv, QueueOK
<1>12. PollersOK'
  BY <1>1, <1>2, <1>3, <1>4 DEF PassInv, PollersOK, Opened
<1>13. CurIsPast'
  BY <1>1, <1>2, <1>3, <1>4 DEF PassInv, CurIsPast, Opened
<1>14. BacklogWaits'
  BY <1>1, <1>2, <1>3, <1>4 DEF PassInv, BacklogWaits, InPass
<1>15. FdsOK'
  BY <1>1, <1>2, <1>3, <1>4 DEF PassInv, FdsOK, Opened
<1>16. NoDanglingIterator'
  BY <1>1, <1>2, <1>3, <1>4 DEF PassInv, NoDanglingIterator
<1>17. RdKnown'
  BY <1>1, <1>2, <1>3, <1>4 DEF PassInv, RdKnown, InPass
<1>18. YetToRead'
  BY <1>1, <1>2, <1>3, <1>4 DEF PassInv, YetToRead, InPass, ToRead
<1>19. RecvHasCause'
  BY <1>1, <1>2, <1>3, <1>4 DEF PassInv, RecvHasCause, ToRead
<1>. QED
  BY <1>10, <1>11, <1>12, <1>13, <1>14, <1>15, <1>16, <1>17, <1>18, <1>19 DEF PassInv

(* Bytes that arrive only give select() and recv() more to return.         *)
LEMMA ArriveKeeps ==
  ASSUME PassInv, NEW c \in Client, Arrive(c)
  PROVE  PassInv'
<1>1. /\ UNCHANGED <<conn, backlog, fin, poller, fd, received, taken, handled>>
      /\ UNCHANGED <<rd, pc, cur, it, iRecv, closed>>
  BY DEF Arrive, items, loop
<1>2. arrived' \in [Client -> Nat] /\ \A d \in Client : ToRead(d) => ToRead(d)'
  <2>1. PICK n \in 1 .. MaxSend : arrived' = [arrived EXCEPT ![c] = @ + n]
    BY DEF Arrive
  <2>2. n \in Nat /\ arrived \in [Client -> Nat] /\ received \in [Client -> Nat]
    BY SocketsAssumption DEF PassInv, SocketsTypeOK
  <2>. QED
    BY <1>1, <2>1, <2>2 DEF ToRead
<1>10. SocketsTypeOK'
  BY <1>1, <1>2 DEF PassInv, SocketsTypeOK
<1>11. QueueOK'
  BY <1>1, <1>2 DEF PassInv, QueueOK
<1>12. PollersOK'
  BY <1>1, <1>2 DEF PassInv, PollersOK, Opened
<1>13. CurIsPast'
  BY <1>1, <1>2 DEF PassInv, CurIsPast, Opened
<1>14. BacklogWaits'
  BY <1>1, <1>2 DEF PassInv, BacklogWaits, InPass
<1>15. FdsOK'
  BY <1>1, <1>2 DEF PassInv, FdsOK, Opened
<1>16. NoDanglingIterator'
  BY <1>1, <1>2 DEF PassInv, NoDanglingIterator
<1>17. RdKnown'
  BY <1>1, <1>2 DEF PassInv, RdKnown, InPass
<1>18. YetToRead'
  BY <1>1, <1>2 DEF PassInv, YetToRead, InPass, ToRead
<1>19. RecvHasCause'
  BY <1>1, <1>2 DEF PassInv, CurIsPast, RecvHasCause
<1>. QED
  BY <1>10, <1>11, <1>12, <1>13, <1>14, <1>15, <1>16, <1>17, <1>18, <1>19 DEF PassInv

(* And so does the end of a stream.                                        *)
LEMMA CloseKeeps ==
  ASSUME PassInv, NEW c \in Client, Close(c)
  PROVE  PassInv'
<1>1. /\ UNCHANGED <<conn, backlog, arrived, poller, fd, received, taken, handled>>
      /\ UNCHANGED <<rd, pc, cur, it, iRecv, closed>>
  BY DEF Close, items, loop
<1>2. fin' \subseteq Client /\ fin \subseteq fin' /\ \A d \in Client : ToRead(d)' <=> ToRead(d)
  BY <1>1 DEF Close, PassInv, SocketsTypeOK, ToRead
<1>10. SocketsTypeOK'
  BY <1>1, <1>2 DEF PassInv, SocketsTypeOK
<1>11. QueueOK'
  BY <1>1, <1>2 DEF PassInv, QueueOK
<1>12. PollersOK'
  BY <1>1, <1>2 DEF PassInv, PollersOK, Opened
<1>13. CurIsPast'
  BY <1>1, <1>2 DEF PassInv, CurIsPast, Opened
<1>14. BacklogWaits'
  BY <1>1, <1>2 DEF PassInv, BacklogWaits, InPass
<1>15. FdsOK'
  BY <1>1, <1>2 DEF PassInv, FdsOK, Opened
<1>16. NoDanglingIterator'
  BY <1>1, <1>2 DEF PassInv, NoDanglingIterator
<1>17. RdKnown'
  BY <1>1, <1>2 DEF PassInv, RdKnown, InPass
<1>18. YetToRead'
  BY <1>1, <1>2 DEF PassInv, YetToRead, InPass
<1>19. RecvHasCause'
  BY <1>1, <1>2 DEF PassInv, CurIsPast, RecvHasCause
<1>. QED
  BY <1>10, <1>11, <1>12, <1>13, <1>14, <1>15, <1>16, <1>17, <1>18, <1>19 DEF PassInv

(* At the end of a pass, and when the process dies, nothing is visited.    *)
LEMMA LeaveKeeps ==
  ASSUME PassInv, EndPass \/ \E c \in Client : Dies(c)
  PROVE  PassInv'
<1>1. /\ pc' \in {"select", "dead"} /\ (pc' = "select" => it = End)
      /\ UNCHANGED <<conn, backlog, arrived, fin, poller, fd, received, taken, handled>>
      /\ UNCHANGED <<rd, cur, it, iRecv, closed>>
  BY DEF EndPass, Dies, kernel, items
<1>10. SocketsTypeOK'
  BY <1>1 DEF PassInv, SocketsTypeOK
<1>11. QueueOK'
  BY <1>1 DEF PassInv, QueueOK
<1>12. PollersOK'
  BY <1>1 DEF PassInv, PollersOK, Opened
<1>13. CurIsPast'
  BY <1>1 DEF PassInv, CurIsPast, Opened
<1>14. BacklogWaits'
  BY <1>1 DEF PassInv, BacklogWaits, InPass
<1>15. FdsOK'
  BY <1>1 DEF PassInv, FdsOK, Opened
<1>16. NoDanglingIterator'
  BY <1>1 DEF PassInv, NoDanglingIterator
<1>17. RdKnown'
  BY <1>1 DEF PassInv, RdKnown, InPass
<1>18. YetToRead'
  BY <1>1 DEF PassInv, YetToRead, InPass, ToRead
<1>19. RecvHasCause'
  BY <1>1 DEF PassInv, RecvHasCause, ToRead
<1>. QED
  BY <1>10, <1>11, <1>12, <1>13, <1>14, <1>15, <1>16, <1>17, <1>18, <1>19 DEF PassInv

(* Between two recv() of one client the pass does not move.                *)
LEMMA FramesKeep ==
  ASSUME PassInv, pc = "frames", pc' \in {"frames", "recv", "pass"},
         pc' = "recv" => iRecv = RecvMax,
         taken' \in [Client -> Nat], handled' \in [Client -> Seq(Nat \X Nat)],
         UNCHANGED <<conn, backlog, arrived, fin, poller, fd, received>>,
         UNCHANGED <<rd, cur, it, iRecv, closed>>
  PROVE  PassInv'
<1>10. SocketsTypeOK'
  BY  DEF PassInv, SocketsTypeOK
<1>11. QueueOK'
  BY  DEF PassInv, QueueOK
<1>12. PollersOK'
  BY  DEF PassInv, PollersOK, Opened
<1>13. CurIsPast'
  BY  DEF PassInv, CurIsPast, Opened
<1>14. BacklogWaits'
  BY  DEF PassInv, BacklogWaits, InPass
<1>15. FdsOK'
  BY  DEF PassInv, FdsOK, Opened
<1>16. NoDanglingIterator'
  BY  DEF PassInv, NoDanglingIterator
<1>17. RdKnown'
  BY  DEF PassInv, RdKnown, InPass
<1>18. YetToRead'
  BY  DEF PassInv, YetToRead, InPass, ToRead
<1>19. RecvHasCause'
  BY  DEF PassInv, RecvHasCause, ToRead
<1>. QED
  BY <1>10, <1>11, <1>12, <1>13, <1>14, <1>15, <1>16, <1>17, <1>18, <1>19 DEF PassInv

(* The iterator goes on.                                                   *)
LEMMA SkipKeeps ==
  ASSUME PassInv, Skip
  PROVE  PassInv'
<1>1. /\ pc = "pass" /\ it # End /\ FdAt(it) \notin rd /\ it' = After(it)
      /\ UNCHANGED <<conn, backlog, arrived, fin, poller, fd, received, taken, handled>>
      /\ UNCHANGED <<rd, pc, cur, iRecv, closed>>
  BY DEF Skip, Step, kernel, items
<1>2. Address \subseteq Nat \ {0} /\ it \in Nat /\ ServerAt \in Address /\ it \in Address
  BY <1>1, SocketsAssumption DEF PassInv, SocketsTypeOK, End
<1>3. \/ it' = End
      \/ it' \in Registered /\ it' # End /\ it < it' /\ \A x \in Registered : it < x => it' <= x
  BY <1>1, <1>2, AfterIsNext
<1>4. it' = End \/ (it' \in Address /\ it' \in Nat /\ it < it' /\ poller[it'] # None)
  BY <1>2, <1>3 DEF Registered
<1>10. SocketsTypeOK'
  BY <1>1, <1>2, <1>4 DEF PassInv, SocketsTypeOK
<1>11. QueueOK'
  BY <1>1, <1>2, <1>4 DEF PassInv, QueueOK
<1>12. PollersOK'
  BY <1>1, <1>2, <1>4 DEF PassInv, PollersOK, Opened
<1>13. CurIsPast'
  BY <1>1, <1>2, <1>4 DEF PassInv, CurIsPast, Opened
<1>14. BacklogWaits'
  BY <1>1, <1>2, <1>4 DEF PassInv, BacklogWaits, InPass
<1>15. FdsOK'
  BY <1>1, <1>2, <1>4 DEF PassInv, FdsOK, Opened
<1>16. NoDanglingIterator'
  BY <1>1, <1>2, <1>4 DEF PassInv, NoDanglingIterator
<1>17. RdKnown'
  BY <1>1, <1>2, <1>4 DEF PassInv, RdKnown, InPass
<1>18. YetToRead'
  BY <1>1, <1>2, <1>4 DEF PassInv, YetToRead, InPass, ToRead
<1>19. RecvHasCause'
  BY <1>1, <1>2, <1>4 DEF PassInv, RecvHasCause, ToRead
<1>. QED
  BY <1>10, <1>11, <1>12, <1>13, <1>14, <1>15, <1>16, <1>17, <1>18, <1>19 DEF PassInv
(* select() reports what is readable, and the pass begins.                 *)
LEMMA SelectKeeps ==
  ASSUME PassInv, Select
  PROVE  PassInv'
<1>1. /\ pc = "select" /\ rd' = Readable /\ closed' = {} /\ pc' = "pass" /\ it' = After(End)
      /\ UNCHANGED <<conn, backlog, arrived, fin, poller, fd, received, taken, handled>>
      /\ UNCHANGED <<cur, iRecv>>
  BY DEF Select, kernel, items
<1>2. Address \subseteq Nat \ {0} /\ End \in Nat
  BY SocketsAssumption DEF End
<1>3. it' = End \/ it' \in Registered
  BY <1>1, <1>2, AfterIsNext
<1>4. it' = End \/ (it' \in Address /\ poller[it'] # None)
  BY <1>3 DEF Registered
<1>5. \A n \in Readable : \/ n = ListenFd /\ backlog # <<>>
                          \/ \E c \in Client : fd[c] = n /\ Opened(c) /\ (ToRead(c) \/ c \in fin)
  BY DEF Readable, Opened
<1>6. \A c \in Client : Opened(c) => fd[c] \in Nat /\ fd[c] # ListenFd
  BY DEF PassInv, FdsOK
<1>7. Readable \subseteq Nat
  BY <1>5, <1>6 DEF ListenFd
<1>8. ListenFd \in Readable => backlog # <<>>
  BY <1>5, <1>6
<1>9. \A c \in Client : fd[c] \in Readable /\ Opened(c) => ToRead(c) \/ c \in fin
  <2> SUFFICES ASSUME NEW c \in Client, fd[c] \in Readable, Opened(c) PROVE ToRead(c) \/ c \in fin
    OBVIOUS
  <2>1. PICK d \in Client : fd[d] = fd[c] /\ Opened(d) /\ (ToRead(d) \/ d \in fin)
    BY <1>5, <1>6
  <2>2. d = c
    BY <2>1 DEF PassInv, FdsOK
  <2>. QED
    BY <2>1, <2>2
<1>10. SocketsTypeOK'
  BY <1>1, <1>4, <1>7, <1>8 DEF PassInv, SocketsTypeOK
<1>11. QueueOK'
  BY <1>1, <1>4, <1>7, <1>8 DEF PassInv, QueueOK
<1>12. PollersOK'
  BY <1>1, <1>4, <1>7, <1>8 DEF PassInv, PollersOK, Opened
<1>13. CurIsPast'
  BY <1>1, <1>4, <1>7, <1>8 DEF PassInv, CurIsPast, Opened
<1>14. BacklogWaits'
  BY <1>1, <1>4, <1>7, <1>8 DEF PassInv, BacklogWaits, InPass
<1>15. FdsOK'
  BY <1>1, <1>4, <1>7, <1>8 DEF PassInv, FdsOK, Opened
<1>16. NoDanglingIterator'
  BY <1>1, <1>4, <1>7, <1>8 DEF PassInv, NoDanglingIterator
<1>17. RdKnown'
  BY <1>1, <1>5 DEF RdKnown
<1>18. YetToRead'
  <2> SUFFICES ASSUME NEW a \in Address, NEW c \in Client, poller[a] = c, fd[c] \in Readable
               PROVE  ToRead(c) \/ c \in fin
    BY <1>1 DEF YetToRead, ToRead
  <2>1. Opened(c)
    BY DEF PassInv, PollersOK
  <2>. QED
    BY <1>9, <2>1
<1>19. RecvHasCause'
  BY <1>1, <1>4, <1>7, <1>8 DEF PassInv, RecvHasCause, ToRead
<1>. QED
  BY <1>10, <1>11, <1>12, <1>13, <1>14, <1>15, <1>16, <1>17, <1>18, <1>19 DEF PassInv

(* The iterator leaves the poller before its handler runs.                 *)
LEMMA InputKeeps ==
  ASSUME PassInv, NEW c \in Client, Input(c)
  PROVE  PassInv'
<1>1. /\ pc = "pass" /\ it # End /\ poller[it] = c /\ fd[c] \in rd /\ it' = After(it)
      /\ pc' = "recv" /\ cur' = c /\ iRecv' = 0
      /\ UNCHANGED <<conn, backlog, arrived, fin, poller, fd, received, taken, handled>>
      /\ UNCHANGED <<rd, closed>>
  BY DEF Input, Step, kernel, items
<1>2. Address \subseteq Nat \ {0} /\ it \in Nat /\ ServerAt \in Address /\ it \in Address
  BY <1>1, SocketsAssumption DEF PassInv, SocketsTypeOK, End
<1>3. \/ it' = End
      \/ it' \in Registered /\ it' # End /\ it < it' /\ \A x \in Registered : it < x => it' <= x
  BY <1>1, <1>2, AfterIsNext
<1>4. it' = End \/ (it' \in Address /\ it' \in Nat /\ it < it' /\ poller[it'] # None)
  BY <1>2, <1>3 DEF Registered
<1>5. Opened(c) /\ \A a \in Address : poller[a] = c => a = it
  BY <1>1, <1>2 DEF PassInv, PollersOK
<1>6. fd[c] \in rd \ closed => ToRead(c) \/ c \in fin
  BY <1>1, <1>2 DEF PassInv, YetToRead, InPass
<1>10. SocketsTypeOK'
  BY <1>1, <1>2, <1>4, <1>5 DEF PassInv, SocketsTypeOK
<1>11. QueueOK'
  BY <1>1, <1>2, <1>4, <1>5 DEF PassInv, QueueOK
<1>12. PollersOK'
  BY <1>1, <1>2, <1>4, <1>5 DEF PassInv, PollersOK, Opened
<1>13. CurIsPast'
  BY <1>1, <1>2, <1>4, <1>5 DEF PassInv, CurIsPast, Opened
<1>14. BacklogWaits'
  BY <1>1, <1>2, <1>4, <1>5 DEF PassInv, BacklogWaits, InPass
<1>15. FdsOK'
  BY <1>1, <1>2, <1>4, <1>5 DEF PassInv, FdsOK, Opened
<1>16. NoDanglingIterator'
  BY <1>1, <1>2, <1>4, <1>5 DEF PassInv, NoDanglingIterator
<1>17. RdKnown'
  BY <1>1, <1>2, <1>4, <1>5 DEF PassInv, RdKnown, InPass
<1>18. YetToRead'
  <2> SUFFICES ASSUME it' # End, NEW a \in Address, NEW d \in Client, a >= it', poller[a] = d,
                      fd[d] \in rd \ closed
               PROVE  ToRead(d) \/ d \in fin
    BY <1>1 DEF YetToRead, ToRead
  <2>1. a >= it
    BY <1>2, <1>4
  <2>. QED
    BY <1>1, <2>1 DEF PassInv, YetToRead, InPass
<1>19. RecvHasCause'
  BY <1>1, <1>6 DEF RecvHasCause, ToRead
<1>. QED
  BY <1>10, <1>11, <1>12, <1>13, <1>14, <1>15, <1>16, <1>17, <1>18, <1>19 DEF PassInv

(* Whoever deletes itself has been left by the iterator.                   *)
LEMMA DeleteKeeps ==
  ASSUME PassInv, NEW c \in Client, pc \in {"recv", "frames"}, cur = c, Delete(c),
         UNCHANGED <<backlog, arrived, fin, received, taken, handled, rd, it, iRecv>>
  PROVE  PassInv'
<1>1. /\ poller' = [a \in Address |-> IF poller[a] = c THEN None ELSE poller[a]]
      /\ conn' = [conn EXCEPT ![c] = "closed"]
      /\ fd' = [fd EXCEPT ![c] = -1] /\ closed' = closed \cup {fd[c]}
      /\ pc' = "pass" /\ cur' = cur
  BY DEF Delete
<1>2. Opened(c) /\ \A a \in Address : poller[a] = c => it = End \/ a < it
  BY DEF PassInv, CurIsPast
<1>3. ~Opened(c)' /\ \A d \in Client \ {c} : (Opened(d)' <=> Opened(d)) /\ conn'[d] = conn[d]
  BY <1>1 DEF PassInv, SocketsTypeOK, Opened
<1>4. fd'[c] = -1 /\ fd[c] \in Nat /\ \A d \in Client \ {c} : fd'[d] = fd[d]
  BY <1>1, <1>2 DEF PassInv, SocketsTypeOK, FdsOK
<1>5. c # "server" /\ c # "wakeup" /\ c # None
  BY SocketsAssumption DEF None
<1>6. \A a \in Address : \/ poller[a] = c /\ poller'[a] = None
                         \/ poller[a] # c /\ poller'[a] = poller[a]
  BY <1>1
<1>7. Address \subseteq Nat \ {0} /\ ServerAt \in Address /\ None \notin Client
  BY SocketsAssumption DEF None
<1>8. it = End \/ (it \in Address /\ it \in Nat /\ poller[it] # c)
  <2>1. it = End \/ (it \in Address /\ it \in Nat)
    BY <1>7 DEF PassInv, SocketsTypeOK
  <2>. QED
    BY <1>2, <2>1
<1>10. SocketsTypeOK'
  <2>1. conn' \in [Client -> {"new", "queued", "open", "closed"}]
    BY <1>1 DEF PassInv, SocketsTypeOK
  <2>2. poller' \in [Address -> Client \cup {"server", "wakeup", None}]
    BY <1>1 DEF PassInv, SocketsTypeOK
  <2>3. fd' \in [Client -> Int]
    <3>1. fd \in [Client -> Int] /\ -1 \in Int
      BY DEF PassInv, SocketsTypeOK
    <3>. QED
      BY <1>1, <3>1
  <2>4. closed' \subseteq Int
    <3>1. closed \subseteq Int /\ fd[c] \in Int
      BY DEF PassInv, SocketsTypeOK
    <3>. QED
      BY <1>1, <3>1
  <2>. QED
    BY <1>1, <2>1, <2>2, <2>3, <2>4 DEF PassInv, SocketsTypeOK
<1>11. QueueOK'
  <2>1. \A i \in DOMAIN backlog : conn[backlog[i]] = "queued" /\ backlog[i] \in Client
    BY ElementOfSeq DEF PassInv, QueueOK, SocketsTypeOK
  <2>2. \A i \in DOMAIN backlog : backlog[i] # c
    BY <1>2, <2>1 DEF Opened
  <2>. QED
    BY <1>3, <2>1, <2>2 DEF PassInv, QueueOK
<1>12. PollersOK'
  <2>1. poller[ServerAt] = "server" /\ poller'[ServerAt] = "server"
    BY <1>5, <1>6, <1>7 DEF PassInv, PollersOK
  <2>2. \A a \in Address : poller'[a] = "server" => a = ServerAt
    BY <1>6 DEF PassInv, PollersOK, None
  <2>3. \A a \in Address : poller'[a] \in Client => poller'[a] = poller[a] /\ poller[a] # c
    BY <1>6, <1>7
  <2>4. \A a \in Address : poller'[a] \in Client => conn'[poller'[a]] = "open"
    BY <1>3, <2>3 DEF PassInv, PollersOK, Opened
  <2>5. \A a, b \in Address : poller'[a] \in Client /\ poller'[a] = poller'[b] => a = b
    BY <2>3 DEF PassInv, PollersOK
  <2>. QED
    BY <2>1, <2>2, <2>4, <2>5 DEF PollersOK, Opened
<1>13. CurIsPast'
  BY <1>1, <1>2, <1>3, <1>4, <1>5, <1>6, <1>7, <1>8 DEF PassInv, CurIsPast, Opened
<1>14. BacklogWaits'
  BY <1>1, <1>2, <1>3, <1>4, <1>5, <1>6, <1>7, <1>8 DEF PassInv, BacklogWaits, InPass
<1>15. FdsOK'
  BY <1>1, <1>2, <1>3, <1>4, <1>5, <1>6, <1>7, <1>8 DEF PassInv, FdsOK, Opened
<1>16. NoDanglingIterator'
  BY <1>1, <1>2, <1>3, <1>4, <1>5, <1>6, <1>7, <1>8 DEF PassInv, NoDanglingIterator
<1>17. RdKnown'
  BY <1>1, <1>2, <1>3, <1>4, <1>5, <1>6, <1>7, <1>8 DEF PassInv, RdKnown, InPass
<1>18. YetToRead'
  <2> SUFFICES ASSUME it # End, NEW a \in Address, NEW d \in Client, a >= it, poller'[a] = d,
                      fd'[d] \in rd \ closed'
               PROVE  ToRead(d) \/ d \in fin
    BY DEF YetToRead, ToRead
  <2>1. poller[a] = d /\ d # c
    BY <1>5, <1>6, <1>7
  <2>2. fd[d] \in rd \ closed
    BY <1>1, <1>4, <2>1
  <2>. QED
    BY <2>1, <2>2 DEF PassInv, YetToRead, InPass
<1>19. RecvHasCause'
  BY <1>1, <1>2, <1>3, <1>4, <1>5, <1>6, <1>7, <1>8 DEF PassInv, RecvHasCause, ToRead
<1>. QED
  BY <1>10, <1>11, <1>12, <1>13, <1>14, <1>15, <1>16, <1>17, <1>18, <1>19 DEF PassInv

(* What recv() returned is the client's whose handler runs.                *)
LEMMA RecvKeeps ==
  ASSUME PassInv, BuffersOK, NEW c \in Client, RecvNetData(c), ToRead(c)
  PROVE  PassInv'
<1>1. /\ pc = "recv" /\ cur = c /\ pc' = "frames"
      /\ UNCHANGED <<conn, backlog, arrived, fin, poller, fd, taken, handled>>
      /\ UNCHANGED <<rd, cur, it, closed>>
      /\ \A d \in Client \ {c} : received'[d] = received[d]
  BY DEF RecvNetData, PassInv, SocketsTypeOK
<1>2. received' \in [Client -> Nat] /\ iRecv' \in Nat
  BY ReceiveKeeps DEF PassInv
<1>3. Opened(c) /\ \A a \in Address : poller[a] = c => it = End \/ a < it
  BY <1>1 DEF PassInv, CurIsPast
<1>4. it = End \/ (it \in Nat /\ Address \subseteq Nat)
  BY SocketsAssumption DEF PassInv, SocketsTypeOK
<1>10. SocketsTypeOK'
  BY <1>1, <1>2, <1>3 DEF PassInv, SocketsTypeOK
<1>11. QueueOK'
  BY <1>1, <1>2, <1>3 DEF PassInv, QueueOK
<1>12. PollersOK'
  BY <1>1, <1>2, <1>3 DEF PassInv, PollersOK, Opened
<1>13. CurIsPast'
  BY <1>1, <1>2, <1>3 DEF PassInv, CurIsPast, Opened
<1>14. BacklogWaits'
  BY <1>1, <1>2, <1>3 DEF PassInv, BacklogWaits, InPass
<1>15. FdsOK'
  BY <1>1, <1>2, <1>3 DEF PassInv, FdsOK, Opened
<1>16. NoDanglingIterator'
  BY <1>1, <1>2, <1>3 DEF PassInv, NoDanglingIterator
<1>17. RdKnown'
  BY <1>1, <1>2, <1>3 DEF PassInv, RdKnown, InPass
<1>18. YetToRead'
  <2> SUFFICES ASSUME it # End, NEW a \in Address, NEW d \in Client, a >= it, poller[a] = d,
                      fd[d] \in rd \ closed
               PROVE  arrived[d] > received'[d] \/ d \in fin
    BY <1>1 DEF YetToRead, ToRead
  <2>1. d # c
    BY <1>3, <1>4
  <2>2. ToRead(d) \/ d \in fin
    BY <1>1 DEF PassInv, YetToRead, InPass
  <2>. QED
    BY <1>1, <2>1, <2>2 DEF ToRead
<1>19. RecvHasCause'
  BY <1>1, <1>2, <1>3 DEF PassInv, RecvHasCause, ToRead
<1>. QED
  BY <1>10, <1>11, <1>12, <1>13, <1>14, <1>15, <1>16, <1>17, <1>18, <1>19 DEF PassInv

(* A new item: at an address, and with a descriptor, of nobody else.       *)
(* The first of the queue leaves it. *)
LEMMA HeadLeaves ==
  ASSUME SocketsTypeOK, QueueOK, backlog # <<>>, backlog' = Tail(backlog),
         NEW s, conn' = [conn EXCEPT ![Head(backlog)] = s]
  PROVE  QueueOK'
<1> DEFINE c == Head(backlog)
<1>1. backlog \in Seq(Client) /\ conn \in [Client -> {"new", "queued", "open", "closed"}]
  BY DEF SocketsTypeOK
<1>2. /\ c \in Client /\ c = backlog[1]
      /\ Len(backlog) \in Nat \ {0} /\ DOMAIN backlog = 1 .. Len(backlog)
      /\ DOMAIN Tail(backlog) = 1 .. Len(backlog) - 1
      /\ \A i \in 1 .. Len(backlog) - 1 : Tail(backlog)[i] = backlog[i + 1]
  BY <1>1, HeadTailProperties
<1> HIDE DEF c
<1>3. \A d \in Client \ {c} : conn'[d] = conn[d]
  BY <1>1 DEF c
<1>4. \A i \in 1 .. Len(backlog) - 1 : i + 1 \in 1 .. Len(backlog) /\ i + 1 # 1
  BY <1>2
<1>5. \A i \in 1 .. Len(backlog) - 1 : Tail(backlog)[i] # c /\ Tail(backlog)[i] \in Client
  BY <1>1, <1>2, <1>4, ElementOfSeq DEF QueueOK
<1>6. \A i \in 1 .. Len(backlog) - 1 : conn'[Tail(backlog)[i]] = "queued"
  BY <1>2, <1>3, <1>4, <1>5 DEF QueueOK
<1>7. \A i, j \in 1 .. Len(backlog) - 1 : Tail(backlog)[i] = Tail(backlog)[j] => i = j
  <2> TAKE i, j \in 1 .. Len(backlog) - 1
  <2> HAVE Tail(backlog)[i] = Tail(backlog)[j]
  <2>1. backlog[i + 1] = backlog[j + 1]
    BY <1>2
  <2>2. i + 1 = j + 1
    BY <1>2, <1>4, <2>1 DEF QueueOK
  <2>. QED
    BY <2>2
<1>. QED
  BY <1>2, <1>6, <1>7 DEF QueueOK

LEMMA AcceptKeeps ==
  ASSUME PassInv, Accept
  PROVE  PassInv'
<1>1. /\ pc = "pass" /\ it # End /\ poller[it] = "server" /\ ListenFd \in rd /\ it' = After(it)
      /\ UNCHANGED <<arrived, fin, received, taken, handled, rd, pc, cur, iRecv, closed>>
  BY DEF Accept, Step
<1>2. Address \subseteq Nat \ {0} /\ it \in Nat /\ ServerAt \in Address /\ it \in Address
  BY <1>1, SocketsAssumption DEF PassInv, SocketsTypeOK, End
<1>3. it = ServerAt
  BY <1>1, <1>2 DEF PassInv, PollersOK
<1>4. backlog # <<>> /\ backlog \in Seq(Client)
  BY <1>1, <1>2, <1>3 DEF PassInv, BacklogWaits, InPass, SocketsTypeOK
<1>5. PICK c : c = Head(backlog)
  OBVIOUS
<1>6. /\ c \in Client /\ c = backlog[1] /\ Tail(backlog) \in Seq(Client)
      /\ Len(backlog) \in Nat \ {0} /\ DOMAIN backlog = 1 .. Len(backlog)
      /\ DOMAIN Tail(backlog) = 1 .. Len(backlog) - 1
      /\ \A i \in 1 .. Len(backlog) - 1 : Tail(backlog)[i] = backlog[i + 1]
  BY <1>4, <1>5, HeadTailProperties
<1>7. /\ backlog' = Tail(backlog) /\ conn' = [conn EXCEPT ![c] = "open"]
      /\ \E a \in Address \ Registered : poller' = [poller EXCEPT ![a] = c]
  BY <1>5 DEF Accept
<1>8. PICK at \in Address : poller[at] = None /\ poller' = [poller EXCEPT ![at] = c]
  BY <1>7 DEF Registered
<1>9. PICK n \in Nat \ {0} : /\ n \notin {ListenFd, WakeFd} \cup {fd[x] : x \in Client}
                             /\ fd' = [fd EXCEPT ![c] = n]
  <2>1. Cardinality(Client) + 2 \in Nat
    BY SocketsAssumption, FS_CardinalityType
  <2>2. 1 .. Cardinality(Client) + 2 \subseteq Nat \ {0}
    BY <2>1
  <2>. QED
    BY <1>5, <2>2 DEF Accept
<1>21. ~Opened(c) /\ conn[c] = "queued" /\ fd[c] = -1
  BY <1>6 DEF PassInv, QueueOK, FdsOK, Opened
<1>22. Opened(c)' /\ conn' \in [Client -> {"new", "queued", "open", "closed"}]
       /\ \A d \in Client \ {c} : (Opened(d)' <=> Opened(d)) /\ conn'[d] = conn[d]
  BY <1>6, <1>7 DEF PassInv, SocketsTypeOK, Opened
<1>23. fd'[c] = n /\ fd' \in [Client -> Int] /\ \A d \in Client \ {c} : fd'[d] = fd[d]
  BY <1>6, <1>9 DEF PassInv, SocketsTypeOK
<1>24. /\ poller'[at] = c /\ poller' \in [Address -> Client \cup {"server", "wakeup", None}]
       /\ \A a \in Address \ {at} : poller'[a] = poller[a]
  BY <1>6, <1>8 DEF PassInv, SocketsTypeOK
<1>25. \A a \in Address : poller[a] # c
  BY <1>6, <1>21 DEF PassInv, PollersOK
<1>26. c # "server" /\ c # "wakeup" /\ c # None
  BY <1>6, SocketsAssumption DEF None
<1>27. at # ServerAt
  BY <1>8 DEF PassInv, PollersOK, None
<1>28. \/ it' = End
       \/ it' \in Address /\ it' \in Nat /\ it < it' /\ poller[it'] # None
  <2>1. it' = End \/ (it' \in Registered /\ it < it')
    BY <1>1, <1>2, AfterIsNext
  <2>. QED
    BY <1>2, <2>1 DEF Registered
<1>29. n \notin rd \ closed
  <2>1. n # ListenFd /\ \A d \in Client : fd[d] # n
    BY <1>9
  <2>. QED
    BY <1>1, <2>1 DEF PassInv, RdKnown, InPass
<1>10. SocketsTypeOK'
  BY <1>1, <1>6, <1>7, <1>22, <1>23, <1>24, <1>28 DEF PassInv, SocketsTypeOK
<1>11. QueueOK'
  BY <1>4, <1>5, <1>7, HeadLeaves DEF PassInv
<1>12. PollersOK'
  BY <1>2, <1>21, <1>22, <1>24, <1>25, <1>26, <1>27 DEF PassInv, PollersOK
<1>13. CurIsPast'
  BY <1>1 DEF CurIsPast
<1>14. BacklogWaits'
  BY <1>1, <1>2, <1>3, <1>28 DEF BacklogWaits
<1>15. FdsOK'
  <2>1. \A d \in Client \ {c} : fd'[d] # n
    BY <1>9, <1>23
  <2>2. n \in Nat \ {ListenFd, WakeFd}
    BY <1>9
  <2>3. \A d \in Client : IF Opened(d)' THEN fd'[d] \in Nat \ {ListenFd, WakeFd} ELSE fd'[d] = -1
    BY <1>22, <1>23, <2>2 DEF PassInv, FdsOK
  <2>4. \A d, e \in Client : Opened(d)' /\ fd'[d] = fd'[e] => d = e
    BY <1>6, <1>22, <1>23, <2>1 DEF PassInv, FdsOK
  <2>. QED
    BY <2>3, <2>4 DEF FdsOK
<1>16. NoDanglingIterator'
  BY <1>24, <1>26, <1>28 DEF NoDanglingIterator
<1>17. RdKnown'
  <2> SUFFICES ASSUME NEW r \in rd \ closed PROVE r = ListenFd \/ \E d \in Client : fd'[d] = r
    BY <1>1 DEF RdKnown
  <2>1. r = ListenFd \/ \E d \in Client : fd[d] = r
    BY <1>1 DEF PassInv, RdKnown, InPass
  <2>2. r # -1
    BY DEF PassInv, SocketsTypeOK
  <2>. QED
    BY <1>21, <1>23, <2>1, <2>2
<1>18. YetToRead'
  <2> SUFFICES ASSUME it' # End, NEW a \in Address, NEW d \in Client, a >= it', poller'[a] = d,
                      fd'[d] \in rd \ closed
               PROVE  ToRead(d) \/ d \in fin
    BY <1>1 DEF YetToRead, ToRead
  <2>1. d # c
    BY <1>23, <1>29
  <2>2. poller[a] = d /\ fd[d] \in rd \ closed
    BY <1>23, <1>24, <2>1
  <2>3. a >= it
    BY <1>2, <1>28
  <2>. QED
    BY <1>1, <2>2, <2>3 DEF PassInv, YetToRead, InPass
<1>19. RecvHasCause'
  BY <1>1 DEF RecvHasCause
<1>. QED
  BY <1>10, <1>11, <1>12, <1>13, <1>14, <1>15, <1>16, <1>17, <1>18, <1>19 DEF PassInv
(* An accept() that fails may only drop the first of the queue.            *)
LEMMA AcceptFailsKeeps ==
  ASSUME PassInv, AcceptFails
  PROVE  PassInv'
<1>1. /\ pc = "pass" /\ it # End /\ poller[it] = "server" /\ ListenFd \in rd /\ it' = After(it)
      /\ UNCHANGED <<arrived, fin, poller, fd, received, taken, handled>>
      /\ UNCHANGED <<rd, pc, cur, iRecv, closed>>
  BY DEF AcceptFails, Step, items
<1>2. Address \subseteq Nat \ {0} /\ it \in Nat /\ ServerAt \in Address /\ it \in Address
  BY <1>1, SocketsAssumption DEF PassInv, SocketsTypeOK, End
<1>3. it = ServerAt
  BY <1>1, <1>2 DEF PassInv, PollersOK
<1>4. backlog # <<>> /\ backlog \in Seq(Client)
  BY <1>1, <1>2, <1>3 DEF PassInv, BacklogWaits, InPass, SocketsTypeOK
<1>5. Head(backlog) \in Client /\ Head(backlog) = backlog[1] /\ Tail(backlog) \in Seq(Client)
      /\ 1 \in DOMAIN backlog
  BY <1>4, HeadTailProperties
<1>8. /\ conn' \in [Client -> {"new", "queued", "open", "closed"}] /\ backlog' \in Seq(Client)
      /\ QueueOK' /\ \A c \in Client : Opened(c)' <=> Opened(c)
  <2>1. CASE UNCHANGED <<conn, backlog>>
    BY <2>1 DEF PassInv, SocketsTypeOK, QueueOK, Opened
  <2>2. CASE conn' = [conn EXCEPT ![Head(backlog)] = "closed"] /\ backlog' = Tail(backlog)
    <3>1. conn[Head(backlog)] = "queued"
      BY <1>5 DEF PassInv, QueueOK
    <3>2. QueueOK'
      BY <1>4, <2>2, HeadLeaves DEF PassInv
    <3>. QED
      BY <1>5, <2>2, <3>1, <3>2 DEF PassInv, SocketsTypeOK, Opened
  <2>. QED
    BY <2>1, <2>2 DEF AcceptFails
<1>9. \/ it' = End
      \/ it' \in Address /\ it' \in Nat /\ it < it' /\ poller[it'] # None
  <2>1. it' = End \/ (it' \in Registered /\ it < it')
    BY <1>1, <1>2, AfterIsNext
  <2>. QED
    BY <1>2, <2>1 DEF Registered
<1>10. SocketsTypeOK'
  BY <1>1, <1>8, <1>9 DEF PassInv, SocketsTypeOK
<1>12. PollersOK'
  BY <1>1, <1>8 DEF PassInv, PollersOK
<1>13. CurIsPast'
  BY <1>1 DEF CurIsPast
<1>14. BacklogWaits'
  BY <1>1, <1>2, <1>3, <1>9 DEF BacklogWaits
<1>15. FdsOK'
  BY <1>1, <1>8 DEF PassInv, FdsOK
<1>16. NoDanglingIterator'
  BY <1>1, <1>9 DEF NoDanglingIterator
<1>17. RdKnown'
  BY <1>1 DEF PassInv, RdKnown, InPass
<1>18. YetToRead'
  BY <1>1, <1>2, <1>9 DEF PassInv, YetToRead, InPass, ToRead
<1>19. RecvHasCause'
  BY <1>1 DEF RecvHasCause
<1>. QED
  BY <1>8, <1>10, <1>12, <1>13, <1>14, <1>15, <1>16, <1>17, <1>18, <1>19 DEF PassInv

LEMMA PassInit == Init => PassInv
<1> SUFFICES ASSUME Init PROVE PassInv
  OBVIOUS
<1>1. /\ poller = [a \in Address |-> CASE a = ServerAt -> "server"
                                       [] a = WakeUpAt -> "wakeup"
                                       [] OTHER -> None]
      /\ conn = [c \in Client |-> "new"] /\ backlog = <<>> /\ fd = [c \in Client |-> -1]
      /\ pc = "select" /\ it = End
  BY DEF Init
<1>2. SocketsTypeOK
  BY MessagesInit
<1>3. \A a \in Address : poller[a] \in {"server", "wakeup", None}
  BY <1>1
<1>4. QueueOK /\ CurIsPast /\ BacklogWaits /\ NoDanglingIterator
  BY <1>1 DEF QueueOK, CurIsPast, BacklogWaits, NoDanglingIterator, InPass
<1>5. PollersOK
  <2>1. poller[ServerAt] = "server" /\ \A a \in Address : poller[a] = "server" => a = ServerAt
    BY <1>1, SocketsAssumption DEF None
  <2>2. \A a \in Address : poller[a] \notin Client
    BY <1>3, SocketsAssumption DEF None
  <2>. QED
    BY <2>1, <2>2 DEF PollersOK
<1>6. FdsOK
  BY <1>1 DEF FdsOK, Opened
<1>7. RdKnown /\ YetToRead /\ RecvHasCause
  BY <1>1 DEF RdKnown, YetToRead, RecvHasCause, InPass
<1>. QED
  BY <1>2, <1>4, <1>5, <1>6, <1>7 DEF PassInv

LEMMA PassStep ==
  ASSUME PassInv, MessagesInv, [Next]_vars
  PROVE  PassInv'
<1>1. CASE Select \/ Skip \/ Accept \/ AcceptFails \/ EndPass
  BY <1>1, SelectKeeps, SkipKeeps, AcceptKeeps, AcceptFailsKeeps, LeaveKeeps
<1>2. ASSUME NEW c \in Client, Connect(c) \/ Arrive(c) \/ Close(c) PROVE PassInv'
  BY <1>2, ConnectKeeps, ArriveKeeps, CloseKeeps
<1>3. ASSUME NEW c \in Client, Input(c) \/ Dies(c) PROVE PassInv'
  BY <1>3, InputKeeps, LeaveKeeps
<1>4. ASSUME NEW c \in Client, RecvNetData(c) PROVE PassInv'
  <2>1. CASE ToRead(c)
    BY <1>4, <2>1, RecvKeeps DEF MessagesInv
  <2>2. CASE ~ToRead(c)
    <3>1. /\ pc \in {"recv", "frames"} /\ cur = c /\ Delete(c)
          /\ UNCHANGED <<backlog, arrived, fin, received, taken, handled, rd, it, iRecv>>
      BY <1>4, <2>2 DEF RecvNetData
    <3>. QED
      BY <3>1, DeleteKeeps
  <2>. QED
    BY <2>1, <2>2
<1>5. ASSUME NEW c \in Client, HandUnknown(c) PROVE PassInv'
  <2>1. /\ pc \in {"recv", "frames"} /\ cur = c /\ Delete(c)
        /\ UNCHANGED <<backlog, arrived, fin, received, taken, handled, rd, it, iRecv>>
    BY <1>5 DEF HandUnknown
  <2>. QED
    BY <2>1, DeleteKeeps
<1>6. ASSUME NEW c \in Client, Incomplete(c) PROVE PassInv'
  <2>1. /\ pc = "frames" /\ pc' \in {"frames", "recv", "pass"}
        /\ pc' = "recv" => iRecv = RecvMax
        /\ UNCHANGED <<conn, backlog, arrived, fin, poller, fd, received, taken, handled>>
        /\ UNCHANGED <<rd, cur, it, iRecv, closed>>
    BY <1>6 DEF Incomplete, RecvAgain, kernel, items
  <2>2. taken' \in [Client -> Nat] /\ handled' \in [Client -> Seq(Nat \X Nat)]
    BY <2>1 DEF PassInv, SocketsTypeOK
  <2>. QED
    BY <2>1, <2>2, FramesKeep
<1>7. ASSUME NEW c \in Client, HandMsg(c) PROVE PassInv'
  <2>1. /\ pc = "frames" /\ pc' \in {"frames", "recv", "pass"}
        /\ pc' = "recv" => iRecv = RecvMax
        /\ UNCHANGED <<conn, backlog, arrived, fin, poller, fd, received>>
        /\ UNCHANGED <<rd, cur, it, iRecv, closed>>
    BY <1>7 DEF HandMsg, GoOn, RecvAgain
  <2>2. PICK m \in Nat \X Nat, t \in Nat :
           /\ handled' = [handled EXCEPT ![c] = Append(@, m)] /\ taken' = [taken EXCEPT ![c] = t]
    BY <1>7, HandMsgKeeps DEF PassInv, MessagesInv
  <2>3. taken' \in [Client -> Nat]
    BY <2>2 DEF PassInv, SocketsTypeOK
  <2>4. handled' \in [Client -> Seq(Nat \X Nat)]
    <3>1. handled \in [Client -> Seq(Nat \X Nat)] /\ Append(handled[c], m) \in Seq(Nat \X Nat)
      BY <2>2, AppendProperties DEF PassInv, SocketsTypeOK
    <3>. QED
      BY <2>2, <3>1
  <2>. QED
    BY <2>1, <2>3, <2>4, FramesKeep
<1>8. CASE UNCHANGED vars \/ \E c \in Client : Read(c)
  <2>1. /\ UNCHANGED <<conn, backlog, arrived, fin, poller, fd, received, taken, handled>>
        /\ UNCHANGED <<rd, pc, cur, it, iRecv, closed>>
    BY <1>8 DEF Read, vars, kernel, items, loop
  <2>2. (SocketsTypeOK /\ QueueOK /\ PollersOK /\ CurIsPast)'
    BY <2>1 DEF PassInv, SocketsTypeOK, QueueOK, PollersOK, CurIsPast, Opened
  <2>3. (BacklogWaits /\ FdsOK /\ NoDanglingIterator /\ RdKnown)'
    BY <2>1 DEF PassInv, BacklogWaits, FdsOK, NoDanglingIterator, RdKnown, InPass, Opened
  <2>4. (YetToRead /\ RecvHasCause)'
    BY <2>1 DEF PassInv, YetToRead, RecvHasCause, InPass, ToRead
  <2>. QED
    BY <2>2, <2>3, <2>4 DEF PassInv
<1>. QED
  BY <1>1, <1>2, <1>3, <1>4, <1>5, <1>6, <1>7, <1>8 DEF Next, Main, InPutNotify

(* A connection holds no more answers than it has room for, and none that  *)
(* no message of its client called for.                                    *)
LEMMA AnswersStep ==
  ASSUME SocketsTypeOK, AnswersInv, [Next]_vars
  PROVE  AnswersInv'
<1>1. CASE UNCHANGED <<unread, handled>>
  BY <1>1 DEF AnswersInv
<1>2. ASSUME NEW c \in Client, Read(c) PROVE AnswersInv'
  <2>1. unread' = [unread EXCEPT ![c] = @ - 1] /\ unread[c] > 0 /\ handled' = handled
    BY <1>2 DEF Read, items
  <2>2. \A d \in Client : Len(handled[d]) \in Nat
    BY DEF SocketsTypeOK
  <2>. QED
    BY <2>1, <2>2, SocketsAssumption DEF AnswersInv
<1>3. ASSUME NEW c \in Client, HandMsg(c) PROVE AnswersInv'
  <2>1. PICK m : handled' = [handled EXCEPT ![c] = Append(@, m)]
    BY <1>3 DEF HandMsg
  <2>2. handled[c] \in Seq(Nat \X Nat)
    BY DEF SocketsTypeOK
  <2>3. Len(handled[c]) \in Nat /\ Len(handled'[c]) = Len(handled[c]) + 1
    BY <2>1, <2>2 DEF SocketsTypeOK
  <2>4. \A d \in Client \ {c} : handled'[d] = handled[d]
    BY <2>1 DEF SocketsTypeOK
  <2>5. \/ unread[c] < SendMax /\ unread' = [unread EXCEPT ![c] = @ + 1]
        \/ UNCHANGED unread
    BY <1>3 DEF HandMsg, SendData
  <2>6. \A d \in Client :
          unread'[d] \in Nat /\ unread'[d] <= SendMax /\ unread'[d] <= Len(handled'[d])
    <3>1. ASSUME NEW d \in Client \ {c}
          PROVE  unread'[d] \in Nat /\ unread'[d] <= SendMax /\ unread'[d] <= Len(handled'[d])
      BY <2>4, <2>5 DEF AnswersInv
    <3>2. unread'[c] \in Nat /\ unread'[c] <= SendMax /\ unread'[c] <= Len(handled'[c])
      BY <2>3, <2>5, SocketsAssumption DEF AnswersInv
    <3>. QED
      BY <3>1, <3>2
  <2>7. unread' \in [Client -> Nat]
    BY <2>5 DEF AnswersInv
  <2>. QED
    BY <2>6, <2>7 DEF AnswersInv
<1>4. CASE Select \/ EndPass \/ Skip \/ Accept \/ AcceptFails \/ UNCHANGED vars
  BY <1>1, <1>4 DEF Select, EndPass, Skip, Accept, AcceptFails, vars, kernel, items
<1>5. ASSUME NEW c \in Client,
             \/ Connect(c) \/ Arrive(c) \/ Close(c) \/ Input(c) \/ RecvNetData(c)
             \/ Incomplete(c) \/ HandUnknown(c) \/ Dies(c)
      PROVE  AnswersInv'
  BY <1>1, <1>5 DEF Connect, Arrive, Close, Input, RecvNetData, Incomplete, HandUnknown, Dies,
       kernel, items
<1>. QED
  BY <1>2, <1>3, <1>4, <1>5 DEF Next, Main, InPutNotify

LEMMA SocketsInvariant == Spec => [](PassInv /\ MessagesInv /\ AnswersInv)
<1>1. Init => PassInv /\ MessagesInv /\ AnswersInv
  BY PassInit, MessagesInit, SocketsAssumption DEF Init, AnswersInv
<1>2. PassInv /\ MessagesInv /\ AnswersInv /\ [Next]_vars
        => (PassInv /\ MessagesInv /\ AnswersInv)'
  <2>1. PassInv => SocketsTypeOK
    BY DEF PassInv
  <2>. QED
    BY <2>1, PassStep, MessagesStep, AnswersStep
<1>. QED
  BY <1>1, <1>2, PTL DEF Spec
-----------------------------------------------------------------------------
(* CTcpSocketItem::InPutNotify() hands on the messages of each client as   *)
(* it sent them: whole, in order, each once, however recv() cuts the       *)
(* stream of bytes into pieces.                                            *)
THEOREM MessagesAreHandedOn == Spec => []FramesAsSent
<1>1. PassInv /\ MessagesInv /\ AnswersInv => FramesAsSent
  BY DEF MessagesInv
<1>. QED
  BY <1>1, SocketsInvariant, PTL

(* CPollerUnit::Wait() never visits a poller that is gone, wherever the    *)
(* new items lie and whichever connections delete themselves in the pass.  *)
THEOREM TheIteratorIsGood == Spec => []NoDanglingIterator
<1>1. PassInv /\ MessagesInv /\ AnswersInv => NoDanglingIterator
  BY DEF PassInv
<1>. QED
  BY <1>1, SocketsInvariant, PTL

(* The main thread waits for a client, and all others with it, in recv()   *)
(* after a read of MAX_RECV_BUFF bytes or on a descriptor closed and given *)
(* again in the same pass, in send() to one that reads no answers, having  *)
(* sent as many messages as its connection holds, and at no other time.    *)
THEOREM TheMainThreadIsHeldUpByThree == Spec => []HeldUpOnlyBy
<1>1. PassInv /\ MessagesInv /\ AnswersInv => HeldUpOnlyBy
  <2> SUFFICES ASSUME PassInv, AnswersInv, NEW c \in Client, HeldUpBy(c)
               PROVE  \/ pc = "recv" /\ (iRecv = RecvMax \/ fd[c] \in closed)
                      \/ pc = "frames" /\ unread[c] = SendMax /\ Len(handled[c]) >= SendMax
    BY DEF HeldUpOnlyBy
  <2>1. CASE WaitsToRecv(c)
    BY <2>1 DEF WaitsToRecv, PassInv, RecvHasCause
  <2>2. CASE WaitsToSend(c)
    <3>1. unread[c] \in Nat /\ SendMax \in Nat
      BY SocketsAssumption DEF AnswersInv
    <3>2. unread[c] <= SendMax /\ unread[c] <= Len(handled[c]) /\ unread[c] >= SendMax
      BY <2>2 DEF WaitsToSend, AnswersInv
    <3>. QED
      BY <2>2, <3>1, <3>2 DEF WaitsToSend
  <2>. QED
    BY <2>1, <2>2 DEF HeldUpBy
<1>. QED
  BY <1>1, SocketsInvariant, PTL
=============================================================================
