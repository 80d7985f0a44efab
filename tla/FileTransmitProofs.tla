-------------------------- MODULE FileTransmitProofs --------------------------
(***************************************************************************)
(* For any clients, files and faults: the service never loses count of the *)
(* bytes an upload still expects, and leaks exactly the descriptors of the *)
(* uploads that another one replaced; a client is told of a success        *)
(* exactly when its own whole file was unpacked, and of a failure only     *)
(* for a cause.                                                            *)
(***************************************************************************)
EXTENDS FileTransmit, FiniteSetTheorems, SequenceTheorems, TLAPS

(* The properties are inductive together.                                  *)
IInv == TypeOK /\ SizeAccounts /\ LeakAccounted

(* A client's file is a byte string of its length. *)
LEMMA WholeType ==
  ASSUME NEW c \in Client
  PROVE  Whole(c) \in Seq(Bytes) /\ Len(Whole(c)) = FileLen[c]
<1>1. FileLen[c] \in Nat
  BY TransmitAssumption DEF TransmitAssumption
<1>2. \A i \in 1 .. FileLen[c] : <<c, i>> \in Bytes
  BY DEF Bytes
<1>3. Whole(c) \in [1 .. FileLen[c] -> Bytes]
  BY <1>2 DEF Whole
<1>. QED
  BY <1>1, <1>3

(* A part of a byte string is one. *)
LEMMA PartType ==
  ASSUME NEW S, NEW s \in Seq(S), NEW m \in Nat \ {0}, NEW n \in 0 .. Len(s)
  PROVE  SubSeq(s, m, n) \in Seq(S)
<1>. SUFFICES ASSUME m <= n PROVE SubSeq(s, m, n) \in Seq(S)
  BY SubSeqProperties
<1>. QED
  BY SubSeqProperties

(* The first n bytes are n. *)
LEMMA PrefixLength ==
  ASSUME NEW S, NEW s \in Seq(S), NEW n \in 0 .. Len(s)
  PROVE  SubSeq(s, 1, n) \in Seq(S) /\ Len(SubSeq(s, 1, n)) = n
BY SubSeqProperties

(* The messages are messages. *)
LEMMA MessageTypes ==
  /\ Start \in Message /\ Failer \in Message
  /\ \A d \in Seq(Bytes) : Comment(d) \in Message
  /\ \A m \in Message : m.type = "COMMENT" => m.data \in Seq(Bytes)
  /\ \A r \in Int : /\ Answer("START", r) \in AnswerSet
                    /\ Answer("COMMENT", r) \in AnswerSet
BY DEF Start, Failer, Comment, Answer, Message, AnswerSet

(* What a handler takes from and puts on a connection is typed. *)
LEMMA ReceiveType ==
  ASSUME TypeOK, NEW c \in Client, Receive(c)
  PROVE  up' \in [Client -> Seq(Message)] /\ Head(up[c]) \in Message
<1>1. up \in [Client -> Seq(Message)] /\ up[c] \in Seq(Message) /\ up[c] # <<>>
  BY DEF TypeOK, Receive
<1>2. Tail(up[c]) \in Seq(Message) /\ Head(up[c]) \in Message
  BY <1>1
<1>. QED
  BY <1>1, <1>2 DEF Receive

LEMMA ReplyType ==
  ASSUME TypeOK, NEW c \in Client, NEW a \in AnswerSet, Reply(c, a)
  PROVE  down' \in [Client -> Seq(AnswerSet)]
<1>1. down \in [Client -> Seq(AnswerSet)] /\ down[c] \in Seq(AnswerSet)
  BY DEF TypeOK
<1>2. Append(down[c], a) \in Seq(AnswerSet)
  BY <1>1
<1>. QED
  BY <1>1, <1>2 DEF Reply

LEMMA SendMsgType ==
  ASSUME TypeOK, NEW c \in Client, NEW m \in Message, SendMsg(c, m)
  PROVE  up' \in [Client -> Seq(Message)]
<1>1. up \in [Client -> Seq(Message)] /\ up[c] \in Seq(Message)
  BY DEF TypeOK
<1>2. Append(up[c], m) \in Seq(Message)
  BY <1>1
<1>. QED
  BY <1>1, <1>2 DEF SendMsg

LEMMA SendFileType ==
  ASSUME TypeOK, NEW c \in Client, NEW from \in 0 .. FileLen[c], SendFile(c, from)
  PROVE  /\ up' \in [Client -> Seq(Message)]
         /\ pos' \in [Client -> Nat] /\ \A x \in Client : pos'[x] <= FileLen[x]
<1>1. FileLen[c] \in Nat /\ ChunkSize \in Nat /\ from \in Nat
  BY TransmitAssumption DEF TransmitAssumption
<1>2. ChunkEnd(c, from) \in 0 .. FileLen[c]
  BY <1>1 DEF ChunkEnd
<1>3. SubSeq(Whole(c), from + 1, ChunkEnd(c, from)) \in Seq(Bytes)
  <2>1. ChunkEnd(c, from) \in 0 .. Len(Whole(c)) /\ from + 1 \in Nat \ {0}
    BY <1>1, <1>2, WholeType
  <2>. HIDE DEF ChunkEnd, Whole
  <2>. QED
    BY <2>1, WholeType, PartType
<1>4. up' \in [Client -> Seq(Message)]
  BY <1>3, MessageTypes, SendMsgType DEF SendFile
<1>5. pos' = [pos EXCEPT ![c] = ChunkEnd(c, from)]
  BY DEF SendFile
<1>6. pos \in [Client -> Nat] /\ \A x \in Client : pos[x] <= FileLen[x]
  BY DEF TypeOK
<1>7. ChunkEnd(c, from) \in Nat /\ ChunkEnd(c, from) <= FileLen[c]
  BY <1>1, <1>2
<1>. HIDE DEF ChunkEnd
<1>. QED
  BY <1>4, <1>5, <1>6, <1>7

(* Closing the file keeps the account of the descriptors. *)
LEMMA CloseFileResult ==
  ASSUME IInv, CloseFile
  PROVE  /\ open' \subseteq 0 .. MaxFd /\ m_file_fd' = -1 /\ file' = None
         /\ Cardinality(open' \ {0, m_file_fd'}) = superseded
<1>1. /\ open \subseteq 0 .. MaxFd /\ MaxFd \in Nat
      /\ open' = open \ {m_file_fd} /\ m_file_fd' = -1 /\ file' = None
  BY TransmitAssumption DEF IInv, TypeOK, CloseFile, TransmitAssumption
<1>2. open' \ {0, m_file_fd'} = open \ {0, m_file_fd}
  BY <1>1
<1>. QED
  BY <1>1, <1>2 DEF IInv, LeakAccounted

(* The account of the descriptors at a START. *)
LEMMA OpenResult ==
  ASSUME IInv, OpenFails \/ \E fd \in 0 .. MaxFd : OpenSucceeds(fd)
  PROVE  /\ open' \subseteq 0 .. MaxFd /\ m_file_fd' \in -1 .. MaxFd
         /\ m_file_fd' > 0 => m_file_fd' \in open' /\ file' = <<>>
         /\ file' = file \/ file' = <<>>
         /\ faults' \in Nat
         /\ Cardinality(open' \ {0, m_file_fd'})
              = IF m_file_fd > 0 THEN superseded + 1 ELSE superseded
<1>1. /\ open \subseteq 0 .. MaxFd /\ MaxFd \in Nat /\ faults \in Nat
      /\ m_file_fd \in -1 .. MaxFd
      /\ m_file_fd > 0 => m_file_fd \in open
      /\ Cardinality(open \ {0, m_file_fd}) = superseded
  BY TransmitAssumption
  DEF IInv, TypeOK, SizeAccounts, LeakAccounted, TransmitAssumption
<1>2. IsFiniteSet(open \ {0, m_file_fd})
  <2>1. IsFiniteSet(0 .. MaxFd)
    BY <1>1, FS_Interval
  <2>. QED
    BY <1>1, <2>1, FS_Subset
<1>3. Cardinality(open \ {0})
        = IF m_file_fd > 0 THEN superseded + 1 ELSE superseded
  <2>1. CASE m_file_fd > 0
    <3>1. open \ {0} = (open \ {0, m_file_fd}) \cup {m_file_fd}
      BY <1>1, <2>1
    <3>. QED
      BY <1>1, <1>2, <2>1, <3>1, FS_AddElement
  <2>2. CASE ~(m_file_fd > 0)
    <3>1. open \ {0} = open \ {0, m_file_fd}
      BY <1>1, <2>2
    <3>. QED
      BY <1>1, <2>2, <3>1
  <2>. QED
    BY <2>1, <2>2
<1>4. CASE OpenFails
  <2>1. open' \ {0, m_file_fd'} = open \ {0}
    BY <1>1, <1>4 DEF OpenFails
  <2>2. faults' \in Nat
    BY <1>1, <1>4 DEF OpenFails, Fault
  <2>3. m_file_fd' = -1 /\ open' = open /\ file' = file
    BY <1>4 DEF OpenFails
  <2>. QED
    BY <1>1, <1>3, <2>1, <2>2, <2>3
<1>5. ASSUME NEW fd \in 0 .. MaxFd, OpenSucceeds(fd)
      PROVE  /\ open' \subseteq 0 .. MaxFd /\ m_file_fd' \in -1 .. MaxFd
             /\ m_file_fd' \in open' /\ file' = <<>>
             /\ faults' \in Nat
             /\ open' \ {0, m_file_fd'} = open \ {0}
  BY <1>1, <1>5 DEF OpenSucceeds, LowestFree
<1>. QED
  BY <1>3, <1>4, <1>5

LEMMA StartKeeps ==
  ASSUME IInv, NEW c \in Client, TransmitStart(c)
  PROVE  IInv'
<1>1. TypeOK /\ FileLen[c] \in Nat
  BY TransmitAssumption DEF IInv, TransmitAssumption
<1>2. up' \in [Client -> Seq(Message)]
  BY <1>1, ReceiveType DEF TransmitStart
<1>3. down' \in [Client -> Seq(AnswerSet)]
  <2>1. Answer("START", IF m_file_fd' <= 0 THEN -1 ELSE 0) \in AnswerSet
    BY MessageTypes
  <2>. QED
    BY <1>1, <2>1, ReplyType DEF TransmitStart
<1>4. /\ open' \subseteq 0 .. MaxFd /\ m_file_fd' \in -1 .. MaxFd
      /\ m_file_fd' > 0 => m_file_fd' \in open' /\ file' = <<>>
      /\ file' = file \/ file' = <<>>
      /\ faults' \in Nat
      /\ Cardinality(open' \ {0, m_file_fd'}) = superseded'
      /\ superseded' \in Nat
  <2>1. superseded' = IF m_file_fd > 0 THEN superseded + 1 ELSE superseded
    BY DEF TransmitStart
  <2>2. superseded \in Nat
    BY <1>1 DEF TypeOK
  <2>. QED
    BY <2>1, <2>2, OpenResult DEF TransmitStart
<1>5. /\ m_file_size' = FileLen[c] /\ m_str_file_md5' = c
      /\ disturbed' = Client \ {c}
      /\ UNCHANGED <<client, clicks, unpacked, impatient, earlyCancels>>
  BY DEF TransmitStart
<1>6. file' = None \/ file' \in Seq(Bytes)
  <2>1. <<>> \in Seq(Bytes)
    OBVIOUS
  <2>. QED
    BY <1>1, <1>4, <2>1 DEF TypeOK
<1>7. TypeOK'
  <2>1. m_file_size' \in Int /\ m_str_file_md5' \in Client \cup {None}
    BY <1>1, <1>5
  <2>2. disturbed' \subseteq Client
    BY <1>5
  <2>3. UNCHANGED <<phase, pos, outcome, successes, clicks, unpacked, impatient,
                    earlyCancels>>
    BY <1>5 DEF client
  <2>. QED
    BY <1>1, <1>2, <1>3, <1>4, <1>6, <2>1, <2>2, <2>3 DEF TypeOK, unpacked
<1>8. SizeAccounts'
  <2>. SUFFICES ASSUME m_file_fd' > 0
                PROVE  /\ m_file_fd' \in open' /\ file' # None
                       /\ m_file_size' + Len(file') = FileLen[m_str_file_md5']
    BY DEF SizeAccounts
  <2>1. m_file_fd' \in open' /\ file' = <<>>
    BY <1>4
  <2>2. file' # None
    <3>1. <<>> \in Seq(Bytes)
      OBVIOUS
    <3>. QED
      BY <2>1, <3>1, TransmitAssumption DEF TransmitAssumption
  <2>3. Len(file') = 0
    BY <2>1
  <2>. QED
    BY <1>1, <1>5, <2>1, <2>2, <2>3
<1>9. LeakAccounted'
  BY <1>4 DEF LeakAccounted
<1>. QED
  BY <1>7, <1>8, <1>9 DEF IInv

(* The file stays a byte string when part of a chunk is written to it. *)
LEMMA AppendPart ==
  ASSUME NEW S, NEW f \in Seq(S), NEW d \in Seq(S), NEW n \in 0 .. Len(d)
  PROVE  /\ f \o SubSeq(d, 1, n) \in Seq(S)
         /\ Len(f \o SubSeq(d, 1, n)) = Len(f) + n
<1>. DEFINE part == SubSeq(d, 1, n)
<1>1. part \in Seq(S) /\ Len(part) = n
  BY PrefixLength
<1>. HIDE DEF part
<1>2. f \o part \in Seq(S) /\ Len(f \o part) = Len(f) + n
  BY <1>1, ConcatProperties
<1>. QED
  BY <1>2 DEF part

(* What one write() of an open upload does to it. *)
LEMMA WrittenResult ==
  ASSUME IInv, NEW c \in Client, NEW d \in Seq(Bytes), NEW n \in 0 .. Len(d),
         m_file_fd > 0, Written(d, n, c), m_str_file_md5' = m_str_file_md5
  PROVE  /\ open' \subseteq 0 .. MaxFd /\ m_file_fd' \in -1 .. MaxFd
         /\ m_file_size' \in Int
         /\ file' = None \/ file' \in Seq(Bytes)
         /\ down' \in [Client -> Seq(AnswerSet)]
         /\ installed' \in [Client -> Nat] /\ failedInstalls' \in [Client -> Nat]
         /\ SizeAccounts'
         /\ Cardinality(open' \ {0, m_file_fd'}) = superseded
<1>. DEFINE content == file \o SubSeq(d, 1, n)
<1>1. /\ TypeOK /\ file \in Seq(Bytes) /\ n \in Nat
      /\ m_file_fd \in open /\ m_file_size \in Int
      /\ m_file_size + Len(file) = FileLen[m_str_file_md5]
      /\ m_file_size' = m_file_size - n
      /\ MaxFd \in Nat
  <2>1. TypeOK /\ MaxFd \in Nat
    BY TransmitAssumption DEF TransmitAssumption, IInv
  <2>2. /\ m_file_fd \in open /\ file # None
        /\ m_file_size + Len(file) = FileLen[m_str_file_md5]
    BY DEF IInv, SizeAccounts
  <2>3. file \in Seq(Bytes) /\ m_file_size \in Int
    BY <2>1, <2>2 DEF TypeOK
  <2>4. m_file_size' = m_file_size - n
    BY DEF Written
  <2>. QED
    BY <2>1, <2>2, <2>3, <2>4
<1>2. content \in Seq(Bytes) /\ Len(content) = Len(file) + n
  <2>1. file \in Seq(Bytes)
    BY <1>1
  <2>. QED
    BY <2>1, AppendPart
<1>3. content # None
  BY <1>2, TransmitAssumption DEF TransmitAssumption
<1>. HIDE DEF content
<1>4. ASSUME NEW r \in Int, Reply(c, Answer("COMMENT", r))
      PROVE  down' \in [Client -> Seq(AnswerSet)]
  BY <1>1, <1>4, MessageTypes, ReplyType
<1>5. installed \in [Client -> Nat] /\ failedInstalls \in [Client -> Nat]
  BY <1>1 DEF TypeOK
<1>6. CASE n = 0 /\ CloseFile /\ Reply(c, Answer("COMMENT", -1)) /\ UNCHANGED unpacked
  <2>1. /\ down' \in [Client -> Seq(AnswerSet)]
        /\ installed' \in [Client -> Nat] /\ failedInstalls' \in [Client -> Nat]
    BY <1>4, <1>5, <1>6 DEF unpacked
  <2>2. /\ open' \subseteq 0 .. MaxFd /\ m_file_fd' = -1 /\ file' = None
        /\ Cardinality(open' \ {0, m_file_fd'}) = superseded
    BY <1>6, CloseFileResult
  <2>. QED
    BY <1>1, <2>1, <2>2 DEF SizeAccounts
<1>7. CASE n > 0 /\ m_file_size' = 0 /\ TransmitSucess(content, c)
  <2>1. down' \in [Client -> Seq(AnswerSet)]
    BY <1>4, <1>7 DEF TransmitSucess
  <2>2. installed' \in [Client -> Nat] /\ failedInstalls' \in [Client -> Nat]
    <3>. DEFINE Counted(times) == [x \in Client |-> IF content = Whole(x) THEN times[x] + 1
                                                                        ELSE times[x]]
    <3>1. \/ installed' = Counted(installed) /\ failedInstalls' = failedInstalls
          \/ failedInstalls' = Counted(failedInstalls) /\ installed' = installed
          \/ UNCHANGED unpacked
      BY <1>7 DEF TransmitSucess, Unpack
    <3>2. ASSUME NEW times \in [Client -> Nat] PROVE Counted(times) \in [Client -> Nat]
      OBVIOUS
    <3>. HIDE DEF Counted
    <3>. QED
      BY <1>5, <3>1, <3>2 DEF unpacked
  <2>3. CloseFile
    BY <1>7 DEF TransmitSucess
  <2>. QED
    <3>1. /\ open' \subseteq 0 .. MaxFd /\ m_file_fd' = -1 /\ file' = None
          /\ Cardinality(open' \ {0, m_file_fd'}) = superseded
      BY <2>3, CloseFileResult
    <3>. QED
      BY <1>1, <2>1, <2>2, <3>1 DEF SizeAccounts
<1>8. CASE /\ n > 0 /\ m_file_size' # 0
           /\ file' = content /\ Reply(c, Answer("COMMENT", m_file_size'))
           /\ UNCHANGED <<open, m_file_fd, unpacked>>
  <2>1. m_file_size' \in Int /\ down' \in [Client -> Seq(AnswerSet)]
    BY <1>1, <1>4, <1>8
  <2>2. open \subseteq 0 .. MaxFd /\ m_file_fd \in -1 .. MaxFd
    BY <1>1 DEF TypeOK
  <2>3. SizeAccounts'
    <3>1. Len(file') = Len(file) + n /\ file' # None /\ m_file_fd' \in open'
      BY <1>1, <1>2, <1>3, <1>8
    <3>2. Len(file) \in Nat
      BY <1>1
    <3>3. m_file_size' + Len(file') = m_file_size + Len(file)
      BY <1>1, <3>1, <3>2
    <3>. QED
      BY <1>1, <3>1, <3>3 DEF SizeAccounts
  <2>4. Cardinality(open' \ {0, m_file_fd'}) = superseded
    BY <1>8 DEF IInv, LeakAccounted
  <2>. QED
    BY <1>2, <1>5, <1>8, <2>1, <2>2, <2>3, <2>4 DEF unpacked
<1>. QED
  BY <1>6, <1>7, <1>8 DEF Written, content

LEMMA CommentKeeps ==
  ASSUME IInv, NEW c \in Client, TransmitComment(c)
  PROVE  IInv'
<1>1. TypeOK
  BY DEF IInv
<1>. DEFINE d == Head(up[c]).data
<1>2. up' \in [Client -> Seq(Message)] /\ d \in Seq(Bytes)
  BY <1>1, ReceiveType, MessageTypes DEF TransmitComment
<1>. HIDE DEF d
<1>3. /\ disturbed' \subseteq Client
      /\ UNCHANGED <<phase, pos, outcome, successes, clicks, impatient,
                     superseded, earlyCancels>>
  BY <1>1 DEF TransmitComment, client, TypeOK
<1>. DEFINE Kept ==
        /\ open' \subseteq 0 .. MaxFd /\ m_file_fd' \in -1 .. MaxFd
        /\ m_file_size' \in Int /\ m_str_file_md5' = m_str_file_md5
        /\ file' = None \/ file' \in Seq(Bytes)
        /\ down' \in [Client -> Seq(AnswerSet)]
        /\ installed' \in [Client -> Nat] /\ failedInstalls' \in [Client -> Nat]
        /\ faults' \in Nat
        /\ SizeAccounts'
        /\ Cardinality(open' \ {0, m_file_fd'}) = superseded
<1>4. ASSUME NotOpen(c)
      PROVE  Kept
  <2>1. UNCHANGED <<open, m_file_fd, m_file_size, m_str_file_md5, file, faults,
                    unpacked>>
    BY <1>4 DEF NotOpen, server
  <2>2. down' \in [Client -> Seq(AnswerSet)]
    BY <1>1, <1>4, MessageTypes, ReplyType DEF NotOpen
  <2>. QED
    BY <2>1, <2>2 DEF IInv, TypeOK, SizeAccounts, LeakAccounted, unpacked
<1>5. ASSUME m_file_fd > 0, NEW n \in 0 .. Len(d),
             IF n < Len(d) THEN Fault ELSE UNCHANGED faults,
             Written(d, n, c), m_str_file_md5' = m_str_file_md5
      PROVE  Kept
  <2>1. faults' \in Nat
    <3>1. faults \in Nat
      BY <1>1 DEF TypeOK
    <3>2. CASE n < Len(d)
      BY <1>5, <3>1, <3>2 DEF Fault
    <3>3. CASE ~(n < Len(d))
      BY <1>5, <3>1, <3>3
    <3>. QED
      BY <3>2, <3>3
  <2>. QED
    BY <1>2, <1>5, <2>1, WrittenResult
<1>6. Kept
  <2>1. \/ NotOpen(c)
        \/ /\ m_file_fd > 0
           /\ \E n \in 0 .. Len(d) :
                /\ IF n < Len(d) THEN Fault ELSE UNCHANGED faults
                /\ Written(d, n, c)
           /\ m_str_file_md5' = m_str_file_md5
    BY Zenon DEF TransmitComment, d
  <2>. QED
    BY <1>4, <1>5, <2>1
<1>7. TypeOK'
  BY <1>1, <1>2, <1>3, <1>6 DEF TypeOK
<1>. QED
  BY <1>3, <1>6, <1>7 DEF IInv, LeakAccounted

LEMMA FailerKeeps ==
  ASSUME IInv, NEW c \in Client, TransmitFailer(c)
  PROVE  IInv'
<1>1. TypeOK /\ MaxFd \in Nat
  BY TransmitAssumption DEF IInv, TransmitAssumption
<1>2. up' \in [Client -> Seq(Message)]
  BY <1>1, ReceiveType DEF TransmitFailer
<1>3. /\ open' \subseteq 0 .. MaxFd /\ m_file_fd' = -1 /\ file' = None
      /\ Cardinality(open' \ {0, m_file_fd'}) = superseded
  BY CloseFileResult DEF TransmitFailer
<1>4. /\ earlyCancels' = IF m_file_fd = 0 THEN earlyCancels + 1 ELSE earlyCancels
      /\ disturbed' = Client
      /\ UNCHANGED <<m_file_size, m_str_file_md5, down, phase, pos, outcome,
                     successes, clicks, faults, unpacked, impatient, superseded>>
  BY DEF TransmitFailer, client
<1>5. TypeOK'
  <2>1. m_file_fd' \in -1 .. MaxFd
    BY <1>1, <1>3
  <2>2. earlyCancels' \in Nat
    BY <1>1, <1>4 DEF TypeOK
  <2>. QED
    BY <1>1, <1>2, <1>3, <1>4, <2>1, <2>2 DEF TypeOK, unpacked
<1>6. SizeAccounts'
  BY <1>3 DEF SizeAccounts
<1>. QED
  BY <1>3, <1>4, <1>5, <1>6 DEF IInv, LeakAccounted

(* The clients leave the service alone.                                    *)
LEMMA ServerUntouched ==
  ASSUME IInv, UNCHANGED <<open, m_file_fd, m_file_size, m_str_file_md5, file, superseded>>
  PROVE  SizeAccounts' /\ LeakAccounted'
BY DEF IInv, SizeAccounts, LeakAccounted

LEMMA UserKeeps ==
  ASSUME IInv, NEW c \in Client, User(c)
  PROVE  IInv'
<1>1. TypeOK
  BY DEF IInv
<1>2. SizeAccounts' /\ LeakAccounted'
  <2>1. CASE UploadClicked(c)
    BY <2>1, ServerUntouched DEF UploadClicked, server
  <2>2. CASE CancelClicked(c)
    BY <2>2, ServerUntouched DEF CancelClicked, server, history, unpacked
  <2>3. CASE Quit(c)
    BY <2>3, ServerUntouched DEF Quit, server, history, unpacked
  <2>. QED
    BY <2>1, <2>2, <2>3 DEF User
<1>3. CASE UploadClicked(c)
  <2>1. up' \in [Client -> Seq(Message)]
    BY <1>1, <1>3, MessageTypes, SendMsgType DEF UploadClicked
  <2>2. clicks' \in [Client -> Nat]
    BY <1>1, <1>3 DEF UploadClicked, Click, TypeOK
  <2>3. outcome' \in [Client -> {"none", "ok", "failed", "refused"}]
    BY <1>1, <1>3 DEF UploadClicked, TypeOK
  <2>4. /\ impatient' \subseteq Client
        /\ UNCHANGED <<server, down, phase, pos, successes, faults, unpacked,
                       disturbed, superseded, earlyCancels>>
    BY <1>1, <1>3 DEF UploadClicked, TypeOK
  <2>. QED
    BY <1>1, <1>2, <2>1, <2>2, <2>3, <2>4 DEF IInv, TypeOK, server, unpacked
<1>4. CASE CancelClicked(c)
  <2>1. up' \in [Client -> Seq(Message)]
    BY <1>1, <1>4, MessageTypes, SendMsgType DEF CancelClicked
  <2>2. clicks' \in [Client -> Nat]
    BY <1>1, <1>4 DEF CancelClicked, Click, TypeOK
  <2>3. UNCHANGED <<server, down, client, faults, history>>
    BY <1>4 DEF CancelClicked
  <2>. QED
    BY <1>1, <1>2, <2>1, <2>2, <2>3 DEF IInv, TypeOK, server, client, history, unpacked
<1>5. CASE Quit(c)
  <2>1. up' \in [Client -> Seq(Message)]
    <3>1. PICK n \in 0 .. Len(up[c]) : up' = [up EXCEPT ![c] = SubSeq(up[c], 1, n)]
      BY <1>5 DEF Quit
    <3>2. up \in [Client -> Seq(Message)] /\ up[c] \in Seq(Message)
      BY <1>1 DEF TypeOK
    <3>3. SubSeq(up[c], 1, n) \in Seq(Message)
      BY <3>2, PrefixLength
    <3>. QED
      BY <3>1, <3>2, <3>3
  <2>2. down' \in [Client -> Seq(AnswerSet)]
    BY <1>1, <1>5 DEF Quit, TypeOK
  <2>3. phase' \in [Client -> {"idle", "uploading", "stuck", "gone"}]
    BY <1>1, <1>5 DEF Quit, TypeOK
  <2>4. UNCHANGED <<server, pos, outcome, successes, clicks, faults, history>>
    BY <1>5 DEF Quit
  <2>. QED
    BY <1>1, <1>2, <2>1, <2>2, <2>3, <2>4 DEF IInv, TypeOK, server, history, unpacked
<1>. QED
  BY <1>3, <1>4, <1>5 DEF User

(* Neither a buffer nobody can read any more nor the end of the service    *)
(* touches what the service accounts for.                                  *)
LEMMA DeliveryKeeps ==
  ASSUME IInv, NEW c \in Client, AnswersCoalesce(c) \/ ServerDies(c)
  PROVE  IInv'
<1>1. TypeOK /\ UNCHANGED <<server, pos, outcome, successes, clicks, faults, history>>
  BY DEF IInv, AnswersCoalesce, ServerDies
<1>2. phase' \in [Client -> {"idle", "uploading", "stuck", "gone"}]
  BY <1>1 DEF AnswersCoalesce, ServerDies, TypeOK
<1>3. up' \in [Client -> Seq(Message)] /\ down' \in [Client -> Seq(AnswerSet)]
  <2>1. CASE AnswersCoalesce(c)
    BY <1>1, <2>1 DEF AnswersCoalesce, TypeOK
  <2>2. CASE ServerDies(c)
    <3>1. up' = [x \in Client |-> <<>>] /\ down' = [x \in Client |-> <<>>]
      BY <2>2 DEF ServerDies
    <3>2. <<>> \in Seq(Message) /\ <<>> \in Seq(AnswerSet)
      OBVIOUS
    <3>. QED
      BY <3>1, <3>2
  <2>. QED
    BY <2>1, <2>2
<1>4. SizeAccounts' /\ LeakAccounted'
  BY <1>1, ServerUntouched DEF server, history, unpacked
<1>. QED
  BY <1>1, <1>2, <1>3, <1>4 DEF IInv, TypeOK, server, history, unpacked

LEMMA AnswerKeeps ==
  ASSUME IInv, NEW c \in Client, HandNetMsg(c)
  PROVE  IInv'
<1>0. CASE AnswersCoalesce(c)
  BY <1>0, DeliveryKeeps
<1>. SUFFICES ASSUME StartAnswered(c) \/ CommentAnswered(c)
              PROVE  IInv'
  BY <1>0 DEF HandNetMsg
<1>1. TypeOK /\ FileLen[c] \in Nat
  BY TransmitAssumption DEF IInv, TransmitAssumption
<1>. DEFINE a == Head(down[c])
<1>2. /\ \/ Take(c, "START")
         \/ Take(c, "COMMENT")
      /\ UNCHANGED <<server, clicks, faults, history>>
  BY DEF StartAnswered, CommentAnswered, Take
<1>3. down' \in [Client -> Seq(AnswerSet)]
  <2>1. down \in [Client -> Seq(AnswerSet)] /\ down[c] \in Seq(AnswerSet)
    BY <1>1 DEF TypeOK
  <2>2. down[c] # <<>> /\ down' = [down EXCEPT ![c] = Tail(down[c])]
    BY <1>2 DEF Take
  <2>3. Tail(down[c]) \in Seq(AnswerSet)
    BY <2>1, <2>2
  <2>. QED
    BY <2>1, <2>2, <2>3
<1>4. SizeAccounts' /\ LeakAccounted'
  BY <1>2, ServerUntouched DEF server, history, unpacked
<1>5. pos[c] \in 0 .. FileLen[c] /\ 0 \in 0 .. FileLen[c]
  BY <1>1 DEF TypeOK
<1>. DEFINE Sent ==
        /\ up' \in [Client -> Seq(Message)]
        /\ pos' \in [Client -> Nat] /\ \A x \in Client : pos'[x] <= FileLen[x]
<1>6. ASSUME UNCHANGED <<up, pos>>
      PROVE  Sent
  BY <1>1, <1>6 DEF TypeOK
<1>7. CASE StartAnswered(c)
  <2>1. Sent
    <3>1. CASE a.ret = 0
      BY <1>1, <1>5, <1>7, <3>1, SendFileType DEF StartAnswered
    <3>2. CASE a.ret # 0
      BY <1>6, <1>7, <3>2 DEF StartAnswered
    <3>. QED
      BY <3>1, <3>2
  <2>2. /\ phase' \in [Client -> {"idle", "uploading", "stuck", "gone"}]
        /\ outcome' \in [Client -> {"none", "ok", "failed", "refused"}]
        /\ successes' \in [Client -> Nat]
    BY <1>1, <1>7 DEF StartAnswered, TypeOK
  <2>. QED
    BY <1>1, <1>2, <1>3, <1>4, <2>1, <2>2 DEF IInv, TypeOK, server, history, unpacked
<1>8. CASE CommentAnswered(c)
  <2>1. Sent
    <3>1. \/ SendFile(c, pos[c])
          \/ UNCHANGED <<up, pos>>
      BY <1>8 DEF CommentAnswered
    <3>. QED
      BY <1>1, <1>5, <1>6, <3>1, SendFileType
  <2>2. phase' \in [Client -> {"idle", "uploading", "stuck", "gone"}]
    BY <1>1, <1>8 DEF CommentAnswered, StopSendFile, TypeOK
  <2>3. outcome' \in [Client -> {"none", "ok", "failed", "refused"}]
    BY <1>1, <1>8 DEF CommentAnswered, TypeOK
  <2>4. successes' \in [Client -> Nat]
    <3>1. successes \in [Client -> Nat] /\ successes[c] + 1 \in Nat
      BY <1>1 DEF TypeOK
    <3>2. \/ successes' = successes
          \/ successes' = [successes EXCEPT ![c] = successes[c] + 1]
      BY <1>8 DEF CommentAnswered
    <3>. QED
      BY <3>1, <3>2
  <2>. QED
    BY <1>1, <1>2, <1>3, <1>4, <2>1, <2>2, <2>3, <2>4
    DEF IInv, TypeOK, server, history, unpacked
<1>. QED
  BY <1>7, <1>8

LEMMA InitIInv == Init => IInv
<1>. SUFFICES ASSUME Init PROVE IInv
  OBVIOUS
<1>1. FileLen \in [Client -> Nat \ {0}] /\ MaxFd \in Nat
  BY TransmitAssumption DEF TransmitAssumption
<1>2. up \in [Client -> Seq(Message)] /\ down \in [Client -> Seq(AnswerSet)]
  BY DEF Init
<1>3. pos \in [Client -> Nat] /\ \A c \in Client : pos[c] <= FileLen[c]
  BY <1>1 DEF Init
<1>4. TypeOK
  BY <1>1, <1>2, <1>3 DEF Init, TypeOK
<1>5. LeakAccounted
  <2>1. open \ {0, m_file_fd} = {} /\ superseded = 0
    BY DEF Init
  <2>. QED
    BY <2>1, FS_EmptySet, Zenon DEF LeakAccounted
<1>6. SizeAccounts
  BY DEF Init, SizeAccounts
<1>. QED
  BY <1>4, <1>5, <1>6 DEF IInv

LEMMA NextIInv == IInv /\ [Next]_vars => IInv'
<1>. SUFFICES ASSUME IInv, [Next]_vars PROVE IInv'
  OBVIOUS
<1>1. CASE UNCHANGED vars
  BY <1>1 DEF vars, server, client, history, unpacked, IInv, TypeOK, SizeAccounts, LeakAccounted
<1>2. ASSUME NEW c \in Client, HandSysCfgMsg(c)
      PROVE  IInv'
  BY <1>2, StartKeeps, CommentKeeps, FailerKeeps DEF HandSysCfgMsg
<1>. QED
  BY <1>1, <1>2, AnswerKeeps, UserKeeps, DeliveryKeeps DEF Next

(* The inductive invariant holds of every reachable state. *)
THEOREM Invariance == Spec => []IInv
BY InitIInv, NextIInv, PTL DEF Spec

(* TypeOK for any number of clients and files of any length. *)
THEOREM TypeCorrect == Spec => []TypeOK
BY Invariance, PTL DEF IInv

(* m_file_size is always the announced size less what trunk.zip has. *)
THEOREM NoLostCount == Spec => []SizeAccounts
BY Invariance, PTL DEF IInv

(* Only the uploads that were replaced leave a descriptor open. *)
THEOREM LeakIsExact == Spec => []LeakAccounted
BY Invariance, PTL DEF IInv

(* Both, as the run checks them. *)
THEOREM AccountsAreRight == Spec => []Accounts
BY NoLostCount, LeakIsExact, PTL DEF Accounts

-----------------------------------------------------------------------------
(* A client's messages carry bytes of its own file only, so the last byte  *)
(* of a complete file tells whose last chunk completed it.                 *)
Own(c, q) ==
  \A i \in 1 .. Len(q) :
    q[i].type = "COMMENT" => \A j \in 1 .. Len(q[i].data) : q[i].data[j][1] = c
OwnBytes == \A c \in Client : Own(c, up[c])

(* One client's part of SuccessIsUnpacked. *)
Told(c) == Cardinality(Promised(c))
Tries(c) == installed[c] + failedInstalls[c]
Truthful(c) ==
  \/ successes[c] + Told(c) = Tries(c)
  \/ phase[c] = "gone" /\ successes[c] <= Tries(c)

SuccessInv == IInv /\ OwnBytes /\ SuccessIsUnpacked

(* The places of an element in a sequence, and how many they are.          *)
Where(s, a) == {i \in 1 .. Len(s) : s[i] = a}

LEMMA WhereFinite ==
  ASSUME NEW S, NEW s \in Seq(S), NEW a
  PROVE  IsFiniteSet(Where(s, a)) /\ Cardinality(Where(s, a)) \in Nat
<1>1. IsFiniteSet(1 .. Len(s))
  BY FS_Interval
<1>2. Where(s, a) \subseteq 1 .. Len(s)
  BY DEF Where
<1>. QED
  BY <1>1, <1>2, FS_Subset, FS_CardinalityType

LEMMA WhereAppend ==
  ASSUME NEW S, NEW s \in Seq(S), NEW x \in S, NEW a
  PROVE  Cardinality(Where(Append(s, x), a)) = Cardinality(Where(s, a)) + (IF x = a THEN 1 ELSE 0)
<1> DEFINE n == Len(s) + 1
<1>1. /\ Len(Append(s, x)) = n /\ n \in Nat /\ Len(s) \in Nat
      /\ \A i \in 1 .. n : Append(s, x)[i] = IF i = n THEN x ELSE s[i]
  OBVIOUS
<1>2. n \notin Where(s, a)
  BY DEF Where
<1>3. CASE x = a
  <2>1. Where(Append(s, x), a) = Where(s, a) \cup {n}
    BY <1>1, <1>3 DEF Where
  <2>. QED
    BY <1>2, <1>3, <2>1, WhereFinite, FS_AddElement
<1>4. CASE x # a
  <2>1. Where(Append(s, x), a) = Where(s, a)
    BY <1>1, <1>4 DEF Where
  <2>. QED
    BY <1>4, <2>1, WhereFinite
<1>. QED
  BY <1>3, <1>4

LEMMA WhereTail ==
  ASSUME NEW S, NEW s \in Seq(S), s # <<>>, NEW a
  PROVE  Cardinality(Where(Tail(s), a)) = Cardinality(Where(s, a)) - (IF Head(s) = a THEN 1 ELSE 0)
<1>1. /\ Len(Tail(s)) = Len(s) - 1 /\ Len(s) \in Nat \ {0} /\ Head(s) = s[1] /\ Tail(s) \in Seq(S)
      /\ \A i \in 1 .. Len(s) - 1 : Tail(s)[i] = s[i + 1]
  OBVIOUS
<1> DEFINE W == Where(s, a)
           T == Where(Tail(s), a)
           f == [i \in T |-> i + 1]
<1>2. T \subseteq 1 .. Len(s) - 1 /\ \A i \in 1 .. Len(s) - 1 : i \in T <=> i + 1 \in W
  BY <1>1 DEF Where
<1>3. W \subseteq 1 .. Len(s) /\ (1 \in W <=> Head(s) = a)
  BY <1>1 DEF Where
<1>4. IsFiniteSet(W) /\ IsFiniteSet(T) /\ Cardinality(W) \in Nat
  BY <1>1, WhereFinite
<1> HIDE DEF W, T
<1>5. f \in Bijection(T, W \ {1})
  <2>1. f \in [T -> W \ {1}]
    BY <1>1, <1>2
  <2>2. \A i, j \in T : f[i] = f[j] => i = j
    BY <1>1, <1>2
  <2>3. ASSUME NEW k \in W \ {1} PROVE \E i \in T : f[i] = k
    <3>1. k - 1 \in 1 .. Len(s) - 1 /\ (k - 1) + 1 = k
      BY <1>1, <1>3
    <3>2. k - 1 \in T
      BY <1>2, <3>1
    <3>. QED
      BY <3>1, <3>2
  <2>. QED
    BY <2>1, <2>2, <2>3 DEF Bijection, Injection, Surjection, IsInjective
<1>6. Cardinality(T) = Cardinality(W \ {1})
  BY <1>4, <1>5, FS_Bijection DEF ExistsBijection
<1>7. Cardinality(W \ {1}) = IF 1 \in W THEN Cardinality(W) - 1 ELSE Cardinality(W)
  BY <1>4, FS_RemoveElement
<1>. QED
  BY <1>3, <1>4, <1>6, <1>7 DEF W, T

LEMMA ToldIs ==
  ASSUME TypeOK, NEW c \in Client
  PROVE  Told(c) = Cardinality(Where(down[c], Answer("COMMENT", 0))) /\ Told(c) \in Nat
<1>1. down[c] \in Seq(AnswerSet)
  BY DEF TypeOK
<1>2. Promised(c) = Where(down[c], Answer("COMMENT", 0))
  BY <1>1 DEF Promised, Where
<1>. QED
  BY <1>1, <1>2, WhereFinite DEF Told

LEMMA ToldIsNext ==
  ASSUME TypeOK', NEW c \in Client
  PROVE  Told(c)' = Cardinality(Where(down'[c], Answer("COMMENT", 0))) /\ Told(c)' \in Nat
<1>1. down'[c] \in Seq(AnswerSet)
  BY DEF TypeOK
<1>2. Promised(c)' = Where(down'[c], Answer("COMMENT", 0))
  BY <1>1 DEF Promised, Where, Answer
<1>3. Cardinality(Where(down'[c], Answer("COMMENT", 0))) \in Nat
  BY <1>1, WhereFinite
<1>. QED
  BY <1>2, <1>3 DEF Told

LEMMA ReplyTold ==
  ASSUME TypeOK, TypeOK', NEW c \in Client, NEW t \in {"START", "COMMENT"}, NEW r \in Int,
         Reply(c, Answer(t, r))
  PROVE  /\ \A x \in Client \ {c} : Told(x)' = Told(x)
         /\ phase[c] = "gone" => Told(c)' = Told(c)
         /\ phase[c] # "gone" => Told(c)' = Told(c) + (IF t = "COMMENT" /\ r = 0 THEN 1 ELSE 0)
<1>1. down[c] \in Seq(AnswerSet) /\ Answer(t, r) \in AnswerSet
      /\ down \in [Client -> Seq(AnswerSet)]
  BY DEF TypeOK, Answer, AnswerSet
<1>2. Answer(t, r) = Answer("COMMENT", 0) <=> t = "COMMENT" /\ r = 0
  BY DEF Answer
<1>3. \A x \in Client \ {c} : down'[x] = down[x]
  BY <1>1 DEF Reply
<1>4. phase[c] = "gone" => down'[c] = down[c]
  BY <1>1 DEF Reply
<1>5. phase[c] # "gone" => down'[c] = Append(down[c], Answer(t, r))
  BY <1>1 DEF Reply
<1>6. phase[c] # "gone" => Told(c)' = Told(c) + (IF Answer(t, r) = Answer("COMMENT",
          0) THEN 1 ELSE 0)
  <2> DEFINE a0 == Answer("COMMENT", 0)
             a1 == Answer(t, r)
  <2> SUFFICES ASSUME phase[c] # "gone" PROVE Told(c)' = Told(c) + (IF a1 = a0 THEN 1 ELSE 0)
    OBVIOUS
  <2>1. a1 \in AnswerSet /\ down'[c] = Append(down[c], a1)
    BY <1>1, <1>5
  <2>2. Told(c) = Cardinality(Where(down[c], a0)) /\ Told(c)' = Cardinality(Where(down'[c], a0))
    BY ToldIs, ToldIsNext
  <2> HIDE DEF a0, a1
  <2>3. Cardinality(Where(Append(down[c], a1), a0)) = Cardinality(Where(down[c],
            a0)) + (IF a1 = a0 THEN 1 ELSE 0)
    BY <1>1, <2>1, WhereAppend
  <2>. QED
    BY <2>1, <2>2, <2>3
<1>7. \A x \in Client : down'[x] = down[x] => Told(x)' = Told(x)
  BY ToldIs, ToldIsNext
<1>. QED
  BY <1>2, <1>3, <1>4, <1>6, <1>7

-----------------------------------------------------------------------------
LEMMA OwnTail ==
  ASSUME NEW c, NEW q \in Seq(Message), q # <<>>, Own(c, q)
  PROVE  Own(c, Tail(q))
<1>1. /\ Len(Tail(q)) = Len(q) - 1 /\ Len(q) \in Nat
      /\ \A i \in 1 .. Len(q) - 1 : Tail(q)[i] = q[i + 1] /\ i + 1 \in 1 .. Len(q)
  OBVIOUS
<1>. QED
  BY <1>1 DEF Own

LEMMA OwnAppend ==
  ASSUME NEW c, NEW q \in Seq(Message), NEW m \in Message, Own(c, q),
         m.type = "COMMENT" => \A j \in 1 .. Len(m.data) : m.data[j][1] = c
  PROVE  Own(c, Append(q, m))
<1>1. /\ Len(Append(q, m)) = Len(q) + 1 /\ Len(q) \in Nat
      /\ \A i \in 1 .. Len(q) + 1 : Append(q, m)[i] = IF i = Len(q) + 1 THEN m ELSE q[i]
      /\ \A i \in 1 .. Len(q) + 1 : i # Len(q) + 1 => i \in 1 .. Len(q)
  OBVIOUS
<1>2. ASSUME NEW i \in 1 .. Len(q) + 1, Append(q, m)[i].type = "COMMENT",
             NEW j \in 1 .. Len(Append(q, m)[i].data)
      PROVE  Append(q, m)[i].data[j][1] = c
  <2>1. CASE i = Len(q) + 1
    BY <1>1, <1>2, <2>1
  <2>2. CASE i # Len(q) + 1
    BY <1>1, <1>2, <2>2 DEF Own
  <2>. QED
    BY <2>1, <2>2
<1>. QED
  BY <1>1, <1>2 DEF Own

LEMMA OwnPrefix ==
  ASSUME NEW c, NEW q \in Seq(Message), NEW n \in 0 .. Len(q), Own(c, q)
  PROVE  Own(c, SubSeq(q, 1, n))
<1>1. /\ Len(SubSeq(q, 1, n)) = n /\ Len(q) \in Nat
      /\ \A i \in 1 .. n : SubSeq(q, 1, n)[i] = q[i] /\ i \in 1 .. Len(q)
  BY SubSeqProperties
<1>. QED
  BY <1>1 DEF Own

(* A chunk of a file. *)
LEMMA ChunkIs ==
  ASSUME NEW c \in Client, NEW k \in Nat, NEW n \in k .. FileLen[c]
  PROVE  LET d == SubSeq(Whole(c), k + 1, n) IN
           /\ d \in Seq(Bytes) /\ Len(d) = n - k
           /\ \A j \in 1 .. n - k : d[j] = <<c, k + j>>
<1>1. Whole(c) \in Seq(Bytes) /\ Len(Whole(c)) = FileLen[c] /\ FileLen[c] \in Nat
      /\ \A i \in 1 .. FileLen[c] : Whole(c)[i] = <<c, i>>
  BY WholeType, TransmitAssumption DEF Whole
<1> HIDE DEF Whole
<1> DEFINE w == Whole(c)
           d == SubSeq(w, k + 1, n)
<1>2. w \in Seq(Bytes) /\ Len(w) = FileLen[c]
  BY <1>1
<1>3. k + 1 \in Nat \ {0} /\ n \in 0 .. Len(w)
  BY <1>1
<1>4. d \in Seq(Bytes)
  <2> HIDE DEF w
  <2>. QED
    BY <1>2, <1>3, PartType
<1>5. Len(d) = n - k /\ \A j \in 1 .. n - k : d[j] = w[k + j]
  <2> HIDE DEF w
  <2>1. CASE n = k
    BY <1>2, <1>3, <2>1, SubSeqProperties
  <2>2. CASE k < n
    <3>1. k + 1 \in 1 .. Len(w) + 1 /\ n \in (k + 1) - 1 .. Len(w)
      BY <1>3, <2>2
    <3>2. Len(d) = n - (k + 1) + 1
      BY <1>2, <1>3, <2>2, SubSeqProperties
    <3>3. \A j \in 1 .. n - k : d[j] = w[(k + 1) + j - 1]
      BY <1>2, <1>3, <2>2, <3>2, SubSeqProperties
    <3>4. \A j \in 1 .. n - k : (k + 1) + j - 1 = k + j
      OBVIOUS
    <3>. QED
      BY <3>2, <3>3, <3>4
  <2>. QED
    BY <2>1, <2>2
<1>6. \A j \in 1 .. n - k : k + j \in 1 .. FileLen[c]
  BY <1>1
<1>. QED
  BY <1>1, <1>4, <1>5, <1>6

LEMMA ChunkEndIs ==
  ASSUME NEW c \in Client, NEW from \in 0 .. FileLen[c]
  PROVE  /\ from \in Nat /\ ChunkEnd(c, from) \in from .. FileLen[c]
         /\ from < FileLen[c] => from < ChunkEnd(c, from)
<1>1. FileLen[c] \in Nat /\ ChunkSize \in Nat \ {0} /\ from \in Nat
  BY TransmitAssumption
<1>. QED
  BY <1>1 DEF ChunkEnd

(* What happens to the messages of the clients. *)
LEMMA NextOwn ==
  ASSUME IInv, OwnBytes, [Next]_vars
  PROVE  OwnBytes'
<1>1. up \in [Client -> Seq(Message)] /\ (\A c \in Client : pos[c] \in 0 .. FileLen[c])
  BY TransmitAssumption DEF IInv, TypeOK
<1>2. \A c \in Client : Own(c, up[c])
  BY DEF OwnBytes
<1> DEFINE Moved(c) == \A x \in Client \ {c} : up'[x] = up[x]
<1>3. ASSUME NEW c \in Client, Moved(c), Own(c, up'[c]) PROVE OwnBytes'
  <2>1. ASSUME NEW x \in Client PROVE Own(x, up'[x])
    BY <1>2, <1>3
  <2>. QED
    BY <2>1 DEF OwnBytes, Own
<1>4. ASSUME UNCHANGED up PROVE OwnBytes'
  BY <1>4 DEF OwnBytes, Own
<1>5. ASSUME NEW c \in Client, Receive(c) PROVE OwnBytes'
  <2>1. up[c] # <<>> /\ up'[c] = Tail(up[c]) /\ Moved(c)
    BY <1>1, <1>5 DEF Receive
  <2>2. Own(c, Tail(up[c]))
    BY <1>1, <1>2, <2>1, OwnTail
  <2>. QED
    BY <1>3, <2>1, <2>2
<1>6. ASSUME NEW c \in Client, NEW m \in Message, SendMsg(c, m),
             m.type = "COMMENT" => \A j \in 1 .. Len(m.data) : m.data[j][1] = c
      PROVE  OwnBytes'
  <2>1. up'[c] = Append(up[c], m) /\ Moved(c)
    BY <1>1, <1>6 DEF SendMsg
  <2>2. Own(c, Append(up[c], m))
    BY <1>1, <1>2, <1>6, OwnAppend
  <2>. QED
    BY <1>3, <2>1, <2>2
<1>7. ASSUME NEW c \in Client, NEW from \in 0 .. FileLen[c], SendFile(c, from) PROVE OwnBytes'
  <2> DEFINE d == SubSeq(Whole(c), from + 1, ChunkEnd(c, from))
  <2>1. d \in Seq(Bytes) /\ \A j \in 1 .. Len(d) : d[j][1] = c
    <3>1. from \in Nat /\ ChunkEnd(c, from) \in from .. FileLen[c]
      BY ChunkEndIs
    <3> HIDE DEF ChunkEnd
    <3>2. /\ d \in Seq(Bytes) /\ Len(d) = ChunkEnd(c, from) - from
          /\ \A j \in 1 .. ChunkEnd(c, from) - from : d[j] = <<c, from + j>>
      BY <3>1, ChunkIs
    <3> HIDE DEF d
    <3>. QED
      BY <3>2
  <2>2. SendMsg(c, Comment(d))
    BY <1>7 DEF SendFile
  <2> HIDE DEF d
  <2>3. Comment(d) \in Message /\ Comment(d).data = d
    BY <2>1, MessageTypes DEF Comment
  <2>. QED
    BY <1>6, <2>1, <2>2, <2>3
<1>8. ASSUME NEW c \in Client, Quit(c) PROVE OwnBytes'
  <2>1. PICK n \in 0 .. Len(up[c]) : up' = [up EXCEPT ![c] = SubSeq(up[c], 1, n)]
    BY <1>8 DEF Quit
  <2>2. up'[c] = SubSeq(up[c], 1, n) /\ Moved(c)
    BY <1>1, <2>1
  <2>3. Own(c, SubSeq(up[c], 1, n))
    BY <1>1, <1>2, OwnPrefix
  <2>. QED
    BY <1>3, <2>2, <2>3
<1>9. ASSUME NEW c \in Client, HandSysCfgMsg(c) PROVE OwnBytes'
  BY <1>5, <1>9 DEF HandSysCfgMsg, TransmitStart, TransmitComment, TransmitFailer
<1>10. ASSUME NEW c \in Client, HandNetMsg(c) PROVE OwnBytes'
  <2>1. 0 \in 0 .. FileLen[c]
    BY TransmitAssumption
  <2>2. SendFile(c, 0) \/ SendFile(c, pos[c]) \/ UNCHANGED up
    BY <1>10 DEF HandNetMsg, StartAnswered, CommentAnswered, AnswersCoalesce
  <2>. QED
    BY <1>1, <1>4, <1>7, <2>1, <2>2
<1>11. ASSUME NEW c \in Client, User(c) PROVE OwnBytes'
  <2>1. CASE UploadClicked(c) \/ CancelClicked(c)
    <3>1. Start.type # "COMMENT" /\ Failer.type # "COMMENT" /\ Start \in Message
              /\ Failer \in Message
      BY MessageTypes DEF Start, Failer
    <3>2. SendMsg(c, Start) \/ SendMsg(c, Failer)
      BY <2>1 DEF UploadClicked, CancelClicked
    <3>. QED
      BY <1>6, <3>1, <3>2
  <2>. QED
    BY <1>8, <1>11, <2>1 DEF User
<1>12. ASSUME NEW c \in Client, ServerDies(c) PROVE OwnBytes'
  BY <1>12 DEF ServerDies, OwnBytes, Own
<1>13. CASE UNCHANGED vars
  BY <1>4, <1>13 DEF vars
<1>. QED
  BY <1>9, <1>10, <1>11, <1>12, <1>13 DEF Next
-----------------------------------------------------------------------------
LEMMA WrittenOwner ==
  ASSUME NEW f \in Seq(Bytes), NEW d \in Seq(Bytes), NEW n \in 1 .. Len(d), NEW c,
         \A j \in 1 .. Len(d) : d[j][1] = c,
         NEW x, f \o SubSeq(d, 1, n) = Whole(x)
  PROVE  x = c
<1> DEFINE part == SubSeq(d, 1, n)
           s == f \o part
           k == Len(f) + n
<1>1. part \in Seq(Bytes) /\ Len(part) = n /\ part[n] = d[n] /\ n \in Nat \ {0}
  BY SubSeqProperties
<1> HIDE DEF part
<1>2. s \in Seq(Bytes) /\ Len(s) = k /\ k \in 1 .. k /\ s[k] = part[n]
  <2>1. s \in Seq(Bytes) /\ Len(s) = Len(f) + Len(part) /\ Len(f) \in Nat
    BY <1>1, ConcatProperties
  <2>2. s[k] = part[k - Len(f)]
    BY <1>1, <2>1, ConcatProperties
  <2>. QED
    BY <1>1, <2>1, <2>2
<1>3. k \in DOMAIN Whole(x) /\ Whole(x)[k] = part[n]
  <2>1. k \in DOMAIN s
    BY <1>2
  <2>. QED
    BY <1>2, <2>1 DEF part
<1>4. Whole(x)[k] = <<x, k>>
  BY <1>3 DEF Whole
<1>. QED
  BY <1>1, <1>3, <1>4

LEMMA KeptSame ==
  ASSUME NEW x \in Client, Truthful(x), Told(x)' = Told(x),
         successes'[x] = successes[x], Tries(x)' = Tries(x),
         phase[x] = "gone" => phase'[x] = "gone"
  PROVE  Truthful(x)'
BY DEF Truthful

LEMMA TriesSame ==
  ASSUME NEW x, UNCHANGED unpacked
  PROVE  Tries(x)' = Tries(x)
BY DEF Tries, unpacked

(* The service's side: an answer that promises a success, or none.         *)
LEMMA WrittenKept ==
  ASSUME SuccessInv, TypeOK', NEW c \in Client, NEW d \in Seq(Bytes), NEW n \in 0 .. Len(d),
         \A j \in 1 .. Len(d) : d[j][1] = c,
         m_file_fd > 0, Written(d, n, c), UNCHANGED client
  PROVE  \A x \in Client : Truthful(x)'
<1> DEFINE content == file \o SubSeq(d, 1, n)
<1>1. /\ TypeOK /\ file \in Seq(Bytes) /\ m_file_size' \in Int
      /\ installed \in [Client -> Nat] /\ failedInstalls \in [Client -> Nat]
      /\ successes \in [Client -> Nat]
      /\ (\A x \in Client : Truthful(x)) /\ UNCHANGED <<successes, phase>>
  BY DEF SuccessInv, IInv, TypeOK, SizeAccounts, SuccessIsUnpacked, Truthful, Tries, Told,
       client
<1>2. ASSUME NEW r \in Int, Reply(c, Answer("COMMENT", r))
      PROVE  /\ \A x \in Client \ {c} : Told(x)' = Told(x)
             /\ phase[c] = "gone" => Told(c)' = Told(c)
             /\ phase[c] # "gone" => Told(c)' = Told(c) + (IF r = 0 THEN 1 ELSE 0)
  BY <1>1, <1>2, ReplyTold
<1>3. ASSUME NEW r \in Int, r # 0, Reply(c, Answer("COMMENT", r)), UNCHANGED unpacked
      PROVE  \A x \in Client : Truthful(x)'
  <2>1. \A x \in Client : Told(x)' = Told(x)
    <3>1. Told(c) \in Nat
      BY <1>1, ToldIs
    <3>. QED
      BY <1>2, <1>3, <3>1
  <2>. QED
    BY <1>1, <1>3, <2>1, KeptSame, TriesSame
<1>4. CASE n = 0 /\ CloseFile /\ Reply(c, Answer("COMMENT", -1)) /\ UNCHANGED unpacked
  BY <1>3, <1>4
<1>5. CASE /\ n > 0 /\ m_file_size' # 0
           /\ file' = content /\ Reply(c, Answer("COMMENT", m_file_size'))
           /\ UNCHANGED <<open, m_file_fd, unpacked>>
  BY <1>1, <1>3, <1>5
<1>6. CASE n > 0 /\ m_file_size' = 0 /\ TransmitSucess(content, c)
  <2>1. \A x : content = Whole(x) => x = c
    <3>1. n \in 1 .. Len(d)
      BY <1>6
    <3>. QED
      BY <1>1, <3>1, WrittenOwner
  <2> HIDE DEF content
  <2>2. CASE content # Whole(m_str_file_md5)
    BY <1>3, <1>6, <2>2 DEF TransmitSucess
  <2>3. CASE content = Whole(m_str_file_md5)
    <3>1. content = Whole(c)
      BY <2>1, <2>3
    <3>2. Unpack(content) /\ Reply(c, Answer("COMMENT", 0))
      BY <1>6, <2>3 DEF TransmitSucess
    <3>3. Tries(c)' = Tries(c) + 1 /\ \A x \in Client \ {c} : Tries(x)' = Tries(x)
      <4>1. CASE /\ installed' = [x \in Client |-> IF content = Whole(x) THEN installed[x] + 1
                                                                         ELSE installed[x]]
                 /\ failedInstalls' = failedInstalls
        BY <1>1, <2>1, <3>1, <4>1 DEF Tries
      <4>2. CASE /\ failedInstalls' = [x \in Client |-> IF content = Whole(x)
                                           THEN failedInstalls[x] + 1 ELSE failedInstalls[x]]
                 /\ installed' = installed
        BY <1>1, <2>1, <3>1, <4>2 DEF Tries
      <4>. QED
        BY <3>2, <4>1, <4>2 DEF Unpack
    <3>4. \A x \in Client \ {c} : Truthful(x)'
      BY <1>1, <1>2, <3>2, <3>3, KeptSame
    <3>5. Truthful(c)'
      <4>1. /\ Told(c) \in Nat /\ Tries(c) \in Nat /\ successes[c] \in Nat
            /\ successes'[c] = successes[c] /\ phase'[c] = phase[c]
        BY <1>1, ToldIs DEF Tries
      <4>2. phase[c] = "gone" => successes'[c] <= Tries(c)'
        BY <1>1, <3>3, <4>1 DEF Truthful
      <4>3. phase[c] # "gone" => Told(c)' = Told(c) + 1
        BY <1>2, <3>2
      <4>4. phase[c] # "gone" => successes'[c] + Told(c)' = Tries(c)'
        BY <1>1, <3>3, <4>1, <4>3 DEF Truthful
      <4>. QED
        BY <4>1, <4>2, <4>4 DEF Truthful
    <3>. QED
      BY <3>4, <3>5
  <2>. QED
    BY <2>2, <2>3
<1>. QED
  BY <1>4, <1>5, <1>6 DEF Written

LEMMA ServiceKept ==
  ASSUME SuccessInv, TypeOK', NEW c \in Client, HandSysCfgMsg(c)
  PROVE  \A x \in Client : Truthful(x)'
<1>1. /\ TypeOK /\ (\A x \in Client : Truthful(x)) /\ up[c] \in Seq(Message) /\ up[c] # <<>>
      /\ UNCHANGED <<client, successes, phase>>
  BY DEF SuccessInv, IInv, TypeOK, SuccessIsUnpacked, Truthful, Tries, Told, client,
       HandSysCfgMsg,
         TransmitStart, TransmitComment, TransmitFailer, Receive
<1>2. CASE TransmitStart(c)
  <2> DEFINE r == IF m_file_fd' <= 0 THEN -1 ELSE 0
  <2>1. r \in Int /\ Reply(c, Answer("START", r)) /\ UNCHANGED unpacked
    BY <1>2 DEF TransmitStart
  <2> HIDE DEF r
  <2>2. \A x \in Client : Told(x)' = Told(x)
    <3>1. Told(c) \in Nat
      BY <1>1, ToldIs
    <3>. QED
      BY <1>1, <2>1, <3>1, ReplyTold
  <2>. QED
    BY <1>1, <2>1, <2>2, KeptSame, TriesSame
<1>3. CASE TransmitComment(c)
  <2>1. CASE NotOpen(c)
    <3>1. \A x \in Client : Told(x)' = Told(x)
      <4>1. Told(c) \in Nat
        BY <1>1, ToldIs
      <4>. QED
        BY <1>1, <2>1, <4>1, ReplyTold DEF NotOpen
    <3>. QED
      BY <1>1, <2>1, <3>1, KeptSame, TriesSame DEF NotOpen
  <2>2. CASE ~NotOpen(c)
    <3> DEFINE d == Head(up[c]).data
    <3>1. Head(up[c]) \in Message /\ Head(up[c]).type = "COMMENT" /\ Head(up[c]) = up[c][1]
      BY <1>1, <1>3 DEF TransmitComment
    <3>2. d \in Seq(Bytes)
      BY <3>1, MessageTypes
    <3>3. \A j \in 1 .. Len(d) : d[j][1] = c
      BY <1>1, <3>1 DEF SuccessInv, OwnBytes, Own
    <3>4. m_file_fd > 0 /\ \E n \in 0 .. Len(d) : Written(d, n, c)
      BY <1>3, <2>2 DEF TransmitComment
    <3> HIDE DEF d
    <3>. QED
      BY <1>1, <3>2, <3>3, <3>4, WrittenKept
  <2>. QED
    BY <2>1, <2>2
<1>4. CASE TransmitFailer(c)
  <2>1. \A x \in Client : Told(x)' = Told(x)
    BY <1>1, <1>4, ToldIs, ToldIsNext DEF TransmitFailer
  <2>. QED
    BY <1>1, <1>4, <2>1, KeptSame, TriesSame DEF TransmitFailer
<1>. QED
  BY <1>2, <1>3, <1>4 DEF HandSysCfgMsg

(* The clients' side: a promise becomes a success when it is taken.        *)
LEMMA ClientKept ==
  ASSUME SuccessInv, TypeOK', NEW c \in Client, HandNetMsg(c) \/ User(c) \/ ServerDies(c)
  PROVE  \A x \in Client : Truthful(x)'
<1>1. /\ TypeOK /\ (\A x \in Client : Truthful(x)) /\ down \in [Client -> Seq(AnswerSet)]
      /\ successes \in [Client -> Nat] /\ installed \in [Client -> Nat]
      /\ failedInstalls \in [Client -> Nat]
      /\ phase \in [Client -> {"idle", "uploading", "stuck", "gone"}]
  BY DEF SuccessInv, IInv, TypeOK, SuccessIsUnpacked, Truthful, Tries, Told
<1>2. ASSUME NEW x \in Client PROVE Told(x) \in Nat /\ (down'[x] = down[x] => Told(x)' = Told(x))
  BY <1>1, ToldIs, ToldIsNext
<1>3. ASSUME NEW a \in AnswerSet, a = Head(down[c]), Take(c, a.type),
             successes'[c] = successes[c] + (IF a = Answer("COMMENT", 0) THEN 1 ELSE 0),
             \A x \in Client \ {c} : successes'[x] = successes[x] /\ phase'[x] = phase[x]
      PROVE  \A x \in Client : Truthful(x)'
  <2>1. /\ down[c] # <<>> /\ down'[c] = Tail(down[c]) /\ phase[c] # "gone"
        /\ \A x \in Client \ {c} : down'[x] = down[x]
        /\ UNCHANGED unpacked
    BY <1>1, <1>3 DEF Take, Receives, history, unpacked
  <2>2. \A x \in Client \ {c} : Truthful(x)'
    BY <1>1, <1>2, <1>3, <2>1, KeptSame, TriesSame
  <2>3. Told(c)' = Told(c) - (IF a = Answer("COMMENT", 0) THEN 1 ELSE 0)
    <3> DEFINE a0 == Answer("COMMENT", 0)
    <3>1. Told(c) = Cardinality(Where(down[c], a0)) /\ Told(c)' = Cardinality(Where(down'[c], a0))
      BY <1>1, ToldIs, ToldIsNext
    <3> HIDE DEF a0
    <3>2. Cardinality(Where(Tail(down[c]), a0)) = Cardinality(Where(down[c],
              a0)) - (IF a = a0 THEN 1 ELSE 0)
      BY <1>1, <1>3, <2>1, WhereTail
    <3>. QED
      BY <2>1, <3>1, <3>2 DEF a0
  <2>4. successes[c] + Told(c) = Tries(c)
    BY <1>1, <2>1 DEF Truthful
  <2>5. Truthful(c)'
    <3>1. Tries(c)' = Tries(c) /\ Tries(c) \in Nat
      BY <1>1, <2>1, TriesSame DEF Tries
    <3>. QED
      BY <1>1, <1>2, <1>3, <2>1, <2>3, <2>4, <3>1 DEF Truthful
  <2>. QED
    BY <2>2, <2>5
<1>4. CASE StartAnswered(c)
  <2> DEFINE a == Head(down[c])
  <2>1. a \in AnswerSet /\ a.type = "START" /\ Take(c, a.type)
    BY <1>1, <1>4 DEF StartAnswered, Take
  <2>2. UNCHANGED successes /\ \A x \in Client \ {c} : phase'[x] = phase[x]
    BY <1>1, <1>4 DEF StartAnswered
  <2> HIDE DEF a
  <2>3. a # Answer("COMMENT", 0)
    BY <2>1 DEF Answer
  <2>. QED
    BY <1>1, <1>3, <2>1, <2>2, <2>3 DEF a
<1>5. CASE CommentAnswered(c)
  <2> DEFINE a == Head(down[c])
  <2>1. a \in AnswerSet /\ a.type = "COMMENT" /\ Take(c, a.type)
    BY <1>1, <1>5 DEF CommentAnswered, Take
  <2>2. /\ successes' = IF a.ret = 0 THEN [successes EXCEPT ![c] = @ + 1] ELSE successes
        /\ \A x \in Client \ {c} : phase'[x] = phase[x]
    BY <1>1, <1>5, <2>1 DEF CommentAnswered, StopSendFile, AnswerSet
  <2> HIDE DEF a
  <2>3. a = Answer("COMMENT", 0) <=> a.ret = 0
    BY <2>1 DEF Answer, AnswerSet
  <2>. QED
    BY <1>1, <1>3, <2>1, <2>2, <2>3 DEF a
<1>6. CASE AnswersCoalesce(c) \/ UploadClicked(c) \/ CancelClicked(c)
  <2>1. UNCHANGED <<down, successes, unpacked>>
            /\ \A x \in Client : phase[x] = "gone" => phase'[x] = "gone"
    BY <1>1, <1>6 DEF AnswersCoalesce, UploadClicked, CancelClicked, Receives,
         client, history, unpacked
  <2>. QED
    BY <1>1, <1>2, <2>1, KeptSame, TriesSame
<1>7. CASE Quit(c) \/ ServerDies(c)
  <2>1. /\ UNCHANGED <<successes, unpacked>>
        /\ \A x \in Client : phase'[x] = "gone" \/ (down'[x] = down[x] /\ phase'[x] = phase[x])
    BY <1>1, <1>7 DEF Quit, ServerDies, history, unpacked
  <2>2. \A x \in Client : successes[x] <= Tries(x)
    BY <1>1, <1>2 DEF Truthful, Tries
  <2>. QED
    BY <1>1, <1>2, <2>1, <2>2, KeptSame, TriesSame DEF Truthful
<1>. QED
  BY <1>4, <1>5, <1>6, <1>7 DEF HandNetMsg, User

LEMMA NextSuccess == SuccessInv /\ [Next]_vars => SuccessInv'
<1> SUFFICES ASSUME SuccessInv, [Next]_vars PROVE SuccessInv'
  OBVIOUS
<1>1. IInv' /\ OwnBytes'
  BY NextIInv, NextOwn DEF SuccessInv
<1>2. \A x \in Client : Truthful(x)'
  <2>1. CASE UNCHANGED vars
    BY <2>1 DEF vars, client, history, unpacked, SuccessInv, SuccessIsUnpacked, Truthful, Tries,
         Told, Promised
  <2>2. TypeOK'
    BY <1>1 DEF IInv
  <2>. QED
    BY <2>1, <2>2, ServiceKept, ClientKept DEF Next
<1>3. SuccessIsUnpacked'
  BY <1>2 DEF SuccessIsUnpacked, Truthful, Tries, Told
<1>. QED
  BY <1>1, <1>3 DEF SuccessInv

LEMMA InitSuccess == Init => SuccessInv
<1> SUFFICES ASSUME Init PROVE SuccessInv
  OBVIOUS
<1>1. IInv
  BY InitIInv
<1>2. ASSUME NEW c \in Client PROVE Own(c, up[c])
  BY DEF Init, Own
<1>3. ASSUME NEW c \in Client PROVE Truthful(c)
  <2>1. Promised(c) = {}
    BY DEF Init, Promised
  <2>2. Told(c) = 0
    BY <2>1, FS_EmptySet DEF Told
  <2>. QED
    BY <2>2 DEF Init, Truthful, Tries
<1>. QED
  BY <1>1, <1>2, <1>3 DEF SuccessInv, OwnBytes, SuccessIsUnpacked, Truthful, Tries, Told

(* A client that is told of a success has had its own whole file           *)
(* unpacked, once for every time it is told, which tar or run.sh may fail  *)
(* to do without anybody being told; nobody else's file is ever unpacked.  *)
THEOREM SuccessMeansUnpacked == Spec => []SuccessIsUnpacked
<1>1. SuccessInv => SuccessIsUnpacked
  BY DEF SuccessInv
<1>. QED
  BY <1>1, InitSuccess, NextSuccess, PTL DEF Spec
-----------------------------------------------------------------------------
(* A user who never clicked during an upload has one request or answer     *)
(* under way at most, and a phase that fits it: q and a are what is on the *)
(* two ways of the connection.                                             *)
Asks(q) == {i \in 1 .. Len(q) : q[i].type # "FAILER"}
Fits(type, ph, out) ==
  out = "none" /\ (ph = "gone" \/ (type = "COMMENT" <=> ph = "uploading"))
OneAtATime(q, a, ph, out) ==
  /\ \A i, j \in Asks(q) : i = j
  /\ Len(a) <= 1
  /\ a # <<>> => Asks(q) = {} /\ ph # "gone" /\ Fits(a[1].type, ph, out)
  /\ \A i \in Asks(q) : Fits(q[i].type, ph, out)
  /\ ph # "stuck"
  /\ ph = "uploading" => Asks(q) # {} \/ a # <<>>
Patient(c) == OneAtATime(up[c], down[c], phase[c], outcome[c])

(* What of a failure that FailureHasACause names has happened. *)
Causes(c) ==
  c \in disturbed \cup impatient \/ faults > 0 \/ earlyCancels > 0 \/ superseded >= MaxFd

(* Without a cause, the one upload u of the service is this client's, and  *)
(* its file holds the first k bytes.                                       *)
Upload == [fd |-> m_file_fd, md5 |-> m_str_file_md5, file |-> file, size |-> m_file_size]
Holds(u, c, k) == u.fd > 0 /\ u.md5 = c /\ u.file = SubSeq(Whole(c), 1, k)
NextChunk(u, c, d, p) ==
  /\ Len(d) > 0 /\ Len(d) <= p
  /\ d = SubSeq(Whole(c), p - Len(d) + 1, p)
  /\ Holds(u, c, p - Len(d))
Promising(u, c, x, p) ==
  IF x.type = "START" THEN x.ret = 0 /\ Holds(u, c, 0)
  ELSE x.ret = 0 \/ (x.ret > 0 /\ x.ret = u.size /\ Holds(u, c, p))
Well(u, c, q, a, p, out) ==
  /\ out \in {"none", "ok"}
  /\ \A i \in Asks(q) : q[i].type = "COMMENT" => NextChunk(u, c, q[i].data, p)
  /\ a # <<>> => Promising(u, c, a[1], p)
GoesWell(c) == Well(Upload, c, up[c], down[c], pos[c], outcome[c])

CauseInv ==
  /\ IInv
  /\ earlyCancels = 0 => 0 \in open
  /\ \A c \in Client : c \notin impatient => Patient(c)
  /\ \A c \in Client : ~Causes(c) => GoesWell(c)

LEMMA PatientNext ==
  ASSUME NEW c
  PROVE  Patient(c)' <=> OneAtATime(up'[c], down'[c], phase'[c], outcome'[c])
BY DEF Patient, OneAtATime, Fits, Asks

LEMMA GoesWellNext ==
  ASSUME NEW c
  PROVE  GoesWell(c)' <=> Well(Upload', c, up'[c], down'[c], pos'[c], outcome'[c])
BY DEF GoesWell, Well, NextChunk, Promising, Holds, Asks, Whole

-----------------------------------------------------------------------------
LEMMA AsksTail ==
  ASSUME NEW q \in Seq(Message), q # <<>>
  PROVE  /\ Head(q) = q[1] /\ 1 \in 1 .. Len(q) /\ Tail(q) \in Seq(Message)
         /\ \A i \in Asks(Tail(q)) : i + 1 \in Asks(q) /\ Tail(q)[i] = q[i + 1]
              /\ i + 1 # 1 /\ i \in Nat
         /\ Asks(Tail(q)) = {} => Asks(q) \subseteq {1}
<1>1. /\ Len(Tail(q)) = Len(q) - 1 /\ Len(q) \in Nat \ {0} /\ Head(q) = q[1]
           /\ Tail(q) \in Seq(Message)
      /\ \A i \in 1 .. Len(q) - 1 : Tail(q)[i] = q[i + 1] /\ i + 1 \in 1 .. Len(q)
           /\ i + 1 # 1 /\ i \in Nat
  OBVIOUS
<1>2. \A i \in 1 .. Len(q) : i # 1 => i - 1 \in 1 .. Len(q) - 1 /\ (i - 1) + 1 = i
  BY <1>1
<1>3. ASSUME NEW i \in Asks(q), i # 1 PROVE i - 1 \in Asks(Tail(q))
  <2>1. i \in 1 .. Len(q) /\ q[i].type # "FAILER"
    BY DEF Asks
  <2>2. i - 1 \in 1 .. Len(q) - 1 /\ Tail(q)[i - 1] = q[i]
    BY <1>1, <1>2, <1>3, <2>1
  <2>. QED
    BY <1>1, <2>1, <2>2 DEF Asks
<1>4. ASSUME NEW i \in Asks(Tail(q))
      PROVE  i + 1 \in Asks(q) /\ Tail(q)[i] = q[i + 1] /\ i + 1 # 1 /\ i \in Nat
  <2>1. i \in 1 .. Len(q) - 1 /\ Tail(q)[i].type # "FAILER"
    BY <1>1 DEF Asks
  <2>. QED
    BY <1>1, <2>1 DEF Asks
<1>5. 1 \in 1 .. Len(q)
  BY <1>1
<1>. QED
  BY <1>1, <1>3, <1>4, <1>5

LEMMA AsksAppend ==
  ASSUME NEW q \in Seq(Message), NEW m \in Message
  PROVE  /\ Append(q, m) \in Seq(Message)
         /\ \A i \in Asks(Append(q, m)) :
              (i \in Asks(q) /\ Append(q, m)[i] = q[i])
              \/ (i = Len(q) + 1 /\ Append(q, m)[i] = m /\ m.type # "FAILER")
         /\ Asks(q) \subseteq Asks(Append(q, m))
         /\ m.type # "FAILER" => Len(q) + 1 \in Asks(Append(q, m))
<1>1. /\ Len(Append(q, m)) = Len(q) + 1 /\ Len(q) \in Nat /\ Append(q, m) \in Seq(Message)
      /\ \A i \in 1 .. Len(q) + 1 : Append(q, m)[i] = IF i = Len(q) + 1 THEN m ELSE q[i]
      /\ \A i \in 1 .. Len(q) + 1 : i # Len(q) + 1 => i \in 1 .. Len(q)
      /\ \A i \in 1 .. Len(q) : i \in 1 .. Len(q) + 1 /\ i # Len(q) + 1
      /\ Len(q) + 1 \in 1 .. Len(q) + 1
  OBVIOUS
<1>. QED
  BY <1>1 DEF Asks

LEMMA AsksPrefix ==
  ASSUME NEW q \in Seq(Message), NEW n \in 0 .. Len(q)
  PROVE  \A i \in Asks(SubSeq(q, 1, n)) : i \in Asks(q) /\ SubSeq(q, 1, n)[i] = q[i]
<1>1. /\ Len(SubSeq(q, 1, n)) = n /\ Len(q) \in Nat
      /\ \A i \in 1 .. n : SubSeq(q, 1, n)[i] = q[i] /\ i \in 1 .. Len(q)
  BY SubSeqProperties
<1>. QED
  BY <1>1 DEF Asks

LEMMA AsksNothing == Asks(<<>>) = {}
BY DEF Asks

(* The service takes a request, and answers it unless the client is gone.  *)
LEMMA OneAnswered ==
  ASSUME NEW q \in Seq(Message), q # <<>>, Head(q).type # "FAILER", NEW a \in Seq(AnswerSet),
         NEW ph, NEW out, OneAtATime(q, a, ph, out), NEW x \in AnswerSet, x.type = Head(q).type
  PROVE  /\ a = <<>> /\ Asks(Tail(q)) = {} /\ Fits(Head(q).type, ph, out)
              /\ 1 \in Asks(q) /\ out = "none"
         /\ ph = "gone" => OneAtATime(Tail(q), a, ph, out)
         /\ ph # "gone" => OneAtATime(Tail(q), Append(a, x), ph, out)
<1>1. 1 \in Asks(q) /\ Head(q) = q[1]
  BY AsksTail DEF Asks
<1>2. a = <<>> /\ Asks(Tail(q)) = {} /\ Fits(Head(q).type, ph, out) /\ out = "none"
  BY <1>1, AsksTail DEF OneAtATime, Fits
<1>3. Append(a, x) = <<x>> /\ Len(<<x>>) = 1 /\ <<x>>[1] = x /\ <<x>> # <<>> /\ Len(a) = 0
  BY <1>2
<1>. QED
  BY <1>1, <1>2, <1>3 DEF OneAtATime

LEMMA OneCancelled ==
  ASSUME NEW q \in Seq(Message), q # <<>>, Head(q).type = "FAILER", NEW a,
         NEW ph, NEW out, OneAtATime(q, a, ph, out)
  PROVE  OneAtATime(Tail(q), a, ph, out)
<1>1. 1 \notin Asks(q)
  BY AsksTail DEF Asks
<1>2. \A i, j \in Asks(Tail(q)) : i = j
  <2> TAKE i, j \in Asks(Tail(q))
  <2>1. i + 1 = j + 1 /\ i \in Nat /\ j \in Nat
    BY AsksTail DEF OneAtATime
  <2>. QED
    BY <2>1
<1>3. \A i \in Asks(Tail(q)) : Fits(Tail(q)[i].type, ph, out)
  BY AsksTail DEF OneAtATime
<1>4. Asks(Tail(q)) = {} <=> Asks(q) = {}
  BY <1>1, AsksTail
<1>. QED
  BY <1>2, <1>3, <1>4 DEF OneAtATime

LEMMA OneCancels ==
  ASSUME NEW q \in Seq(Message), NEW a, NEW ph, NEW out, OneAtATime(q, a, ph, out)
  PROVE  OneAtATime(Append(q, Failer), a, ph, out)
<1>1. Failer \in Message /\ Failer.type = "FAILER"
  BY MessageTypes DEF Failer
<1>2. \A i \in Asks(Append(q, Failer)) : i \in Asks(q) /\ Append(q, Failer)[i] = q[i]
  BY <1>1, AsksAppend
<1>3. Asks(Append(q, Failer)) = Asks(q)
  BY <1>1, <1>2, AsksAppend
<1>. QED
  BY <1>2, <1>3 DEF OneAtATime

LEMMA OneStarts ==
  ASSUME NEW ph, ph \notin {"uploading", "stuck", "gone"}
  PROVE  OneAtATime(Append(<<>>, Start), <<>>, ph, "none")
<1>1. Start \in Message /\ Start.type = "START" /\ <<>> \in Seq(Message) /\ Len(<<>>) = 0
  BY MessageTypes DEF Start
<1>2. \A i \in Asks(Append(<<>>, Start)) : i = 1 /\ Append(<<>>, Start)[i] = Start
  <2>1. /\ Append(<<>>, Start) = <<Start>> /\ Len(<<Start>>) = 1 /\ <<Start>>[1] = Start
        /\ \A i \in 1 .. 1 : i = 1
    BY Z3
  <2>. QED
    BY <2>1 DEF Asks
<1>. QED
  BY <1>1, <1>2 DEF OneAtATime, Fits

LEMMA OneSends ==
  ASSUME NEW q \in Seq(Message), NEW a, NEW ph, NEW out, OneAtATime(q, a, ph, out), a # <<>>,
         NEW d \in Seq(Bytes)
  PROVE  OneAtATime(Append(q, Comment(d)), <<>>, "uploading", out)
<1>1. Comment(d) \in Message /\ Comment(d).type = "COMMENT"
  BY MessageTypes DEF Comment
<1>2. Asks(q) = {} /\ out = "none"
  BY DEF OneAtATime, Fits
<1>3. \A i \in Asks(Append(q, Comment(d))) : i = Len(q) + 1 /\ Append(q, Comment(d))[i] = Comment(d)
  BY <1>1, <1>2, AsksAppend
<1>4. Asks(Append(q, Comment(d))) # {}
  BY <1>1, AsksAppend
<1>. QED
  BY <1>1, <1>2, <1>3, <1>4 DEF OneAtATime, Fits

LEMMA OneEnds ==
  ASSUME NEW q, NEW a, NEW ph, NEW out, OneAtATime(q, a, ph, out), a # <<>>,
         NEW ph2, ph2 \notin {"uploading", "stuck"}, NEW out2
  PROVE  OneAtATime(q, <<>>, ph2, out2)
BY DEF OneAtATime

LEMMA OneQuits ==
  ASSUME NEW q \in Seq(Message), NEW n \in 0 .. Len(q), NEW a, NEW ph, NEW out,
             OneAtATime(q, a, ph, out)
  PROVE  OneAtATime(SubSeq(q, 1, n), <<>>, "gone", out)
BY AsksPrefix DEF OneAtATime, Fits

LEMMA OneIsGone ==
  ASSUME NEW out
  PROVE  OneAtATime(<<>>, <<>>, "gone", out)
BY AsksNothing DEF OneAtATime
-----------------------------------------------------------------------------
(* What CauseInv says of one client, and of the state it is about. *)
Fine(c) == (c \notin impatient => Patient(c)) /\ (~Causes(c) => GoesWell(c))

LEMMA CauseTypes ==
  ASSUME CauseInv, NEW c \in Client
  PROVE  /\ TypeOK /\ up[c] \in Seq(Message) /\ down[c] \in Seq(AnswerSet)
         /\ up \in [Client -> Seq(Message)] /\ down \in [Client -> Seq(AnswerSet)]
         /\ pos \in [Client -> Nat] /\ pos[c] \in 0 .. FileLen[c]
         /\ phase \in [Client -> {"idle", "uploading", "stuck", "gone"}]
         /\ outcome \in [Client -> {"none", "ok", "failed", "refused"}]
         /\ faults \in Nat /\ superseded \in Nat /\ earlyCancels \in Nat /\ MaxFd \in Nat
         /\ disturbed \subseteq Client /\ impatient \subseteq Client
         /\ m_file_size \in Int /\ m_file_fd \in -1 .. MaxFd /\ FileLen[c] \in Nat \ {0}
         /\ Fine(c)
<1>1. TypeOK /\ Fine(c)
  BY DEF CauseInv, IInv, Fine
<1>2. MaxFd \in Nat /\ FileLen[c] \in Nat \ {0}
  BY TransmitAssumption
<1>3. pos[c] \in 0 .. FileLen[c]
  BY <1>1, <1>2 DEF TypeOK
<1>. QED
  BY <1>1, <1>2, <1>3 DEF TypeOK

LEMMA OthersKeep ==
  ASSUME NEW c \in Client, Fine(c), up'[c] = up[c], down'[c] = down[c], phase'[c] = phase[c],
         pos'[c] = pos[c], outcome'[c] = outcome[c], c \in impatient' <=> c \in impatient,
         c \in disturbed' \/ UNCHANGED <<server, disturbed, faults, earlyCancels, superseded>>
  PROVE  Fine(c)'
<1>1. c \notin impatient' => Patient(c)'
  BY PatientNext DEF Fine, Patient
<1>2. ~Causes(c)' => GoesWell(c)'
  <2> SUFFICES ASSUME ~Causes(c)' PROVE GoesWell(c)'
    OBVIOUS
  <2>1. UNCHANGED <<server, disturbed, faults, earlyCancels, superseded>> /\ ~Causes(c)
    BY DEF Causes
  <2>2. Upload' = Upload
    BY <2>1 DEF server, Upload
  <2>. QED
    BY <2>1, <2>2, GoesWellNext DEF Fine, GoesWell
<1>. QED
  BY <1>1, <1>2 DEF Fine

(* A START that finds no cause opens the file for its client.              *)
LEMMA StartOpens ==
  ASSUME CauseInv, IInv', NEW c \in Client, TransmitStart(c), ~Causes(c)'
  PROVE  m_file_fd' > 0 /\ file' = <<>> /\ m_str_file_md5' = c
<1>1. /\ faults' = 0 /\ faults \in Nat /\ earlyCancels' = 0 /\ superseded' < MaxFd
      /\ MaxFd \in Nat /\ superseded' \in Nat /\ earlyCancels = 0 /\ m_str_file_md5' = c
  BY TransmitAssumption DEF CauseInv, IInv, TypeOK, Causes, TransmitStart
<1>2. ASSUME OpenFails PROVE FALSE
  <2>1. 0 .. MaxFd \subseteq open /\ open' = open /\ m_file_fd' = -1
    BY <1>1, <1>2 DEF OpenFails, Fault
  <2>2. open' \ {0, m_file_fd'} = 1 .. MaxFd
    <3>1. open \subseteq 0 .. MaxFd
      BY DEF CauseInv, IInv, TypeOK
    <3>2. open' = 0 .. MaxFd
      BY <2>1, <3>1
    <3>3. (0 .. MaxFd) \ {0, -1} = 1 .. MaxFd
      BY <1>1
    <3>. QED
      BY <2>1, <3>2, <3>3
  <2>3. Cardinality(1 .. MaxFd) = MaxFd
    BY <1>1, FS_Interval
  <2>4. Cardinality(open' \ {0, m_file_fd'}) = superseded'
    BY DEF IInv, LeakAccounted
  <2>5. superseded' = MaxFd
    BY <2>2, <2>3, <2>4
  <2>. QED
    BY <1>1, <2>5
<1>3. ASSUME NEW fd \in 0 .. MaxFd, OpenSucceeds(fd) PROVE m_file_fd' > 0 /\ file' = <<>>
  <2>1. 0 \in open
    BY <1>1 DEF CauseInv
  <2>. QED
    BY <1>1, <1>3, <2>1 DEF OpenSucceeds, LowestFree
<1>. QED
  BY <1>1, <1>2, <1>3 DEF TransmitStart

LEMMA StartFine ==
  ASSUME CauseInv, IInv', NEW c \in Client, TransmitStart(c)
  PROVE  Fine(c)'
<1> DEFINE r == IF m_file_fd' <= 0 THEN -1 ELSE 0
           x == Answer("START", r)
<1>1. /\ up[c] # <<>> /\ up'[c] = Tail(up[c]) /\ Head(up[c]).type = "START"
           /\ UNCHANGED <<client, impatient>>
      /\ x \in AnswerSet /\ x.type = "START" /\ x.ret = r
      /\ down'[c] = IF phase[c] = "gone" THEN down[c] ELSE Append(down[c], x)
  <2>1. up \in [Client -> Seq(Message)] /\ down \in [Client -> Seq(AnswerSet)]
    BY CauseTypes
  <2>2. Receive(c) /\ Reply(c, x) /\ Head(up[c]).type = "START" /\ UNCHANGED <<client, impatient>>
    BY DEF TransmitStart
  <2>3. x \in AnswerSet /\ x.type = "START" /\ x.ret = r
    <3>1. r \in Int
      OBVIOUS
    <3> HIDE DEF r
    <3>. QED
      BY <3>1, MessageTypes DEF Answer
  <2> HIDE DEF x
  <2>. QED
    BY <2>1, <2>2, <2>3 DEF Receive, Reply
<1>2. /\ up[c] \in Seq(Message) /\ down[c] \in Seq(AnswerSet) /\ Fine(c)
      /\ phase'[c] = phase[c] /\ outcome'[c] = outcome[c] /\ pos'[c] = pos[c]
  BY <1>1, CauseTypes DEF client
<1> HIDE DEF x
<1>3. c \notin impatient =>
        /\ down[c] = <<>> /\ Asks(up'[c]) = {} /\ outcome[c] = "none"
        /\ OneAtATime(up'[c], down'[c], phase[c], outcome[c])
  BY <1>1, <1>2, OneAnswered DEF Fine, Patient
<1>4. c \notin impatient' => Patient(c)'
  BY <1>1, <1>2, <1>3, PatientNext
<1>5. ASSUME ~Causes(c)' PROVE GoesWell(c)'
  <2>1. m_file_fd' > 0 /\ file' = <<>> /\ m_str_file_md5' = c /\ r = 0
    <3>1. m_file_fd' \in -1 .. MaxFd /\ MaxFd \in Nat
      BY TransmitAssumption DEF IInv, TypeOK
    <3>2. m_file_fd' > 0 /\ file' = <<>> /\ m_str_file_md5' = c
      BY <1>5, StartOpens
    <3>. QED
      BY <3>1, <3>2
  <2>2. c \notin impatient
    BY <1>1, <1>5 DEF Causes
  <2>3. SubSeq(Whole(c), 1, 0) = <<>>
    BY WholeType, SubSeqProperties
  <2>4. Holds(Upload', c, 0)
    BY <2>1, <2>3 DEF Holds, Upload, Whole
  <2>5. down'[c] # <<>> => Promising(Upload', c, down'[c][1], pos'[c])
    <3>1. down'[c] = <<>> \/ down'[c] = <<x>>
      <4>1. Append(<<>>, x) = <<x>>
        OBVIOUS
      <4>. QED
        BY <1>1, <1>3, <2>2, <4>1
    <3>. QED
      BY <1>1, <2>1, <2>4, <3>1 DEF Promising
  <2>. QED
    BY <1>2, <1>3, <2>2, <2>5, GoesWellNext DEF Well
<1>. QED
  BY <1>4, <1>5 DEF Fine

(* The chunk that comes next completes the file or goes on with it.        *)
LEMMA NextChunkFits ==
  ASSUME NEW c \in Client, NEW p \in 0 .. FileLen[c], NEW d \in Seq(Bytes), Len(d) > 0, Len(d) <= p,
         d = SubSeq(Whole(c), p - Len(d) + 1, p)
  PROVE  /\ SubSeq(Whole(c), 1, p - Len(d)) \o d = SubSeq(Whole(c), 1, p)
         /\ Len(SubSeq(Whole(c), 1, p - Len(d))) = p - Len(d)
         /\ p = FileLen[c] => SubSeq(Whole(c), 1, p) = Whole(c)
<1> DEFINE w == Whole(c)
           k == p - Len(d)
           f == SubSeq(w, 1, k)
           s == SubSeq(w, 1, p)
<1>1. w \in Seq(Bytes) /\ Len(w) = FileLen[c] /\ FileLen[c] \in Nat
  BY WholeType, TransmitAssumption
<1>2. k \in 0 .. Len(w) /\ p \in 0 .. Len(w) /\ Len(d) \in Nat /\ p = k + Len(d)
  BY <1>1
<1>3. \A j \in 1 .. Len(d) : d[j] = w[k + j]
  <2>1. 0 <= k /\ k \in Nat /\ p \in k .. FileLen[c]
    BY <1>1, <1>2
  <2>2. \A j \in 1 .. p - k : d[j] = <<c, k + j>>
    BY <1>1, <2>1, ChunkIs
  <2>3. \A i \in 1 .. FileLen[c] : w[i] = <<c, i>>
    BY DEF Whole
  <2>4. \A j \in 1 .. p - k : k + j \in 1 .. FileLen[c]
    BY <1>1, <2>1
  <2>5. p - k = Len(d)
    BY <1>2
  <2> HIDE DEF w, k
  <2>. QED
    BY <2>2, <2>3, <2>4, <2>5
<1> HIDE DEF w, k
<1>4. f \in Seq(Bytes) /\ Len(f) = k /\ \A j \in 1 .. k : f[j] = w[j]
  BY <1>1, <1>2, PrefixLength, SubSeqProperties
<1>5. s \in Seq(Bytes) /\ Len(s) = p /\ \A j \in 1 .. p : s[j] = w[j]
  BY <1>1, <1>2, PrefixLength, SubSeqProperties
<1> HIDE DEF f, s
<1>6. /\ f \o d \in Seq(Bytes) /\ Len(f \o d) = p
      /\ \A j \in 1 .. p : (f \o d)[j] = IF j <= k THEN f[j] ELSE d[j - k]
  BY <1>2, <1>4, ConcatProperties
<1>7. \A j \in 1 .. p : (f \o d)[j] = s[j]
  <2> TAKE j \in 1 .. p
  <2>1. CASE j <= k
    BY <1>2, <1>4, <1>5, <1>6, <2>1
  <2>2. CASE ~(j <= k)
    <3>1. j - k \in 1 .. Len(d) /\ k + (j - k) = j
      BY <1>1, <1>2, <2>2
    <3>2. d[j - k] = w[j]
      BY <1>3, <3>1
    <3>. QED
      BY <1>5, <1>6, <2>2, <3>2
  <2>. QED
    BY <2>1, <2>2
<1>8. f \o d = s
  BY <1>5, <1>6, <1>7, SeqEqual
<1>9. p = Len(w) => s = w
  <2> SUFFICES ASSUME p = Len(w) PROVE s = w
    OBVIOUS
  <2>1. Len(s) = Len(w) /\ \A j \in 1 .. Len(w) : s[j] = w[j]
    BY <1>5
  <2>. QED
    BY <1>1, <1>5, <2>1, SeqEqual
<1>. QED
  BY <1>1, <1>4, <1>8, <1>9 DEF w, k, f, s

LEMMA CommentFine ==
  ASSUME CauseInv, NEW c \in Client, TransmitComment(c)
  PROVE  Fine(c)'
<1>1. /\ TypeOK /\ up[c] \in Seq(Message) /\ down[c] \in Seq(AnswerSet) /\ Fine(c)
      /\ up \in [Client -> Seq(Message)] /\ down \in [Client -> Seq(AnswerSet)]
      /\ pos[c] \in 0 .. FileLen[c] /\ FileLen[c] \in Nat
  BY CauseTypes
<1>2. /\ up[c] # <<>> /\ up'[c] = Tail(up[c]) /\ Head(up[c]).type = "COMMENT"
      /\ UNCHANGED <<phase, pos, outcome, impatient, superseded, earlyCancels>>
      /\ c \in disturbed => c \in disturbed'
  BY <1>1 DEF TransmitComment, Receive, client
<1>3. PICK r \in Int : Reply(c, Answer("COMMENT", r))
  <2>1. m_file_size' \in Int \/ NotOpen(c)
    <3>1. m_file_size \in Int
      BY <1>1 DEF TypeOK
    <3>2. \A n \in Nat : Written(Head(up[c]).data, n, c) => m_file_size' \in Int
      BY <3>1 DEF Written
    <3>3. Head(up[c]).data \in Seq(Bytes)
      BY <1>1, <1>2, MessageTypes
    <3>. QED
      BY <3>2, <3>3 DEF TransmitComment
  <2>. QED
    BY <2>1 DEF TransmitComment, NotOpen, Written, TransmitSucess
<1> DEFINE x == Answer("COMMENT", r)
<1>4. /\ x \in AnswerSet /\ x.type = "COMMENT" /\ x.ret = r
      /\ down'[c] = IF phase[c] = "gone" THEN down[c] ELSE Append(down[c], x)
  BY <1>1, <1>3, MessageTypes DEF Reply, Answer
<1>5. c \notin impatient =>
        /\ down[c] = <<>> /\ Asks(up'[c]) = {} /\ outcome[c] = "none" /\ 1 \in Asks(up[c])
        /\ OneAtATime(up'[c], down'[c], phase[c], outcome[c])
  <2> SUFFICES ASSUME c \notin impatient
               PROVE  /\ down[c] = <<>> /\ Asks(up'[c]) = {} /\ outcome[c] = "none"
                           /\ 1 \in Asks(up[c])
                      /\ OneAtATime(up'[c], down'[c], phase[c], outcome[c])
    OBVIOUS
  <2> HIDE DEF x
  <2>1. OneAtATime(up[c], down[c], phase[c], outcome[c])
    BY <1>1 DEF Fine, Patient
  <2>2. /\ down[c] = <<>> /\ Asks(Tail(up[c])) = {} /\ 1 \in Asks(up[c]) /\ outcome[c] = "none"
        /\ phase[c] = "gone" => OneAtATime(Tail(up[c]), down[c], phase[c], outcome[c])
        /\ phase[c] # "gone" => OneAtATime(Tail(up[c]), Append(down[c], x), phase[c], outcome[c])
    <3>1. up[c] \in Seq(Message) /\ up[c] # <<>> /\ Head(up[c]).type # "FAILER"
          /\ down[c] \in Seq(AnswerSet) /\ x \in AnswerSet /\ x.type = Head(up[c]).type
      BY <1>1, <1>2, <1>4
    <3>. QED
      BY <2>1, <3>1, OneAnswered
  <2>. QED
    BY <1>2, <1>4, <2>2
<1>6. c \notin impatient' => Patient(c)'
  BY <1>2, <1>5, PatientNext
<1>7. ASSUME ~Causes(c)' PROVE GoesWell(c)'
  <2> DEFINE d == Head(up[c]).data
             p == pos[c]
  <2>1. /\ faults' = 0 /\ faults = 0 /\ ~Causes(c) /\ c \notin impatient /\ Head(up[c]) = up[c][1]
        /\ d \in Seq(Bytes)
    <3>1. faults \in Nat /\ faults' \in Nat /\ faults <= faults'
      <4>1. faults \in Nat
        BY <1>1 DEF TypeOK
      <4>2. faults' = faults \/ faults' = faults + 1
        BY DEF TransmitComment, NotOpen, Fault
      <4>. QED
        BY <4>1, <4>2
    <3>2. faults' = 0 /\ faults = 0
      BY <1>7, <3>1 DEF Causes
    <3>3. up[c] \in Seq(Message) /\ Head(up[c]) \in Message /\ Head(up[c]) = up[c][1]
      BY <1>1, <1>2
    <3>. QED
      BY <1>2, <1>7, <3>2, <3>3, MessageTypes DEF Causes
  <2>2. NextChunk(Upload, c, d, p)
    BY <1>1, <1>2, <1>5, <2>1 DEF Fine, GoesWell, Well
  <2>3. /\ m_file_fd > 0 /\ m_str_file_md5 = c /\ file = SubSeq(Whole(c), 1, p - Len(d))
        /\ Len(d) > 0 /\ Len(d) <= p /\ d = SubSeq(Whole(c), p - Len(d) + 1, p)
    BY <2>2 DEF NextChunk, Holds, Upload
  <2>4. Written(d, Len(d), c) /\ m_str_file_md5' = c
    <3>1. ~NotOpen(c)
      BY <1>1, <2>3 DEF NotOpen, TypeOK
    <3>2. PICK n \in 0 .. Len(d) :
            (IF n < Len(d) THEN Fault ELSE UNCHANGED faults) /\ Written(d, n, c)
                /\ UNCHANGED m_str_file_md5
      BY <3>1 DEF TransmitComment
    <3>3. n = Len(d)
      BY <2>1, <3>2 DEF Fault
    <3>. QED
      BY <2>3, <3>2, <3>3
  <2>0. p \in 0 .. FileLen[c] /\ FileLen[c] \in Nat /\ pos'[c] = p
    BY <1>1, <1>2
  <2> HIDE DEF d, p
  <2>5. /\ file \o SubSeq(d, 1, Len(d)) = SubSeq(Whole(c), 1, p)
        /\ Len(file) = p - Len(d) /\ (p = FileLen[c] => SubSeq(Whole(c), 1, p) = Whole(c))
    <3>1. SubSeq(d, 1, Len(d)) = d
      BY <2>1, SubSeqProperties
    <3>. QED
      BY <2>0, <2>1, <2>3, <3>1, NextChunkFits
  <2>6. m_file_size' = FileLen[c] - p /\ Len(d) \in Nat \ {0}
    <3>1. m_file_size + Len(file) = FileLen[c] /\ m_file_size \in Int
      BY <1>1, <2>3 DEF CauseInv, IInv, SizeAccounts, TypeOK
    <3>2. m_file_size' = m_file_size - Len(d)
      BY <2>4 DEF Written
    <3>3. Len(d) \in Nat \ {0}
      BY <2>1, <2>3
    <3>. QED
      BY <2>0, <2>5, <3>1, <3>2, <3>3
  <2>7. \/ Reply(c, Answer("COMMENT", 0))
        \/ /\ Reply(c, Answer("COMMENT", m_file_size')) /\ m_file_size' > 0
           /\ Holds(Upload', c, p)
    <3>1. CASE p = FileLen[c]
      <4>1. m_file_size' = 0 /\ file \o SubSeq(d, 1, Len(d)) = Whole(m_str_file_md5)
        <5>1. m_file_size' = 0
          BY <2>0, <2>6, <3>1
        <5>. QED
          BY <2>3, <2>5, <3>1, <5>1
      <4>. QED
        BY <2>4, <2>6, <4>1 DEF Written, TransmitSucess
    <3>2. CASE p # FileLen[c]
      <4>0. m_file_size' > 0
        BY <2>0, <2>6, <3>2
      <4>1. /\ m_file_size' > 0 /\ file' = SubSeq(Whole(c), 1, p) /\ m_file_fd' = m_file_fd
            /\ Reply(c, Answer("COMMENT", m_file_size'))
        <5>1. /\ file' = file \o SubSeq(d, 1, Len(d)) /\ m_file_fd' = m_file_fd
              /\ Reply(c, Answer("COMMENT", m_file_size'))
          BY <2>4, <2>6, <4>0 DEF Written
        <5>. QED
          BY <2>5, <4>0, <5>1
      <4>. QED
        BY <2>3, <2>4, <4>1 DEF Holds, Upload, Whole
    <3>. QED
      BY <3>1, <3>2
  <2>8. down'[c] # <<>> => Promising(Upload', c, down'[c][1], pos'[c])
    <3> SUFFICES ASSUME down'[c] # <<>> PROVE Promising(Upload', c, down'[c][1], p)
      BY <2>0
    <3>1. PICK y : /\ Reply(c, y) /\ y.type = "COMMENT"
                   /\ y.ret = 0 \/ (y.ret > 0 /\ y.ret = Upload'.size /\ Holds(Upload', c, p))
      BY <2>7 DEF Answer, Upload
    <3>2. down'[c] = <<y>>
      BY <1>1, <1>5, <2>1, <3>1 DEF Reply
    <3>. QED
      BY <3>1, <3>2 DEF Promising
  <2>. QED
    BY <1>2, <1>5, <2>0, <2>1, <2>8, GoesWellNext DEF Well
<1>. QED
  BY <1>6, <1>7 DEF Fine

LEMMA FailerFine ==
  ASSUME CauseInv, NEW c \in Client, TransmitFailer(c)
  PROVE  Fine(c)'
<1>1. /\ up[c] \in Seq(Message) /\ Fine(c) /\ up \in [Client -> Seq(Message)]
  BY CauseTypes
<1>2. /\ up[c] # <<>> /\ up'[c] = Tail(up[c]) /\ Head(up[c]).type = "FAILER"
      /\ UNCHANGED <<down, phase, pos, outcome, impatient>> /\ c \in disturbed'
  BY <1>1 DEF TransmitFailer, Receive, client
<1>3. c \notin impatient' => Patient(c)'
  BY <1>1, <1>2, OneCancelled, PatientNext DEF Fine, Patient
<1>. QED
  BY <1>2, <1>3 DEF Fine, Causes

LEMMA SendFileWell ==
  ASSUME NEW c \in Client, NEW u, NEW k \in 0 .. FileLen[c], k < FileLen[c], Holds(u, c, k),
         NEW q \in Seq(Message), Asks(q) = {}, NEW out \in {"none", "ok"}
  PROVE  Well(u, c, Append(q, Comment(SubSeq(Whole(c), k + 1, ChunkEnd(c, k)))), <<>>,
             ChunkEnd(c, k), out)
<1> DEFINE p == ChunkEnd(c, k)
           d == SubSeq(Whole(c), k + 1, p)
<1>1. k \in Nat /\ p \in k .. FileLen[c] /\ k < p /\ FileLen[c] \in Nat
  BY ChunkEndIs, TransmitAssumption
<1> HIDE DEF p
<1>2. d \in Seq(Bytes) /\ Len(d) = p - k
  BY <1>1, ChunkIs
<1>3. p - Len(d) = k /\ Len(d) > 0 /\ Len(d) <= p
  BY <1>1, <1>2
<1>4. NextChunk(u, c, d, p)
  BY <1>3 DEF NextChunk
<1> HIDE DEF d
<1>5. Comment(d) \in Message /\ Comment(d).data = d
  BY <1>2, MessageTypes DEF Comment
<1>6. \A i \in Asks(Append(q, Comment(d))) : Append(q, Comment(d))[i] = Comment(d)
  BY <1>5, AsksAppend
<1>. QED
  BY <1>4, <1>5, <1>6 DEF Well, d, p

LEMMA SendFileOpens ==
  ASSUME NEW c \in Client, NEW k \in 0 .. FileLen[c]
  PROVE  SubSeq(Whole(c), k + 1, ChunkEnd(c, k)) \in Seq(Bytes)
<1>1. k \in Nat /\ ChunkEnd(c, k) \in k .. FileLen[c]
  BY ChunkEndIs
<1> HIDE DEF ChunkEnd
<1>. QED
  BY <1>1, ChunkIs

LEMMA AnswerFine ==
  ASSUME CauseInv, NEW c \in Client, StartAnswered(c) \/ CommentAnswered(c)
  PROVE  Fine(c)'
<1> DEFINE x == Head(down[c])
<1>1. /\ TypeOK /\ up[c] \in Seq(Message) /\ down[c] \in Seq(AnswerSet) /\ Fine(c)
      /\ up \in [Client -> Seq(Message)] /\ down \in [Client -> Seq(AnswerSet)]
      /\ pos \in [Client -> Nat] /\ phase \in [Client -> {"idle", "uploading", "stuck", "gone"}]
      /\ outcome \in [Client -> {"none", "ok", "failed", "refused"}]
      /\ pos[c] \in 0 .. FileLen[c] /\ FileLen[c] \in Nat \ {0} /\ m_file_size \in Int
  BY CauseTypes
<1>2. /\ down[c] # <<>> /\ down'[c] = Tail(down[c]) /\ x = down[c][1] /\ x \in AnswerSet
      /\ UNCHANGED <<server, impatient, disturbed, faults, earlyCancels, superseded>>
  BY <1>1 DEF StartAnswered, CommentAnswered, Take, history, unpacked
<1>3. c \notin impatient =>
        /\ OneAtATime(up[c], down[c], phase[c], outcome[c])
        /\ Asks(up[c]) = {} /\ phase[c] # "gone" /\ phase[c] # "stuck"
        /\ outcome[c] = "none" /\ (x.type = "COMMENT" <=> phase[c] = "uploading")
        /\ down'[c] = <<>>
  <2> SUFFICES ASSUME c \notin impatient
               PROVE  /\ OneAtATime(up[c], down[c], phase[c], outcome[c])
                      /\ Asks(up[c]) = {} /\ phase[c] # "gone" /\ phase[c] # "stuck"
                      /\ outcome[c] = "none" /\ (x.type = "COMMENT" <=> phase[c] = "uploading")
                      /\ down'[c] = <<>>
    OBVIOUS
  <2>1. OneAtATime(up[c], down[c], phase[c], outcome[c])
    BY <1>1 DEF Fine, Patient
  <2>2. Len(down[c]) = 1
    <3> DEFINE n == Len(down[c])
    <3>1. n \in Nat /\ n # 0
      BY <1>1, <1>2
    <3>2. n <= 1
      BY <2>1 DEF OneAtATime
    <3> HIDE DEF n
    <3>3. n = 1
      BY <3>1, <3>2
    <3>. QED
      BY <3>3 DEF n
  <2>3. down'[c] = <<>>
    <3> DEFINE s == down[c]
    <3>0. s \in Seq(AnswerSet) /\ Len(s) = 1
      BY <1>1, <2>2
    <3> HIDE DEF s
    <3>1. Tail(s) = <<>>
      <4>0. s # <<>>
        BY <1>2 DEF s
      <4>1. Tail(s) \in Seq(AnswerSet) /\ Len(Tail(s)) = 0
        BY <3>0, <4>0, HeadTailProperties
      <4>. QED
        BY <4>1, EmptySeq
    <3>2. down'[c] = Tail(down[c])
      BY <1>2
    <3>. QED
      BY <3>1, <3>2 DEF s
  <2>. QED
    BY <1>2, <2>1, <2>3 DEF OneAtATime, Fits
<1>4. ~Causes(c)' => /\ c \notin impatient /\ Upload' = Upload /\ outcome[c] \in {"none", "ok"}
                     /\ Promising(Upload, c, x, pos[c])
  BY <1>1, <1>2 DEF Fine, Causes, GoesWell, Well, Upload, server
<1> HIDE DEF x
<1>5. ASSUME NEW k \in 0 .. FileLen[c], SendFile(c, k), phase'[c] = "uploading",
                 outcome'[c] = outcome[c],
             ~Causes(c)' => k < FileLen[c] /\ Holds(Upload, c, k)
      PROVE  Fine(c)'
  <2>1. /\ up'[c] = Append(up[c], Comment(SubSeq(Whole(c), k + 1, ChunkEnd(c, k))))
        /\ pos'[c] = ChunkEnd(c, k)
    BY <1>1, <1>5 DEF SendFile, SendMsg
  <2>2. c \notin impatient => Patient(c)'
    <3> SUFFICES ASSUME c \notin impatient PROVE Patient(c)'
      OBVIOUS
    <3>1. OneAtATime(up[c], down[c], phase[c], outcome[c]) /\ down'[c] = <<>>
      BY <1>3
    <3>2. SubSeq(Whole(c), k + 1, ChunkEnd(c, k)) \in Seq(Bytes)
      BY SendFileOpens
    <3>3. up[c] \in Seq(Message) /\ down[c] # <<>>
      BY <1>1, <1>2
    <3>4. OneAtATime(Append(up[c], Comment(SubSeq(Whole(c), k + 1, ChunkEnd(c, k)))), <<>>,
                     "uploading", outcome[c])
      BY <3>1, <3>2, <3>3, OneSends
    <3>5. phase'[c] = "uploading" /\ outcome'[c] = outcome[c]
      BY <1>5
    <3>6. OneAtATime(up'[c], down'[c], phase'[c], outcome'[c])
      BY <2>1, <3>1, <3>4, <3>5
    <3>. QED
      BY <3>6, PatientNext
  <2>3. ~Causes(c)' => GoesWell(c)'
    <3> SUFFICES ASSUME ~Causes(c)' PROVE GoesWell(c)'
      OBVIOUS
    <3>1. /\ Asks(up[c]) = {} /\ down'[c] = <<>> /\ Upload' = Upload
               /\ outcome'[c] \in {"none", "ok"}
          /\ k < FileLen[c] /\ Holds(Upload, c, k)
      BY <1>3, <1>4, <1>5
    <3>2. up[c] \in Seq(Message)
      BY <1>1
    <3>3. Well(Upload, c, Append(up[c], Comment(SubSeq(Whole(c), k + 1, ChunkEnd(c, k)))), <<>>,
               ChunkEnd(c, k), outcome'[c])
      BY <3>1, <3>2, SendFileWell
    <3>. QED
      BY <2>1, <3>1, <3>3, GoesWellNext
  <2>. QED
    BY <1>2, <2>2, <2>3 DEF Fine
<1>6. ASSUME UNCHANGED <<up, pos>>, c \notin impatient => phase'[c] \notin {"uploading", "stuck"},
             ~Causes(c)' => outcome'[c] \in {"none", "ok"}
      PROVE  Fine(c)'
  <2>1. c \notin impatient => Patient(c)'
    BY <1>2, <1>3, <1>6, OneEnds, PatientNext
  <2>2. ~Causes(c)' => GoesWell(c)'
    BY <1>3, <1>4, <1>6, GoesWellNext DEF Well
  <2>. QED
    BY <1>2, <2>1, <2>2 DEF Fine
<1>7. CASE StartAnswered(c)
  <2>1. x.type = "START"
    BY <1>7 DEF StartAnswered, Take, x
  <2>2. CASE x.ret = 0
    <3>1. SendFile(c, 0) /\ phase'[c] = "uploading" /\ outcome'[c] = outcome[c]
      BY <1>1, <1>7, <2>2 DEF StartAnswered, x
    <3>2. ~Causes(c)' => Holds(Upload, c, 0)
      BY <1>4, <2>1 DEF Promising
    <3>3. 0 \in 0 .. FileLen[c] /\ 0 < FileLen[c]
      BY <1>1
    <3>. QED
      BY <1>5, <3>1, <3>2, <3>3
  <2>3. CASE x.ret # 0
    <3>1. UNCHANGED <<up, phase, pos>>
      BY <1>7, <2>3 DEF StartAnswered, x
    <3>2. Causes(c)'
      BY <1>4, <2>1, <2>3 DEF Promising
    <3>. QED
      BY <1>1, <1>3, <1>6, <2>1, <3>1, <3>2
  <2>. QED
    BY <2>2, <2>3
<1>8. CASE CommentAnswered(c)
  <2>1. x.type = "COMMENT" /\ x.ret \in Int
    BY <1>2, <1>8 DEF CommentAnswered, Take, AnswerSet, x
  <2>2. CASE x.ret > 0
    <3>1. IF phase[c] = "uploading" THEN SendFile(c, pos[c]) ELSE UNCHANGED <<up, pos>>
      BY <1>8, <2>1, <2>2 DEF CommentAnswered, x
    <3>2. UNCHANGED <<phase, outcome>>
      BY <1>8, <2>1, <2>2 DEF CommentAnswered, x
    <3>3. ~Causes(c)' => pos[c] < FileLen[c] /\ Holds(Upload, c, pos[c])
      <4> SUFFICES ASSUME ~Causes(c)' PROVE pos[c] < FileLen[c] /\ Holds(Upload, c, pos[c])
        OBVIOUS
      <4>1. x.ret = m_file_size /\ Holds(Upload, c, pos[c])
        BY <1>4, <2>1, <2>2 DEF Promising, Upload
      <4>2. m_file_fd > 0 /\ m_str_file_md5 = c /\ file = SubSeq(Whole(c), 1, pos[c])
        BY <4>1 DEF Holds, Upload
      <4>3. Len(file) = pos[c]
        BY <1>1, <4>2, WholeType, PrefixLength
      <4>4. m_file_size + Len(file) = FileLen[c]
        BY <4>2 DEF CauseInv, IInv, SizeAccounts
      <4>. QED
        BY <1>1, <2>2, <4>1, <4>3, <4>4
    <3>4. CASE phase[c] = "uploading"
      BY <1>1, <1>5, <3>1, <3>2, <3>3, <3>4
    <3>5. CASE phase[c] # "uploading"
      <4>1. c \in impatient
        BY <1>3, <2>1, <3>5
      <4>. QED
        BY <1>2, <4>1 DEF Fine, Causes
    <3>. QED
      BY <3>4, <3>5
  <2>3. CASE ~(x.ret > 0)
    <3>1. /\ UNCHANGED <<up, pos>> /\ StopSendFile(c)
          /\ (x.ret = 0 /\ outcome' = [outcome EXCEPT ![c] = "ok"]) \/ x.ret < 0
      BY <1>8, <2>1, <2>3 DEF CommentAnswered, x
    <3>2. phase'[c] \notin {"uploading", "stuck"}
      BY <1>1, <3>1 DEF StopSendFile
    <3>3. ~Causes(c)' => outcome'[c] = "ok"
      BY <1>1, <1>4, <2>1, <2>3, <3>1 DEF Promising
    <3>. QED
      BY <1>6, <3>1, <3>2, <3>3
  <2>. QED
    BY <2>2, <2>3
<1>. QED
  BY <1>7, <1>8

LEMMA UserFine ==
  ASSUME CauseInv, NEW c \in Client, User(c) \/ AnswersCoalesce(c)
  PROVE  Fine(c)'
<1>1. /\ TypeOK /\ up[c] \in Seq(Message) /\ down[c] \in Seq(AnswerSet) /\ Fine(c)
      /\ up \in [Client -> Seq(Message)] /\ down \in [Client -> Seq(AnswerSet)]
      /\ phase \in [Client -> {"idle", "uploading", "stuck", "gone"}]
      /\ outcome \in [Client -> {"none", "ok", "failed", "refused"}]
  BY CauseTypes
<1>2. c \notin impatient => OneAtATime(up[c], down[c], phase[c], outcome[c])
  BY <1>1 DEF Fine, Patient
<1>3. UNCHANGED <<server, disturbed, faults, earlyCancels, superseded, pos>>
  BY DEF User, UploadClicked, CancelClicked, Quit, AnswersCoalesce, history, unpacked, client
<1>4. ~Causes(c)' /\ (c \in impatient => c \in impatient')
        => c \notin impatient /\ Upload' = Upload /\ pos'[c] = pos[c]
           /\ Well(Upload, c, up[c], down[c], pos[c], outcome[c])
  BY <1>1, <1>3 DEF Fine, Causes, GoesWell, Upload, server
<1>5. CASE AnswersCoalesce(c)
  <2>1. c \in impatient /\ impatient' = impatient
    <3>1. Len(down[c]) >= 2 /\ Len(down[c]) \in Nat
      BY <1>1, <1>5 DEF AnswersCoalesce
    <3>. QED
      BY <1>2, <1>5, <3>1 DEF AnswersCoalesce, OneAtATime, history, unpacked
  <2>. QED
    BY <2>1 DEF Fine, Causes
<1>6. CASE UploadClicked(c)
  <2>1. CASE Busy(c)
    <3>1. c \in impatient'
      BY <1>6, <2>1 DEF UploadClicked
    <3>. QED
      BY <3>1 DEF Fine, Causes
  <2>2. CASE ~Busy(c)
    <3>1. /\ up[c] = <<>> /\ down[c] = <<>> /\ phase[c] \notin {"uploading", "gone"}
          /\ impatient' = impatient /\ phase' = phase /\ down' = down
          /\ up'[c] = Append(up[c], Start) /\ outcome'[c] = "none"
      BY <1>1, <1>6, <2>2 DEF UploadClicked, Busy, SendMsg
    <3>2. c \notin impatient => phase[c] # "stuck"
      BY <1>2 DEF OneAtATime
    <3>3. c \notin impatient => Patient(c)'
      BY <3>1, <3>2, OneStarts, PatientNext
    <3>4. \A i \in Asks(up'[c]) : up'[c][i].type # "COMMENT"
      <4>1. Start \in Message /\ Start.type # "COMMENT"
        BY MessageTypes DEF Start
      <4>2. \A i \in Asks(Append(<<>>, Start)) :
              i \in Asks(<<>>) \/ Append(<<>>, Start)[i] = Start
        <5>1. <<>> \in Seq(Message)
          OBVIOUS
        <5>. QED
          BY <4>1, <5>1, AsksAppend
      <4>. QED
        BY <3>1, <4>1, <4>2, AsksNothing
    <3>5. GoesWell(c)'
      BY <3>1, <3>4, GoesWellNext DEF Well
    <3>. QED
      BY <3>1, <3>3, <3>5 DEF Fine
  <2>. QED
    BY <2>1, <2>2
<1>7. CASE CancelClicked(c)
  <2>1. /\ up'[c] = Append(up[c], Failer) /\ down' = down /\ impatient' = impatient
        /\ phase' = phase /\ outcome' = outcome
    BY <1>1, <1>7 DEF CancelClicked, SendMsg, client, history, unpacked
  <2>2. c \notin impatient => Patient(c)'
    <3>1. c \notin impatient => OneAtATime(Append(up[c], Failer), down[c], phase[c], outcome[c])
      BY <1>1, <1>2, OneCancels
    <3>. QED
      BY <2>1, <3>1, PatientNext
  <2>3. Failer \in Message /\ Failer.type = "FAILER"
    BY MessageTypes DEF Failer
  <2>4. \A i \in Asks(up'[c]) : i \in Asks(up[c]) /\ up'[c][i] = up[c][i]
    <3>1. up[c] \in Seq(Message)
      BY <1>1
    <3>2. \A i \in Asks(Append(up[c], Failer)) : i \in Asks(up[c])
              /\ Append(up[c], Failer)[i] = up[c][i]
      BY <2>3, <3>1, AsksAppend
    <3>3. up'[c] = Append(up[c], Failer)
      BY <2>1
    <3>. QED
      BY <3>2, <3>3
  <2>5. ~Causes(c)' => GoesWell(c)'
    BY <1>4, <2>1, <2>4, GoesWellNext DEF Well
  <2>. QED
    BY <2>1, <2>2, <2>5 DEF Fine
<1>8. CASE Quit(c)
  <2>1. PICK n \in 0 .. Len(up[c]) : up' = [up EXCEPT ![c] = SubSeq(up[c], 1, n)]
    BY <1>8 DEF Quit
  <2>2. /\ up'[c] = SubSeq(up[c], 1, n) /\ down'[c] = <<>> /\ impatient' = impatient
        /\ phase'[c] = "gone" /\ outcome' = outcome
    BY <1>1, <1>8, <2>1 DEF Quit, history, unpacked
  <2>3. c \notin impatient => Patient(c)'
    <3>1. c \notin impatient => OneAtATime(SubSeq(up[c], 1, n), <<>>, "gone", outcome[c])
      BY <1>1, <1>2, OneQuits
    <3>. QED
      BY <2>2, <3>1, PatientNext
  <2>4. \A i \in Asks(up'[c]) : i \in Asks(up[c]) /\ up'[c][i] = up[c][i]
    <3>1. up[c] \in Seq(Message)
      BY <1>1
    <3>2. \A i \in Asks(SubSeq(up[c], 1, n)) : i \in Asks(up[c])
              /\ SubSeq(up[c], 1, n)[i] = up[c][i]
      BY <3>1, AsksPrefix
    <3>3. up'[c] = SubSeq(up[c], 1, n)
      BY <2>2
    <3>. QED
      BY <3>2, <3>3
  <2>5. ~Causes(c)' => GoesWell(c)'
    BY <1>4, <2>2, <2>4, GoesWellNext DEF Well
  <2>. QED
    BY <2>2, <2>3, <2>5 DEF Fine
<1>. QED
  BY <1>5, <1>6, <1>7, <1>8 DEF User

LEMMA DiesFine ==
  ASSUME CauseInv, NEW x \in Client, ServerDies(x), NEW c \in Client
  PROVE  Fine(c)'
<1>1. /\ up'[c] = <<>> /\ down'[c] = <<>> /\ phase'[c] = "gone"
      /\ UNCHANGED <<outcome, disturbed, impatient, faults, earlyCancels, superseded>>
  BY DEF ServerDies, history, unpacked
<1>2. Patient(c)'
  BY <1>1, OneIsGone, PatientNext
<1>3. ~Causes(c)' => outcome[c] \in {"none", "ok"}
  BY <1>1, CauseTypes DEF Fine, Causes, GoesWell, Well
<1>4. ~Causes(c)' => GoesWell(c)'
  BY <1>1, <1>3, AsksNothing, GoesWellNext DEF Well
<1>. QED
  BY <1>2, <1>4 DEF Fine

(* What a step is of one client leaves another client alone, or disturbs it. *)
LEMMA OthersFine ==
  ASSUME CauseInv, NEW x \in Client, HandSysCfgMsg(x) \/ HandNetMsg(x) \/ User(x),
         NEW c \in Client, c # x
  PROVE  Fine(c)'
<1>1. /\ Fine(c) /\ up \in [Client -> Seq(Message)] /\ down \in [Client -> Seq(AnswerSet)]
      /\ pos \in [Client -> Nat] /\ phase \in [Client -> {"idle", "uploading", "stuck", "gone"}]
      /\ outcome \in [Client -> {"none", "ok", "failed", "refused"}]
  BY CauseTypes
<1>2. CASE HandSysCfgMsg(x)
  <2>1. c \in disturbed' /\ UNCHANGED <<client, impatient>> /\ Receive(x)
    BY <1>2 DEF HandSysCfgMsg, TransmitStart, TransmitComment, TransmitFailer
  <2>2. up'[c] = up[c]
    BY <1>1, <2>1 DEF Receive
  <2>3. down'[c] = down[c]
    <3>1. (\E a : Reply(x, a)) \/ down' = down
      BY <1>2 DEF HandSysCfgMsg, TransmitStart, TransmitComment, TransmitFailer,
           NotOpen, Written,
                  TransmitSucess
    <3>. QED
      BY <1>1, <3>1 DEF Reply
  <2>. QED
    BY <1>1, <2>1, <2>2, <2>3, OthersKeep DEF client
<1>3. CASE HandNetMsg(x) \/ User(x)
  <2>1. UNCHANGED <<server, disturbed, faults, earlyCancels, superseded>>
        /\ (c \in impatient' <=> c \in impatient)
    BY <1>3 DEF HandNetMsg, StartAnswered, CommentAnswered, AnswersCoalesce, Take, User,
                UploadClicked, CancelClicked, Quit, history
  <2>2. /\ up'[c] = up[c] /\ down'[c] = down[c] /\ phase'[c] = phase[c]
        /\ pos'[c] = pos[c] /\ outcome'[c] = outcome[c]
    <3>1. CASE HandNetMsg(x)
      BY <1>1, <3>1 DEF HandNetMsg, StartAnswered, CommentAnswered, AnswersCoalesce, Take,
                        SendFile, SendMsg, StopSendFile
    <3>2. CASE User(x)
      BY <1>1, <3>2 DEF User, UploadClicked, CancelClicked, Quit, SendMsg, client
    <3>. QED
      BY <1>3, <3>1, <3>2
  <2>. QED
    BY <1>1, <2>1, <2>2, OthersKeep
<1>. QED
  BY <1>2, <1>3

(* The terminal's descriptor stays open unless somebody cancelled early. *)
LEMMA TerminalStays ==
  ASSUME CauseInv, [Next]_vars
  PROVE  earlyCancels' = 0 => 0 \in open'
<1>1. /\ earlyCancels \in Nat /\ (earlyCancels = 0 => 0 \in open) /\ m_file_fd \in Int
  BY TransmitAssumption DEF CauseInv, IInv, TypeOK
<1>2. ASSUME NEW c \in Client, TransmitStart(c) PROVE earlyCancels' = 0 => 0 \in open'
  <2>1. earlyCancels' = earlyCancels /\ open \subseteq open'
    BY <1>2 DEF TransmitStart, OpenFails, OpenSucceeds
  <2>. QED
    BY <1>1, <2>1
<1>3. ASSUME NEW c \in Client, TransmitComment(c) PROVE earlyCancels' = 0 => 0 \in open'
  <2>1. earlyCancels' = earlyCancels
    BY <1>3 DEF TransmitComment
  <2>2. open' = open \/ (m_file_fd > 0 /\ open' = open \ {m_file_fd})
    BY <1>3 DEF TransmitComment, NotOpen, server, Written, TransmitSucess, CloseFile
  <2>. QED
    BY <1>1, <2>1, <2>2
<1>4. ASSUME NEW c \in Client, TransmitFailer(c) PROVE earlyCancels' = 0 => 0 \in open'
  BY <1>1, <1>4 DEF TransmitFailer, CloseFile
<1>5. ASSUME UNCHANGED <<open, earlyCancels>> PROVE earlyCancels' = 0 => 0 \in open'
  BY <1>1, <1>5
<1>6. ASSUME NEW c \in Client, HandNetMsg(c) \/ User(c) \/ ServerDies(c)
                 PROVE UNCHANGED <<open, earlyCancels>>
  BY <1>6 DEF HandNetMsg, StartAnswered, CommentAnswered, AnswersCoalesce, Take,
       User, UploadClicked,
              CancelClicked, Quit, ServerDies, server, history
<1>7. CASE UNCHANGED vars
  BY <1>5, <1>7 DEF vars, server, history, unpacked
<1>. QED
  BY <1>2, <1>3, <1>4, <1>5, <1>6, <1>7 DEF Next, HandSysCfgMsg

LEMMA NextCauseInv == CauseInv /\ [Next]_vars => CauseInv'
<1> SUFFICES ASSUME CauseInv, [Next]_vars PROVE CauseInv'
  OBVIOUS
<1>1. IInv'
  BY NextIInv DEF CauseInv
<1>2. ASSUME NEW c \in Client PROVE Fine(c)'
  <2>1. ASSUME NEW x \in Client, HandSysCfgMsg(x) \/ HandNetMsg(x) \/ User(x) PROVE Fine(c)'
    <3>1. CASE c # x
      BY <2>1, <3>1, OthersFine
    <3>2. CASE c = x
      BY <1>1, <2>1, <3>2, StartFine, CommentFine, FailerFine, AnswerFine, UserFine
      DEF HandSysCfgMsg, HandNetMsg
    <3>. QED
      BY <3>1, <3>2
  <2>2. CASE UNCHANGED vars
    <3>1. Fine(c)
      BY CauseTypes
    <3>. QED
      BY <2>2, <3>1, OthersKeep DEF vars, client, history, unpacked
  <2>. QED
    BY <2>1, <2>2, DiesFine DEF Next
<1>3. (earlyCancels = 0 => 0 \in open)'
  BY TerminalStays
<1>. QED
  BY <1>1, <1>2, <1>3 DEF CauseInv, Fine

LEMMA InitCauseInv == Init => CauseInv
<1> SUFFICES ASSUME Init PROVE CauseInv
  OBVIOUS
<1>1. IInv
  BY InitIInv
<1>2. ASSUME NEW c \in Client PROVE Patient(c) /\ GoesWell(c)
  <2>1. up[c] = <<>> /\ down[c] = <<>> /\ phase[c] = "idle" /\ outcome[c] = "none"
    BY DEF Init
  <2>. QED
    BY <2>1, AsksNothing DEF Patient, OneAtATime, GoesWell, Well
<1>3. earlyCancels = 0 => 0 \in open
  BY DEF Init
<1>. QED
  BY <1>1, <1>2, <1>3 DEF CauseInv

(* An upload only fails when something happened to it: the user did not    *)
(* wait or cancelled, another client was heard, a call failed, somebody    *)
(* cancelled before the first upload, or the replaced uploads used up the  *)
(* descriptors.                                                            *)
THEOREM FailuresHaveCauses == Spec => []FailureHasACause
<1>1. CauseInv => FailureHasACause
  <2> SUFFICES ASSUME CauseInv, NEW c \in Client, outcome[c] \in {"failed",
      "refused"} PROVE Causes(c)
    BY DEF FailureHasACause, Causes
  <2>. QED
    BY DEF CauseInv, GoesWell, Well
<1>. QED
  BY <1>1, InitCauseInv, NextCauseInv, PTL DEF Spec
=============================================================================
