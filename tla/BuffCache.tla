------------------------------ MODULE BuffCache ------------------------------
(***************************************************************************)
(* CBuffCache (communicate/TcpSocketItem), the growing byte buffer behind  *)
(* m_recv_buff and m_send_buff of every socket: one malloc'ed block, whose *)
(* data slides forward as it is consumed and back when room is needed.     *)
(***************************************************************************)
EXTENDS Integers, Sequences

CONSTANTS
  Byte,         \* the values of a byte
  Garbage,      \* a byte of the block nobody wrote yet
  Chunks,       \* the byte strings the callers append, none of them empty
  MaxSkip,      \* the longest skip
  InitBlock,    \* the first size of a block (1 << 10)
  BlockSizes    \* the sizes memory allows: InitBlock and its doublings

ASSUME CacheAssumption ==
  /\ Garbage \notin Byte
  /\ Chunks \subseteq Seq(Byte) \ {<<>>}
  /\ MaxSkip \in Nat
  /\ InitBlock \in Nat \ {0}
  /\ BlockSizes \subseteq Nat \ {0}
  /\ InitBlock \in BlockSizes
  /\ \A s \in BlockSizes \ {InitBlock} : \E r \in BlockSizes : s = 2 * r

VARIABLES
  mem,          \* _mem: the bytes of the block by offset, empty when NULL
  block_size,   \* _block_size
  head,         \* _data_head
  len,          \* _data_len
  peak          \* history: the longest content since the block was allocated

vars == <<mem, block_size, head, len, peak>>

Init ==
  /\ mem = <<>>
  /\ block_size = 0 /\ head = 0 /\ len = 0
  /\ peak = 0

(* data() with data_len(): what the user of the buffer sees. *)
Contents == [i \in 1 .. len |-> mem[head + i - 1]]

(* malloc(), memcpy() and memmove() to the start of the block. *)
Fresh(size) == [i \in 0 .. size - 1 |-> Garbage]
Write(m, at, d) ==
  [i \in DOMAIN m |-> IF at <= i /\ i < at + Len(d) THEN d[i - at + 1] ELSE m[i]]
ToFront(m, from, n) ==
  [i \in DOMAIN m |-> IF i < n THEN m[from + i] ELSE m[i]]

(* fix_block_size(): double the block until the data fits. *)
FixBlockSize(need, size) ==
  /\ size \in BlockSizes
  /\ size >= need /\ size >= block_size
  /\ \A r \in BlockSizes : r >= need /\ r >= block_size => size <= r

Longest(n) == peak' = IF n > peak THEN n ELSE peak

(* append() into a buffer without a block. *)
AppendFirst(d) ==
  /\ block_size = 0
  /\ \E s \in BlockSizes :
       /\ FixBlockSize(Len(d), s)
       /\ block_size' = s
       /\ mem' = Write(Fresh(s), 0, d)
  /\ head' = 0 /\ len' = Len(d)
  /\ Longest(len')

(* append() behind the data. *)
FitsBehind(d) == Len(d) + head + len <= block_size

AppendInPlace(d) ==
  /\ block_size # 0 /\ FitsBehind(d)
  /\ mem' = Write(mem, head + len, d)
  /\ len' = len + Len(d)
  /\ Longest(len')
  /\ UNCHANGED <<block_size, head>>

(* append() of more than the block can hold. *)
AppendGrow(d) ==
  /\ block_size # 0 /\ ~FitsBehind(d)
  /\ Len(d) + len > block_size
  /\ \E s \in BlockSizes :
       /\ FixBlockSize(Len(d) + len, s)
       /\ block_size' = s
       /\ mem' = Write(Write(Fresh(s), 0, Contents), len, d)
  /\ head' = 0 /\ len' = len + Len(d)
  /\ Longest(len')

(* Mutant: copies the new bytes before it moves the old ones. *)
AppendCompactCopiesFirst(d) ==
  /\ block_size # 0 /\ ~FitsBehind(d)
  /\ Len(d) + len <= block_size
  /\ mem' = ToFront(Write(mem, len, d), head, len)
  /\ head' = 0 /\ len' = len + Len(d)
  /\ Longest(len')
  /\ UNCHANGED block_size

(* append() that makes room by moving the data to the front. *)
AppendCompact(d) ==
  /\ block_size # 0 /\ ~FitsBehind(d)
  /\ Len(d) + len <= block_size
  /\ mem' = Write(ToFront(mem, head, len), len, d)
  /\ head' = 0 /\ len' = len + Len(d)
  /\ Longest(len')
  /\ UNCHANGED block_size

AppendBytes(d) ==
  AppendFirst(d) \/ AppendInPlace(d) \/ AppendGrow(d) \/ AppendCompact(d)

(* clear() *)
Clear ==
  /\ mem' = <<>>
  /\ block_size' = 0 /\ head' = 0 /\ len' = 0
  /\ peak' = 0

(* skip() of all there is frees a block that had to grow. *)
SkipAll(n) ==
  /\ block_size # 0 /\ n >= len
  /\ IF block_size > InitBlock
     THEN Clear
     ELSE head' = 0 /\ len' = 0 /\ UNCHANGED <<mem, block_size, peak>>

SkipSome(n) ==
  /\ block_size # 0 /\ n < len
  /\ head' = head + n /\ len' = len - n
  /\ UNCHANGED <<mem, block_size, peak>>

Skip(n) == SkipAll(n) \/ SkipSome(n)

Next ==
  \/ \E d \in Chunks : AppendBytes(d)
  \/ \E n \in 1 .. MaxSkip : Skip(n)

Spec == Init /\ [][Next]_vars
-----------------------------------------------------------------------------
(* The type of the buffer; no block exactly when the size is 0. *)
TypeOK ==
  /\ block_size \in BlockSizes \cup {0}
  /\ mem \in [0 .. block_size - 1 -> Byte \cup {Garbage}]
  /\ head \in Nat /\ len \in Nat /\ peak \in Nat

(* The data never leaves the block: in particular the assert of data().    *)
InBlock == head + len <= block_size

(* The user never reads a byte nobody wrote. *)
NoGarbage == \A i \in 1 .. len : mem[head + i - 1] \in Byte

(* A grown block is less than twice the longest content it had to hold:    *)
(* the memory of a slow connection is bounded by what the peer sent.       *)
NoOverAllocation == len <= peak /\ (block_size > InitBlock => block_size < 2 * peak)

(* Through all the moves and copies the buffer is a queue of bytes. *)
BQ == INSTANCE ByteQueue WITH q <- Contents, Data <- Chunks
ImplementsByteQueue == BQ!Spec
=============================================================================
