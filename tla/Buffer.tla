-------------------------------- MODULE Buffer --------------------------------
(***************************************************************************)
(* evpp::Buffer (evpp/buffer.h, evpp/buffer.cc).                           *)
(*                                                                         *)
(* mem is the storage, a function on 0..capacity-1; Garbage stands for what*)
(* new char[n] leaves in it.  The indices are unbounded: no buffer comes   *)
(* near 2^63 bytes.  The integers of AppendInt.., PrependInt.. and ReadInt..*)
(* are strings of bytes here, written, prepended and skipped.              *)
(***************************************************************************)
EXTENDS Integers, Sequences

CONSTANTS
  Byte,        \* the bytes
  Garbage,     \* uninitialized storage
  InitialSize, \* kInitialSize
  Prepend,     \* kCheapPrependSize
  ExtraSize,   \* the size of extrabuf in ReadFromFD
  MaxLen,      \* bound on the length of an argument
  MaxCapacity, \* bound on the capacity
  Reserves     \* what a user passes as reserved_prepend_size

ASSUME BufferAssumption ==
  /\ Garbage \notin Byte
  /\ {InitialSize, Prepend, ExtraSize, MaxLen, MaxCapacity} \subseteq Nat
  /\ Reserves \subseteq Nat

VARIABLES
  mem,        \* buffer_
  capacity,   \* capacity_
  readIndex,  \* read_index_
  writeIndex, \* write_index_
  reserved,   \* reserved_prepend_size_
  taken,      \* history: what the read operation just made has returned
  rewound     \* history: "back" once the user has set the read index back,
              \* "astray" while ResetData has left it past the write index

indices == <<capacity, readIndex, writeIndex>>
vars == <<mem, indices, reserved, taken, rewound>>

Cell == Byte \cup {Garbage}
Lens == 0..MaxLen
Data(n) == [1..n -> Byte]

Forget == taken' = <<>>

\* Every operation but those that set the read index works on a length, which is
\* no length while the indices are not in order.
HasLength == rewound # "astray" /\ UNCHANGED rewound

\* new char[n].
Fresh(n) == [i \in 0..n-1 |-> Garbage]

\* memcpy of the sequence d to offset at of m.
Stored(m, at, d) ==
  [i \in DOMAIN m |-> IF i \in at..at+Len(d)-1 THEN d[i - at + 1] ELSE m[i]]

\* ToSlice.
Slice(m, r, w) == [i \in 1..w-r |-> m[r + i - 1]]

length == writeIndex - readIndex
WritableBytes == capacity - writeIndex
PrependableBytes == readIndex

content == Slice(mem, readIndex, writeIndex)

Init ==
  /\ reserved \in Reserves
  /\ capacity = reserved + InitialSize
  /\ readIndex = reserved /\ writeIndex = reserved
  /\ mem = Fresh(capacity)
  /\ taken = <<>> /\ rewound = "no"

-----------------------------------------------------------------------------
(* grow and what uses it.                                                  *)

\* The storage and the indices, as one value.
Block(m, c, r, w) == [mem |-> m, capacity |-> c, read |-> r, write |-> w]
This == Block(mem, capacity, readIndex, writeIndex)

\* MUTANT: the copy starts at the begin of the storage.
Grown_FromBegin(b, len) ==
  LET m == b.write - b.read
      n == 2 * b.capacity + len
      d == Slice(b.mem, 0, m)
  IN IF (b.capacity - b.write) + b.read < len + reserved
     THEN Block(Stored(Fresh(n), reserved, d), n, reserved, reserved + m)
     ELSE Block(Stored(b.mem, reserved, d), b.capacity, reserved, reserved + m)

\* grow(len): a larger storage, or the content moved to the front.
Grown(b, len) ==
  LET m == b.write - b.read
      n == 2 * b.capacity + len
      d == Slice(b.mem, b.read, b.write)
  IN IF (b.capacity - b.write) + b.read < len + reserved
     THEN Block(Stored(Fresh(n), reserved, d), n, reserved, reserved + m)
     ELSE Block(Stored(b.mem, reserved, d), b.capacity, reserved, reserved + m)

EnsureWritableBytes(b, len) ==
  IF b.capacity - b.write < len THEN Grown(b, len) ELSE b

Written(b, d) ==
  LET e == EnsureWritableBytes(b, Len(d))
  IN Block(Stored(e.mem, e.write, d), e.capacity, e.read, e.write + Len(d))

Becomes(b) ==
  /\ b.capacity <= MaxCapacity
  /\ mem' = b.mem /\ capacity' = b.capacity
  /\ readIndex' = b.read /\ writeIndex' = b.write

-----------------------------------------------------------------------------
(* Writing.                                                                *)

Write ==
  /\ HasLength
  /\ \E n \in Lens : \E d \in Data(n) : Becomes(Written(This, d))
  /\ UNCHANGED reserved /\ Forget

\* WriteBytes, after the user has filled the storage from WriteBegin().
WriteBytes ==
  /\ HasLength
  /\ \E n \in Lens : n <= WritableBytes /\ \E d \in Data(n) :
       /\ mem' = Stored(mem, writeIndex, d)
       /\ writeIndex' = writeIndex + n
  /\ UNCHANGED <<capacity, readIndex, reserved>> /\ Forget

\* The buffer with d in its storage, behind the content.
Filled(d) == Block(Stored(mem, writeIndex, d), capacity, readIndex, writeIndex + Len(d))

\* readv fills what is writable and, if that is little, extrabuf.
ReadFromFD ==
  /\ HasLength
  /\ \E n \in 1..WritableBytes + ExtraSize : \E d \in Data(n) :
       /\ n <= WritableBytes \/ WritableBytes < ExtraSize
       /\ LET k == WritableBytes
          IN Becomes(IF n <= k THEN Filled(d)
                               ELSE Written(Filled(SubSeq(d, 1, k)), SubSeq(d, k + 1, n)))
  /\ UNCHANGED reserved /\ Forget

\* Prepend, for a length that its assertion allows.
PrependBytes ==
  /\ HasLength
  /\ \E n \in Lens : n <= PrependableBytes /\ \E d \in Data(n) :
       /\ mem' = Stored(mem, readIndex - n, d)
       /\ readIndex' = readIndex - n
  /\ UNCHANGED <<capacity, writeIndex, reserved>> /\ Forget

\* UnwriteBytes, for a length that its assertion allows.
UnwriteBytes ==
  /\ HasLength
  /\ \E n \in Lens : n <= length /\ writeIndex' = writeIndex - n
  /\ UNCHANGED <<mem, capacity, readIndex, reserved>> /\ Forget

\* ToText writes a zero byte and takes it back.
ToText ==
  /\ HasLength
  /\ \E zero \in Byte :
       LET b == Written(This, <<zero>>)
       IN Becomes(Block(b.mem, b.capacity, b.read, b.write - 1))
  /\ UNCHANGED reserved /\ Forget

-----------------------------------------------------------------------------
(* Storage.                                                                *)

Reserve ==
  /\ HasLength
  /\ \E len \in 0..2*MaxLen :
       /\ capacity < len + reserved
       /\ Becomes(Grown(This, len + reserved))
  /\ UNCHANGED reserved /\ Forget

\* Shrink copies into a new buffer, which has the default reserve.
Shrink ==
  /\ HasLength
  /\ \E r \in Lens :
       LET n == Prepend + length + r
       IN Becomes(Block(Stored(Fresh(n), Prepend, content), n, Prepend, Prepend + length))
  /\ reserved' = Prepend
  /\ Forget

-----------------------------------------------------------------------------
(* Reading.                                                                *)

\* MUTANT: the length is not compared.
Truncate_Extends(n) ==
  IF n = 0
  THEN readIndex' = reserved /\ writeIndex' = reserved
  ELSE writeIndex' = readIndex + n /\ UNCHANGED readIndex

Truncate(n) ==
  IF n = 0
  THEN readIndex' = reserved /\ writeIndex' = reserved
  ELSE /\ writeIndex' = IF writeIndex > readIndex + n THEN readIndex + n ELSE writeIndex
       /\ UNCHANGED readIndex

TruncateTo ==
  /\ HasLength
  /\ \E n \in Lens : Truncate(n)
  /\ UNCHANGED <<mem, capacity, reserved>> /\ Forget

\* Skip, Next, NextAll and the ReadInt.. return or pass over the first n bytes.
Skip(n) ==
  IF n < length
  THEN readIndex' = readIndex + n /\ UNCHANGED writeIndex
  ELSE Truncate(0)

NextBytes ==
  /\ HasLength
  /\ \E n \in 0..length :
       Skip(n) /\ taken' = SubSeq(content, 1, n)
  /\ UNCHANGED <<mem, capacity, reserved>>

\* MUTANT: read_index_ is not incremented.
ReadByte_Peeks ==
  /\ HasLength
  /\ length >= 1
  /\ taken' = SubSeq(content, 1, 1)
  /\ UNCHANGED <<mem, indices, reserved>>

\* ReadByte does not reset an empty buffer.
ReadByte ==
  /\ HasLength
  /\ length >= 1
  /\ taken' = SubSeq(content, 1, 1)
  /\ readIndex' = readIndex + 1
  /\ UNCHANGED <<mem, capacity, writeIndex, reserved>>

\* What the operations that set the read index leave alone.
Rewinds ==
  /\ UNCHANGED <<mem, capacity, writeIndex, reserved>> /\ Forget
  /\ rewound' = IF readIndex' > writeIndex THEN "astray" ELSE "back"

\* UnreadBytes, for a length that its assertion allows.
UnreadBytes ==
  /\ \E n \in 1..Len(taken) : n < readIndex /\ readIndex' = readIndex - n
  /\ Rewinds

SetReadIndex ==
  /\ \E i \in 0..writeIndex : readIndex' = i
  /\ Rewinds

ResetData ==
  /\ readIndex' = reserved
  /\ Rewinds

ResetBegin ==
  /\ readIndex' = 0
  /\ Rewinds

-----------------------------------------------------------------------------
Rewind == UnreadBytes \/ SetReadIndex \/ ResetData \/ ResetBegin

Next ==
  \/ Write \/ WriteBytes \/ ReadFromFD \/ PrependBytes \/ UnwriteBytes \/ ToText
  \/ Reserve \/ Shrink \/ TruncateTo \/ NextBytes \/ ReadByte
  \/ Rewind

Spec == Init /\ [][Next]_vars

-----------------------------------------------------------------------------
(* What is checked.                                                        *)

Types ==
  /\ capacity \in Nat /\ readIndex \in Nat /\ writeIndex \in Nat /\ reserved \in Nat
  /\ mem \in [0..capacity-1 -> Cell]
  /\ taken \in Seq(Cell)

\* The types of the buffer's state.
TypeOK == Types /\ rewound \in {"no", "back", "astray"}

\* The indices are in order and, with the reserve, within the storage, whatever
\* is called: length() and WritableBytes() cannot wrap, what EnsureWritableBytes
\* asserts holds, and no copy leaves the storage.  The exception is ResetData
\* (buffer.h 207) after a Prepend and a cut have left the write index inside the
\* reserve.
IndicesInOrder ==
  /\ readIndex <= writeIndex \/ rewound = "astray"
  /\ writeIndex <= capacity
  /\ reserved <= capacity

Queue == INSTANCE ByteQueue

\* The buffer is a queue of bytes until the user sets the read index back:
\* whatever grows, moves or shrinks the storage keeps the content, and no byte
\* that was not written is ever read.
IsByteQueue == Queue!Init /\ [][Queue!Next \/ rewound' # "no"]_content

\* UnreadBytes gives back the last bytes the most recent read operation has
\* returned, if that has not emptied the buffer: the reads other than ReadByte
\* then move both indices back to the reserve.
UnreadGivesBack ==
  [][UnreadBytes /\ length > 0 =>
       LET n == readIndex - readIndex'
       IN SubSeq(content', 1, n) = SubSeq(taken, Len(taken) - n + 1, Len(taken))]_vars
=============================================================================
