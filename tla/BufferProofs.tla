----------------------------- MODULE BufferProofs -----------------------------
(***************************************************************************)
(* That a Buffer keeps its indices in order, is a queue of bytes and gives *)
(* back what was read, for every storage size, reserve and argument.       *)
(***************************************************************************)
EXTENDS Buffer, SequenceTheorems, TLAPS

\* A block whose indices are in order and within its storage.
Fine(b) ==
  /\ b = Block(b.mem, b.capacity, b.read, b.write)
  /\ b.capacity \in Nat /\ b.read \in Nat /\ b.write \in Nat
  /\ b.mem \in [0..b.capacity-1 -> Cell]
  /\ b.read <= b.write /\ b.write <= b.capacity
  /\ reserved <= b.capacity

-----------------------------------------------------------------------------
(* Lemmas about the operators on storages and blocks.                      *)

\* A sequence of bytes given by its length is a sequence.
LEMMA DataSeq ==
  ASSUME NEW n \in Nat, NEW d \in Data(n)
  PROVE  d \in Seq(Byte) /\ Len(d) = n /\ d \in Seq(Cell)
BY DEF Data, Cell

\* Storing bytes keeps the size of the storage.
LEMMA StoredType ==
  ASSUME NEW c \in Nat, NEW m \in [0..c-1 -> Cell], NEW at \in Nat, NEW d \in Seq(Cell)
  PROVE  Stored(m, at, d) \in [0..c-1 -> Cell]
BY DEF Stored

\* New storage.
LEMMA FreshType ==
  ASSUME NEW n \in Nat
  PROVE  Fresh(n) \in [0..n-1 -> Cell]
BY Zenon DEF Fresh, Cell

\* A slice within the storage is a sequence of its length.
LEMMA SliceType ==
  ASSUME NEW c \in Nat, NEW m \in [0..c-1 -> Cell],
         NEW r \in Nat, NEW w \in Nat, r <= w, w <= c
  PROVE  /\ Slice(m, r, w) \in Seq(Cell)
         /\ Len(Slice(m, r, w)) = w - r
<1>1. \A i \in 1..w-r : r + i - 1 \in 0..c-1
  OBVIOUS
<1>2. Slice(m, r, w) \in [1..w-r -> Cell]
  BY <1>1, Zenon DEF Slice
<1> QED
  BY <1>2 DEF Slice

\* grow makes room for len bytes and keeps the block in order.
LEMMA GrownFine ==
  ASSUME NEW b, Fine(b), reserved \in Nat, NEW len \in Nat
  PROVE  LET g == Grown(b, len)
         IN Fine(g) /\ g.capacity - g.write >= len
<1> DEFINE d == Slice(b.mem, b.read, b.write)
           n == 2 * b.capacity + len
<1>1. d \in Seq(Cell) /\ Len(d) = b.write - b.read
  BY SliceType, ZenonT(40) DEF Fine
<1>2. n \in Nat
  BY DEF Fine
<1>3. Stored(Fresh(n), reserved, d) \in [0..n-1 -> Cell]
  BY <1>1, <1>2, FreshType, StoredType, Zenon
<1>4. Stored(b.mem, reserved, d) \in [0..b.capacity-1 -> Cell]
  BY <1>1, StoredType, Zenon DEF Fine
<1> HIDE DEF d
<1>5. CASE (b.capacity - b.write) + b.read < len + reserved
  <2>1. Grown(b, len) = Block(Stored(Fresh(n), reserved, d), n, reserved,
                              reserved + (b.write - b.read))
    BY <1>5, Zenon DEF Grown, d
  <2> QED
    BY <2>1, <1>2, <1>3, SMTT(30) DEF Fine, Block
<1>6. CASE ~((b.capacity - b.write) + b.read < len + reserved)
  <2>1. Grown(b, len) = Block(Stored(b.mem, reserved, d), b.capacity, reserved,
                              reserved + (b.write - b.read))
    BY <1>6, Zenon DEF Grown, d
  <2> QED
    BY <2>1, <1>4, <1>6 DEF Fine, Block
<1> QED
  BY <1>5, <1>6, Zenon

\* What has been stored is what is read at its place.
LEMMA SliceStored ==
  ASSUME NEW c \in Nat, NEW m \in [0..c-1 -> Cell], NEW at \in Nat, NEW d \in Seq(Cell),
         at + Len(d) <= c
  PROVE  Slice(Stored(m, at, d), at, at + Len(d)) = d
<1> DEFINE s == Slice(Stored(m, at, d), at, at + Len(d))
<1>1. s \in Seq(Cell) /\ Len(s) = Len(d)
  <2>1. at + Len(d) \in Nat /\ at <= at + Len(d)
    OBVIOUS
  <2>2. Stored(m, at, d) \in [0..c-1 -> Cell]
    BY StoredType, Zenon
  <2>3. s \in Seq(Cell) /\ Len(s) = (at + Len(d)) - at
    BY <2>1, <2>2, SliceType, Zenon
  <2> QED
    BY <2>3
<1>2. \A i \in 1..Len(d) : s[i] = d[i]
  <2> TAKE i \in 1..Len(d)
  <2>1. s[i] = Stored(m, at, d)[at + i - 1]
    BY DEF Slice
  <2>2. at + i - 1 \in DOMAIN m
    OBVIOUS
  <2> QED
    BY <2>1, <2>2 DEF Stored
<1> HIDE DEF s
<1>3. s = d
  BY <1>1, <1>2, SeqEqual, Zenon
<1> QED
  BY <1>3, Zenon DEF s

\* In new storage too.
LEMMA SliceStoredFresh ==
  ASSUME NEW n \in Nat, NEW at \in Nat, NEW d \in Seq(Cell), at + Len(d) <= n
  PROVE  Slice(Stored(Fresh(n), at, d), at, at + Len(d)) = d
BY FreshType, SliceStored, Zenon

\* Storing bytes after a slice appends them to it.
LEMMA SliceAppend ==
  ASSUME NEW c \in Nat, NEW m \in [0..c-1 -> Cell], NEW r \in Nat, NEW w \in Nat,
         NEW d \in Seq(Cell), r <= w, w + Len(d) <= c
  PROVE  Slice(Stored(m, w, d), r, w + Len(d)) = Slice(m, r, w) \o d
<1> DEFINE s == Slice(Stored(m, w, d), r, w + Len(d))
           t == Slice(m, r, w)
<1>0. Len(d) \in Nat /\ w + Len(d) \in Nat /\ r <= w + Len(d) /\ w <= c
  OBVIOUS
<1>1. s \in Seq(Cell) /\ Len(s) = (w - r) + Len(d)
  <2>1. Stored(m, w, d) \in [0..c-1 -> Cell]
    BY StoredType, Zenon
  <2>2. Len(s) = (w + Len(d)) - r /\ s \in Seq(Cell)
    BY <1>0, <2>1, SliceType, ZenonT(40)
  <2> QED
    BY <1>0, <2>2
<1>2. t \in Seq(Cell) /\ Len(t) = w - r
  BY <1>0, SliceType, ZenonT(40)
<1>3. \A i \in 1..(w - r) + Len(d) : s[i] = IF i <= w - r THEN t[i] ELSE d[i - (w - r)]
  <2> TAKE i \in 1..(w - r) + Len(d)
  <2>1. s[i] = Stored(m, w, d)[r + i - 1]
    BY DEF Slice
  <2>2. r + i - 1 \in DOMAIN m
    OBVIOUS
  <2>3. i <= w - r => t[i] = m[r + i - 1]
    BY DEF Slice
  <2> QED
    BY <2>1, <2>2, <2>3, SMTT(30) DEF Stored
<1> HIDE DEF s, t
<1>4. s = t \o d
  <2>1. /\ t \o d \in Seq(Cell) /\ Len(t \o d) = Len(t) + Len(d)
        /\ \A i \in 1..Len(t) + Len(d) :
             (t \o d)[i] = IF i <= Len(t) THEN t[i] ELSE d[i - Len(t)]
    BY <1>2, ConcatProperties, Zenon
  <2> QED
    BY <1>1, <1>2, <1>3, <2>1, SeqEqual, Zenon
<1> QED
  BY <1>4, Zenon DEF s, t

\* Storing bytes before a slice puts them before it.
LEMMA SlicePrepend ==
  ASSUME NEW c \in Nat, NEW m \in [0..c-1 -> Cell], NEW r \in Nat, NEW w \in Nat,
         NEW d \in Seq(Cell), r <= w, w <= c, Len(d) <= r
  PROVE  Slice(Stored(m, r - Len(d), d), r - Len(d), w) = d \o Slice(m, r, w)
<1> DEFINE s == Slice(Stored(m, r - Len(d), d), r - Len(d), w)
           t == Slice(m, r, w)
<1>0. Len(d) \in Nat /\ r - Len(d) \in Nat /\ r - Len(d) <= w
  OBVIOUS
<1>1. s \in Seq(Cell) /\ Len(s) = (w - r) + Len(d)
  <2>1. Stored(m, r - Len(d), d) \in [0..c-1 -> Cell]
    BY <1>0, StoredType, Zenon
  <2>2. \A p \in Nat : p <= w => /\ Len(Slice(Stored(m, r - Len(d), d), p, w)) = w - p
                                /\ Slice(Stored(m, r - Len(d), d), p, w) \in Seq(Cell)
    BY <2>1, SliceType, ZenonT(30)
  <2>3. Len(s) = w - (r - Len(d)) /\ s \in Seq(Cell)
    BY <1>0, <2>2, Zenon
  <2> HIDE DEF s
  <2> QED
    BY <1>0, <2>3
<1>2. t \in Seq(Cell) /\ Len(t) = w - r
  BY SliceType, Zenon
<1>3. \A i \in 1..(w - r) + Len(d) : s[i] = IF i <= Len(d) THEN d[i] ELSE t[i - Len(d)]
  <2> TAKE i \in 1..(w - r) + Len(d)
  <2>1. s[i] = Stored(m, r - Len(d), d)[r - Len(d) + i - 1]
    BY DEF Slice
  <2>2. r - Len(d) + i - 1 \in DOMAIN m
    OBVIOUS
  <2>3. i > Len(d) => t[i - Len(d)] = m[r + (i - Len(d)) - 1]
    BY DEF Slice
  <2> QED
    BY <2>1, <2>2, <2>3 DEF Stored
<1> HIDE DEF s, t
<1>4. s = d \o t
  <2>1. /\ d \o t \in Seq(Cell) /\ Len(d \o t) = Len(d) + (w - r)
        /\ \A i \in 1..Len(d) + (w - r) :
             (d \o t)[i] = IF i <= Len(d) THEN d[i] ELSE t[i - Len(d)]
    BY <1>2, ConcatProperties, Zenon
  <2>2. Len(d) + (w - r) = (w - r) + Len(d)
    BY <1>0
  <2> QED
    BY <1>1, <1>3, <2>1, <2>2, SeqEqual, Zenon
<1> QED
  BY <1>4, Zenon DEF s, t

\* grow keeps the content.
LEMMA GrownContent ==
  ASSUME NEW b, Fine(b), reserved \in Nat, NEW len \in Nat
  PROVE  LET g == Grown(b, len)
         IN Slice(g.mem, g.read, g.write) = Slice(b.mem, b.read, b.write)
<1> DEFINE d == Slice(b.mem, b.read, b.write)
           n == 2 * b.capacity + len
<1>1. d \in Seq(Cell) /\ Len(d) = b.write - b.read
  BY SliceType, ZenonT(40) DEF Fine
<1> HIDE DEF d
<1>2. n \in Nat /\ reserved + Len(d) <= n
  BY <1>1, SMTT(30) DEF Fine
<1>3. Slice(Stored(Fresh(n), reserved, d), reserved, reserved + Len(d)) = d
  BY <1>1, <1>2, FreshType, SliceStored, Zenon
<1>4. CASE (b.capacity - b.write) + b.read < len + reserved
  <2>1. Grown(b, len) = Block(Stored(Fresh(n), reserved, d), n, reserved,
                              reserved + (b.write - b.read))
    BY <1>4, Zenon DEF Grown, d
  <2> QED
    BY <2>1, <1>1, <1>3 DEF Block, d
<1>5. CASE ~((b.capacity - b.write) + b.read < len + reserved)
  <2>1. Grown(b, len) = Block(Stored(b.mem, reserved, d), b.capacity, reserved,
                              reserved + (b.write - b.read))
    BY <1>5, Zenon DEF Grown, d
  <2>2. reserved + Len(d) <= b.capacity
    BY <1>1, <1>5 DEF Fine
  <2>3. Slice(Stored(b.mem, reserved, d), reserved, reserved + Len(d)) = d
    BY <1>1, <2>2, SliceStored, Zenon DEF Fine
  <2> QED
    BY <2>1, <2>3, <1>1 DEF Block, d
<1> QED
  BY <1>4, <1>5, Zenon

\* Write keeps the block in order and appends what it is given.
LEMMA WrittenFine ==
  ASSUME NEW b, Fine(b), reserved \in Nat, NEW d \in Seq(Cell)
  PROVE  LET v == Written(b, d)
         IN /\ Fine(v)
            /\ v.write - v.read = (b.write - b.read) + Len(d)
            /\ Slice(v.mem, v.read, v.write) = Slice(b.mem, b.read, b.write) \o d
<1> DEFINE e == EnsureWritableBytes(b, Len(d))
<1>1. /\ Fine(e) /\ e.capacity - e.write >= Len(d)
      /\ Slice(e.mem, e.read, e.write) = Slice(b.mem, b.read, b.write)
  <2>1. Len(d) \in Nat
    OBVIOUS
  <2>2. CASE b.capacity - b.write < Len(d)
    BY <2>1, <2>2, GrownFine, GrownContent, Zenon DEF EnsureWritableBytes
  <2>3. CASE ~(b.capacity - b.write < Len(d))
    BY <2>1, <2>3 DEF EnsureWritableBytes, Fine
  <2> QED
    BY <2>2, <2>3, Zenon
<1>2. e.write - e.read = b.write - b.read
  <2>1. ASSUME NEW f, Fine(f)
        PROVE  Len(Slice(f.mem, f.read, f.write)) = f.write - f.read
    <3>1. /\ f.capacity \in Nat /\ f.read \in Nat /\ f.write \in Nat
          /\ f.mem \in [0..f.capacity-1 -> Cell]
          /\ f.read <= f.write /\ f.write <= f.capacity
      BY <2>1, Zenon DEF Fine
    <3> QED
      BY <3>1, SliceType
  <2> QED
    BY <1>1, <2>1, Zenon
<1>4. Written(b, d) = Block(Stored(e.mem, e.write, d), e.capacity, e.read, e.write + Len(d))
  BY Zenon DEF Written
<1> HIDE DEF e
<1>5. Stored(e.mem, e.write, d) \in [0..e.capacity-1 -> Cell]
  BY <1>1, StoredType, Zenon DEF Fine
<1>6. Slice(Stored(e.mem, e.write, d), e.read, e.write + Len(d))
        = Slice(e.mem, e.read, e.write) \o d
  <2>1. /\ e.capacity \in Nat /\ e.mem \in [0..e.capacity-1 -> Cell]
        /\ e.read \in Nat /\ e.write \in Nat /\ e.read <= e.write
        /\ e.write + Len(d) <= e.capacity
    BY <1>1 DEF Fine
  <2> QED
    BY <2>1, SliceAppend, ZenonT(40)
<1>7. Fine(Written(b, d))
  BY <1>1, <1>4, <1>5 DEF Fine, Block
<1>8. Slice(Written(b, d).mem, Written(b, d).read, Written(b, d).write)
        = Slice(b.mem, b.read, b.write) \o d
  BY <1>1, <1>4, <1>6 DEF Block
<1>9. Written(b, d).write - Written(b, d).read = (b.write - b.read) + Len(d)
  BY <1>1, <1>2, <1>4 DEF Block, Fine
<1> QED
  BY <1>7, <1>8, <1>9, Zenon

-----------------------------------------------------------------------------
(* Every operation keeps the indices in order, and what it does to the     *)
(* content.                                                                *)

InOrder == readIndex <= writeIndex /\ writeIndex <= capacity /\ reserved <= capacity
Inv == Types /\ InOrder

\* What the invariant says, for citing.
LEMMA InvFacts ==
  ASSUME Inv
  PROVE  /\ capacity \in Nat /\ readIndex \in Nat /\ writeIndex \in Nat /\ reserved \in Nat
         /\ mem \in [0..capacity-1 -> Cell]
         /\ readIndex <= writeIndex /\ writeIndex <= capacity /\ reserved <= capacity
BY Zenon DEF Inv, Types, InOrder

\* Bytes stored behind the content are appended to it.
LEMMA AppendHere ==
  ASSUME Inv, NEW d \in Seq(Cell), writeIndex + Len(d) <= capacity
  PROVE  Slice(Stored(mem, writeIndex, d), readIndex, writeIndex + Len(d)) = content \o d
<1>1. Slice(Stored(mem, writeIndex, d), readIndex, writeIndex + Len(d))
        = Slice(mem, readIndex, writeIndex) \o d
  BY SliceAppend, InvFacts, ZenonT(40)
<1> QED
  BY <1>1, Zenon DEF content

\* Bytes stored before the content are put before it.
LEMMA PrependHere ==
  ASSUME Inv, NEW d \in Seq(Cell), Len(d) <= readIndex
  PROVE  Slice(Stored(mem, readIndex - Len(d), d), readIndex - Len(d), writeIndex)
           = d \o content
<1>1. Slice(Stored(mem, readIndex - Len(d), d), readIndex - Len(d), writeIndex)
        = d \o Slice(mem, readIndex, writeIndex)
  <2>1. /\ capacity \in Nat /\ readIndex \in Nat /\ writeIndex \in Nat
        /\ mem \in [0..capacity-1 -> Cell]
        /\ readIndex <= writeIndex /\ writeIndex <= capacity
    BY InvFacts, Zenon
  <2> QED
    BY <2>1, SlicePrepend, ZenonT(30)
<1> QED
  BY <1>1, Zenon DEF content

\* Concatenation is associative, for sequences of cells.
LEMMA Associative ==
  ASSUME NEW s \in Seq(Cell), NEW t \in Seq(Cell), NEW u \in Seq(Cell)
  PROVE  (s \o t) \o u = s \o (t \o u)
BY ConcatAssociative

\* The buffer itself is such a block.
LEMMA ThisFine ==
  ASSUME Inv
  PROVE  /\ Fine(This) /\ content = Slice(This.mem, This.read, This.write)
         /\ This.mem = mem /\ This.capacity = capacity
         /\ This.read = readIndex /\ This.write = writeIndex
         /\ content \in Seq(Cell) /\ Len(content) = length
<1>1. /\ This.mem = mem /\ This.capacity = capacity
      /\ This.read = readIndex /\ This.write = writeIndex
  BY Zenon DEF This, Block
<1>2. Fine(This)
  BY <1>1, Zenon DEF Fine, This, Inv, Types, InOrder
<1>3. content \in Seq(Cell) /\ Len(content) = length
  BY SliceType DEF Inv, Types, InOrder, content, length
<1> QED
  BY <1>1, <1>2, <1>3, Zenon DEF content

\* The buffer after an operation is the block that the operation leaves.
LEMMA BecomesFine ==
  ASSUME NEW b, Fine(b), Becomes(b), reserved \in Nat, UNCHANGED reserved, Forget
  PROVE  Inv' /\ content' = Slice(b.mem, b.read, b.write)
<1>1. mem' = b.mem /\ capacity' = b.capacity /\ readIndex' = b.read /\ writeIndex' = b.write
  BY Zenon DEF Becomes
<1> QED
  BY <1>1 DEF Inv, Types, InOrder, Fine, Forget, content

\* A write appends.
LEMMA WriteStep ==
  ASSUME Inv, Write
  PROVE  Inv' /\ \E d \in Seq(Byte) : content' = content \o d
<1>1. PICK n \in Lens : \E d \in Data(n) : Becomes(Written(This, d))
  BY Zenon DEF Write
<1>2. PICK d \in Data(n) : Becomes(Written(This, d))
  BY <1>1, Zenon
<1>3. d \in Seq(Byte) /\ d \in Seq(Cell)
  BY DataSeq DEF Lens
<1>4. /\ Fine(Written(This, d))
      /\ Slice(Written(This, d).mem, Written(This, d).read, Written(This, d).write)
           = content \o d
  BY <1>3, ThisFine, WrittenFine, Zenon DEF Inv, Types
<1> QED
  BY <1>2, <1>3, <1>4, BecomesFine, Zenon DEF Write, Inv, Types

\* So does a user that fills the storage behind the content.
LEMMA WriteBytesStep ==
  ASSUME Inv, WriteBytes
  PROVE  Inv' /\ \E d \in Seq(Byte) : content' = content \o d
<1>1. PICK n \in Lens : n <= WritableBytes /\ \E d \in Data(n) :
         mem' = Stored(mem, writeIndex, d) /\ writeIndex' = writeIndex + n
  BY Zenon DEF WriteBytes
<1>2. PICK d \in Data(n) : mem' = Stored(mem, writeIndex, d) /\ writeIndex' = writeIndex + n
  BY <1>1, Zenon
<1>3. n \in Nat /\ d \in Seq(Byte) /\ d \in Seq(Cell) /\ Len(d) = n
  BY DataSeq DEF Lens
<1>4. mem' \in [0..capacity-1 -> Cell]
  BY <1>2, <1>3, StoredType, Zenon DEF Inv, Types
<1>5. Inv'
  BY <1>1, <1>2, <1>3, <1>4
     DEF WriteBytes, Forget, Inv, Types, InOrder, WritableBytes
<1>6. writeIndex + Len(d) <= capacity
  BY <1>1, <1>3 DEF WritableBytes, Inv, Types
<1>7. content' = Slice(Stored(mem, writeIndex, d), readIndex, writeIndex + Len(d))
  BY <1>2, <1>3, Zenon DEF content, WriteBytes
<1>8. content' = content \o d
  BY <1>3, <1>6, <1>7, AppendHere, Zenon
<1> QED
  BY <1>3, <1>5, <1>8, Zenon

\* Writing before the content puts the bytes before it.
LEMMA PrependStep ==
  ASSUME Inv, PrependBytes
  PROVE  Inv' /\ \E d \in Seq(Byte) : content' = d \o content
<1>1. PICK n \in Lens : n <= PrependableBytes /\ \E d \in Data(n) :
         mem' = Stored(mem, readIndex - n, d) /\ readIndex' = readIndex - n
  BY Zenon DEF PrependBytes
<1>2. PICK d \in Data(n) : mem' = Stored(mem, readIndex - n, d) /\ readIndex' = readIndex - n
  BY <1>1, Zenon
<1>3. n \in Nat /\ d \in Seq(Byte) /\ d \in Seq(Cell) /\ Len(d) = n
  BY DataSeq DEF Lens
<1>4. readIndex - n \in Nat
  BY <1>1, <1>3 DEF PrependableBytes, Inv, Types
<1>5. mem' \in [0..capacity-1 -> Cell]
  BY <1>2, <1>3, <1>4, StoredType, Zenon DEF Inv, Types
<1>6. Inv'
  BY <1>2, <1>3, <1>4, <1>5
     DEF PrependBytes, Forget, Inv, Types, InOrder
<1>7. content' = Slice(Stored(mem, readIndex - Len(d), d), readIndex - Len(d), writeIndex)
  BY <1>2, <1>3, Zenon DEF content, PrependBytes
<1>8. content' = d \o content
  <2>1. Len(d) <= readIndex
    BY <1>1, <1>3, Zenon DEF PrependableBytes
  <2> QED
    BY <1>3, <1>7, <2>1, PrependHere, Zenon
<1> QED
  BY <1>3, <1>6, <1>8, Zenon

\* Filling the storage behind the content keeps the block in order and appends.
LEMMA FilledFine ==
  ASSUME Inv, NEW e \in Seq(Cell), Len(e) <= WritableBytes
  PROVE  /\ Fine(Filled(e))
         /\ Slice(Filled(e).mem, Filled(e).read, Filled(e).write) = content \o e
<1>1. Stored(mem, writeIndex, e) \in [0..capacity-1 -> Cell]
  BY InvFacts, StoredType, Zenon
<1>2. Len(e) \in Nat /\ writeIndex + Len(e) <= capacity
  BY InvFacts DEF WritableBytes
<1>3. Slice(Stored(mem, writeIndex, e), readIndex, writeIndex + Len(e)) = content \o e
  BY <1>2, AppendHere, Zenon
<1> QED
  BY <1>1, <1>2, <1>3, InvFacts DEF Fine, Filled, Block

\* What readv has filled is appended, in the storage and past it.
LEMMA ReadFromFDStep ==
  ASSUME Inv, ReadFromFD
  PROVE  Inv' /\ \E d \in Seq(Byte) : content' = content \o d
<1> DEFINE k == WritableBytes
<1>0. k \in Nat /\ ExtraSize \in Nat
  BY BufferAssumption DEF Inv, Types, InOrder, WritableBytes
<1>1. PICK n \in 1..k + ExtraSize : \E d \in Data(n) :
        Becomes(IF n <= k THEN Filled(d)
                          ELSE Written(Filled(SubSeq(d, 1, k)), SubSeq(d, k + 1, n)))
  BY Zenon DEF ReadFromFD
<1>2. PICK d \in Data(n) :
        Becomes(IF n <= k THEN Filled(d)
                          ELSE Written(Filled(SubSeq(d, 1, k)), SubSeq(d, k + 1, n)))
  BY <1>1, Zenon
<1>3. n \in Nat /\ d \in Seq(Byte) /\ d \in Seq(Cell) /\ Len(d) = n
  BY <1>0, DataSeq
<1>4. ASSUME NEW e \in Seq(Cell), Len(e) <= k
      PROVE  /\ Fine(Filled(e))
             /\ Slice(Filled(e).mem, Filled(e).read, Filled(e).write) = content \o e
  BY <1>4, FilledFine, Zenon
<1>5. reserved \in Nat /\ UNCHANGED reserved /\ Forget
  BY Zenon DEF ReadFromFD, Inv, Types
<1>6. CASE n <= k
  <2>1. Becomes(Filled(d))
    BY <1>2, <1>3, <1>6, Zenon
  <2> QED
    BY <1>3, <1>4, <1>5, <1>6, <2>1, BecomesFine, Zenon
<1>7. CASE ~(n <= k)
  <2> DEFINE e == SubSeq(d, 1, k)
             f == SubSeq(d, k + 1, n)
  <2>1. /\ e \in Seq(Byte) /\ e \in Seq(Cell) /\ Len(e) = k
        /\ f \in Seq(Byte) /\ f \in Seq(Cell) /\ Len(f) = n - k
    BY <1>0, <1>3, <1>7
  <2>2. e \o f = d
    BY <1>0, <1>3, <1>7
  <2>3. Becomes(Written(Filled(e), f))
    BY <1>2, <1>7, Zenon
  <2> HIDE DEF e, f
  <2>4. Fine(Filled(e)) /\ Slice(Filled(e).mem, Filled(e).read, Filled(e).write) = content \o e
    BY <1>0, <1>4, <2>1
  <2> DEFINE v == Written(Filled(e), f)
  <2>5. Fine(v) /\ Slice(v.mem, v.read, v.write) = (content \o e) \o f
    BY <1>5, <2>1, <2>4, WrittenFine, Zenon
  <2>6. (content \o e) \o f = content \o d
    <3>1. content \in Seq(Cell) /\ e \in Seq(Cell) /\ f \in Seq(Cell)
      BY <2>1, ThisFine, Zenon
    <3>2. (content \o e) \o f = content \o (e \o f)
      BY <3>1, Associative, Zenon
    <3> QED
      BY <2>2, <3>2, Zenon
  <2>7. Inv' /\ content' = Slice(v.mem, v.read, v.write)
    BY <1>5, <2>3, <2>5, BecomesFine, Zenon
  <2> QED
    BY <1>3, <2>5, <2>6, <2>7, Zenon
<1> QED
  BY <1>6, <1>7, Zenon

\* An empty slice.
LEMMA SliceEmpty ==
  ASSUME NEW m, NEW r \in Nat
  PROVE  Slice(m, r, r) = <<>>
BY DEF Slice

\* A slice of the buffer that ends earlier.
LEMMA CutHere ==
  ASSUME Inv, NEW v \in Nat, readIndex <= v, v <= writeIndex
  PROVE  Slice(mem, readIndex, v) = SubSeq(content, 1, v - readIndex)
BY InvFacts DEF content, Slice

\* A slice of the buffer that starts later.
LEMMA DropHere ==
  ASSUME Inv, NEW k \in Nat, readIndex + k <= writeIndex
  PROVE  Slice(mem, readIndex + k, writeIndex) = SubSeq(content, k + 1, writeIndex - readIndex)
<1> DEFINE s == Slice(mem, readIndex + k, writeIndex)
           n == writeIndex - readIndex
           t == SubSeq(content, k + 1, n)
<1>1. readIndex + k \in Nat /\ n \in Nat /\ k <= n /\ writeIndex - (readIndex + k) = n - k
  BY InvFacts
<1>2. s \in Seq(Cell) /\ Len(s) = n - k
  <2>1. \A p \in Nat : p <= writeIndex =>
          Slice(mem, p, writeIndex) \in Seq(Cell) /\ Len(Slice(mem, p, writeIndex)) = writeIndex - p
    <3>1. /\ capacity \in Nat /\ mem \in [0..capacity-1 -> Cell]
          /\ writeIndex \in Nat /\ writeIndex <= capacity
      BY InvFacts, Zenon
    <3> QED
      BY <3>1, SliceType, ZenonT(30)
  <2>2. s \in Seq(Cell) /\ Len(s) = writeIndex - (readIndex + k)
    BY <1>1, <2>1, Zenon
  <2> QED
    BY <1>1, <2>2, Zenon
<1>3. content \in Seq(Cell) /\ Len(content) = n
  BY ThisFine, Zenon DEF length
<1>4. t \in Seq(Cell) /\ Len(t) = n - k
  BY <1>1, <1>3
<1>5. ASSUME NEW i \in 1..n - k
      PROVE  s[i] = t[i]
  <2>1. s[i] = mem[(readIndex + k) + i - 1]
    BY <1>1, Zenon DEF Slice
  <2>2. t[i] = content[k + i]
    BY <1>1, <1>3
  <2>3. content[k + i] = mem[readIndex + (k + i) - 1]
    BY <1>1 DEF content, Slice
  <2>4. (readIndex + k) + i - 1 = readIndex + (k + i) - 1
    BY InvFacts
  <2> QED
    BY <2>1, <2>2, <2>3, <2>4, Zenon
<1> HIDE DEF s, t, n
<1>6. s = t
  BY <1>2, <1>4, <1>5, SeqEqual, Zenon
<1> QED
  BY <1>6, Zenon DEF s, t, n

\* UnwriteBytes and Truncate cut the content.
LEMMA CutStep ==
  ASSUME Inv, UnwriteBytes \/ TruncateTo
  PROVE  Inv' /\ \E k \in 0..Len(content) : content' = SubSeq(content, 1, k)
<1>0. content \in Seq(Cell) /\ Len(content) = writeIndex - readIndex
  BY ThisFine, Zenon DEF length
<1>1. mem' = mem /\ capacity' = capacity /\ reserved' = reserved /\ taken' = <<>>
  BY Zenon DEF UnwriteBytes, TruncateTo, Forget
<1>2. CASE readIndex' = readIndex /\ writeIndex' \in readIndex..writeIndex
  <2>1. Inv'
    BY <1>1, <1>2 DEF Inv, Types, InOrder
  <2>2. Slice(mem, readIndex, writeIndex') = SubSeq(content, 1, writeIndex' - readIndex)
    <3>1. writeIndex' \in Nat /\ readIndex <= writeIndex' /\ writeIndex' <= writeIndex
      BY <1>2, InvFacts
    <3> QED
      BY <3>1, CutHere, Zenon
  <2>3. content' = SubSeq(content, 1, writeIndex' - readIndex)
    BY <1>1, <1>2, <2>2, Zenon DEF content
  <2>4. writeIndex' - readIndex \in 0..Len(content)
    BY <1>0, <1>2, InvFacts
  <2> QED
    BY <2>1, <2>3, <2>4, Zenon
<1>3. CASE readIndex' = reserved /\ writeIndex' = reserved
  <2>1. Inv'
    BY <1>1, <1>3 DEF Inv, Types, InOrder
  <2>2. content' = <<>>
    BY <1>3, InvFacts, SliceEmpty, Zenon DEF content
  <2>3. SubSeq(content, 1, 0) = <<>> /\ 0 \in 0..Len(content)
    BY <1>0, InvFacts
  <2> QED
    BY <2>1, <2>2, <2>3, Zenon
<1>4. CASE UnwriteBytes
  BY <1>2, <1>4, InvFacts DEF UnwriteBytes, Lens, length
<1>5. CASE TruncateTo
  <2>1. PICK n \in Nat : Truncate(n)
    BY <1>5 DEF TruncateTo, Lens
  <2> QED
    BY <1>2, <1>3, <2>1, InvFacts DEF Truncate
<1> QED
  BY <1>4, <1>5, Zenon

\* The read operations consume the content from its front.
LEMMA TakeStep ==
  ASSUME Inv, NextBytes \/ ReadByte
  PROVE  Inv' /\ \E k \in 0..Len(content) : content' = SubSeq(content, k + 1, Len(content))
<1>0. content \in Seq(Cell) /\ Len(content) = writeIndex - readIndex
  BY ThisFine, Zenon DEF length
<1>1. PICK n \in 0..Len(content) :
        /\ mem' = mem /\ capacity' = capacity /\ reserved' = reserved
        /\ taken' = SubSeq(content, 1, n)
        /\ \/ readIndex' = readIndex + n /\ writeIndex' = writeIndex
           \/ n = Len(content) /\ readIndex' = reserved /\ writeIndex' = reserved
  <2>1. CASE NextBytes
    BY <1>0, <2>1, InvFacts DEF NextBytes, Skip, Truncate, length
  <2>2. CASE ReadByte
    <3>1. 1 \in 0..Len(content)
      BY <1>0, <2>2, InvFacts DEF ReadByte, length
    <3> QED
      BY <2>2, <3>1, Zenon DEF ReadByte
  <2> QED
    BY <2>1, <2>2, Zenon
<1>2. taken' \in Seq(Cell)
  BY <1>0, <1>1
<1>3. CASE readIndex' = readIndex + n /\ writeIndex' = writeIndex
  <2>1. readIndex + n \in Nat /\ readIndex + n <= writeIndex
    BY <1>0, InvFacts
  <2>2. Inv'
    BY <1>1, <1>2, <1>3, <2>1, Zenon DEF Inv, Types, InOrder
  <2>3. Slice(mem, readIndex + n, writeIndex)
          = SubSeq(content, n + 1, writeIndex - readIndex)
    BY <2>1, DropHere
  <2>4. content' = SubSeq(content, n + 1, Len(content))
    BY <1>0, <1>1, <1>3, <2>3, Zenon DEF content
  <2> QED
    BY <2>2, <2>4, Zenon
<1>4. CASE n = Len(content) /\ readIndex' = reserved /\ writeIndex' = reserved
  <2>1. Inv'
    BY <1>1, <1>2, <1>4 DEF Inv, Types, InOrder
  <2>2. content' = <<>>
    BY <1>4, InvFacts, SliceEmpty, Zenon DEF content
  <2>3. SubSeq(content, n + 1, Len(content)) = <<>>
    BY <1>0, <1>4
  <2> QED
    BY <2>1, <2>2, <2>3, Zenon
<1> QED
  BY <1>1, <1>3, <1>4, Zenon

\* ToText, Reserve and Shrink keep the content.
LEMMA SameStep ==
  ASSUME Inv, ToText \/ Reserve \/ Shrink
  PROVE  Inv' /\ content' = content
<1>0. /\ Fine(This) /\ reserved \in Nat /\ content \in Seq(Cell)
      /\ content = Slice(This.mem, This.read, This.write)
      /\ Len(content) = writeIndex - readIndex
      /\ This.write - This.read = writeIndex - readIndex
  BY ThisFine, Zenon DEF Inv, Types, length
<1>1. CASE ToText
  <2>1. PICK zero \in Byte :
          LET b == Written(This, <<zero>>)
          IN Becomes(Block(b.mem, b.capacity, b.read, b.write - 1))
    BY <1>1, Zenon DEF ToText
  <2> DEFINE z == <<zero>>
             b == Written(This, z)
             e == Block(b.mem, b.capacity, b.read, b.write - 1)
  <2>2. z \in Seq(Cell) /\ Len(z) = 1
    BY DEF Cell
  <2> HIDE DEF z
  <2>3. /\ Fine(b) /\ b.write - b.read = (writeIndex - readIndex) + 1
        /\ Slice(b.mem, b.read, b.write) = content \o z
    BY <1>0, <2>2, WrittenFine, Zenon
  <2>4. Becomes(e)
    BY <2>1, Zenon DEF z
  <2> HIDE DEF b
  <2>5. e.mem = b.mem /\ e.capacity = b.capacity /\ e.read = b.read /\ e.write = b.write - 1
    BY Zenon DEF Block
  <2>6. Fine(e)
    BY <2>3, <2>5, InvFacts DEF Fine, Block
  <2> HIDE DEF e
  <2>7. UNCHANGED reserved /\ Forget
    BY <1>1, Zenon DEF ToText
  <2>8. Inv' /\ content' = Slice(e.mem, e.read, e.write)
    BY <1>0, <2>4, <2>6, <2>7, BecomesFine, Zenon
  <2>9. Slice(e.mem, e.read, e.write) = content
    <3> DEFINE s == Slice(e.mem, e.read, e.write)
    <3>0. /\ b.read \in Nat /\ b.write \in Nat
          /\ e.write - e.read = writeIndex - readIndex
      <4>1. b.read \in Nat /\ b.write \in Nat
        BY <2>3, Zenon DEF Fine
      <4> QED
        BY <4>1, <2>3, <2>5, InvFacts
    <3>1. s \in Seq(Cell) /\ Len(s) = Len(content)
      <4>1. s \in Seq(Cell) /\ Len(s) = e.write - e.read
        BY <2>6, SliceType, Zenon DEF Fine
      <4> QED
        BY <4>1, <1>0, <3>0, Zenon
    <3>2. ASSUME NEW i \in 1..Len(content)
          PROVE  s[i] = content[i]
      <4>1. i \in 1..e.write - e.read /\ i \in 1..b.write - b.read
        BY <1>0, <2>3, <3>0, InvFacts
      <4>2. s[i] = b.mem[b.read + i - 1]
        BY <4>1, <2>5, Zenon DEF Slice
      <4>3. Slice(b.mem, b.read, b.write)[i] = b.mem[b.read + i - 1]
        BY <4>1, Zenon DEF Slice
      <4>4. (content \o z)[i] = content[i]
        BY <1>0, <2>2
      <4> QED
        BY <2>3, <4>2, <4>3, <4>4, Zenon
    <3> HIDE DEF s
    <3>3. s = content
      BY <1>0, <3>1, <3>2, SeqEqual, Zenon
    <3> QED
      BY <3>3, Zenon DEF s
  <2> QED
    BY <2>8, <2>9, Zenon
<1>2. CASE Reserve
  <2>1. PICK len \in 0..2*MaxLen : Becomes(Grown(This, len + reserved))
    BY <1>2, Zenon DEF Reserve
  <2>2. len + reserved \in Nat
    BY <1>0, BufferAssumption
  <2> DEFINE g == Grown(This, len + reserved)
  <2>3. Fine(g) /\ Slice(g.mem, g.read, g.write) = content
    BY <1>0, <2>2, GrownFine, GrownContent, Zenon
  <2> HIDE DEF g
  <2>4. UNCHANGED reserved /\ Forget /\ Becomes(g)
    BY <1>2, <2>1, Zenon DEF Reserve, g
  <2> QED
    BY <1>0, <2>3, <2>4, BecomesFine, Zenon
<1>3. CASE Shrink
  <2>1. PICK k \in Lens :
          LET n == Prepend + length + k
          IN Becomes(Block(Stored(Fresh(n), Prepend, content), n, Prepend, Prepend + length))
    BY <1>3, Zenon DEF Shrink
  <2> DEFINE n == Prepend + length + k
             s == Stored(Fresh(n), Prepend, content)
  <2>2. Prepend \in Nat /\ k \in Nat /\ length \in Nat /\ n \in Nat /\ Len(content) = length
    BY <1>0, InvFacts, BufferAssumption, SMTT(30) DEF Lens, length
  <2>3. s \in [0..n-1 -> Cell]
    BY <1>0, <2>2, FreshType, StoredType, Zenon
  <2>4. Slice(s, Prepend, Prepend + length) = content
    <3>1. Prepend + Len(content) <= n
      BY <2>2
    <3> HIDE DEF n
    <3>2. Slice(s, Prepend, Prepend + Len(content)) = content
      BY <1>0, <2>2, <3>1, SliceStoredFresh, Zenon
    <3> QED
      BY <2>2, <3>2, Zenon
  <2>5. /\ mem' = s /\ capacity' = n /\ readIndex' = Prepend /\ writeIndex' = Prepend + length
        /\ reserved' = Prepend /\ taken' = <<>>
    BY <1>3, <2>1, Zenon DEF Shrink, Becomes, Block, Forget
  <2> HIDE DEF s, n
  <2>6. Prepend + length <= n
    BY <2>2 DEF n
  <2>7. Inv'
    BY <2>2, <2>3, <2>5, <2>6 DEF Inv, Types, InOrder
  <2> QED
    BY <2>4, <2>5, <2>7, Zenon DEF content
<1> QED
  BY <1>1, <1>2, <1>3, Zenon

\* Setting the read index is noticed where it leaves the order.
LEMMA RewindStep ==
  ASSUME TypeOK, IndicesInOrder, Rewind
  PROVE  TypeOK' /\ IndicesInOrder' /\ rewound' # "no"
<1>1. /\ mem' = mem /\ capacity' = capacity /\ writeIndex' = writeIndex
      /\ reserved' = reserved /\ taken' = <<>>
      /\ rewound' = IF readIndex' > writeIndex THEN "astray" ELSE "back"
  BY Zenon DEF Rewind, UnreadBytes, SetReadIndex, ResetData, ResetBegin, Rewinds, Forget
<1>2. readIndex' \in Nat
  <2>1. CASE UnreadBytes
    <3>1. PICK n \in 1..Len(taken) : n < readIndex /\ readIndex' = readIndex - n
      BY <2>1, Zenon DEF UnreadBytes
    <3>2. n \in Nat
      BY DEF TypeOK, Types
    <3> QED
      BY <3>1, <3>2 DEF TypeOK, Types
  <2>2. CASE SetReadIndex
    BY <2>2 DEF SetReadIndex, TypeOK, Types
  <2>3. CASE ResetData
    BY <2>3, Zenon DEF ResetData, TypeOK, Types
  <2>4. CASE ResetBegin
    BY <2>4, Zenon DEF ResetBegin
  <2> QED
    BY <2>1, <2>2, <2>3, <2>4, Zenon DEF Rewind
<1>3. Types'
  BY <1>1, <1>2 DEF TypeOK, Types
<1> QED
  BY <1>1, <1>2, <1>3 DEF TypeOK, Types, IndicesInOrder

\* The other operations.
Use ==
  \/ Write \/ WriteBytes \/ ReadFromFD \/ PrependBytes \/ UnwriteBytes \/ ToText
  \/ Reserve \/ Shrink \/ TruncateTo \/ NextBytes \/ ReadByte

\* They are made on a buffer that is in order, and leave it so.
LEMMA UseStep ==
  ASSUME TypeOK, IndicesInOrder, Use
  PROVE  Inv /\ TypeOK' /\ IndicesInOrder' /\ rewound' = rewound
<1>1. rewound # "astray" /\ rewound' = rewound
  BY Zenon DEF Use, Write, WriteBytes, ReadFromFD, PrependBytes, UnwriteBytes, ToText,
         Reserve, Shrink, TruncateTo, NextBytes, ReadByte, HasLength
<1>2. Inv
  BY <1>1, Zenon DEF TypeOK, IndicesInOrder, Inv, InOrder
<1>3. Inv'
  BY <1>2, WriteStep, WriteBytesStep, ReadFromFDStep, PrependStep, CutStep, TakeStep,
     SameStep, Zenon DEF Use
<1> QED
  BY <1>1, <1>2, <1>3, Zenon DEF TypeOK, IndicesInOrder, Inv, InOrder

\* A new buffer is empty and in order.
LEMMA InitStep ==
  ASSUME Init
  PROVE  TypeOK /\ IndicesInOrder /\ content = <<>>
<1>1. reserved \in Nat /\ InitialSize \in Nat
  BY BufferAssumption, Zenon DEF Init
<1>2. capacity \in Nat /\ mem \in [0..capacity-1 -> Cell]
  BY <1>1, FreshType DEF Init
<1>3. content = <<>>
  BY <1>1, SliceEmpty, Zenon DEF Init, content
<1> QED
  BY <1>1, <1>2, <1>3 DEF Init, TypeOK, Types, IndicesInOrder

\* A step that changes nothing.
LEMMA StutterStep ==
  ASSUME TypeOK, IndicesInOrder, UNCHANGED vars
  PROVE  TypeOK' /\ IndicesInOrder' /\ rewound' = rewound /\ content' = content
BY Zenon DEF TypeOK, Types, IndicesInOrder, vars, indices, content

-----------------------------------------------------------------------------
(* The theorems.                                                           *)

\* The types of the buffer's state are kept and its indices stay in order and
\* within the storage (buffer.h), for every size of storage, reserve and argument,
\* but after a ResetData with the write index inside the reserve.
THEOREM BufferInOrder == Spec => [](TypeOK /\ IndicesInOrder)
<1>1. Init => TypeOK /\ IndicesInOrder
  BY InitStep, Zenon
<1>2. TypeOK /\ IndicesInOrder /\ [Next]_vars => (TypeOK /\ IndicesInOrder)'
  BY UseStep, RewindStep, StutterStep, Zenon DEF Next, Use
<1> QED
  BY <1>1, <1>2, PTL DEF Spec

\* The steps of the content are those of a queue of bytes.
LEMMA QueuePut ==
  ASSUME content \in Seq(Byte), NEW d \in Seq(Byte), content' = content \o d
  PROVE  content' \in Seq(Byte) /\ Queue!Next
<1> DEFINE t == content \o d
<1>1. /\ t \in Seq(Byte) /\ Len(t) >= Len(content)
      /\ SubSeq(t, 1, Len(content)) = content
  OBVIOUS
<1> QED
  BY <1>1, Zenon DEF Queue!Next, Queue!Grow, Queue!Put

\* Bytes put before the first.
LEMMA QueuePush ==
  ASSUME content \in Seq(Byte), NEW d \in Seq(Byte), content' = d \o content
  PROVE  content' \in Seq(Byte) /\ Queue!Next
<1> DEFINE t == d \o content
<1>1. /\ t \in Seq(Byte) /\ Len(t) >= Len(content)
      /\ SubSeq(t, Len(t) - Len(content) + 1, Len(t)) = content
  <2>1. t \in Seq(Byte) /\ Len(t) = Len(d) + Len(content)
    OBVIOUS
  <2>2. Len(t) - Len(content) + 1 = Len(d) + 1 /\ Len(t) >= Len(content)
    BY <2>1
  <2> DEFINE u == SubSeq(t, Len(d) + 1, Len(t))
  <2>3. u \in Seq(Byte) /\ Len(u) = Len(content)
    BY <2>1
  <2>4. ASSUME NEW i \in 1..Len(content)
        PROVE  u[i] = content[i]
    <3>1. u[i] = t[Len(d) + i]
      BY <2>1
    <3>2. t[Len(d) + i] = content[i]
      OBVIOUS
    <3> QED
      BY <3>1, <3>2, Zenon
  <2> HIDE DEF u
  <2>5. u = content
    BY <2>3, <2>4, SeqEqual, Zenon
  <2> QED
    BY <2>1, <2>2, <2>5, Zenon DEF u
<1>2. content' = t
  BY Zenon
<1> HIDE DEF t
<1> QED
  BY <1>1, <1>2, Zenon DEF Queue!Next, Queue!Grow, Queue!Push

\* All but the first bytes discarded.
LEMMA QueueCut ==
  ASSUME content \in Seq(Byte), NEW k \in 0..Len(content), content' = SubSeq(content, 1, k)
  PROVE  content' \in Seq(Byte) /\ Queue!Next
<1> DEFINE t == SubSeq(content, 1, k)
<1>1. t \in Seq(Byte) /\ Len(t) = k /\ k <= Len(content)
  OBVIOUS
<1> QED
  BY <1>1, Zenon DEF Queue!Next, Queue!Drop, Queue!Cut

\* The first bytes consumed.
LEMMA QueueTake ==
  ASSUME content \in Seq(Byte), NEW k \in 0..Len(content),
         content' = SubSeq(content, k + 1, Len(content))
  PROVE  content' \in Seq(Byte) /\ Queue!Next
<1> DEFINE t == SubSeq(content, k + 1, Len(content))
<1>1. t \in Seq(Byte) /\ Len(t) = Len(content) - k /\ Len(t) <= Len(content)
  OBVIOUS
<1>2. content' = t /\ Len(content) \in Nat
  OBVIOUS
<1>3. t = SubSeq(content, k + 1, Len(content))
  BY Zenon
<1> HIDE DEF t
<1>4. Len(content) - Len(t) + 1 = k + 1
  BY <1>1, <1>2
<1> QED
  BY <1>1, <1>2, <1>3, <1>4, Zenon DEF Queue!Next, Queue!Drop, Queue!Take

\* A buffer is a queue of bytes until its read index is set back: it implements
\* ByteQueue, through every growth, move and exchange of its storage (buffer.h).
THEOREM BufferIsByteQueue == Spec => IsByteQueue
<1> DEFINE Clean == rewound = "no" => content \in Seq(Byte)
           IInv == TypeOK /\ IndicesInOrder /\ Clean
           Step == Queue!Next \/ rewound' # "no"
<1>1. Init => IInv /\ Queue!Init
  BY InitStep DEF Queue!Init
<1>2. IInv /\ [Next]_vars => IInv' /\ [Step]_content
  <2> SUFFICES ASSUME IInv, [Next]_vars
               PROVE  IInv' /\ [Step]_content
    BY Zenon
  <2>1. CASE Use
    <3>1. Inv /\ TypeOK' /\ IndicesInOrder' /\ rewound' = rewound
      BY <2>1, UseStep, Zenon
    <3>2. CASE rewound = "no"
      <4>0. content \in Seq(Byte)
        BY <3>2, Zenon
      <4>1. CASE Write \/ WriteBytes \/ ReadFromFD
        BY <4>0, <4>1, <3>1, WriteStep, WriteBytesStep, ReadFromFDStep, QueuePut, Zenon
      <4>2. CASE PrependBytes
        BY <4>0, <4>2, <3>1, PrependStep, QueuePush, Zenon
      <4>3. CASE UnwriteBytes \/ TruncateTo
        BY <4>0, <4>3, <3>1, CutStep, QueueCut, Zenon
      <4>4. CASE NextBytes \/ ReadByte
        BY <4>0, <4>4, <3>1, TakeStep, QueueTake, Zenon
      <4>5. CASE ToText \/ Reserve \/ Shrink
        BY <4>0, <4>5, <3>1, SameStep, Zenon
      <4> QED
        BY <2>1, <4>1, <4>2, <4>3, <4>4, <4>5, Zenon DEF Use
    <3>3. CASE rewound # "no"
      BY <3>1, <3>3, Zenon
    <3> QED
      BY <3>2, <3>3, Zenon
  <2>2. CASE Rewind
    BY <2>2, RewindStep, Zenon
  <2>3. CASE UNCHANGED vars
    BY <2>3, StutterStep, Zenon
  <2> QED
    BY <2>1, <2>2, <2>3, Zenon DEF Next, Use
<1> QED
  BY <1>1, <1>2, PTL DEF Spec, IsByteQueue

-----------------------------------------------------------------------------
(* UnreadBytes.                                                            *)

\* What the last read operation has returned lies before the read index, unless
\* that has emptied the buffer.
TakenInv ==
  length > 0 =>
    /\ Len(taken) <= readIndex
    /\ \A i \in 1..Len(taken) : taken[i] = mem[readIndex - Len(taken) + i - 1]

\* The operations that return no bytes.
LEMMA ForgetTaken ==
  ASSUME TypeOK', taken' = <<>>
  PROVE  TakenInv'
<1>1. Len(taken') = 0 /\ readIndex' \in Nat
  BY DEF TypeOK, Types
<1> QED
  BY <1>1 DEF TakenInv

\* The read operations.
LEMMA TakeTaken ==
  ASSUME Inv, NextBytes \/ ReadByte
  PROVE  TakenInv'
<1>0. content \in Seq(Cell) /\ Len(content) = writeIndex - readIndex
  BY ThisFine, Zenon DEF length
<1>1. PICK n \in 0..Len(content) :
        /\ mem' = mem /\ taken' = SubSeq(content, 1, n)
        /\ \/ readIndex' = readIndex + n
           \/ readIndex' = reserved /\ writeIndex' = reserved
  <2>1. CASE NextBytes
    BY <1>0, <2>1, InvFacts DEF NextBytes, Skip, Truncate, length
  <2>2. CASE ReadByte
    <3>1. 1 \in 0..Len(content)
      BY <1>0, <2>2, InvFacts DEF ReadByte, length
    <3> QED
      BY <2>2, <3>1, Zenon DEF ReadByte
  <2> QED
    BY <2>1, <2>2, Zenon
<1>2. Len(taken') = n /\ \A i \in 1..n : taken'[i] = content[i]
  BY <1>0, <1>1
<1>3. \A i \in 1..n : content[i] = mem[readIndex + i - 1]
  BY <1>0, InvFacts DEF content, Slice
<1>4. CASE readIndex' = readIndex + n
  <2>1. n \in Nat /\ readIndex \in Nat
    BY InvFacts
  <2>2. Len(taken') <= readIndex'
    BY <1>2, <1>4, <2>1
  <2>3. ASSUME NEW i \in 1..n
        PROVE  taken'[i] = mem'[readIndex' - Len(taken') + i - 1]
    <3>1. readIndex' - Len(taken') + i - 1 = readIndex + i - 1
      BY <1>2, <1>4, <2>1
    <3> QED
      BY <1>1, <1>2, <1>3, <3>1, Zenon
  <2> QED
    BY <1>2, <2>2, <2>3, Zenon DEF TakenInv
<1>5. CASE readIndex' = reserved /\ writeIndex' = reserved
  BY <1>5, InvFacts DEF TakenInv, length
<1> QED
  BY <1>1, <1>4, <1>5, Zenon

\* Every step keeps it.
LEMMA TakenStep ==
  ASSUME TypeOK, IndicesInOrder, TakenInv, [Next]_vars
  PROVE  TakenInv'
<1>1. CASE NextBytes \/ ReadByte
  BY <1>1, UseStep, TakeTaken, Zenon DEF Use
<1>2. CASE Rewind \/ (Use /\ ~(NextBytes \/ ReadByte))
  <2>1. TypeOK'
    BY <1>2, UseStep, RewindStep, Zenon
  <2>2. taken' = <<>>
    BY <1>2, Zenon
    DEF Rewind, UnreadBytes, SetReadIndex, ResetData, ResetBegin, Rewinds, Use, Write,
        WriteBytes, ReadFromFD, PrependBytes, UnwriteBytes, ToText, Reserve, Shrink,
        TruncateTo, Forget
  <2> QED
    BY <2>1, <2>2, ForgetTaken, Zenon
<1>3. CASE UNCHANGED vars
  BY <1>3, Zenon DEF TakenInv, vars, indices, length
<1> QED
  BY <1>1, <1>2, <1>3, Zenon DEF Next, Use

\* The bytes given back are those last returned.
LEMMA UnreadStep ==
  ASSUME TypeOK, TakenInv, UnreadBytes, length > 0
  PROVE  LET n == readIndex - readIndex'
         IN  SubSeq(content', 1, n) = SubSeq(taken, Len(taken) - n + 1, Len(taken))
<1>1. PICK n \in 1..Len(taken) : n < readIndex /\ readIndex' = readIndex - n
  BY Zenon DEF UnreadBytes
<1>2. mem' = mem /\ writeIndex' = writeIndex
  BY Zenon DEF UnreadBytes, Rewinds
<1>3. /\ readIndex \in Nat /\ writeIndex \in Nat /\ taken \in Seq(Cell)
      /\ Len(taken) \in Nat /\ n \in Nat /\ readIndex < writeIndex
  BY DEF TypeOK, Types, length
<1>4. /\ Len(taken) <= readIndex
      /\ \A i \in 1..Len(taken) : taken[i] = mem[readIndex - Len(taken) + i - 1]
  BY Zenon DEF TakenInv
<1> DEFINE r == readIndex - n
           k == Len(taken) - n
           c == Slice(mem, r, writeIndex)
           t == SubSeq(taken, k + 1, Len(taken))
           u == SubSeq(c, 1, n)
<1>5. r \in Nat /\ k \in Nat /\ n <= writeIndex - r
  BY <1>1, <1>3
<1>6. /\ t \in Seq(Cell) /\ Len(t) = n
      /\ \A i \in 1..n : t[i] = taken[k + i]
  BY <1>3
<1>7. \A i \in 1..n : t[i] = mem[r + i - 1]
  <2> SUFFICES ASSUME NEW i \in 1..n PROVE t[i] = mem[r + i - 1]
    BY Zenon
  <2>1. k + i \in 1..Len(taken) /\ readIndex - Len(taken) + (k + i) - 1 = r + i - 1
    BY <1>3
  <2>2. t[i] = taken[k + i]
    BY <1>6, Zenon
  <2> HIDE DEF t, k, r
  <2> QED
    BY <1>4, <2>1, <2>2, Zenon
<1>8. u = [i \in 1..n |-> c[i]]
  BY <1>3
<1>9. \A i \in 1..n : c[i] = mem[r + i - 1]
  BY <1>3, <1>5 DEF Slice
<1>10. t = [i \in 1..n |-> t[i]]
  BY <1>6
<1> HIDE DEF t, c, u, r
<1>11. u = t
  BY <1>7, <1>8, <1>9, <1>10, Zenon
<1>12. readIndex - readIndex' = n
  BY <1>1, <1>3
<1>13. content' = c
  BY <1>1, <1>2, Zenon DEF content, c, r
<1> QED
  BY <1>11, <1>12, <1>13, Zenon DEF u, t, k

\* UnreadBytes gives back the bytes that the last read operation has returned
\* (buffer.h), for every size of storage, reserve and argument, if there is still
\* something to read.
THEOREM UnreadAlwaysGivesBack == Spec => UnreadGivesBack
<1> DEFINE Gives == UnreadBytes /\ length > 0 =>
                      LET n == readIndex - readIndex'
                      IN  SubSeq(content', 1, n)
                            = SubSeq(taken, Len(taken) - n + 1, Len(taken))
<1>1. Init => TakenInv
  BY InitStep DEF Init, TakenInv, TypeOK, Types, length
<1>2. TypeOK /\ IndicesInOrder /\ TakenInv /\ [Next]_vars => TakenInv'
  BY TakenStep, Zenon
<1>3. TypeOK /\ TakenInv /\ [Next]_vars => [Gives]_vars
  BY UnreadStep, Zenon
<1> QED
  BY <1>1, <1>2, <1>3, BufferInOrder, PTL DEF Spec, UnreadGivesBack
=============================================================================
