------------------------- MODULE CircularBufferProofs -------------------------
(***************************************************************************)
(* What each operator of CircularBuffer does to a buffer of any capacity   *)
(* and any bytes.                                                          *)
(***************************************************************************)
EXTENDS CircularBuffer, SequenceTheorems, TLAPS

(* A buffer as the operations leave it: it has its type, its regions are   *)
(* in order, and a B is there only while A ends in the upper half.         *)
Good(b) ==
  /\ b \in Buffers
  /\ InOrder(b)
  /\ b.bPtr # NULL => 2 * (b.aPtr + b.aSize) >= Capacity

(* The types of the fields, one by one.                                    *)
LEMMA Fields ==
  ASSUME NEW b \in Buffers
  PROVE  /\ b.mem \in [0..Capacity-1 -> Byte]
         /\ b.aPtr \in 0..Capacity /\ b.aSize \in 0..Capacity /\ b.bSize \in 0..Capacity
         /\ b.bPtr \in {NULL} \cup 0..Capacity
  BY DEF Buffers

(* The i-th byte stored, and where it lies.                                *)
LEMMA ContentsIsSequence ==
  ASSUME NEW b, Good(b)
  PROVE  /\ GetSize(b) \in 0..Capacity
         /\ Contents(b) \in Seq(Byte)
         /\ Len(Contents(b)) = GetSize(b)
         /\ \A i \in 1..GetSize(b) :
              Contents(b)[i] = IF i <= b.aSize THEN b.mem[b.aPtr + i - 1]
                                               ELSE b.mem[i - b.aSize - 1]
  <1> USE BufferAssumption
  <1>1. b \in Buffers /\ InOrder(b)
    BY DEF Good
  <1>2. GetSize(b) \in 0..Capacity
    BY <1>1, Fields DEF GetSize, InOrder, NULL
  <1>3. Contents(b) = [i \in 1..GetSize(b) |-> 
                         IF i <= b.aSize THEN b.mem[b.aPtr + i - 1]
                                         ELSE b.mem[b.bPtr + i - b.aSize - 1]]
    BY DEF Contents, Oldest
  <1>4. ASSUME NEW i \in 1..GetSize(b)
        PROVE  /\ Contents(b)[i] = IF i <= b.aSize THEN b.mem[b.aPtr + i - 1]
                                                   ELSE b.mem[i - b.aSize - 1]
               /\ Contents(b)[i] \in Byte
    <2>1. CASE i <= b.aSize
      BY <1>1, <1>2, <1>3, <2>1, Fields DEF InOrder
    <2>2. CASE i > b.aSize
      <3>1. b.bPtr = 0 /\ b.bPtr # NULL
        BY <1>1, <2>2, Fields DEF InOrder, NULL, GetSize
      <3>2. Contents(b)[i] = b.mem[i - b.aSize - 1]
        BY <1>1, <1>2, <1>3, <2>2, <3>1, Fields
      <3>3. i - b.aSize - 1 \in 0..Capacity-1
        BY <1>1, <1>2, <2>2, <3>1, Fields DEF InOrder, GetSize
      <3> QED BY <1>1, <2>2, <3>2, <3>3, Fields
    <2> QED BY <1>1, <2>1, <2>2, Fields
  <1>5. Contents(b) \in [1..GetSize(b) -> Byte]
    BY <1>3, <1>4
  <1>6. Contents(b) \in Seq(Byte) /\ Len(Contents(b)) = GetSize(b)
    BY <1>2, <1>5
  <1> QED BY <1>2, <1>4, <1>6

(* A chunk of data is a sequence that fits the block.                      *)
LEMMA ChunkIsSequence ==
  ASSUME NEW data \in Chunks
  PROVE  /\ data \in Seq(Byte)
         /\ Len(data) \in 0..Capacity
  <1>1. PICK n \in 0..Capacity : data \in [1..n -> Byte]
    BY DEF Chunks
  <1>2. n \in Nat
    BY BufferAssumption
  <1> QED BY <1>1, <1>2

(* The buffer of a new socket.                                             *)
LEMMA AllocateIsGood ==
  Good(Allocate) /\ GetSize(Allocate) = 0
  BY BufferAssumption DEF Allocate, Good, Buffers, InOrder, GetSize, NULL

(* Allocating B moves no byte, and what is free afterwards is GetSpace.    *)
LEMMA AllocateBIsGood ==
  ASSUME NEW b, Good(b)
  PROVE  /\ Good(AllocateB(b))
         /\ GetSize(AllocateB(b)) = GetSize(b)
         /\ Contents(AllocateB(b)) = Contents(b)
         /\ GetSpace(AllocateB(b)) = GetSpace(b)
         /\ AllocateB(AllocateB(b)) = AllocateB(b)
  <1> DEFINE c == AllocateB(b)
  <1> USE BufferAssumption
  <1>1. b \in Buffers /\ InOrder(b)
    BY DEF Good
  <1>2. CASE b.bPtr = NULL /\ GetAFreeSpace(b) < GetSpaceBeforeA(b)
    <2>1. c = [b EXCEPT !.bPtr = 0]
      BY <1>2 DEF AllocateB
    <2> HIDE DEF c
    <2>2. /\ c \in Buffers /\ c.bPtr = 0 /\ c.bSize = 0 /\ b.bSize = 0
          /\ c.aPtr = b.aPtr /\ c.aSize = b.aSize /\ c.mem = b.mem
      BY <1>1, <1>2, <2>1 DEF Buffers, InOrder
    <2>3. 2 * (b.aPtr + b.aSize) >= Capacity
      BY <1>1, <1>2, Fields DEF InOrder, GetAFreeSpace, GetSpaceBeforeA
    <2>4. Good(c)
      <3>1. b.aSize # 0
        BY <1>1, <1>2, Fields DEF InOrder, GetAFreeSpace, GetSpaceBeforeA
      <3> QED BY <1>1, <2>2, <2>3, <3>1, Fields DEF Good, InOrder, NULL
    <2>5. GetSize(c) = GetSize(b)
      BY <2>2 DEF GetSize
    <2>6. Contents(c) = Contents(b)
      <3>1. \A i \in 1..GetSize(b) : Contents(c)[i] = Contents(b)[i]
        BY <1>1, <2>2, <2>4, <2>5, ContentsIsSequence
      <3> QED BY <2>4, <2>5, <3>1, ContentsIsSequence, SeqEqual
    <2>7. AllocateB(c) = c
      BY <2>2 DEF AllocateB, NULL
    <2>8. GetSpace(c) = GetSpace(b)
      BY <2>7 DEF GetSpace, c
    <2> QED BY <2>4, <2>5, <2>6, <2>7, <2>8 DEF c
  <1>3. CASE ~(b.bPtr = NULL /\ GetAFreeSpace(b) < GetSpaceBeforeA(b))
    BY <1>3 DEF AllocateB
  <1> QED BY <1>2, <1>3

(* memcpy changes bytes of the block, never its size.                      *)
LEMMA StoredIsMemory ==
  ASSUME NEW data \in Seq(Byte), NEW mem \in [0..Capacity-1 -> Byte], NEW at \in Nat
  PROVE  Stored(mem, at, data) \in [0..Capacity-1 -> Byte]
  BY BufferAssumption DEF Stored

(* Bytes committed into the room there is go behind those stored.          *)
LEMMA CommitIsGood ==
  ASSUME NEW b, Good(b), b = AllocateB(b),
         NEW data \in Chunks, Len(data) <= GetSpace(b)
  PROVE  /\ Good(Commit(b, data))
         /\ GetSize(Commit(b, data)) = GetSize(b) + Len(data)
         /\ Contents(Commit(b, data)) = Contents(b) \o data
  <1> DEFINE c == Commit(b, data)
             m == Stored(b.mem, GetBuffer(b), data)
  <1> USE BufferAssumption
  <1>1. Len(data) \in Nat /\ data \in Seq(Byte)
    BY ChunkIsSequence
  <1>2. b \in Buffers /\ InOrder(b)
    BY DEF Good
  <1>3. /\ b.bPtr # NULL => b.bSize + Len(data) <= b.aPtr
        /\ b.bPtr = NULL => b.aPtr + b.aSize + Len(data) <= Capacity
    BY <1>1, <1>2, Fields DEF GetSpace, GetBFreeSpace, GetAFreeSpace, InOrder, NULL
  <1>4. GetBuffer(b) = IF b.bPtr # NULL THEN b.bSize ELSE b.aPtr + b.aSize
    BY <1>2, Fields DEF GetBuffer, InOrder, NULL
  <1>5. m \in [0..Capacity-1 -> Byte]
    <2>1. GetBuffer(b) \in Nat
      BY <1>2, <1>4, Fields DEF NULL
    <2> QED BY <1>1, <1>2, <2>1, Fields, StoredIsMemory
  <1>6. /\ c.mem = m /\ c.aPtr = b.aPtr /\ c.bPtr = b.bPtr
        /\ c.aSize = IF b.bPtr # NULL THEN b.aSize ELSE b.aSize + Len(data)
        /\ c.bSize = IF b.bPtr # NULL THEN b.bSize + Len(data) ELSE b.bSize
        /\ c \in Buffers
    <2> HIDE DEF m
    <2>1. CASE b.bPtr # NULL
      <3>1. c = [b EXCEPT !.mem = m, !.bSize = b.bSize + Len(data)]
        BY <2>1 DEF Commit, m
      <3>2. b.bSize + Len(data) \in 0..Capacity
        BY <1>1, <1>2, <1>3, <2>1, Fields
      <3> HIDE DEF c
      <3> QED BY <1>2, <1>5, <2>1, <3>1, <3>2 DEF Buffers
    <2>2. CASE b.bPtr = NULL
      <3>1. c = [b EXCEPT !.mem = m, !.aSize = b.aSize + Len(data)]
        BY <2>2 DEF Commit, m
      <3>2. b.aSize + Len(data) \in 0..Capacity
        BY <1>1, <1>2, <1>3, <2>2, Fields
      <3> HIDE DEF c
      <3> QED BY <1>2, <1>5, <2>2, <3>1, <3>2 DEF Buffers
    <2> QED BY <2>1, <2>2
  <1> HIDE DEF c
  <1>7. Good(c)
    <2>1. b.bPtr = NULL /\ b.aSize = 0 => b.aPtr = 0
      BY <1>2 DEF InOrder
    <2>2. InOrder(c)
      BY <1>1, <1>2, <1>3, <1>6, Fields DEF InOrder, NULL
    <2>3. c.bPtr # NULL => 2 * (c.aPtr + c.aSize) >= Capacity
      BY <1>6 DEF Good
    <2> QED BY <1>6, <2>2, <2>3 DEF Good
  <1>8. GetSize(c) = GetSize(b) + Len(data)
    BY <1>1, <1>2, <1>6, Fields DEF GetSize
  <1>9. Contents(c) = Contents(b) \o data
    <2>1. /\ Contents(b) \o data \in Seq(Byte)
          /\ Len(Contents(b) \o data) = GetSize(b) + Len(data)
          /\ \A i \in 1..GetSize(b) + Len(data) : (Contents(b) \o data)[i] =
               IF i <= GetSize(b) THEN Contents(b)[i] ELSE data[i - GetSize(b)]
      <3>1. Contents(b) \in Seq(Byte) /\ Len(Contents(b)) = GetSize(b)
        BY ContentsIsSequence
      <3>2. /\ Contents(b) \o data \in Seq(Byte)
            /\ Len(Contents(b) \o data) = Len(Contents(b)) + Len(data)
            /\ \A i \in 1 .. Len(Contents(b)) + Len(data) : (Contents(b) \o data)[i] =
                 IF i <= Len(Contents(b)) THEN Contents(b)[i]
                                          ELSE data[i - Len(Contents(b))]
        BY <1>1, <3>1, ConcatProperties
      <3> QED BY <3>1, <3>2
    <2>2. /\ GetSize(b) = b.aSize + b.bSize /\ GetSize(b) \in Nat
          /\ b.aPtr \in Nat /\ b.aSize \in Nat /\ b.bSize \in Nat
          /\ b.aPtr + b.aSize <= Capacity
          /\ b.bPtr = NULL => b.bSize = 0
          /\ b.bPtr # NULL => b.bSize <= b.aPtr
      BY <1>2, Fields DEF GetSize, InOrder
    <2>3. ASSUME NEW i \in 1..(GetSize(b) + Len(data))
          PROVE  Contents(c)[i] = (Contents(b) \o data)[i]
      <3> DEFINE at == IF i <= c.aSize THEN c.aPtr + i - 1 ELSE i - c.aSize - 1
                 p == b.aPtr   n == b.aSize   k == b.bSize   len == Len(data)
                 g == GetBuffer(b)
      <3>1. Contents(c)[i] = m[at]
        BY <1>6, <1>7, <1>8, ContentsIsSequence
      <3>2. /\ at \in 0..Capacity-1
            /\ i <= n + k => /\ at < g \/ at >= g + len
                             /\ at = IF i <= n THEN p + i - 1 ELSE i - n - 1
            /\ i > n + k => at = g + i - (n + k) - 1
        <4>1. p \in Nat /\ n \in Nat /\ k \in Nat /\ len \in Nat /\ i \in 1..(n + k + len)
              /\ p + n <= Capacity
          BY <1>1, <2>2
        <4>2. CASE b.bPtr # NULL
          <5>1. at = IF i <= n THEN p + i - 1 ELSE i - n - 1
            BY <1>6, <4>2
          <5>2. g = k /\ k + len <= p
            BY <1>3, <1>4, <4>2
          <5> HIDE DEF at, p, n, k, len, g, m
          <5> QED BY <4>1, <5>1, <5>2
        <4>3. CASE b.bPtr = NULL
          <5>1. at = IF i <= n + len THEN p + i - 1 ELSE i - (n + len) - 1
            BY <1>6, <4>3
          <5>2. g = p + n /\ k = 0 /\ p + n + len <= Capacity
            BY <1>3, <1>4, <2>2, <4>3
          <5> HIDE DEF at, p, n, k, len, g, m
          <5> QED BY <4>1, <5>1, <5>2
        <4> QED BY <4>2, <4>3
      <3>3. m[at] = IF GetBuffer(b) <= at /\ at < GetBuffer(b) + Len(data)
                    THEN data[at - GetBuffer(b) + 1] ELSE b.mem[at]
        BY <3>2 DEF Stored
      <3>4. g \in Nat /\ n \in Nat /\ k \in Nat /\ len \in Nat /\ GetSize(b) = n + k
        BY <1>1, <1>4, <2>2
      <3>5. CASE i <= n + k
        <4>1. Contents(b)[i] = b.mem[at]
          <5>1. i \in 1..GetSize(b)
            BY <3>4, <3>5
          <5>2. Contents(b)[i] = IF i <= n THEN b.mem[p + i - 1] ELSE b.mem[i - n - 1]
            BY <5>1, ContentsIsSequence
          <5> HIDE DEF at, n, k, p
          <5> QED BY <3>2, <3>5, <5>2
        <4>2. m[at] = b.mem[at]
          <5> HIDE DEF at, n, k, p, g, len, m
          <5>1. ~(g <= at /\ at < g + len)
            BY <3>2, <3>4, <3>5
          <5> QED BY <3>3, <5>1 DEF g, len
        <4>3. (Contents(b) \o data)[i] = Contents(b)[i]
          BY <2>1, <3>4, <3>5
        <4> QED BY <3>1, <4>1, <4>2, <4>3
      <3>6. CASE i > n + k
        <4>1. m[at] = data[i - (n + k)]
          <5> HIDE DEF at, n, k, p, g, len, m
          <5>1. i <= n + k + len
            BY <3>4 DEF len
          <5>2. g <= at /\ at < g + len /\ at - g + 1 = i - (n + k)
            BY <3>2, <3>4, <3>6, <5>1
          <5> QED BY <3>3, <5>2 DEF g, len
        <4>2. (Contents(b) \o data)[i] = data[i - (n + k)]
          <5> HIDE DEF n, k
          <5>1. ~(i <= GetSize(b)) /\ GetSize(b) = n + k
            BY <3>4, <3>6
          <5> QED BY <2>1, <5>1
        <4> QED BY <3>1, <4>1, <4>2
      <3>7. i <= n + k \/ i > n + k
        <4>1. i \in Int
          BY <3>4 DEF len
        <4> HIDE DEF n, k
        <4> QED BY <3>4, <4>1
      <3> QED BY <3>5, <3>6, <3>7
    <2> QED BY <1>7, <1>8, <2>1, <2>3, ContentsIsSequence, SeqEqual
  <1> QED BY <1>7, <1>8, <1>9 DEF c

(* The n oldest bytes leave, the others stay in order.                     *)
LEMMA RemoveIsGood ==
  ASSUME NEW b, Good(b), NEW n \in 0..Capacity, n <= GetSize(b)
  PROVE  /\ Good(Remove(b, n))
         /\ GetSize(Remove(b, n)) = GetSize(b) - n
         /\ Contents(Remove(b, n)) = SubSeq(Contents(b), n + 1, GetSize(b))
  <1> DEFINE c == Remove(b, n)
             d == Advance(b, n)
             p == b.aPtr   a == b.aSize   k == b.bSize
  <1> USE BufferAssumption
  <1>1. b \in Buffers /\ InOrder(b)
    BY DEF Good
  <1>2. /\ p \in Nat /\ a \in Nat /\ k \in Nat /\ n \in Nat
        /\ p + a <= Capacity /\ k <= Capacity /\ n <= a + k
        /\ GetSize(b) = a + k
        /\ a = 0 => p = 0 /\ k = 0
    BY <1>1, Fields DEF InOrder, GetSize, NULL
  <1>3. ASSUME n < a
        PROVE  /\ Good(c) /\ GetSize(c) = a + k - n
               /\ \A i \in 1..(a + k - n) : Contents(c)[i] = Contents(b)[n + i]
    <2>1. d = [b EXCEPT !.aPtr = p + n, !.aSize = a - n, !.bPtr = b.bPtr, !.bSize = k]
      <3>1. Lesser(n, a) = n /\ n - n = 0 /\ Lesser(0, k) = 0 /\ k - 0 = k
        <4> HIDE DEF a, k
        <4> QED BY <1>2, <1>3 DEF Lesser
      <3>2. d = [b EXCEPT !.aPtr = p + n, !.aSize = a - n,
                          !.bPtr = IF 0 > 0 THEN b.bPtr + 0 ELSE b.bPtr, !.bSize = k - 0]
        BY <3>1 DEF Advance
      <3>3. ~(0 > 0)
        OBVIOUS
      <3> HIDE DEF d
      <3> QED BY <3>1, <3>2, <3>3
    <2>2. p + n \in 0..Capacity /\ a - n \in 0..Capacity /\ a - n > 0
      <3> HIDE DEF p, a, k
      <3> QED BY <1>2, <1>3
    <2> HIDE DEF d
    <2>3. /\ d \in Buffers
          /\ d.mem = b.mem /\ d.aPtr = p + n /\ d.aSize = a - n
          /\ d.bPtr = b.bPtr /\ d.bSize = k
      BY <1>1, <2>1, <2>2 DEF Buffers
    <2>4. c = d
      BY <2>2, <2>3 DEF Remove, BecomeA, d
    <2> HIDE DEF c
    <2>5. Good(c)
      <3>1. p + n + (a - n) = p + a
        BY <1>2
      <3>2. InOrder(c)
        BY <1>1, <1>2, <2>2, <2>3, <2>4, <3>1 DEF InOrder
      <3>3. c.bPtr # NULL => 2 * (c.aPtr + c.aSize) >= Capacity
        BY <2>3, <2>4, <3>1 DEF Good
      <3> QED BY <2>3, <2>4, <3>2, <3>3 DEF Good
    <2>6. GetSize(c) = a + k - n
      <3>1. GetSize(c) = (a - n) + k
        BY <2>3, <2>4 DEF GetSize
      <3> HIDE DEF a, k
      <3> QED BY <1>2, <3>1
    <2>7. ASSUME NEW i \in 1..(a + k - n)
          PROVE  Contents(c)[i] = Contents(b)[n + i]
      <3>1. Contents(c)[i] = IF i <= a - n THEN b.mem[p + n + i - 1]
                                           ELSE b.mem[i - (a - n) - 1]
        BY <2>3, <2>4, <2>5, <2>6, ContentsIsSequence
      <3>2. n + i \in 1..GetSize(b)
        <4> HIDE DEF a, k
        <4> QED BY <1>2
      <3>3. Contents(b)[n + i] = IF n + i <= a THEN b.mem[p + (n + i) - 1]
                                               ELSE b.mem[(n + i) - a - 1]
        BY <3>2, ContentsIsSequence
      <3> HIDE DEF a, k, p
      <3>4. /\ i <= a - n <=> n + i <= a
            /\ p + n + i - 1 = p + (n + i) - 1
            /\ i - (a - n) - 1 = (n + i) - a - 1
        BY <1>2
      <3> QED BY <3>1, <3>3, <3>4
    <2> QED BY <2>5, <2>6, <2>7
  <1>4. ASSUME n >= a
        PROVE  /\ Good(c) /\ GetSize(c) = a + k - n
               /\ \A i \in 1..(a + k - n) : Contents(c)[i] = Contents(b)[n + i]
    <2> DEFINE r == n - a
    <2>1. r \in Nat /\ r <= k /\ k - r \in 0..Capacity /\ a + k - n = k - r
          /\ Lesser(n, a) = a /\ Lesser(r, k) = r
      <3> HIDE DEF a, k
      <3> QED BY <1>2, <1>4 DEF Lesser
    <2>2. d = [b EXCEPT !.aPtr = p + a, !.aSize = a - a,
                        !.bPtr = IF r > 0 THEN b.bPtr + r ELSE b.bPtr, !.bSize = k - r]
      BY <2>1 DEF Advance
    <2>3. a - a = 0
      BY <1>2
    <2> HIDE DEF d
    <2>4. /\ d.aSize = 0 /\ d.bSize = k - r /\ d.mem = b.mem
          /\ k - r > 0 => d.bPtr = r
      <3>1. d.aSize = 0 /\ d.bSize = k - r /\ d.mem = b.mem
            /\ d.bPtr = IF r > 0 THEN b.bPtr + r ELSE b.bPtr
        BY <1>1, <2>2, <2>3 DEF Buffers
      <3>2. k > 0 => b.bPtr = 0
        BY <1>1, <1>2 DEF InOrder
      <3> HIDE DEF r, k
      <3> QED BY <1>2, <2>1, <3>1, <3>2
    <2> DEFINE mem == [j \in 0..Capacity-1 |->
                         IF j < k - r THEN b.mem[r + j] ELSE b.mem[j]]
    <2>5. c = [mem |-> mem, aPtr |-> 0, aSize |-> k - r, bPtr |-> NULL, bSize |-> 0]
      <3>1. c = [mem   |-> [j \in 0..Capacity-1 |->
                              IF j < k - r THEN b.mem[d.bPtr + j] ELSE b.mem[j]],
                 aPtr  |-> 0, aSize |-> k - r, bPtr  |-> NULL, bSize |-> 0]
        BY <2>4 DEF Remove, BecomeA, d
      <3>2. \A j \in 0..Capacity-1 : j < k - r => k - r > 0
        <4> HIDE DEF r, k
        <4> QED BY <1>2, <2>1
      <3> HIDE DEF c
      <3> QED BY <2>4, <3>1, <3>2
    <2>6. mem \in [0..Capacity-1 -> Byte]
      <3>1. ASSUME NEW j \in 0..Capacity-1, j < k - r
            PROVE  r + j \in 0..Capacity-1
        <4> HIDE DEF r, k
        <4> QED BY <1>2, <2>1, <3>1
      <3> HIDE DEF r, k
      <3> QED BY <1>1, <3>1, Fields
    <2> HIDE DEF c, mem
    <2>7. /\ c \in Buffers /\ c.mem = mem /\ c.aPtr = 0 /\ c.aSize = k - r
          /\ c.bPtr = NULL /\ c.bSize = 0
      <3> HIDE DEF r, k
      <3> QED BY <2>1, <2>5, <2>6 DEF Buffers
    <2>8. Good(c)
      <3> HIDE DEF r, k
      <3> QED BY <2>1, <2>7 DEF Good, InOrder
    <2>9. GetSize(c) = a + k - n
      <3>1. GetSize(c) = (k - r) + 0
        BY <2>7 DEF GetSize
      <3> HIDE DEF r, a, k
      <3> QED BY <2>1, <3>1
    <2>10. ASSUME NEW i \in 1..(a + k - n)
           PROVE  Contents(c)[i] = Contents(b)[n + i]
      <3>1. Contents(c)[i] = IF i <= k - r THEN mem[0 + i - 1] ELSE mem[i - (k - r) - 1]
        BY <2>7, <2>8, <2>9, ContentsIsSequence
      <3>2. /\ n + i \in 1..GetSize(b)
            /\ i <= k - r /\ 0 + i - 1 = i - 1 /\ i - 1 \in 0..Capacity-1
            /\ i - 1 < k - r
            /\ ~(n + i <= a) /\ r + (i - 1) = (n + i) - a - 1
        <4> HIDE DEF a, k
        <4> QED BY <1>2, <1>4, <2>1
      <3>3. Contents(b)[n + i] = IF n + i <= a THEN b.mem[p + (n + i) - 1]
                                               ELSE b.mem[(n + i) - a - 1]
        BY <3>2, ContentsIsSequence
      <3>4. mem[i - 1] = b.mem[r + (i - 1)]
        BY <3>2 DEF mem
      <3> HIDE DEF r, a, k, p
      <3> QED BY <3>1, <3>2, <3>3, <3>4
    <2> QED BY <2>8, <2>9, <2>10
  <1> HIDE DEF c, d
  <1>5. /\ Good(c) /\ GetSize(c) = a + k - n
        /\ \A i \in 1..(a + k - n) : Contents(c)[i] = Contents(b)[n + i]
    <2>1. n < a \/ n >= a
      BY <1>2
    <2> QED BY <1>3, <1>4, <2>1
  <1>6. Contents(c) = SubSeq(Contents(b), n + 1, GetSize(b))
    <2> DEFINE t == SubSeq(Contents(b), n + 1, GetSize(b))
    <2>1. \A i \in (n + 1)..GetSize(b) : Contents(b)[i] \in Byte
      BY <1>2, ContentsIsSequence, ElementOfSeq
    <2>2. /\ t \in Seq(Byte)
          /\ Len(t) = IF n + 1 <= GetSize(b) THEN GetSize(b) - (n + 1) + 1 ELSE 0
          /\ \A i \in 1..(GetSize(b) - (n + 1) + 1) : t[i] = Contents(b)[(n + 1) + i - 1]
      <3>1. n + 1 \in Int /\ GetSize(b) \in Int
        BY <1>2, ContentsIsSequence
      <3> QED BY <2>1, <3>1, SubSeqProperties
    <2> HIDE DEF t
    <2>3. /\ Len(t) = a + k - n
          /\ \A i \in 1..(a + k - n) : t[i] = Contents(b)[n + i]
      <3>1. GetSize(b) - (n + 1) + 1 = a + k - n
            /\ (n + 1 <= GetSize(b) \/ a + k - n = 0)
        <4> HIDE DEF a, k
        <4> QED BY <1>2
      <3>2. \A i \in 1..(a + k - n) : (n + 1) + i - 1 = n + i
        <4> HIDE DEF a, k
        <4> QED BY <1>2
      <3> HIDE DEF a, k
      <3> QED BY <2>2, <3>1, <3>2
    <2>4. Contents(c) \in Seq(Byte) /\ Len(Contents(c)) = a + k - n
      BY <1>5, ContentsIsSequence
    <2>5. \A i \in 1..Len(Contents(c)) : Contents(c)[i] = t[i]
      BY <1>5, <2>3, <2>4
    <2> QED BY <2>2, <2>3, <2>4, <2>5, SeqEqual DEF t
  <1>7. GetSize(c) = GetSize(b) - n
    BY <1>2, <1>5
  <1> QED BY <1>5, <1>6, <1>7 DEF c

(* The bytes Read copies out, and those a send is handed, are the oldest.  *)
LEMMA OldestIsPrefix ==
  ASSUME NEW b, Good(b), NEW n \in 0..Capacity, n <= GetSize(b)
  PROVE  Oldest(b, n) = SubSeq(Contents(b), 1, n) /\ Oldest(b, n) \in Chunks
  <1> DEFINE t == SubSeq(Contents(b), 1, n)
  <1>1. GetSize(b) \in Nat /\ n \in Nat
    BY BufferAssumption, ContentsIsSequence
  <1>2. \A i \in 1..n : i \in 1..GetSize(b) /\ 1 + i - 1 = i
    BY <1>1
  <1>3. \A i \in 1..n : Contents(b)[i] \in Byte
    BY <1>2, ContentsIsSequence, ElementOfSeq
  <1>4. /\ t \in Seq(Byte) /\ Len(t) = n
        /\ \A i \in 1..n : t[i] = Contents(b)[i]
    <2>1. /\ t \in Seq(Byte) /\ Len(t) = IF 1 <= n THEN n - 1 + 1 ELSE 0
          /\ \A i \in 1..(n - 1 + 1) : t[i] = Contents(b)[1 + i - 1]
      BY <1>1, <1>3, SubSeqProperties
    <2>2. (IF 1 <= n THEN n - 1 + 1 ELSE 0) = n /\ n - 1 + 1 = n
      BY <1>1
    <2> HIDE DEF t
    <2> QED BY <1>2, <2>1, <2>2
  <1>5. \A i \in 1..n : Oldest(b, n)[i] = Contents(b)[i]
    BY <1>2 DEF Contents, Oldest
  <1>6. Oldest(b, n) \in [1..n -> Byte]
    BY <1>3, <1>5 DEF Oldest
  <1>7. Oldest(b, n) \in Seq(Byte) /\ Len(Oldest(b, n)) = n
    BY <1>1, <1>6
  <1>8. Oldest(b, n) \in Chunks
    BY <1>6 DEF Chunks
  <1> HIDE DEF t
  <1>9. Oldest(b, n) = t
    BY <1>4, <1>5, <1>7, SeqEqual
  <1> QED BY <1>8, <1>9 DEF t

(* What GetBufferStart and GetContiguiousBytes describe are the oldest.    *)
LEMMA ContiguousIsOldest ==
  ASSUME NEW b, Good(b), NEW n \in 0..Capacity, n <= GetContiguiousBytes(b)
  PROVE  /\ n <= GetSize(b)
         /\ [i \in 1..n |-> b.mem[GetBufferStart(b) + i - 1]] = Oldest(b, n)
  <1>1. /\ b.aSize \in Nat /\ b.bSize \in Nat /\ b.aPtr \in Nat /\ n \in Nat
        /\ b.aSize = 0 => b.bSize = 0
    BY Fields, BufferAssumption DEF Good, InOrder, NULL
  <1>2. n <= b.aSize
    BY <1>1 DEF GetContiguiousBytes
  <1>3. n <= GetSize(b)
    BY <1>1, <1>2 DEF GetSize
  <1>4. \A i \in 1..n : i <= b.aSize /\ b.aSize > 0
    BY <1>1, <1>2
  <1>5. ASSUME NEW i \in 1..n
        PROVE  b.mem[GetBufferStart(b) + i - 1] = Oldest(b, n)[i]
    BY <1>4 DEF Oldest, GetBufferStart
  <1> QED BY <1>3, <1>5 DEF Oldest

(* B takes the larger part, so at most half is lost to the smaller one.    *)
LEMMA GoodIsHalfUsable ==
  ASSUME NEW b, Good(b)
  PROVE  2 * (GetSize(b) + GetSpace(b)) >= Capacity
  <1> DEFINE c == AllocateB(b)
  <1>1. Good(c) /\ GetSize(c) = GetSize(b) /\ GetSpace(c) = GetSpace(b) /\ AllocateB(c) = c
    BY AllocateBIsGood
  <1> HIDE DEF c
  <1> DEFINE p == c.aPtr   a == c.aSize   k == c.bSize
  <1>2. /\ p \in Nat /\ a \in Nat /\ k \in Nat /\ Capacity \in Nat /\ p + a <= Capacity
        /\ c.bPtr # NULL => c.bPtr = 0 /\ 2 * (p + a) >= Capacity
        /\ c.bPtr = NULL => k = 0
    BY <1>1, Fields, BufferAssumption DEF Good, InOrder
  <1>3. GetSize(c) = a + k
    BY DEF GetSize
  <1>4. CASE c.bPtr # NULL
    <2>1. GetSpace(c) = p - 0 - k
      BY <1>1, <1>2, <1>4 DEF GetSpace, GetBFreeSpace
    <2> HIDE DEF p, a, k
    <2> QED BY <1>1, <1>2, <1>3, <1>4, <2>1
  <1>5. CASE c.bPtr = NULL
    <2>1. GetSpace(c) = Capacity - p - a
      BY <1>1, <1>5 DEF GetSpace, GetAFreeSpace
    <2>2. ~(Capacity - p - a < p)
      <3>1. CASE Capacity - p - a < p
        <4>1. c = [c EXCEPT !.bPtr = 0]
          BY <1>1, <1>5, <3>1 DEF AllocateB, GetAFreeSpace, GetSpaceBeforeA
        <4>2. c.bPtr = 0
          BY <1>1, <4>1 DEF Good, Buffers
        <4> QED BY <1>5, <4>2 DEF NULL
      <3> QED BY <3>1
    <2> HIDE DEF p, a, k
    <2> QED BY <1>1, <1>2, <1>3, <1>5, <2>1, <2>2
  <1> QED BY <1>4, <1>5

(* With nothing stored, A begins at the start again.                       *)
LEMMA GoodDrainedIsWhole ==
  ASSUME NEW b, Good(b), GetSize(b) = 0
  PROVE  GetSpace(b) = Capacity
  <1>1. b.aSize = 0 /\ b.bSize = 0 /\ b.aPtr = 0
    BY Fields DEF Good, InOrder, GetSize
  <1>2. b.bPtr = NULL
    BY <1>1 DEF Good, InOrder
  <1>3. GetAFreeSpace(b) = Capacity /\ GetSpaceBeforeA(b) = 0
    BY <1>1, BufferAssumption DEF GetAFreeSpace, GetSpaceBeforeA
  <1>4. AllocateB(b) = b
    BY <1>3, BufferAssumption DEF AllocateB
  <1> QED BY <1>2, <1>3, <1>4 DEF GetSpace

(* What GetSpace returns is the room of one region.                        *)
LEMMA SpaceIsNumber ==
  ASSUME NEW b, Good(b)
  PROVE  GetSpace(b) \in 0..Capacity
  <1> DEFINE c == AllocateB(b)
  <1>1. Good(c)
    BY AllocateBIsGood
  <1>2. GetSpace(b) = IF c.bPtr # NULL THEN GetBFreeSpace(c) ELSE GetAFreeSpace(c)
    BY DEF GetSpace
  <1> HIDE DEF c
  <1>3. c \in Buffers /\ InOrder(c)
    BY <1>1 DEF Good
  <1>4. c.aPtr \in 0..Capacity /\ c.aSize \in 0..Capacity /\ c.bSize \in 0..Capacity
    BY <1>3, Fields
  <1>5. CASE c.bPtr # NULL
    <2>1. c.bPtr = 0 /\ c.bSize <= c.aPtr
      BY <1>3, <1>5 DEF InOrder
    <2> QED BY <1>2, <1>4, <1>5, <2>1, BufferAssumption DEF GetBFreeSpace
  <1>6. CASE c.bPtr = NULL
    BY <1>2, <1>3, <1>4, <1>6, BufferAssumption DEF GetAFreeSpace, InOrder
  <1> QED BY <1>5, <1>6

(* The data a write is given fits exactly when it is not refused.          *)
LEMMA WriteIsPut ==
  ASSUME NEW b0, Good(b0), NEW data \in Chunks, Len(data) <= GetSpace(b0)
  PROVE  /\ Good(Commit(AllocateB(b0), data))
         /\ GetSize(Commit(AllocateB(b0), data)) = GetSize(b0) + Len(data)
         /\ Contents(Commit(AllocateB(b0), data)) = Contents(b0) \o data
         /\ Len(Contents(b0)) + Len(data) <= Capacity
         /\ Write(b0, data) = Commit(AllocateB(b0), data)
  <1> DEFINE b == AllocateB(b0)
  <1>1. /\ Good(b) /\ AllocateB(b) = b /\ Len(data) <= GetSpace(b)
        /\ Contents(b) = Contents(b0) /\ GetSize(b) = GetSize(b0)
    BY AllocateBIsGood
  <1> HIDE DEF b
  <1>2. /\ Good(Commit(b, data))
        /\ GetSize(Commit(b, data)) = GetSize(b) + Len(data)
        /\ Contents(Commit(b, data)) = Contents(b) \o data
    BY <1>1, CommitIsGood
  <1>3. GetSize(Commit(b, data)) \in 0..Capacity
    BY <1>2, ContentsIsSequence
  <1>4. Len(Contents(b0)) + Len(data) <= Capacity
    <2>1. Len(Contents(b0)) = GetSize(b0)
      BY ContentsIsSequence
    <2> QED BY <1>1, <1>2, <1>3, <2>1, BufferAssumption
  <1>5. ~(GetSpace(b0) < Len(data))
    BY SpaceIsNumber, ChunkIsSequence
  <1> QED BY <1>1, <1>2, <1>4, <1>5 DEF b, Write

(* A write takes no more room than its bytes: when A leaves less behind    *)
(* it than lies before it, B offers more than A had left.                  *)
LEMMA WriteTakesItsLength ==
  ASSUME NEW b0, Good(b0), NEW data \in Chunks, Len(data) <= GetSpace(b0)
  PROVE  GetSpace(Write(b0, data)) >= GetSpace(b0) - Len(data)
  <1> DEFINE b == AllocateB(b0)
             c == Commit(b, data)
             d == AllocateB(c)
  <1>1. /\ Good(b) /\ AllocateB(b) = b /\ GetSpace(b) = GetSpace(b0)
        /\ Good(c) /\ Good(d) /\ Write(b0, data) = c
    BY AllocateBIsGood, WriteIsPut
  <1>2. Len(data) \in Nat /\ Capacity \in Nat
    BY ChunkIsSequence, BufferAssumption
  <1>3. b \in Buffers /\ c \in Buffers /\ d \in Buffers
    BY <1>1 DEF Good
  <1>4. /\ c.aPtr = b.aPtr /\ c.bPtr = b.bPtr
        /\ b.bPtr # NULL => c.bSize = b.bSize + Len(data) /\ c.aSize = b.aSize
        /\ b.bPtr = NULL => c.aSize = b.aSize + Len(data) /\ c.bSize = b.bSize
    BY <1>3 DEF Commit, Buffers
  <1>5. GetSpace(b0) = IF b.bPtr # NULL THEN GetBFreeSpace(b) ELSE GetAFreeSpace(b)
    BY DEF GetSpace
  <1>6. GetSpace(c) = IF d.bPtr # NULL THEN GetBFreeSpace(d) ELSE GetAFreeSpace(d)
    BY DEF GetSpace
  <1>7. \/ d = c
        \/ c.bPtr = NULL /\ GetAFreeSpace(c) < c.aPtr /\ d = [c EXCEPT !.bPtr = 0]
    BY DEF AllocateB, GetSpaceBeforeA
  <1> HIDE DEF b, c, d
  <1>8. GetSpace(c) >= GetSpace(b0) - Len(data)
    <2>1. CASE d = c
      <3>1. /\ b.aPtr \in Int /\ b.aSize \in Int /\ b.bSize \in Int
            /\ b.bPtr \in Int /\ c.bPtr \in Int
        BY <1>3, Fields, BufferAssumption DEF NULL
      <3>2. CASE b.bPtr = NULL
        BY <1>2, <1>4, <1>5, <1>6, <2>1, <3>1, <3>2 DEF GetAFreeSpace
      <3>3. CASE b.bPtr # NULL
        BY <1>2, <1>4, <1>5, <1>6, <2>1, <3>1, <3>3 DEF GetBFreeSpace
      <3> QED BY <3>2, <3>3
    <2>2. CASE c.bPtr = NULL /\ GetAFreeSpace(c) < c.aPtr /\ d = [c EXCEPT !.bPtr = 0]
      <3>1. d.bPtr = 0 /\ d.bSize = c.bSize /\ d.aPtr = c.aPtr
        BY <1>3, <2>2 DEF Buffers
      <3>2. c.bSize = 0
        BY <1>1, <2>2 DEF Good, InOrder
      <3>3. GetSpace(c) = c.aPtr
        BY <1>3, <1>6, <3>1, <3>2, Fields DEF GetBFreeSpace, NULL
      <3> QED BY <1>2, <1>3, <1>4, <1>5, <2>2, <3>3, Fields DEF GetAFreeSpace
    <2> QED BY <1>7, <2>1, <2>2
  <1> QED BY <1>1, <1>8

===============================================================================
