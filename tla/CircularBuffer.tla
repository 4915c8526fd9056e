---------------------------- MODULE CircularBuffer ----------------------------
(***************************************************************************)
(* libs/Network/CircularBuffer: the read and write buffer of every socket. *)
(* Two regions of one block hold the bytes: A the older ones, and B, which *)
(* begins at the start of the block, the newer ones once there is more     *)
(* room before A than after it.                                            *)
(*                                                                         *)
(* A buffer is a record, an operation an operator that returns the record  *)
(* after it, so that a socket's module can use the operators too.          *)
(***************************************************************************)
EXTENDS Integers, Sequences

CONSTANTS
  Byte,      (* the values a byte can have                                 *)
  Capacity,  (* the size the block is allocated with                       *)
  AnyByte    (* what malloc happens to leave in the block                  *)

ASSUME BufferAssumption ==
  /\ Capacity \in Nat
  /\ AnyByte \in Byte

NULL == -1   (* a region pointer that points nowhere; others are offsets   *)

(* Every way to fill one chunk, the empty one included.                    *)
Chunks == UNION {[1..n -> Byte] : n \in 0..Capacity}

Buffers ==
  [mem   : [0..Capacity-1 -> Byte],  (* m_buffer                           *)
   aPtr  : 0..Capacity,              (* m_regionAPointer                   *)
   aSize : 0..Capacity,
   bPtr  : {NULL} \cup 0..Capacity,  (* m_regionBPointer                   *)
   bSize : 0..Capacity]

Allocate ==
  [mem |-> [i \in 0..Capacity-1 |-> AnyByte],
   aPtr |-> 0, aSize |-> 0, bPtr |-> NULL, bSize |-> 0]

GetSize(b) == b.aSize + b.bSize

(* What is stored in A forgotten.                                          *)
GetAFreeSpaceOfEmpty(b) == Capacity - b.aPtr

GetAFreeSpace(b)   == Capacity - b.aPtr - b.aSize
GetSpaceBeforeA(b) == b.aPtr

GetBFreeSpace(b)   == IF b.bPtr = NULL THEN 0 ELSE b.aPtr - b.bPtr - b.bSize

(* B only once A reaches the end of the block.                             *)
AllocateBLate(b) ==
  IF b.bPtr = NULL /\ GetAFreeSpace(b) = 0 THEN [b EXCEPT !.bPtr = 0] ELSE b

(* B is allocated where the code tests whether it gives more room: in      *)
(* Write and, as a side effect, in GetSpace.                               *)
AllocateB(b) ==
  IF b.bPtr = NULL /\ GetAFreeSpace(b) < GetSpaceBeforeA(b)
  THEN [b EXCEPT !.bPtr = 0]
  ELSE b

(* GetSpace: its value.  The buffer it leaves behind is AllocateB(b).      *)
GetSpace(b) ==
  LET c == AllocateB(b)
  IN  IF c.bPtr # NULL THEN GetBFreeSpace(c) ELSE GetAFreeSpace(c)

(* Offset of GetBuffer(): where the next byte is written.                  *)
GetBuffer(b) == IF b.bPtr # NULL THEN b.bPtr + b.bSize ELSE b.aPtr + b.aSize

Stored(mem, at, data) ==
  [i \in 0..Capacity-1 |->
     IF at <= i /\ i < at + Len(data) THEN data[i - at + 1] ELSE mem[i]]

(* Bytes that are put at GetBuffer() and counted by IncrementWritten, in   *)
(* whichever region that is: what recv does, and a Write that succeeds.    *)
Commit(b, data) ==
  LET mem == Stored(b.mem, GetBuffer(b), data)
  IN  IF b.bPtr # NULL
      THEN [b EXCEPT !.mem = mem, !.bSize = b.bSize + Len(data)]
      ELSE [b EXCEPT !.mem = mem, !.aSize = b.aSize + Len(data)]

(* A refused Write may have allocated B all the same.                      *)
Write(b, data) ==
  IF GetSpace(b) < Len(data) THEN AllocateB(b) ELSE Commit(AllocateB(b), data)

Lesser(m, n) == IF m < n THEN m ELSE n

(* The n oldest bytes: out of A first, then out of B.                      *)
Oldest(b, n) ==
  [i \in 1..n |-> IF i <= b.aSize THEN b.mem[b.aPtr + i - 1]
                                  ELSE b.mem[b.bPtr + i - b.aSize - 1]]

(* B becomes A where the pointers say, without the memmove.                *)
BecomeANotMoved(b) ==
  IF b.aSize > 0 THEN b
  ELSE [b EXCEPT !.aPtr = 0, !.aSize = b.bSize, !.bPtr = NULL, !.bSize = 0]

(* Is region A empty?  Then B is moved to the start and becomes A.         *)
BecomeA(b) ==
  IF b.aSize > 0 THEN b
  ELSE [mem   |-> [i \in 0..Capacity-1 |->
                     IF i < b.bSize THEN b.mem[b.bPtr + i] ELSE b.mem[i]],
        aPtr  |-> 0,
        aSize |-> b.bSize,
        bPtr  |-> NULL,
        bSize |-> 0]

(* The pointers stepped over the n oldest bytes, A's before B's.           *)
Advance(b, n) ==
  LET aRem == Lesser(n, b.aSize)
      bRem == Lesser(n - aRem, b.bSize)
  IN  [b EXCEPT !.aPtr = b.aPtr + aRem, !.aSize = b.aSize - aRem,
                !.bPtr = IF bRem > 0 THEN b.bPtr + bRem ELSE b.bPtr,
                !.bSize = b.bSize - bRem]

(* Remove; Read does the same after it copied the bytes out.               *)
Remove(b, n) == BecomeA(Advance(b, n))

(* Offset of GetBufferStart() and the bytes that can leave in one send.    *)
GetBufferStart(b)     == IF b.aSize > 0 THEN b.aPtr ELSE b.bPtr
GetContiguiousBytes(b) == IF b.aSize > 0 THEN b.aSize ELSE b.bSize

(* What is stored, as a sequence.                                          *)
Contents(b) == Oldest(b, GetSize(b))

(* The regions lie in the block, B below A and at its start; when A is     *)
(* empty there is no B and A is back at the start.                         *)
InOrder(b) ==
  /\ b.aPtr + b.aSize <= Capacity
  /\ b.aSize = 0 => b.aPtr = 0 /\ b.bPtr = NULL
  /\ b.bPtr = NULL => b.bSize = 0
  /\ b.bPtr # NULL => b.bPtr = 0 /\ b.bSize <= b.aPtr

===============================================================================
