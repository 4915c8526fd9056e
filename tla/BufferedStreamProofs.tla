------------------------- MODULE BufferedStreamProofs -------------------------
(***************************************************************************)
(* A CircularBuffer in use, of any capacity and with any bytes, is a FIFO  *)
(* queue; half of it, and all of it once drained, can be used.             *)
(***************************************************************************)
EXTENDS BufferedStream, CircularBufferProofs

(* The inductive invariant.                                                *)
IInv == Good(buf) /\ got \in Chunks

(* Every step keeps the invariant and is a step of the queue, or none.     *)
LEMMA StepIsFifoStep ==
  ASSUME IInv, [Next]_vars
  PROVE  IInv' /\ [Fifo!Next]_<<Contents(buf), got>>
  <1>1. Fifo!Chunks = Chunks
    BY DEF Fifo!Chunks, Chunks
  <1>2. Good(buf) /\ got \in Chunks
    BY DEF IInv
  <1>3. Good(AllocateB(buf)) /\ Contents(AllocateB(buf)) = Contents(buf)
    BY <1>2, AllocateBIsGood
  <1>4. ASSUME NEW data \in Chunks, Len(data) <= GetSpace(buf),
               buf' = Commit(AllocateB(buf), data), UNCHANGED got
        PROVE  IInv' /\ [Fifo!Next]_<<Contents(buf), got>>
    <2>1. Good(buf)' /\ Contents(buf)' = Contents(buf) \o data
          /\ Len(Contents(buf)) + Len(data) <= Capacity
      BY <1>2, <1>4, WriteIsPut
    <2>2. Fifo!Put(data)
      BY <1>4, <2>1 DEF Fifo!Put
    <2> QED BY <1>1, <1>2, <1>4, <2>1, <2>2 DEF IInv, Fifo!Next
  <1>5. ASSUME buf' = AllocateB(buf), UNCHANGED got
        PROVE  IInv' /\ [Fifo!Next]_<<Contents(buf), got>>
    BY <1>2, <1>3, <1>5 DEF IInv
  <1>6. ASSUME NEW n \in 0..Capacity, n <= GetSize(buf),
               got' = Oldest(buf, n), buf' = Remove(buf, n)
        PROVE  IInv' /\ [Fifo!Next]_<<Contents(buf), got>>
    <2>1. /\ Good(buf)'
          /\ Contents(buf)' = SubSeq(Contents(buf), n + 1, GetSize(buf))
      BY <1>2, <1>6, RemoveIsGood
    <2>2. got' = SubSeq(Contents(buf), 1, n) /\ got' \in Chunks
      BY <1>2, <1>6, OldestIsPrefix
    <2>3. Len(Contents(buf)) = GetSize(buf)
      BY <1>2, ContentsIsSequence
    <2>4. Fifo!Take(n)
      BY <1>6, <2>1, <2>2, <2>3 DEF Fifo!Take
    <2> QED BY <1>6, <2>1, <2>2, <2>4 DEF IInv, Fifo!Next
  <1>7. ASSUME NEW data \in Chunks, BurstSend(data)
        PROVE  IInv' /\ [Fifo!Next]_<<Contents(buf), got>>
    <2>1. CASE GetSpace(buf) < Len(data)
      BY <1>5, <1>7, <2>1 DEF BurstSend, Write
    <2>2. CASE ~(GetSpace(buf) < Len(data))
      <3>1. Len(data) <= GetSpace(buf)
        <4>1. GetSpace(buf) \in Int
          <5>1. Good(AllocateB(buf))
            BY <1>3
          <5> QED BY <5>1, Fields, BufferAssumption
                  DEF GetSpace, GetAFreeSpace, GetBFreeSpace, Good, NULL
        <4> QED BY <2>2, <4>1, ChunkIsSequence
      <3> QED BY <1>4, <1>7, <2>2, <3>1 DEF BurstSend, Write
    <2> QED BY <2>1, <2>2
  <1>8. ASSUME NEW data \in Chunks, Receive(data)
        PROVE  IInv' /\ [Fifo!Next]_<<Contents(buf), got>>
    BY <1>4, <1>8 DEF Receive
  <1>9. ASSUME NEW n \in 0..Capacity, ReadBytes(n)
        PROVE  IInv' /\ [Fifo!Next]_<<Contents(buf), got>>
    BY <1>6, <1>9 DEF ReadBytes
  <1>10. ASSUME NEW n \in 0..Capacity, Flush(n)
         PROVE  IInv' /\ [Fifo!Next]_<<Contents(buf), got>>
    BY <1>2, <1>6, <1>10, ContiguousIsOldest DEF Flush
  <1>11. ASSUME AskSpace
         PROVE  IInv' /\ [Fifo!Next]_<<Contents(buf), got>>
    BY <1>5, <1>11 DEF AskSpace
  <1>12. CASE UNCHANGED vars
    BY <1>2, <1>12 DEF vars, IInv
  <1> QED BY <1>7, <1>8, <1>9, <1>10, <1>11, <1>12 DEF Next

(* A new buffer is good and an empty queue.                                *)
LEMMA InitIsFifoInit == Init => IInv /\ Fifo!Init
  <1> SUFFICES ASSUME Init PROVE IInv /\ Fifo!Init
    OBVIOUS
  <1>1. Good(buf) /\ GetSize(buf) = 0
    BY AllocateIsGood DEF Init
  <1>2. Contents(buf) = <<>>
    BY <1>1, ContentsIsSequence, EmptySeq
  <1>3. <<>> \in Chunks
    BY BufferAssumption DEF Chunks
  <1> QED BY <1>1, <1>2, <1>3 DEF Init, IInv, Fifo!Init

(* The invariant holds of every reachable state.                           *)
THEOREM Inductive == Spec => []IInv
  <1>1. IInv /\ [Next]_vars => IInv'
    BY StepIsFifoStep
  <1> QED BY InitIsFifoInit, <1>1, PTL DEF Spec

(* The buffer implements the queue: for every capacity, bytes leave it in  *)
(* the order and with the values with which they entered.                  *)
THEOREM BufferIsFifo == Spec => IsFifo
  <1>1. IInv /\ [Next]_vars => [Fifo!Next]_<<Contents(buf), got>>
    BY StepIsFifoStep
  <1> QED BY InitIsFifoInit, Inductive, <1>1, PTL DEF Spec, IsFifo, Fifo!Spec

(* Sizes and offsets stay within the block; what is read is a chunk.       *)
THEOREM TypeCorrect == Spec => []TypeOK
  <1>1. IInv => TypeOK
    BY DEF IInv, Good, TypeOK
  <1> QED BY Inductive, <1>1, PTL

(* The regions stay in the block and apart.                                *)
THEOREM RegionsStayInOrder == Spec => []RegionsInOrder
  <1>1. IInv => RegionsInOrder
    BY DEF IInv, Good, RegionsInOrder
  <1> QED BY Inductive, <1>1, PTL

(* Half of the block is always usable, and all of it once it is drained.   *)
THEOREM AlwaysHalfUsable == Spec => []HalfUsable
  <1>1. IInv => HalfUsable
    BY GoodIsHalfUsable, GoodDrainedIsWhole DEF IInv, HalfUsable
  <1> QED BY Inductive, <1>1, PTL

===============================================================================
