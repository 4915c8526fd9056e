---------------------------- MODULE BufferedStream ----------------------------
(***************************************************************************)
(* One CircularBuffer in use, by every call the sockets make: recv into    *)
(* it, Write, Read, a send of its contiguous bytes followed by Remove, and *)
(* GetSpace, which changes the buffer too.                                 *)
(***************************************************************************)
EXTENDS CircularBuffer

VARIABLES
  buf,  (* the buffer                                                      *)
  got   (* the bytes that left it last                                     *)

vars == <<buf, got>>

Init ==
  /\ buf = Allocate
  /\ got = <<>>

(* Socket::BurstSend.                                                      *)
BurstSend(data) ==
  /\ buf' = Write(buf, data)
  /\ UNCHANGED got

(* Socket::ReadCallback: recv is given GetSpace bytes of room and returns  *)
(* some; 0 or less ends the connection.                                    *)
Receive(data) ==
  /\ Len(data) \in 1..GetSpace(buf)
  /\ buf' = Commit(AllocateB(buf), data)
  /\ UNCHANGED got

(* Read: nothing happens when there are fewer bytes than asked for.        *)
ReadBytes(n) ==
  /\ n <= GetSize(buf)
  /\ got' = Oldest(buf, n)
  /\ buf' = Remove(buf, n)

(* Socket::WriteCallback: send takes some of the contiguous bytes.         *)
Flush(n) ==
  /\ n <= GetContiguiousBytes(buf)
  /\ got' = [i \in 1..n |-> buf.mem[GetBufferStart(buf) + i - 1]]
  /\ buf' = Remove(buf, n)

AskSpace ==
  /\ buf' = AllocateB(buf)
  /\ UNCHANGED got

Next ==
  \/ \E data \in Chunks : BurstSend(data) \/ Receive(data)
  \/ \E n \in 0..Capacity : ReadBytes(n) \/ Flush(n)
  \/ AskSpace

Spec == Init /\ [][Next]_vars

-------------------------------------------------------------------------------

TypeOK ==
  /\ buf \in Buffers
  /\ got \in Chunks

(* The regions never overlap or leave the block, so that no write lands on *)
(* bytes that were not read yet and nobody reads bytes never written.      *)
RegionsInOrder == InOrder(buf)

(* At least half of the block can be used whatever was read and written    *)
(* before: what is stored and what GetSpace offers add up to it.  A socket *)
(* whose packet is still incomplete therefore has room to receive the rest *)
(* of any packet up to half its buffer; without room recv would return 0,  *)
(* which ReadCallback takes for the end of the connection.  A drained       *)
(* buffer has its full room back.                                          *)
HalfUsable ==
  /\ 2 * (GetSize(buf) + GetSpace(buf)) >= Capacity
  /\ GetSize(buf) = 0 => GetSpace(buf) = Capacity

(* Bytes leave the buffer in the order, and with the values, in which they *)
(* entered it, across both regions, wrap-around and the move of B to A.    *)
Fifo == INSTANCE ByteFifo WITH fifo <- Contents(buf)

IsFifo == Fifo!Spec

===============================================================================
