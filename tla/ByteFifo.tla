------------------------------- MODULE ByteFifo -------------------------------
(***************************************************************************)
(* What a socket expects of its buffers: a first-in first-out queue of at  *)
(* most Capacity bytes.  A write is taken whole or refused; the buffer may *)
(* refuse one although it is not full.  A read takes the oldest bytes.     *)
(***************************************************************************)
EXTENDS Integers, Sequences

CONSTANTS
  Byte,      (* the values a byte can have                                 *)
  Capacity   (* how many bytes fit                                         *)

VARIABLES
  fifo,  (* the bytes stored, oldest first                                 *)
  got    (* the bytes the last read handed out                             *)

Init ==
  /\ fifo = <<>>
  /\ got = <<>>

Put(data) ==
  /\ Len(fifo) + Len(data) <= Capacity
  /\ fifo' = fifo \o data
  /\ UNCHANGED got

Take(n) ==
  /\ n <= Len(fifo)
  /\ got' = SubSeq(fifo, 1, n)
  /\ fifo' = SubSeq(fifo, n + 1, Len(fifo))

Chunks == UNION {[1..n -> Byte] : n \in 0..Capacity}

Next ==
  \/ \E data \in Chunks : Put(data)
  \/ \E n \in 0..Capacity : Take(n)

Spec == Init /\ [][Next]_<<fifo, got>>

===============================================================================
