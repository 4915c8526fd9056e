----------------------------- MODULE PacketStream -----------------------------
(***************************************************************************)
(* What the programs at the ends of a link expect of it, in each           *)
(* direction: a packet is sent whole, whichever thread sends it, and the   *)
(* bytes received are the bytes sent, in order.  Bytes may be cut anywhere *)
(* on the way: the receiver takes as many as have arrived.                 *)
(***************************************************************************)
EXTENDS Integers, Sequences

CONSTANTS
  Ends,    (* the two programs                                             *)
  Packet   (* the bytes of a packet                                        *)

VARIABLES
  sent,      (* the bytes of all packets each end has sent                 *)
  received   (* those of them that have reached the other end              *)

Init ==
  /\ sent = [e \in Ends |-> <<>>]
  /\ received = [e \in Ends |-> <<>>]

Send(e) ==
  /\ sent' = [sent EXCEPT ![e] = @ \o Packet]
  /\ UNCHANGED received

Receive(e, n) ==
  /\ Len(received[e]) + n <= Len(sent[e])
  /\ received' = [received EXCEPT ![e] = SubSeq(sent[e], 1, Len(@) + n)]
  /\ UNCHANGED sent

Next ==
  \E e \in Ends :
    \/ Send(e)
    \/ \E n \in 0..Len(sent[e]) : Receive(e, n)

Spec == Init /\ [][Next]_<<sent, received>>

===============================================================================
