------------------------------ MODULE SocketLink ------------------------------
(***************************************************************************)
(* Two programs joined by one TCP connection (a worker server and the      *)
(* realm server, or a client), each with the epoll build of libs/Network:  *)
(* Socket, SocketMgr and one SocketWorkerThread.  Game threads write       *)
(* packets into the socket's write buffer and ask for an EPOLLOUT event;   *)
(* the worker thread sends and receives when an event arrives.             *)
(*                                                                         *)
(* A socket is registered for EPOLLIN or for EPOLLOUT, never for both, and *)
(* edge-triggered: an event is queued when the registration is changed and *)
(* the condition holds, or when the condition becomes true.  The kernel    *)
(* half of that (armed, ready, noSpace, chan) follows what the code relies *)
(* on: a send that could not place all its bytes, and only such a send,    *)
(* makes the kernel report room later.                                     *)
(***************************************************************************)
EXTENDS CircularBuffer, FiniteSets

CONSTANTS
  Ends,         (* the two programs                                        *)
  Senders,      (* the threads that send packets                           *)
  Home,         (* Home[t]: the program of thread t                        *)
  NoThread,     (* the owner of a mutex nobody holds                       *)
  BodySize,     (* bytes in a packet's body; its header is one             *)
  MaxPackets,   (* bound: packets a thread sends                           *)
  KernelRoom,   (* bytes the kernel holds in each direction                *)
  ReadRoom,     (* bytes one recv can take                                 *)
  LockModulus,  (* the width of m_writeLock                                *)
  ChecksSpace   (* TRUE for WorldServer's WorldSocket, which asks for room *)
                (* before it begins a packet; FALSE for all other sockets  *)

ASSUME LinkAssumption ==
  /\ IsFiniteSet(Ends) /\ Cardinality(Ends) = 2
  /\ Home \in [Senders -> Ends]
  /\ NoThread \notin Senders
  /\ BodySize \in Nat \ {0} /\ KernelRoom \in Nat \ {0} /\ ReadRoom \in Nat \ {0}
  /\ MaxPackets \in Nat
  /\ LockModulus \in Nat /\ LockModulus > 2
  /\ ChecksSpace \in BOOLEAN
  /\ Byte = {"h", "b"}

VARIABLES
  wbuf,       (* writeBuffer                                               *)
  mutex,      (* the owner of m_writeMutex, or NoThread                    *)
  writeLock,  (* m_writeLock                                               *)
  armed,      (* the event the socket is registered for                    *)
  ready,      (* an event is queued for epoll_wait                         *)
  noSpace,    (* the kernel will report room once there is some            *)
  chan,       (* bytes on their way to this end                            *)
  heard,      (* bytes this end received                                   *)
  worker,     (* where the worker thread is                                *)
  sender,     (* where each sending thread is                              *)
  left        (* packets each thread has still to send                     *)

kernel == <<armed, ready, noSpace>>
vars == <<wbuf, mutex, writeLock, armed, ready, noSpace, chan, heard, worker,
          sender, left>>

Peer(e) == CHOOSE f \in Ends : f # e
Room(e) == KernelRoom - Len(chan[Peer(e)])

Header == <<"h">>
Body   == [i \in 1..BodySize |-> "b"]

Init ==
  /\ wbuf = [e \in Ends |-> Allocate]
  /\ mutex = [e \in Ends |-> NoThread]
  /\ writeLock = [e \in Ends |-> 0]
  /\ armed = [e \in Ends |-> "IN"]
  /\ ready = [e \in Ends |-> FALSE]
  /\ noSpace = [e \in Ends |-> FALSE]
  /\ chan = [e \in Ends |-> <<>>]
  /\ heard = [e \in Ends |-> <<>>]
  /\ worker = [e \in Ends |-> "wait"]
  /\ sender = [t \in Senders |-> "idle"]
  /\ left = [t \in Senders |-> MaxPackets]

(* PostEvent(EPOLLOUT): EPOLL_CTL_MOD looks at once whether there is room. *)
PostOut(e) ==
  /\ armed' = [armed EXCEPT ![e] = "OUT"]
  /\ ready' = [ready EXCEPT ![e] = Room(e) > 0]
  /\ noSpace' = [noSpace EXCEPT ![e] = Room(e) = 0]

-------------------------------------------------------------------------------
(* The sending threads.                                                    *)

(* The packet is given up, or done: BurstEnd.                              *)
BurstEnd(t) ==
  /\ mutex' = [mutex EXCEPT ![Home[t]] = NoThread]
  /\ sender' = [sender EXCEPT ![t] = "idle"]
  /\ left' = [left EXCEPT ![t] = @ - 1]

(* WorldSocket::_OutPacket finds too little room; the packet is kept and   *)
(* tried again.                                                            *)
NoRoomInBuffer(t) ==
  LET e == Home[t]
  IN  /\ ChecksSpace
      /\ sender[t] = "idle" /\ left[t] > 0 /\ mutex[e] = NoThread
      /\ GetSpace(wbuf[e]) < 1 + BodySize
      /\ wbuf' = [wbuf EXCEPT ![e] = AllocateB(@)]
      /\ UNCHANGED <<mutex, writeLock, kernel, chan, heard, worker, sender, left>>

(* A packet begun without BurstBegin.                                      *)
SendHeaderUnlocked(t) ==
  LET e == Home[t]
  IN  /\ sender[t] = "idle" /\ left[t] > 0
      /\ ChecksSpace => GetSpace(wbuf[e]) >= 1 + BodySize
      /\ wbuf' = [wbuf EXCEPT ![e] = Write(@, Header)]
      /\ sender' = [sender EXCEPT ![t] = "body"]
      /\ UNCHANGED <<mutex, writeLock, kernel, chan, heard, worker, left>>

(* BurstBegin and BurstSend of the header.                                 *)
SendHeader(t) ==
  LET e == Home[t]
  IN  /\ sender[t] = "idle" /\ left[t] > 0 /\ mutex[e] = NoThread
      /\ ChecksSpace => GetSpace(wbuf[e]) >= 1 + BodySize
      /\ wbuf' = [wbuf EXCEPT ![e] = Write(@, Header)]
      /\ IF GetSpace(wbuf[e]) >= 1
         THEN /\ mutex' = [mutex EXCEPT ![e] = t]
              /\ sender' = [sender EXCEPT ![t] = "body"]
              /\ UNCHANGED left
         ELSE BurstEnd(t)
      /\ UNCHANGED <<writeLock, kernel, chan, heard, worker>>

(* BurstSend of the body.  If it does not fit, the header stays in the     *)
(* buffer and BurstPush is not called.                                     *)
SendBody(t) ==
  LET e == Home[t]
  IN  /\ sender[t] = "body"
      /\ wbuf' = [wbuf EXCEPT ![e] = Write(@, Body)]
      /\ IF GetSpace(wbuf[e]) >= BodySize
         THEN /\ sender' = [sender EXCEPT ![t] = "push"]
              /\ UNCHANGED <<mutex, left>>
         ELSE BurstEnd(t)
      /\ UNCHANGED <<writeLock, kernel, chan, heard, worker>>

(* A push that does not test the send lock.                                *)
BurstPushUntested(t) ==
  LET e == Home[t]
  IN  /\ sender[t] = "push"
      /\ writeLock' = [writeLock EXCEPT ![e] = (@ + 1) % LockModulus]
      /\ PostOut(e)
      /\ BurstEnd(t)
      /\ UNCHANGED <<wbuf, chan, heard, worker>>

(* A push that takes the lock and posts no event.                          *)
BurstPushUnposted(t) ==
  LET e == Home[t]
  IN  /\ sender[t] = "push"
      /\ writeLock' = [writeLock EXCEPT ![e] = 1]
      /\ BurstEnd(t)
      /\ UNCHANGED <<wbuf, kernel, chan, heard, worker>>

(* BurstPush: AcquireSendLock, and if that succeeds PostEvent(EPOLLOUT).   *)
BurstPush(t) ==
  LET e == Home[t]
  IN  /\ sender[t] = "push"
      /\ IF writeLock[e] = 0
         THEN writeLock' = [writeLock EXCEPT ![e] = 1] /\ PostOut(e)
         ELSE UNCHANGED <<writeLock, kernel>>
      /\ BurstEnd(t)
      /\ UNCHANGED <<wbuf, chan, heard, worker>>

-------------------------------------------------------------------------------
(* The worker thread.                                                      *)

EpollWait(e) ==
  /\ worker[e] = "wait" /\ ready[e]
  /\ ready' = [ready EXCEPT ![e] = FALSE]
  /\ worker' = [worker EXCEPT ![e] = IF armed[e] = "IN" THEN "read" ELSE "write"]
  /\ UNCHANGED <<wbuf, mutex, writeLock, armed, noSpace, chan, heard, sender, left>>

(* ReadCallback: one recv, of no more than there is room for.  OnRead      *)
(* takes everything out of the read buffer.                                *)
ReadCallback(e) ==
  LET n == Lesser(Len(chan[e]), ReadRoom)
      p == Peer(e)
  IN  /\ worker[e] = "read"
      /\ chan' = [chan EXCEPT ![e] = SubSeq(@, n + 1, Len(@))]
      /\ heard' = [heard EXCEPT ![e] = @ \o SubSeq(chan[e], 1, n)]
      /\ ready' = [ready EXCEPT ![p] = @ \/ (noSpace[p] /\ armed[p] = "OUT")]
      /\ noSpace' = [noSpace EXCEPT ![p] = FALSE]
      /\ worker' = [worker EXCEPT ![e] = "inspect"]
      /\ UNCHANGED <<wbuf, mutex, writeLock, armed, sender, left>>

(* "changing to written state?": the worker looks, without the mutex, for  *)
(* bytes nobody has asked an event for.                                    *)
InspectWritten(e) ==
  /\ worker[e] = "inspect"
  /\ worker' = [worker EXCEPT ![e] =
                  IF GetSize(wbuf[e]) > 0 /\ writeLock[e] = 0 THEN "post" ELSE "wait"]
  /\ UNCHANGED <<wbuf, mutex, writeLock, kernel, chan, heard, sender, left>>

PostWritten(e) ==
  /\ worker[e] = "post"
  /\ PostOut(e)
  /\ worker' = [worker EXCEPT ![e] = "wait"]
  /\ UNCHANGED <<wbuf, mutex, writeLock, chan, heard, sender, left>>

(* A worker that sends without the mutex.                                  *)
MayWriteUnlocked(e) == worker[e] = "write"

(* BurstBegin: the worker waits for the write mutex.                       *)
MayWrite(e) == worker[e] = "write" /\ mutex[e] = NoThread

(* The registration stays EPOLLOUT after the buffer was emptied.           *)
WriteCallbackStaysOut(e) ==
  LET p == Peer(e)
      n == Lesser(GetContiguiousBytes(wbuf[e]), Room(e))
      b == Remove(wbuf[e], n)
  IN  /\ MayWrite(e)
      /\ wbuf' = [wbuf EXCEPT ![e] = b]
      /\ chan' = [chan EXCEPT ![p] = @ \o Oldest(wbuf[e], n)]
      /\ writeLock' = [writeLock EXCEPT ![e] = IF GetSize(b) = 0 THEN 0 ELSE @]
      /\ noSpace' = [noSpace EXCEPT ![e] = n < GetContiguiousBytes(wbuf[e])]
      /\ ready' = [ready EXCEPT ![p] = @ \/ (n > 0 /\ armed[p] = "IN")]
      /\ worker' = [worker EXCEPT ![e] = "wait"]
      /\ UNCHANGED <<mutex, armed, heard, sender, left>>

(* WriteCallback under the mutex: one send of the contiguous bytes.  Only  *)
(* when the buffer is empty then is the send lock given back and the       *)
(* registration changed to EPOLLIN.                                        *)
WriteCallback(e) ==
  LET p == Peer(e)
      n == Lesser(GetContiguiousBytes(wbuf[e]), Room(e))
      b == Remove(wbuf[e], n)
      arrives == n > 0 /\ armed[p] = "IN"
  IN  /\ MayWrite(e)
      /\ wbuf' = [wbuf EXCEPT ![e] = b]
      /\ chan' = [chan EXCEPT ![p] = @ \o Oldest(wbuf[e], n)]
      /\ IF GetSize(b) = 0
         THEN /\ writeLock' = [writeLock EXCEPT ![e] = (@ + LockModulus - 1) % LockModulus]
              /\ armed' = [armed EXCEPT ![e] = "IN"]
              /\ ready' = [ready EXCEPT ![e] = chan[e] # <<>>, ![p] = @ \/ arrives]
              /\ noSpace' = [noSpace EXCEPT ![e] = FALSE]
         ELSE /\ noSpace' = [noSpace EXCEPT ![e] = n < GetContiguiousBytes(wbuf[e])]
              /\ ready' = [ready EXCEPT ![p] = @ \/ arrives]
              /\ UNCHANGED <<writeLock, armed>>
      /\ worker' = [worker EXCEPT ![e] = "wait"]
      /\ UNCHANGED <<mutex, heard, sender, left>>

Worker(e) ==
  \/ EpollWait(e) \/ ReadCallback(e) \/ InspectWritten(e) \/ PostWritten(e)
  \/ WriteCallback(e)

Sender(t) ==
  \/ NoRoomInBuffer(t) \/ SendHeader(t) \/ SendBody(t) \/ BurstPush(t)

Next ==
  \/ \E e \in Ends : Worker(e)
  \/ \E t \in Senders : Sender(t)

Spec == Init /\ [][Next]_vars

(* The worker thread and a thread inside a packet keep running; a mutex    *)
(* that is free again and again is obtained; packets that found no room    *)
(* are tried again by the socket's update.                                 *)
Fairness ==
  /\ \A e \in Ends : WF_vars(Worker(e)) /\ SF_vars(WriteCallback(e))
  /\ \A t \in Senders : WF_vars(SendBody(t)) /\ WF_vars(BurstPush(t)) /\ SF_vars(SendHeader(t))

FairSpec == Spec /\ Fairness

-------------------------------------------------------------------------------

TypeOK ==
  /\ wbuf \in [Ends -> Buffers]
  /\ mutex \in [Ends -> Senders \cup {NoThread}]
  /\ writeLock \in [Ends -> 0..LockModulus-1]
  /\ armed \in [Ends -> {"IN", "OUT"}]
  /\ ready \in [Ends -> BOOLEAN] /\ noSpace \in [Ends -> BOOLEAN]
  /\ chan \in [Ends -> Seq(Byte)] /\ heard \in [Ends -> Seq(Byte)]
  /\ \A e \in Ends : Len(chan[e]) <= KernelRoom
  /\ worker \in [Ends -> {"wait", "read", "inspect", "post", "write"}]
  /\ sender \in [Senders -> {"idle", "body", "push"}]
  /\ left \in [Senders -> 0..MaxPackets]

(* Everything e sent or will send, in order.                               *)
Stream(e) == heard[Peer(e)] \o chan[Peer(e)] \o Contents(wbuf[e])

(* The peer can tell packets apart: the stream is made of whole packets,   *)
(* packets of several threads do not mix, and only the packet of the       *)
(* thread that holds the mutex is incomplete.                              *)
WholePackets ==
  \A e \in Ends :
    /\ \A i \in DOMAIN Stream(e) :
         Stream(e)[i] = IF i % (1 + BodySize) = 1 THEN "h" ELSE "b"
    /\ Len(Stream(e)) % (1 + BodySize) = 0 \/ mutex[e] # NoThread

(* The bytes of the packet that is being written, once its header is in.   *)
Rest(e) == IF mutex[e] # NoThread /\ sender[mutex[e]] = "body" THEN 1 ELSE 0

(* The packets that e has written whole.                                   *)
Complete(e) == SubSeq(Stream(e), 1, Len(Stream(e)) - Rest(e))

(* Two buffers, two kernels, a mutex and the worker's sends and receives   *)
(* make a stream of packets: writing one in pieces looks like one step     *)
(* (BurstBegin to BurstEnd), and no order of sends, receives and moves in  *)
(* the buffers loses, repeats or reorders a byte.                          *)
Streams == INSTANCE PacketStream
             WITH Packet <- Header \o Body,
                  sent <- [e \in Ends |-> Complete(e)],
                  received <- [e \in Ends |-> heard[Peer(e)]]

IsPacketStream == Streams!Spec

(* The send lock is a lock: nobody takes it twice, and nobody gives it     *)
(* back who does not hold it (an unsigned zero minus one would stop every  *)
(* later push).  WriteCallback relies on it: "We should already be locked  *)
(* at this point".                                                         *)
SendLockIsBinary ==
  \A e \in Ends :
    /\ writeLock[e] \in {0, 1}
    /\ worker[e] = "write" /\ mutex[e] = NoThread => writeLock[e] = 1

(* No bytes are forgotten: once no thread is inside a packet, a buffer     *)
(* that is not empty is registered for EPOLLOUT under the send lock,       *)
(* whichever of BurstPush, the worker's look at the buffer and the worker's *)
(* change back to EPOLLIN came last.                                       *)
NothingUnpushed ==
  \A e \in Ends :
    GetSize(wbuf[e]) > 0 /\ mutex[e] = NoThread =>
      writeLock[e] = 1 /\ armed[e] = "OUT"

(* Bytes that a finished push left behind have an event coming, queued or  *)
(* promised by the kernel, or are being sent.  "we don't have to do        *)
(* anything here. no more oneshots" relies on it when the buffer was not   *)
(* emptied.                                                                *)
LeftoverRenotified ==
  \A e \in Ends :
    armed[e] = "OUT" /\ GetSize(wbuf[e]) > 0 =>
      ready[e] \/ noSpace[e] \/ worker[e] = "write"

(* The same on the way in: bytes that one recv left in the kernel have an  *)
(* event coming, or are being read.                                        *)
UnreadRenotified ==
  \A e \in Ends :
    armed[e] = "IN" /\ chan[e] # <<>> => ready[e] \/ worker[e] = "read"

(* A socket registered for EPOLLOUT does not read: when both ends wait for  *)
(* room, neither makes any.                                                *)
BothBlocked == \A e \in Ends : armed[e] = "OUT" /\ noSpace[e] /\ ~ready[e]

(* Nothing is under way and no event is queued.                            *)
Quiet ==
  /\ \A e \in Ends : worker[e] = "wait" /\ ~ready[e]
  /\ \A t \in Senders : sender[t] = "idle"

Drained == \A e \in Ends : GetSize(wbuf[e]) = 0 /\ chan[e] = <<>>

(* There are three ways for a link to stall and no fourth: when nothing is *)
(* under way, everything written has been received, or bytes were left in  *)
(* a buffer or in the kernel without an event, or both ends wait for room  *)
(* (the run loop of the worker thread, with every order of BurstPush and   *)
(* its changes of the registration).                                       *)
OnlyThreeStalls ==
  Quiet => Drained \/ ~LeftoverRenotified \/ ~UnreadRenotified \/ BothBlocked

(* Short of these three, no order of sends, receives and changes of the    *)
(* registration stops a link, however small the kernel's buffers: every    *)
(* packet written is received and nothing is left anywhere.                *)
AllDelivered ==
  [](LeftoverRenotified /\ UnreadRenotified /\ ~BothBlocked) =>
    <>[](\A e \in Ends :
           /\ GetSize(wbuf[e]) = 0
           /\ chan[e] = <<>>
           /\ \A t \in Senders : left[t] = 0)

===============================================================================
