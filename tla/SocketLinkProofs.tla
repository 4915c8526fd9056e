--------------------------- MODULE SocketLinkProofs ---------------------------
(***************************************************************************)
(* Proofs about SocketLink, for any number of senders and any sizes.  What *)
(* holds of every socket comes first (Plain, Appends); the rest is about   *)
(* sockets that ask for room before they begin a packet (ChecksSpace).     *)
(*                                                                         *)
(* The send lock is taken exactly while the socket is registered for       *)
(* EPOLLOUT, but for one gap: the worker that saw bytes and no lock may    *)
(* register it too.  It saw the bytes of a packet under way, whose sender  *)
(* has the write mutex; and WriteCallback wants that mutex, so that it     *)
(* comes after the sender has taken the send lock.                         *)
(*                                                                         *)
(* At rest, an end that is registered for EPOLLOUT without an event has    *)
(* been promised one, so its kernel is full; the other end does not read,  *)
(* so it is registered for EPOLLOUT too.                                   *)
(*                                                                         *)
(* The link is a stream of packets: its stream without the bytes of a      *)
(* packet under way grows by a packet at a time, and what is received is a *)
(* prefix of it, because those bytes cannot have left the buffer.          *)
(***************************************************************************)
EXTENDS SocketLink, CircularBufferProofs, FiniteSetTheorems

PacketSize == 1 + BodySize

(* A stream of whole packets, and of rest bytes of one more.               *)
Framed(s, rest) ==
  /\ \A i \in 1..Len(s) : s[i] = IF i % PacketSize = 1 THEN "h" ELSE "b"
  /\ \E q \in Nat : Len(s) = PacketSize * q + rest

Buffered == \A e \in Ends : Good(wbuf[e])

(* The mutex belongs to the thread that is inside a packet.                *)
Owned ==
  /\ \A t \in Senders : sender[t] # "idle" => mutex[Home[t]] = t /\ left[t] > 0
  /\ \A e \in Ends : mutex[e] # NoThread => Home[mutex[e]] = e /\ sender[mutex[e]] # "idle"

(* What holds of every socket.                                             *)
Plain == TypeOK /\ Buffered /\ Owned

(* Who has the send lock, or will have it before anybody relies on it.     *)
Locked ==
  \A e \in Ends :
    /\ writeLock[e] \in {0, 1}
    /\ writeLock[e] = 1 \/ worker[e] = "write" => armed[e] = "OUT"
    /\ armed[e] = "OUT" \/ worker[e] = "post" \/ GetSize(wbuf[e]) > 0 =>
         writeLock[e] = 1 \/ mutex[e] # NoThread

(* The room that was asked for is still there when the body is written.    *)
Roomy == \A t \in Senders : sender[t] = "body" => GetSpace(wbuf[Home[t]]) >= BodySize

Whole == \A e \in Ends : Framed(Stream(e), Rest(e))

IInv == Plain /\ Locked /\ Roomy /\ Whole

-------------------------------------------------------------------------------
(* Numbers, ends and packets.                                              *)

LEMMA Remainder ==
  ASSUME NEW m \in Nat, m > 1, NEW q \in Nat, NEW r \in 0..m-1
  PROVE  (m * q + r) % m = r
  BY SMTT(30)

LEMMA Sizes ==
  /\ BodySize \in Nat /\ BodySize > 0 /\ PacketSize \in Nat /\ PacketSize > 1
  /\ KernelRoom \in Nat /\ ReadRoom \in Nat /\ LockModulus \in Nat /\ LockModulus > 2
  /\ MaxPackets \in Nat /\ Capacity \in Nat
  /\ NoThread \notin Senders /\ Home \in [Senders -> Ends] /\ Byte = {"h", "b"}
  BY LinkAssumption, BufferAssumption DEF PacketSize

(* There are two ends, each the other's peer.                              *)
LEMMA PeerIsOther ==
  ASSUME NEW e \in Ends
  PROVE  /\ Peer(e) \in Ends /\ Peer(e) # e /\ Peer(Peer(e)) = e
         /\ \A f \in Ends : f = e \/ f = Peer(e)
  <1>1. IsFiniteSet(Ends \ {e}) /\ Cardinality(Ends \ {e}) = 1
    BY LinkAssumption, FS_RemoveElement
  <1>2. PICK p : Ends \ {e} = {p}
    BY <1>1, FS_Singleton
  <1>3. p \in Ends /\ p # e /\ \A f \in Ends : f = e \/ f = p
    BY <1>2
  <1>4. Peer(e) = p
    BY <1>3 DEF Peer
  <1>5. Peer(p) = e
    BY <1>3 DEF Peer
  <1> QED BY <1>3, <1>4, <1>5

LEMMA PiecesAreChunks ==
  /\ Header \in Seq(Byte) /\ Len(Header) = 1 /\ Header[1] = "h"
  /\ Body \in Seq(Byte) /\ Len(Body) = BodySize /\ \A i \in 1..BodySize : Body[i] = "b"
  /\ Capacity >= 1 => Header \in Chunks
  /\ Capacity >= BodySize => Body \in Chunks
  <1>1. Header \in [1..1 -> Byte] /\ Body \in [1..BodySize -> Byte]
    BY Sizes DEF Header, Body
  <1>2. Header \in Seq(Byte) /\ Len(Header) = 1 /\ Header[1] = "h"
    BY Sizes DEF Header
  <1>3. Body \in Seq(Byte) /\ Len(Body) = BodySize /\ \A i \in 1..BodySize : Body[i] = "b"
    BY <1>1, Sizes DEF Body
  <1>4. Capacity >= 1 => 1 \in 0..Capacity
    BY Sizes
  <1>5. Capacity >= BodySize => BodySize \in 0..Capacity
    BY Sizes
  <1> QED BY <1>1, <1>2, <1>3, <1>4, <1>5 DEF Chunks

(* A header begins a packet, and a body ends it.                           *)
LEMMA HeaderBegins ==
  ASSUME NEW s \in Seq(Byte), Framed(s, 0)
  PROVE  s \o Header \in Seq(Byte) /\ Framed(s \o Header, 1)
  <1> DEFINE z == s \o Header
  <1>1. /\ z \in Seq(Byte) /\ Len(z) = Len(s) + 1
        /\ \A i \in 1..Len(s) + 1 : z[i] = IF i <= Len(s) THEN s[i] ELSE Header[i - Len(s)]
    <2>1. Header \in Seq(Byte) /\ Len(Header) = 1
      BY PiecesAreChunks
    <2>2. /\ z \in Seq(Byte) /\ Len(z) = Len(s) + Len(Header)
          /\ \A i \in 1..Len(s) + Len(Header) : z[i] = IF i <= Len(s) THEN s[i] ELSE Header[i - Len(s)]
      BY <2>1, ConcatProperties
    <2> QED BY <2>1, <2>2
  <1>2. Len(s) \in Nat
    OBVIOUS
  <1>3. PICK q \in Nat : Len(s) = PacketSize * q + 0
    BY DEF Framed
  <1> HIDE DEF z
  <1>4. PacketSize * q \in Nat /\ Len(s) + 1 = PacketSize * q + 1
    BY <1>2, <1>3, Sizes
  <1>5. (Len(s) + 1) % PacketSize = 1
    <2>1. 1 \in 0..PacketSize - 1
      BY Sizes
    <2>2. (PacketSize * q + 1) % PacketSize = 1
      BY <2>1, Remainder, Sizes
    <2> QED BY <1>4, <2>2
  <1>6. ASSUME NEW i \in 1..Len(z)
        PROVE  z[i] = IF i % PacketSize = 1 THEN "h" ELSE "b"
    <2>1. CASE i <= Len(s)
      BY <1>1, <1>2, <2>1 DEF Framed
    <2>2. CASE i = Len(s) + 1
      BY <1>1, <1>2, <1>5, <2>2, PiecesAreChunks
    <2> QED BY <1>1, <1>2, <2>1, <2>2
  <1> QED BY <1>1, <1>4, <1>6 DEF Framed, z

LEMMA BodyEnds ==
  ASSUME NEW s \in Seq(Byte), Framed(s, 1)
  PROVE  s \o Body \in Seq(Byte) /\ Framed(s \o Body, 0)
  <1> DEFINE z == s \o Body
  <1>1. /\ z \in Seq(Byte) /\ Len(z) = Len(s) + BodySize
        /\ \A i \in 1..Len(s) + BodySize : z[i] = IF i <= Len(s) THEN s[i] ELSE Body[i - Len(s)]
    <2>1. Body \in Seq(Byte) /\ Len(Body) = BodySize
      BY PiecesAreChunks
    <2>2. /\ z \in Seq(Byte) /\ Len(z) = Len(s) + Len(Body)
          /\ \A i \in 1..Len(s) + Len(Body) : z[i] = IF i <= Len(s) THEN s[i] ELSE Body[i - Len(s)]
      BY <2>1, ConcatProperties
    <2> QED BY <2>1, <2>2
  <1>2. Len(s) \in Nat
    OBVIOUS
  <1>3. PICK q \in Nat : Len(s) = PacketSize * q + 1
    BY DEF Framed
  <1> HIDE DEF z
  <1>4. /\ PacketSize * q \in Nat /\ PacketSize * (q + 1) \in Nat
        /\ PacketSize * (q + 1) = PacketSize * q + PacketSize
    BY Sizes
  <1>5. Len(s) + BodySize = PacketSize * (q + 1) + 0
    BY <1>3, <1>4, Sizes DEF PacketSize
  <1>6. ASSUME NEW i \in Len(s) + 1 .. Len(s) + BodySize
        PROVE  i % PacketSize # 1
    <2>1. CASE i = Len(s) + BodySize
      <3>1. 0 \in 0..PacketSize - 1 /\ q + 1 \in Nat
        BY Sizes
      <3>2. (PacketSize * (q + 1) + 0) % PacketSize = 0
        BY <3>1, Remainder, Sizes
      <3> QED BY <1>5, <2>1, <3>2
    <2>2. CASE i # Len(s) + BodySize
      <3> DEFINE r == i - PacketSize * q
      <3>1. r \in 2..PacketSize - 1 /\ i = PacketSize * q + r
        BY <1>2, <1>3, <1>4, <2>2, Sizes DEF PacketSize
      <3> HIDE DEF r
      <3>2. r \in 0..PacketSize - 1
        BY <3>1, Sizes
      <3>3. (PacketSize * q + r) % PacketSize = r
        BY <3>2, Remainder, Sizes
      <3> QED BY <3>1, <3>3
    <2> QED BY <2>1, <2>2
  <1>7. ASSUME NEW i \in 1..Len(z)
        PROVE  z[i] = IF i % PacketSize = 1 THEN "h" ELSE "b"
    <2>1. CASE i <= Len(s)
      BY <1>1, <1>2, <2>1 DEF Framed
    <2>2. CASE i > Len(s)
      <3>1. i - Len(s) \in 1..BodySize /\ i \in Len(s) + 1 .. Len(s) + BodySize
        BY <1>1, <1>2, <2>2, Sizes
      <3> QED BY <1>1, <1>2, <1>6, <2>2, <3>1, PiecesAreChunks
    <2> QED BY <1>2, <2>1, <2>2
  <1> QED BY <1>1, <1>5, <1>7 DEF Framed, z

-------------------------------------------------------------------------------
(* Streams.                                                                *)

LEMMA SplitSequence ==
  ASSUME NEW S, NEW s \in Seq(S), NEW n \in 0..Len(s)
  PROVE  /\ SubSeq(s, 1, n) \in Seq(S) /\ SubSeq(s, n + 1, Len(s)) \in Seq(S)
         /\ Len(SubSeq(s, n + 1, Len(s))) = Len(s) - n
         /\ SubSeq(s, 1, n) \o SubSeq(s, n + 1, Len(s)) = s
  <1>1. Len(s) \in Nat /\ n \in Nat
    OBVIOUS
  <1>2. SubSeq(s, 1, n) \in Seq(S) /\ SubSeq(s, n + 1, Len(s)) \in Seq(S)
        /\ Len(SubSeq(s, n + 1, Len(s))) = Len(s) - n
    <2>1. \A i \in 1..n : s[i] \in S
      BY <1>1, ElementOfSeq
    <2>2. \A i \in n + 1 .. Len(s) : s[i] \in S
      BY <1>1, ElementOfSeq
    <2>3. SubSeq(s, 1, n) \in Seq(S)
      BY <1>1, <2>1, SubSeqProperties
    <2>4. SubSeq(s, n + 1, Len(s)) \in Seq(S)
          /\ Len(SubSeq(s, n + 1, Len(s))) = IF n + 1 <= Len(s) THEN Len(s) - (n + 1) + 1 ELSE 0
      BY <1>1, <2>2, SubSeqProperties
    <2> QED BY <1>1, <2>3, <2>4
  <1>3. /\ 1 \in 1..Len(s) + 1 /\ n \in 1 - 1 .. Len(s) /\ Len(s) \in n..Len(s)
    BY <1>1
  <1>4. SubSeq(s, 1, n) \o SubSeq(s, n + 1, Len(s)) = SubSeq(s, 1, Len(s))
    BY <1>3, ConcatAdjacentSubSeq
  <1> QED BY <1>2, <1>4, SubSeqFull

(* Sequences of bytes may be joined in either order of the joins.          *)
LEMMA Joined ==
  ASSUME NEW s \in Seq(Byte), NEW t \in Seq(Byte)
  PROVE  s \o t \in Seq(Byte) /\ Len(s \o t) = Len(s) + Len(t)
  BY ConcatProperties

LEMMA JoinedThrice ==
  ASSUME NEW s \in Seq(Byte), NEW t \in Seq(Byte), NEW u \in Seq(Byte)
  PROVE  (s \o t) \o u = s \o (t \o u)
  BY ConcatAssociative

(* The parts of a stream.                                                  *)
LEMMA StreamParts ==
  ASSUME TypeOK, Buffered, NEW e \in Ends
  PROVE  /\ heard[e] \in Seq(Byte) /\ chan[e] \in Seq(Byte)
         /\ Contents(wbuf[e]) \in Seq(Byte) /\ Len(Contents(wbuf[e])) = GetSize(wbuf[e])
         /\ Stream(e) \in Seq(Byte)
  <1>1. heard[Peer(e)] \in Seq(Byte) /\ chan[Peer(e)] \in Seq(Byte)
    BY PeerIsOther DEF TypeOK
  <1>2. Contents(wbuf[e]) \in Seq(Byte) /\ Len(Contents(wbuf[e])) = GetSize(wbuf[e])
    BY ContentsIsSequence DEF Buffered
  <1>3. heard[Peer(e)] \o chan[Peer(e)] \in Seq(Byte)
    BY <1>1, ConcatProperties
  <1>4. Stream(e) \in Seq(Byte)
    BY <1>2, <1>3, ConcatProperties DEF Stream
  <1> QED BY <1>2, <1>4 DEF TypeOK

(* What is written goes to the end of one stream.                          *)
LEMMA Written ==
  ASSUME TypeOK, Buffered, NEW e \in Ends, NEW c, NEW data \in Seq(Byte),
         Contents(c) = Contents(wbuf[e]) \o data,
         wbuf' = [wbuf EXCEPT ![e] = c], UNCHANGED <<chan, heard>>
  PROVE  /\ Stream(e)' = Stream(e) \o data
         /\ \A f \in Ends \ {e} : Stream(f)' = Stream(f)
  <1>1. wbuf'[e] = c /\ \A f \in Ends \ {e} : wbuf'[f] = wbuf[f]
    BY DEF TypeOK
  <1>2. \A f \in Ends \ {e} : Stream(f)' = Stream(f)
    BY <1>1 DEF Stream
  <1>3. Peer(e) \in Ends
    BY PeerIsOther
  <1>4. heard[Peer(e)] \o chan[Peer(e)] \in Seq(Byte)
    BY <1>3, StreamParts, ConcatProperties
  <1>5. Stream(e)' = (heard[Peer(e)] \o chan[Peer(e)]) \o (Contents(wbuf[e]) \o data)
    BY <1>1 DEF Stream
  <1>6. Contents(wbuf[e]) \in Seq(Byte)
    BY StreamParts
  <1> DEFINE s == heard[Peer(e)] \o chan[Peer(e)]
             t == Contents(wbuf[e])
  <1>7. s \in Seq(Byte) /\ t \in Seq(Byte)
    BY <1>4, <1>6
  <1>8. Stream(e)' = s \o (t \o data) /\ Stream(e) = s \o t
    BY <1>5 DEF Stream
  <1> HIDE DEF s, t
  <1>9. (s \o t) \o data = s \o (t \o data)
    BY <1>7, JoinedThrice
  <1>10. Stream(e)' = Stream(e) \o data
    BY <1>8, <1>9
  <1> QED BY <1>2, <1>10

(* What is received stays in its stream.                                   *)
LEMMA ReadKeepsStreams ==
  ASSUME TypeOK, Buffered, NEW e \in Ends, NEW n \in 0..Len(chan[e]),
         chan' = [chan EXCEPT ![e] = SubSeq(@, n + 1, Len(@))],
         heard' = [heard EXCEPT ![e] = @ \o SubSeq(chan[e], 1, n)],
         UNCHANGED wbuf
  PROVE  /\ chan'[e] \in Seq(Byte) /\ Len(chan'[e]) = Len(chan[e]) - n /\ heard'[e] \in Seq(Byte)
         /\ \A f \in Ends : Stream(f)' = Stream(f)
  <1> DEFINE first == SubSeq(chan[e], 1, n)
             rest == SubSeq(chan[e], n + 1, Len(chan[e]))
  <1>1. heard[e] \in Seq(Byte) /\ chan[e] \in Seq(Byte)
    BY StreamParts
  <1>2. /\ first \in Seq(Byte) /\ rest \in Seq(Byte) /\ first \o rest = chan[e]
        /\ Len(rest) = Len(chan[e]) - n
    BY <1>1, SplitSequence
  <1>3. chan'[e] = rest /\ heard'[e] = heard[e] \o first
    BY DEF TypeOK
  <1>4. \A f \in Ends \ {e} : chan'[f] = chan[f] /\ heard'[f] = heard[f]
    OBVIOUS
  <1> HIDE DEF first, rest
  <1>5. heard'[e] \o chan'[e] = heard[e] \o chan[e]
    <2>1. (heard[e] \o first) \o rest = heard[e] \o (first \o rest)
      BY <1>1, <1>2, JoinedThrice
    <2> QED BY <1>2, <1>3, <2>1
  <1>6. \A f \in Ends : Stream(f)' = Stream(f)
    BY <1>4, <1>5, PeerIsOther DEF Stream
  <1> QED BY <1>1, <1>2, <1>3, <1>6, Joined

(* What is sent stays in its stream.                                       *)
LEMMA SendKeepsStreams ==
  ASSUME TypeOK, Buffered, NEW e \in Ends, NEW n \in 0..Capacity, n <= GetContiguiousBytes(wbuf[e]),
         wbuf' = [wbuf EXCEPT ![e] = Remove(@, n)],
         chan' = [chan EXCEPT ![Peer(e)] = @ \o Oldest(wbuf[e], n)],
         UNCHANGED heard
  PROVE  /\ Good(wbuf'[e])
         /\ chan'[Peer(e)] \in Seq(Byte) /\ Len(chan'[Peer(e)]) = Len(chan[Peer(e)]) + n
         /\ \A f \in Ends : Stream(f)' = Stream(f)
  <1> DEFINE p == Peer(e)
             b == wbuf[e]
             old == Oldest(b, n)
             new == Contents(Remove(b, n))
  <1>1. /\ Good(b) /\ p \in Ends /\ p # e /\ \A f \in Ends : f = e \/ f = p
        /\ Peer(p) = e
    BY PeerIsOther DEF Buffered
  <1>2. n <= GetSize(b) /\ n \in 0..Len(Contents(b))
    BY <1>1, ContiguousIsOldest, ContentsIsSequence
  <1>3. /\ Good(Remove(b, n))
        /\ old = SubSeq(Contents(b), 1, n)
        /\ new = SubSeq(Contents(b), n + 1, Len(Contents(b)))
    BY <1>1, <1>2, RemoveIsGood, OldestIsPrefix, ContentsIsSequence
  <1>4. Contents(b) \in Seq(Byte)
    BY <1>1, ContentsIsSequence
  <1>5. old \in Seq(Byte) /\ new \in Seq(Byte) /\ old \o new = Contents(b)
    BY <1>2, <1>3, <1>4, SplitSequence
  <1>6. Len(old) = n
    BY BufferAssumption DEF Oldest
  <1>7. /\ wbuf'[e] = Remove(b, n) /\ wbuf'[p] = wbuf[p]
        /\ chan'[p] = chan[p] \o old /\ chan'[e] = chan[e]
    BY <1>1 DEF TypeOK
  <1>8. heard[p] \in Seq(Byte) /\ chan[p] \in Seq(Byte)
    BY <1>1, StreamParts
  <1>9. Contents(wbuf'[e]) = new
    BY <1>7
  <1> HIDE DEF p, b, old, new
  <1>10. (heard[p] \o chan'[p]) \o new = (heard[p] \o chan[p]) \o Contents(b)
    <2> DEFINE h == heard[p]
               c == chan[p]
    <2>1. h \in Seq(Byte) /\ c \in Seq(Byte)
      BY <1>8
    <2>2. chan'[p] = c \o old
      BY <1>7
    <2> HIDE DEF h, c
    <2>3. h \o c \in Seq(Byte)
      BY <2>1, Joined
    <2>4. (h \o c) \o old = h \o (c \o old)
      BY <1>5, <2>1, JoinedThrice
    <2> DEFINE hc == h \o c
    <2>5. hc \in Seq(Byte)
      BY <2>3
    <2> HIDE DEF hc
    <2>6. (hc \o old) \o new = hc \o (old \o new)
      BY <1>5, <2>5, JoinedThrice
    <2>7. (h \o chan'[p]) \o new = hc \o Contents(b)
      BY <1>5, <2>2, <2>4, <2>6 DEF hc
    <2> QED BY <2>7 DEF hc, h, c
  <1>11. Stream(e)' = Stream(e)
    BY <1>9, <1>10 DEF Stream, p, b
  <1>12. Stream(p)' = Stream(p)
    BY <1>1, <1>7 DEF Stream
  <1>13. chan'[p] \in Seq(Byte) /\ Len(chan'[p]) = Len(chan[p]) + n
    BY <1>5, <1>6, <1>7, <1>8, Joined
  <1> QED BY <1>1, <1>3, <1>7, <1>11, <1>12, <1>13 DEF p

(* A piece of a packet for which there is room is appended.                *)
LEMMA PieceWritten ==
  ASSUME TypeOK, Buffered, NEW e \in Ends, NEW data \in {Header, Body},
         Len(data) <= GetSpace(wbuf[e]),
         wbuf' = [wbuf EXCEPT ![e] = Write(@, data)], UNCHANGED <<chan, heard>>
  PROVE  /\ wbuf' \in [Ends -> Buffers] /\ Buffered'
         /\ GetSpace(wbuf[e])' >= GetSpace(wbuf[e]) - Len(data)
         /\ GetSize(wbuf[e])' = GetSize(wbuf[e]) + Len(data)
         /\ Stream(e)' = Stream(e) \o data
         /\ \A f \in Ends \ {e} : wbuf'[f] = wbuf[f] /\ Stream(f)' = Stream(f)
  <1>1. Good(wbuf[e])
    BY DEF Buffered
  <1>2. data \in Seq(Byte) /\ Len(data) \in Nat
    BY PiecesAreChunks, Sizes
  <1>3. data \in Chunks
    <2>1. Len(data) <= Capacity
      BY <1>1, <1>2, SpaceIsNumber, Sizes
    <2> QED BY <2>1, PiecesAreChunks
  <1> DEFINE c == Write(wbuf[e], data)
  <1>4. /\ Good(c) /\ Contents(c) = Contents(wbuf[e]) \o data
        /\ GetSpace(c) >= GetSpace(wbuf[e]) - Len(data)
        /\ GetSize(c) = GetSize(wbuf[e]) + Len(data)
    BY <1>1, <1>3, WriteIsPut, WriteTakesItsLength
  <1>5. wbuf' = [wbuf EXCEPT ![e] = c]
    OBVIOUS
  <1> HIDE DEF c
  <1>6. wbuf'[e] = c /\ \A f \in Ends \ {e} : wbuf'[f] = wbuf[f]
    BY <1>5 DEF TypeOK
  <1>7. c \in Buffers
    BY <1>4 DEF Good
  <1>8. wbuf' \in [Ends -> Buffers]
    BY <1>5, <1>7 DEF TypeOK
  <1>9. Buffered'
    BY <1>4, <1>6 DEF Buffered
  <1>10. Stream(e)' = Stream(e) \o data /\ \A f \in Ends \ {e} : Stream(f)' = Stream(f)
    BY <1>2, <1>4, <1>5, Written
  <1> QED BY <1>4, <1>6, <1>8, <1>9, <1>10

-------------------------------------------------------------------------------
(* What holds of every socket, whether or not it asks for room.            *)

(* A stream grows at its end and by a whole piece: by a header that takes  *)
(* the mutex, or by a body under it.                                       *)
Appends(e) ==
  \/ Stream(e)' = Stream(e)
  \/ mutex[e] = NoThread /\ mutex'[e] # NoThread /\ Stream(e)' = Stream(e) \o Header
  \/ mutex[e] # NoThread /\ Stream(e)' = Stream(e) \o Body

LEMMA RemainderIsLess ==
  ASSUME NEW m \in Nat, m > 1, NEW i \in Nat
  PROVE  i % m \in 0..m-1
  BY SMTT(30)

(* Asking for room moves no byte.                                          *)
LEMMA RoomAsked ==
  ASSUME TypeOK, Buffered, NEW e \in Ends,
         wbuf' = [wbuf EXCEPT ![e] = AllocateB(@)], UNCHANGED <<chan, heard>>
  PROVE  /\ wbuf' \in [Ends -> Buffers]
         /\ \A f \in Ends : /\ Good(wbuf'[f]) /\ Contents(wbuf'[f]) = Contents(wbuf[f])
                            /\ GetSize(wbuf'[f]) = GetSize(wbuf[f])
                            /\ GetSpace(wbuf'[f]) = GetSpace(wbuf[f])
         /\ \A f \in Ends : Stream(f)' = Stream(f)
  <1> DEFINE c == AllocateB(wbuf[e])
  <1>1. Good(wbuf[e])
    BY DEF Buffered
  <1>2. /\ Good(c) /\ Contents(c) = Contents(wbuf[e])
        /\ GetSize(c) = GetSize(wbuf[e]) /\ GetSpace(c) = GetSpace(wbuf[e])
    BY <1>1, AllocateBIsGood
  <1>3. wbuf' = [wbuf EXCEPT ![e] = c]
    OBVIOUS
  <1> HIDE DEF c
  <1>4. wbuf' \in [Ends -> Buffers]
    BY <1>2, <1>3 DEF Good, TypeOK
  <1>5. \A f \in Ends : /\ Good(wbuf'[f]) /\ Contents(wbuf'[f]) = Contents(wbuf[f])
                        /\ GetSize(wbuf'[f]) = GetSize(wbuf[f])
                        /\ GetSpace(wbuf'[f]) = GetSpace(wbuf[f])
    <2> SUFFICES ASSUME NEW f \in Ends
                 PROVE  /\ Good(wbuf'[f]) /\ Contents(wbuf'[f]) = Contents(wbuf[f])
                        /\ GetSize(wbuf'[f]) = GetSize(wbuf[f])
                        /\ GetSpace(wbuf'[f]) = GetSpace(wbuf[f])
      OBVIOUS
    <2>1. CASE f = e
      <3>1. wbuf'[f] = c
        BY <1>3, <2>1 DEF TypeOK
      <3> QED BY <1>2, <2>1, <3>1
    <2>2. CASE f # e
      <3>1. wbuf'[f] = wbuf[f]
        BY <1>3, <2>2 DEF TypeOK
      <3> QED BY <3>1 DEF Buffered
    <2> QED BY <2>1, <2>2
  <1>6. \A f \in Ends : Stream(f)' = Stream(f)
    BY <1>5 DEF Stream
  <1> QED BY <1>4, <1>5, <1>6

(* A piece is appended whole or not at all.                                *)
LEMMA PieceTried ==
  ASSUME TypeOK, Buffered, NEW e \in Ends, NEW data \in {Header, Body},
         wbuf' = [wbuf EXCEPT ![e] = Write(@, data)], UNCHANGED <<chan, heard>>
  PROVE  /\ wbuf' \in [Ends -> Buffers] /\ Buffered'
         /\ IF Len(data) <= GetSpace(wbuf[e]) THEN Stream(e)' = Stream(e) \o data
                                              ELSE Stream(e)' = Stream(e)
         /\ \A f \in Ends \ {e} : Stream(f)' = Stream(f)
  <1>1. CASE Len(data) <= GetSpace(wbuf[e])
    BY <1>1, PieceWritten
  <1>2. CASE ~(Len(data) <= GetSpace(wbuf[e]))
    <2>1. GetSpace(wbuf[e]) \in Nat /\ Len(data) \in Nat
      BY SpaceIsNumber, PiecesAreChunks, Sizes DEF Buffered
    <2>2. GetSpace(wbuf[e]) < Len(data)
      BY <1>2, <2>1
    <2>3. wbuf' = [wbuf EXCEPT ![e] = AllocateB(wbuf[e])]
      BY <2>2 DEF Write
    <2>4. /\ wbuf' \in [Ends -> Buffers] /\ \A f \in Ends : Good(wbuf'[f])
          /\ \A f \in Ends : Stream(f)' = Stream(f)
      BY <2>3, RoomAsked
    <2> QED BY <1>2, <2>4 DEF Buffered
  <1> QED BY <1>1, <1>2

(* A thread that begins a packet has the mutex.                            *)
LEMMA Begun ==
  ASSUME TypeOK, Owned, NEW t \in Senders, sender[t] = "idle", left[t] > 0,
         mutex[Home[t]] = NoThread,
         mutex' = [mutex EXCEPT ![Home[t]] = t],
         sender' = [sender EXCEPT ![t] = "body"], UNCHANGED left
  PROVE  /\ Owned' /\ mutex' \in [Ends -> Senders \cup {NoThread}]
         /\ sender' \in [Senders -> {"idle", "body", "push"}]
  <1> DEFINE e == Home[t]
  <1>1. e \in Ends /\ t # NoThread
    BY Sizes
  <1>2. ASSUME NEW u \in Senders, sender'[u] # "idle"
        PROVE  mutex'[Home[u]] = u /\ left'[u] > 0
    <2>1. CASE u = t
      BY <1>1, <2>1 DEF TypeOK
    <2>2. CASE u # t
      <3>1. sender[u] # "idle" /\ mutex[Home[u]] = u /\ left'[u] > 0
        BY <1>2, <2>2 DEF Owned, TypeOK
      <3>2. Home[u] # e /\ Home[u] \in Ends
        BY <3>1, Sizes
      <3> QED BY <3>1, <3>2 DEF TypeOK
    <2> QED BY <2>1, <2>2
  <1>3. ASSUME NEW f \in Ends, mutex'[f] # NoThread
        PROVE  Home[mutex'[f]] = f /\ sender'[mutex'[f]] # "idle"
    BY <1>1, <1>3 DEF Owned, TypeOK
  <1>4. Owned'
    BY <1>2, <1>3 DEF Owned
  <1> QED BY <1>1, <1>4 DEF TypeOK

(* BurstEnd frees the mutex of the thread that calls it.                   *)
LEMMA Ended ==
  ASSUME TypeOK, Owned, NEW t \in Senders, BurstEnd(t), left[t] > 0,
         mutex[Home[t]] \in {t, NoThread}
  PROVE  /\ Owned' /\ mutex' \in [Ends -> Senders \cup {NoThread}]
         /\ sender' \in [Senders -> {"idle", "body", "push"}]
         /\ left' \in [Senders -> 0..MaxPackets]
  <1> DEFINE e == Home[t]
  <1>1. /\ mutex' = [mutex EXCEPT ![e] = NoThread]
        /\ sender' = [sender EXCEPT ![t] = "idle"]
        /\ left' = [left EXCEPT ![t] = left[t] - 1]
    BY DEF BurstEnd
  <1>2. e \in Ends /\ t # NoThread
    BY Sizes
  <1>3. left[t] \in 0..MaxPackets /\ left[t] - 1 \in 0..MaxPackets
    BY Sizes DEF TypeOK
  <1> HIDE DEF e
  <1>4. ASSUME NEW u \in Senders, sender'[u] # "idle"
        PROVE  mutex'[Home[u]] = u /\ left'[u] > 0
    <2>1. u # t /\ sender[u] # "idle"
      BY <1>1, <1>4 DEF TypeOK
    <2>2. mutex[Home[u]] = u /\ left[u] > 0 /\ left'[u] = left[u]
      BY <1>1, <2>1 DEF Owned, TypeOK
    <2>3. Home[u] # e /\ Home[u] \in Ends
      BY <2>1, <2>2, Sizes DEF e
    <2> QED BY <1>1, <2>2, <2>3 DEF TypeOK
  <1>5. ASSUME NEW f \in Ends, mutex'[f] # NoThread
        PROVE  Home[mutex'[f]] = f /\ sender'[mutex'[f]] # "idle"
    <2>1. f # e /\ mutex'[f] = mutex[f]
      BY <1>1, <1>2, <1>5 DEF TypeOK
    <2>2. Home[mutex[f]] = f /\ sender[mutex[f]] # "idle" /\ mutex[f] \in Senders
      BY <1>5, <2>1 DEF Owned, TypeOK
    <2>3. mutex[f] # t
      BY <2>1, <2>2 DEF e
    <2> QED BY <1>1, <2>1, <2>2, <2>3 DEF TypeOK
  <1>6. Owned'
    BY <1>4, <1>5 DEF Owned
  <1> QED BY <1>1, <1>2, <1>3, <1>6 DEF TypeOK

(* What a sender does to any socket, with room for its piece or without.   *)
LEMMA SendersKeepPlain ==
  ASSUME Plain, NEW t \in Senders, Sender(t)
  PROVE  Plain' /\ \A f \in Ends : Appends(f)
  <1> DEFINE e == Home[t]
  <1>1. TypeOK /\ Buffered /\ Owned
    BY DEF Plain
  <1>2. e \in Ends /\ t # NoThread
    BY Sizes
  <1>3. CASE NoRoomInBuffer(t)
    <2>1. /\ wbuf' = [wbuf EXCEPT ![e] = AllocateB(@)]
          /\ UNCHANGED <<mutex, writeLock, armed, ready, noSpace, chan, heard, worker, sender, left>>
      BY <1>3 DEF NoRoomInBuffer, kernel
    <2>2. /\ wbuf' \in [Ends -> Buffers] /\ \A f \in Ends : Good(wbuf'[f])
          /\ \A f \in Ends : Stream(f)' = Stream(f)
      BY <1>1, <1>2, <2>1, RoomAsked
    <2>3. TypeOK' /\ Buffered' /\ Owned'
      BY <1>1, <2>1, <2>2 DEF TypeOK, Buffered, Owned
    <2> QED BY <2>2, <2>3 DEF Plain, Appends
  <1>4. CASE SendHeader(t)
    <2>1. /\ sender[t] = "idle" /\ left[t] > 0 /\ mutex[e] = NoThread
          /\ wbuf' = [wbuf EXCEPT ![e] = Write(@, Header)]
          /\ UNCHANGED <<writeLock, armed, ready, noSpace, chan, heard, worker>>
      BY <1>4 DEF SendHeader, kernel
    <2>2. /\ wbuf' \in [Ends -> Buffers] /\ Buffered'
          /\ IF Len(Header) <= GetSpace(wbuf[e]) THEN Stream(e)' = Stream(e) \o Header
                                                 ELSE Stream(e)' = Stream(e)
          /\ \A f \in Ends \ {e} : Stream(f)' = Stream(f)
      BY <1>1, <1>2, <2>1, PieceTried
    <2>3. Len(Header) = 1 /\ GetSpace(wbuf[e]) \in Nat
      BY <1>1, <1>2, SpaceIsNumber, PiecesAreChunks, Sizes DEF Buffered
    <2>4. CASE GetSpace(wbuf[e]) >= 1
      <3>1. /\ mutex' = [mutex EXCEPT ![e] = t]
            /\ sender' = [sender EXCEPT ![t] = "body"] /\ left' = left
        BY <1>4, <2>4 DEF SendHeader
      <3>2. /\ Owned' /\ mutex' \in [Ends -> Senders \cup {NoThread}]
            /\ sender' \in [Senders -> {"idle", "body", "push"}]
        BY <1>1, <2>1, <3>1, Begun
      <3>3. TypeOK'
        BY <1>1, <2>1, <2>2, <3>1, <3>2 DEF TypeOK
      <3>4. mutex'[e] # NoThread /\ Stream(e)' = Stream(e) \o Header
        BY <1>1, <1>2, <2>2, <2>3, <2>4, <3>1 DEF TypeOK
      <3>5. \A f \in Ends : Appends(f)
        BY <2>1, <2>2, <3>4 DEF Appends
      <3> QED BY <2>2, <3>2, <3>3, <3>5 DEF Plain
    <2>5. CASE ~(GetSpace(wbuf[e]) >= 1)
      <3>1. BurstEnd(t)
        BY <1>4, <2>5 DEF SendHeader
      <3>2. /\ Owned' /\ mutex' \in [Ends -> Senders \cup {NoThread}]
            /\ sender' \in [Senders -> {"idle", "body", "push"}]
            /\ left' \in [Senders -> 0..MaxPackets]
        BY <1>1, <2>1, <3>1, Ended
      <3>3. TypeOK'
        BY <1>1, <2>1, <2>2, <3>2 DEF TypeOK
      <3>4. \A f \in Ends : Appends(f)
        BY <2>2, <2>3, <2>5 DEF Appends
      <3> QED BY <2>2, <3>2, <3>3, <3>4 DEF Plain
    <2> QED BY <2>4, <2>5
  <1>5. CASE SendBody(t)
    <2>1. /\ sender[t] = "body" /\ mutex[e] = t /\ left[t] > 0
          /\ wbuf' = [wbuf EXCEPT ![e] = Write(@, Body)]
          /\ UNCHANGED <<writeLock, armed, ready, noSpace, chan, heard, worker>>
      BY <1>1, <1>5 DEF SendBody, kernel, Owned
    <2>2. /\ wbuf' \in [Ends -> Buffers] /\ Buffered'
          /\ Stream(e)' = Stream(e) \/ Stream(e)' = Stream(e) \o Body
          /\ \A f \in Ends \ {e} : Stream(f)' = Stream(f)
      BY <1>1, <1>2, <2>1, PieceTried
    <2>3. \A f \in Ends : Appends(f)
      BY <1>2, <2>1, <2>2 DEF Appends
    <2>4. CASE GetSpace(wbuf[e]) >= BodySize
      <3>1. sender' = [sender EXCEPT ![t] = "push"] /\ mutex' = mutex /\ left' = left
        BY <1>5, <2>4 DEF SendBody
      <3>2. Owned' /\ sender' \in [Senders -> {"idle", "body", "push"}]
        BY <1>1, <1>2, <2>1, <3>1 DEF Owned, TypeOK
      <3>3. TypeOK'
        BY <1>1, <2>1, <2>2, <3>1, <3>2 DEF TypeOK
      <3> QED BY <2>2, <2>3, <3>2, <3>3 DEF Plain
    <2>5. CASE ~(GetSpace(wbuf[e]) >= BodySize)
      <3>1. BurstEnd(t)
        BY <1>5, <2>5 DEF SendBody
      <3>2. /\ Owned' /\ mutex' \in [Ends -> Senders \cup {NoThread}]
            /\ sender' \in [Senders -> {"idle", "body", "push"}]
            /\ left' \in [Senders -> 0..MaxPackets]
        BY <1>1, <2>1, <3>1, Ended
      <3>3. TypeOK'
        BY <1>1, <2>1, <2>2, <3>2 DEF TypeOK
      <3> QED BY <2>2, <2>3, <3>2, <3>3 DEF Plain
    <2> QED BY <2>4, <2>5
  <1>6. CASE BurstPush(t)
    <2>1. /\ sender[t] = "push" /\ mutex[e] = t /\ left[t] > 0 /\ BurstEnd(t)
          /\ UNCHANGED <<wbuf, chan, heard, worker>>
      BY <1>1, <1>6 DEF BurstPush, Owned
    <2>2. /\ writeLock' \in [Ends -> 0..LockModulus-1]
          /\ armed' \in [Ends -> {"IN", "OUT"}]
          /\ ready' \in [Ends -> BOOLEAN] /\ noSpace' \in [Ends -> BOOLEAN]
      <3>1. 1 \in 0..LockModulus-1
        BY Sizes
      <3>2. CASE writeLock[e] = 0
        <4>1. writeLock' = [writeLock EXCEPT ![e] = 1] /\ PostOut(e)
          BY <1>6, <3>2 DEF BurstPush
        <4> QED BY <1>1, <1>2, <3>1, <4>1 DEF PostOut, TypeOK
      <3>3. CASE writeLock[e] # 0
        <4>1. UNCHANGED <<writeLock, armed, ready, noSpace>>
          BY <1>6, <3>3 DEF BurstPush, kernel
        <4> QED BY <1>1, <4>1 DEF TypeOK
      <3> QED BY <3>2, <3>3
    <2>3. /\ Owned' /\ mutex' \in [Ends -> Senders \cup {NoThread}]
          /\ sender' \in [Senders -> {"idle", "body", "push"}]
          /\ left' \in [Senders -> 0..MaxPackets]
      BY <1>1, <2>1, Ended
    <2>4. TypeOK'
      BY <1>1, <2>1, <2>2, <2>3 DEF TypeOK
    <2>5. Buffered' /\ \A f \in Ends : Appends(f)
      BY <1>1, <2>1 DEF Buffered, Appends, Stream
    <2> QED BY <2>3, <2>4, <2>5 DEF Plain
  <1> QED BY <1>3, <1>4, <1>5, <1>6 DEF Sender

(* The kernel has room for what one send gives it.                         *)
LEMMA SentFits ==
  ASSUME TypeOK, Buffered, NEW e \in Ends
  PROVE  LET n == Lesser(GetContiguiousBytes(wbuf[e]), Room(e))
         IN  /\ n \in 0..Capacity /\ n <= GetContiguiousBytes(wbuf[e])
             /\ Len(chan[Peer(e)]) \in Nat /\ Len(chan[Peer(e)]) + n <= KernelRoom
  <1>1. Peer(e) \in Ends
    BY PeerIsOther
  <1>2. Len(chan[Peer(e)]) \in Nat /\ Len(chan[Peer(e)]) <= KernelRoom
    BY <1>1 DEF TypeOK
  <1>3. Room(e) \in Nat /\ Len(chan[Peer(e)]) + Room(e) = KernelRoom
    BY <1>2, Sizes DEF Room
  <1>4. GetContiguiousBytes(wbuf[e]) \in 0..Capacity
    BY Fields DEF Buffered, Good, GetContiguiousBytes
  <1> QED BY <1>2, <1>3, <1>4, Sizes DEF Lesser

(* What a worker thread does to any socket: no stream changes.             *)
LEMMA WorkersKeepPlain ==
  ASSUME Plain, NEW e \in Ends, Worker(e)
  PROVE  Plain' /\ \A f \in Ends : Stream(f)' = Stream(f)
  <1>1. TypeOK /\ Buffered /\ Owned
    BY DEF Plain
  <1>2. UNCHANGED <<mutex, sender, left>>
    BY DEF Worker, EpollWait, ReadCallback, InspectWritten, PostWritten, WriteCallback
  <1>3. Owned'
    BY <1>1, <1>2 DEF Owned
  <1>4. CASE EpollWait(e)
    <2>1. UNCHANGED <<wbuf, chan, heard>>
      BY <1>4 DEF EpollWait
    <2>2. Buffered' /\ \A f \in Ends : Stream(f)' = Stream(f)
      BY <1>1, <2>1 DEF Buffered, Stream
    <2>3. TypeOK'
      BY <1>1, <1>4 DEF EpollWait, TypeOK
    <2> QED BY <1>3, <2>2, <2>3 DEF Plain
  <1>5. CASE ReadCallback(e)
    <2> DEFINE n == Lesser(Len(chan[e]), ReadRoom)
    <2>1. Len(chan[e]) \in Nat /\ Len(chan[e]) <= KernelRoom
      BY <1>1 DEF TypeOK
    <2>2. n \in 0..Len(chan[e])
      BY <2>1, Sizes DEF Lesser
    <2>3. /\ chan' = [chan EXCEPT ![e] = SubSeq(@, n + 1, Len(@))]
          /\ heard' = [heard EXCEPT ![e] = @ \o SubSeq(chan[e], 1, n)]
          /\ worker' = [worker EXCEPT ![e] = "inspect"]
          /\ UNCHANGED <<wbuf, mutex, writeLock, armed, sender, left>>
      BY <1>5 DEF ReadCallback
    <2>4. ready' \in [Ends -> BOOLEAN] /\ noSpace' \in [Ends -> BOOLEAN]
      BY <1>1, <1>5, PeerIsOther DEF ReadCallback, TypeOK
    <2> HIDE DEF n
    <2>5. /\ chan'[e] \in Seq(Byte) /\ Len(chan'[e]) = Len(chan[e]) - n /\ heard'[e] \in Seq(Byte)
          /\ \A f \in Ends : Stream(f)' = Stream(f)
      BY <1>1, <2>2, <2>3, ReadKeepsStreams
    <2>6. chan' \in [Ends -> Seq(Byte)] /\ heard' \in [Ends -> Seq(Byte)]
      BY <1>1, <2>3, <2>5 DEF TypeOK
    <2>7. \A f \in Ends : Len(chan'[f]) <= KernelRoom
      <3> SUFFICES ASSUME NEW f \in Ends
                   PROVE  Len(chan'[f]) <= KernelRoom
        OBVIOUS
      <3>1. CASE f = e
        BY <2>1, <2>2, <2>5, <3>1, Sizes
      <3>2. CASE f # e
        BY <1>1, <2>3, <3>2 DEF TypeOK
      <3> QED BY <3>1, <3>2
    <2>8. TypeOK' /\ Buffered'
      BY <1>1, <2>3, <2>4, <2>6, <2>7 DEF TypeOK, Buffered
    <2> QED BY <1>3, <2>5, <2>8 DEF Plain
  <1>6. CASE InspectWritten(e)
    <2>1. UNCHANGED <<wbuf, chan, heard>>
      BY <1>6 DEF InspectWritten
    <2>2. Buffered' /\ \A f \in Ends : Stream(f)' = Stream(f)
      BY <1>1, <2>1 DEF Buffered, Stream
    <2>3. /\ worker' \in [Ends -> {"wait", "read", "inspect", "post", "write"}]
          /\ UNCHANGED <<mutex, writeLock, armed, ready, noSpace, sender, left>>
      BY <1>1, <1>6 DEF InspectWritten, kernel, TypeOK
    <2>4. TypeOK'
      BY <1>1, <2>1, <2>3 DEF TypeOK
    <2> QED BY <1>3, <2>2, <2>4 DEF Plain
  <1>7. CASE PostWritten(e)
    <2>1. UNCHANGED <<wbuf, chan, heard>>
      BY <1>7 DEF PostWritten
    <2>2. Buffered' /\ \A f \in Ends : Stream(f)' = Stream(f)
      BY <1>1, <2>1 DEF Buffered, Stream
    <2>3. TypeOK'
      BY <1>1, <1>7 DEF PostWritten, PostOut, TypeOK
    <2> QED BY <1>3, <2>2, <2>3 DEF Plain
  <1>8. CASE WriteCallback(e)
    <2> DEFINE n == Lesser(GetContiguiousBytes(wbuf[e]), Room(e))
               b == Remove(wbuf[e], n)
    <2>1. /\ wbuf' = [wbuf EXCEPT ![e] = b]
          /\ chan' = [chan EXCEPT ![Peer(e)] = @ \o Oldest(wbuf[e], n)]
          /\ worker' = [worker EXCEPT ![e] = "wait"]
          /\ UNCHANGED <<mutex, heard, sender, left>>
      BY <1>8 DEF WriteCallback
    <2>2. writeLock' \in [Ends -> 0..LockModulus-1] /\ armed' \in [Ends -> {"IN", "OUT"}]
      <3> DEFINE w == writeLock[e] + LockModulus - 1
                 less == w % LockModulus
      <3>1. writeLock[e] \in Nat /\ LockModulus \in Nat /\ LockModulus > 2
        BY <1>1, Sizes DEF TypeOK
      <3>2. w \in Nat
        BY <3>1
      <3>3. \/ writeLock' = [writeLock EXCEPT ![e] = less] /\ armed' = [armed EXCEPT ![e] = "IN"]
            \/ writeLock' = writeLock /\ armed' = armed
        BY <1>8 DEF WriteCallback
      <3> HIDE DEF w
      <3>4. less \in 0..LockModulus-1
        BY <3>1, <3>2, RemainderIsLess
      <3> HIDE DEF less
      <3>5. writeLock' \in [Ends -> 0..LockModulus-1]
        BY <1>1, <3>3, <3>4 DEF TypeOK
      <3>6. armed' \in [Ends -> {"IN", "OUT"}]
        BY <1>1, <3>3 DEF TypeOK
      <3> QED BY <3>5, <3>6
    <2>3. ready' \in [Ends -> BOOLEAN] /\ noSpace' \in [Ends -> BOOLEAN]
      <3>1. ready \in [Ends -> BOOLEAN] /\ noSpace \in [Ends -> BOOLEAN]
        BY <1>1 DEF TypeOK
      <3> DEFINE arrives == n > 0 /\ armed[Peer(e)] = "IN"
                 part == n < GetContiguiousBytes(wbuf[e])
      <3>2. arrives \in BOOLEAN /\ part \in BOOLEAN
        OBVIOUS
      <3>3. \/ /\ ready' = [ready EXCEPT ![e] = chan[e] # <<>>, ![Peer(e)] = @ \/ arrives]
               /\ noSpace' = [noSpace EXCEPT ![e] = FALSE]
            \/ /\ ready' = [ready EXCEPT ![Peer(e)] = @ \/ arrives]
               /\ noSpace' = [noSpace EXCEPT ![e] = part]
        BY <1>8 DEF WriteCallback
      <3> HIDE DEF arrives, part
      <3> QED BY <3>1, <3>2, <3>3
    <2>4. /\ n \in 0..Capacity /\ n <= GetContiguiousBytes(wbuf[e])
          /\ Len(chan[Peer(e)]) \in Nat /\ Len(chan[Peer(e)]) + n <= KernelRoom
      BY <1>1, SentFits
    <2>5. b = Remove(wbuf[e], n)
      OBVIOUS
    <2> HIDE DEF n, b
    <2>6. /\ Good(wbuf'[e])
          /\ chan'[Peer(e)] \in Seq(Byte) /\ Len(chan'[Peer(e)]) = Len(chan[Peer(e)]) + n
          /\ \A f \in Ends : Stream(f)' = Stream(f)
      BY <1>1, <2>1, <2>4, <2>5, SendKeepsStreams
    <2>7. wbuf'[e] = b /\ \A f \in Ends \ {e} : wbuf'[f] = wbuf[f]
      BY <1>1, <2>1 DEF TypeOK
    <2>8. chan' \in [Ends -> Seq(Byte)]
      BY <1>1, <2>1, <2>6, PeerIsOther DEF TypeOK
    <2>9. \A f \in Ends : Len(chan'[f]) <= KernelRoom
      <3> SUFFICES ASSUME NEW f \in Ends
                   PROVE  Len(chan'[f]) <= KernelRoom
        OBVIOUS
      <3>1. CASE f = Peer(e)
        BY <2>4, <2>6, <3>1
      <3>2. CASE f # Peer(e)
        BY <1>1, <2>1, <3>2 DEF TypeOK
      <3> QED BY <3>1, <3>2
    <2>10. wbuf' \in [Ends -> Buffers]
      BY <1>1, <2>1, <2>6, <2>7 DEF TypeOK, Good
    <2>11. TypeOK'
      BY <1>1, <2>1, <2>2, <2>3, <2>8, <2>9, <2>10 DEF TypeOK
    <2>12. Buffered'
      BY <1>1, <2>6, <2>7 DEF Buffered
    <2> QED BY <1>3, <2>6, <2>11, <2>12 DEF Plain
  <1> QED BY <1>4, <1>5, <1>6, <1>7, <1>8 DEF Worker

LEMMA StepPlain ==
  ASSUME Plain, [Next]_vars
  PROVE  Plain' /\ \A f \in Ends : Appends(f)
  <1>1. ASSUME NEW e \in Ends, Worker(e)
        PROVE  Plain' /\ \A f \in Ends : Appends(f)
    BY <1>1, WorkersKeepPlain DEF Appends
  <1>2. ASSUME NEW t \in Senders, Sender(t)
        PROVE  Plain' /\ \A f \in Ends : Appends(f)
    BY <1>2, SendersKeepPlain
  <1>3. CASE UNCHANGED vars
    BY <1>3 DEF vars, Plain, TypeOK, Buffered, Owned, Appends, Stream
  <1> QED BY <1>1, <1>2, <1>3 DEF Next

-------------------------------------------------------------------------------
(* The sending threads.                                                    *)

(* Asking for room is harmless.                                            *)
LEMMA NoRoomStep ==
  ASSUME IInv, NEW t \in Senders, NoRoomInBuffer(t)
  PROVE  IInv'
  <1>1. Plain /\ Locked /\ Roomy /\ Whole
    BY DEF IInv
  <1>2. Home[t] \in Ends
    BY Sizes
  <1>3. /\ wbuf' = [wbuf EXCEPT ![Home[t]] = AllocateB(@)]
        /\ UNCHANGED <<mutex, writeLock, armed, ready, noSpace, chan, heard, worker, sender, left>>
    BY DEF NoRoomInBuffer, kernel
  <1>4. /\ \A f \in Ends : /\ GetSize(wbuf'[f]) = GetSize(wbuf[f])
                            /\ GetSpace(wbuf'[f]) = GetSpace(wbuf[f])
        /\ \A f \in Ends : Stream(f)' = Stream(f)
    BY <1>1, <1>2, <1>3, RoomAsked DEF Plain
  <1>5. Plain'
    BY <1>1, SendersKeepPlain DEF Sender
  <1>6. Locked'
    BY <1>1, <1>3, <1>4 DEF Locked
  <1>7. Roomy'
    BY <1>1, <1>3, <1>4, Sizes DEF Roomy
  <1>8. Whole'
    <2>1. \A f \in Ends : Rest(f)' = Rest(f)
      BY <1>3 DEF Rest
    <2> QED BY <1>1, <1>4, <2>1 DEF Whole, Framed
  <1> QED BY <1>5, <1>6, <1>7, <1>8 DEF IInv

(* A packet begins only when its body fits, too, and takes the mutex.      *)
LEMMA SendHeaderStep ==
  ASSUME IInv, ChecksSpace, NEW t \in Senders, SendHeader(t)
  PROVE  IInv'
  <1> DEFINE e == Home[t]
  <1>1. TypeOK /\ Buffered /\ Owned /\ Locked /\ Roomy /\ Whole
    BY DEF IInv, Plain
  <1>2. e \in Ends /\ t # NoThread
    BY Sizes
  <1>3. /\ sender[t] = "idle" /\ left[t] > 0 /\ mutex[e] = NoThread
        /\ GetSpace(wbuf[e]) >= 1 + BodySize
        /\ wbuf' = [wbuf EXCEPT ![e] = Write(@, Header)]
        /\ UNCHANGED <<writeLock, armed, ready, noSpace, chan, heard, worker>>
    BY DEF SendHeader, kernel
  <1>4. GetSpace(wbuf[e]) \in Nat
    BY <1>1, <1>2, SpaceIsNumber, Sizes DEF Buffered
  <1>5. /\ mutex' = [mutex EXCEPT ![e] = t]
        /\ sender' = [sender EXCEPT ![t] = "body"]
        /\ left' = left
    <2>1. GetSpace(wbuf[e]) >= 1
      BY <1>3, <1>4, Sizes
    <2> QED BY <2>1 DEF SendHeader
  <1>6. /\ wbuf' \in [Ends -> Buffers] /\ Buffered'
        /\ GetSpace(wbuf[e])' >= GetSpace(wbuf[e]) - 1
        /\ Stream(e)' = Stream(e) \o Header
        /\ \A f \in Ends \ {e} : wbuf'[f] = wbuf[f] /\ Stream(f)' = Stream(f)
    <2>1. Len(Header) = 1 /\ Len(Header) <= GetSpace(wbuf[e])
      BY <1>3, <1>4, PiecesAreChunks, Sizes
    <2> QED BY <1>1, <1>2, <1>3, <2>1, PieceWritten
  <1>7. GetSpace(wbuf[e])' >= BodySize
    <2>1. GetSpace(wbuf[e])' \in Nat
      BY <1>2, <1>6, SpaceIsNumber, Sizes DEF Buffered
    <2> HIDE DEF e
    <2> QED BY <1>3, <1>4, <1>6, <2>1, Sizes
  <1>8. Plain'
    BY SendersKeepPlain DEF IInv, Sender
  <1>10. Locked'
    BY <1>1, <1>2, <1>3, <1>5, <1>6 DEF Locked, TypeOK
  <1>11. Roomy'
    <2> SUFFICES ASSUME NEW u \in Senders, sender'[u] = "body"
                 PROVE  GetSpace(wbuf[Home[u]])' >= BodySize
      BY DEF Roomy
    <2>1. CASE u = t
      BY <1>7, <2>1
    <2>2. CASE u # t
      <3>1. sender[u] = "body"
        BY <1>1, <1>5, <2>2 DEF TypeOK
      <3>2. Home[u] \in Ends \ {e}
        BY <1>1, <1>3, <3>1, Sizes DEF Owned
      <3> QED BY <1>1, <1>6, <3>1, <3>2 DEF Roomy
    <2> QED BY <2>1, <2>2
  <1>12. Whole'
    <2> SUFFICES ASSUME NEW f \in Ends
                 PROVE  Framed(Stream(f), Rest(f))'
      BY DEF Whole
    <2>1. CASE f = e
      <3>1. Rest(e) = 0 /\ Rest(e)' = 1
        BY <1>1, <1>2, <1>3, <1>5 DEF Rest, TypeOK
      <3>2. Framed(Stream(e), 0)
        BY <1>1, <1>2, <3>1 DEF Whole
      <3>3. Framed(Stream(e) \o Header, 1)
        BY <1>1, <1>2, <3>2, HeaderBegins, StreamParts
      <3>4. Framed(Stream(e)', Rest(e)')
        BY <1>6, <3>1, <3>3
      <3> QED BY <2>1, <3>4 DEF Framed
    <2>2. CASE f # e
      <3>1. Rest(f)' = Rest(f)
        BY <1>1, <1>5, <2>2 DEF Rest, Owned, TypeOK
      <3>2. Stream(f)' = Stream(f)
        BY <1>6, <2>2
      <3> QED BY <1>1, <3>1, <3>2 DEF Whole, Framed
    <2> QED BY <2>1, <2>2
  <1> QED BY <1>8, <1>10, <1>11, <1>12 DEF IInv

(* The room that was asked for is there, so that the body goes in.         *)
LEMMA SendBodyStep ==
  ASSUME IInv, NEW t \in Senders, SendBody(t)
  PROVE  IInv'
  <1> DEFINE e == Home[t]
  <1>1. TypeOK /\ Buffered /\ Owned /\ Locked /\ Roomy /\ Whole
    BY DEF IInv, Plain
  <1>2. e \in Ends /\ t # NoThread
    BY Sizes
  <1>3. /\ sender[t] = "body" /\ mutex[e] = t /\ left[t] > 0
        /\ GetSpace(wbuf[e]) >= BodySize
        /\ wbuf' = [wbuf EXCEPT ![e] = Write(@, Body)]
        /\ UNCHANGED <<writeLock, armed, ready, noSpace, chan, heard, worker>>
    BY <1>1 DEF SendBody, kernel, Owned, Roomy
  <1>4. GetSpace(wbuf[e]) \in Nat
    BY <1>1, <1>2, SpaceIsNumber, Sizes DEF Buffered
  <1>5. sender' = [sender EXCEPT ![t] = "push"] /\ mutex' = mutex /\ left' = left
    BY <1>3 DEF SendBody
  <1>6. /\ wbuf' \in [Ends -> Buffers] /\ Buffered'
        /\ Stream(e)' = Stream(e) \o Body
        /\ \A f \in Ends \ {e} : wbuf'[f] = wbuf[f] /\ Stream(f)' = Stream(f)
    <2>1. Len(Body) = BodySize /\ Len(Body) <= GetSpace(wbuf[e])
      BY <1>3, <1>4, PiecesAreChunks, Sizes
    <2> QED BY <1>1, <1>2, <1>3, <2>1, PieceWritten
  <1>7. Plain'
    BY SendersKeepPlain DEF IInv, Sender
  <1>9. Locked'
    BY <1>1, <1>2, <1>3, <1>5, <1>6 DEF Locked, TypeOK
  <1>10. Roomy'
    <2> SUFFICES ASSUME NEW u \in Senders, sender'[u] = "body"
                 PROVE  GetSpace(wbuf[Home[u]])' >= BodySize
      BY DEF Roomy
    <2>1. u # t /\ sender[u] = "body"
      BY <1>1, <1>5 DEF TypeOK
    <2>2. Home[u] \in Ends \ {e}
      BY <1>1, <1>3, <2>1, Sizes DEF Owned
    <2> QED BY <1>1, <1>6, <2>1, <2>2 DEF Roomy
  <1>11. Whole'
    <2> SUFFICES ASSUME NEW f \in Ends
                 PROVE  Framed(Stream(f), Rest(f))'
      BY DEF Whole
    <2>1. CASE f = e
      <3>1. Rest(e) = 1 /\ Rest(e)' = 0
        BY <1>1, <1>2, <1>3, <1>5 DEF Rest, TypeOK
      <3>2. Framed(Stream(e), 1)
        BY <1>1, <1>2, <3>1 DEF Whole
      <3>3. Framed(Stream(e) \o Body, 0)
        BY <1>1, <1>2, <3>2, BodyEnds, StreamParts
      <3>4. Framed(Stream(e)', Rest(e)')
        BY <1>6, <3>1, <3>3
      <3> QED BY <2>1, <3>4 DEF Framed
    <2>2. CASE f # e
      <3>1. Rest(f)' = Rest(f)
        BY <1>1, <1>5, <2>2 DEF Rest, Owned, TypeOK
      <3>2. Stream(f)' = Stream(f)
        BY <1>6, <2>2
      <3> QED BY <1>1, <3>1, <3>2 DEF Whole, Framed
    <2> QED BY <2>1, <2>2
  <1> QED BY <1>7, <1>9, <1>10, <1>11 DEF IInv

(* The mutex is given up with the send lock taken.                         *)
LEMMA BurstPushStep ==
  ASSUME IInv, NEW t \in Senders, BurstPush(t)
  PROVE  IInv'
  <1> DEFINE e == Home[t]
  <1>1. TypeOK /\ Buffered /\ Owned /\ Locked /\ Roomy /\ Whole
    BY DEF IInv, Plain
  <1>2. e \in Ends /\ t # NoThread
    BY Sizes
  <1>3. /\ sender[t] = "push" /\ mutex[e] = t /\ left[t] > 0 /\ left[t] \in 0..MaxPackets
        /\ mutex' = [mutex EXCEPT ![e] = NoThread]
        /\ sender' = [sender EXCEPT ![t] = "idle"]
        /\ left' = [left EXCEPT ![t] = @ - 1]
        /\ UNCHANGED <<wbuf, chan, heard, worker>>
    BY <1>1 DEF BurstPush, BurstEnd, Owned, TypeOK
  <1>4. /\ writeLock' \in [Ends -> 0..LockModulus-1]
        /\ writeLock'[e] = 1 /\ armed'[e] = "OUT"
        /\ \A f \in Ends \ {e} : writeLock'[f] = writeLock[f] /\ armed'[f] = armed[f]
        /\ armed' \in [Ends -> {"IN", "OUT"}]
        /\ ready' \in [Ends -> BOOLEAN] /\ noSpace' \in [Ends -> BOOLEAN]
    <2>1. CASE writeLock[e] = 0
      <3>1. writeLock' = [writeLock EXCEPT ![e] = 1] /\ PostOut(e)
        BY <2>1 DEF BurstPush
      <3>2. 1 \in 0..LockModulus-1
        BY Sizes
      <3> QED BY <1>1, <1>2, <3>1, <3>2 DEF PostOut, TypeOK
    <2>2. CASE writeLock[e] # 0
      <3>1. UNCHANGED <<writeLock, armed, ready, noSpace>>
        BY <2>2 DEF BurstPush, kernel
      <3>2. writeLock[e] = 1 /\ armed[e] = "OUT"
        BY <1>1, <1>2, <2>2 DEF Locked
      <3> QED BY <1>1, <3>1, <3>2 DEF TypeOK
    <2> QED BY <2>1, <2>2
  <1>5. Plain'
    BY SendersKeepPlain DEF IInv, Sender
  <1>8. Locked'
    BY <1>1, <1>2, <1>3, <1>4 DEF Locked, TypeOK
  <1>9. Roomy'
    BY <1>1, <1>3 DEF Roomy, TypeOK
  <1>10. Whole'
    <2> SUFFICES ASSUME NEW f \in Ends
                 PROVE  Rest(f)' = Rest(f) /\ Stream(f)' = Stream(f)
      BY <1>1 DEF Whole, Framed
    <2>1. Stream(f)' = Stream(f)
      BY <1>3 DEF Stream
    <2>2. CASE f = e
      BY <1>1, <1>2, <1>3, <2>1, <2>2 DEF Rest, TypeOK
    <2>3. CASE f # e
      BY <1>1, <1>3, <2>1, <2>3 DEF Rest, Owned, TypeOK
    <2> QED BY <2>1, <2>2, <2>3
  <1> QED BY <1>5, <1>8, <1>9, <1>10 DEF IInv

-------------------------------------------------------------------------------
(* The worker threads.                                                     *)

(* A worker's step that does not write keeps what is said of packets.      *)
LEMMA SendersUntouched ==
  ASSUME IInv, NEW e \in Ends, Worker(e), UNCHANGED wbuf
  PROVE  Plain' /\ Roomy' /\ Whole'
  <1>1. Plain /\ Roomy /\ Whole
    BY DEF IInv
  <1>2. Plain' /\ \A f \in Ends : Stream(f)' = Stream(f)
    BY <1>1, WorkersKeepPlain
  <1>3. UNCHANGED <<mutex, sender>>
    BY DEF Worker, EpollWait, ReadCallback, InspectWritten, PostWritten, WriteCallback
  <1>4. Roomy' /\ \A f \in Ends : Rest(f)' = Rest(f)
    BY <1>1, <1>3 DEF Roomy, Rest
  <1>5. Whole'
    BY <1>1, <1>2, <1>4 DEF Whole, Framed
  <1> QED BY <1>2, <1>4, <1>5

LEMMA EpollWaitStep ==
  ASSUME IInv, NEW e \in Ends, EpollWait(e)
  PROVE  IInv'
  <1>1. TypeOK /\ Locked
    BY DEF IInv, Plain
  <1>2. Locked'
    BY <1>1 DEF EpollWait, Locked, TypeOK
  <1>3. Plain' /\ Roomy' /\ Whole'
    BY SendersUntouched DEF Worker, EpollWait
  <1> QED BY <1>2, <1>3 DEF IInv

LEMMA ReadCallbackStep ==
  ASSUME IInv, NEW e \in Ends, ReadCallback(e)
  PROVE  IInv'
  <1>1. TypeOK /\ Locked
    BY DEF IInv, Plain
  <1>2. /\ worker' = [worker EXCEPT ![e] = "inspect"]
        /\ UNCHANGED <<wbuf, mutex, writeLock, armed>>
    BY DEF ReadCallback
  <1>3. Locked'
    BY <1>1, <1>2 DEF Locked, TypeOK
  <1>4. Plain' /\ Roomy' /\ Whole'
    BY <1>2, SendersUntouched DEF Worker
  <1> QED BY <1>3, <1>4 DEF IInv

(* Bytes that nobody has the send lock for belong to a packet under way.   *)
LEMMA InspectWrittenStep ==
  ASSUME IInv, NEW e \in Ends, InspectWritten(e)
  PROVE  IInv'
  <1>1. TypeOK /\ Locked
    BY DEF IInv, Plain
  <1>2. /\ worker' = [worker EXCEPT ![e] =
                        IF GetSize(wbuf[e]) > 0 /\ writeLock[e] = 0 THEN "post" ELSE "wait"]
        /\ UNCHANGED <<wbuf, mutex, writeLock, armed>>
    BY DEF InspectWritten, kernel
  <1>3. Locked'
    BY <1>1, <1>2 DEF Locked, TypeOK
  <1>4. Plain' /\ Roomy' /\ Whole'
    BY <1>2, SendersUntouched DEF Worker
  <1> QED BY <1>3, <1>4 DEF IInv

LEMMA PostWrittenStep ==
  ASSUME IInv, NEW e \in Ends, PostWritten(e)
  PROVE  IInv'
  <1>1. TypeOK /\ Locked
    BY DEF IInv, Plain
  <1>2. /\ worker[e] = "post" /\ worker' = [worker EXCEPT ![e] = "wait"]
        /\ armed' = [armed EXCEPT ![e] = "OUT"]
        /\ UNCHANGED <<wbuf, mutex, writeLock>>
    BY DEF PostWritten, PostOut
  <1>3. Locked'
    BY <1>1, <1>2 DEF Locked, TypeOK
  <1>4. Plain' /\ Roomy' /\ Whole'
    BY <1>2, SendersUntouched DEF Worker
  <1> QED BY <1>3, <1>4 DEF IInv

(* The send lock goes back from one to zero, with the buffer empty.        *)
LEMMA WriteCallbackStep ==
  ASSUME IInv, NEW e \in Ends, WriteCallback(e)
  PROVE  IInv'
  <1> DEFINE n == Lesser(GetContiguiousBytes(wbuf[e]), Room(e))
             b == Remove(wbuf[e], n)
  <1>1. TypeOK /\ Buffered /\ Owned /\ Locked /\ Roomy /\ Whole
    BY DEF IInv, Plain
  <1>2. /\ worker[e] = "write" /\ mutex[e] = NoThread
        /\ wbuf' = [wbuf EXCEPT ![e] = b]
        /\ chan' = [chan EXCEPT ![Peer(e)] = @ \o Oldest(wbuf[e], n)]
        /\ worker' = [worker EXCEPT ![e] = "wait"]
        /\ UNCHANGED <<mutex, heard, sender, left>>
    BY DEF WriteCallback, MayWrite
  <1>3. writeLock[e] = 1 /\ armed[e] = "OUT"
    BY <1>1, <1>2 DEF Locked
  <1>4. IF GetSize(b) = 0
        THEN writeLock' = [writeLock EXCEPT ![e] = 0] /\ armed' = [armed EXCEPT ![e] = "IN"]
        ELSE UNCHANGED <<writeLock, armed>>
    <2>1. (1 + LockModulus - 1) % LockModulus = 0
      <3>1. LockModulus * 1 + 0 = 1 + LockModulus - 1 /\ 0 \in 0..LockModulus-1 /\ 1 \in Nat
        BY Sizes
      <3>2. (LockModulus * 1 + 0) % LockModulus = 0
        BY <3>1, Remainder, Sizes
      <3> QED BY <3>1, <3>2
    <2> HIDE DEF b
    <2>2. CASE GetSize(b) = 0
      <3>1. /\ writeLock' = [writeLock EXCEPT ![e] = (writeLock[e] + LockModulus - 1) % LockModulus]
            /\ armed' = [armed EXCEPT ![e] = "IN"]
        BY <2>2 DEF WriteCallback, b
      <3> QED BY <1>3, <2>1, <2>2, <3>1
    <2>3. CASE GetSize(b) # 0
      BY <2>3 DEF WriteCallback, b
    <2> QED BY <2>2, <2>3
  <1> HIDE DEF n, b
  <1>8. Plain' /\ \A f \in Ends : Stream(f)' = Stream(f)
    BY WorkersKeepPlain DEF IInv, Worker
  <1>9. wbuf'[e] = b /\ \A f \in Ends \ {e} : wbuf'[f] = wbuf[f]
    BY <1>1, <1>2 DEF TypeOK
  <1>13. Locked'
    <2> SUFFICES ASSUME NEW f \in Ends
                 PROVE  /\ writeLock'[f] \in {0, 1}
                        /\ writeLock'[f] = 1 \/ worker'[f] = "write" => armed'[f] = "OUT"
                        /\ armed'[f] = "OUT" \/ worker'[f] = "post" \/ GetSize(wbuf[f])' > 0 =>
                             writeLock'[f] = 1 \/ mutex'[f] # NoThread
      BY DEF Locked
    <2>1. CASE f = e
      <3>1. worker'[f] = "wait"
        BY <1>1, <1>2, <2>1 DEF TypeOK
      <3>2. CASE GetSize(b) = 0
        <4>1. writeLock'[f] = 0 /\ armed'[f] = "IN" /\ GetSize(wbuf[f])' = 0
          BY <1>1, <1>4, <1>9, <2>1, <3>2 DEF TypeOK
        <4> QED BY <3>1, <4>1
      <3>3. CASE GetSize(b) # 0
        BY <1>3, <1>4, <2>1, <3>1, <3>3
      <3> QED BY <3>2, <3>3
    <2>2. CASE f # e
      <3>1. /\ writeLock'[f] = writeLock[f] /\ armed'[f] = armed[f] /\ worker'[f] = worker[f]
            /\ wbuf'[f] = wbuf[f] /\ mutex'[f] = mutex[f]
        BY <1>1, <1>2, <1>4, <1>9, <2>2 DEF TypeOK
      <3> QED BY <1>1, <3>1 DEF Locked
    <2> QED BY <2>1, <2>2
  <1>14. Roomy'
    <2> SUFFICES ASSUME NEW u \in Senders, sender[u] = "body"
                 PROVE  GetSpace(wbuf[Home[u]])' >= BodySize
      BY <1>2 DEF Roomy
    <2>1. Home[u] \in Ends \ {e}
      BY <1>1, <1>2, Sizes DEF Owned
    <2> QED BY <1>1, <1>9, <2>1 DEF Roomy
  <1>15. Whole'
    <2>1. \A f \in Ends : Rest(f)' = Rest(f)
      BY <1>2 DEF Rest
    <2> QED BY <1>1, <1>8, <2>1 DEF Whole, Framed
  <1> QED BY <1>8, <1>13, <1>14, <1>15 DEF IInv

-------------------------------------------------------------------------------
(* The invariant.                                                          *)

LEMMA InitIInv == Init => IInv
  <1> SUFFICES ASSUME Init
               PROVE  IInv
    OBVIOUS
  <1>1. Good(Allocate) /\ GetSize(Allocate) = 0
    BY AllocateIsGood
  <1>2. TypeOK
    <2>1. Allocate \in Buffers
      BY <1>1 DEF Good
    <2>2. <<>> \in Seq(Byte) /\ Len(<<>>) = 0
      OBVIOUS
    <2> HIDE DEF Allocate
    <2> QED BY <2>1, <2>2, Sizes DEF Init, TypeOK
  <1>3. Buffered /\ Owned /\ Locked /\ Roomy
    BY <1>1 DEF Init, Buffered, Owned, Locked, Roomy
  <1>4. Whole
    <2> SUFFICES ASSUME NEW e \in Ends
                 PROVE  Framed(Stream(e), Rest(e))
      BY DEF Whole
    <2>1. Rest(e) = 0
      BY DEF Init, Rest
    <2>2. Contents(wbuf[e]) \in Seq(Byte) /\ Len(Contents(wbuf[e])) = 0
      BY <1>1, ContentsIsSequence DEF Init
    <2>3. heard[Peer(e)] = <<>> /\ chan[Peer(e)] = <<>>
      BY PeerIsOther DEF Init
    <2>4. Len(Stream(e)) = 0
      <3>1. <<>> \in Seq(Byte) /\ Len(<<>>) = 0 /\ <<>> \o <<>> = <<>>
        OBVIOUS
      <3>2. Len(<<>> \o Contents(wbuf[e])) = 0 + 0
        BY <2>2, <3>1, Joined
      <3> QED BY <2>3, <3>1, <3>2 DEF Stream
    <2>5. 0 = PacketSize * 0 + 0
      BY Sizes
    <2> QED BY <2>1, <2>4, <2>5 DEF Framed
  <1> QED BY <1>2, <1>3, <1>4 DEF IInv, Plain

LEMMA Inductive ==
  ASSUME ChecksSpace
  PROVE  Spec => []IInv
  <1>1. IInv /\ [Next]_vars => IInv'
    <2> SUFFICES ASSUME IInv, [Next]_vars
                 PROVE  IInv'
      OBVIOUS
    <2>1. ASSUME NEW e \in Ends, Worker(e)
          PROVE  IInv'
      BY <2>1, EpollWaitStep, ReadCallbackStep, InspectWrittenStep, PostWrittenStep,
         WriteCallbackStep DEF Worker
    <2>2. ASSUME NEW t \in Senders, Sender(t)
          PROVE  IInv'
      BY <2>2, NoRoomStep, SendHeaderStep, SendBodyStep, BurstPushStep DEF Sender
    <2>3. CASE UNCHANGED vars
      BY <2>3 DEF vars, IInv, Plain, TypeOK, Buffered, Owned, Locked, Roomy, Whole, Framed, Stream, Rest
    <2> QED BY <2>1, <2>2, <2>3 DEF Next
  <1> QED BY <1>1, InitIInv, PTL DEF Spec

LEMMA PlainInductive == Spec => []Plain
  <1>1. Init => Plain
    BY InitIInv DEF IInv
  <1>2. Plain /\ [Next]_vars => Plain'
    BY StepPlain
  <1> QED BY <1>1, <1>2, PTL DEF Spec

(* No step of a sender or of a worker thread leaves the ranges a socket    *)
(* and its buffer have: m_writeLock its width, the kernel its room.        *)
THEOREM TypeCorrect == Spec => []TypeOK
  <1>1. Plain => TypeOK
    BY DEF Plain
  <1> QED BY <1>1, PlainInductive, PTL

(* On any socket, with room or without, no step takes a byte out of a      *)
(* stream, changes one or puts one between others: what is written comes   *)
(* to the end, a header by the thread that takes the mutex (BurstBegin)    *)
(* and a body by the thread that has it, each whole or not at all          *)
(* (BurstSend).                                                            *)
THEOREM StreamsOnlyGrow == Spec => [][\A e \in Ends : Appends(e)]_vars
  <1>1. Plain /\ [Next]_vars => [\A e \in Ends : Appends(e)]_vars
    BY StepPlain
  <1> QED BY <1>1, PlainInductive, PTL DEF Spec

(* What the peer of a WorldSocket receives are whole packets one after the *)
(* other, whichever threads send them: _OutPacket asks for room before it  *)
(* begins one.                                                             *)
THEOREM PacketsWhole ==
  ASSUME ChecksSpace
  PROVE  Spec => []WholePackets
  <1>1. IInv => WholePackets
    <2> SUFFICES ASSUME IInv, NEW e \in Ends
                 PROVE  /\ \A i \in DOMAIN Stream(e) :
                             Stream(e)[i] = IF i % (1 + BodySize) = 1 THEN "h" ELSE "b"
                        /\ Len(Stream(e)) % (1 + BodySize) = 0 \/ mutex[e] # NoThread
      BY DEF WholePackets
    <2>1. Framed(Stream(e), Rest(e)) /\ Stream(e) \in Seq(Byte)
      BY StreamParts DEF IInv, Plain, Whole
    <2>2. \A i \in DOMAIN Stream(e) : Stream(e)[i] = IF i % (1 + BodySize) = 1 THEN "h" ELSE "b"
      BY <2>1 DEF Framed, PacketSize
    <2>3. ASSUME mutex[e] = NoThread
          PROVE  Len(Stream(e)) % (1 + BodySize) = 0
      <3>1. Rest(e) = 0
        BY <2>3 DEF Rest
      <3>2. PICK q \in Nat : Len(Stream(e)) = PacketSize * q + 0
        BY <2>1, <3>1 DEF Framed
      <3>3. 0 \in 0..PacketSize-1
        BY Sizes
      <3>4. (PacketSize * q + 0) % PacketSize = 0
        BY <3>3, Remainder, Sizes
      <3> QED BY <3>2, <3>4 DEF PacketSize
    <2> QED BY <2>2, <2>3
  <1> QED BY <1>1, Inductive, PTL

(* m_writeLock is taken once and given back by whoever runs on its behalf: *)
(* AcquireSendLock, DecSendLock and the comment in WriteCallback.          *)
THEOREM SendLockBinary ==
  ASSUME ChecksSpace
  PROVE  Spec => []SendLockIsBinary
  <1>1. IInv => SendLockIsBinary
    BY DEF IInv, Locked, SendLockIsBinary
  <1> QED BY <1>1, Inductive, PTL

(* Neither the worker's look at the buffer without the mutex nor its       *)
(* change back to EPOLLIN leaves bytes behind that nobody will send.       *)
THEOREM NothingLeftUnpushed ==
  ASSUME ChecksSpace
  PROVE  Spec => []NothingUnpushed
  <1>1. IInv => NothingUnpushed
    BY DEF IInv, Locked, NothingUnpushed
  <1> QED BY <1>1, Inductive, PTL
-------------------------------------------------------------------------------
(* How a link can stall.                                                   *)

(* The header of a packet under way is still in the buffer.                *)
Held == \A e \in Ends : Rest(e) = 1 => GetSize(wbuf[e]) > 0

(* Room is promised only while there is none.                              *)
KernelFull == \A e \in Ends : noSpace[e] => Room(e) = 0

(* A socket that asks for room with nothing to send is told, or being told. *)
Promised ==
  \A e \in Ends :
    armed[e] = "OUT" /\ GetSize(wbuf[e]) = 0 => ready[e] \/ noSpace[e] \/ worker[e] = "write"

SInv == Held /\ KernelFull /\ Promised

LEMMA SizeIsNumber ==
  ASSUME Buffered, NEW e \in Ends
  PROVE  GetSize(wbuf[e]) \in Nat
  BY ContentsIsSequence, BufferAssumption DEF Buffered

LEMMA RoomIsNumber ==
  ASSUME TypeOK, NEW e \in Ends
  PROVE  Room(e) \in Nat /\ Len(chan[Peer(e)]) \in Nat /\ Len(chan[Peer(e)]) + Room(e) = KernelRoom
  <1>1. Peer(e) \in Ends
    BY PeerIsOther
  <1>2. Len(chan[Peer(e)]) \in Nat /\ Len(chan[Peer(e)]) <= KernelRoom
    BY <1>1 DEF TypeOK
  <1> QED BY <1>2, Sizes DEF Room

LEMMA PostOutTells ==
  ASSUME TypeOK, SInv, NEW e \in Ends, PostOut(e), UNCHANGED <<wbuf, chan>>,
         \A f \in Ends \ {e} : worker'[f] = worker[f]
  PROVE  KernelFull' /\ Promised'
  <1>1. \A f \in Ends : Room(f)' = Room(f)
    BY DEF Room
  <1>2. /\ ready'[e] = (Room(e) > 0) /\ noSpace'[e] = (Room(e) = 0)
        /\ \A f \in Ends \ {e} : armed'[f] = armed[f] /\ ready'[f] = ready[f] /\ noSpace'[f] = noSpace[f]
    BY DEF PostOut, TypeOK
  <1>3. Room(e) \in Nat
    BY RoomIsNumber
  <1>4. KernelFull'
    <2>1. noSpace'[e] => Room(e) = 0
      BY <1>2
    <2>2. \A f \in Ends \ {e} : noSpace'[f] => Room(f) = 0
      BY <1>2 DEF SInv, KernelFull
    <2> QED BY <1>1, <2>1, <2>2 DEF KernelFull
  <1>5. Promised'
    <2>1. ready'[e] \/ noSpace'[e]
      <3>1. CASE Room(e) = 0
        BY <1>2, <3>1
      <3>2. CASE Room(e) > 0
        BY <1>2, <3>2
      <3> QED BY <1>3, <3>1, <3>2
    <2>2. \A f \in Ends \ {e} :
            armed'[f] = "OUT" /\ GetSize(wbuf[f])' = 0 => ready'[f] \/ noSpace'[f] \/ worker'[f] = "write"
      BY <1>2 DEF SInv, Promised
    <2> QED BY <2>1, <2>2 DEF Promised
  <1> QED BY <1>4, <1>5

(* A piece of a packet is written.                                         *)
LEMMA PieceKeepsStalls ==
  ASSUME IInv, IInv', SInv, NEW e \in Ends, NEW data \in {Header, Body},
         GetSize(wbuf[e])' = GetSize(wbuf[e]) + Len(data),
         \A f \in Ends \ {e} : wbuf'[f] = wbuf[f] /\ Rest(f)' = Rest(f),
         UNCHANGED <<armed, ready, noSpace, chan, worker>>
  PROVE  SInv'
  <1>1. GetSize(wbuf[e])' > 0
    <2>1. Len(data) \in Nat /\ Len(data) > 0
      <3>1. CASE data = Header
        BY <3>1, PiecesAreChunks
      <3>2. CASE data = Body
        BY <3>2, PiecesAreChunks, Sizes
      <3> QED BY <3>1, <3>2
    <2>2. GetSize(wbuf[e]) \in Nat
      BY SizeIsNumber DEF IInv, Plain
    <2> QED BY <2>1, <2>2
  <1>2. Held'
    BY <1>1 DEF SInv, Held
  <1>3. KernelFull' /\ Promised'
    BY <1>1 DEF SInv, KernelFull, Promised, Room
  <1> QED BY <1>2, <1>3 DEF SInv

(* Only the packet of the mutex's owner can be incomplete.                 *)
LEMMA RestOfOthers ==
  ASSUME IInv, IInv', NEW t \in Senders, \A u \in Senders \ {t} : sender'[u] = sender[u],
         \A f \in Ends \ {Home[t]} : mutex'[f] = mutex[f]
  PROVE  \A f \in Ends \ {Home[t]} : Rest(f)' = Rest(f)
  BY DEF IInv, Plain, Owned, TypeOK, Rest

LEMMA SendersKeepStalls ==
  ASSUME ChecksSpace, IInv, IInv', SInv, NEW t \in Senders, Sender(t)
  PROVE  SInv'
  <1> DEFINE e == Home[t]
  <1>1. e \in Ends /\ t # NoThread /\ TypeOK /\ Buffered
    BY Sizes DEF IInv, Plain
  <1>2. CASE NoRoomInBuffer(t)
    <2>1. \A f \in Ends : GetSize(wbuf[f])' = GetSize(wbuf[f])
      <3>1. GetSize(AllocateB(wbuf[e])) = GetSize(wbuf[e])
        BY <1>1, AllocateBIsGood DEF Buffered
      <3> QED BY <1>1, <1>2, <3>1 DEF NoRoomInBuffer, TypeOK
    <2>2. UNCHANGED <<mutex, armed, ready, noSpace, chan, worker, sender>>
      BY <1>2 DEF NoRoomInBuffer, kernel
    <2> QED BY <2>1, <2>2 DEF SInv, Held, KernelFull, Promised, Room, Rest
  <1>3. CASE SendHeader(t)
    <2>1. /\ wbuf' = [wbuf EXCEPT ![e] = Write(@, Header)] /\ GetSpace(wbuf[e]) >= 1 + BodySize
          /\ UNCHANGED <<armed, ready, noSpace, chan, heard, worker>>
      BY <1>3 DEF SendHeader, kernel
    <2>2. Len(Header) <= GetSpace(wbuf[e])
      BY <1>1, <2>1, SpaceIsNumber, PiecesAreChunks, Sizes DEF Buffered
    <2>3. GetSize(wbuf[e])' = GetSize(wbuf[e]) + Len(Header) /\ \A f \in Ends \ {e} : wbuf'[f] = wbuf[f]
      BY <1>1, <2>1, <2>2, PieceWritten
    <2>4. \A f \in Ends \ {e} : Rest(f)' = Rest(f)
      BY <1>1, <1>3, RestOfOthers DEF SendHeader, BurstEnd, TypeOK
    <2> QED BY <1>1, <2>1, <2>3, <2>4, PieceKeepsStalls
  <1>4. CASE SendBody(t)
    <2>1. /\ wbuf' = [wbuf EXCEPT ![e] = Write(@, Body)] /\ GetSpace(wbuf[e]) >= BodySize
          /\ UNCHANGED <<armed, ready, noSpace, chan, heard, worker>>
      BY <1>4 DEF SendBody, kernel, IInv, Roomy
    <2>2. Len(Body) <= GetSpace(wbuf[e])
      BY <2>1, PiecesAreChunks
    <2>3. GetSize(wbuf[e])' = GetSize(wbuf[e]) + Len(Body) /\ \A f \in Ends \ {e} : wbuf'[f] = wbuf[f]
      BY <1>1, <2>1, <2>2, PieceWritten
    <2>4. \A f \in Ends \ {e} : Rest(f)' = Rest(f)
      BY <1>1, <1>4, RestOfOthers DEF SendBody, BurstEnd, TypeOK
    <2> QED BY <1>1, <2>1, <2>3, <2>4, PieceKeepsStalls
  <1>5. CASE BurstPush(t)
    <2>1. \A f \in Ends \ {e} : Rest(f)' = Rest(f)
      BY <1>1, <1>5, RestOfOthers DEF BurstPush, BurstEnd, TypeOK
    <2>2. Rest(e)' = 0 /\ UNCHANGED <<wbuf, chan, worker>>
      BY <1>1, <1>5 DEF BurstPush, BurstEnd, Rest, TypeOK
    <2>3. Held'
      BY <2>1, <2>2 DEF SInv, Held
    <2>4. KernelFull' /\ Promised'
      <3>1. CASE PostOut(e)
        BY <1>1, <2>2, <3>1, PostOutTells
      <3>2. CASE UNCHANGED kernel
        BY <2>2, <3>2 DEF SInv, KernelFull, Promised, Room, kernel
      <3> QED BY <1>5, <3>1, <3>2 DEF BurstPush
    <2> QED BY <2>3, <2>4 DEF SInv
  <1> QED BY <1>2, <1>3, <1>4, <1>5 DEF Sender

(* What a send does to the kernel and to the buffer.                       *)
LEMMA WriteCallbackSends ==
  ASSUME IInv, NEW e \in Ends, WriteCallback(e)
  PROVE  /\ mutex[e] = NoThread /\ worker' = [worker EXCEPT ![e] = "wait"]
         /\ UNCHANGED <<mutex, heard, sender, left>>
         /\ \A f \in Ends \ {e} : wbuf'[f] = wbuf[f]
         /\ chan'[e] = chan[e] /\ \A f \in Ends : Stream(f)' = Stream(f)
         /\ \E n \in Nat : /\ n = Lesser(GetContiguiousBytes(wbuf[e]), Room(e))
                           /\ Len(chan'[Peer(e)]) = Len(chan[Peer(e)]) + n
  <1> DEFINE n == Lesser(GetContiguiousBytes(wbuf[e]), Room(e))
  <1>1. TypeOK /\ Buffered
    BY DEF IInv, Plain
  <1>2. /\ mutex[e] = NoThread
        /\ wbuf' = [wbuf EXCEPT ![e] = Remove(@, n)]
        /\ chan' = [chan EXCEPT ![Peer(e)] = @ \o Oldest(wbuf[e], n)]
        /\ worker' = [worker EXCEPT ![e] = "wait"]
        /\ UNCHANGED <<mutex, heard, sender, left>>
    BY DEF WriteCallback, MayWrite
  <1>3. n \in 0..Capacity /\ n <= GetContiguiousBytes(wbuf[e])
    <2>1. Room(e) \in Nat
      BY <1>1, RoomIsNumber
    <2>2. GetContiguiousBytes(wbuf[e]) \in 0..Capacity
      BY <1>1, Fields DEF Buffered, Good, GetContiguiousBytes
    <2> QED BY <2>1, <2>2, Sizes DEF Lesser
  <1>4. n = Lesser(GetContiguiousBytes(wbuf[e]), Room(e))
    OBVIOUS
  <1> HIDE DEF n
  <1>5. Len(chan'[Peer(e)]) = Len(chan[Peer(e)]) + n /\ \A f \in Ends : Stream(f)' = Stream(f)
    BY <1>1, <1>2, <1>3, SendKeepsStreams
  <1>6. \A f \in Ends \ {e} : wbuf'[f] = wbuf[f]
    BY <1>1, <1>2 DEF TypeOK
  <1>7. chan'[e] = chan[e]
    BY <1>1, <1>2, PeerIsOther DEF TypeOK
  <1>8. n \in Nat
    BY <1>3, Sizes
  <1> QED BY <1>2, <1>4, <1>5, <1>6, <1>7, <1>8

LEMMA WriteCallbackKeepsStalls ==
  ASSUME IInv, IInv', SInv, NEW e \in Ends, WriteCallback(e)
  PROVE  SInv'
  <1> DEFINE p == Peer(e)
             b == Remove(wbuf[e], Lesser(GetContiguiousBytes(wbuf[e]), Room(e)))
  <1>1. TypeOK /\ Buffered
    BY DEF IInv, Plain
  <1>2. p \in Ends /\ p # e /\ Peer(p) = e /\ \A f \in Ends : f = e \/ f = p
    BY PeerIsOther
  <1>3. /\ mutex[e] = NoThread /\ worker' = [worker EXCEPT ![e] = "wait"]
        /\ UNCHANGED <<mutex, heard, sender, left>>
        /\ wbuf'[p] = wbuf[p] /\ chan'[e] = chan[e]
    BY <1>2, WriteCallbackSends
  <1>4. PICK n \in Nat : /\ n = Lesser(GetContiguiousBytes(wbuf[e]), Room(e))
                         /\ Len(chan'[p]) = Len(chan[p]) + n
    BY WriteCallbackSends
  <1>5. \/ GetSize(b) = 0 /\ armed'[e] = "IN" /\ noSpace'[e] = FALSE
        \/ GetSize(b) # 0 /\ noSpace'[e] = (n < GetContiguiousBytes(wbuf[e]))
    BY <1>1, <1>4 DEF WriteCallback, TypeOK
  <1>6. wbuf'[e] = b
    BY <1>1 DEF WriteCallback, TypeOK
  <1>7. noSpace'[p] = noSpace[p] /\ (ready[p] => ready'[p]) /\ armed'[p] = armed[p] /\ worker'[p] = worker[p]
    <2>1. DOMAIN ready = Ends /\ DOMAIN armed = Ends /\ DOMAIN noSpace = Ends /\ DOMAIN worker = Ends
      BY <1>1 DEF TypeOK
    <2> HIDE DEF b
    <2>2. CASE GetSize(b) = 0
      BY <1>2, <1>3, <2>1, <2>2 DEF WriteCallback, b
    <2>3. CASE GetSize(b) # 0
      BY <1>2, <1>3, <2>1, <2>3 DEF WriteCallback, b
    <2> QED BY <2>2, <2>3
  <1> HIDE DEF p, b
  <1>8. Held'
    <2>1. Rest(e)' = 0 /\ Rest(p)' = Rest(p)
      BY <1>3 DEF Rest
    <2> QED BY <1>2, <1>3, <2>1 DEF SInv, Held
  <1>9. KernelFull'
    <2>1. Room(p)' = Room(p)
      BY <1>2, <1>3 DEF Room
    <2>2. noSpace'[e] => Room(e)' = 0
      <3>1. Room(e) \in Nat /\ Len(chan[p]) \in Nat /\ Len(chan[p]) + Room(e) = KernelRoom
        BY <1>1, RoomIsNumber DEF p
      <3>2. Room(e)' = KernelRoom - Len(chan'[p])
        BY DEF Room, p
      <3>3. GetContiguiousBytes(wbuf[e]) \in 0..Capacity
        BY <1>1, Fields DEF Buffered, Good, GetContiguiousBytes
      <3>4. noSpace'[e] => n < GetContiguiousBytes(wbuf[e])
        BY <1>5
      <3>5. n < GetContiguiousBytes(wbuf[e]) => n = Room(e)
        BY <1>4, <3>1, <3>3, Sizes DEF Lesser
      <3> QED BY <1>4, <3>1, <3>2, <3>4, <3>5, Sizes
    <2> QED BY <1>2, <1>7, <2>1, <2>2 DEF SInv, KernelFull
  <1>10. Promised'
    BY <1>2, <1>3, <1>5, <1>6, <1>7 DEF SInv, Promised
  <1> QED BY <1>8, <1>9, <1>10 DEF SInv

LEMMA ReadCallbackKeepsStalls ==
  ASSUME IInv, IInv', SInv, NEW e \in Ends, ReadCallback(e)
  PROVE  SInv'
  <1> DEFINE p == Peer(e)
  <1>1. TypeOK /\ Buffered
    BY DEF IInv, Plain
  <1>2. p \in Ends /\ p # e /\ Peer(p) = e /\ \A f \in Ends : f = e \/ f = p
    BY PeerIsOther
  <1>3. /\ worker[e] = "read" /\ worker' = [worker EXCEPT ![e] = "inspect"]
        /\ ready' = [ready EXCEPT ![p] = @ \/ (noSpace[p] /\ armed[p] = "OUT")]
        /\ noSpace' = [noSpace EXCEPT ![p] = FALSE]
        /\ UNCHANGED <<wbuf, mutex, armed, sender>>
        /\ chan'[p] = chan[p]
    BY <1>1, <1>2 DEF ReadCallback, TypeOK
  <1> HIDE DEF p
  <1>4. /\ noSpace'[p] = FALSE /\ noSpace'[e] = noSpace[e] /\ ready'[e] = ready[e]
        /\ ready'[p] = (ready[p] \/ (noSpace[p] /\ armed[p] = "OUT"))
        /\ worker'[p] = worker[p] /\ worker'[e] = "inspect"
    BY <1>1, <1>2, <1>3 DEF TypeOK
  <1>5. Held'
    BY <1>3 DEF SInv, Held, Rest
  <1>6. KernelFull'
    <2>1. Room(e)' = Room(e)
      BY <1>3 DEF Room, p
    <2> QED BY <1>2, <1>4, <2>1 DEF SInv, KernelFull
  <1>7. Promised'
    BY <1>2, <1>3, <1>4 DEF SInv, Promised
  <1> QED BY <1>5, <1>6, <1>7 DEF SInv

LEMMA WorkersKeepStalls ==
  ASSUME IInv, IInv', SInv, NEW e \in Ends, Worker(e)
  PROVE  SInv'
  <1>1. TypeOK
    BY DEF IInv, Plain
  <1>2. CASE EpollWait(e)
    BY <1>1, <1>2 DEF EpollWait, SInv, Held, KernelFull, Promised, Room, Rest, TypeOK
  <1>3. CASE InspectWritten(e)
    BY <1>1, <1>3 DEF InspectWritten, kernel, SInv, Held, KernelFull, Promised, Room, Rest, TypeOK
  <1>4. CASE PostWritten(e)
    <2>1. PostOut(e) /\ UNCHANGED <<wbuf, chan, mutex, sender>> /\ \A f \in Ends \ {e} : worker'[f] = worker[f]
      BY <1>1, <1>4 DEF PostWritten, TypeOK
    <2> QED BY <1>1, <2>1, PostOutTells DEF SInv, Held, Rest
  <1> QED BY <1>2, <1>3, <1>4, ReadCallbackKeepsStalls, WriteCallbackKeepsStalls DEF Worker

LEMMA StallsInductive ==
  ASSUME ChecksSpace
  PROVE  Spec => []SInv
  <1>1. Init => SInv
    <2> SUFFICES ASSUME Init
                 PROVE  SInv
      OBVIOUS
    <2> QED BY Sizes DEF Init, SInv, Held, KernelFull, Promised, Rest
  <1>2. IInv /\ IInv' /\ SInv /\ [Next]_vars => SInv'
    <2> SUFFICES ASSUME IInv, IInv', SInv, [Next]_vars
                 PROVE  SInv'
      OBVIOUS
    <2>1. CASE UNCHANGED vars
      BY <2>1 DEF vars, SInv, Held, KernelFull, Promised, Room, Rest
    <2> QED BY <2>1, SendersKeepStalls, WorkersKeepStalls DEF Next
  <1> QED BY <1>1, <1>2, Inductive, PTL DEF Spec

(* A link that has come to rest has delivered everything, or it rests in   *)
(* one of the three known ways: no order of pushes, sends, receives and    *)
(* changes of the registration adds a fourth, with any number of senders   *)
(* and buffers of any size.                                                *)
THEOREM NoFourthStall ==
  ASSUME ChecksSpace
  PROVE  Spec => []OnlyThreeStalls
  <1>1. IInv /\ SInv => OnlyThreeStalls
    <2> SUFFICES ASSUME IInv, SInv, Quiet, ~Drained, LeftoverRenotified, UnreadRenotified
                 PROVE  BothBlocked
      BY DEF OnlyThreeStalls
    <2>1. \A e \in Ends : worker[e] = "wait" /\ ~ready[e] /\ GetSize(wbuf[e]) \in Nat
                          /\ armed[e] \in {"IN", "OUT"} /\ mutex[e] = NoThread
      BY SizeIsNumber DEF Quiet, IInv, Plain, TypeOK, Owned
    <2>2. \A e \in Ends : chan[e] # <<>> => armed[e] = "OUT"
      BY <2>1 DEF UnreadRenotified
    <2>3. \A e \in Ends : armed[e] = "OUT" => noSpace[e]
      BY <2>1 DEF LeftoverRenotified, SInv, Promised
    <2>4. \A e \in Ends : noSpace[e] => chan[Peer(e)] # <<>>
      <3> SUFFICES ASSUME NEW e \in Ends, noSpace[e], chan[Peer(e)] = <<>>
                   PROVE  FALSE
        OBVIOUS
      <3>1. Room(e) = 0
        BY DEF SInv, KernelFull
      <3>2. Len(chan[Peer(e)]) = 0
        OBVIOUS
      <3> QED BY <3>1, <3>2, RoomIsNumber, LinkAssumption DEF IInv, Plain
    <2>5. \A e \in Ends : GetSize(wbuf[e]) > 0 => armed[e] = "OUT"
      BY <2>1 DEF IInv, Locked
    <2>6. PICK e \in Ends : armed[e] = "OUT"
      BY <2>1, <2>2, <2>5 DEF Drained
    <2>7. armed[Peer(e)] = "OUT"
      BY <2>2, <2>3, <2>4, <2>6, PeerIsOther
    <2> QED BY <2>1, <2>3, <2>6, <2>7, PeerIsOther DEF BothBlocked
  <1> QED BY <1>1, Inductive, StallsInductive, PTL

-------------------------------------------------------------------------------
(* A link is a stream of packets.                                          *)

LEMMA PrefixOfJoin ==
  ASSUME NEW s \in Seq(Byte), NEW t \in Seq(Byte), NEW n \in 0..Len(s)
  PROVE  SubSeq(s \o t, 1, n) = SubSeq(s, 1, n)
  <1>1. Len(s) \in Nat /\ n \in Nat /\ n <= Len(s)
    OBVIOUS
  <1>2. CASE n = 0
    BY <1>2, SubSeqEmpty
  <1>3. CASE n # 0
    <2>1. 1 \in 1..Len(s) /\ n \in 1..Len(s)
      BY <1>1, <1>3
    <2> QED BY <2>1, SubSeqOfConcat1
  <1> QED BY <1>2, <1>3

(* One byte into a packet, the last byte is its header.                    *)
LEMMA HeaderIsLast ==
  ASSUME NEW s \in Seq(Byte), Framed(s, 1)
  PROVE  /\ Len(s) - 1 \in 0..Len(s) /\ SubSeq(s, 1, Len(s) - 1) \in Seq(Byte)
         /\ s = SubSeq(s, 1, Len(s) - 1) \o Header
  <1> DEFINE m == Len(s)
             last == SubSeq(s, m, m)
  <1>1. PICK q \in Nat : m = PacketSize * q + 1
    BY DEF Framed
  <1>2. m \in Nat /\ m >= 1
    <2>1. PacketSize * q \in Nat
      BY Sizes
    <2> QED BY <1>1, <2>1
  <1>3. s[m] = "h"
    <2>1. 1 \in 0..PacketSize - 1
      BY Sizes
    <2>2. m % PacketSize = 1
      BY <1>1, <2>1, Remainder, Sizes
    <2> QED BY <1>2, <2>2 DEF Framed
  <1>4. m - 1 \in 0..m
    BY <1>2
  <1>5. SubSeq(s, 1, m - 1) \in Seq(Byte) /\ SubSeq(s, 1, m - 1) \o SubSeq(s, (m - 1) + 1, m) = s
    BY <1>4, SplitSequence
  <1>6. last = Header
    <2>1. "h" \in Byte
      BY Sizes
    <2>2. \A i \in m..m : s[i] \in Byte
      BY <1>2, <1>3, <2>1
    <2>3. last \in Seq(Byte) /\ Len(last) = 1 /\ \A i \in 1..(m - m + 1) : last[i] = s[m + i - 1]
      BY <1>2, <2>2, SubSeqProperties
    <2>4. last[1] = "h"
      BY <1>2, <1>3, <2>3
    <2> HIDE DEF last
    <2>5. Header \in Seq(Byte) /\ Len(Header) = 1 /\ Header[1] = "h"
      BY PiecesAreChunks
    <2>6. \A i \in 1..Len(last) : last[i] = Header[i]
      BY <2>3, <2>4, <2>5
    <2> QED BY <2>3, <2>5, <2>6, SeqEqual
  <1>7. (m - 1) + 1 = m
    BY <1>2
  <1> QED BY <1>4, <1>5, <1>6, <1>7

LEMMA CompleteParts ==
  ASSUME IInv, NEW e \in Ends
  PROVE  /\ Stream(e) \in Seq(Byte) /\ Rest(e) \in {0, 1} /\ Framed(Stream(e), Rest(e))
         /\ Rest(e) = 0 => Complete(e) = Stream(e)
         /\ Len(Stream(e)) - Rest(e) \in 0..Len(Stream(e))
  <1>1. Stream(e) \in Seq(Byte) /\ Framed(Stream(e), Rest(e))
    BY StreamParts DEF IInv, Plain, Whole
  <1>2. Rest(e) \in {0, 1}
    BY DEF Rest
  <1>3. Rest(e) = 0 => Complete(e) = Stream(e)
    <2> SUFFICES ASSUME Rest(e) = 0
                 PROVE  Complete(e) = Stream(e)
      OBVIOUS
    <2>1. Len(Stream(e)) - 0 = Len(Stream(e))
      BY <1>1
    <2> QED BY <1>1, <2>1, SubSeqFull DEF Complete
  <1>4. Len(Stream(e)) - Rest(e) \in 0..Len(Stream(e))
    <2>1. Len(Stream(e)) \in Nat
      BY <1>1
    <2>2. CASE Rest(e) = 0
      BY <2>1, <2>2
    <2>3. CASE Rest(e) = 1
      BY <1>1, <2>3, HeaderIsLast
    <2> QED BY <1>2, <2>2, <2>3
  <1> QED BY <1>1, <1>2, <1>3, <1>4

(* A step that completes no packet and receives nothing stutters.          *)
LEMMA NothingCompleted ==
  ASSUME UNCHANGED heard, \A f \in Ends : Complete(f)' = Complete(f)
  PROVE  [Streams!Next]_<<[e \in Ends |-> Complete(e)], [e \in Ends |-> heard[Peer(e)]]>>
  BY DEF Complete

(* The header of a packet completes none.                                  *)
LEMMA HeaderCompletesNone ==
  ASSUME IInv, IInv', NEW e \in Ends, Rest(e) = 0, Rest(e)' = 1, Stream(e)' = Stream(e) \o Header
  PROVE  Complete(e)' = Complete(e)
  <1>1. Stream(e) \in Seq(Byte) /\ Complete(e) = Stream(e)
    BY CompleteParts
  <1>2. Header \in Seq(Byte) /\ Len(Header) = 1
    BY PiecesAreChunks
  <1> DEFINE s == Stream(e)
  <1>3. Complete(e)' = SubSeq(s \o Header, 1, Len(s \o Header) - 1)
    BY DEF Complete
  <1>4. s \in Seq(Byte)
    BY <1>1
  <1> HIDE DEF s
  <1>5. Len(s \o Header) - 1 = Len(s) /\ Len(s) \in 0..Len(s)
    <2>1. Len(s \o Header) = Len(s) + Len(Header)
      BY <1>2, <1>4, Joined
    <2>2. Len(s) \in Nat
      BY <1>4
    <2> QED BY <1>2, <2>1, <2>2
  <1>6. SubSeq(s \o Header, 1, Len(s)) = s
    BY <1>2, <1>4, <1>5, PrefixOfJoin, SubSeqFull
  <1> QED BY <1>1, <1>3, <1>5, <1>6 DEF s

(* Its body completes it.                                                  *)
LEMMA BodyCompletes ==
  ASSUME IInv, IInv', NEW e \in Ends, Rest(e) = 1, Rest(e)' = 0, Stream(e)' = Stream(e) \o Body
  PROVE  Complete(e)' = Complete(e) \o (Header \o Body)
  <1> DEFINE s == Stream(e)
             c == Complete(e)
  <1>1. s \in Seq(Byte) /\ Framed(s, 1)
    BY CompleteParts
  <1>2. c \in Seq(Byte) /\ s = c \o Header
    BY <1>1, HeaderIsLast DEF Complete
  <1>3. Complete(e)' = Stream(e)'
    <2>1. Stream(e)' \in Seq(Byte)
      BY CompleteParts, StreamParts, Joined, PiecesAreChunks
    <2>2. Complete(e)' = SubSeq(Stream(e)', 1, Len(Stream(e)') - 0)
      BY DEF Complete
    <2>3. Len(Stream(e)') - 0 = Len(Stream(e)')
      BY <2>1
    <2> QED BY <2>1, <2>2, <2>3, SubSeqFull
  <1>4. Complete(e)' = s \o Body
    BY <1>3
  <1> HIDE DEF s, c
  <1>5. (c \o Header) \o Body = c \o (Header \o Body)
    BY <1>2, JoinedThrice, PiecesAreChunks
  <1>6. Complete(e)' = c \o (Header \o Body)
    BY <1>2, <1>4, <1>5
  <1> QED BY <1>6 DEF c

LEMMA SendersRefine ==
  ASSUME ChecksSpace, IInv, IInv', NEW t \in Senders, Sender(t)
  PROVE  [Streams!Next]_<<[e \in Ends |-> Complete(e)], [e \in Ends |-> heard[Peer(e)]]>>
  <1> DEFINE e == Home[t]
  <1>1. e \in Ends /\ t # NoThread /\ TypeOK /\ Buffered /\ Owned
    BY Sizes DEF IInv, Plain
  <1>2. CASE NoRoomInBuffer(t)
    <2>1. Contents(AllocateB(wbuf[e])) = Contents(wbuf[e]) /\ wbuf' = [wbuf EXCEPT ![e] = AllocateB(@)]
          /\ UNCHANGED <<heard, chan, mutex, sender>>
      BY <1>1, <1>2, AllocateBIsGood DEF NoRoomInBuffer, Buffered
    <2>2. \A f \in Ends : Contents(wbuf'[f]) = Contents(wbuf[f])
      BY <1>1, <2>1 DEF TypeOK
    <2>3. \A f \in Ends : Stream(f)' = Stream(f) /\ Rest(f)' = Rest(f)
      BY <2>1, <2>2 DEF Stream, Rest
    <2>4. \A f \in Ends : Complete(f)' = Complete(f)
      BY <2>3 DEF Complete
    <2> QED BY <2>1, <2>4, NothingCompleted
  <1>3. CASE SendHeader(t)
    <2>1. /\ wbuf' = [wbuf EXCEPT ![e] = Write(@, Header)] /\ GetSpace(wbuf[e]) >= 1 + BodySize
          /\ mutex[e] = NoThread /\ UNCHANGED <<chan, heard>>
      BY <1>3 DEF SendHeader
    <2>2. GetSpace(wbuf[e]) >= 1 /\ Len(Header) <= GetSpace(wbuf[e])
      BY <1>1, <2>1, SpaceIsNumber, PiecesAreChunks, Sizes DEF Buffered
    <2>3. Stream(e)' = Stream(e) \o Header /\ \A f \in Ends \ {e} : Stream(f)' = Stream(f)
      BY <1>1, <2>1, <2>2, PieceWritten
    <2>4. mutex' = [mutex EXCEPT ![e] = t] /\ sender' = [sender EXCEPT ![t] = "body"]
      BY <1>3, <2>2 DEF SendHeader
    <2>5. Rest(e) = 0 /\ Rest(e)' = 1
      BY <1>1, <2>1, <2>4 DEF Rest, TypeOK
    <2>6. \A f \in Ends \ {e} : Rest(f)' = Rest(f)
      BY <1>1, <2>4, RestOfOthers DEF TypeOK
    <2>7. \A f \in Ends \ {e} : Complete(f)' = Complete(f)
      BY <2>3, <2>6 DEF Complete
    <2>8. Complete(e)' = Complete(e)
      BY <1>1, <2>3, <2>5, HeaderCompletesNone
    <2> QED BY <2>1, <2>7, <2>8, NothingCompleted
  <1>4. CASE SendBody(t)
    <2>1. /\ wbuf' = [wbuf EXCEPT ![e] = Write(@, Body)] /\ GetSpace(wbuf[e]) >= BodySize
          /\ sender[t] = "body" /\ UNCHANGED <<chan, heard>>
      BY <1>4 DEF SendBody, IInv, Roomy
    <2>2. Len(Body) <= GetSpace(wbuf[e])
      BY <2>1, PiecesAreChunks
    <2>3. Stream(e)' = Stream(e) \o Body /\ \A f \in Ends \ {e} : Stream(f)' = Stream(f)
      BY <1>1, <2>1, <2>2, PieceWritten
    <2>4. mutex' = mutex /\ sender' = [sender EXCEPT ![t] = "push"]
      BY <1>4, <2>1 DEF SendBody
    <2>5. Rest(e) = 1 /\ Rest(e)' = 0
      BY <1>1, <2>1, <2>4 DEF Rest, TypeOK, Owned
    <2>6. \A f \in Ends \ {e} : Rest(f)' = Rest(f)
      BY <1>1, <2>4, RestOfOthers DEF TypeOK
    <2>7. \A f \in Ends \ {e} : Complete(f)' = Complete(f)
      BY <2>3, <2>6 DEF Complete
    <2>8. Complete(e)' = Complete(e) \o (Header \o Body)
      BY <1>1, <2>3, <2>5, BodyCompletes
    <2>9. Streams!Send(e)
      BY <1>1, <2>1, <2>7, <2>8 DEF Streams!Send
    <2> QED BY <1>1, <2>9 DEF Streams!Next
  <1>5. CASE BurstPush(t)
    <2>1. UNCHANGED <<wbuf, chan, heard>> /\ sender[t] = "push" /\ BurstEnd(t)
      BY <1>5 DEF BurstPush
    <2>2. \A f \in Ends : Rest(f)' = Rest(f)
      <3>1. \A f \in Ends \ {e} : Rest(f)' = Rest(f)
        BY <1>1, <2>1, RestOfOthers DEF BurstEnd, TypeOK
      <3>2. Rest(e)' = 0 /\ Rest(e) = 0
        BY <1>1, <2>1 DEF BurstEnd, Rest, TypeOK, Owned
      <3> QED BY <3>1, <3>2
    <2>3. \A f \in Ends : Complete(f)' = Complete(f)
      BY <2>1, <2>2 DEF Complete, Stream
    <2> QED BY <2>1, <2>3, NothingCompleted
  <1> QED BY <1>2, <1>3, <1>4, <1>5 DEF Sender

(* Whatever a recv takes was sent: the header of a packet under way is     *)
(* still in the buffer.                                                    *)
LEMMA ReceivedWasSent ==
  ASSUME IInv, SInv, NEW p \in Ends, NEW n \in 0..Len(chan[Peer(p)])
  PROVE  /\ Len(heard[Peer(p)]) + n <= Len(Complete(p))
         /\ n \in 0..Len(Complete(p))
         /\ heard[Peer(p)] \o SubSeq(chan[Peer(p)], 1, n)
              = SubSeq(Complete(p), 1, Len(heard[Peer(p)]) + n)
  <1> DEFINE h == heard[Peer(p)]
             c == chan[Peer(p)]
             w == Contents(wbuf[p])
             first == SubSeq(c, 1, n)
             rest == SubSeq(c, n + 1, Len(c))
             m == Len(h) + n
             k == Len(Stream(p)) - Rest(p)
  <1>1. h \in Seq(Byte) /\ c \in Seq(Byte) /\ w \in Seq(Byte) /\ Len(w) = GetSize(wbuf[p])
    BY PeerIsOther, StreamParts DEF IInv, Plain, TypeOK
  <1>2. first \in Seq(Byte) /\ rest \in Seq(Byte) /\ c = first \o rest /\ Len(rest) = Len(c) - n
    BY <1>1, SplitSequence
  <1>3. Stream(p) = (h \o c) \o w
    BY DEF Stream
  <1>4. k \in 0..Len(Stream(p)) /\ Rest(p) \in {0, 1} /\ (Rest(p) = 1 => Len(w) > 0)
    BY <1>1, CompleteParts DEF SInv, Held
  <1>5. Complete(p) = SubSeq(Stream(p), 1, k)
    BY DEF Complete
  <1>6. n \in Nat /\ n <= Len(c) /\ m = Len(h) + n /\ k = Len(Stream(p)) - Rest(p)
    BY <1>1
  <1> HIDE DEF h, c, w, first, rest, m, k
  <1> DEFINE z == (h \o first) \o (rest \o w)
  <1>7. Stream(p) = z /\ h \o first \in Seq(Byte) /\ rest \o w \in Seq(Byte)
    <2>1. h \o first \in Seq(Byte) /\ rest \o w \in Seq(Byte)
      BY <1>1, <1>2, Joined
    <2>2. (h \o first) \o rest = h \o (first \o rest)
      <3>1. h \in Seq(Byte) /\ first \in Seq(Byte) /\ rest \in Seq(Byte)
        BY <1>1, <1>2
      <3> QED BY <3>1, JoinedThrice
    <2>3. h \o c = (h \o first) \o rest
      BY <1>2, <2>2
    <2> DEFINE a == h \o first
    <2>4. a \in Seq(Byte)
      BY <2>1
    <2> HIDE DEF a
    <2>5. (a \o rest) \o w = a \o (rest \o w)
      BY <1>1, <1>2, <2>4, JoinedThrice
    <2> QED BY <1>3, <2>1, <2>3, <2>5 DEF a
  <1>8. /\ Len(h) \in Nat /\ Len(c) \in Nat /\ Len(w) \in Nat /\ Len(rest) \in Nat
        /\ Len(h \o first) = m /\ Len(z) = Len(h) + Len(c) + Len(w)
    <2>1. Len(h \o first) = Len(h) + Len(first) /\ Len(c) = Len(first) + Len(rest)
      BY <1>1, <1>2, Joined
    <2>2. Len(rest \o w) = Len(rest) + Len(w) /\ Len(z) = Len(h \o first) + Len(rest \o w)
      BY <1>1, <1>2, <1>7, Joined
    <2>3. Len(h) \in Nat /\ Len(c) \in Nat /\ Len(w) \in Nat /\ Len(rest) \in Nat /\ Len(first) \in Nat
      BY <1>1, <1>2
    <2>4. Len(first) = n
      BY <1>2, <1>6, <2>1, <2>3
    <2> QED BY <1>6, <2>1, <2>2, <2>3, <2>4
  <1>9. m \in 0..k
    BY <1>4, <1>6, <1>7, <1>8
  <1>10. Len(Complete(p)) = k /\ SubSeq(Complete(p), 1, m) = SubSeq(Stream(p), 1, m)
    <2> DEFINE s == Stream(p)
               t == SubSeq(s, 1, k)
               u == SubSeq(s, k + 1, Len(s))
    <2>1. s \in Seq(Byte)
      BY <1>7, Joined
    <2>2. k \in 0..Len(s)
      BY <1>4
    <2> HIDE DEF s
    <2>3. t \in Seq(Byte) /\ u \in Seq(Byte) /\ t \o u = s /\ Len(u) = Len(s) - k
      BY <2>1, <2>2, SplitSequence
    <2> HIDE DEF t, u
    <2>4. Len(t) = k
      <3>1. Len(s) = Len(t) + Len(u)
        BY <2>3, Joined
      <3>2. Len(t) \in Nat /\ Len(u) \in Nat /\ Len(s) \in Nat
        BY <2>1, <2>3
      <3> QED BY <2>2, <2>3, <3>1, <3>2
    <2>5. SubSeq(t \o u, 1, m) = SubSeq(t, 1, m)
      BY <1>9, <2>3, <2>4, PrefixOfJoin
    <2> QED BY <1>5, <2>3, <2>4, <2>5 DEF s, t
  <1>11. SubSeq(Stream(p), 1, m) = h \o first
    <2> DEFINE a == h \o first
               b == rest \o w
    <2>1. a \in Seq(Byte) /\ b \in Seq(Byte) /\ Len(a) = m /\ Stream(p) = a \o b
      BY <1>7, <1>8
    <2> HIDE DEF a, b
    <2>2. Len(a) \in 0..Len(a)
      BY <2>1
    <2>3. SubSeq(a \o b, 1, Len(a)) = a
      BY <2>1, <2>2, PrefixOfJoin, SubSeqFull
    <2> QED BY <2>1, <2>3 DEF a
  <1>12. m <= k /\ n \in 0..k
    <2>1. k \in Nat
      BY <1>4, <1>7, <1>8
    <2> QED BY <1>6, <1>8, <1>9, <2>1
  <1> QED BY <1>10, <1>11, <1>12 DEF h, c, first, m

LEMMA WorkersRefine ==
  ASSUME IInv, IInv', SInv, NEW e \in Ends, Worker(e)
  PROVE  [Streams!Next]_<<[f \in Ends |-> Complete(f)], [f \in Ends |-> heard[Peer(f)]]>>
  <1>1. TypeOK
    BY DEF IInv, Plain
  <1>2. CASE EpollWait(e) \/ InspectWritten(e) \/ PostWritten(e)
    <2>1. UNCHANGED <<wbuf, chan, heard, mutex, sender>>
      BY <1>2 DEF EpollWait, InspectWritten, PostWritten
    <2>2. \A f \in Ends : Complete(f)' = Complete(f)
      BY <2>1 DEF Complete, Stream, Rest
    <2> QED BY <2>1, <2>2, NothingCompleted
  <1>3. CASE WriteCallback(e)
    <2>1. UNCHANGED <<mutex, heard, sender>> /\ \A f \in Ends : Stream(f)' = Stream(f)
      BY <1>3, WriteCallbackSends
    <2>2. \A f \in Ends : Complete(f)' = Complete(f)
      BY <2>1 DEF Complete, Rest
    <2> QED BY <2>1, <2>2, NothingCompleted
  <1>4. CASE ReadCallback(e)
    <2> DEFINE n == Lesser(Len(chan[e]), ReadRoom)
               p == Peer(e)
    <2>1. p \in Ends /\ Peer(p) = e /\ \A f \in Ends \ {p} : Peer(f) # e
      BY PeerIsOther
    <2>2. n \in 0..Len(chan[e])
      <3>1. Len(chan[e]) \in Nat
        BY <1>1 DEF TypeOK
      <3> QED BY <3>1, Sizes DEF Lesser
    <2>3. /\ chan' = [chan EXCEPT ![e] = SubSeq(@, n + 1, Len(@))]
          /\ heard' = [heard EXCEPT ![e] = @ \o SubSeq(chan[e], 1, n)]
          /\ UNCHANGED <<wbuf, mutex, sender>>
      BY <1>4 DEF ReadCallback
    <2> HIDE DEF n, p
    <2>4. \A f \in Ends : Stream(f)' = Stream(f)
      BY <2>2, <2>3, ReadKeepsStreams DEF IInv, Plain
    <2>5. \A f \in Ends : Complete(f)' = Complete(f)
      BY <2>3, <2>4 DEF Complete, Rest
    <2>6. /\ Len(heard[e]) + n <= Len(Complete(p)) /\ n \in 0..Len(Complete(p))
          /\ heard[e] \o SubSeq(chan[e], 1, n) = SubSeq(Complete(p), 1, Len(heard[e]) + n)
      BY <2>1, <2>2, ReceivedWasSent
    <2>7. heard'[e] = SubSeq(Complete(p), 1, Len(heard[e]) + n)
          /\ \A f \in Ends \ {e} : heard'[f] = heard[f]
      BY <1>1, <2>3, <2>6 DEF TypeOK
    <2> DEFINE received == [f \in Ends |-> heard[Peer(f)]]
               sent == [f \in Ends |-> Complete(f)]
    <2>8. received' = [received EXCEPT ![p] = SubSeq(sent[p], 1, Len(@) + n)]
      <3>1. \A f \in Ends : received'[f] = IF f = p THEN SubSeq(Complete(p), 1, Len(heard[e]) + n)
                                                      ELSE received[f]
        BY <2>1, <2>7, PeerIsOther
      <3>2. received[p] = heard[e] /\ sent[p] = Complete(p)
        BY <2>1
      <3> QED BY <3>1, <3>2
    <2>9. sent' = sent
      BY <2>5
    <2>10. Streams!Receive(p, n)
      BY <2>1, <2>6, <2>8, <2>9 DEF Streams!Receive
    <2>11. sent[p] = Complete(p)
      BY <2>1
    <2> QED BY <2>1, <2>6, <2>10, <2>11 DEF Streams!Next
  <1> QED BY <1>2, <1>3, <1>4 DEF Worker

LEMMA InitIsStreamsInit == Init => Streams!Init
  <1> SUFFICES ASSUME Init
               PROVE  Streams!Init
    OBVIOUS
  <1>1. \A e \in Ends : heard[Peer(e)] = <<>> /\ chan[Peer(e)] = <<>>
    BY PeerIsOther DEF Init
  <1>2. \A e \in Ends : Contents(wbuf[e]) = <<>>
    <2>1. Good(Allocate) /\ GetSize(Allocate) = 0
      BY AllocateIsGood
    <2>2. Contents(Allocate) = <<>>
      BY <2>1, ContentsIsSequence, EmptySeq
    <2> QED BY <2>2 DEF Init
  <1>3. \A e \in Ends : Stream(e) = <<>> /\ Rest(e) = 0
    <2>1. (<<>> \o <<>>) \o <<>> = <<>>
      OBVIOUS
    <2> QED BY <1>1, <1>2, <2>1 DEF Init, Stream, Rest
  <1>4. \A e \in Ends : Complete(e) = <<>>
    <2>1. Len(<<>>) - 0 = 0 /\ SubSeq(<<>>, 1, 0) = <<>>
      BY SubSeqEmpty
    <2> QED BY <1>3, <2>1 DEF Complete
  <1> QED BY <1>1, <1>4 DEF Streams!Init

(* The sockets implement a stream of packets in each direction: packets    *)
(* written in two pieces by any number of threads appear in one step each, *)
(* and the peer receives the bytes of them, in order, once.                *)
THEOREM ImplementsPacketStream ==
  ASSUME ChecksSpace
  PROVE  Spec => IsPacketStream
  <1>1. IInv /\ IInv' /\ SInv /\ [Next]_vars =>
          [Streams!Next]_<<[e \in Ends |-> Complete(e)], [e \in Ends |-> heard[Peer(e)]]>>
    <2> SUFFICES ASSUME IInv, IInv', SInv, [Next]_vars
                 PROVE  [Streams!Next]_<<[e \in Ends |-> Complete(e)], [e \in Ends |-> heard[Peer(e)]]>>
      OBVIOUS
    <2>1. CASE UNCHANGED vars
      <3>1. \A f \in Ends : Complete(f)' = Complete(f)
        BY <2>1 DEF vars, Complete, Stream, Rest
      <3> QED BY <2>1, <3>1, NothingCompleted DEF vars
    <2> QED BY <2>1, SendersRefine, WorkersRefine DEF Next
  <1> QED BY <1>1, InitIsStreamsInit, Inductive, StallsInductive, PTL DEF Spec, IsPacketStream, Streams!Spec

===============================================================================
