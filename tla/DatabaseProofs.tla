---------------------------- MODULE DatabaseProofs ----------------------------
(***************************************************************************)
(* Proofs about Database, for any number of callers, queries and           *)
(* connections: type correctness, no thread left asleep beside a full      *)
(* queue, and the refinement of QueryService.                              *)
(***************************************************************************)
EXTENDS Database, FiniteSets, FiniteSetTheorems, TLAPS

Before(q, r) == q.from = r.from => q.n < r.n

(* Sent to the server, with an answer or with an error.                    *)
Met == performed \cup failed

Again(w) == thread[w] \in {"resend", "resendDrained"}

(* Where a thread is tells what it holds.                                  *)
Place(w) ==
  /\ thread[w] \in {"perform", "resend", "release", "resendDrained"} => w \in connected
  /\ thread[w] \in {"connect", "drain", "drained", "end", "done"} => w \notin connected
  /\ w = "buffers" /\ thread[w] \in {"pop", "wait"} => w \in connected
  /\ thread[w] \in {"perform", "resend", "drained", "resendDrained"} => hand[w] # <<>>
  /\ thread[w] \in {"pop", "wait", "release", "drain", "end", "done"} => hand[w] = <<>>
  /\ w = "buffers" /\ thread[w] = "connect" => hand[w] = <<>>
  /\ alive[w] <=> thread[w] # "done"

(* A caller performs a query of a thread's stream itself only when the     *)
(* thread is gone for good, and holds a connection across steps only to    *)
(* send it again.                                                          *)
Directly(c) ==
  /\ c \in connected <=> caller[c] = "resend"
  /\ caller[c] \in {"perform", "resend"} /\ asking[c].to \in Workers
       => thread[asking[c].to] = "done"
  /\ caller[c] = "push" => asking[c].to \in Workers

Connected == IsFiniteSet(connected) /\ free + Cardinality(connected) = Connections

Control ==
  /\ Connected
  /\ \A w \in Workers : Place(w)
  /\ \A c \in Callers : Directly(c)

(* Met, in hand, in the queue, under way: that is the order in which a     *)
(* caller made the queries it gave to a thread that is not yet ending;     *)
(* only a query about to be sent again is in two of these places.          *)
Numbered ==
  /\ \A c \in Callers : asking[c].from = c
  /\ \A w \in Workers : \A q \in Held(w) : q.to = w /\ q.n <= asking[q.from].n
  /\ \A q \in Met : q.n <= asking[q.from].n

Sorted ==
  \A w \in Workers : \A i, j \in 1..Len(queue[w]) :
    i < j => Before(queue[w][i], queue[w][j])

HandFirst ==
  \A w \in Workers : \A q \in Range(hand[w]), r \in Range(queue[w]) : Before(q, r)

MetFirst ==
  \A w \in Workers : thread[w] \notin {"end", "done"} =>
    \A r \in Met, q \in Held(w) :
      r.to = w => Before(r, q) \/ (Again(w) /\ r = q /\ q \in Range(hand[w]))

UnderWayLast ==
  \A c \in Callers : caller[c] # "idle" =>
    /\ \A w \in Workers : \A q \in Held(w) : Before(q, asking[c])
    /\ \A q \in Met : Before(q, asking[c]) \/ (caller[c] = "resend" /\ q = asking[c])

Order == Numbered /\ Sorted /\ HandFirst /\ MetFirst /\ UnderWayLast

IInv == TypeOK /\ Control /\ NoSleepOnWork /\ Order

-------------------------------------------------------------------------------
(* What Append, Head and Tail do to the members of a sequence.             *)

LEMMA RangeOfAppend ==
  ASSUME NEW S, NEW s \in Seq(S), NEW e \in S
  PROVE  Range(Append(s, e)) = Range(s) \cup {e}
<1>1. DOMAIN s = 1..Len(s) /\ DOMAIN Append(s, e) = 1..(Len(s) + 1)
  OBVIOUS
<1>2. \A i \in 1..Len(s) : Append(s, e)[i] = s[i]
  OBVIOUS
<1>3. Append(s, e)[Len(s) + 1] = e
  OBVIOUS
<1> QED BY <1>1, <1>2, <1>3 DEF Range

LEMMA RangeOfTail ==
  ASSUME NEW S, NEW s \in Seq(S), s # <<>>
  PROVE  /\ Range(s) = {Head(s)} \cup Range(Tail(s))
         /\ Head(s) = s[1]
<1>1. DOMAIN s = 1..Len(s) /\ DOMAIN Tail(s) = 1..(Len(s) - 1) /\ Len(s) \in Nat \ {0}
  OBVIOUS
<1>2. \A i \in 1..(Len(s) - 1) : Tail(s)[i] = s[i + 1]
  OBVIOUS
<1>3. Head(s) = s[1]
  OBVIOUS
<1>4. \A i \in 1..Len(s) : i = 1 \/ (i - 1 \in 1..(Len(s) - 1) /\ Tail(s)[i - 1] = s[i])
  BY <1>1, <1>2
<1>5. \A x \in Range(s) : x \in {Head(s)} \cup Range(Tail(s))
  <2> SUFFICES ASSUME NEW i \in 1..Len(s) PROVE s[i] \in {Head(s)} \cup Range(Tail(s))
    BY <1>1 DEF Range
  <2> QED BY <1>1, <1>3, <1>4 DEF Range
<1>6. \A x \in Range(Tail(s)) : x \in Range(s)
  <2> SUFFICES ASSUME NEW i \in 1..(Len(s) - 1) PROVE Tail(s)[i] \in Range(s)
    BY <1>1 DEF Range
  <2>1. i + 1 \in DOMAIN s /\ Tail(s)[i] = s[i + 1]
    BY <1>1, <1>2
  <2> QED BY <2>1 DEF Range
<1>7. Head(s) \in Range(s)
  BY <1>1, <1>3 DEF Range
<1> QED BY <1>3, <1>5, <1>6, <1>7

LEMMA RangeOfShort ==
  /\ Range(<<>>) = {}
  /\ \A q : Range(<<q>>) = {q}
<1>1. DOMAIN <<>> = {} /\ \A q : DOMAIN <<q>> = {1} /\ <<q>>[1] = q
  OBVIOUS
<1> QED BY <1>1 DEF Range

-------------------------------------------------------------------------------
(* A hand holds one query or none.                                         *)
LEMMA HandShape ==
  ASSUME TypeOK, NEW w \in Workers
  PROVE  /\ hand[w] = <<>> => Range(hand[w]) = {}
         /\ hand[w] # <<>> => /\ Range(hand[w]) = {Head(hand[w])}
                              /\ Head(hand[w]) \in Queries
<1>1. CASE hand[w] = <<>>
  BY <1>1, RangeOfShort
<1>2. CASE hand[w] # <<>>
  <2>1. PICK q \in Queries : hand[w] = <<q>>
    BY <1>2 DEF TypeOK
  <2>2. Head(hand[w]) = q
    BY <2>1
  <2> QED BY <1>2, <2>1, <2>2, RangeOfShort
<1> QED BY <1>1, <1>2

(* A pop moves the first query from the queue to the hand.                 *)
LEMMA TakeFacts ==
  ASSUME TypeOK, NEW w \in Workers, Take(w), hand[w] = <<>>
  PROVE  /\ queue' \in [Workers -> Seq(Queries)]
         /\ DOMAIN hand' = Workers
         /\ \A v \in Workers : hand'[v] = <<>> \/ \E q \in Queries : hand'[v] = <<q>>
         /\ \A v \in Workers : v # w => queue'[v] = queue[v] /\ hand'[v] = hand[v]
         /\ queue[w] = <<>> => queue'[w] = <<>> /\ hand'[w] = <<>>
         /\ queue[w] # <<>> => /\ queue'[w] = Tail(queue[w])
                               /\ hand'[w] = <<Head(queue[w])>>
                               /\ Head(queue[w]) = queue[w][1]
                               /\ Range(queue[w]) = {Head(queue[w])} \cup Range(queue'[w])
         /\ \A v \in Workers : Held(v)' = Held(v)
<1>1. queue \in [Workers -> Seq(Queries)] /\ queue[w] \in Seq(Queries)
  BY DEF TypeOK
<1>2. queue[w] # <<>> => Head(queue[w]) \in Queries /\ Tail(queue[w]) \in Seq(Queries)
  BY <1>1
<1>3. queue' \in [Workers -> Seq(Queries)]
  BY <1>1, <1>2 DEF Take
<1>4. /\ DOMAIN hand' = Workers
      /\ \A v \in Workers : v # w => queue'[v] = queue[v] /\ hand'[v] = hand[v]
  BY DEF Take, TypeOK
<1>5. queue[w] = <<>> => queue'[w] = <<>> /\ hand'[w] = <<>>
  BY <1>1 DEF Take, TypeOK
<1>6. queue[w] # <<>> => queue'[w] = Tail(queue[w]) /\ hand'[w] = <<Head(queue[w])>>
  BY <1>1 DEF Take, TypeOK
<1>7. \A v \in Workers : hand'[v] = <<>> \/ \E q \in Queries : hand'[v] = <<q>>
  BY <1>2, <1>4, <1>5, <1>6 DEF TypeOK
<1>8. queue[w] # <<>> => /\ Head(queue[w]) = queue[w][1]
                         /\ Range(queue[w]) = {Head(queue[w])} \cup Range(queue'[w])
  BY <1>1, <1>6, RangeOfTail
<1>9. ASSUME NEW v \in Workers PROVE Held(v)' = Held(v)
  <2>1. CASE v # w
    BY <1>4, <2>1 DEF Held
  <2>2. CASE v = w /\ queue[w] = <<>>
    BY <1>5, <2>2 DEF Held
  <2>3. CASE v = w /\ queue[w] # <<>>
    BY <1>6, <1>8, <2>3, RangeOfShort DEF Held
  <2> QED BY <2>1, <2>2, <2>3
<1> QED BY <1>3, <1>4, <1>5, <1>6, <1>7, <1>8, <1>9

(* Whatever comes of it, a query that is sent has met the server; if it is *)
(* to be sent again it has failed.                                         *)
LEMMA SendFacts ==
  ASSUME NEW q, NEW again \in BOOLEAN, Send(q, again)
  PROVE  /\ Met' = Met \cup {q}
         /\ again => q \in failed'
         /\ q \in Queries /\ performed \subseteq Queries /\ repeated \subseteq performed
              /\ failed \subseteq Queries
              => performed' \subseteq Queries /\ repeated' \subseteq performed'
                   /\ failed' \subseteq Queries
<1>1. PICK done \in BOOLEAN, ok \in BOOLEAN :
        /\ ok => done /\ ~again
        /\ performed' = IF done THEN performed \cup {q} ELSE performed
        /\ repeated' = IF done THEN repeated \cup ({q} \cap performed) ELSE repeated
        /\ failed' = IF ok THEN failed ELSE failed \cup {q}
  BY DEF Send
<1> QED BY <1>1 DEF Met

(* Order says nothing of where the threads are, except that it asks less   *)
(* of a thread that is ending.                                             *)
LEMMA OrderKept ==
  ASSUME Order, UNCHANGED <<queue, hand, callers, server>>,
         \A w \in Workers :
           /\ thread[w] \in {"end", "done"} => thread'[w] \in {"end", "done"}
           /\ Again(w)' <=> Again(w)
  PROVE  Order'
<1> Met' = Met
  BY DEF Met, server
<1>1. \A w \in Workers : Held(w)' = Held(w)
  BY DEF Held
<1>2. Numbered' /\ Sorted' /\ HandFirst' /\ UnderWayLast'
  BY <1>1 DEF Order, Numbered, Sorted, HandFirst, UnderWayLast, callers
<1>3. MetFirst'
  BY <1>1 DEF Order, MetFirst
<1> QED BY <1>2, <1>3 DEF Order

(* A pop keeps the order.                                                  *)
LEMMA OrderOfTake ==
  ASSUME TypeOK, Order, NEW w \in Workers, Take(w), hand[w] = <<>>,
         UNCHANGED <<callers, server>>, ~Again(w),
         \A v \in Workers :
           /\ thread[v] \in {"end", "done"} => thread'[v] \in {"end", "done"}
           /\ Again(v)' <=> Again(v)
  PROVE  Order'
<1> Met' = Met
  BY DEF Met, server
<1>1. \A v \in Workers : Held(v)' = Held(v)
  BY TakeFacts
<1>2. Numbered' /\ UnderWayLast'
  BY <1>1 DEF Order, Numbered, UnderWayLast, callers
<1>3. MetFirst'
  <2>1. \A v \in Workers : v # w => hand'[v] = hand[v]
    BY TakeFacts
  <2> QED BY <1>1, <2>1 DEF Order, MetFirst
<1>4. queue[w] \in Seq(Queries)
  BY DEF TypeOK
<1>5. CASE queue[w] = <<>>
  <2>1. \A v \in Workers : queue'[v] = queue[v] /\ hand'[v] = hand[v]
    BY <1>5, TakeFacts
  <2>2. Sorted' /\ HandFirst'
    BY <2>1 DEF Order, Sorted, HandFirst
  <2> QED BY <1>2, <1>3, <2>2 DEF Order
<1>6. CASE queue[w] # <<>>
  <2>1. /\ queue'[w] = Tail(queue[w]) /\ hand'[w] = <<queue[w][1]>>
        /\ \A v \in Workers : v # w => queue'[v] = queue[v] /\ hand'[v] = hand[v]
    BY <1>6, TakeFacts
  <2>2. /\ Len(queue'[w]) = Len(queue[w]) - 1
        /\ Len(queue[w]) \in Nat \ {0}
        /\ \A i \in 1..Len(queue'[w]) : queue'[w][i] = queue[w][i + 1]
        /\ DOMAIN queue'[w] = 1..Len(queue'[w])
    BY <1>4, <1>6, <2>1
  <2>3. ASSUME NEW i \in 1..Len(queue'[w]), NEW j \in 1..Len(queue'[w]), i < j
        PROVE  Before(queue'[w][i], queue'[w][j])
    <3>1. i + 1 \in 1..Len(queue[w]) /\ j + 1 \in 1..Len(queue[w]) /\ i + 1 < j + 1
      BY <2>2, <2>3
    <3>2. Before(queue[w][i + 1], queue[w][j + 1])
      BY <3>1 DEF Order, Sorted
    <3> QED BY <2>2, <3>2
  <2>4. Sorted'
    BY <2>1, <2>3 DEF Order, Sorted, Before
  <2>5. ASSUME NEW r \in Range(queue'[w]) PROVE Before(queue[w][1], r)
    <3>1. PICK i \in 1..Len(queue'[w]) : r = queue'[w][i]
      BY <2>2 DEF Range
    <3>2. 1 \in 1..Len(queue[w]) /\ i + 1 \in 1..Len(queue[w]) /\ 1 < i + 1
      BY <2>2
    <3> QED BY <2>2, <3>1, <3>2 DEF Order, Sorted
  <2>6. Range(hand'[w]) = {queue[w][1]}
    BY <2>1, RangeOfShort
  <2>7. HandFirst'
    BY <2>1, <2>5, <2>6 DEF Order, HandFirst, Before
  <2> QED BY <1>2, <1>3, <2>4, <2>7 DEF Order
<1> QED BY <1>5, <1>6

(* A query sent out of the hand for the last time was the thread's oldest. *)
LEMMA OrderOfPerform ==
  ASSUME TypeOK, Control, Order, NEW w \in Workers,
         thread[w] \in {"perform", "resend", "drained", "resendDrained"},
         Met' = Met \cup {Head(hand[w])},
         hand' = [hand EXCEPT ![w] = <<>>],
         UNCHANGED <<queue, callers>>,
         thread'[w] \notin {"end", "done"}, \A v \in Workers : v # w => thread'[v] = thread[v]
  PROVE  Order'
<1> DEFINE q == Head(hand[w])
<1>1. /\ hand[w] # <<>> /\ q \in Queries /\ Range(hand[w]) = {q}
  BY HandShape DEF Control, Place
<1>2. /\ \A v \in Workers : v # w => hand'[v] = hand[v]
      /\ hand'[w] = <<>> /\ Range(hand'[w]) = {}
      /\ queue' = queue /\ asking' = asking /\ caller' = caller
  BY RangeOfShort DEF TypeOK, callers
<1>3. /\ \A v \in Workers : v # w => Held(v)' = Held(v)
      /\ Held(w)' = Range(queue[w])
      /\ Held(w) = Range(queue[w]) \cup {q}
  BY <1>1, <1>2 DEF Held
<1>4. q \in Held(w) /\ q.to = w /\ q.n <= asking[q.from].n
  BY <1>3 DEF Order, Numbered
<1>5. Numbered'
  BY <1>2, <1>3, <1>4 DEF Order, Numbered
<1>6. Sorted' /\ HandFirst'
  BY <1>2 DEF Order, Sorted, HandFirst
<1>7. UnderWayLast'
  BY <1>2, <1>3, <1>4 DEF Order, UnderWayLast
<1>8. ASSUME NEW v \in Workers, thread'[v] \notin {"end", "done"},
             NEW r \in Met', NEW p \in Held(v)', r.to = v
      PROVE  Before(r, p) \/ (Again(v)' /\ r = p /\ p \in Range(hand'[v]))
  <2>1. CASE r = q
    <3>1. v = w /\ p \in Range(queue[w])
      BY <1>3, <1>4, <1>8, <2>1
    <3> QED BY <1>1, <2>1, <3>1 DEF Order, HandFirst
  <2>2. CASE r \in Met /\ v # w
    <3>1. p \in Held(v) /\ thread[v] \notin {"end", "done"} /\ hand'[v] = hand[v]
      BY <1>2, <1>3, <1>8, <2>2
    <3>2. Before(r, p) \/ (Again(v) /\ r = p /\ p \in Range(hand[v]))
      BY <1>8, <2>2, <3>1 DEF Order, MetFirst
    <3>3. Again(v)' <=> Again(v)
      BY <2>2 DEF Again
    <3> QED BY <3>1, <3>2, <3>3
  <2>3. CASE r \in Met /\ v = w
    <3>1. p \in Held(w) /\ p \in Range(queue[w]) /\ thread[w] \notin {"end", "done"}
      BY <1>3, <1>8, <2>3
    <3>2. Before(r, p) \/ (r = p /\ p \in Range(hand[w]))
      BY <1>8, <2>3, <3>1 DEF Order, MetFirst
    <3>3. CASE r = p /\ p \in Range(hand[w])
      BY <3>1, <3>3 DEF Order, HandFirst
    <3> QED BY <3>2, <3>3
  <2> QED BY <2>1, <2>2, <2>3, <1>8
<1>9. MetFirst'
  BY <1>8 DEF MetFirst, Before, Held, Again
<1> QED BY <1>5, <1>6, <1>7, <1>9 DEF Order

(* Nor does it lose its place while it is to be sent again.                *)
LEMMA OrderOfRetry ==
  ASSUME TypeOK, Control, Order, NEW w \in Workers,
         thread[w] \in {"perform", "drained"}, Again(w)',
         Met' = Met \cup {Head(hand[w])},
         UNCHANGED <<queue, hand, callers>>,
         \A v \in Workers : v # w => thread'[v] = thread[v]
  PROVE  Order'
<1> DEFINE q == Head(hand[w])
<1>1. /\ q \in Queries /\ Range(hand[w]) = {q}
      /\ Held(w) = Range(queue[w]) \cup {q}
      /\ \A v \in Workers : Held(v)' = Held(v)
  BY HandShape DEF Control, Place, Held
<1>2. q \in Held(w) /\ q.to = w /\ q.n <= asking[q.from].n
  BY <1>1 DEF Order, Numbered
<1>3. Numbered' /\ Sorted' /\ HandFirst' /\ UnderWayLast'
  <2>1. Numbered'
    BY <1>1 DEF Order, Numbered, callers
  <2>2. Sorted' /\ HandFirst'
    BY DEF Order, Sorted, HandFirst
  <2>3. UnderWayLast'
    <3>1. ASSUME NEW c \in Callers, caller[c] # "idle", NEW r \in Met'
          PROVE  Before(r, asking[c]) \/ (caller[c] = "resend" /\ r = asking[c])
      <4>1. CASE r \in Met
        BY <3>1, <4>1 DEF Order, UnderWayLast
      <4>2. CASE r = q
        BY <1>2, <3>1, <4>2 DEF Order, UnderWayLast
      <4> QED BY <3>1, <4>1, <4>2
    <3>2. ASSUME NEW c \in Callers, caller[c] # "idle", NEW v \in Workers, NEW r \in Held(v)
          PROVE  Before(r, asking[c])
      BY <3>2 DEF Order, UnderWayLast
    <3> QED BY <1>1, <3>1, <3>2 DEF UnderWayLast, callers, Before
  <2> QED BY <2>1, <2>2, <2>3
<1>4. ASSUME NEW v \in Workers, thread'[v] \notin {"end", "done"},
             NEW r \in Met', NEW p \in Held(v), r.to = v
      PROVE  Before(r, p) \/ (Again(v)' /\ r = p /\ p \in Range(hand[v]))
  <2>1. CASE r = q
    <3>1. v = w
      BY <1>2, <1>4, <2>1
    <3> QED BY <1>1, <1>4, <2>1, <3>1 DEF Order, HandFirst
  <2>2. CASE r \in Met
    <3>1. thread[v] \notin {"end", "done"} /\ (Again(v) => Again(v)')
      BY <1>4 DEF Again
    <3> QED BY <1>4, <2>2, <3>1 DEF Order, MetFirst
  <2> QED BY <1>4, <2>1, <2>2
<1>5. MetFirst'
  BY <1>1, <1>4 DEF MetFirst, Before, Held, Again
<1> QED BY <1>3, <1>5 DEF Order

LEMMA OrderOfCall ==
  ASSUME TypeOK, Order, NEW c \in Callers, NEW v \in Streams, Call(c, v)
  PROVE  Order'
<1>1. /\ asking' = [asking EXCEPT ![c] = [from |-> c, to |-> v, n |-> asking[c].n + 1]]
      /\ asking \in [Callers -> Queries] /\ asking[c].n \in Nat
      /\ caller[c] = "idle"
      /\ \A d \in Callers : d # c => caller'[d] = caller[d]
      /\ UNCHANGED <<queue, hand, thread>> /\ Met' = Met
      /\ caller'[c] # "resend"
  BY DatabaseAssumption DEF Call, TypeOK, Queries, connections, server, Met
<1>2. /\ \A w \in Workers : Held(w)' = Held(w)
      /\ \A d \in Callers : d # c => asking'[d] = asking[d]
      /\ asking'[c] = [from |-> c, to |-> v, n |-> asking[c].n + 1]
  BY <1>1 DEF Held
<1>3. /\ \A w \in Workers : \A q \in Held(w) : q \in Queries
      /\ \A q \in Met : q \in Queries
  <2>1. ASSUME NEW w \in Workers, NEW q \in Range(queue[w]) PROVE q \in Queries
    <3>1. queue[w] \in Seq(Queries)
      BY DEF TypeOK
    <3>2. PICK i \in 1..Len(queue[w]) : q = queue[w][i]
      BY <3>1 DEF Range
    <3> QED BY <3>1, <3>2
  <2>2. ASSUME NEW w \in Workers, NEW q \in Range(hand[w]) PROVE q \in Queries
    <3>1. CASE hand[w] = <<>>
      <4>1. Range(hand[w]) = {}
        BY <3>1, HandShape
      <4> QED BY <4>1
    <3>2. CASE hand[w] # <<>>
      <4>1. Range(hand[w]) = {Head(hand[w])} /\ Head(hand[w]) \in Queries
        BY <3>2, HandShape
      <4> QED BY <4>1
    <3> QED BY <3>1, <3>2
  <2> QED BY <2>1, <2>2 DEF Held, TypeOK, Met
<1>4. Numbered'
  <2>1. \A q \in Queries : q.n <= asking[q.from].n => q.n <= asking'[q.from].n
    <3> SUFFICES ASSUME NEW q \in Queries, q.n <= asking[q.from].n
                 PROVE  q.n <= asking'[q.from].n
      OBVIOUS
    <3>1. q.n \in Nat /\ q.from \in Callers
      BY DatabaseAssumption DEF Queries
    <3>2. CASE q.from = c
      BY <1>1, <1>2, <3>1, <3>2
    <3>3. CASE q.from # c
      BY <1>2, <3>1, <3>3
    <3> QED BY <3>2, <3>3
  <2>2. \A d \in Callers : asking'[d].from = d
    BY <1>2 DEF Order, Numbered
  <2> QED BY <1>1, <1>2, <1>3, <2>1, <2>2 DEF Order, Numbered
<1>5. ASSUME NEW q \in Queries, q.n <= asking[q.from].n PROVE Before(q, asking'[c])
  BY <1>1, <1>2, <1>5, DatabaseAssumption DEF Before, Queries
<1>6. UnderWayLast'
  BY <1>1, <1>2, <1>3, <1>5 DEF Order, UnderWayLast, Numbered
<1>7. Sorted' /\ HandFirst' /\ MetFirst'
  BY <1>1, <1>2 DEF Order, Sorted, HandFirst, MetFirst, Again
<1> QED BY <1>4, <1>6, <1>7 DEF Order

LEMMA OrderOfPush ==
  ASSUME TypeOK, Control, Order, NEW c \in Callers, CallPush(c)
  PROVE  Order'
<1> DEFINE q == asking[c]
           w == q.to
<1>1. /\ q \in Queries /\ w \in Workers
      /\ caller[c] # "idle" /\ caller'[c] = "idle"
      /\ \A d \in Callers : d # c => caller'[d] = caller[d]
      /\ queue' = [queue EXCEPT ![w] = Append(queue[w], q)]
      /\ caller[c] = "push"
      /\ UNCHANGED <<hand, asking, thread>> /\ Met' = Met
  BY DEF CallPush, Push, TypeOK, Queries, Control, Directly, server, Met
<1>2. queue[w] \in Seq(Queries) /\ queue'[w] = Append(queue[w], q)
      /\ \A v \in Workers : v # w => queue'[v] = queue[v]
  BY <1>1 DEF TypeOK
<1>3. /\ Range(queue'[w]) = Range(queue[w]) \cup {q}
      /\ Held(w)' = Held(w) \cup {q}
      /\ \A v \in Workers : v # w => Held(v)' = Held(v)
  BY <1>1, <1>2, RangeOfAppend DEF Held
<1>4. /\ \A v \in Workers : \A r \in Held(v) : Before(r, q)
      /\ \A r \in Met : Before(r, q)
      /\ q.from = c
  BY <1>1 DEF Order, UnderWayLast, Numbered
<1>5. Numbered'
  <2>1. q.n <= asking[q.from].n
    BY <1>1, <1>4, DatabaseAssumption DEF Queries
  <2> QED BY <1>1, <1>3, <2>1 DEF Order, Numbered
<1>6. Sorted'
  <2>1. /\ Len(queue'[w]) = Len(queue[w]) + 1 /\ Len(queue[w]) \in Nat
        /\ \A i \in 1..Len(queue[w]) : queue'[w][i] = queue[w][i]
        /\ queue'[w][Len(queue[w]) + 1] = q
    BY <1>1, <1>2
  <2> HIDE DEF q, w
  <2>2. ASSUME NEW i \in 1..Len(queue'[w]), NEW j \in 1..Len(queue'[w]), i < j
        PROVE  Before(queue'[w][i], queue'[w][j])
    <3>1. i \in 1..Len(queue[w])
      BY <2>1, <2>2
    <3>2. CASE j \in 1..Len(queue[w])
      BY <1>1, <2>1, <2>2, <3>1, <3>2 DEF Order, Sorted
    <3>3. CASE j = Len(queue[w]) + 1
      <4>1. queue[w][i] \in Held(w)
        BY <1>2, <3>1 DEF Held, Range
      <4>2. Before(queue[w][i], q)
        BY <1>1, <1>4, <4>1
      <4>3. queue'[w][i] = queue[w][i] /\ queue'[w][j] = q
        BY <2>1, <3>1, <3>3
      <4> QED BY <4>2, <4>3
    <3> QED BY <2>1, <2>2, <3>2, <3>3
  <2> QED BY <1>2, <2>2 DEF Order, Sorted, Before
<1>7. HandFirst'
  <2>1. \A r \in Range(hand[w]) : Before(r, q)
    BY <1>1, <1>4 DEF Held
  <2> SUFFICES ASSUME NEW v \in Workers, NEW r \in Range(hand'[v]), NEW x \in Range(queue'[v])
               PROVE  Before(r, x)
    BY DEF HandFirst, Before
  <2>2. hand' = hand
    BY <1>1
  <2>3. CASE v = w /\ x = q
    BY <2>1, <2>2, <2>3
  <2>4. CASE x \in Range(queue[v])
    BY <2>2, <2>4 DEF Order, HandFirst
  <2> QED BY <1>2, <1>3, <2>3, <2>4
<1>8. MetFirst'
  BY <1>1, <1>3, <1>4 DEF Order, MetFirst, Before, Again
<1>9. UnderWayLast'
  <2>1. \A d \in Callers : d # c => Before(q, asking[d])
    BY <1>4 DEF Before, Order, Numbered
  <2> QED BY <1>1, <1>3, <2>1 DEF Order, UnderWayLast
<1> QED BY <1>5, <1>6, <1>7, <1>8, <1>9 DEF Order

LEMMA OrderOfCallPerform ==
  ASSUME TypeOK, Control, Order, NEW c \in Callers, CallPerform(c) \/ CallResend(c)
  PROVE  Order'
<1> DEFINE q == asking[c]
<1>1. /\ q \in Queries /\ q.from = c
      /\ caller[c] \in {"perform", "resend"} /\ caller'[c] \in {"idle", "resend"}
      /\ \A d \in Callers : d # c => caller'[d] = caller[d]
      /\ Met' = Met \cup {q}
      /\ UNCHANGED <<queue, hand, asking, thread>>
  BY SendFacts DEF CallPerform, CallResend, TypeOK, Order, Numbered
<1>2. /\ \A v \in Workers : Held(v)' = Held(v)
      /\ q.to \in Workers => thread[q.to] = "done"
  BY <1>1 DEF Held, Control, Directly
<1>3. Numbered'
  BY <1>1, <1>2, DatabaseAssumption DEF Order, Numbered, Queries
<1>4. Sorted' /\ HandFirst'
  BY <1>1 DEF Order, Sorted, HandFirst
<1>5. MetFirst'
  BY <1>1, <1>2 DEF Order, MetFirst, Again
<1>6. UnderWayLast'
  <2>1. \A d \in Callers : d # c => Before(q, asking[d])
    BY <1>1 DEF Before, Order, Numbered
  <2>2. \A r \in Met : Before(r, q) \/ r = q
    BY <1>1 DEF Order, UnderWayLast
  <2> QED BY <1>1, <1>2, <2>1, <2>2 DEF Order, UnderWayLast
<1> QED BY <1>3, <1>4, <1>5, <1>6 DEF Order

-------------------------------------------------------------------------------
(* A connection taken or given back.                                       *)
LEMMA FreeStep ==
  ASSUME TypeOK, Connected, NEW t \in Workers \cup Callers,
         \/ t \notin connected /\ TakeConnection(t)
         \/ t \in connected /\ GiveBack(t)
  PROVE  /\ free' \in 0..Connections /\ Connected'
         /\ connected' \subseteq Workers \cup Callers
<1> USE DatabaseAssumption
<1>1. /\ free \in Nat /\ IsFiniteSet(connected) /\ free + Cardinality(connected) = Connections
      /\ connected \subseteq Workers \cup Callers
  BY DEF TypeOK, Connected
<1>2. CASE t \notin connected /\ TakeConnection(t)
  <2>1. connected' = connected \cup {t} /\ free' = free - 1 /\ free > 0
    BY <1>2 DEF TakeConnection
  <2>2. IsFiniteSet(connected') /\ Cardinality(connected') = Cardinality(connected) + 1
    BY <1>1, <1>2, <2>1, FS_AddElement
  <2>3. Cardinality(connected) \in Nat
    BY <1>1, FS_CardinalityType
  <2>4. free' \in 0..Connections /\ free' + Cardinality(connected') = Connections
    BY <1>1, <2>1, <2>2, <2>3
  <2> QED BY <1>1, <2>1, <2>2, <2>4 DEF Connected
<1>3. CASE t \in connected /\ GiveBack(t)
  <2>1. connected' = connected \ {t} /\ free' = free + 1
    BY <1>3 DEF GiveBack
  <2>2. IsFiniteSet(connected') /\ Cardinality(connected') = Cardinality(connected) - 1
    BY <1>1, <1>3, <2>1, FS_RemoveElement
  <2>3. Cardinality(connected) \in Nat /\ Cardinality(connected') \in Nat
    BY <1>1, <2>2, FS_CardinalityType
  <2>4. free' \in 0..Connections /\ free' + Cardinality(connected') = Connections
    BY <1>1, <2>1, <2>2, <2>3
  <2> QED BY <1>1, <2>1, <2>2, <2>4 DEF Connected
<1> QED BY <1>2, <1>3

(* What happens to the connections in any step.                            *)
LEMMA ConnectionsStep ==
  ASSUME TypeOK, Control, Next
  PROVE  /\ free' \in 0..Connections /\ Connected'
         /\ connected' \subseteq Workers \cup Callers
<1>1. ASSUME UNCHANGED connections
      PROVE  /\ free' \in 0..Connections /\ Connected'
             /\ connected' \subseteq Workers \cup Callers
  BY <1>1 DEF TypeOK, Control, Connected, connections
<1>2. ASSUME NEW w \in Workers, Worker(w) \/ WakeSpurious(w)
      PROVE  \/ UNCHANGED connections
             \/ w \notin connected /\ TakeConnection(w)
             \/ w \in connected /\ GiveBack(w)
  BY <1>2 DEF Worker, PopItem, PopWaits, WakeSignalled, WakeSpurious, Wake, Connect, Perform,
              Resend, Release, DrainPop, DrainPerform, DrainResend, End, Control, Place
<1>3. ASSUME NEW c \in Callers, Caller(c) \/ \E s \in Streams : Call(c, s)
      PROVE  \/ UNCHANGED connections
             \/ c \notin connected /\ TakeConnection(c)
             \/ c \in connected /\ GiveBack(c)
  BY <1>3 DEF Caller, CallPush, CallPerform, CallResend, Call, Control, Directly
<1>4. ASSUME Terminate \/ EndThreads
      PROVE  UNCHANGED connections
  BY <1>4 DEF Terminate, EndThreads, TestRunning, WakeBuffers, WakeExecutor, Broadcast,
              TestExecutor
<1> QED BY <1>1, <1>2, <1>3, <1>4, FreeStep DEF Next, Control

(* The steps that only move a thread, or only the caller of EndThreads,    *)
(* change no query's place.                                                *)
LEMMA TypeStep ==
  ASSUME TypeOK, Control, Next
  PROVE  TypeOK'
<1> USE DatabaseAssumption
<1>0. free' \in 0..Connections /\ connected' \subseteq Workers \cup Callers
  BY ConnectionsStep
<1>1. ASSUME NEW w \in Workers, PopItem(w) \/ Wake(w) \/ DrainPop(w)
      PROVE  TypeOK'
  <2>1. Take(w) /\ hand[w] = <<>>
    BY <1>1 DEF PopItem, Wake, DrainPop, Popped, Control, Place
  <2>2. /\ queue' \in [Workers -> Seq(Queries)]
        /\ DOMAIN hand' = Workers
        /\ \A v \in Workers : hand'[v] = <<>> \/ \E q \in Queries : hand'[v] = <<q>>
    BY <2>1, TakeFacts
  <2> QED BY <1>1, <2>2 DEF PopItem, Wake, DrainPop, Popped, TypeOK, connections, callers, server
<1>2. ASSUME NEW w \in Workers, Perform(w) \/ Resend(w) \/ DrainPerform(w) \/ DrainResend(w)
      PROVE  TypeOK'
  <2>1. Head(hand[w]) \in Queries
    BY <1>2, HandShape DEF Perform, Resend, DrainPerform, DrainResend, Control, Place
  <2>2. /\ DOMAIN hand' = Workers
        /\ \A v \in Workers : hand'[v] = <<>> \/ \E q \in Queries : hand'[v] = <<q>>
    <3>1. UNCHANGED hand \/ hand' = [hand EXCEPT ![w] = <<>>]
      BY <1>2 DEF Perform, Resend, DrainPerform, DrainResend, LoopGoesOn, Drained
    <3> QED BY <3>1 DEF TypeOK
  <2>3. performed' \subseteq Queries /\ repeated' \subseteq performed' /\ failed' \subseteq Queries
    BY <1>2, <2>1, SendFacts DEF Perform, Resend, DrainPerform, DrainResend, TypeOK
  <2>4. thread' \in [Workers -> {"pop", "wait", "connect", "perform", "resend", "release",
                                 "drain", "drained", "resendDrained", "end", "done"}]
    BY <1>2 DEF Perform, Resend, DrainPerform, DrainResend, LoopGoesOn, Drained, TypeOK
  <2>5. UNCHANGED <<queue, signalled, alive, terminated, callers, main>>
    BY <1>2 DEF Perform, Resend, DrainPerform, DrainResend
  <2> QED BY <1>0, <2>2, <2>3, <2>4, <2>5 DEF TypeOK, callers
<1>3. ASSUME NEW w \in Workers, PopWaits(w) \/ Connect(w) \/ Release(w) \/ End(w)
      PROVE  TypeOK'
  BY <1>0, <1>3 DEF PopWaits, Connect, Release, End, TypeOK, callers, server
<1>4. ASSUME NEW c \in Callers, NEW s \in Streams, Call(c, s)
      PROVE  TypeOK'
  <2>1. asking[c].n + 1 \in 0..MaxQueries
    <3>1. Limit[c] \in 0..MaxQueries
      BY LimitAssumption
    <3>2. asking[c].n \in 0..MaxQueries /\ asking[c].n < Limit[c]
      BY <1>4 DEF Call, TypeOK, Queries
    <3> QED BY <3>1, <3>2, DatabaseAssumption
  <2> QED BY <1>0, <1>4, <2>1 DEF Call, TypeOK, Queries, server
<1>5. ASSUME NEW c \in Callers, CallPush(c)
      PROVE  TypeOK'
  <2>1. asking[c] \in Queries /\ asking[c].to \in Workers
    BY <1>5 DEF CallPush, TypeOK, Queries, Control, Directly
  <2>2. queue' \in [Workers -> Seq(Queries)]
    BY <1>5, <2>1 DEF CallPush, Push, TypeOK
  <2>3. signalled' \in [Workers -> BOOLEAN]
    BY <1>5 DEF CallPush, Push, Signal, TypeOK
  <2> QED BY <1>0, <1>5, <2>2, <2>3 DEF CallPush, TypeOK, server
<1>6. ASSUME NEW c \in Callers, CallPerform(c) \/ CallResend(c)
      PROVE  TypeOK'
  <2>1. performed' \subseteq Queries /\ repeated' \subseteq performed' /\ failed' \subseteq Queries
    BY <1>6, SendFacts DEF CallPerform, CallResend, TypeOK
  <2>2. caller' \in [Callers -> {"idle", "push", "perform", "resend"}]
    BY <1>6 DEF CallPerform, CallResend, TypeOK
  <2>3. UNCHANGED <<queue, thread, signalled, hand, alive, terminated, asking, main>>
    BY <1>6 DEF CallPerform, CallResend
  <2> QED BY <1>0, <2>1, <2>2, <2>3 DEF TypeOK
<1>7. ASSUME Terminate \/ EndThreads
      PROVE  TypeOK'
  BY <1>0, <1>7 DEF Terminate, EndThreads, TestRunning, WakeBuffers, WakeExecutor, Broadcast,
              Signal, TestExecutor, TypeOK, callers, server
<1> QED BY <1>1, <1>2, <1>3, <1>4, <1>5, <1>6, <1>7
        DEF Next, Worker, WakeSignalled, WakeSpurious, Caller

(* A step of a thread that is not gone touches no other thread's place and *)
(* no caller's.                                                            *)
LEMMA OthersKept ==
  ASSUME TypeOK, Control, NEW w \in Workers, thread[w] # "done",
         UNCHANGED <<caller, asking>>,
         \A v \in Workers : v # w => /\ thread'[v] = thread[v] /\ hand'[v] = hand[v]
                                     /\ alive'[v] = alive[v],
         \A t : t # w => (t \in connected' <=> t \in connected)
  PROVE  /\ \A v \in Workers : v # w => Place(v)'
         /\ \A c \in Callers : Directly(c)'
<1>1. \A v \in Workers : v # w => Place(v)'
  BY DEF Control, Place
<1>2. ASSUME NEW c \in Callers PROVE Directly(c)'
  <2>1. c # w
    BY CallersAssumption
  <2> QED BY <2>1 DEF Control, Directly
<1> QED BY <1>1, <1>2

LEMMA ControlStep ==
  ASSUME TypeOK, Control, Next
  PROVE  Control'
<1> USE DatabaseAssumption
<1>0. Connected'
  BY ConnectionsStep
<1>1. ASSUME NEW w \in Workers, PopItem(w) \/ Wake(w) \/ DrainPop(w)
      PROVE  Control'
  <2>1. Take(w) /\ hand[w] = <<>>
    BY <1>1 DEF PopItem, Wake, DrainPop, Popped, Control, Place
  <2>2. /\ \A v \in Workers : v # w => hand'[v] = hand[v]
        /\ hand'[w] = <<>> <=> queue[w] = <<>>
    <3>1. queue[w] # <<>> => hand'[w] = <<Head(queue[w])>> /\ <<Head(queue[w])>> # <<>>
      BY <2>1, TakeFacts
    <3> QED BY <2>1, <3>1, TakeFacts
  <2>3. /\ UNCHANGED <<connected, free, alive, caller, asking>>
        /\ \A v \in Workers : v # w => thread'[v] = thread[v]
    BY <1>1 DEF PopItem, Wake, DrainPop, Popped, TypeOK, connections, callers
  <2>4. Place(w)'
    BY <1>1, <2>2, <2>3 DEF PopItem, Wake, DrainPop, Popped, TypeOK, Control, Place
  <2>5. thread[w] # "done"
    BY <1>1 DEF PopItem, Wake, DrainPop
  <2> QED BY <1>0, <2>2, <2>3, <2>4, <2>5, OthersKept DEF Control
<1>2. ASSUME NEW w \in Workers, Perform(w) \/ Resend(w) \/ DrainPerform(w) \/ DrainResend(w)
      PROVE  Control'
  <2>1. /\ UNCHANGED <<alive, caller, asking>> /\ thread[w] # "done"
        /\ \A v \in Workers : v # w => thread'[v] = thread[v] /\ hand'[v] = hand[v]
        /\ \A t : t # w => (t \in connected' <=> t \in connected)
    BY <1>2 DEF Perform, Resend, DrainPerform, DrainResend, LoopGoesOn, Drained, TakeConnection,
                GiveBack, TypeOK, connections, callers
  <2>2. Place(w)'
    BY <1>2 DEF Perform, Resend, DrainPerform, DrainResend, LoopGoesOn, Drained, TakeConnection,
                GiveBack, TypeOK, Control, Place, connections
  <2> QED BY <1>0, <2>1, <2>2, OthersKept DEF Control
<1>3. ASSUME NEW w \in Workers, PopWaits(w) \/ Connect(w) \/ Release(w)
      PROVE  Control'
  <2>1. /\ UNCHANGED <<hand, alive, caller, asking>> /\ thread[w] # "done"
        /\ \A v \in Workers : v # w => thread'[v] = thread[v]
        /\ \A t : t # w => (t \in connected' <=> t \in connected)
    BY <1>3 DEF PopWaits, Connect, Release, TakeConnection, GiveBack, TypeOK, connections, callers
  <2>2. Place(w)'
    BY <1>3 DEF PopWaits, Connect, Release, TakeConnection, GiveBack, TypeOK, Control, Place,
                connections, Workers
  <2> QED BY <1>0, <2>1, <2>2, OthersKept DEF Control
<1>4. ASSUME NEW w \in Workers, End(w)
      PROVE  Control'
  <2>1. /\ UNCHANGED <<hand, connected, caller, asking>> /\ thread[w] = "end"
        /\ thread' = [thread EXCEPT ![w] = "done"]
        /\ alive' = [alive EXCEPT ![w] = FALSE]
    BY <1>4 DEF End, connections, callers
  <2>2. Place(w)'
    BY <2>1 DEF TypeOK, Control, Place
  <2> QED BY <1>0, <2>1, <2>2, OthersKept DEF Control, TypeOK
<1>5. ASSUME NEW c \in Callers, NEW s \in Streams, Call(c, s)
      PROVE  Control'
  <2>1. /\ UNCHANGED <<thread, hand, connected, alive>>
        /\ caller[c] = "idle"
        /\ caller' = [caller EXCEPT ![c] = IF s \in Workers /\ alive[s] THEN "push" ELSE "perform"]
        /\ asking' = [asking EXCEPT ![c] = [from |-> c, to |-> s, n |-> @.n + 1]]
    BY <1>5 DEF Call, connections
  <2>2. \A w \in Workers : Place(w)'
    BY <2>1 DEF Control, Place
  <2>3. ASSUME NEW d \in Callers, d # c PROVE Directly(d)'
    BY <2>1, <2>3 DEF Control, Directly, TypeOK
  <2>4. asking'[c].to = s
    BY <2>1 DEF TypeOK
  <2>5. Directly(c)'
    BY <2>1, <2>4 DEF Control, Directly, Place, TypeOK
  <2> QED BY <1>0, <2>2, <2>3, <2>5 DEF Control
<1>6. ASSUME NEW c \in Callers, Caller(c)
      PROVE  Control'
  <2>1. /\ UNCHANGED <<thread, hand, alive, asking>>
        /\ \A d \in Callers : d # c => caller'[d] = caller[d]
        /\ \A t : t # c => (t \in connected' <=> t \in connected)
    BY <1>6 DEF Caller, CallPush, CallPerform, CallResend, TakeConnection, GiveBack, TypeOK,
                connections
  <2>2. \A w \in Workers : Place(w)'
    <3>1. \A w \in Workers : w # c
      BY CallersAssumption
    <3> QED BY <2>1, <3>1 DEF Control, Place
  <2>3. \A d \in Callers : d # c => Directly(d)'
    BY <2>1 DEF Control, Directly
  <2>4. Directly(c)'
    BY <1>6, <2>1 DEF Caller, CallPush, CallPerform, CallResend, TakeConnection, GiveBack, TypeOK,
                connections, Control, Directly
  <2> QED BY <1>0, <2>2, <2>3, <2>4 DEF Control
<1>7. ASSUME Terminate \/ EndThreads
      PROVE  Control'
  BY <1>0, <1>7 DEF Terminate, EndThreads, TestRunning, WakeBuffers, WakeExecutor, Broadcast,
              TestExecutor, Control, Place, Directly, connections, callers
<1> QED BY <1>1, <1>2, <1>3, <1>4, <1>5, <1>6, <1>7
        DEF Next, Worker, WakeSignalled, WakeSpurious

LEMMA SleepStep ==
  ASSUME TypeOK, Control, NoSleepOnWork, Next
  PROVE  NoSleepOnWork'
<1>1. ASSUME NEW w \in Workers, PopItem(w) \/ Wake(w) \/ DrainPop(w)
      PROVE  NoSleepOnWork'
  <2>1. Take(w) /\ hand[w] = <<>> /\ thread'[w] # "wait"
    BY <1>1 DEF PopItem, Wake, DrainPop, Popped, Control, Place, TypeOK
  <2>2. \A v \in Workers : v # w => /\ queue'[v] = queue[v] /\ thread'[v] = thread[v]
                                   /\ signalled'[v] = signalled[v]
    BY <1>1, <2>1, TakeFacts DEF PopItem, Wake, DrainPop, Popped, TypeOK
  <2> QED BY <2>1, <2>2 DEF NoSleepOnWork
<1>2. ASSUME NEW w \in Workers,
             \/ PopWaits(w) \/ Connect(w) \/ Perform(w) \/ Resend(w) \/ Release(w)
             \/ DrainPerform(w) \/ DrainResend(w) \/ End(w)
      PROVE  NoSleepOnWork'
  BY <1>2 DEF PopWaits, Connect, Perform, Resend, LoopGoesOn, Release, DrainPerform, DrainResend,
              Drained, End, TypeOK, NoSleepOnWork
<1>3. ASSUME NEW c \in Callers, CallPush(c)
      PROVE  NoSleepOnWork'
  <2>1. asking[c].to \in Workers
    BY <1>3 DEF CallPush, Control, Directly
  <2>2. CASE queue[asking[c].to] = <<>>
    BY <1>3, <2>1, <2>2 DEF CallPush, Push, Signal, TypeOK, NoSleepOnWork
  <2>3. CASE queue[asking[c].to] # <<>>
    BY <1>3, <2>1, <2>3 DEF CallPush, Push, TypeOK, NoSleepOnWork
  <2> QED BY <2>2, <2>3
<1>4. ASSUME NEW c \in Callers, CallPerform(c) \/ CallResend(c) \/ \E s \in Streams : Call(c, s)
      PROVE  NoSleepOnWork'
  BY <1>4 DEF CallPerform, CallResend, Call, NoSleepOnWork
<1>5. ASSUME Terminate \/ EndThreads
      PROVE  NoSleepOnWork'
  BY <1>5 DEF Terminate, EndThreads, TestRunning, WakeBuffers, WakeExecutor, Broadcast, Workers,
              Signal, TestExecutor, TypeOK, NoSleepOnWork
<1> QED BY <1>1, <1>2, <1>3, <1>4, <1>5
        DEF Next, Worker, WakeSignalled, WakeSpurious, Caller

LEMMA OrderStep ==
  ASSUME TypeOK, Control, Order, Next
  PROVE  Order'
<1>1. ASSUME NEW w \in Workers, PopItem(w) \/ Wake(w) \/ DrainPop(w)
      PROVE  Order'
  <2>1. /\ Take(w) /\ hand[w] = <<>> /\ ~Again(w)
        /\ UNCHANGED <<callers, server>>
        /\ \A v \in Workers :
             /\ thread[v] \in {"end", "done"} => thread'[v] \in {"end", "done"}
             /\ Again(v)' <=> Again(v)
    BY <1>1 DEF PopItem, Wake, DrainPop, Popped, Control, Place, Again, TypeOK
  <2> QED BY <2>1, OrderOfTake
<1>2. ASSUME NEW w \in Workers, PopWaits(w) \/ Connect(w) \/ Release(w) \/ End(w)
      PROVE  Order'
  BY <1>2, OrderKept DEF PopWaits, Connect, Release, End, Again, TypeOK
<1>3. ASSUME NEW w \in Workers, Perform(w) \/ Resend(w) \/ DrainPerform(w) \/ DrainResend(w)
      PROVE  Order'
  <2>1. /\ Met' = Met \cup {Head(hand[w])}
        /\ UNCHANGED <<queue, callers>>
        /\ \A v \in Workers : v # w => thread'[v] = thread[v]
    BY <1>3, SendFacts DEF Perform, Resend, DrainPerform, DrainResend, LoopGoesOn, Drained, TypeOK
  <2>2. \/ /\ thread[w] \in {"perform", "resend", "drained", "resendDrained"}
           /\ hand' = [hand EXCEPT ![w] = <<>>]
           /\ thread'[w] \notin {"end", "done"}
        \/ /\ thread[w] \in {"perform", "drained"}
           /\ hand' = hand /\ Again(w)'
    BY <1>3 DEF Perform, Resend, DrainPerform, DrainResend, LoopGoesOn, Drained, Again, TypeOK
  <2> QED BY <2>1, <2>2, OrderOfPerform, OrderOfRetry
<1>4. ASSUME NEW c \in Callers, \/ Caller(c) \/ \E s \in Streams : Call(c, s)
      PROVE  Order'
  BY <1>4, OrderOfCall, OrderOfPush, OrderOfCallPerform DEF Caller
<1>5. ASSUME Terminate \/ EndThreads
      PROVE  Order'
  BY <1>5, OrderKept DEF Terminate, EndThreads, TestRunning, WakeBuffers, WakeExecutor,
              Broadcast, TestExecutor, Again
<1> QED BY <1>1, <1>2, <1>3, <1>4, <1>5
        DEF Next, Worker, WakeSignalled, WakeSpurious

LEMMA InitIInv == Init => IInv
<1> USE DatabaseAssumption
<1> SUFFICES ASSUME Init PROVE IInv
  OBVIOUS
<1>1. TypeOK
  <2>1. asking \in [Callers -> Queries]
    BY DEF Init, Queries, Streams, Workers
  <2>2. /\ queue \in [Workers -> Seq(Queries)]
        /\ performed \subseteq Queries /\ repeated \subseteq performed /\ failed \subseteq Queries
    BY DEF Init
  <2>3. \A w \in Workers : hand[w] = <<>>
    BY DEF Init
  <2>4. DOMAIN hand = Workers
    BY DEF Init
  <2>5. /\ thread \in [Workers -> {"pop", "wait", "connect", "perform", "resend",
                                   "release", "drain", "drained", "resendDrained", "end", "done"}]
        /\ caller \in [Callers -> {"idle", "push", "perform", "resend"}]
    BY DEF Init
  <2>6. signalled \in [Workers -> BOOLEAN] /\ alive \in [Workers -> BOOLEAN]
    BY DEF Init
  <2>7. /\ connected \subseteq Workers \cup Callers /\ free \in 0..Connections
    BY DEF Init
  <2>8. /\ terminated \in BOOLEAN
        /\ main \in {"serving", "test", "wakeBuffers", "wakeExecutor", "sleep", "ended"}
    BY DEF Init
  <2> QED BY <2>1, <2>2, <2>3, <2>4, <2>5, <2>6, <2>7, <2>8 DEF TypeOK
<1>2. Control
  <2>1. Connected
    BY FS_EmptySet DEF Init, Connected
  <2> QED BY <2>1 DEF Init, Control, Place, Directly, Workers
<1>3. NoSleepOnWork
  BY DEF Init, NoSleepOnWork
<1>4. \A w \in Workers : Held(w) = {} /\ queue[w] = <<>> /\ Range(hand[w]) = {}
  BY RangeOfShort DEF Init, Held
<1>5. Order
  BY <1>4 DEF Init, Order, Numbered, Sorted, HandFirst, MetFirst, UnderWayLast, Met
<1> QED BY <1>1, <1>2, <1>3, <1>5 DEF IInv

LEMMA StepIInv == IInv /\ [Next]_vars => IInv'
<1> SUFFICES ASSUME IInv, [Next]_vars PROVE IInv'
  OBVIOUS
<1>1. CASE Next
  BY <1>1, TypeStep, ControlStep, SleepStep, OrderStep DEF IInv
<1>2. CASE UNCHANGED vars
  BY <1>2 DEF vars, IInv, TypeOK, Control, Connected, Place, Directly, NoSleepOnWork,
              Order, Numbered, Sorted, HandFirst, MetFirst, UnderWayLast, Held, Met, Again
<1> QED BY <1>1, <1>2

LEMMA Inductive == Spec => []IInv
  BY InitIInv, StepIInv, PTL DEF Spec

(* The state has its type in every reachable state: no connection is given *)
(* back twice, and no thread performs a query it does not hold.            *)
THEOREM TypeCorrect == Spec => []TypeOK
  BY Inductive, PTL DEF IInv

(* No thread sleeps in FQueue::pop beside a query, however the pushes, the *)
(* broadcasts of EndThreads and spurious wakeups fall.                     *)
THEOREM NeverAsleepOnWork == Spec => []NoSleepOnWork
  BY Inductive, PTL DEF IInv

-------------------------------------------------------------------------------
(* The refinement of QueryService.                                         *)

(* What is pending, held by a thread or under way, now and after a step.   *)
LEMMA PendingIs ==
  /\ \A q : q \in Pending <=>
       (\E w \in Workers : q \in Held(w)) \/ (\E c \in Callers : caller[c] # "idle" /\ q = asking[c])
  /\ \A q : q \in Pending' <=>
       (\E w \in Workers : q \in Held(w)') \/ (\E c \in Callers : caller'[c] # "idle" /\ q = asking'[c])
<1>1. \A q : q \in AllHeld <=> \E w \in Workers : q \in Held(w)
  BY DEF AllHeld
<1>2. \A q : q \in UnderWay <=> \E c \in Callers : caller[c] # "idle" /\ q = asking[c]
  BY DEF UnderWay
<1>3. \A q : q \in AllHeld' <=> \E w \in Workers : q \in Held(w)'
  BY DEF AllHeld
<1>4. \A q : q \in UnderWay' <=> \E c \in Callers : caller'[c] # "idle" /\ q = asking'[c]
  BY DEF UnderWay
<1> QED BY <1>1, <1>2, <1>3, <1>4 DEF Pending

(* Steps that take no query on and perform none.                           *)
LEMMA PendingKept ==
  ASSUME \A w \in Workers : Held(w)' = Held(w), caller' = caller, asking' = asking
  PROVE  Pending' = Pending
<1>1. \A q : q \in Pending' <=> q \in Pending
  BY PendingIs
<1> QED BY <1>1

LEMMA ServiceStep ==
  ASSUME IInv, IInv', Next
  PROVE  [Service!Next]_Service!vars
<1> USE DatabaseAssumption
<1> TypeOK /\ Control /\ Order /\ TypeOK' /\ Order'
  BY DEF IInv
<1>1. ASSUME NEW w \in Workers, PopItem(w) \/ Wake(w) \/ DrainPop(w)
      PROVE  UNCHANGED <<Pending, server>>
  <2>1. Take(w) /\ hand[w] = <<>> /\ UNCHANGED <<callers, server>>
    BY <1>1 DEF PopItem, Wake, DrainPop, Popped, Control, Place
  <2> QED BY <2>1, TakeFacts, PendingKept DEF callers
<1>2. ASSUME NEW w \in Workers, PopWaits(w) \/ Connect(w) \/ Release(w) \/ End(w)
      PROVE  UNCHANGED <<Pending, server>>
  BY <1>2, PendingKept DEF PopWaits, Connect, Release, End, Held, callers
<1>3. ASSUME NEW w \in Workers, Perform(w) \/ Resend(w) \/ DrainPerform(w) \/ DrainResend(w)
      PROVE  Service!Next
  <2> DEFINE q == Head(hand[w])
  <2>1. UNCHANGED <<queue, caller, asking>>
    BY <1>3 DEF Perform, Resend, DrainPerform, DrainResend, callers
  <2>2. /\ \/ Send(q, FALSE) /\ hand' = [hand EXCEPT ![w] = <<>>]
           \/ Send(q, TRUE) /\ hand' = hand /\ ~Again(w)
        /\ thread[w] \in {"perform", "resend", "drained", "resendDrained"}
    BY <1>3 DEF Perform, Resend, DrainPerform, DrainResend, LoopGoesOn, Drained, Again
  <2>3. q \in Queries /\ Range(hand[w]) = {q}
    BY <2>2, HandShape DEF Control, Place
  <2>4. q \in Held(w) /\ q.to = w
    BY <2>3 DEF Held, Order, Numbered
  <2>5. q \in Pending
    BY <2>4, PendingIs
  <2>6. /\ Service!InTurn(q)
        /\ ~Again(w) => q \notin failed
    <3>1. \A r \in Met : r.to = w => Before(r, q) \/ (Again(w) /\ r = q)
      BY <2>2, <2>4 DEF Order, MetFirst
    <3>2. q.n \in Nat /\ \A r \in Met : r \in Queries
      BY <2>3 DEF Queries, TypeOK, Met
    <3>3. \A r \in Met : r.n \in Nat
      BY <3>2 DEF Queries
    <3> QED BY <2>4, <3>1, <3>2, <3>3 DEF Service!InTurn, Before, Met
  <2>7. CASE Send(q, FALSE) /\ hand' = [hand EXCEPT ![w] = <<>>]
    <3>1. /\ Held(w)' = Range(queue[w])
          /\ \A v \in Workers : v # w => Held(v)' = Held(v)
      BY <2>1, <2>7, RangeOfShort DEF Held, TypeOK
    <3>2. q \notin Range(queue[w])
      BY <2>3 DEF Order, HandFirst, Before, Queries
    <3>3. \A v \in Workers : Held(v)' = Held(v) \ {q}
      <4> SUFFICES ASSUME NEW v \in Workers PROVE Held(v)' = Held(v) \ {q}
        OBVIOUS
      <4>1. CASE v = w
        <5>1. Held(w) = Range(queue[w]) \cup {q}
          BY <2>3 DEF Held
        <5> QED BY <3>1, <3>2, <4>1, <5>1
      <4>2. CASE v # w
        <5>1. q \notin Held(v)
          BY <2>4, <4>2 DEF Order, Numbered
        <5> QED BY <3>1, <4>2, <5>1
      <4> QED BY <4>1, <4>2
    <3>4. \A c \in Callers : caller[c] # "idle" => asking[c] # q
      BY <2>3, <2>4 DEF Order, UnderWayLast, Before, Queries
    <3>5. Pending' = Pending \ {q}
      <4>1. \A p : p \in Pending' <=> p \in Pending \ {q}
        BY <2>1, <3>3, <3>4, PendingIs
      <4> QED BY <4>1
    <3>6. Service!Finish(q)
      BY <2>5, <2>6, <2>7, <3>5 DEF Service!Finish, Service!Meet, Send
    <3> QED BY <2>3, <3>6 DEF Service!Next
  <2>8. CASE Send(q, TRUE) /\ hand' = hand /\ ~Again(w)
    <3>1. Pending' = Pending
      BY <2>1, <2>8, PendingKept DEF Held
    <3>2. Service!Stumble(q)
      BY <2>5, <2>6, <2>8, <3>1 DEF Service!Stumble, Service!Meet, Send
    <3> QED BY <2>3, <3>2 DEF Service!Next
  <2> QED BY <2>2, <2>7, <2>8
<1>4. ASSUME NEW c \in Callers, NEW s \in Streams, Call(c, s)
      PROVE  Service!Next
  <2> DEFINE q == asking'[c]
  <2>1. /\ caller[c] = "idle" /\ caller'[c] # "idle"
        /\ \A d \in Callers : d # c => caller'[d] = caller[d] /\ asking'[d] = asking[d]
        /\ UNCHANGED <<queue, hand, performed, repeated, failed>>
        /\ q \in Queries /\ q.from = c
    BY <1>4 DEF Call, TypeOK, server
  <2>2. \A v \in Workers : Held(v)' = Held(v)
    BY <2>1 DEF Held
  <2>3. Pending' = Pending \cup {q}
    <3>1. \A p : p \in Pending' <=> p \in Pending \/ p = q
      BY <2>1, <2>2, PendingIs
    <3> QED BY <3>1
  <2>4. /\ \A v \in Workers : \A r \in Held(v) : Before(r, q)
        /\ \A r \in Met : Before(r, q)
    <3>1. Met' = Met /\ caller'[c] # "resend"
      BY <1>4, <2>1 DEF Call, Met, TypeOK
    <3> QED BY <2>1, <2>2, <3>1 DEF Order, UnderWayLast
  <2>5. \A d \in Callers : caller[d] # "idle" => asking[d].from # c
    BY <2>1 DEF Order, Numbered
  <2>6. \A r \in Pending \cup performed \cup failed : r.from = q.from => r.n < q.n
    BY <2>1, <2>4, <2>5, PendingIs DEF Before, Met
  <2>7. Service!Ask(q)
    BY <2>1, <2>3, <2>6 DEF Service!Ask
  <2> QED BY <2>1, <2>7 DEF Service!Next
<1>5. ASSUME NEW c \in Callers, CallPush(c)
      PROVE  UNCHANGED <<Pending, server>>
  <2> DEFINE q == asking[c]
  <2>1. /\ q \in Queries /\ q.to \in Workers
        /\ caller[c] # "idle" /\ caller'[c] = "idle"
        /\ \A d \in Callers : d # c => caller'[d] = caller[d]
        /\ queue' = [queue EXCEPT ![q.to] = Append(queue[q.to], q)]
        /\ UNCHANGED <<hand, asking, server>>
    BY <1>5 DEF CallPush, Push, TypeOK, Queries, Control, Directly
  <2>2. /\ Held(q.to)' = Held(q.to) \cup {q}
        /\ \A v \in Workers : v # q.to => Held(v)' = Held(v)
    BY <2>1, RangeOfAppend DEF Held, TypeOK
  <2>3. \A p : p \in Pending' <=> p \in Pending
    BY <2>1, <2>2, PendingIs
  <2> QED BY <2>1, <2>3
<1>6. ASSUME NEW c \in Callers, CallPerform(c) \/ CallResend(c)
      PROVE  Service!Next
  <2> DEFINE q == asking[c]
  <2>1. /\ q \in Queries /\ q.from = c
        /\ caller[c] \in {"perform", "resend"}
        /\ \A d \in Callers : d # c => caller'[d] = caller[d]
        /\ UNCHANGED <<queue, hand, asking>>
    <3>1. q \in Queries /\ q.from = c
      BY DEF TypeOK, Order, Numbered
    <3> HIDE DEF q
    <3> QED BY <1>6, <3>1 DEF CallPerform, CallResend, TypeOK
  <2>2. \/ Send(q, FALSE) /\ caller'[c] = "idle"
        \/ Send(q, TRUE) /\ caller[c] = "perform" /\ caller'[c] = "resend"
    BY <1>6 DEF CallPerform, CallResend, TypeOK
  <2>3. \A v \in Workers : Held(v)' = Held(v)
    BY <2>1 DEF Held
  <2>4. \E d \in Callers : caller[d] # "idle" /\ q = asking[d]
    BY <2>1
  <2>5. q \in Pending
    BY <2>4, PendingIs
  <2>6. /\ \A v \in Workers : q \notin Held(v)
        /\ \A d \in Callers : d # c => asking[d] # q
    BY <2>1 DEF Order, UnderWayLast, Numbered, Before, Queries
  <2>7. Service!InTurn(q) /\ (caller[c] = "perform" => q \notin failed)
    <3>1. \A r \in Met : Before(r, q) \/ (caller[c] = "resend" /\ r = q)
      BY <2>1 DEF Order, UnderWayLast
    <3>2. q.n \in Nat /\ \A r \in Met : r.n \in Nat
      BY <2>1 DEF Queries, TypeOK, Met
    <3> QED BY <3>1, <3>2 DEF Service!InTurn, Before, Met
  <2>8. CASE Send(q, FALSE) /\ caller'[c] = "idle"
    <3>1. Pending' = Pending \ {q}
      <4>1. \A p : p \in Pending' <=> p \in Pending /\ p # q
        BY <2>1, <2>3, <2>6, <2>8, PendingIs
      <4> QED BY <4>1
    <3>2. Service!Finish(q)
      BY <2>5, <2>7, <2>8, <3>1 DEF Service!Finish, Service!Meet, Send
    <3> QED BY <2>1, <3>2 DEF Service!Next
  <2>9. CASE Send(q, TRUE) /\ caller[c] = "perform" /\ caller'[c] = "resend"
    <3>1. Pending' = Pending
      <4>1. \A p : p \in Pending' <=> p \in Pending
        BY <2>1, <2>3, <2>9, PendingIs
      <4> QED BY <4>1
    <3>2. Service!Stumble(q)
      BY <2>5, <2>7, <2>9, <3>1 DEF Service!Stumble, Service!Meet, Send
    <3> QED BY <2>1, <3>2 DEF Service!Next
  <2> QED BY <2>2, <2>8, <2>9
<1>7. ASSUME Terminate \/ EndThreads
      PROVE  UNCHANGED <<Pending, server>>
  BY <1>7, PendingKept DEF Terminate, EndThreads, TestRunning, WakeBuffers, WakeExecutor,
                           Broadcast, TestExecutor, Held, callers
<1> QED BY <1>1, <1>2, <1>3, <1>4, <1>5, <1>6, <1>7
        DEF Next, Worker, WakeSignalled, WakeSpurious, Caller, Service!vars, server

(* Whatever the threads, the shutdown, the callers and the connections do, *)
(* a query is sent again only after an error and only once, and never      *)
(* after a later one of its caller's stream.                               *)
THEOREM Implements == Spec => ImplementsService
<1>1. Init => Service!Init
  <2> SUFFICES ASSUME Init PROVE /\ Pending = {} /\ performed = {}
                                   /\ repeated = {} /\ failed = {}
    BY DEF Service!Init
  <2>1. \A w \in Workers : Held(w) = {}
    BY RangeOfShort DEF Init, Held
  <2> QED BY <2>1, PendingIs DEF Init
<1>2. IInv /\ IInv' /\ [Next]_vars => [Service!Next]_Service!vars
  <2> SUFFICES ASSUME IInv, IInv', [Next]_vars
               PROVE  [Service!Next]_Service!vars
    OBVIOUS
  <2>1. CASE Next
    BY <2>1, ServiceStep
  <2>2. CASE UNCHANGED vars
    BY <2>2, PendingKept DEF vars, Held, Service!vars
  <2> QED BY <2>1, <2>2
<1> QED BY <1>1, <1>2, Inductive, PTL DEF Spec, ImplementsService, Service!Spec
===============================================================================
