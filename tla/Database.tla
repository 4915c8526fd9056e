------------------------------- MODULE Database -------------------------------
(***************************************************************************)
(* The two background threads of a Database and their shutdown.  Execute   *)
(* hands a statement to the executor (queries_queue), AddQueryBuffer hands *)
(* a buffer of statements to the query thread (query_buffer); both threads *)
(* run the same loop over an FQueue.  When a thread is gone its callers    *)
(* perform their queries themselves.  EndThreads stops both threads.       *)
(*                                                                         *)
(* A buffer is one query here: its statements are sent in a row over one   *)
(* connection, each as this one.  Connections count as free or taken.      *)
(*                                                                         *)
(* The server is external: mysql_query may fail, also after the server has *)
(* performed the query, and _SendQuery then sends it once more if it could *)
(* connect again, or logs the error and drops the query.                   *)
(***************************************************************************)
EXTENDS Naturals, Sequences, Functions

CONSTANTS
  Callers,      (* the game threads that use the database                  *)
  MaxQueries,   (* bound: queries any caller makes                         *)
  Limit,        (* bound: Limit[c] queries are made by caller c            *)
  Connections,  (* mConnectionCount                                        *)
  Spurious      (* TRUE: pthread_cond_wait may return without a signal     *)

ASSUME LimitAssumption == Limit \in [Callers -> 0..MaxQueries]

ASSUME DatabaseAssumption ==
  MaxQueries \in Nat /\ Connections \in Nat /\ Spurious \in BOOLEAN

(* The threads of the pool that run the two loops; Query and WaitExecute   *)
(* go to neither.                                                          *)
Workers == {"executor", "buffers"}
Streams == Workers \cup {"direct"}

ASSUME CallersAssumption == Callers \cap Workers = {}

VARIABLES
  queue,        (* queue[w]: queries_queue or query_buffer                 *)
  thread,       (* thread[w]: where the background thread is               *)
  signalled,    (* signalled[w]: the thread's Wait will return             *)
  hand,         (* hand[w]: the query pop returned, <<>> for NULL          *)
  connected,    (* who holds a connection                                  *)
  free,         (* how many connections nobody holds                       *)
  alive,        (* ThreadRunning, and qt # NULL                            *)
  terminated,   (* m_threadRunning has been cleared                        *)
  caller,       (* where each caller is                                    *)
  asking,       (* asking[c]: the last query of caller c                   *)
  main,         (* where the thread that calls EndThreads is               *)
  performed,    (* the queries the server has performed                    *)
  repeated,     (* those it has performed a second time                    *)
  failed        (* those for which a mysql_query returned an error         *)

connections == <<connected, free>>
callers == <<caller, asking>>
server == <<performed, repeated, failed>>
vars == <<queue, thread, signalled, hand, connected, free, alive, terminated,
          caller, asking, main, performed, repeated, failed>>

Queries == [from : Callers, to : Streams, n : 0..MaxQueries]

(* Database::Initialize has started both threads.  The query thread takes  *)
(* its connection before its first pop, the executor after it.             *)
Init ==
  /\ queue = [w \in Workers |-> <<>>]
  /\ thread = [w \in Workers |-> IF w = "executor" THEN "pop" ELSE "connect"]
  /\ signalled = [w \in Workers |-> FALSE]
  /\ hand = [w \in Workers |-> <<>>]
  /\ connected = {}
  /\ free = Connections
  /\ alive = [w \in Workers |-> TRUE]
  /\ terminated = FALSE
  /\ caller = [c \in Callers |-> "idle"]
  /\ asking = [c \in Callers |-> [from |-> c, to |-> "executor", n |-> 0]]
  /\ main = "serving"
  /\ performed = {} /\ repeated = {} /\ failed = {}

-------------------------------------------------------------------------------
(* FQueue.  Only one thread pops from each queue.                          *)

(* Condition::Signal and Broadcast reach the thread if it is in Wait.      *)
Signal(w) == signalled' = [signalled EXCEPT ![w] = @ \/ thread[w] = "wait"]

PushUnsignalled(w, q) ==
  /\ queue' = [queue EXCEPT ![w] = Append(@, q)]
  /\ UNCHANGED signalled

(* push: only the push into an empty queue signals.                        *)
Push(w, q) ==
  /\ queue' = [queue EXCEPT ![w] = Append(@, q)]
  /\ IF queue[w] = <<>> THEN Signal(w) ELSE UNCHANGED signalled

(* pop once it need not wait (any more): the first item, or NULL.          *)
Take(w) ==
  /\ hand' = [hand EXCEPT ![w] = IF queue[w] = <<>> THEN <<>> ELSE <<Head(queue[w])>>]
  /\ queue' = [queue EXCEPT ![w] = IF @ = <<>> THEN <<>> ELSE Tail(@)]

-------------------------------------------------------------------------------
(* One mysql_query of _SendQuery.  The server performs q and answers, or   *)
(* an error comes back: the connection was lost after q was performed or   *)
(* before, or q was refused.  again: the error is one of _HandleError's,   *)
(* and _Reconnect, whose mPort nobody sets, succeeded.                     *)
Send(q, again) ==
  \E done, ok \in BOOLEAN :
    /\ ok => done /\ ~again
    /\ performed' = IF done THEN performed \cup {q} ELSE performed
    /\ repeated' = IF done THEN repeated \cup ({q} \cap performed) ELSE repeated
    /\ failed' = IF ok THEN failed ELSE failed \cup {q}

TakeConnection(t) ==
  /\ free > 0
  /\ connected' = connected \cup {t}
  /\ free' = free - 1

GiveBack(t) ==
  /\ connected' = connected \ {t}
  /\ free' = free + 1

-------------------------------------------------------------------------------
(* The background threads: Database::run and Database::thread_proc_query.  *)

(* After a pop in the loop: NULL ends it.                                  *)
Popped(w) ==
  /\ Take(w)
  /\ thread' = [thread EXCEPT ![w] = IF w \notin connected THEN "connect"
                                     ELSE IF queue[w] = <<>> THEN "release"
                                     ELSE "perform"]

PopItem(w) ==
  /\ thread[w] = "pop" /\ queue[w] # <<>>
  /\ Popped(w)
  /\ UNCHANGED <<signalled, connections, alive, terminated, callers, main, server>>

PopWaits(w) ==
  /\ thread[w] = "pop" /\ queue[w] = <<>>
  /\ thread' = [thread EXCEPT ![w] = "wait"]
  /\ UNCHANGED <<queue, signalled, hand, connections, alive, terminated, callers, main, server>>

(* pthread_cond_wait returns; pop does not wait a second time.             *)
Wake(w) ==
  /\ thread[w] = "wait"
  /\ Popped(w)
  /\ signalled' = [signalled EXCEPT ![w] = FALSE]
  /\ UNCHANGED <<connections, alive, terminated, callers, main, server>>

WakeSignalled(w) == signalled[w] /\ Wake(w)
WakeSpurious(w)  == Spurious /\ ~signalled[w] /\ Wake(w)

(* The connection kept for the whole loop.                                 *)
Connect(w) ==
  /\ thread[w] = "connect"
  /\ TakeConnection(w)
  /\ thread' = [thread EXCEPT ![w] = IF w = "buffers" THEN "pop"
                                     ELSE IF hand[w] = <<>> THEN "release"
                                     ELSE "perform"]
  /\ UNCHANGED <<queue, signalled, hand, alive, terminated, callers, main, server>>

(* A query of the loop, sent once or twice, and the test of                *)
(* m_threadRunning after it.                                               *)
LoopGoesOn(w) ==
  /\ hand' = [hand EXCEPT ![w] = <<>>]
  /\ thread' = [thread EXCEPT ![w] = IF terminated THEN "release" ELSE "pop"]

PerformTakesAnother(w) ==
  /\ thread[w] = "perform"
  /\ \/ Send(Head(hand[w]), FALSE) /\ LoopGoesOn(w) /\ UNCHANGED connections
     \/ /\ TakeConnection(w)
        /\ Send(Head(hand[w]), TRUE)
        /\ thread' = [thread EXCEPT ![w] = "resend"]
        /\ UNCHANGED hand
  /\ UNCHANGED <<queue, signalled, alive, terminated, callers, main>>

Perform(w) ==
  /\ thread[w] = "perform"
  /\ \/ Send(Head(hand[w]), FALSE) /\ LoopGoesOn(w)
     \/ /\ Send(Head(hand[w]), TRUE)
        /\ thread' = [thread EXCEPT ![w] = "resend"]
        /\ UNCHANGED hand
  /\ UNCHANGED <<queue, signalled, connections, alive, terminated, callers, main>>

Resend(w) ==
  /\ thread[w] = "resend"
  /\ Send(Head(hand[w]), FALSE)
  /\ LoopGoesOn(w)
  /\ UNCHANGED <<queue, signalled, connections, alive, terminated, callers, main>>

ReleaseEndsEarly(w) ==
  /\ thread[w] = "release"
  /\ GiveBack(w)
  /\ thread' = [thread EXCEPT ![w] = "drain"]
  /\ alive' = [alive EXCEPT ![w] = FALSE]
  /\ UNCHANGED <<queue, signalled, hand, terminated, callers, main, server>>

ReleaseUndrained(w) ==
  /\ thread[w] = "release"
  /\ GiveBack(w)
  /\ thread' = [thread EXCEPT ![w] = "end"]
  /\ UNCHANGED <<queue, signalled, hand, alive, terminated, callers, main, server>>

Release(w) ==
  /\ thread[w] = "release"
  /\ GiveBack(w)
  /\ thread' = [thread EXCEPT ![w] = "drain"]
  /\ UNCHANGED <<queue, signalled, hand, alive, terminated, callers, main, server>>

(* pop_nowait, until it returns NULL.                                      *)
DrainPop(w) ==
  /\ thread[w] = "drain"
  /\ Take(w)
  /\ thread' = [thread EXCEPT ![w] = IF queue[w] = <<>> THEN "end" ELSE "drained"]
  /\ UNCHANGED <<signalled, connections, alive, terminated, callers, main, server>>

Drained(w) ==
  /\ hand' = [hand EXCEPT ![w] = <<>>]
  /\ thread' = [thread EXCEPT ![w] = "drain"]

DrainPerformReleasesOnError(w) ==
  /\ thread[w] = "drained" /\ free > 0
  /\ \/ Send(Head(hand[w]), FALSE) /\ Drained(w)
     \/ /\ Send(Head(hand[w]), TRUE)
        /\ thread' = [thread EXCEPT ![w] = "resendDrained"]
        /\ UNCHANGED hand
  /\ UNCHANGED <<queue, signalled, connections, alive, terminated, callers, main>>

(* Each of the remaining queries takes a connection of its own, and gives  *)
(* it back in the same step unless it is to be sent again.                 *)
DrainPerform(w) ==
  /\ thread[w] = "drained"
  /\ \/ /\ free > 0
        /\ Send(Head(hand[w]), FALSE)
        /\ Drained(w)
        /\ UNCHANGED connections
     \/ /\ TakeConnection(w)
        /\ Send(Head(hand[w]), TRUE)
        /\ thread' = [thread EXCEPT ![w] = "resendDrained"]
        /\ UNCHANGED hand
  /\ UNCHANGED <<queue, signalled, alive, terminated, callers, main>>

DrainResend(w) ==
  /\ thread[w] = "resendDrained"
  /\ Send(Head(hand[w]), FALSE)
  /\ GiveBack(w)
  /\ Drained(w)
  /\ UNCHANGED <<queue, signalled, alive, terminated, callers, main>>

(* ThreadRunning = false; ~QueryThread sets qt to NULL.                    *)
End(w) ==
  /\ thread[w] = "end"
  /\ thread' = [thread EXCEPT ![w] = "done"]
  /\ alive' = [alive EXCEPT ![w] = FALSE]
  /\ UNCHANGED <<queue, signalled, hand, connections, terminated, callers, main, server>>

Worker(w) ==
  \/ PopItem(w) \/ PopWaits(w) \/ WakeSignalled(w) \/ Connect(w) \/ Perform(w)
  \/ Resend(w) \/ Release(w) \/ DrainPop(w) \/ DrainPerform(w) \/ DrainResend(w) \/ End(w)

-------------------------------------------------------------------------------
(* The callers: Execute, ExecuteNA, AddQueryBuffer and, with "direct",     *)
(* Query and WaitExecute.                                                  *)

(* The test of ThreadRunning or of qt, made without a lock.                *)
Call(c, s) ==
  /\ caller[c] = "idle" /\ asking[c].n < Limit[c]
  /\ asking' = [asking EXCEPT ![c] = [from |-> c, to |-> s, n |-> @.n + 1]]
  /\ caller' = [caller EXCEPT ![c] = IF s \in Workers /\ alive[s] THEN "push" ELSE "perform"]
  /\ UNCHANGED <<queue, thread, signalled, hand, connections, alive, terminated, main, server>>

CallPush(c) ==
  /\ caller[c] = "push"
  /\ Push(asking[c].to, asking[c])
  /\ caller' = [caller EXCEPT ![c] = "idle"]
  /\ UNCHANGED <<thread, hand, connections, alive, terminated, asking, main, server>>

(* WaitExecuteNA, Query, or PerformQueryBuffer, on a connection taken for  *)
(* this query and given back in the same step unless it is sent again.     *)
CallPerform(c) ==
  /\ caller[c] = "perform"
  /\ \/ /\ free > 0
        /\ Send(asking[c], FALSE)
        /\ caller' = [caller EXCEPT ![c] = "idle"]
        /\ UNCHANGED connections
     \/ /\ TakeConnection(c)
        /\ Send(asking[c], TRUE)
        /\ caller' = [caller EXCEPT ![c] = "resend"]
  /\ UNCHANGED <<queue, thread, signalled, hand, alive, terminated, asking, main>>

CallResend(c) ==
  /\ caller[c] = "resend"
  /\ Send(asking[c], FALSE)
  /\ GiveBack(c)
  /\ caller' = [caller EXCEPT ![c] = "idle"]
  /\ UNCHANGED <<queue, thread, signalled, hand, alive, terminated, asking, main>>

Caller(c) == CallPush(c) \/ CallPerform(c) \/ CallResend(c)

-------------------------------------------------------------------------------
(* Database::EndThreads, called once when the server shuts down.           *)

Terminate ==
  /\ main = "serving"
  /\ terminated' = TRUE
  /\ main' = "test"
  /\ UNCHANGED <<queue, thread, signalled, hand, connections, alive, callers, server>>

TestRunning ==
  /\ main = "test"
  /\ main' = IF \E w \in Workers : alive[w] THEN "wakeBuffers" ELSE "ended"
  /\ UNCHANGED <<queue, thread, signalled, hand, connections, alive, terminated, callers, server>>

(* A broadcast to each queue that is empty.                                *)
Broadcast(w, here, next) ==
  /\ main = here
  /\ IF queue[w] = <<>> THEN Signal(w) ELSE UNCHANGED signalled
  /\ main' = next
  /\ UNCHANGED <<queue, thread, hand, connections, alive, terminated, callers, server>>

WakeBuffers  == Broadcast("buffers", "wakeBuffers", "wakeExecutor")
WakeExecutor == Broadcast("executor", "wakeExecutor", "sleep")

TestExecutorOnce ==
  /\ main = "sleep"
  /\ main' = IF alive["executor"] THEN "sleep" ELSE "ended"
  /\ UNCHANGED <<queue, thread, signalled, hand, connections, alive, terminated, callers, server>>

(* After the sleep only ThreadRunning is looked at.                        *)
TestExecutor ==
  /\ main = "sleep"
  /\ main' = IF alive["executor"] THEN "test" ELSE "ended"
  /\ UNCHANGED <<queue, thread, signalled, hand, connections, alive, terminated, callers, server>>

EndThreads == TestRunning \/ WakeBuffers \/ WakeExecutor \/ TestExecutor

-------------------------------------------------------------------------------
Next ==
  \/ \E w \in Workers : Worker(w) \/ WakeSpurious(w)
  \/ \E c \in Callers : Caller(c) \/ \E s \in Streams : Call(c, s)
  \/ Terminate
  \/ EndThreads

Spec == Init /\ [][Next]_vars

(* Every thread that can go on does; nothing has to be asked, the server   *)
(* need not be shut down, and no wakeup is spurious by right.  Attempts to *)
(* take a connection are repeated in a loop and one is always free again.  *)
FairSpec ==
  /\ Spec
  /\ \A w \in Workers : WF_vars(Worker(w))
  /\ \A c \in Callers : WF_vars(Caller(c))
  /\ WF_vars(EndThreads)

-------------------------------------------------------------------------------
TypeOK ==
  /\ queue \in [Workers -> Seq(Queries)]
  /\ thread \in [Workers -> {"pop", "wait", "connect", "perform", "resend", "release",
                             "drain", "drained", "resendDrained", "end", "done"}]
  /\ signalled \in [Workers -> BOOLEAN]
  /\ \A w \in Workers : hand[w] = <<>> \/ \E q \in Queries : hand[w] = <<q>>
  /\ DOMAIN hand = Workers
  /\ connected \subseteq Workers \cup Callers
  /\ free \in 0..Connections
  /\ alive \in [Workers -> BOOLEAN]
  /\ terminated \in BOOLEAN
  /\ caller \in [Callers -> {"idle", "push", "perform", "resend"}]
  /\ asking \in [Callers -> Queries]
  /\ main \in {"serving", "test", "wakeBuffers", "wakeExecutor", "sleep", "ended"}
  /\ performed \subseteq Queries /\ repeated \subseteq performed /\ failed \subseteq Queries

(* A thread is not left in Wait while there is work in its queue: push     *)
(* signals only when the queue was empty, and that must be enough.         *)
NoSleepOnWork ==
  \A w \in Workers : thread[w] = "wait" /\ queue[w] # <<>> => signalled[w]

(* Database keeps what QueryService promises: a query is sent again only   *)
(* after an error and only once, and everything a caller gave to a stream  *)
(* meets the server in the order of its calls, also when the caller        *)
(* performs the later ones itself because the thread is gone.              *)
Held(w) == Range(queue[w]) \cup Range(hand[w])
AllHeld == UNION {Held(w) : w \in Workers}
UnderWay == {asking[c] : c \in {d \in Callers : caller[d] # "idle"}}
Pending == AllHeld \cup UnderWay

Service == INSTANCE QueryService WITH pending <- Pending

ImplementsService == Service!Spec

(* A query that is in a queue before its thread found the queue empty for  *)
(* the last time is sent to the server: "execute all the remaining         *)
(* queries" (Database.cpp:273).  If it is not performed its sending failed *)
(* and was logged.                                                         *)
QueuedIsPerformed ==
  \A q \in {r \in Queries : r.to \in Workers /\ r.n \in 1..Limit[r.from]} :
    q \in Range(queue[q.to]) /\ thread[q.to] \notin {"end", "done"}
      ~> q \in performed \cup failed

(* Every call returns, also those that wait for a free connection while    *)
(* the loops keep theirs, and whatever queries are sent again.             *)
CallsReturn == \A c \in Callers : caller[c] # "idle" ~> caller[c] = "idle"

(* EndThreads returns although a broadcast can come while a thread is not  *)
(* yet in Wait.                                                            *)
EndThreadsReturns == terminated ~> main = "ended"

(* "execute all the remaining queries" (Database.cpp:273): once the        *)
(* threads are gone and no call is under way, nothing is left in a queue.  *)
NothingLeft ==
  (\A w \in Workers : thread[w] = "done") /\ (\A c \in Callers : caller[c] = "idle")
    => \A w \in Workers : queue[w] = <<>>

===============================================================================
