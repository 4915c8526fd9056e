----------------------------- MODULE ThreadPool -----------------------------
(***************************************************************************)
(* CThreadPool (libs/Threading/ThreadPool.cpp), Linux build: threads that  *)
(* run tasks handed to ExecuteTask and wait on a semaphore of their own in *)
(* between, IntegrityCheck that keeps a reserve of them, and Shutdown.     *)
(*                                                                         *)
(* What runs under _mutex is one step.  thread_proc reads, calls and       *)
(* clears ExecutionTarget without it, so that each of these is a step.     *)
(* Thread objects are numbered in the order of their creation; which of    *)
(* them a std::set of pointers has first is left open.                     *)
(***************************************************************************)
EXTENDS Integers, FiniteSets

CONSTANTS
  Tasks,        (* every ThreadContext that is handed to ExecuteTask       *)
  MaxThreads,   (* bound: Thread objects ever created                      *)
  StartCount,   (* ThreadCount of Startup                                  *)
  ThreadCount,  (* ThreadCount of IntegrityCheck                           *)
  Reserve,      (* THREAD_RESERVE                                          *)
  MaxChecks,    (* bound: calls of IntegrityCheck                          *)
  NoTask        (* ExecutionTarget == NULL                                 *)

Threads == 1 .. MaxThreads

ASSUME ThreadPoolAssumption ==
  /\ MaxThreads \in Nat /\ StartCount \in 0 .. MaxThreads
  /\ ThreadCount \in Nat /\ Reserve \in Nat /\ ThreadCount <= Reserve
  /\ MaxChecks \in Nat
  /\ NoTask \notin Tasks

VARIABLES
  pc,           (* where each thread is in thread_proc                     *)
  target,       (* Thread::ExecutionTarget                                 *)
  current,      (* the task whose run() the thread is in                   *)
  dismissed,    (* the threads with DeleteAfterExit                        *)
  sem,          (* the semaphore of each ThreadController                  *)
  active, free, (* m_activeThreads, m_freeThreads                          *)
  toExit,       (* _threadsToExit                                          *)
  eaten,        (* _threadsEaten                                           *)
  born,         (* how many threads have been started                      *)
  stage,        (* of each task                                            *)
  told,         (* the tasks whose OnShutdown has been called              *)
  phase,        (* of the thread that calls Shutdown                       *)
  checks        (* calls of IntegrityCheck so far                          *)

thread == <<pc, target, current, sem>>
sets == <<active, free>>
counts == <<toExit, eaten>>
vars == <<thread, dismissed, sets, counts, born, stage, told, phase, checks>>

(* Startup has been called.                                                *)
Init ==
  /\ pc = [t \in Threads |-> IF t <= StartCount THEN "test" ELSE "none"]
  /\ target = [t \in Threads |-> NoTask]
  /\ current = [t \in Threads |-> NoTask]
  /\ dismissed = {}
  /\ sem = [t \in Threads |-> 0]
  /\ active = {} /\ free = {}
  /\ toExit = 0 /\ eaten = 0
  /\ born = StartCount
  /\ stage = [k \in Tasks |-> "new"]
  /\ told = {} /\ phase = "up" /\ checks = 0

-------------------------------------------------------------------------------
Goto(t, label) == pc' = [pc EXCEPT ![t] = label]

(* The next n Thread objects; pthread_create runs thread_proc on each.     *)
Newborn(n) == (born + 1) .. (born + n)

StartThreads(n) ==
  /\ born + n <= MaxThreads
  /\ born' = born + n
  /\ pc' = [t \in Threads |-> IF t \in Newborn(n) THEN "test" ELSE pc[t]]

(* Shutdown returns without releasing _mutex.                              *)
MutexIsFree == phase # "down"

-------------------------------------------------------------------------------
(* CThreadPool, under _mutex.                                              *)

(* Mutants: the thread is not resumed, or it stays in m_freeThreads.        *)
AssignUnresumed(t, k) ==
  /\ free' = free \ {t}
  /\ target' = [target EXCEPT ![t] = k]
  /\ active' = active \cup {t}
  /\ UNCHANGED <<pc, born, sem>>

AssignKeepsFree(t, k) ==
  /\ target' = [target EXCEPT ![t] = k]
  /\ sem' = [sem EXCEPT ![t] = @ + 1]
  /\ active' = active \cup {t}
  /\ UNCHANGED <<pc, born, free>>

Assign(t, k) ==
  /\ free' = free \ {t}
  /\ target' = [target EXCEPT ![t] = k]
  /\ sem' = [sem EXCEPT ![t] = @ + 1]
  /\ active' = active \cup {t}
  /\ UNCHANGED <<pc, born>>

(* Nobody is free: a new thread heads straight to the task.                *)
AssignNew(k) ==
  /\ free = {}
  /\ StartThreads(1)
  /\ target' = [target EXCEPT ![born + 1] = k]
  /\ active' = active \cup {born + 1}
  /\ UNCHANGED <<free, sem>>

ExecuteTask(k) ==
  /\ MutexIsFree /\ stage[k] = "new"
  /\ stage' = [stage EXCEPT ![k] = "given"]
  /\ eaten' = eaten - 1
  /\ (\E t \in free : Assign(t, k)) \/ AssignNew(k)
  /\ UNCHANGED <<current, dismissed, toExit, told, phase, checks>>

(* They stay in m_freeThreads until each of them has run ThreadExit.       *)
KillFreeThreads(some) ==
  /\ target' = [t \in Threads |-> IF t \in some THEN NoTask ELSE target[t]]
  /\ dismissed' = dismissed \cup some
  /\ toExit' = toExit + Cardinality(some)
  /\ sem' = [t \in Threads |-> IF t \in some THEN sem[t] + 1 ELSE sem[t]]

(* Some count threads of m_freeThreads, or all if there are not as many.   *)
Some(count) ==
  {some \in SUBSET free : \/ Cardinality(some) = count
                          \/ some = free /\ Cardinality(free) < count}

(* "we requested more threads than we had in the pool"                     *)
Respawn ==
  /\ eaten < 0
  /\ StartThreads(ThreadCount - eaten)
  /\ eaten' = 0
  /\ UNCHANGED <<target, sem, dismissed, toExit>>

(* "we were getting damn low"                                              *)
Refill ==
  /\ eaten >= 0 /\ eaten < ThreadCount
  /\ StartThreads(Reserve - eaten)
  /\ UNCHANGED <<target, sem, dismissed, counts>>

KillOff ==
  /\ eaten > ThreadCount
  /\ \E some \in Some(eaten - ThreadCount) : KillFreeThreads(some)
  /\ eaten' = ThreadCount
  /\ UNCHANGED <<pc, born>>

(* Master::Run and LogonServer::Run call it between two looks at the stop  *)
(* event, and Shutdown after the last.                                     *)
IntegrityCheck ==
  /\ phase = "up" /\ checks < MaxChecks
  /\ checks' = checks + 1
  /\ \/ Respawn \/ Refill \/ KillOff
     \/ eaten = ThreadCount /\ UNCHANGED <<pc, born, target, sem, dismissed, counts>>
  /\ UNCHANGED <<current, sets, stage, told, phase>>

(* Mutant: the free threads are not resumed.                                *)
BeginShutdownUnresumed ==
  /\ phase = "up"
  /\ phase' = "closing"
  /\ target' = [t \in Threads |-> IF t \in free THEN NoTask ELSE target[t]]
  /\ dismissed' = dismissed \cup free
  /\ toExit' = toExit + Cardinality(free) + Cardinality(active)
  /\ told' = told \cup ({target'[t] : t \in active} \ {NoTask})
  /\ UNCHANGED <<pc, current, sem, sets, eaten, born, stage, checks>>

(* Shutdown, up to its loop: KillFreeThreads for all of m_freeThreads, an  *)
(* exit for each of m_activeThreads, OnShutdown of their tasks.            *)
BeginShutdown ==
  /\ phase = "up"
  /\ phase' = "closing"
  /\ target' = [t \in Threads |-> IF t \in free THEN NoTask ELSE target[t]]
  /\ dismissed' = dismissed \cup free
  /\ sem' = [t \in Threads |-> IF t \in free THEN sem[t] + 1 ELSE sem[t]]
  /\ toExit' = toExit + Cardinality(free) + Cardinality(active)
  /\ told' = told \cup ({target'[t] : t \in active} \ {NoTask})
  /\ UNCHANGED <<pc, current, sets, eaten, born, stage, checks>>

EndShutdown ==
  /\ phase = "closing" /\ active = {} /\ free = {}
  /\ phase' = "down"
  /\ UNCHANGED <<thread, dismissed, sets, counts, born, stage, told, checks>>

(* Mutant: a thread that goes stays in m_freeThreads.                       *)
ThreadExitForgets(t) ==
  /\ pc[t] = "exit" /\ MutexIsFree
  /\ active' = active \ {t}
  /\ IF toExit > 0
     THEN /\ toExit' = toExit - 1
          /\ Goto(t, "gone")
          /\ UNCHANGED <<free, eaten>>
     ELSE /\ eaten' = eaten + 1
          /\ free' = free \cup {t}
          /\ Goto(t, "sleep")
          /\ UNCHANGED toExit
  /\ UNCHANGED <<target, current, sem, dismissed, born, stage, told, phase, checks>>

ThreadExit(t) ==
  /\ pc[t] = "exit" /\ MutexIsFree
  /\ active' = active \ {t}
  /\ IF toExit > 0
     THEN /\ toExit' = toExit - 1
          /\ free' = IF t \in dismissed THEN free \ {t} ELSE free
          /\ Goto(t, "gone")
          /\ UNCHANGED eaten
     ELSE /\ eaten' = eaten + 1
          /\ free' = free \cup {t}
          /\ Goto(t, "sleep")
          /\ UNCHANGED toExit
  /\ UNCHANGED <<target, current, sem, dismissed, born, stage, told, phase, checks>>

-------------------------------------------------------------------------------
(* thread_proc, without _mutex.                                            *)

(* Mutant: the semaphore does not make it wait.                             *)
SuspendDoesNotWait(t) ==
  /\ pc[t] = "sleep"
  /\ sem' = [sem EXCEPT ![t] = @ - 1]
  /\ Goto(t, "test")
  /\ UNCHANGED <<target, current, dismissed, sets, counts, born, stage, told, phase, checks>>

(* Is there a task?                                                        *)
Test(t) ==
  /\ pc[t] = "test"
  /\ Goto(t, IF target[t] = NoTask THEN "exit" ELSE "call")
  /\ UNCHANGED <<target, current, sem, dismissed, sets, counts, born, stage, told, phase, checks>>

(* ExecutionTarget->run(), read once more.  With NULL the thread stops.    *)
Call(t) ==
  /\ pc[t] = "call" /\ target[t] # NoTask
  /\ current' = [current EXCEPT ![t] = target[t]]
  /\ stage' = [stage EXCEPT ![target[t]] = "running"]
  /\ Goto(t, "run")
  /\ UNCHANGED <<target, sem, dismissed, sets, counts, born, told, phase, checks>>

(* run() returns; if it returns true, ExecutionTarget is deleted, whatever *)
(* it is by now.                                                           *)
Return(t) ==
  /\ pc[t] = "run"
  /\ \E deleted \in {{}, {target[t]}} :
       stage' = [k \in Tasks |-> IF k \in deleted \cup {current[t]} THEN "done" ELSE stage[k]]
  /\ current' = [current EXCEPT ![t] = NoTask]
  /\ Goto(t, "clear")
  /\ UNCHANGED <<target, sem, dismissed, sets, counts, born, told, phase, checks>>

(* Mutant: ExecutionTarget is kept.                                         *)
ClearNothing(t) ==
  /\ pc[t] = "clear"
  /\ Goto(t, "exit")
  /\ UNCHANGED <<target, current, sem, dismissed, sets, counts, born, stage, told, phase, checks>>

Clear(t) ==
  /\ pc[t] = "clear"
  /\ target' = [target EXCEPT ![t] = NoTask]
  /\ Goto(t, "exit")
  /\ UNCHANGED <<current, sem, dismissed, sets, counts, born, stage, told, phase, checks>>

Suspend(t) ==
  /\ pc[t] = "sleep" /\ sem[t] > 0
  /\ sem' = [sem EXCEPT ![t] = @ - 1]
  /\ Goto(t, "test")
  /\ UNCHANGED <<target, current, dismissed, sets, counts, born, stage, told, phase, checks>>

-------------------------------------------------------------------------------
ThreadProc(t) ==
  \/ Test(t) \/ Call(t) \/ Clear(t) \/ ThreadExit(t) \/ Suspend(t)

Next ==
  \/ \E k \in Tasks : ExecuteTask(k)
  \/ IntegrityCheck \/ BeginShutdown \/ EndShutdown
  \/ \E t \in Threads : ThreadProc(t) \/ Return(t)

Spec == Init /\ [][Next]_vars

(* Threads are scheduled, Shutdown looks once a second, and a task returns *)
(* some time after its OnShutdown; without it, it may run forever.         *)
Fairness ==
  /\ \A t \in Threads : WF_vars(ThreadProc(t)) /\ WF_vars(current[t] \in told /\ Return(t))
  /\ WF_vars(EndShutdown)

FairSpec == Spec /\ Fairness

-------------------------------------------------------------------------------
TypeOK ==
  /\ pc \in [Threads -> {"none", "test", "call", "run", "clear", "exit", "sleep",
                         "gone"}]
  /\ target \in [Threads -> Tasks \cup {NoTask}]
  /\ current \in [Threads -> Tasks \cup {NoTask}]
  /\ dismissed \subseteq Threads /\ active \subseteq Threads /\ free \subseteq Threads
  /\ sem \in [Threads -> Nat]
  /\ toExit \in Nat /\ eaten \in Int /\ born \in 0 .. MaxThreads
  /\ stage \in [Tasks -> {"new", "given", "running", "done"}]
  /\ told \subseteq Tasks
  /\ phase \in {"up", "closing", "down"} /\ checks \in 0 .. MaxChecks

(* A Thread that has deleted itself is in neither set, so that nobody      *)
(* gives it a task or resumes it.                                          *)
GoneIsNowhere == \A t \in Threads : pc[t] = "gone" => t \notin active \cup free

(* No task is on two threads, and none is begun that has been begun.       *)
BegunOnce ==
  \A t \in Threads : target[t] # NoTask =>
    /\ \A u \in Threads : target[u] = target[t] => u = t
    /\ pc[t] = "call" => stage[target[t]] = "given"

(* Unless it has been told to go, a thread calls, and later deletes, the   *)
(* very task it was given: nobody writes its ExecutionTarget meanwhile, and *)
(* as long as it has one Shutdown finds it in m_activeThreads.             *)
Undisturbed ==
  \A t \in Threads \ dismissed :
    /\ pc[t] = "call" => target[t] # NoTask
    /\ pc[t] = "run" => target[t] = current[t]
    /\ target[t] # NoTask => t \in active

(* A task is begun in the end, unless it is on a thread told to go.        *)
GivenIsBegun ==
  \A t \in Threads, k \in Tasks :
    (target[t] = k /\ t \notin dismissed) ~> (stage[k] # "given")

(* Every thread is in a set, has an exit waiting for it, its task has been *)
(* told to end, and none is about to call through NULL.                    *)
Summoned ==
  /\ \A t \in Threads : pc[t] = "call" => target[t] # NoTask
  /\ \A t \in Threads : pc[t] \notin {"none", "gone"} => t \in active \cup free
  /\ toExit >= Cardinality(active \cup free)
  /\ \A t \in Threads : {target[t], current[t]} \subseteq told \cup {NoTask}

(* Shutdown ends, unless a thread is started, or a task given, too late    *)
(* for it to notice.                                                       *)
ShutdownEnds ==
  [](phase = "closing" => Summoned) => (phase = "closing" ~> phase = "down")
=============================================================================
