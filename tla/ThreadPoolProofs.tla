--------------------------- MODULE ThreadPoolProofs ---------------------------
(***************************************************************************)
(* Proofs about ThreadPool, for any number of tasks, threads and checks.   *)
(*                                                                         *)
(* A thread that was not told to go is in one of three conditions: free    *)
(* and asleep with nothing on its semaphore, active with its task, or on   *)
(* its way into the pool.  A thread told to go may be in m_freeThreads     *)
(* while it runs, but then DeleteAfterExit makes its last ThreadExit take  *)
(* it out; and whoever runs, a task has one thread.                        *)
(***************************************************************************)
EXTENDS ThreadPool, FiniteSetTheorems, TLAPS

Unborn ==
  \A t \in Threads : pc[t] = "none" <=> t > born

(* A Thread object that does not exist is nowhere.                         *)
Nobody ==
  /\ \A t \in Threads : pc[t] = "none" =>
       t \notin dismissed /\ target[t] = NoTask /\ sem[t] = 0
  /\ \A t \in Threads : pc[t] \in {"none", "gone"} => t \notin active \cup free

(* The threads that were not told to go.                                   *)
Regular ==
  \A t \in Threads \ dismissed :
    /\ sem[t] = IF pc[t] = "sleep" /\ t \notin free THEN 1 ELSE 0
    /\ t \in free => pc[t] = "sleep" /\ target[t] = NoTask /\ t \notin active
    /\ pc[t] = "sleep" /\ t \notin free => t \in active /\ target[t] # NoTask
    /\ pc[t] = "call" => target[t] # NoTask
    /\ pc[t] = "run" => target[t] = current[t]
    /\ pc[t] \in {"exit", "gone"} => target[t] = NoTask
    /\ target[t] # NoTask => t \in active

(* Which task a thread has, before, while and after it runs it.            *)
Held ==
  \A t \in Threads :
    /\ pc[t] = "run" <=> current[t] # NoTask
    /\ target[t] # NoTask => stage[target[t]] # "new"
    /\ current[t] # NoTask => stage[current[t]] # "new"
    /\ target[t] # NoTask /\ pc[t] # "clear" /\ target[t] # current[t] =>
         stage[target[t]] = "given"

(* No task is on two threads.                                              *)
OneThread ==
  \A t, u \in Threads : t # u =>
    \A k \in {target[t], current[t]} : k # NoTask => k \notin {target[u], current[u]}

IInv == TypeOK /\ Unborn /\ Nobody /\ Regular /\ Held /\ OneThread

(* What a thread that was not told to go makes of its task.                *)
Progress ==
  \A t \in Threads \ dismissed :
    /\ pc[t] = "run" => stage[current[t]] = "running"
    /\ pc[t] = "clear" => target[t] # NoTask /\ stage[target[t]] = "done"

(* Shutdown leaves the pool empty, and locked.                             *)
Over == phase = "down" => active = {} /\ free = {}

(* A task has been given to thread t, which is about to look for it, has   *)
(* found it, or will wake up.                                              *)
Pending(t) ==
  \/ pc[t] \in {"test", "call"}
  \/ pc[t] = "sleep" /\ sem[t] > 0

(* No thread waits with a task, unless it was told to go: the semaphore of *)
(* ThreadController is posted after every assignment, and used up by the   *)
(* Suspend it was meant for.                                               *)
NeverStalled ==
  \A t \in Threads \ dismissed :
    target[t] # NoTask /\ stage[target[t]] = "given" => Pending(t)

(* When Shutdown has returned, no thread is inside a task or about to be,  *)
(* unless it was told to go before it was given the task.                  *)
DownIsIdle ==
  phase = "down" =>
    \A t \in Threads \ dismissed : target[t] = NoTask /\ pc[t] \notin {"call", "run", "clear"}

-------------------------------------------------------------------------------
(* The sets are finite, so that their sizes are numbers.                   *)
LEMMA Sizes ==
  ASSUME TypeOK, NEW some \in SUBSET Threads
  PROVE  Cardinality(some) \in Nat
<1>1. IsFiniteSet(Threads)
  BY ThreadPoolAssumption, FS_Interval DEF Threads
<1> QED BY <1>1, FS_Subset, FS_CardinalityType

LEMMA InitIInv == Init => IInv
BY ThreadPoolAssumption
   DEF Init, IInv, TypeOK, Unborn, Nobody, Regular, Held, OneThread, Threads

(* ExecuteTask picks a thread of the pool, or starts one.                  *)
LEMMA ExecuteTaskKeeps ==
  ASSUME IInv, NEW k \in Tasks, ExecuteTask(k)
  PROVE  IInv'
<1> USE ThreadPoolAssumption DEF IInv, thread, sets, counts
<1>1. ASSUME NEW t \in free, Assign(t, k)
      PROVE  IInv'
  <2> USE <1>1 DEF ExecuteTask, Assign
  <2>1. t \in Threads
    BY DEF TypeOK
  <2>2. TypeOK'
    BY <2>1 DEF TypeOK
  <2>3. Unborn' /\ Nobody'
    BY <2>1 DEF Unborn, Nobody, TypeOK
  <2>4. \A u \in Threads : target[u] # k /\ current[u] # k
    BY DEF Held
  <2>5. Regular'
    BY <2>1 DEF Regular, TypeOK
  <2>6. Held'
    BY <2>1, <2>4 DEF Held, TypeOK
  <2>7. OneThread'
    BY <2>1, <2>4 DEF OneThread, TypeOK
  <2> QED BY <2>2, <2>3, <2>5, <2>6, <2>7
<1>2. CASE AssignNew(k)
  <2> USE <1>2 DEF ExecuteTask, AssignNew, StartThreads, Newborn
  <2> DEFINE n == born + 1
  <2>1. n \in Threads /\ born' = n /\ pc' = [pc EXCEPT ![n] = "test"]
    <3>1. born \in Nat /\ n <= MaxThreads /\ born' = n
      BY DEF Threads, TypeOK
    <3>2. n .. n = {n}
      BY <3>1
    <3>3. pc' = [t \in Threads |-> IF t = n THEN "test" ELSE pc[t]]
      BY <3>2
    <3>4. n \in Threads
      BY <3>1 DEF Threads
    <3> QED BY <3>1, <3>3, <3>4 DEF TypeOK
  <2>2. pc[n] = "none"
    BY <2>1 DEF Unborn, TypeOK
  <2>3. TypeOK'
    BY <2>1 DEF TypeOK, Threads
  <2>4. Unborn' /\ Nobody'
    BY <2>1, <2>2 DEF Unborn, Nobody, TypeOK, Threads
  <2>5. \A u \in Threads : target[u] # k /\ current[u] # k
    BY DEF Held
  <2>6. Regular'
    BY <2>1, <2>2 DEF Regular, Nobody, TypeOK
  <2>7. Held'
    BY <2>1, <2>2, <2>5 DEF Held, TypeOK
  <2>8. OneThread'
    BY <2>1, <2>5 DEF OneThread, TypeOK
  <2> QED BY <2>3, <2>4, <2>6, <2>7, <2>8
<1> QED BY <1>1, <1>2 DEF ExecuteTask

(* Threads started without a task are on their way into the pool.          *)
LEMMA StartThreadsKeeps ==
  ASSUME IInv, NEW n \in Nat, StartThreads(n),
         UNCHANGED <<target, current, dismissed, sem, active, free, stage>>
  PROVE  (Unborn /\ Nobody /\ Regular /\ Held /\ OneThread)'
<1> USE ThreadPoolAssumption DEF IInv, StartThreads, Newborn
<1>1. born \in Nat /\ \A t \in Threads : t \in Nat
  BY DEF TypeOK, Threads
<1>2. \A t \in Threads : IF t \in (born + 1) .. (born + n) THEN pc[t] = "none" /\ pc'[t] = "test"
                         ELSE pc'[t] = pc[t]
  BY <1>1 DEF Unborn, TypeOK
<1>3. Unborn'
  BY <1>1, <1>2 DEF Unborn
<1>4. Nobody'
  BY <1>2 DEF Nobody
<1>5. Regular'
  BY <1>2 DEF Regular, Nobody
<1>6. Held' /\ OneThread'
  BY <1>2 DEF Held, OneThread
<1> QED BY <1>3, <1>4, <1>5, <1>6

(* Telling threads of the pool to go takes their targets away.             *)
LEMMA DismissKeeps ==
  ASSUME IInv, NEW some \in SUBSET free,
         target' = [t \in Threads |-> IF t \in some THEN NoTask ELSE target[t]],
         dismissed' = dismissed \cup some,
         sem' = [t \in Threads |-> IF t \in some THEN sem[t] + 1 ELSE sem[t]],
         UNCHANGED <<pc, current, active, free, born, stage>>
  PROVE  (Unborn /\ Nobody /\ Regular /\ Held /\ OneThread)'
<1> USE DEF IInv
<1>1. some \subseteq Threads /\ \A t \in some : pc[t] \notin {"none", "gone"}
  BY DEF TypeOK, Nobody
<1>2. Unborn' /\ Nobody'
  BY <1>1 DEF Unborn, Nobody
<1>3. Regular'
  BY <1>1 DEF Regular
<1>4. Held'
  BY <1>1 DEF Held
<1>5. OneThread'
  BY <1>1 DEF OneThread
<1> QED BY <1>2, <1>3, <1>4, <1>5

(* The main loop's calls.                                                  *)
LEMMA IntegrityCheckKeeps ==
  ASSUME IInv, IntegrityCheck
  PROVE  IInv'
<1> USE ThreadPoolAssumption DEF IInv, IntegrityCheck, sets, counts
<1>1. ASSUME NEW n \in Nat, StartThreads(n), UNCHANGED <<target, sem, dismissed, toExit>>,
             eaten' \in Int
      PROVE  IInv'
  <2>1. TypeOK'
    BY <1>1 DEF TypeOK, StartThreads, Threads
  <2> QED BY <1>1, <2>1, StartThreadsKeeps
<1>2. CASE Respawn
  BY <1>1, <1>2 DEF Respawn, TypeOK
<1>3. CASE Refill
  <2>1. Reserve - eaten \in Nat
    BY <1>3 DEF Refill, TypeOK
  <2> QED BY <1>1, <1>3, <2>1 DEF Refill, TypeOK
<1>4. CASE KillOff
  <2>1. PICK some \in Some(eaten - ThreadCount) : KillFreeThreads(some)
    BY <1>4 DEF KillOff
  <2>2. some \in SUBSET free /\ some \in SUBSET Threads
    BY DEF Some, TypeOK
  <2>3. TypeOK'
    BY <1>4, <2>1, <2>2, Sizes DEF TypeOK, KillOff, KillFreeThreads
  <2> QED BY <1>4, <2>1, <2>2, <2>3, DismissKeeps DEF KillOff, KillFreeThreads
<1>5. CASE UNCHANGED <<pc, born, target, sem, dismissed, counts>>
  BY <1>5 DEF TypeOK, Unborn, Nobody, Regular, Held, OneThread
<1> QED BY <1>2, <1>3, <1>4, <1>5

LEMMA ShutdownKeeps ==
  ASSUME IInv, BeginShutdown \/ EndShutdown
  PROVE  IInv'
<1> USE DEF IInv, thread, sets, counts
<1>1. CASE BeginShutdown
  <2>1. free \in SUBSET Threads /\ active \in SUBSET Threads
    BY DEF TypeOK
  <2>2. target' \in [Threads -> Tasks \cup {NoTask}]
    BY <1>1 DEF BeginShutdown, TypeOK
  <2>3. TypeOK'
    BY <1>1, <2>1, <2>2, Sizes DEF BeginShutdown, TypeOK
  <2> QED BY <1>1, <2>3, DismissKeeps DEF BeginShutdown
<1>2. CASE EndShutdown
  BY <1>2 DEF EndShutdown, TypeOK, Unborn, Nobody, Regular, Held, OneThread
<1> QED BY <1>1, <1>2

(* thread_proc.                                                            *)
LEMMA ThreadProcKeeps ==
  ASSUME IInv, NEW t \in Threads, ThreadProc(t) \/ Return(t)
  PROVE  IInv'
<1> USE ThreadPoolAssumption DEF IInv, sets, counts, Goto
<1>1. CASE Test(t)
  <2> USE <1>1 DEF Test
  <2>1. TypeOK'
    BY DEF TypeOK
  <2>2. Unborn' /\ Nobody'
    BY DEF Unborn, Nobody, TypeOK
  <2>3. Regular'
    BY DEF Regular, TypeOK
  <2>4. Held' /\ OneThread'
    BY DEF Held, OneThread, TypeOK
  <2> QED BY <2>1, <2>2, <2>3, <2>4
<1>2. CASE Call(t)
  <2> USE <1>2 DEF Call
  <2>1. target[t] \in Tasks /\ current[t] = NoTask
    BY DEF TypeOK, Held
  <2>2. TypeOK'
    BY <2>1 DEF TypeOK
  <2>3. Unborn' /\ Nobody'
    BY DEF Unborn, Nobody, TypeOK
  <2>4. Regular'
    BY DEF Regular, TypeOK
  <2>5. \A u \in Threads : u # t => target[u] # target[t] /\ current[u] # target[t]
    BY <2>1 DEF OneThread
  <2>6. Held'
    BY <2>1, <2>5 DEF Held, TypeOK
  <2>7. OneThread'
    BY <2>1 DEF OneThread, TypeOK
  <2> QED BY <2>2, <2>3, <2>4, <2>6, <2>7
<1>3. CASE Return(t)
  <2> USE <1>3 DEF Return
  <2>1. current[t] \in Tasks
    BY DEF TypeOK, Held
  <2>2. TypeOK'
    BY DEF TypeOK
  <2>3. Unborn' /\ Nobody'
    BY DEF Unborn, Nobody, TypeOK
  <2>4. Regular'
    BY DEF Regular, TypeOK
  <2>5. \A u \in Threads : u # t =>
         \A k \in {target[t], current[t]} : k # NoTask => k \notin {target[u], current[u]}
    BY DEF OneThread
  <2>6. \A k \in Tasks : /\ stage'[k] # stage[k] => k \in {target[t], current[t]}
                         /\ stage'[k] \in {stage[k], "done"}
    BY DEF TypeOK
  <2>7. Held'
    <3>1. ASSUME NEW u \in Threads, u # t
          PROVE  /\ target[u] # NoTask => stage'[target[u]] = stage[target[u]]
                 /\ current[u] # NoTask => stage'[current[u]] = stage[current[u]]
      BY <2>5, <2>6, <3>1 DEF TypeOK
    <3>2. target[t] # NoTask => stage'[target[t]] # "new"
      BY <2>6 DEF Held, TypeOK
    <3> QED BY <3>1, <3>2 DEF Held, TypeOK
  <2>8. OneThread'
    BY DEF OneThread, TypeOK
  <2> QED BY <2>2, <2>3, <2>4, <2>7, <2>8
<1>4. CASE Clear(t)
  <2> USE <1>4 DEF Clear
  <2>1. TypeOK'
    BY DEF TypeOK
  <2>2. Unborn' /\ Nobody'
    BY DEF Unborn, Nobody, TypeOK
  <2>3. Regular'
    BY DEF Regular, TypeOK
  <2>4. Held' /\ OneThread'
    BY DEF Held, OneThread, TypeOK
  <2> QED BY <2>1, <2>2, <2>3, <2>4
<1>5. CASE ThreadExit(t)
  <2> USE <1>5 DEF ThreadExit
  <2>1. TypeOK'
    BY DEF TypeOK
  <2>2. t \notin dismissed => t \notin free
    BY DEF Regular
  <2>3. Unborn' /\ Nobody'
    BY <2>2 DEF Unborn, Nobody, TypeOK
  <2>4. Regular'
    BY <2>2 DEF Regular, TypeOK
  <2>5. Held' /\ OneThread'
    BY DEF Held, OneThread, TypeOK
  <2> QED BY <2>1, <2>3, <2>4, <2>5
<1>6. CASE Suspend(t)
  <2> USE <1>6 DEF Suspend
  <2>1. TypeOK'
    BY DEF TypeOK
  <2>2. Unborn' /\ Nobody'
    BY DEF Unborn, Nobody, TypeOK
  <2>3. Regular'
    BY DEF Regular, TypeOK
  <2>4. Held' /\ OneThread'
    BY DEF Held, OneThread, TypeOK
  <2> QED BY <2>1, <2>2, <2>3, <2>4
<1> QED BY <1>1, <1>2, <1>3, <1>4, <1>5, <1>6 DEF ThreadProc

LEMMA Inductive == Spec => []IInv
<1>1. IInv /\ [Next]_vars => IInv'
  <2> SUFFICES ASSUME IInv, [Next]_vars PROVE IInv'
    OBVIOUS
  <2>1. CASE UNCHANGED vars
    BY <2>1 DEF vars, thread, sets, counts, IInv, TypeOK, Unborn, Nobody, Regular, Held, OneThread
  <2>2. CASE Next
    BY <2>2, ExecuteTaskKeeps, IntegrityCheckKeeps, ShutdownKeeps, ThreadProcKeeps DEF Next
  <2> QED BY <2>1, <2>2
<1> QED BY <1>1, InitIInv, PTL DEF Spec

(* A step of the pool or of a thread keeps Progress and Over.              *)
LEMMA OthersKeepProgress ==
  ASSUME IInv, IInv', Progress, Over, NEW t \in Threads, ThreadProc(t) \/ Return(t)
  PROVE  Progress' /\ Over'
<1> USE ThreadPoolAssumption DEF sets, counts, Goto
<1> USE DEF IInv
<1>1. CASE Test(t) \/ Suspend(t)
  BY <1>1 DEF Test, Suspend, Progress, Over, TypeOK
<1>2. CASE Call(t)
  <2> USE <1>2 DEF Call
  <2>1. Over'
    BY DEF Over
  <2>2. target[t] \in Tasks /\ stage'[target[t]] = "running" /\ current'[t] = target[t]
        /\ \A k \in Tasks \ {target[t]} : stage'[k] = stage[k]
    BY DEF TypeOK
  <2>3. \A u \in Threads \ {t} : target[u] # target[t] /\ current[u] # target[t]
    BY <2>2 DEF OneThread
  <2>4. ASSUME NEW u \in Threads \ dismissed, pc'[u] = "run"
        PROVE  stage'[current'[u]] = "running"
    <3>1. CASE u = t
      BY <2>2, <3>1
    <3>2. CASE u # t
      <4>1. pc[u] = "run" /\ current'[u] = current[u] /\ current[u] \in Tasks \ {target[t]}
        BY <2>3, <2>4, <3>2 DEF TypeOK, Held
      <4> QED BY <2>2, <4>1 DEF Progress
    <3> QED BY <3>1, <3>2
  <2>5. ASSUME NEW u \in Threads \ dismissed, pc'[u] = "clear"
        PROVE  target[u] # NoTask /\ stage'[target[u]] = "done"
    <3>1. u # t /\ pc[u] = "clear"
      BY <2>5 DEF TypeOK
    <3>2. target[u] # NoTask /\ target[u] \in Tasks \ {target[t]} /\ stage[target[u]] = "done"
      BY <2>3, <3>1 DEF Progress, TypeOK
    <3> QED BY <2>2, <3>2
  <2> QED BY <2>1, <2>4, <2>5 DEF Progress
<1>3. CASE Return(t)
  <2> USE <1>3 DEF Return
  <2>1. Over'
    BY DEF Over
  <2>2. /\ current[t] \in Tasks /\ stage'[current[t]] = "done"
        /\ \A k \in Tasks : k \notin {target[t], current[t]} => stage'[k] = stage[k]
    BY DEF TypeOK, Held
  <2>3. \A u \in Threads \ {t} :
          \A k \in {target[u], current[u]} : k # NoTask => k \notin {target[t], current[t]}
    BY DEF OneThread
  <2>4. ASSUME NEW u \in Threads \ dismissed, pc'[u] = "run"
        PROVE  stage'[current'[u]] = "running"
    <3>1. u # t /\ pc[u] = "run" /\ current'[u] = current[u]
      BY <2>4 DEF TypeOK
    <3>2. current[u] \in Tasks /\ current[u] \notin {target[t], current[t]}
      BY <2>3, <3>1 DEF TypeOK, Held
    <3> QED BY <2>2, <3>1, <3>2 DEF Progress
  <2>5. ASSUME NEW u \in Threads \ dismissed, pc'[u] = "clear"
        PROVE  target[u] # NoTask /\ stage'[target[u]] = "done"
    <3>1. CASE u = t
      <4>1. target[t] = current[t] /\ target[t] # NoTask
        BY <3>1, <2>2, ThreadPoolAssumption DEF Regular
      <4> QED BY <2>2, <3>1, <4>1
    <3>2. CASE u # t
      <4>1. pc[u] = "clear" /\ target[u] # NoTask /\ stage[target[u]] = "done"
        BY <2>5, <3>2 DEF Progress, TypeOK
      <4>2. target[u] \in Tasks /\ target[u] \notin {target[t], current[t]}
        BY <2>3, <3>2, <4>1 DEF TypeOK
      <4> QED BY <2>2, <4>1, <4>2
    <3> QED BY <3>1, <3>2
  <2> QED BY <2>1, <2>4, <2>5 DEF Progress
<1>4. CASE Clear(t)
  BY <1>4 DEF Clear, Progress, Over, TypeOK
<1>5. CASE ThreadExit(t)
  <2>1. phase # "down" /\ phase' = phase
    BY <1>5 DEF ThreadExit, MutexIsFree
  <2>2. Progress'
    BY <1>5 DEF ThreadExit, Progress, TypeOK
  <2> QED BY <2>1, <2>2 DEF Over
<1> QED BY <1>1, <1>2, <1>3, <1>4, <1>5 DEF ThreadProc

LEMMA PoolKeepsProgress ==
  ASSUME IInv, IInv', Progress, Over,
         (\E k \in Tasks : ExecuteTask(k)) \/ IntegrityCheck \/ BeginShutdown \/ EndShutdown
  PROVE  Progress' /\ Over'
<1> USE ThreadPoolAssumption DEF sets, counts, thread, IInv
(* The threads that run are none of those the pool touches.                *)
<1>1. ASSUME \A t \in Threads \ dismissed' :
               pc'[t] \in {"run", "clear"} =>
                 /\ pc[t] = pc'[t] /\ t \notin dismissed
                 /\ target'[t] = target[t] /\ current'[t] = current[t],
             \A k \in Tasks : stage[k] # "new" => stage'[k] = stage[k]
      PROVE  Progress'
  <2> SUFFICES ASSUME NEW t \in Threads \ dismissed', pc'[t] \in {"run", "clear"}
               PROVE  /\ pc'[t] = "run" => stage'[current'[t]] = "running"
                      /\ pc'[t] = "clear" => target'[t] # NoTask /\ stage'[target'[t]] = "done"
    BY DEF Progress
  <2>1. /\ pc[t] = pc'[t] /\ t \in Threads \ dismissed
        /\ target'[t] = target[t] /\ current'[t] = current[t]
    BY <1>1
  <2>2. CASE pc'[t] = "run"
    <3>1. current[t] \in Tasks /\ stage[current[t]] = "running"
      BY <2>1, <2>2 DEF Progress, Held, TypeOK
    <3> QED BY <1>1, <2>1, <2>2, <3>1
  <2>3. CASE pc'[t] = "clear"
    <3>1. target[t] \in Tasks /\ target[t] # NoTask /\ stage[target[t]] = "done"
      BY <2>1, <2>3 DEF Progress, TypeOK
    <3> QED BY <1>1, <2>1, <2>3, <3>1
  <2> QED BY <2>2, <2>3
<1>2. ASSUME NEW k \in Tasks, ExecuteTask(k)
      PROVE  Progress' /\ Over'
  <2>1. Over'
    BY <1>2 DEF ExecuteTask, MutexIsFree, Over
  <2>2. stage[k] = "new" /\ stage' = [stage EXCEPT ![k] = "given"]
        /\ UNCHANGED <<dismissed, current>>
    BY <1>2 DEF ExecuteTask
  <2>3. CASE \E t \in free : Assign(t, k)
    <3>1. PICK t \in free : Assign(t, k)
      BY <2>3
    <3>2. t \notin dismissed => pc[t] = "sleep"
      BY <3>1 DEF Regular, TypeOK
    <3> QED BY <1>1, <2>1, <2>2, <3>1, <3>2 DEF Assign, TypeOK
  <2>4. CASE AssignNew(k)
    <3>1. born \in Nat /\ (born + 1) .. (born + 1) = {born + 1}
      BY DEF TypeOK, Threads
    <3>2. \A t \in Threads : pc'[t] \in {"run", "clear"} => pc[t] = pc'[t] /\ t # born + 1
      BY <2>4, <3>1 DEF AssignNew, StartThreads, Newborn, TypeOK
    <3> QED BY <1>1, <2>1, <2>2, <2>4, <3>2 DEF AssignNew, TypeOK
  <2> QED BY <1>2, <2>3, <2>4 DEF ExecuteTask
<1>3. CASE IntegrityCheck
  <2>1. Over' /\ UNCHANGED <<current, active, free, stage>>
    BY <1>3 DEF IntegrityCheck, Over
  <2>2. ASSUME NEW n, StartThreads(n)
        PROVE  \A t \in Threads : pc'[t] \in {"run", "clear"} => pc[t] = pc'[t]
    BY <2>2 DEF StartThreads, TypeOK
  <2>3. CASE Respawn \/ Refill
    BY <1>1, <2>1, <2>2, <2>3 DEF Respawn, Refill
  <2>4. CASE KillOff
    BY <1>1, <2>1, <2>4 DEF KillOff, KillFreeThreads, TypeOK
  <2>5. CASE UNCHANGED <<pc, born, target, sem, dismissed, counts>>
    BY <1>1, <2>1, <2>5
  <2> QED BY <1>3, <2>3, <2>4, <2>5 DEF IntegrityCheck
<1>4. CASE BeginShutdown
  BY <1>1, <1>4 DEF BeginShutdown, Over, TypeOK
<1>5. CASE EndShutdown
  BY <1>1, <1>5 DEF EndShutdown, Over
<1> QED BY <1>2, <1>3, <1>4, <1>5

LEMMA ProgressInductive == Spec => [](Progress /\ Over)
<1>1. Init => Progress /\ Over
  BY DEF Init, Progress, Over
<1>2. IInv /\ IInv' /\ Progress /\ Over /\ [Next]_vars => Progress' /\ Over'
  <2>1. ASSUME Progress, Over, UNCHANGED vars
        PROVE  Progress' /\ Over'
    BY <2>1 DEF vars, thread, sets, counts, Progress, Over
  <2> QED BY <2>1, OthersKeepProgress, PoolKeepsProgress DEF Next
<1> QED BY <1>1, <1>2, Inductive, PTL DEF Spec

-------------------------------------------------------------------------------
(* Type correctness of the pool: its two sets, its counters, the semaphore *)
(* and ExecutionTarget of each Thread.                                     *)
THEOREM TypeCorrect == Spec => []TypeOK
<1>1. IInv => TypeOK
  BY DEF IInv
<1> QED BY <1>1, Inductive, PTL

(* A Thread that ThreadExit has deleted is in no set of the pool: neither  *)
(* ExecuteTask nor KillFreeThreads can touch it.                           *)
THEOREM NobodyKeepsADeletedThread == Spec => []GoneIsNowhere
<1>1. IInv => GoneIsNowhere
  BY DEF IInv, Nobody, GoneIsNowhere
<1> QED BY <1>1, Inductive, PTL

(* Whatever threads are told to go and however the exits are mixed up, no  *)
(* task of ExecuteTask is run twice.                                       *)
THEOREM NoTaskTwice == Spec => []BegunOnce
<1>1. IInv => BegunOnce
  <2> SUFFICES ASSUME IInv, NEW t \in Threads, target[t] # NoTask
               PROVE  /\ \A u \in Threads : target[u] = target[t] => u = t
                      /\ pc[t] = "call" => stage[target[t]] = "given"
    BY DEF BegunOnce
  <2>1. \A u \in Threads : target[u] = target[t] => u = t
    BY DEF IInv, OneThread
  <2>2. pc[t] = "call" => stage[target[t]] = "given"
    BY DEF IInv, Held
  <2> QED BY <2>1, <2>2
<1> QED BY <1>1, Inductive, PTL

(* Nobody writes the ExecutionTarget of a thread between its test and the  *)
(* end of run() unless DeleteAfterExit is set.                             *)
THEOREM NobodyDisturbs == Spec => []Undisturbed
<1>1. IInv => Undisturbed
  BY DEF IInv, Regular, Undisturbed
<1> QED BY <1>1, Inductive, PTL

(* ExecuteTask's assignment is never lost between thread_proc's look at    *)
(* ExecutionTarget and its Suspend: the thread sees the task, or its       *)
(* semaphore is up.                                                        *)
THEOREM NoTaskStalls == Spec => []NeverStalled
<1>1. IInv /\ Progress => NeverStalled
  <2> SUFFICES ASSUME IInv, Progress, NEW t \in Threads \ dismissed,
                      target[t] # NoTask, stage[target[t]] = "given"
               PROVE  Pending(t)
    BY DEF NeverStalled
  <2>1. pc[t] \notin {"none", "exit", "gone", "clear"}
    BY DEF IInv, Nobody, Regular, Progress
  <2>2. pc[t] # "run"
    BY DEF IInv, Regular, Progress
  <2>3. pc[t] = "sleep" => sem[t] > 0
    BY DEF IInv, Regular
  <2> QED BY <2>1, <2>2, <2>3 DEF IInv, TypeOK, Pending
<1> QED BY <1>1, Inductive, ProgressInductive, PTL

(* Shutdown returns when both sets are empty: of the threads that were not *)
(* told to go none is then inside a task, or has one.                      *)
THEOREM ShutdownLeavesNoTask == Spec => []DownIsIdle
<1>1. IInv /\ Progress /\ Over => DownIsIdle
  <2> SUFFICES ASSUME IInv, Progress, Over, phase = "down", NEW t \in Threads \ dismissed
               PROVE  target[t] = NoTask /\ pc[t] \notin {"call", "run", "clear"}
    BY DEF DownIsIdle
  <2>1. target[t] = NoTask
    BY DEF IInv, Regular, Over
  <2>2. pc[t] \notin {"call", "clear"}
    BY <2>1 DEF IInv, Regular, Progress
  <2>3. pc[t] # "run"
    BY <2>1 DEF IInv, Regular, Held
  <2> QED BY <2>1, <2>2, <2>3
<1> QED BY <1>1, Inductive, ProgressInductive, PTL
=============================================================================
