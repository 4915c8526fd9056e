-------------------------------- MODULE RWLock --------------------------------
(***************************************************************************)
(* The reader/writer lock of libs/Threading/RWLock.h on the pthread build  *)
(* of Mutex and Condition.  Every manager that is shared between threads   *)
(* (ClientMgr, ClusterMgr, ObjectMgr, World, AuctionHouse) is guarded by   *)
(* one of these.                                                           *)
(*                                                                         *)
(* Each action runs from one blocking call to the next: everything between *)
(* BeginSynchronized and EndSynchronized (or Wait) happens under _lock, so *)
(* no other thread can observe a state in the middle of it.                *)
(***************************************************************************)
EXTENDS Integers, FiniteSets

CONSTANTS
  Threads,        (* the threads that use the lock                         *)
  NoThread,       (* the owner of a mutex nobody holds                     *)
  SpuriousWakeup  (* TRUE if a wait on the condition may return unsignalled *)

ASSUME ThreadsAssumption ==
  /\ IsFiniteSet(Threads)
  /\ NoThread \notin Threads
  /\ SpuriousWakeup \in BOOLEAN

VARIABLES
  lock,     (* the owner of _lock, or NoThread                             *)
  readers,  (* _readers                                                    *)
  writers,  (* _writers: threads between Acquire- and ReleaseWriteLock     *)
  section   (* where each thread is                                        *)

vars == <<lock, readers, writers, section>>

(***************************************************************************)
(* "out"      not using the lock                                           *)
(* "reading"  between AcquireReadLock and ReleaseReadLock                  *)
(* "waiting"  blocked in the Wait of AcquireWriteLock, _lock given up      *)
(* "woken"    Wait is returning: contending for _lock                      *)
(* "writing"  in the write section, entered without waiting                *)
(* "resumed"  in the write section, entered after a Wait                   *)
(***************************************************************************)
Sections == {"out", "reading", "waiting", "woken", "writing", "resumed"}

In(s)      == {t \in Threads : section[t] = s}
ReadersIn  == In("reading")
WritersIn  == In("waiting") \cup In("woken") \cup In("writing") \cup In("resumed")
Writing(t) == section[t] \in {"writing", "resumed"}

Init ==
  /\ lock = NoThread
  /\ readers = 0
  /\ writers = 0
  /\ section = [t \in Threads |-> "out"]

(* pthread_cond_signal: one waiter, if there is any, starts to wake up.    *)
Signal(s) ==
  LET waiters == {t \in Threads : s[t] = "waiting"}
  IN  IF waiters = {} THEN {s} ELSE {[s EXCEPT ![w] = "woken"] : w \in waiters}

(* A reader that is not counted.                                           *)
AcquireReadLockUncounted(t) ==
  /\ section[t] = "out"
  /\ lock = NoThread
  /\ section' = [section EXCEPT ![t] = "reading"]
  /\ UNCHANGED <<lock, readers, writers>>

AcquireReadLock(t) ==
  /\ section[t] = "out"
  /\ lock = NoThread
  /\ readers' = readers + 1
  /\ section' = [section EXCEPT ![t] = "reading"]
  /\ UNCHANGED <<lock, writers>>

(* A last reader that leaves without a signal.                             *)
ReleaseReadLockUnsignalled(t) ==
  /\ section[t] = "reading"
  /\ lock = NoThread
  /\ readers' = readers - 1
  /\ section' = [section EXCEPT ![t] = "out"]
  /\ UNCHANGED <<lock, writers>>

ReleaseReadLock(t) ==
  /\ section[t] = "reading"
  /\ lock = NoThread
  /\ readers' = readers - 1
  /\ LET s == [section EXCEPT ![t] = "out"]
     IN  IF readers' = 0 /\ writers > 0
         THEN section' \in Signal(s)
         ELSE section' = s
  /\ UNCHANGED <<lock, writers>>

(* A writer that finds no reader but gives _lock back before it writes.    *)
EnterWriteLockNotKept(t) ==
  /\ section[t] = "out"
  /\ lock = NoThread
  /\ readers = 0
  /\ writers' = writers + 1
  /\ section' = [section EXCEPT ![t] = "writing"]
  /\ UNCHANGED <<lock, readers>>

(* No reader inside: the writer goes ahead and keeps _lock.                *)
EnterWriteLock(t) ==
  /\ section[t] = "out"
  /\ lock = NoThread
  /\ readers = 0
  /\ writers' = writers + 1
  /\ lock' = t
  /\ section' = [section EXCEPT ![t] = "writing"]
  /\ UNCHANGED readers

(* A waiting writer that is counted only once it is inside.                *)
WaitWriteLockUncounted(t) ==
  /\ section[t] = "out"
  /\ lock = NoThread
  /\ readers > 0
  /\ section' = [section EXCEPT ![t] = "waiting"]
  /\ UNCHANGED <<lock, readers, writers>>

(* Readers inside: the writer gives _lock up in Wait.                      *)
WaitWriteLock(t) ==
  /\ section[t] = "out"
  /\ lock = NoThread
  /\ readers > 0
  /\ writers' = writers + 1
  /\ section' = [section EXCEPT ![t] = "waiting"]
  /\ UNCHANGED <<lock, readers>>

AcquireWriteLock(t) == EnterWriteLock(t) \/ WaitWriteLock(t)

(* Wait returns with _lock held.  The caller does not look at _readers     *)
(* again: the test is an if, not a loop.                                   *)
ReturnFromWait(t) ==
  /\ section[t] = "woken"
  /\ lock = NoThread
  /\ lock' = t
  /\ section' = [section EXCEPT ![t] = "resumed"]
  /\ UNCHANGED <<readers, writers>>

WakeSpuriously(t) ==
  /\ SpuriousWakeup
  /\ section[t] = "waiting"
  /\ section' = [section EXCEPT ![t] = "woken"]
  /\ UNCHANGED <<lock, readers, writers>>

(* A writer that leaves without a look at the writers behind it.           *)
ReleaseWriteLockUnsignalled(t) ==
  /\ Writing(t)
  /\ writers' = writers - 1
  /\ lock' = NoThread
  /\ section' = [section EXCEPT ![t] = "out"]
  /\ UNCHANGED readers

ReleaseWriteLock(t) ==
  /\ Writing(t)
  /\ writers' = writers - 1
  /\ lock' = NoThread
  /\ LET s == [section EXCEPT ![t] = "out"]
     IN  IF writers' > 0 THEN section' \in Signal(s) ELSE section' = s
  /\ UNCHANGED readers

Next ==
  \E t \in Threads :
    \/ AcquireReadLock(t)
    \/ ReleaseReadLock(t)
    \/ AcquireWriteLock(t)
    \/ ReturnFromWait(t)
    \/ WakeSpuriously(t)
    \/ ReleaseWriteLock(t)

Spec == Init /\ [][Next]_vars

(***************************************************************************)
(* A thread inside a section leaves it (the callers run bounded loops) and *)
(* a thread contending for a mutex that is freed again and again gets it.  *)
(* Nobody is obliged to ask for the lock.                                  *)
(***************************************************************************)
Fairness ==
  \A t \in Threads :
    /\ SF_vars(ReleaseReadLock(t))
    /\ SF_vars(ReturnFromWait(t))
    /\ WF_vars(ReleaseWriteLock(t))

FairSpec == Spec /\ Fairness

-------------------------------------------------------------------------------

TypeOK ==
  /\ lock \in Threads \cup {NoThread}
  /\ readers \in Nat
  /\ writers \in Nat
  /\ section \in [Threads -> Sections]

(* Two write sections never overlap, whether the writers entered directly, *)
(* after a signal or after a spurious wakeup: AcquireWriteLock returns     *)
(* with _lock held and ReleaseWriteLock is what gives it back.             *)
OneWriter ==
  \A t, u \in Threads : Writing(t) /\ Writing(u) => t = u

(* The counters are exact: _readers counts the open read sections,         *)
(* _writers the threads that asked for the write lock and did not release  *)
(* it, those asleep included.  ReleaseReadLock and ReleaseWriteLock decide *)
(* from them whether to signal.                                            *)
CountersExact ==
  /\ readers = Cardinality(ReadersIn)
  /\ writers = Cardinality(WritersIn)

(* A writer is never left asleep with nobody to wake it: as long as one    *)
(* waits, a reader inside, a writer inside or a writer already woken will  *)
(* pass the signal on when it leaves.                                      *)
NoLostWakeup ==
  In("waiting") # {} =>
    \/ readers > 0
    \/ In("woken") # {}
    \/ \E t \in Threads : Writing(t)

(* A writer that found no reader excludes readers for its whole section:   *)
(* AcquireReadLock blocks on the mutex the writer kept.                    *)
DirectWriterExcludesReaders ==
  In("writing") # {} => readers = 0

(* What the callers take the lock to give: nobody reads while somebody     *)
(* writes ("no need for sync here, were under a write lock").  A writer    *)
(* that comes back from Wait does not re-test _readers, and a reader can   *)
(* slip in between the signal and the return.                              *)
WriterExcludesReaders ==
  (\E t \in Threads : Writing(t)) => ReadersIn = {}

(* If the readers leave again and again (the code gives waiting writers no *)
(* priority over new readers), a waiting writer leads to a thread writing. *)
WriterProgress ==
  []<>(readers = 0) =>
    (In("waiting") # {} ~> \E t \in Threads : Writing(t))

===============================================================================
