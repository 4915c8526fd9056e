----------------------------- MODULE RWLockProofs -----------------------------
(***************************************************************************)
(* What holds of RWLock for any finite number of threads, with or without  *)
(* spurious wakeups.                                                       *)
(***************************************************************************)
EXTENDS RWLock, FiniteSetTheorems, TLAPS

(* A signal only moves a waiting thread to "woken".                        *)
LEMMA SignalWakesOneWaiter ==
  ASSUME NEW s \in [Threads -> Sections], NEW r \in Signal(s)
  PROVE  /\ r \in [Threads -> Sections]
         /\ \A u \in Threads :
              r[u] = s[u] \/ (s[u] = "waiting" /\ r[u] = "woken")
         /\ (\E u \in Threads : s[u] = "waiting") =>
              \E u \in Threads : r[u] = "woken"
  BY DEF Signal, Sections

(* The variables keep their types, except that a counter is only known to  *)
(* be an integer until CountersExact ties it to a set of threads.          *)
Shape ==
  /\ lock \in Threads \cup {NoThread}
  /\ section \in [Threads -> Sections]

(* Between actions _lock is held exactly by the thread that writes.        *)
HeldByWriter ==
  \A t \in Threads : Writing(t) <=> lock = t

(* The invariant that is inductive: each conjunct needs the others.        *)
IInv ==
  /\ Shape
  /\ HeldByWriter
  /\ CountersExact
  /\ NoLostWakeup
  /\ DirectWriterExcludesReaders

(* Where threads are decides the counters, and the counters are naturals.  *)
LEMMA CountersAreNaturals ==
  ASSUME CountersExact
  PROVE  /\ readers \in Nat /\ writers \in Nat
         /\ readers = 0 <=> ReadersIn = {}
         /\ writers = 0 <=> WritersIn = {}
  <1>1. IsFiniteSet(ReadersIn) /\ IsFiniteSet(WritersIn)
    <2>1. ReadersIn \in SUBSET Threads /\ WritersIn \in SUBSET Threads
      BY DEF ReadersIn, WritersIn, In
    <2> QED BY <2>1, FS_Subset, ThreadsAssumption
  <1>2. Cardinality(ReadersIn) \in Nat /\ Cardinality(WritersIn) \in Nat
    BY <1>1, FS_CardinalityType
  <1>3. /\ Cardinality(ReadersIn) = 0 <=> ReadersIn = {}
        /\ Cardinality(WritersIn) = 0 <=> WritersIn = {}
    BY <1>1, FS_EmptySet
  <1> QED BY <1>2, <1>3 DEF CountersExact

(* One thread more, or one less, in a set of threads that a counter counts. *)
LEMMA CountOneMore ==
  ASSUME NEW S \in SUBSET Threads, NEW t \in Threads, t \notin S
  PROVE  Cardinality(S \cup {t}) = Cardinality(S) + 1
  BY FS_Subset, FS_AddElement, ThreadsAssumption

LEMMA CountOneLess ==
  ASSUME NEW S \in SUBSET Threads, NEW t \in S
  PROVE  Cardinality(S \ {t}) = Cardinality(S) - 1
  BY FS_Subset, FS_RemoveElement, ThreadsAssumption

LEMMA InitIInv == Init => IInv
  <1> SUFFICES ASSUME Init PROVE IInv
    OBVIOUS
  <1>1. ReadersIn = {} /\ WritersIn = {}
    BY DEF Init, ReadersIn, WritersIn, In
  <1>2. CountersExact
    BY <1>1, FS_EmptySet DEF Init, CountersExact
  <1>3. Shape /\ HeldByWriter
    BY ThreadsAssumption DEF Init, Shape, HeldByWriter, Writing, Sections
  <1>4. NoLostWakeup /\ DirectWriterExcludesReaders
    BY DEF Init, NoLostWakeup, DirectWriterExcludesReaders, In
  <1> QED BY <1>2, <1>3, <1>4 DEF IInv

LEMMA AcquireReadLockKeeps ==
  ASSUME IInv, NEW t \in Threads, AcquireReadLock(t)
  PROVE  IInv'
  <1> USE DEF IInv
  <1>1. Shape' /\ HeldByWriter'
    BY ThreadsAssumption DEF AcquireReadLock, Shape, HeldByWriter, Writing, Sections
  <1>2. ReadersIn' = ReadersIn \cup {t} /\ WritersIn' = WritersIn
    BY DEF AcquireReadLock, Shape, ReadersIn, WritersIn, In
  <1>3. CountersExact'
    <2>1. ReadersIn \in SUBSET Threads /\ t \notin ReadersIn
      BY DEF AcquireReadLock, ReadersIn, In
    <2> QED BY <1>2, <2>1, CountOneMore DEF AcquireReadLock, CountersExact
  <1>4. readers' > 0
    BY CountersAreNaturals DEF AcquireReadLock
  <1>5. NoLostWakeup'
    BY <1>4 DEF NoLostWakeup
  <1>6. DirectWriterExcludesReaders'
    BY ThreadsAssumption DEF AcquireReadLock, Shape, HeldByWriter, Writing,
       DirectWriterExcludesReaders, In
  <1> QED BY <1>1, <1>3, <1>5, <1>6

LEMMA ReleaseReadLockKeeps ==
  ASSUME IInv, NEW t \in Threads, ReleaseReadLock(t)
  PROVE  IInv'
  <1> USE DEF IInv
  <1> DEFINE s == [section EXCEPT ![t] = "out"]
  <1>1. s \in [Threads -> Sections]
    BY DEF Shape, Sections
  <1>2. /\ section' \in [Threads -> Sections]
        /\ \A u \in Threads :
             section'[u] = s[u] \/ (s[u] = "waiting" /\ section'[u] = "woken")
        /\ readers' = 0 /\ writers > 0 /\ (\E u \in Threads : s[u] = "waiting") =>
             \E u \in Threads : section'[u] = "woken"
    <2> HIDE DEF s
    <2>1. IF readers' = 0 /\ writers > 0 THEN section' \in Signal(s) ELSE section' = s
      BY DEF ReleaseReadLock, s
    <2> QED BY <1>1, <2>1, SignalWakesOneWaiter
  <1>3. Shape' /\ HeldByWriter'
    BY <1>2, ThreadsAssumption DEF ReleaseReadLock, Shape, HeldByWriter, Writing, Sections
  <1>4. ReadersIn' = ReadersIn \ {t} /\ WritersIn' = WritersIn
    BY <1>2 DEF ReleaseReadLock, Shape, ReadersIn, WritersIn, In
  <1>5. CountersExact'
    <2>1. ReadersIn \in SUBSET Threads /\ t \in ReadersIn
      BY DEF ReleaseReadLock, ReadersIn, In
    <2> QED BY <1>4, <2>1, CountOneLess DEF ReleaseReadLock, CountersExact
  <1>6. readers' \in Nat /\ writers \in Nat /\ (writers = 0 <=> WritersIn = {})
    <2>1. t \in ReadersIn
      BY DEF ReleaseReadLock, ReadersIn, In
    <2> QED BY <2>1, CountersAreNaturals DEF ReleaseReadLock
  <1>7. NoLostWakeup'
    <2> SUFFICES ASSUME readers' = 0, In("waiting")' # {}
                 PROVE  In("woken")' # {}
      BY <1>6 DEF NoLostWakeup
    <2>1. \E u \in Threads : s[u] = "waiting"
      BY <1>2 DEF In
    <2>2. writers > 0
      BY <1>6, <2>1 DEF WritersIn, In, Shape
    <2> QED BY <1>2, <2>1, <2>2 DEF In
  <1>8. DirectWriterExcludesReaders'
    BY <1>2, <1>3, ThreadsAssumption DEF ReleaseReadLock, Shape, HeldByWriter, Writing,
       DirectWriterExcludesReaders, In
  <1> QED BY <1>3, <1>5, <1>7, <1>8

LEMMA EnterWriteLockKeeps ==
  ASSUME IInv, NEW t \in Threads, EnterWriteLock(t)
  PROVE  IInv'
  <1> USE DEF IInv
  <1>1. Shape' /\ HeldByWriter'
    BY ThreadsAssumption DEF EnterWriteLock, Shape, HeldByWriter, Writing, Sections
  <1>2. ReadersIn' = ReadersIn /\ WritersIn' = WritersIn \cup {t}
    BY DEF EnterWriteLock, Shape, ReadersIn, WritersIn, In
  <1>3. CountersExact'
    <2>1. WritersIn \in SUBSET Threads /\ t \notin WritersIn
      BY DEF EnterWriteLock, WritersIn, In
    <2> QED BY <1>2, <2>1, CountOneMore DEF EnterWriteLock, CountersExact
  <1>4. NoLostWakeup'
    BY DEF EnterWriteLock, NoLostWakeup, Shape, Writing
  <1>5. DirectWriterExcludesReaders'
    BY DEF EnterWriteLock, DirectWriterExcludesReaders
  <1> QED BY <1>1, <1>3, <1>4, <1>5

LEMMA WaitWriteLockKeeps ==
  ASSUME IInv, NEW t \in Threads, WaitWriteLock(t)
  PROVE  IInv'
  <1> USE DEF IInv
  <1>1. Shape' /\ HeldByWriter'
    BY ThreadsAssumption DEF WaitWriteLock, Shape, HeldByWriter, Writing, Sections
  <1>2. ReadersIn' = ReadersIn /\ WritersIn' = WritersIn \cup {t}
    BY DEF WaitWriteLock, Shape, ReadersIn, WritersIn, In
  <1>3. CountersExact'
    <2>1. WritersIn \in SUBSET Threads /\ t \notin WritersIn
      BY DEF WaitWriteLock, WritersIn, In
    <2> QED BY <1>2, <2>1, CountOneMore DEF WaitWriteLock, CountersExact
  <1>4. NoLostWakeup'
    BY DEF WaitWriteLock, NoLostWakeup
  <1>5. DirectWriterExcludesReaders'
    BY DEF WaitWriteLock, Shape, DirectWriterExcludesReaders, In
  <1> QED BY <1>1, <1>3, <1>4, <1>5

LEMMA ReturnFromWaitKeeps ==
  ASSUME IInv, NEW t \in Threads, ReturnFromWait(t)
  PROVE  IInv'
  <1> USE DEF IInv
  <1>1. Shape' /\ HeldByWriter'
    BY ThreadsAssumption DEF ReturnFromWait, Shape, HeldByWriter, Writing, Sections
  <1>2. ReadersIn' = ReadersIn /\ WritersIn' = WritersIn
    BY DEF ReturnFromWait, Shape, ReadersIn, WritersIn, In
  <1>3. CountersExact'
    BY <1>2 DEF ReturnFromWait, CountersExact
  <1>4. NoLostWakeup'
    BY DEF ReturnFromWait, NoLostWakeup, Shape, Writing
  <1>5. DirectWriterExcludesReaders'
    BY DEF ReturnFromWait, Shape, DirectWriterExcludesReaders, In
  <1> QED BY <1>1, <1>3, <1>4, <1>5

LEMMA WakeSpuriouslyKeeps ==
  ASSUME IInv, NEW t \in Threads, WakeSpuriously(t)
  PROVE  IInv'
  <1> USE DEF IInv
  <1>1. Shape' /\ HeldByWriter'
    BY ThreadsAssumption DEF WakeSpuriously, Shape, HeldByWriter, Writing, Sections
  <1>2. ReadersIn' = ReadersIn /\ WritersIn' = WritersIn
    BY DEF WakeSpuriously, Shape, ReadersIn, WritersIn, In
  <1>3. CountersExact'
    BY <1>2 DEF WakeSpuriously, CountersExact
  <1>4. NoLostWakeup'
    BY DEF WakeSpuriously, NoLostWakeup, Shape, In
  <1>5. DirectWriterExcludesReaders'
    BY DEF WakeSpuriously, Shape, DirectWriterExcludesReaders, In
  <1> QED BY <1>1, <1>3, <1>4, <1>5

LEMMA ReleaseWriteLockKeeps ==
  ASSUME IInv, NEW t \in Threads, ReleaseWriteLock(t)
  PROVE  IInv'
  <1> USE DEF IInv
  <1> DEFINE s == [section EXCEPT ![t] = "out"]
  <1>1. s \in [Threads -> Sections]
    BY DEF Shape, Sections
  <1>2. /\ section' \in [Threads -> Sections]
        /\ \A u \in Threads :
             section'[u] = s[u] \/ (s[u] = "waiting" /\ section'[u] = "woken")
        /\ writers' > 0 /\ (\E u \in Threads : s[u] = "waiting") =>
             \E u \in Threads : section'[u] = "woken"
    <2> HIDE DEF s
    <2>1. IF writers' > 0 THEN section' \in Signal(s) ELSE section' = s
      BY DEF ReleaseWriteLock, s
    <2> QED BY <1>1, <2>1, SignalWakesOneWaiter
  <1>3. Shape' /\ HeldByWriter'
    BY <1>2, ThreadsAssumption DEF ReleaseWriteLock, Shape, HeldByWriter, Writing, Sections
  <1>4. ReadersIn' = ReadersIn /\ WritersIn' = WritersIn \ {t}
    BY <1>2 DEF ReleaseWriteLock, Shape, ReadersIn, WritersIn, In, Writing
  <1>5. CountersExact'
    <2>1. WritersIn \in SUBSET Threads /\ t \in WritersIn
      BY DEF ReleaseWriteLock, WritersIn, In, Writing
    <2> QED BY <1>4, <2>1, CountOneLess DEF ReleaseWriteLock, CountersExact
  <1>6. NoLostWakeup'
    <2> SUFFICES ASSUME In("waiting")' # {}
                 PROVE  In("woken")' # {}
      BY DEF NoLostWakeup
    <2>1. \E u \in Threads : s[u] = "waiting"
      BY <1>2 DEF In
    <2>2. writers' > 0
      <3>1. Cardinality(WritersIn') \in Nat /\ Cardinality(WritersIn') # 0
        <4>1. WritersIn' \in SUBSET Threads /\ WritersIn' # {}
          BY DEF WritersIn, In
        <4> QED BY <4>1, FS_Subset, FS_EmptySet, FS_CardinalityType, ThreadsAssumption
      <3> QED BY <1>5, <3>1 DEF CountersExact
    <2> QED BY <1>2, <2>1, <2>2 DEF In
  <1>7. DirectWriterExcludesReaders'
    BY <1>2, ThreadsAssumption DEF ReleaseWriteLock, Shape, HeldByWriter, Writing,
       DirectWriterExcludesReaders, In
  <1> QED BY <1>3, <1>5, <1>6, <1>7

LEMMA StutterKeeps ==
  ASSUME IInv, UNCHANGED vars
  PROVE  IInv'
  BY DEF IInv, vars, Shape, HeldByWriter, Writing, CountersExact, ReadersIn, WritersIn, In,
         NoLostWakeup, DirectWriterExcludesReaders

(* The conjunction of the invariants is inductive.                         *)
THEOREM Inductive == Spec => []IInv
  <1>1. IInv /\ [Next]_vars => IInv'
    <2> SUFFICES ASSUME IInv, [Next]_vars PROVE IInv'
      OBVIOUS
    <2>1. ASSUME NEW t \in Threads, AcquireReadLock(t)  PROVE IInv'
      BY <2>1, AcquireReadLockKeeps
    <2>2. ASSUME NEW t \in Threads, ReleaseReadLock(t)  PROVE IInv'
      BY <2>2, ReleaseReadLockKeeps
    <2>3. ASSUME NEW t \in Threads, AcquireWriteLock(t)  PROVE IInv'
      BY <2>3, EnterWriteLockKeeps, WaitWriteLockKeeps DEF AcquireWriteLock
    <2>4. ASSUME NEW t \in Threads, ReturnFromWait(t)  PROVE IInv'
      BY <2>4, ReturnFromWaitKeeps
    <2>5. ASSUME NEW t \in Threads, WakeSpuriously(t)  PROVE IInv'
      BY <2>5, WakeSpuriouslyKeeps
    <2>6. ASSUME NEW t \in Threads, ReleaseWriteLock(t)  PROVE IInv'
      BY <2>6, ReleaseWriteLockKeeps
    <2>7. CASE UNCHANGED vars
      BY <2>7, StutterKeeps
    <2> QED BY <2>1, <2>2, <2>3, <2>4, <2>5, <2>6, <2>7 DEF Next
  <1> QED BY InitIInv, <1>1, PTL DEF Spec

(* Every variable keeps its type; in particular the unsigned counters      *)
(* never go below zero.                                                    *)
THEOREM TypeCorrect == Spec => []TypeOK
  <1>1. IInv => TypeOK
    BY CountersAreNaturals DEF IInv, Shape, TypeOK
  <1> QED BY Inductive, <1>1, PTL

(* At most one thread is in a write section, woken writers included.       *)
THEOREM WritersExclusive == Spec => []OneWriter
  <1>1. IInv => OneWriter  BY DEF IInv, HeldByWriter, OneWriter
  <1> QED BY Inductive, <1>1, PTL

(* _readers and _writers count the threads they stand for.                 *)
THEOREM CountersAlwaysExact == Spec => []CountersExact
  <1>1. IInv => CountersExact  BY DEF IInv
  <1> QED BY Inductive, <1>1, PTL

(* No writer sleeps with nobody left to signal it.                         *)
THEOREM NoWakeupIsLost == Spec => []NoLostWakeup
  <1>1. IInv => NoLostWakeup  BY DEF IInv
  <1> QED BY Inductive, <1>1, PTL

(* A writer that did not have to wait has no reader beside it.             *)
THEOREM DirectWritersExclude == Spec => []DirectWriterExcludesReaders
  <1>1. IInv => DirectWriterExcludesReaders  BY DEF IInv
  <1> QED BY Inductive, <1>1, PTL

===============================================================================
