------------------------ MODULE EventableObjectProofs ------------------------
(***************************************************************************)
(* Proofs about EventableObject, for any number of maps, events and moves. *)
(*                                                                         *)
(* Whatever has an entry anywhere, or is about to get one, is in m_events  *)
(* or deleted: the entries of an object that is gone are all deleted.  And *)
(* while an event is in m_events, its stamp follows the object's holder,   *)
(* and it has an entry there or an adder that knows the holder: Update     *)
(* finds it, and nobody else's Update runs it.                             *)
(*                                                                         *)
(* An event's count is the number of its entries and one for m_events, and *)
(* an adder that still waits for the object's lock is the only one to know *)
(* its event: a count of 0 that is about to be 1 is nobody else's to test. *)
(*                                                                         *)
(* Locks: a thread may wait for the object's lock with a holder's in hand, *)
(* and for an insert pool with the object's, but who has a pool waits for  *)
(* nobody.                                                                 *)
(***************************************************************************)
EXTENDS EventableObject, FiniteSetTheorems, TLAPS

(* Where a thread is when it is in a callback, and what it has in hand.    *)
Control ==
  \A t \in Threads :
    /\ cur[t] # None =>
         /\ list[t][cur[t]] > 0
         /\ pc[t] \notin {"idle", "merging", "walking"}
         /\ pc[t] = "testing" => ret[t] = "removing"
    /\ pc[t] \in {"starting", "running"} => cur[t] # None
    /\ pc[t] \in {"testing", "adding", "added", "pushing"} => arg[t] \in Events
    /\ pc[t] = "testing" => ret[t] # "none"
    /\ pc[t] = "pushing" => toward[t] \in Holders
    /\ pc[t] \in {"added", "pushing"} => holder # None

(* What is listed, or about to be, is in m_events or deleted.              *)
Listed ==
  /\ \A h \in Holders, e \in Events : Entries(h, e) > 0 => e \in own \cup deleted
  /\ \A t \in Threads : pc[t] \in {"added", "pushing"} => arg[t] \in own \cup deleted

(* An event that must not run where the object is.                         *)
Barred(e) == Target = "world" /\ e \in Flagged

Stamped == \A e \in own \ deleted : stamp[e] = Target \/ Barred(e)

(* An adder that will list the event with the object's holder.             *)
Adds(t, e) ==
  /\ arg[t] = e
  /\ \/ pc[t] = "added" /\ holder = Target
     \/ pc[t] = "pushing" /\ toward[t] = Target

Found ==
  \A e \in own \ deleted :
    Entries(Target, e) > 0 \/ Barred(e) \/ \E t \in Threads : Adds(t, e)

(* A destroyed object has no events, and nobody waits to give it one.      *)
Dead == ~ alive /\ ~ undefined => own = {} /\ \A t \in Threads : pc[t] # "adding"

(* Who has a lock: a holder's thread its holder's while it is in Update,   *)
(* also in a callback, and one thread the object's while it relocates or   *)
(* removes events.                                                         *)
Visiting(h) == pc[h] \in {"merging", "walking"} \/ ret[h] \in {"merging", "walking"}
HasObject(t) == pc[t] \in {"relocating", "settling", "removing"} \/ ret[t] = "removing"

Possession ==
  /\ \A h \in Holders : lock[h] \in {None, h} /\ (lock[h] = h <=> cur[h] # None \/ Visiting(h))
  /\ \A t \in Threads : HasObject(t) <=> objLock = t
  /\ \A t \in Threads : ret[t] # "none" => pc[t] = "testing"

(* While the object is on its way from one holder to the next, the place   *)
(* it goes to does not change.                                             *)
Steady ==
  \A t \in Threads : pc[t] \in {"relocate", "relocating", "settling"} => op[t] # "none" /\ queued = None

Core == TypeOK /\ Control /\ Listed /\ Stamped /\ Found /\ Dead

IInv == Core /\ Possession /\ Steady

-------------------------------------------------------------------------------
LEMMA World == "world" \in Holders /\ None \notin Holders /\ Maps \subseteq Holders
BY MapAssumption DEF Holders

LEMMA TargetType == TypeOK => Target \in Holders \cup {None}
BY DEF Target, TypeOK

(* An event stays found while its object keeps its holder.                 *)
LEMMA FoundStays ==
  ASSUME Found, Target' = Target, own' \subseteq Events,
         \A e \in own' \ deleted' : e \in own \ deleted,
         \A e \in own' \ deleted' : Entries(Target, e) > 0 => Entries(Target, e)' > 0 \/ Barred(e),
         \A t \in Threads, e \in Events : Adds(t, e) => Adds(t, e)' \/ Entries(Target, e)' > 0
  PROVE  Found'
<1> SUFFICES ASSUME NEW e \in own' \ deleted'
             PROVE  Entries(Target, e)' > 0 \/ Barred(e)' \/ \E t \in Threads : Adds(t, e)'
  BY DEF Found
<1>1. Barred(e)' <=> Barred(e)
  BY DEF Barred
<1>2. CASE Entries(Target, e) > 0
  BY <1>1, <1>2
<1>3. CASE Barred(e)
  BY <1>1, <1>3
<1>4. CASE \E t \in Threads : Adds(t, e)
  BY <1>4
<1> QED BY <1>2, <1>3, <1>4 DEF Found

(* The numbers of entries are natural numbers.                             *)
LEMMA Numbers ==
  ASSUME TypeOK, NEW h \in Holders, NEW e \in Events
  PROVE  list[h][e] \in Nat /\ kept[h][e] \in Nat /\ pool[h][e] \in Nat
BY DEF TypeOK, Count

LEMMA NumbersAfter ==
  ASSUME TypeOK', NEW h \in Holders, NEW e \in Events
  PROVE  list'[h][e] \in Nat /\ kept'[h][e] \in Nat /\ pool'[h][e] \in Nat
BY DEF TypeOK, Count

(* An event that joins m_events has its adder; the holder of the others is *)
(* the one they had.                                                       *)
LEMMA JoinFound ==
  ASSUME TypeOK, Stamped, Found, NEW t \in Threads, NEW e \in Events, Join(t, e),
         arg' = [arg EXCEPT ![t] = e], UNCHANGED <<deleted, toward, lists>>,
         \A d \in Events : ~ Adds(t, d), \A u \in Threads : pc[u] # "settling"
  PROVE  Found'
<1> USE DEF Join, Goto, lists
<1>0. Target = holder /\ Target' = holder'
  BY DEF Target, TypeOK
<1>1. \A d \in own \ deleted : holder' = holder
  BY <1>0, World DEF Stamped, Barred, TypeOK
<1>2. Adds(t, e)'
  BY <1>0 DEF Adds, TypeOK
<1>3. \A u \in Threads \ {t}, d \in Events : holder' = holder /\ Adds(u, d) => Adds(u, d)'
  BY <1>0 DEF Adds, TypeOK
<1>4. SUFFICES ASSUME NEW d \in own \ deleted
               PROVE  Entries(Target, d)' > 0 \/ Barred(d)' \/ \E u \in Threads : Adds(u, d)'
  BY <1>2 DEF Found
<1>5. Target' = Target /\ d \in Events
  BY <1>0, <1>1 DEF TypeOK
<1>6. Entries(Target, d)' = Entries(Target, d) /\ (Barred(d)' <=> Barred(d))
  BY <1>5 DEF Entries, Barred
<1> QED BY <1>0, <1>3, <1>5, <1>6 DEF Found

LEMMA WalkLocks ==
  ASSUME TypeOK, Control, Possession, NEW h \in Holders, Walk(h)
  PROVE  Possession'
<1>1. PICK e \in Events : list[h][e] > 0 /\ (Drop(h, e) \/ Wait(h, e) \/ Pass(h, e))
  BY DEF Walk
<1>2. pc[h] = "walking" /\ h \in Threads
  BY DEF Walk, Threads
<1>3. CASE Drop(h, e)
  BY <1>2, <1>3, World DEF Drop, DecRef, Goto, MayLock, TypeOK, Control, Possession, Visiting, HasObject,
     Threads, object, event, lists, locks, control
<1>4. CASE Wait(h, e)
  BY <1>4 DEF Wait, Possession, Visiting, HasObject, locks, control
<1>5. CASE Pass(h, e)
  BY <1>2, <1>5, World, EventAssumption DEF Pass, Goto, MayLock, TypeOK, Control, Possession, Visiting, HasObject,
     Threads, object, event, lists, locks, control
<1> QED BY <1>1, <1>3, <1>4, <1>5

(* Update takes its holder's lock at its beginning and gives it back at    *)
(* its end.                                                                *)
LEMMA UpdateLocks ==
  ASSUME TypeOK, Control, Possession, NEW h \in Holders, Update(h)
  PROVE  Possession'
<1>1. CASE BeginUpdate(h)
  BY <1>1, World DEF BeginUpdate, Goto, MayLock, TypeOK, Control, Possession, Visiting, HasObject,
     Threads, object, event, lists, locks, control
<1>2. CASE Merge(h)
  BY <1>2, World DEF Merge, DecRef, Goto, MayLock, TypeOK, Control, Possession, Visiting, HasObject,
     Threads, object, event, lists, locks, control
<1>3. CASE Merged(h)
  BY <1>3, World DEF Merged, Goto, MayLock, TypeOK, Control, Possession, Visiting, HasObject,
     Threads, object, event, lists, locks, control
<1>4. CASE Expire(h)
  BY <1>4, World DEF Expire, DecRef, Goto, MayLock, TypeOK, Control, Possession, Visiting, HasObject,
     Threads, object, event, lists, locks, control
<1>5. CASE EndUpdate(h)
  BY <1>5, World DEF EndUpdate, Goto, MayLock, TypeOK, Control, Possession, Visiting, HasObject,
     Threads, object, event, lists, locks, control
<1>6. CASE Execute(h)
  BY <1>6, World DEF Execute, Goto, MayLock, TypeOK, Control, Possession, Visiting, HasObject,
     Threads, object, event, lists, locks, control
<1> QED BY <1>1, <1>2, <1>3, <1>4, <1>5, <1>6, WalkLocks DEF Update

LEMMA AddingLocks ==
  ASSUME TypeOK, Control, Possession, NEW t \in Threads, Adding(t)
  PROVE  Possession'
<1>1. CASE Acquired(t)
  BY <1>1, World DEF Acquired, Join, Goto, MayLock, TypeOK, Control, Possession, Visiting, HasObject,
     Threads, object, event, lists, locks, control
<1>2. CASE ReadHolder(t)
  BY <1>2, World DEF ReadHolder, Goto, MayLock, TypeOK, Control, Possession, Visiting, HasObject,
     Threads, object, event, lists, locks, control
<1>3. CASE PushEvent(t)
  BY <1>3, World DEF PushEvent, Back, Goto, MayLock, TypeOK, Control, Possession, Visiting, HasObject,
     Threads, object, event, lists, locks, control
<1> QED BY <1>1, <1>2, <1>3 DEF Adding

(* The object's lock is taken before the events move and given back with   *)
(* them, on each of the two ways out of event_Relocate.                    *)
LEMMA MovingLocks ==
  ASSUME TypeOK, Control, Possession, NEW t \in Threads, Moving(t)
  PROVE  Possession'
<1>1. CASE Relocate(t)
  BY <1>1, World DEF Relocate, Lock, Goto, MayLock, TypeOK, Control, Possession, Visiting, HasObject,
     Threads, object, event, lists, locks, control
<1>2. CASE SameHolder(t)
  BY <1>2, World DEF SameHolder, Relocated, Back, Goto, MayLock, TypeOK, Control, Possession, Visiting, HasObject,
     Threads, object, event, lists, locks, control
<1>3. CASE MoveToList(t)
  BY <1>3, World DEF MoveToList, Goto, MayLock, TypeOK, Control, Possession, Visiting, HasObject,
     Threads, object, event, lists, locks, control
<1>4. CASE MoveToPool(t)
  BY <1>4, World DEF MoveToPool, Goto, MayLock, TypeOK, Control, Possession, Visiting, HasObject,
     Threads, object, event, lists, locks, control
<1>5. CASE Settle(t)
  BY <1>5, World DEF Settle, Relocated, Back, Goto, MayLock, TypeOK, Control, Possession, Visiting, HasObject,
     Threads, object, event, lists, locks, control
<1> QED BY <1>1, <1>2, <1>3, <1>4, <1>5 DEF Moving

LEMMA RemovingLocks ==
  ASSUME TypeOK, Control, Possession, NEW t \in Threads, Removing(t)
  PROVE  Possession'
<1>1. CASE Remove(t)
  BY <1>1, World DEF Remove, Lock, Goto, MayLock, TypeOK, Control, Possession, Visiting, HasObject,
     Threads, object, event, lists, locks, control
<1>2. CASE RemoveOne(t)
  BY <1>2, World DEF RemoveOne, DecRef, Goto, MayLock, TypeOK, Control, Possession, Visiting, HasObject,
     Threads, object, event, lists, locks, control
<1>3. CASE Removed(t)
  BY <1>3, World DEF Removed, Back, Goto, MayLock, TypeOK, Control, Possession, Visiting, HasObject,
     Threads, object, event, lists, locks, control
<1> QED BY <1>1, <1>2, <1>3 DEF Removing

LEMMA OwnerLocks ==
  ASSUME TypeOK, Control, Possession, NEW t \in Threads,
         RemoveEvents(t) \/ RemoveFromWorld(t) \/ Destroy(t) \/ PushToWorld(t) \/ Test(t)
  PROVE  Possession'
<1>1. CASE RemoveEvents(t)
  BY <1>1, World DEF RemoveEvents, Owns, Free, Call, Lock, Goto, MayLock, TypeOK, Control, Possession, Visiting, HasObject,
     Threads, object, event, lists, locks, control
<1>2. CASE RemoveFromWorld(t)
  BY <1>2, World DEF RemoveFromWorld, Owns, Free, Call, Goto, MayLock, TypeOK, Control, Possession, Visiting, HasObject,
     Threads, object, event, lists, locks, control
<1>3. CASE Destroy(t)
  BY <1>3, World DEF Destroy, Owns, Free, Call, Goto, MayLock, TypeOK, Control, Possession, Visiting, HasObject,
     Threads, object, event, lists, locks, control
<1>4. CASE PushToWorld(t)
  BY <1>4, World DEF PushToWorld, Call, Goto, MayLock, TypeOK, Control, Possession, Visiting, HasObject,
     Threads, object, event, lists, locks, control
<1>5. CASE Test(t)
  BY <1>5, World DEF Test, Goto, MayLock, TypeOK, Control, Possession, Visiting, HasObject,
     Threads, object, event, lists, locks, control
<1> QED BY <1>1, <1>2, <1>3, <1>4, <1>5

LEMMA AskedLocks ==
  ASSUME TypeOK, Control, Possession
  PROVE  /\ \A t \in Threads, e \in Events : AddEvent(t, e) => Possession'
         /\ \A m \in Maps : AddToWorld(m) => Possession'
<1>1. ASSUME NEW t \in Threads, NEW e \in Events, AddEvent(t, e)
      PROVE  Possession'
  BY <1>1, World DEF AddEvent, Free, Join, Goto, MayLock, TypeOK, Control, Possession, Visiting, HasObject,
     Threads, object, event, lists, locks, control
<1>2. ASSUME NEW m \in Maps, AddToWorld(m)
      PROVE  Possession'
  BY <1>2, World DEF AddToWorld, Owns, Free, Back, Goto, MayLock, TypeOK, Control, Possession, Visiting, HasObject,
     Threads, object, event, lists, locks, control
<1> QED BY <1>1, <1>2

LEMMA StepPossession == TypeOK /\ Control /\ Possession /\ [Next]_vars => Possession'
<1> SUFFICES ASSUME TypeOK, Control, Possession, [Next]_vars
             PROVE  Possession'
  OBVIOUS
<1>1. CASE UNCHANGED vars
  BY <1>1 DEF vars, locks, control, Possession, Visiting, HasObject
<1>2. ASSUME NEW t \in Threads, Continue(t) \/ RemoveEvents(t) \/ RemoveFromWorld(t) \/ Destroy(t)
      PROVE  Possession'
  BY <1>2, UpdateLocks, AddingLocks, MovingLocks, RemovingLocks, OwnerLocks DEF Continue, Threads
<1>3. (\E t \in Threads, e \in Events : AddEvent(t, e)) \/ (\E m \in Maps : AddToWorld(m)) => Possession'
  BY AskedLocks
<1> QED BY <1>1, <1>2, <1>3 DEF Next, Crashed

-------------------------------------------------------------------------------
(* Nobody settles the object while another thread has its lock.            *)
LEMMA JoinFree ==
  ASSUME Possession, NEW t \in Threads, NEW e \in Events, Join(t, e), pc[t] # "settling"
  PROVE  (\A u \in Threads : pc[u] # "settling") /\ Target = holder
BY World DEF Possession, HasObject, Join, MayLock, Target, Threads

LEMMA TestKeeps ==
  ASSUME IInv, ~ undefined, NEW t \in Threads, Test(t)
  PROVE  Core'
<1> USE World, TimeAssumption, EventAssumption DEF Threads, IInv, Core, Test, Goto, vars, object, event, lists, locks, control
<1>0. Target' = Target
  BY DEF Target, TypeOK, Steady, Control
<1>1. TypeOK'
  BY DEF TypeOK, Count, NoEntries, Control
<1>2. Control'
  BY <1>1 DEF TypeOK, Count, Control
<1>3. Listed'
  BY <1>1 DEF TypeOK, Count, Listed, Control, Entries, NoEntries
<1>4. Stamped'
  BY <1>0, <1>1 DEF TypeOK, Stamped, Barred, Listed, Control
<1>5. Found'
  <2>1. \A e \in own' \ deleted' : e \in own \ deleted
    BY DEF TypeOK
  <2>2. \A e \in own' \ deleted' : Entries(Target, e) > 0 => Entries(Target, e)' > 0 \/ Barred(e)
    BY <1>0, <1>1, TargetType DEF TypeOK, Count, Entries
  <2>3. \A u \in Threads, e \in Events : Adds(u, e) => Adds(u, e)' \/ Entries(Target, e)' > 0
    BY <1>0, <1>1 DEF TypeOK, Adds
  <2> QED BY <1>0, <1>1, <2>1, <2>2, <2>3, FoundStays DEF TypeOK
<1>6. Dead'
  BY <1>1 DEF TypeOK, Dead, Control
<1> QED BY <1>1, <1>2, <1>3, <1>4, <1>5, <1>6

LEMMA BeginUpdateKeeps ==
  ASSUME IInv, ~ undefined, NEW h \in Holders, BeginUpdate(h)
  PROVE  Core'
<1> USE World, TimeAssumption, EventAssumption DEF Threads, IInv, Core, BeginUpdate, Goto, vars, object, event, lists, locks, control
<1>0. Target' = Target
  BY DEF Target, TypeOK, Steady, Control
<1>1. TypeOK'
  BY DEF TypeOK, Count, NoEntries, Control
<1>2. Control'
  BY <1>1 DEF TypeOK, Count, Control
<1>3. Listed'
  BY <1>1 DEF TypeOK, Count, Listed, Control, Entries, NoEntries
<1>4. Stamped'
  BY <1>0, <1>1 DEF TypeOK, Stamped, Barred, Listed, Control
<1>5. Found'
  <2>1. \A e \in own' \ deleted' : e \in own \ deleted
    BY DEF TypeOK
  <2>2. \A e \in own' \ deleted' : Entries(Target, e) > 0 => Entries(Target, e)' > 0 \/ Barred(e)
    BY <1>0, <1>1, TargetType DEF TypeOK, Count, Entries
  <2>3. \A u \in Threads, e \in Events : Adds(u, e) => Adds(u, e)' \/ Entries(Target, e)' > 0
    BY <1>0, <1>1 DEF TypeOK, Adds
  <2> QED BY <1>0, <1>1, <2>1, <2>2, <2>3, FoundStays DEF TypeOK
<1>6. Dead'
  BY <1>1 DEF TypeOK, Dead, Control
<1> QED BY <1>1, <1>2, <1>3, <1>4, <1>5, <1>6

LEMMA MergeKeeps ==
  ASSUME IInv, ~ undefined, NEW h \in Holders, Merge(h)
  PROVE  Core'
<1> USE World, TimeAssumption, EventAssumption DEF Threads, IInv, Core, Goto, vars, object, event, lists, locks, control
<1>0. Target' = Target
  BY DEF Target, TypeOK, Merge, DecRef
<1>1. PICK e \in Events :
        /\ pool[h][e] > 0
        /\ pool' = [pool EXCEPT ![h][e] = @ - 1]
        /\ IF e \in deleted \/ stamp[e] # h
             THEN DecRef(h, e, "merging") /\ UNCHANGED list
             ELSE list' = [list EXCEPT ![h][e] = @ + 1] /\ UNCHANGED <<ref, pc, arg, ret>>
  BY DEF Merge
<1>2. /\ pc[h] = "merging"
      /\ UNCHANGED <<object, born, freed, stamp, deleted, left, repeats, kept, locks, cur, toward, op, undefined>>
  BY DEF Merge
<1>3. /\ pool' \in [Holders -> Count]
      /\ \A g \in Holders, d \in Events :
           pool'[g][d] = IF g = h /\ d = e THEN pool[g][d] - 1 ELSE pool[g][d]
  <2>1. pool \in [Holders -> Count]
    BY DEF TypeOK
  <2> QED BY <1>1, <2>1 DEF Count
<1>4. cur[h] = None
  BY <1>2 DEF Control
<1>5. CASE e \in deleted \/ stamp[e] # h
  <2>1. DecRef(h, e, "merging") /\ UNCHANGED list
    BY <1>1, <1>5
  <2>2. TypeOK'
    BY <1>2, <1>3, <2>1 DEF TypeOK, DecRef
  <2>3. Control'
    BY <1>2, <1>4, <2>1 DEF TypeOK, Control, DecRef
  <2>4. \A g \in Holders, d \in Events : Entries(g, d)' > 0 => Entries(g, d) > 0
    BY <1>2, <1>3, <2>1, <2>2, Numbers DEF Entries
  <2>5. Listed'
    BY <1>2, <2>1, <2>4 DEF TypeOK, Listed, DecRef
  <2>6. Stamped' /\ Dead'
    BY <1>0, <1>2, <2>1 DEF TypeOK, Stamped, Barred, Dead, DecRef
  <2>7. \A d \in own \ deleted : Entries(Target, d) > 0 => Entries(Target, d)' > 0 \/ Barred(d)
    <3> SUFFICES ASSUME NEW d \in own \ deleted, ~ Barred(d)
                 PROVE  Entries(Target, d)' = Entries(Target, d)
      OBVIOUS
    <3>1. stamp[d] = Target /\ Target \in Holders
      BY DEF Stamped, TypeOK
    <3>2. ~ (Target = h /\ d = e)
      BY <1>5, <3>1
    <3> QED BY <1>0, <1>2, <1>3, <2>1, <3>1, <3>2 DEF Entries, TypeOK
  <2>8. \A t \in Threads, d \in Events : Adds(t, d) => Adds(t, d)'
    BY <1>0, <1>2, <2>1 DEF TypeOK, Adds, DecRef
  <2>9. Found'
    BY <1>2, <2>2, <2>7, <2>8, <1>0, FoundStays DEF TypeOK
  <2> QED BY <2>2, <2>3, <2>5, <2>6, <2>9
<1>6. CASE ~ (e \in deleted \/ stamp[e] # h)
  <2>1. list' = [list EXCEPT ![h][e] = @ + 1] /\ UNCHANGED <<ref, pc, arg, ret>>
    BY <1>1, <1>6
  <2>2. /\ list' \in [Holders -> Count]
        /\ \A g \in Holders, d \in Events :
             list'[g][d] = IF g = h /\ d = e THEN list[g][d] + 1 ELSE list[g][d]
    <3>1. list \in [Holders -> Count]
      BY DEF TypeOK
    <3> QED BY <2>1, <3>1 DEF Count
  <2>3. TypeOK'
    BY <1>2, <1>3, <2>1, <2>2 DEF TypeOK
  <2>4. \A g \in Holders, d \in Events : Entries(g, d)' = Entries(g, d)
    <3> SUFFICES ASSUME NEW g \in Holders, NEW d \in Events
                 PROVE  Entries(g, d)' = Entries(g, d)
      OBVIOUS
    <3>1. list[g][d] \in Nat /\ kept[g][d] \in Nat /\ pool[g][d] \in Nat /\ kept' = kept
      BY <1>2, Numbers
    <3>2. CASE g = h /\ d = e
      <4>1. pool'[g][d] = pool[g][d] - 1 /\ list'[g][d] = list[g][d] + 1
        BY <1>1, <1>3, <2>2, <3>2
      <4> QED BY <3>1, <4>1 DEF Entries
    <3>3. CASE ~ (g = h /\ d = e)
      <4>1. pool'[g][d] = pool[g][d] /\ list'[g][d] = list[g][d]
        BY <1>3, <2>2, <3>3
      <4> QED BY <3>1, <4>1 DEF Entries
    <3> QED BY <3>2, <3>3
  <2>5. \A g \in Holders, d \in Events : list[g][d] > 0 => list'[g][d] > 0
    BY <2>2, Numbers
  <2>6. Control'
    BY <1>2, <2>1, <2>5 DEF TypeOK, Control
  <2>7. Listed' /\ Stamped' /\ Dead'
    BY <1>0, <1>2, <2>1, <2>4 DEF TypeOK, Listed, Stamped, Barred, Dead
  <2>8. \A t \in Threads, d \in Events : Adds(t, d) => Adds(t, d)'
    BY <1>0, <1>2, <2>1 DEF Adds
  <2>9. \A d \in own \ deleted : Entries(Target, d) > 0 => Entries(Target, d)' > 0 \/ Barred(d)
    <3> SUFFICES ASSUME NEW d \in own \ deleted, ~ Barred(d)
                 PROVE  Entries(Target, d)' = Entries(Target, d)
      OBVIOUS
    <3>1. Target \in Holders /\ d \in Events
      BY TargetType DEF Stamped, TypeOK
    <3> QED BY <1>0, <1>2, <2>4, <3>1 DEF Entries
  <2>10. Found'
    BY <1>2, <2>3, <2>8, <2>9, <1>0, FoundStays DEF TypeOK
  <2> QED BY <2>3, <2>6, <2>7, <2>10
<1> QED BY <1>5, <1>6

LEMMA MergedKeeps ==
  ASSUME IInv, ~ undefined, NEW h \in Holders, Merged(h)
  PROVE  Core'
<1> USE World, TimeAssumption, EventAssumption DEF Threads, IInv, Core, Merged, Goto, vars, object, event, lists, locks, control
<1>0. Target' = Target
  BY DEF Target, TypeOK, Steady, Control
<1>1. TypeOK'
  BY DEF TypeOK, Count, NoEntries, Control
<1>2. Control'
  BY <1>1 DEF TypeOK, Count, Control
<1>3. Listed'
  BY <1>1 DEF TypeOK, Count, Listed, Control, Entries, NoEntries
<1>4. Stamped'
  BY <1>0, <1>1 DEF TypeOK, Stamped, Barred, Listed, Control
<1>5. Found'
  <2>1. \A e \in own' \ deleted' : e \in own \ deleted
    BY DEF TypeOK
  <2>2. \A e \in own' \ deleted' : Entries(Target, e) > 0 => Entries(Target, e)' > 0 \/ Barred(e)
    BY <1>0, <1>1, TargetType DEF TypeOK, Count, Entries
  <2>3. \A u \in Threads, e \in Events : Adds(u, e) => Adds(u, e)' \/ Entries(Target, e)' > 0
    BY <1>0, <1>1 DEF TypeOK, Adds
  <2> QED BY <1>0, <1>1, <2>1, <2>2, <2>3, FoundStays DEF TypeOK
<1>6. Dead'
  BY <1>1 DEF TypeOK, Dead, Control
<1> QED BY <1>1, <1>2, <1>3, <1>4, <1>5, <1>6

LEMMA DropKeeps ==
  ASSUME IInv, ~ undefined, NEW h \in Holders, NEW d \in Events, pc[h] = "walking", list[h][d] > 0, Drop(h, d)
  PROVE  Core'
<1> USE World, TimeAssumption, EventAssumption DEF Threads, IInv, Core, Drop, Misplaced, DecRef, Goto, vars, object, event, lists, locks, control
<1>0. Target' = Target
  BY DEF Target, TypeOK, Steady, Control
<1>1. TypeOK'
  BY DEF TypeOK, Count, NoEntries, Control
<1>2. Control'
  BY <1>1 DEF TypeOK, Count, Control
<1>3. Listed'
  BY <1>1 DEF TypeOK, Count, Listed, Control, Entries, NoEntries
<1>4. Stamped'
  BY <1>0, <1>1 DEF TypeOK, Stamped, Barred, Listed, Control
<1>5. Found'
  <2>1. \A e \in own' \ deleted' : e \in own \ deleted
    BY DEF TypeOK
  <2>2. \A e \in own' \ deleted' : Entries(Target, e) > 0 => Entries(Target, e)' > 0 \/ Barred(e)
    BY <1>0, <1>1, TargetType DEF TypeOK, Count, Entries, Stamped, Barred, Misplaced
  <2>3. \A u \in Threads, e \in Events : Adds(u, e) => Adds(u, e)' \/ Entries(Target, e)' > 0
    BY <1>0, <1>1 DEF TypeOK, Adds
  <2> QED BY <1>0, <1>1, <2>1, <2>2, <2>3, FoundStays DEF TypeOK
<1>6. Dead'
  BY <1>1 DEF TypeOK, Dead, Control
<1> QED BY <1>1, <1>2, <1>3, <1>4, <1>5, <1>6

LEMMA WaitKeeps ==
  ASSUME IInv, ~ undefined, NEW h \in Holders, NEW d \in Events, pc[h] = "walking", list[h][d] > 0, Wait(h, d)
  PROVE  Core'
<1> USE World, TimeAssumption, EventAssumption DEF Threads, IInv, Core, Wait, Misplaced, Goto, vars, object, event, lists, locks, control
<1>0. Target' = Target
  BY DEF Target, TypeOK, Steady, Control
<1>1. TypeOK'
  BY DEF TypeOK, Count, NoEntries, Control
<1>2. Control'
  BY <1>1 DEF TypeOK, Count, Control
<1>3. Listed'
  BY <1>1 DEF TypeOK, Count, Listed, Control, Entries, NoEntries
<1>4. Stamped'
  BY <1>0, <1>1 DEF TypeOK, Stamped, Barred, Listed, Control
<1>5. Found'
  <2>1. \A e \in own' \ deleted' : e \in own \ deleted
    BY DEF TypeOK
  <2>2. \A e \in own' \ deleted' : Entries(Target, e) > 0 => Entries(Target, e)' > 0 \/ Barred(e)
    BY <1>0, <1>1, TargetType DEF TypeOK, Count, Entries
  <2>3. \A u \in Threads, e \in Events : Adds(u, e) => Adds(u, e)' \/ Entries(Target, e)' > 0
    BY <1>0, <1>1 DEF TypeOK, Adds
  <2> QED BY <1>0, <1>1, <2>1, <2>2, <2>3, FoundStays DEF TypeOK
<1>6. Dead'
  BY <1>1 DEF TypeOK, Dead, Control
<1> QED BY <1>1, <1>2, <1>3, <1>4, <1>5, <1>6

LEMMA PassKeeps ==
  ASSUME IInv, ~ undefined, NEW h \in Holders, NEW d \in Events, pc[h] = "walking", list[h][d] > 0, Pass(h, d)
  PROVE  Core'
<1> USE World, TimeAssumption, EventAssumption DEF Threads, IInv, Core, Pass, Misplaced, Goto, vars, object, event, lists, locks, control
<1>0. Target' = Target
  BY DEF Target, TypeOK, Steady, Control
<1>1. TypeOK'
  BY DEF TypeOK, Count, NoEntries, Control
<1>2. Control'
  BY <1>1 DEF TypeOK, Count, Control
<1>3. Listed'
  BY <1>1 DEF TypeOK, Count, Listed, Control, Entries, NoEntries
<1>4. Stamped'
  BY <1>0, <1>1 DEF TypeOK, Stamped, Barred, Listed, Control
<1>5. Found'
  <2>1. \A e \in own' \ deleted' : e \in own \ deleted
    BY DEF TypeOK
  <2>2. \A e \in own' \ deleted' : Entries(Target, e) > 0 => Entries(Target, e)' > 0 \/ Barred(e)
    BY <1>0, <1>1, TargetType DEF TypeOK, Count, Entries
  <2>3. \A u \in Threads, e \in Events : Adds(u, e) => Adds(u, e)' \/ Entries(Target, e)' > 0
    BY <1>0, <1>1 DEF TypeOK, Adds
  <2> QED BY <1>0, <1>1, <2>1, <2>2, <2>3, FoundStays DEF TypeOK
<1>6. Dead'
  BY <1>1 DEF TypeOK, Dead, Control
<1> QED BY <1>1, <1>2, <1>3, <1>4, <1>5, <1>6

LEMMA ExecuteKeeps ==
  ASSUME IInv, ~ undefined, NEW h \in Holders, Execute(h)
  PROVE  Core'
<1> USE World, TimeAssumption, EventAssumption DEF Threads, IInv, Core, Execute, Goto, vars, object, event, lists, locks, control
<1>0. Target' = Target
  BY DEF Target, TypeOK, Steady, Control
<1>1. TypeOK'
  BY DEF TypeOK, Count, NoEntries, Control
<1>2. Control'
  BY <1>1 DEF TypeOK, Count, Control
<1>3. Listed'
  BY <1>1 DEF TypeOK, Count, Listed, Control, Entries, NoEntries
<1>4. Stamped'
  BY <1>0, <1>1 DEF TypeOK, Stamped, Barred, Listed, Control
<1>5. Found'
  <2>1. \A e \in own' \ deleted' : e \in own \ deleted
    BY DEF TypeOK
  <2>2. \A e \in own' \ deleted' : Entries(Target, e) > 0 => Entries(Target, e)' > 0 \/ Barred(e)
    BY <1>0, <1>1, TargetType DEF TypeOK, Count, Entries
  <2>3. \A u \in Threads, e \in Events : Adds(u, e) => Adds(u, e)' \/ Entries(Target, e)' > 0
    BY <1>0, <1>1 DEF TypeOK, Adds
  <2> QED BY <1>0, <1>1, <2>1, <2>2, <2>3, FoundStays DEF TypeOK
<1>6. Dead'
  BY <1>1 DEF TypeOK, Dead, Control
<1> QED BY <1>1, <1>2, <1>3, <1>4, <1>5, <1>6

LEMMA ExpireKeeps ==
  ASSUME IInv, ~ undefined, NEW h \in Holders, Expire(h)
  PROVE  Core'
<1> USE World, TimeAssumption, EventAssumption DEF Threads, IInv, Core, Goto, vars, object, event, lists, locks, control
<1>0. Target' = Target
  BY DEF Target, TypeOK, Expire, DecRef
<1> DEFINE e == cur[h]
<1>1. e \in Events /\ list[h][e] > 0
  BY DEF Expire, Control, TypeOK
<1>2. /\ pc[h] = "running" /\ cur' = [cur EXCEPT ![h] = None]
      /\ repeats' = [repeats EXCEPT ![e] = 0]
      /\ list' = [list EXCEPT ![h][e] = @ - 1]
      /\ UNCHANGED <<object, born, freed, stamp, pool, locks, toward, op, undefined>>
  BY DEF Expire
<1>3. /\ list' \in [Holders -> Count]
      /\ \A g \in Holders, d \in Events :
           list'[g][d] = IF g = h /\ d = e THEN list[g][d] - 1 ELSE list[g][d]
  <2>1. list \in [Holders -> Count]
    BY DEF TypeOK
  <2> QED BY <1>1, <1>2, <2>1 DEF Count
<1>4. \A t \in Threads \ {h} : cur'[t] = cur[t] /\ list'[t] = list[t]
  BY <1>2 DEF TypeOK
<1>5. CASE repeats[e] = 1 \/ e \in deleted
  <2>1. deleted' = deleted \cup {e} /\ DecRef(h, e, "walking") /\ UNCHANGED <<left, kept>>
    BY <1>5 DEF Expire
  <2>2. TypeOK'
    BY <1>1, <1>2, <1>3, <2>1 DEF TypeOK, DecRef
  <2>3. Control'
    BY <1>1, <1>2, <1>4, <2>1 DEF TypeOK, Control, DecRef
  <2>4. \A g \in Holders, d \in Events : Entries(g, d)' > 0 => Entries(g, d) > 0
    BY <1>2, <1>3, <2>1, <2>2, Numbers DEF Entries
  <2>5. Listed'
    BY <1>2, <2>1, <2>4 DEF TypeOK, Listed, DecRef
  <2>6. Stamped' /\ Dead'
    BY <1>0, <1>2, <2>1 DEF TypeOK, Stamped, Barred, Dead, DecRef
  <2>7. \A d \in own' \ deleted' : d \in own \ deleted /\ d # e
    BY <1>2, <2>1
  <2>8. \A d \in own' \ deleted' : Entries(Target, d) > 0 => Entries(Target, d)' > 0 \/ Barred(d)
    <3> SUFFICES ASSUME NEW d \in own' \ deleted', ~ Barred(d)
                 PROVE  Entries(Target, d)' = Entries(Target, d)
      OBVIOUS
    <3>1. Target \in Holders /\ d \in Events
      BY <2>7, TargetType DEF Stamped, TypeOK
    <3> QED BY <1>0, <1>2, <1>3, <2>1, <2>7, <3>1 DEF Entries
  <2>9. \A t \in Threads, d \in Events : Adds(t, d) => Adds(t, d)'
    BY <1>0, <1>2, <2>1 DEF TypeOK, Adds, DecRef
  <2>10. Found'
    BY <1>2, <2>2, <2>7, <2>8, <2>9, <1>0, FoundStays DEF TypeOK
  <2> QED BY <2>2, <2>3, <2>5, <2>6, <2>10
<1>6. CASE ~ (repeats[e] = 1 \/ e \in deleted)
  <2>1. /\ left' = [left EXCEPT ![e] = MsTime[e]]
        /\ kept' = [kept EXCEPT ![h][e] = @ + 1]
        /\ pc' = [pc EXCEPT ![h] = "walking"] /\ UNCHANGED <<ref, deleted, arg, ret>>
    BY <1>6 DEF Expire
  <2>2. /\ kept' \in [Holders -> Count]
        /\ \A g \in Holders, d \in Events :
             kept'[g][d] = IF g = h /\ d = e THEN kept[g][d] + 1 ELSE kept[g][d]
    <3>1. kept \in [Holders -> Count]
      BY DEF TypeOK
    <3> QED BY <1>1, <2>1, <3>1 DEF Count
  <2>3. left' \in [Events -> Nat]
    BY <1>1, <2>1 DEF TypeOK
  <2>4. TypeOK'
    BY <1>1, <1>2, <1>3, <2>1, <2>2, <2>3 DEF TypeOK
  <2>5. \A g \in Holders, d \in Events : Entries(g, d)' = Entries(g, d)
    <3> SUFFICES ASSUME NEW g \in Holders, NEW d \in Events
                 PROVE  Entries(g, d)' = Entries(g, d)
      OBVIOUS
    <3>1. list[g][d] \in Nat /\ kept[g][d] \in Nat /\ pool[g][d] \in Nat /\ pool' = pool
      BY <1>2, Numbers
    <3>2. CASE g = h /\ d = e
      <4>1. list'[g][d] = list[g][d] - 1 /\ kept'[g][d] = kept[g][d] + 1
        BY <1>1, <1>3, <2>2, <3>2
      <4> QED BY <3>1, <4>1 DEF Entries
    <3>3. CASE ~ (g = h /\ d = e)
      <4>1. list'[g][d] = list[g][d] /\ kept'[g][d] = kept[g][d]
        BY <1>3, <2>2, <3>3
      <4> QED BY <3>1, <4>1 DEF Entries
    <3> QED BY <3>2, <3>3
  <2>6. Control'
    BY <1>1, <1>2, <1>4, <2>1 DEF TypeOK, Control
  <2>7. Listed' /\ Stamped' /\ Dead'
    BY <1>0, <1>2, <2>1, <2>5 DEF TypeOK, Listed, Stamped, Barred, Dead
  <2>8. \A t \in Threads, d \in Events : Adds(t, d) => Adds(t, d)'
    BY <1>0, <1>2, <2>1 DEF TypeOK, Adds
  <2>9. \A d \in own \ deleted : Entries(Target, d) > 0 => Entries(Target, d)' > 0 \/ Barred(d)
    <3> SUFFICES ASSUME NEW d \in own \ deleted, ~ Barred(d)
                 PROVE  Entries(Target, d)' = Entries(Target, d)
      OBVIOUS
    <3>1. Target \in Holders /\ d \in Events
      BY TargetType DEF Stamped, TypeOK
    <3> QED BY <1>0, <1>2, <2>5, <3>1 DEF Entries
  <2>10. Found'
    BY <1>2, <2>1, <2>4, <2>8, <2>9, <1>0, FoundStays DEF TypeOK
  <2> QED BY <2>4, <2>6, <2>7, <2>10
<1> QED BY <1>5, <1>6

LEMMA EndUpdateKeeps ==
  ASSUME IInv, ~ undefined, NEW h \in Holders, EndUpdate(h)
  PROVE  Core'
<1> USE World, TimeAssumption, EventAssumption DEF Threads, IInv, Core, EndUpdate, Goto, vars, object, event, lists, locks, control
<1>0. Target' = Target
  BY DEF Target, TypeOK, Steady, Control
<1>1. TypeOK'
  BY DEF TypeOK, Count, NoEntries, Control
<1>2. Control'
  BY <1>1 DEF TypeOK, Count, Control
<1>3. Listed'
  BY <1>1 DEF TypeOK, Count, Listed, Control, Entries, NoEntries
<1>4. Stamped'
  BY <1>0, <1>1 DEF TypeOK, Stamped, Barred, Listed, Control
<1>5. Found'
  <2>1. \A e \in own' \ deleted' : e \in own \ deleted
    BY DEF TypeOK
  <2>2. \A e \in own' \ deleted' : Entries(Target, e) > 0 => Entries(Target, e)' > 0 \/ Barred(e)
    BY <1>0, <1>1, TargetType DEF TypeOK, Count, Entries, NoEntries
  <2>3. \A u \in Threads, e \in Events : Adds(u, e) => Adds(u, e)' \/ Entries(Target, e)' > 0
    BY <1>0, <1>1 DEF TypeOK, Adds
  <2> QED BY <1>0, <1>1, <2>1, <2>2, <2>3, FoundStays DEF TypeOK
<1>6. Dead'
  BY <1>1 DEF TypeOK, Dead, Control
<1> QED BY <1>1, <1>2, <1>3, <1>4, <1>5, <1>6

LEMMA AddEventKeeps ==
  ASSUME IInv, ~ undefined, NEW t \in Threads, NEW e \in Events, AddEvent(t, e)
  PROVE  Core'
<1> USE World, TimeAssumption, EventAssumption DEF Threads, IInv, Core, AddEvent, Join, Home, Free, Goto, vars, object, event, lists, locks, control
<1>0. \/ /\ Join(t, e) /\ Target = holder /\ Target' = holder'
         /\ \A u \in Threads : pc[u] # "settling"
      \/ UNCHANGED <<holder, stamp, own, ref>> /\ pc' = [pc EXCEPT ![t] = "adding"] /\ Target' = Target
  <2>1. CASE Join(t, e)
    BY <2>1, JoinFree DEF Target, TypeOK
  <2>2. CASE ~ Join(t, e)
    BY <2>2 DEF Target, TypeOK
  <2> QED BY <2>1, <2>2
<1>1. TypeOK'
  <2>1. CASE Join(t, e)
    BY <2>1 DEF TypeOK, Join, Home
  <2>2. CASE UNCHANGED <<holder, stamp, own, ref>> /\ Goto(t, "adding")
    BY <2>2 DEF TypeOK
  <2> QED BY <2>1, <2>2
<1>2. Control'
  BY <1>1 DEF TypeOK, Count, Control
<1>3. Listed'
  BY <1>1 DEF TypeOK, Count, Listed, Control, Entries, NoEntries
<1>4. Stamped'
  BY <1>0, <1>1 DEF TypeOK, Stamped, Barred, Listed, Control
<1>5. Found'
  <2>1. CASE Join(t, e)
    <3>1. \A d \in Events : ~ Adds(t, d)
      BY DEF Adds, TypeOK, Free
    <3>2. arg' = [arg EXCEPT ![t] = e] /\ UNCHANGED <<deleted, toward, lists>>
      OBVIOUS
    <3>3. \A u \in Threads : pc[u] # "settling"
      BY <2>1, JoinFree
    <3> QED BY <2>1, <3>1, <3>2, <3>3, JoinFound DEF TypeOK
  <2>2. CASE UNCHANGED <<holder, stamp, own, ref>> /\ Goto(t, "adding")
    <3>0. Target' = Target
      BY <2>2 DEF Target, TypeOK
    <3>1. \A u \in Threads, d \in Events : Adds(u, d) => Adds(u, d)'
      BY <2>2, <3>0 DEF Adds, TypeOK, Free
    <3> QED BY <1>1, <2>2, <3>0, <3>1 DEF Found, Barred, Entries, TypeOK
  <2> QED BY <2>1, <2>2
<1>6. Dead'
  BY <1>1 DEF TypeOK, Dead, Control
<1> QED BY <1>1, <1>2, <1>3, <1>4, <1>5, <1>6

LEMMA AcquiredKeeps ==
  ASSUME IInv, ~ undefined, NEW t \in Threads, Acquired(t)
  PROVE  Core'
<1> USE World, TimeAssumption, EventAssumption DEF Threads, IInv, Core, Acquired, Join, Home, Goto, vars, object, event, lists, locks, control
<1>0. arg[t] \in Events /\ (\A u \in Threads : pc[u] # "settling") /\ Target = holder
  BY JoinFree DEF Control
<1>a. Target' = holder'
  BY <1>0 DEF Target, TypeOK
<1>1. TypeOK'
  BY DEF TypeOK, Count, NoEntries, Control
<1>2. Control'
  BY <1>1 DEF TypeOK, Count, Control
<1>3. Listed'
  BY <1>1 DEF TypeOK, Count, Listed, Control, Entries, NoEntries
<1>4. Stamped'
  BY <1>0, <1>a, <1>1 DEF TypeOK, Stamped, Barred, Listed, Control
<1>5. Found'
  <2>1. Join(t, arg[t]) /\ arg[t] \in Events /\ UNCHANGED <<deleted, toward, lists>>
    BY DEF Control
  <2>2. \A d \in Events : ~ Adds(t, d)
    BY DEF Adds, TypeOK
  <2>3. arg' = [arg EXCEPT ![t] = arg[t]]
    BY DEF TypeOK
  <2> QED BY <1>0, <2>1, <2>2, <2>3, JoinFound
<1>6. Dead'
  BY <1>1 DEF TypeOK, Dead, Control
<1> QED BY <1>1, <1>2, <1>3, <1>4, <1>5, <1>6

LEMMA ReadHolderKeeps ==
  ASSUME IInv, ~ undefined, NEW t \in Threads, ReadHolder(t)
  PROVE  Core'
<1> USE World, TimeAssumption, EventAssumption DEF Threads, IInv, Core, ReadHolder, Goto, vars, object, event, lists, locks, control
<1>0. Target' = Target
  BY DEF Target, TypeOK, Steady, Control
<1>1. TypeOK'
  BY DEF TypeOK, Count, NoEntries, Control
<1>2. Control'
  BY <1>1 DEF TypeOK, Count, Control
<1>3. Listed'
  BY <1>1 DEF TypeOK, Count, Listed, Control, Entries, NoEntries
<1>4. Stamped'
  BY <1>0, <1>1 DEF TypeOK, Stamped, Barred, Listed, Control
<1>5. Found'
  <2>2. \A e \in own' \ deleted' : Entries(Target, e) > 0 => Entries(Target, e)' > 0 \/ Barred(e)
    BY <1>0 DEF Entries
  <2>3. \A u \in Threads, e \in Events : Adds(u, e) => Adds(u, e)' \/ Entries(Target, e)' > 0
    BY <1>0, <1>1 DEF TypeOK, Adds
  <2> QED BY <1>0, <1>1, <2>2, <2>3, FoundStays DEF TypeOK
<1>6. Dead'
  BY <1>1 DEF TypeOK, Dead, Control
<1> QED BY <1>1, <1>2, <1>3, <1>4, <1>5, <1>6

LEMMA PushEventKeeps ==
  ASSUME IInv, ~ undefined, NEW t \in Threads, PushEvent(t)
  PROVE  Core'
<1> USE World, TimeAssumption, EventAssumption DEF Threads, IInv, Core, Goto, vars, object, event, lists, locks, control
<1>0. pc[t] = "pushing" /\ holder # None
  BY DEF PushEvent, Control
<1>a. Target' = Target
  BY DEF PushEvent, Back, Target, TypeOK, Control
<1>1. PICK e \in Events, to \in Holders : arg[t] = e /\ toward[t] = to
  BY DEF PushEvent, Control
<1> DEFINE More(bag) == [bag EXCEPT ![to][e] = @ + 1]
<1>2. /\ ref' = [ref EXCEPT ![e] = @ + 1] /\ undefined' = (e \in freed)
      /\ pc' = [pc EXCEPT ![t] = IF cur[t] = None THEN "idle" ELSE "running"]
      /\ arg' = [arg EXCEPT ![t] = None] /\ toward' = [toward EXCEPT ![t] = None]
      /\ UNCHANGED <<object, born, freed, stamp, deleted, left, repeats, kept, locks, cur, ret, op>>
  BY <1>1 DEF PushEvent, Back
<1>3. (list' = More(list) /\ pool' = pool) \/ (list' = list /\ pool' = More(pool))
  BY <1>1 DEF PushEvent
<1>4. /\ list' \in [Holders -> Count] /\ pool' \in [Holders -> Count]
      /\ \A g \in Holders, d \in Events :
           /\ list'[g][d] >= list[g][d] /\ pool'[g][d] >= pool[g][d]
           /\ g # to \/ d # e => list'[g][d] = list[g][d] /\ pool'[g][d] = pool[g][d]
      /\ list'[to][e] + pool'[to][e] = list[to][e] + pool[to][e] + 1
  <2>1. CASE list' = More(list) /\ pool' = pool
    <3>1. list \in [Holders -> Count]
      BY DEF TypeOK
    <3>2. /\ list' \in [Holders -> Count]
          /\ \A g \in Holders, d \in Events :
               list'[g][d] = IF g = to /\ d = e THEN list[g][d] + 1 ELSE list[g][d]
      BY <1>1, <2>1, <3>1 DEF Count
    <3>3. \A g \in Holders, d \in Events : list[g][d] \in Nat /\ pool[g][d] \in Nat
      BY Numbers
    <3>4. pool' \in [Holders -> Count]
      BY <2>1 DEF TypeOK
    <3> QED BY <2>1, <3>2, <3>3, <3>4
  <2>2. CASE list' = list /\ pool' = More(pool)
    <3>1. pool \in [Holders -> Count]
      BY DEF TypeOK
    <3>2. /\ pool' \in [Holders -> Count]
          /\ \A g \in Holders, d \in Events :
               pool'[g][d] = IF g = to /\ d = e THEN pool[g][d] + 1 ELSE pool[g][d]
      BY <1>1, <2>2, <3>1 DEF Count
    <3>3. \A g \in Holders, d \in Events : list[g][d] \in Nat /\ pool[g][d] \in Nat
      BY Numbers
    <3>4. list' \in [Holders -> Count]
      BY <2>2 DEF TypeOK
    <3> QED BY <2>2, <3>2, <3>3, <3>4
  <2> QED BY <1>3, <2>1, <2>2
<1>5. TypeOK'
  <2>1. ref' \in [Events -> Int] /\ undefined' \in BOOLEAN
    BY <1>1, <1>2 DEF TypeOK
  <2>2. pc' = [pc EXCEPT ![t] = "idle"] \/ pc' = [pc EXCEPT ![t] = "running"]
    BY <1>2
  <2> QED BY <1>2, <1>4, <2>1, <2>2 DEF TypeOK
<1>6. \A g \in Holders, d \in Events :
        /\ Entries(g, d)' >= Entries(g, d)
        /\ g # to \/ d # e => Entries(g, d)' = Entries(g, d)
  BY <1>2, <1>4, <1>5, Numbers, NumbersAfter DEF Entries
<1>7. Entries(to, e)' > 0
  <2>1. kept'[to][e] = kept[to][e] /\ list'[to][e] + pool'[to][e] = list[to][e] + pool[to][e] + 1
    BY <1>2, <1>4
  <2>2. /\ list[to][e] \in Nat /\ kept[to][e] \in Nat /\ pool[to][e] \in Nat
        /\ list'[to][e] \in Nat /\ pool'[to][e] \in Nat
    BY <1>1, <1>5, Numbers, NumbersAfter
  <2> QED BY <2>1, <2>2 DEF Entries
<1>8. \A g \in Holders, d \in Events : Entries(g, d) \in Nat /\ Entries(g, d)' \in Nat
  BY <1>5, Numbers, NumbersAfter DEF Entries
<1>9. \A u \in Threads, d \in Events : list[u][d] > 0 => list'[u][d] > 0
  BY <1>4, <1>5, Numbers, NumbersAfter
<1>10. Control'
  BY <1>0, <1>1, <1>2, <1>9 DEF TypeOK, Control
<1>11. Listed'
  <2>1. e \in own \cup deleted
    BY <1>0, <1>1 DEF Listed
  <2>2. \A g \in Holders, d \in Events : Entries(g, d)' > 0 => d \in own \cup deleted
    BY <1>6, <1>8, <2>1 DEF Listed
  <2>3. \A u \in Threads \ {t} : pc'[u] = pc[u] /\ arg'[u] = arg[u]
    BY <1>2 DEF TypeOK
  <2>4. pc'[t] \notin {"added", "pushing"}
    BY <1>2 DEF TypeOK
  <2> QED BY <1>2, <2>2, <2>3, <2>4 DEF Listed
<1>12. Stamped' /\ Dead'
  BY <1>a, <1>2 DEF TypeOK, Stamped, Barred, Dead
<1>13. \A u \in Threads, d \in Events : Adds(u, d) => Adds(u, d)' \/ Entries(Target, d)' > 0
  <2> SUFFICES ASSUME NEW u \in Threads, NEW d \in Events, Adds(u, d)
               PROVE  Adds(u, d)' \/ Entries(Target, d)' > 0
    OBVIOUS
  <2>1. CASE u = t
    BY <1>0, <1>1, <1>2, <1>7, <1>a, <2>1 DEF Adds, Entries
  <2>2. CASE u # t
    BY <1>a, <1>2, <2>2 DEF Adds, TypeOK
  <2> QED BY <2>1, <2>2
<1>14. \A d \in own \ deleted : Entries(Target, d) > 0 => Entries(Target, d)' > 0 \/ Barred(d)
  <2> SUFFICES ASSUME NEW d \in own \ deleted, ~ Barred(d), Entries(Target, d) > 0
               PROVE  Entries(Target, d)' > 0
    OBVIOUS
  <2>1. Target \in Holders /\ d \in Events
    BY DEF Stamped, TypeOK
  <2>2. Entries(Target, d)' >= Entries(Target, d)
    BY <1>a, <1>2, <1>6, <2>1 DEF Entries
  <2>3. Entries(Target, d) \in Nat /\ Target' = Target
    BY <1>a, <1>2, <1>8, <2>1
  <2>4. Entries(Target, d)' \in Nat
    BY <1>a, <1>2, <1>8, <2>1 DEF Entries
  <2> QED BY <2>2, <2>3, <2>4
<1>15. Found'
  BY <1>a, <1>2, <1>5, <1>13, <1>14, FoundStays DEF TypeOK
<1> QED BY <1>5, <1>10, <1>11, <1>12, <1>15

LEMMA RelocateKeeps ==
  ASSUME IInv, ~ undefined, NEW t \in Threads, Relocate(t)
  PROVE  Core'
<1> USE World, TimeAssumption, EventAssumption DEF Threads, IInv, Core, Relocate, Lock, Goto, vars, object, event, lists, locks, control
<1>0. Target' = Target
  BY DEF Target, TypeOK, Steady, Control
<1>1. TypeOK'
  BY DEF TypeOK, Count, NoEntries, Control
<1>2. Control'
  BY <1>1 DEF TypeOK, Count, Control
<1>3. Listed'
  BY <1>1 DEF TypeOK, Count, Listed, Control, Entries, NoEntries
<1>4. Stamped'
  BY <1>0, <1>1 DEF TypeOK, Stamped, Barred, Listed, Control
<1>5. Found'
  <2>1. \A e \in own' \ deleted' : e \in own \ deleted
    BY DEF TypeOK
  <2>2. \A e \in own' \ deleted' : Entries(Target, e) > 0 => Entries(Target, e)' > 0 \/ Barred(e)
    BY <1>0, <1>1, TargetType DEF TypeOK, Count, Entries
  <2>3. \A u \in Threads, e \in Events : Adds(u, e) => Adds(u, e)' \/ Entries(Target, e)' > 0
    BY <1>0, <1>1 DEF TypeOK, Adds
  <2> QED BY <1>0, <1>1, <2>1, <2>2, <2>3, FoundStays DEF TypeOK
<1>6. Dead'
  BY <1>1 DEF TypeOK, Dead, Control
<1> QED BY <1>1, <1>2, <1>3, <1>4, <1>5, <1>6

LEMMA SameHolderKeeps ==
  ASSUME IInv, ~ undefined, NEW t \in Threads, SameHolder(t)
  PROVE  Core'
<1> USE World, TimeAssumption, EventAssumption DEF Threads, IInv, Core, SameHolder, Relocated, Back, Goto, vars, object, event, lists, locks, control
<1>0. Target' = Target
  BY DEF Target, TypeOK, Steady, Control
<1>1. TypeOK'
  <2>1. op' \in [Threads -> {"none", "leave", "push", "remove", "destroy"}]
    BY DEF TypeOK
  <2>2. \/ pc' = [pc EXCEPT ![t] = "remove"]
        \/ pc' = [pc EXCEPT ![t] = "idle"] \/ pc' = [pc EXCEPT ![t] = "running"]
    OBVIOUS
  <2> QED BY <2>1, <2>2 DEF TypeOK
<1>2. Control'
  BY <1>1 DEF TypeOK, Count, Control
<1>3. Listed'
  BY <1>1 DEF TypeOK, Count, Listed, Control, Entries, NoEntries
<1>4. Stamped'
  BY <1>0, <1>1 DEF TypeOK, Stamped, Barred, Listed, Control
<1>5. Found'
  <2>1. \A e \in own' \ deleted' : e \in own \ deleted
    BY DEF TypeOK
  <2>2. \A e \in own' \ deleted' : Entries(Target, e) > 0 => Entries(Target, e)' > 0 \/ Barred(e)
    BY <1>0, <1>1, TargetType DEF TypeOK, Count, Entries
  <2>3. \A u \in Threads, e \in Events : Adds(u, e) => Adds(u, e)' \/ Entries(Target, e)' > 0
    BY <1>0, <1>1 DEF TypeOK, Adds
  <2> QED BY <1>0, <1>1, <2>1, <2>2, <2>3, FoundStays DEF TypeOK
<1>6. Dead'
  BY <1>1 DEF TypeOK, Dead, Control
<1> QED BY <1>1, <1>2, <1>3, <1>4, <1>5, <1>6

LEMMA MoveToListKeeps ==
  ASSUME IInv, ~ undefined, NEW t \in Threads, MoveToList(t)
  PROVE  Core'
<1> USE World, TimeAssumption, EventAssumption DEF Threads, IInv, Core, MoveToList, Transfer, Moved, Goto, vars, object, event, lists, locks, control
<1>0. where \in Holders /\ Target' = where
  BY DEF Target, TypeOK
<1>1. TypeOK'
  <2>1. list' \in [Holders -> Count] /\ UNCHANGED <<pool, kept>>
    BY DEF TypeOK, Count
  <2>2. stamp' \in [Events -> Holders] /\ ref' \in [Events -> Int]
    BY DEF TypeOK
  <2> QED BY <2>1, <2>2 DEF TypeOK
<1>2. Control'
  BY <1>1 DEF TypeOK, Count, Control
<1>3. Listed'
  BY <1>1 DEF TypeOK, Count, Listed, Control, Entries, NoEntries
<1>4. Stamped'
  BY <1>0, <1>1 DEF TypeOK, Stamped, Barred
<1>5. Found'
  BY <1>0, <1>1 DEF TypeOK, Count, Found, Barred, Entries
<1>6. Dead'
  BY <1>1 DEF TypeOK, Dead
<1> QED BY <1>1, <1>2, <1>3, <1>4, <1>5, <1>6

LEMMA MoveToPoolKeeps ==
  ASSUME IInv, ~ undefined, NEW t \in Threads, MoveToPool(t)
  PROVE  Core'
<1> USE World, TimeAssumption, EventAssumption DEF Threads, IInv, Core, MoveToPool, Transfer, Moved, Goto, vars, object, event, lists, locks, control
<1>0. where \in Holders /\ Target' = where
  BY DEF Target, TypeOK
<1>1. TypeOK'
  <2>1. pool' \in [Holders -> Count] /\ UNCHANGED <<list, kept>>
    BY DEF TypeOK, Count
  <2>2. stamp' \in [Events -> Holders] /\ ref' \in [Events -> Int]
    BY DEF TypeOK
  <2> QED BY <2>1, <2>2 DEF TypeOK
<1>2. Control'
  BY <1>1 DEF TypeOK, Count, Control
<1>3. Listed'
  BY <1>1 DEF TypeOK, Count, Listed, Control, Entries, NoEntries
<1>4. Stamped'
  BY <1>0, <1>1 DEF TypeOK, Stamped, Barred
<1>5. Found'
  BY <1>0, <1>1 DEF TypeOK, Count, Found, Barred, Entries
<1>6. Dead'
  BY <1>1 DEF TypeOK, Dead
<1> QED BY <1>1, <1>2, <1>3, <1>4, <1>5, <1>6

(* The new holder is the one the events were listed and stamped for.       *)
LEMMA SettleKeeps ==
  ASSUME IInv, ~ undefined, NEW t \in Threads, Settle(t)
  PROVE  Core'
<1> USE World, TimeAssumption, EventAssumption DEF Threads, IInv, Core, Settle, Relocated, Back, Goto, vars, object, event, lists, locks, control
<1>0. Target' = Target
  BY DEF Target, TypeOK, Steady, Control
<1>a. Target = where
  BY DEF Target
<1>1. TypeOK'
  <2>1. op' \in [Threads -> {"none", "leave", "push", "remove", "destroy"}]
    BY DEF TypeOK
  <2>2. \/ pc' = [pc EXCEPT ![t] = "remove"]
        \/ pc' = [pc EXCEPT ![t] = "idle"] \/ pc' = [pc EXCEPT ![t] = "running"]
    OBVIOUS
  <2> QED BY <2>1, <2>2 DEF TypeOK
<1>2. Control'
  BY <1>1 DEF TypeOK, Count, Control
<1>3. Listed'
  BY <1>1 DEF TypeOK, Count, Listed, Control, Entries, NoEntries
<1>4. Stamped'
  BY <1>0, <1>1 DEF TypeOK, Stamped, Barred, Listed, Control
<1>5. Found'
  <2>1. \A e \in own' \ deleted' : e \in own \ deleted
    BY DEF TypeOK
  <2>2. \A e \in own' \ deleted' : Entries(Target, e) > 0 => Entries(Target, e)' > 0 \/ Barred(e)
    BY <1>0, <1>1, TargetType DEF TypeOK, Count, Entries
  <2>3. \A u \in Threads, e \in Events : Adds(u, e) => Adds(u, e)' \/ Entries(Target, e)' > 0
    <3>1. \A u \in Threads \ {t} : UNCHANGED <<arg[u], pc[u], toward[u]>>
      BY DEF TypeOK
    <3> QED BY <1>0, <1>a, <3>1 DEF Adds
  <2> QED BY <1>0, <1>1, <2>1, <2>2, <2>3, FoundStays DEF TypeOK
<1>6. Dead'
  BY <1>1 DEF TypeOK, Dead, Control
<1> QED BY <1>1, <1>2, <1>3, <1>4, <1>5, <1>6

LEMMA RemoveKeeps ==
  ASSUME IInv, ~ undefined, NEW t \in Threads, Remove(t)
  PROVE  Core'
<1> USE World, TimeAssumption, EventAssumption DEF Threads, IInv, Core, Remove, Lock, Goto, vars, object, event, lists, locks, control
<1>0. Target' = Target
  BY DEF Target, TypeOK, Steady, Control
<1>1. TypeOK'
  BY DEF TypeOK, Count, NoEntries, Control
<1>2. Control'
  BY <1>1 DEF TypeOK, Count, Control
<1>3. Listed'
  BY <1>1 DEF TypeOK, Count, Listed, Control, Entries, NoEntries
<1>4. Stamped'
  BY <1>0, <1>1 DEF TypeOK, Stamped, Barred, Listed, Control
<1>5. Found'
  <2>1. \A e \in own' \ deleted' : e \in own \ deleted
    BY DEF TypeOK
  <2>2. \A e \in own' \ deleted' : Entries(Target, e) > 0 => Entries(Target, e)' > 0 \/ Barred(e)
    BY <1>0, <1>1, TargetType DEF TypeOK, Count, Entries
  <2>3. \A u \in Threads, e \in Events : Adds(u, e) => Adds(u, e)' \/ Entries(Target, e)' > 0
    BY <1>0, <1>1 DEF TypeOK, Adds
  <2> QED BY <1>0, <1>1, <2>1, <2>2, <2>3, FoundStays DEF TypeOK
<1>6. Dead'
  BY <1>1 DEF TypeOK, Dead, Control
<1> QED BY <1>1, <1>2, <1>3, <1>4, <1>5, <1>6

LEMMA RemoveOneKeeps ==
  ASSUME IInv, ~ undefined, NEW t \in Threads, RemoveOne(t)
  PROVE  Core'
<1> USE World, TimeAssumption, EventAssumption DEF Threads, IInv, Core, RemoveOne, DecRef, Goto, vars, object, event, lists, locks, control
<1>0. Target' = Target
  BY DEF Target, TypeOK, Steady, Control
<1>1. TypeOK'
  BY DEF TypeOK, Count, NoEntries, Control
<1>2. Control'
  BY <1>1 DEF TypeOK, Count, Control
<1>3. Listed'
  BY <1>1 DEF TypeOK, Count, Listed, Control, Entries, NoEntries
<1>4. Stamped'
  BY <1>0, <1>1 DEF TypeOK, Stamped, Barred, Listed, Control
<1>5. Found'
  <2>1. \A e \in own' \ deleted' : e \in own \ deleted
    BY DEF TypeOK
  <2>2. \A e \in own' \ deleted' : Entries(Target, e) > 0 => Entries(Target, e)' > 0 \/ Barred(e)
    BY <1>0, <1>1, TargetType DEF TypeOK, Count, Entries
  <2>3. \A u \in Threads, e \in Events : Adds(u, e) => Adds(u, e)' \/ Entries(Target, e)' > 0
    BY <1>0, <1>1 DEF TypeOK, Adds
  <2> QED BY <1>0, <1>1, <2>1, <2>2, <2>3, FoundStays DEF TypeOK
<1>6. Dead'
  BY <1>1 DEF TypeOK, Dead, Control
<1> QED BY <1>1, <1>2, <1>3, <1>4, <1>5, <1>6

LEMMA RemovedKeeps ==
  ASSUME IInv, ~ undefined, NEW t \in Threads, Removed(t)
  PROVE  Core'
<1> USE World, TimeAssumption, EventAssumption DEF Threads, IInv, Core, Removed, Back, Goto, vars, object, event, lists, locks, control
<1>0. Target' = Target
  BY DEF Target, TypeOK, Steady, Control
<1>1. TypeOK'
  BY DEF TypeOK, Count, NoEntries, Control
<1>2. Control'
  BY <1>1 DEF TypeOK, Count, Control
<1>3. Listed'
  BY <1>1 DEF TypeOK, Count, Listed, Control, Entries, NoEntries
<1>4. Stamped'
  BY <1>0, <1>1 DEF TypeOK, Stamped, Barred, Listed, Control
<1>5. Found'
  BY <1>0, <1>1, TargetType DEF TypeOK, Count, Found, Adds, Barred, Entries, Control, Stamped, NoEntries
<1>6. Dead'
  BY <1>1 DEF TypeOK, Dead, Control
<1> QED BY <1>1, <1>2, <1>3, <1>4, <1>5, <1>6

LEMMA RemoveEventsKeeps ==
  ASSUME IInv, ~ undefined, NEW t \in Threads, RemoveEvents(t)
  PROVE  Core'
<1> USE World, TimeAssumption, EventAssumption DEF Threads, IInv, Core, RemoveEvents, Owns, Free, Call, Lock, Goto, vars, object, event, lists, locks, control
<1>0. Target' = Target
  BY DEF Target, TypeOK, Steady, Control
<1>1. TypeOK'
  BY DEF TypeOK, Count, NoEntries, Control
<1>2. Control'
  BY <1>1 DEF TypeOK, Count, Control
<1>3. Listed'
  BY <1>1 DEF TypeOK, Count, Listed, Control, Entries, NoEntries
<1>4. Stamped'
  BY <1>0, <1>1 DEF TypeOK, Stamped, Barred, Listed, Control
<1>5. Found'
  <2>1. \A e \in own' \ deleted' : e \in own \ deleted
    BY DEF TypeOK
  <2>2. \A e \in own' \ deleted' : Entries(Target, e) > 0 => Entries(Target, e)' > 0 \/ Barred(e)
    BY <1>0, <1>1, TargetType DEF TypeOK, Count, Entries
  <2>3. \A u \in Threads, e \in Events : Adds(u, e) => Adds(u, e)' \/ Entries(Target, e)' > 0
    BY <1>0, <1>1 DEF TypeOK, Adds
  <2> QED BY <1>0, <1>1, <2>1, <2>2, <2>3, FoundStays DEF TypeOK
<1>6. Dead'
  BY <1>1 DEF TypeOK, Dead, Control
<1> QED BY <1>1, <1>2, <1>3, <1>4, <1>5, <1>6

LEMMA RemoveFromWorldKeeps ==
  ASSUME IInv, ~ undefined, NEW t \in Threads, RemoveFromWorld(t)
  PROVE  Core'
<1> USE World, TimeAssumption, EventAssumption DEF Threads, IInv, Core, RemoveFromWorld, Owns, Free, Call, Goto, vars, object, event, lists, locks, control
<1>0. Target' = Target
  BY DEF Target, TypeOK, Steady, Control
<1>1. TypeOK'
  BY DEF TypeOK, Count, NoEntries, Control
<1>2. Control'
  BY <1>1 DEF TypeOK, Count, Control
<1>3. Listed'
  BY <1>1 DEF TypeOK, Count, Listed, Control, Entries, NoEntries
<1>4. Stamped'
  BY <1>0, <1>1 DEF TypeOK, Stamped, Barred, Listed, Control
<1>5. Found'
  <2>1. \A e \in own' \ deleted' : e \in own \ deleted
    BY DEF TypeOK
  <2>2. \A e \in own' \ deleted' : Entries(Target, e) > 0 => Entries(Target, e)' > 0 \/ Barred(e)
    BY <1>0, <1>1, TargetType DEF TypeOK, Count, Entries
  <2>3. \A u \in Threads, e \in Events : Adds(u, e) => Adds(u, e)' \/ Entries(Target, e)' > 0
    BY <1>0, <1>1 DEF TypeOK, Adds
  <2> QED BY <1>0, <1>1, <2>1, <2>2, <2>3, FoundStays DEF TypeOK
<1>6. Dead'
  BY <1>1 DEF TypeOK, Dead, Control
<1> QED BY <1>1, <1>2, <1>3, <1>4, <1>5, <1>6

LEMMA DestroyKeeps ==
  ASSUME IInv, ~ undefined, NEW t \in Threads, Destroy(t)
  PROVE  Core'
<1> USE World, TimeAssumption, EventAssumption DEF Threads, IInv, Core, Destroy, Owns, Free, Call, Goto, vars, object, event, lists, locks, control
<1>0. Target' = Target
  BY DEF Target, TypeOK, Steady, Control
<1>1. TypeOK'
  BY DEF TypeOK, Count, NoEntries, Control
<1>2. Control'
  BY <1>1 DEF TypeOK, Count, Control
<1>3. Listed'
  BY <1>1 DEF TypeOK, Count, Listed, Control, Entries, NoEntries
<1>4. Stamped'
  BY <1>0, <1>1 DEF TypeOK, Stamped, Barred, Listed, Control
<1>5. Found'
  <2>1. \A e \in own' \ deleted' : e \in own \ deleted
    BY DEF TypeOK
  <2>2. \A e \in own' \ deleted' : Entries(Target, e) > 0 => Entries(Target, e)' > 0 \/ Barred(e)
    BY <1>0, <1>1, TargetType DEF TypeOK, Count, Entries
  <2>3. \A u \in Threads, e \in Events : Adds(u, e) => Adds(u, e)' \/ Entries(Target, e)' > 0
    BY <1>0, <1>1 DEF TypeOK, Adds
  <2> QED BY <1>0, <1>1, <2>1, <2>2, <2>3, FoundStays DEF TypeOK
<1>6. Dead'
  BY <1>1 DEF TypeOK, Dead, Control
<1> QED BY <1>1, <1>2, <1>3, <1>4, <1>5, <1>6

LEMMA AddToWorldKeeps ==
  ASSUME IInv, ~ undefined, NEW m \in Maps, AddToWorld(m)
  PROVE  Core'
<1> USE World, TimeAssumption, EventAssumption DEF Threads, IInv, Core, AddToWorld, Owns, Free, Back, Goto, vars, object, event, lists, locks, control
<1>0. Target' = Target
  BY DEF Target, TypeOK, Steady, Control
<1>1. TypeOK'
  BY DEF TypeOK, Count, NoEntries, Control
<1>2. Control'
  BY <1>1 DEF TypeOK, Count, Control
<1>3. Listed'
  BY <1>1 DEF TypeOK, Count, Listed, Control, Entries, NoEntries
<1>4. Stamped'
  BY <1>0, <1>1 DEF TypeOK, Stamped, Barred, Listed, Control
<1>5. Found'
  <2>1. \A e \in own' \ deleted' : e \in own \ deleted
    BY DEF TypeOK
  <2>2. \A e \in own' \ deleted' : Entries(Target, e) > 0 => Entries(Target, e)' > 0 \/ Barred(e)
    BY <1>0, <1>1, TargetType DEF TypeOK, Count, Entries
  <2>3. \A u \in Threads, e \in Events : Adds(u, e) => Adds(u, e)' \/ Entries(Target, e)' > 0
    BY <1>0, <1>1 DEF TypeOK, Adds
  <2> QED BY <1>0, <1>1, <2>1, <2>2, <2>3, FoundStays DEF TypeOK
<1>6. Dead'
  BY <1>1 DEF TypeOK, Dead, Control
<1> QED BY <1>1, <1>2, <1>3, <1>4, <1>5, <1>6

LEMMA PushToWorldKeeps ==
  ASSUME IInv, ~ undefined, NEW m \in Threads, PushToWorld(m)
  PROVE  Core'
<1> USE World, TimeAssumption, EventAssumption DEF Threads, IInv, Core, PushToWorld, Call, Goto, vars, object, event, lists, locks, control
<1>0. Target' = Target
  BY DEF Target, TypeOK, Steady, Control
<1>1. TypeOK'
  BY DEF TypeOK, Count, NoEntries, Control
<1>2. Control'
  BY <1>1 DEF TypeOK, Count, Control
<1>3. Listed'
  BY <1>1 DEF TypeOK, Count, Listed, Control, Entries, NoEntries
<1>4. Stamped'
  BY <1>0, <1>1 DEF TypeOK, Stamped, Barred, Listed, Control
<1>5. Found'
  <2>1. \A e \in own' \ deleted' : e \in own \ deleted
    BY DEF TypeOK
  <2>2. \A e \in own' \ deleted' : Entries(Target, e) > 0 => Entries(Target, e)' > 0 \/ Barred(e)
    BY <1>0, <1>1, TargetType DEF TypeOK, Count, Entries
  <2>3. \A u \in Threads, e \in Events : Adds(u, e) => Adds(u, e)' \/ Entries(Target, e)' > 0
    BY <1>0, <1>1 DEF TypeOK, Adds
  <2> QED BY <1>0, <1>1, <2>1, <2>2, <2>3, FoundStays DEF TypeOK
<1>6. Dead'
  BY <1>1 DEF TypeOK, Dead, Control
<1> QED BY <1>1, <1>2, <1>3, <1>4, <1>5, <1>6

-------------------------------------------------------------------------------
(* What the owner does with the object next waits until it has settled.    *)
LEMMA StepSteady == TypeOK /\ Control /\ Steady /\ [Next]_vars => Steady'
<1> SUFFICES ASSUME TypeOK, Control, Steady, [Next]_vars
             PROVE  Steady'
  OBVIOUS
<1> USE World DEF Steady, Goto, Threads
<1>1. CASE UNCHANGED vars
  BY <1>1 DEF vars, object, control
<1>2. ASSUME NEW t \in Threads, Update(t) \/ Adding(t) \/ Test(t)
      PROVE  Steady'
  <2>1. op' = op /\ queued' = queued
    BY <1>2 DEF Update, BeginUpdate, Merge, Merged, Walk, Drop, Wait, Pass, Execute, Expire, EndUpdate,
      Adding, Acquired, ReadHolder, PushEvent, Test, object, control
  <2>2. \A u \in Threads : pc'[u] \in {"relocate", "relocating", "settling"} => pc'[u] = pc[u]
    <3>1. CASE Update(t)
      BY <3>1 DEF Update, BeginUpdate, Merge, Merged, Walk, Drop, Wait, Pass, Execute, Expire, EndUpdate,
        DecRef, control, TypeOK
    <3>2. CASE Adding(t) \/ Test(t)
      BY <3>2 DEF Adding, Acquired, Join, ReadHolder, PushEvent, Back, Test, Control, TypeOK
    <3> QED BY <1>2, <3>1, <3>2
  <2> QED BY <2>1, <2>2
<1>3. ASSUME NEW t \in Threads, Moving(t) \/ Removing(t)
      PROVE  Steady'
  <2>1. CASE Moving(t)
    BY <2>1 DEF Moving, Relocate, Lock, SameHolder, MoveToList, MoveToPool, Settle, Relocated, Back, TypeOK, object
  <2>2. CASE Removing(t)
    BY <2>2 DEF Removing, Remove, Lock, RemoveOne, DecRef, Removed, Back, TypeOK, object
  <2> QED BY <1>3, <2>1, <2>2
<1>4. ASSUME NEW t \in Threads, PushToWorld(t) \/ RemoveEvents(t) \/ RemoveFromWorld(t) \/ Destroy(t)
      PROVE  Steady'
  BY <1>4 DEF PushToWorld, RemoveEvents, RemoveFromWorld, Destroy, Owns, Free, Call, Lock, TypeOK, object
<1>5. ASSUME NEW t \in Threads, NEW e \in Events, AddEvent(t, e)
      PROVE  Steady'
  BY <1>5 DEF AddEvent, Join, TypeOK
<1>6. ASSUME NEW m \in Maps, AddToWorld(m)
      PROVE  Steady'
  BY <1>6 DEF AddToWorld, Owns, Back, TypeOK
<1> QED BY <1>1, <1>2, <1>3, <1>4, <1>5, <1>6 DEF Next, Crashed, Continue

LEMMA InitIInv == Init => IInv
<1> SUFFICES ASSUME Init
             PROVE  IInv
  OBVIOUS
<1> USE World, TimeAssumption, EventAssumption DEF Init, Threads, NoEntries
<1>1. TypeOK
  <2>1. left \in [Events -> Nat] /\ repeats \in [Events -> 0..1]
    OBVIOUS
  <2>2. list \in [Holders -> Count] /\ kept \in [Holders -> Count] /\ pool \in [Holders -> Count]
    BY DEF Count
  <2>3. ref \in [Events -> Int] /\ stamp \in [Events -> Holders] /\ lock \in [Holders -> Threads \cup {None}]
    OBVIOUS
  <2>4. where \in Holders /\ holder \in Holders \cup {None} /\ moves \in 0..MaxMoves
    OBVIOUS
  <2>5. alive \in BOOLEAN /\ undefined \in BOOLEAN
    OBVIOUS
  <2>6. /\ pc = [t \in Holders |-> "idle"] /\ ret = [t \in Holders |-> "none"] /\ op = ret
        /\ cur = [t \in Holders |-> None] /\ arg = cur /\ toward = cur
    OBVIOUS
  <2> QED BY <2>1, <2>2, <2>3, <2>4, <2>5, <2>6 DEF TypeOK
<1>2. \A h \in Holders, e \in Events : Entries(h, e) = 0
  BY DEF Entries
<1>3. Possession
  BY DEF Possession, Visiting, HasObject
<1> QED BY <1>1, <1>2, <1>3 DEF IInv, Core, Steady, Control, Listed, Stamped, Found, Dead

(* The steps of Update.                                                    *)
LEMMA UpdateKeeps ==
  ASSUME IInv, ~ undefined, NEW h \in Holders, Update(h)
  PROVE  Core'
<1>1. CASE BeginUpdate(h) \/ Merge(h) \/ Merged(h)
  BY <1>1, BeginUpdateKeeps, MergeKeeps, MergedKeeps
<1>2. CASE Walk(h)
  BY <1>2, DropKeeps, WaitKeeps, PassKeeps DEF Walk
<1>3. CASE Execute(h) \/ Expire(h) \/ EndUpdate(h)
  BY <1>3, ExecuteKeeps, ExpireKeeps, EndUpdateKeeps
<1> QED BY <1>1, <1>2, <1>3 DEF Update

(* Whatever a thread goes on with.                                         *)
LEMMA ContinueKeeps ==
  ASSUME IInv, ~ undefined, NEW t \in Threads, Continue(t)
  PROVE  Core'
<1>1. CASE PushToWorld(t) \/ Test(t)
  BY <1>1, PushToWorldKeeps, TestKeeps
<1>2. CASE Update(t)
  BY <1>2, UpdateKeeps DEF Threads
<1>3. CASE Adding(t)
  BY <1>3, AcquiredKeeps, ReadHolderKeeps, PushEventKeeps DEF Adding
<1>4. CASE Moving(t)
  BY <1>4, RelocateKeeps, SameHolderKeeps, MoveToListKeeps, MoveToPoolKeeps, SettleKeeps DEF Moving
<1>5. CASE Removing(t)
  BY <1>5, RemoveKeeps, RemoveOneKeeps, RemovedKeeps DEF Removing
<1> QED BY <1>1, <1>2, <1>3, <1>4, <1>5 DEF Continue

LEMMA StepKeeps == IInv /\ [Next]_vars => IInv'
<1> SUFFICES ASSUME IInv, [Next]_vars
             PROVE  Core'
  BY StepPossession, StepSteady DEF IInv, Core
<1>1. CASE UNCHANGED vars
  BY <1>1 DEF vars, object, event, lists, locks, control, IInv, Core, TypeOK, Control,
              Listed, Entries, Stamped, Barred, Found, Adds, Target, Dead
<1>2. ASSUME ~ undefined, NEW t \in Threads,
             Continue(t) \/ RemoveEvents(t) \/ RemoveFromWorld(t) \/ Destroy(t)
      PROVE  Core'
  BY <1>2, ContinueKeeps, RemoveEventsKeeps, RemoveFromWorldKeeps, DestroyKeeps
<1>3. ASSUME ~ undefined, NEW t \in Threads, NEW e \in Events, AddEvent(t, e)
      PROVE  Core'
  BY <1>3, AddEventKeeps
<1>4. ASSUME ~ undefined, NEW m \in Maps, AddToWorld(m)
      PROVE  Core'
  BY <1>4, AddToWorldKeeps
<1> QED BY <1>1, <1>2, <1>3, <1>4 DEF Next, Crashed

THEOREM Invariance == Spec => []IInv
BY InitIInv, StepKeeps, PTL DEF Spec

(* Type correctness, for any number of maps, events and moves.             *)
THEOREM TypeCorrect == Spec => []TypeOK
<1>1. IInv => TypeOK
  BY DEF IInv, Core
<1> QED BY <1>1, Invariance, PTL

(* An event that is not deleted is where its object's holder looks for it, *)
(* however relocations, foreign adders and updates interleave.             *)
THEOREM NobodyForgets == Spec => []NoneForgotten
<1>1. IInv => NoneForgotten
  BY DEF IInv, Core, NoneForgotten, Stamped, Found, Barred, Adds
<1> QED BY <1>1, Invariance, PTL

(* Only Pass picks an event.                                               *)
LEMMA OnlyPassPicks ==
  ASSUME TypeOK, [Next]_vars, NEW h \in Threads, Passes(h)
  PROVE  ~ undefined /\ \E e \in Events : list[h][e] > 0 /\ Pass(h, e)
<1> USE DEF Passes, Goto
<1>1. ~ undefined /\ ~ UNCHANGED pc
  BY DEF Next, Crashed, vars, control
<1>2. ASSUME NEW t \in Threads, t # h,
             \/ Continue(t) \/ RemoveEvents(t) \/ RemoveFromWorld(t) \/ Destroy(t)
             \/ \E e \in Events : AddEvent(t, e)
      PROVE  FALSE
  <2>1. pc' = pc \/ \E place : pc' = [pc EXCEPT ![t] = place]
    BY <1>2 DEF Continue, PushToWorld, Test, Update, BeginUpdate, Merge, Merged, Walk, Drop, Wait,
      Pass, Execute, Expire, EndUpdate, Adding, Acquired, Join, ReadHolder, PushEvent, Moving, Relocate,
      Lock, SameHolder, MoveToList, MoveToPool, Settle, Relocated, Removing, Remove, RemoveOne, Removed,
      Back, DecRef, RemoveEvents, RemoveFromWorld, Destroy, AddEvent, control
  <2> QED BY <1>2, <2>1 DEF TypeOK
<1>3. ~ \E m \in Maps : AddToWorld(m)
  BY World DEF AddToWorld, Owns, Free, Back, TypeOK, Threads
<1>4. ASSUME \/ Continue(h) \/ RemoveEvents(h) \/ RemoveFromWorld(h) \/ Destroy(h)
             \/ \E e \in Events : AddEvent(h, e)
      PROVE  Walk(h)
  <2>1. Continue(h) /\ pc[h] = "walking"
    BY <1>4 DEF RemoveEvents, RemoveFromWorld, Destroy, AddEvent, Owns, Free
  <2>2. Walk(h) \/ EndUpdate(h)
    BY <2>1 DEF Continue, PushToWorld, Test, Update, BeginUpdate, Merge, Merged, Execute, Expire, Adding,
      Acquired, ReadHolder, PushEvent, Moving, Relocate, SameHolder, MoveToList, MoveToPool,
      Settle, Removing, Remove, RemoveOne, Removed
  <2> QED BY <2>2 DEF EndUpdate, TypeOK
<1>5. Walk(h)
  <2>1. PICK t \in Threads :
          \/ Continue(t) \/ RemoveEvents(t) \/ RemoveFromWorld(t) \/ Destroy(t)
          \/ \E e \in Events : AddEvent(t, e)
    BY <1>1, <1>3 DEF Next, Crashed, vars, control
  <2>2. t = h
    BY <1>2, <2>1
  <2> QED BY <1>4, <2>1, <2>2
<1>6. ASSUME NEW e \in Events, Drop(h, e) \/ Wait(h, e)
      PROVE  FALSE
  BY <1>6 DEF Drop, DecRef, Wait, control, TypeOK
<1> QED BY <1>1, <1>5, <1>6 DEF Walk

(* An event that is picked is the object's, and its thread that of the     *)
(* object's holder, or at least not the world's if it is flagged.          *)
THEOREM PicksInPlace == Spec => PickedInPlace
<1>1. ASSUME IInv, [Next]_vars, NEW h \in Threads, Passes(h)
      PROVE  /\ cur'[h] \in own
             /\ IF cur'[h] \in Flagged THEN h # "world" ELSE Target = h
  <2>1. PICK e \in Events : list[h][e] > 0 /\ Pass(h, e)
    BY <1>1, OnlyPassPicks DEF IInv, Core
  <2>2. /\ h \in Holders /\ cur'[h] = e
        /\ e \notin deleted /\ stamp[e] = h /\ ~ (h = "world" /\ e \in Flagged)
    BY <1>1, <2>1 DEF IInv, Core, TypeOK, Pass, Misplaced, Threads
  <2>3. e \in own
    BY <1>1, <2>1, <2>2, Numbers DEF IInv, Core, Listed, Entries
  <2>4. stamp[e] = Target \/ Barred(e)
    BY <1>1, <2>2, <2>3 DEF IInv, Core, Stamped
  <2> QED BY <2>2, <2>3, <2>4 DEF Barred
<1>2. IInv /\ [Next]_vars => \A t \in Threads : Passes(t) =>
        /\ cur'[t] \in own
        /\ IF cur'[t] \in Flagged THEN t # "world" ELSE Target = t
  BY <1>1
<1> QED BY <1>2, Invariance, PTL DEF Spec, PickedInPlace

-------------------------------------------------------------------------------
(* The reference counts.                                                   *)

(* Each event's count is what its entries and its object's list add up to. *)
Account ==
  \A e \in Events :
    /\ IsFiniteSet(Listings(e))
    /\ ref[e] = Cardinality(Listings(e)) + (IF e \in own THEN 1 ELSE 0)

(* An event that nobody has got hold of yet.                               *)
Bare(e) ==
  /\ ref[e] = 0 /\ e \notin own \cup freed \cup deleted
  /\ \A h \in Holders : Entries(h, e) = 0

(* An adder that waits for the object's lock has an event of its own that  *)
(* nobody else has seen: the count is 0, yet nobody is about to free it.   *)
Fresh ==
  /\ \A e \in Events \ born : Bare(e) /\ \A t \in Threads : arg[t] # e
  /\ \A t \in Threads : pc[t] = "adding" =>
       Bare(arg[t]) /\ \A u \in Threads \ {t} : arg[u] # arg[t]

FreedAreDropped == freed \cap own = {}

CInv == Account /\ Fresh /\ FreedAreDropped

(* The events whose count, entries and place in m_events do not change.    *)
SameCount(e) ==
  /\ ref'[e] = ref[e] /\ (e \in own' <=> e \in own)
  /\ \A h \in Holders : Entries(h, e)' = Entries(h, e)

(* One entry more, or one less, in one holder's list or pool.              *)
EntryMore(h, e) ==
  /\ Entries(h, e)' = Entries(h, e) + 1
  /\ \A g \in Holders \ {h} : Entries(g, e)' = Entries(g, e)

EntryLess(h, e) ==
  /\ Entries(h, e)' = Entries(h, e) - 1
  /\ \A g \in Holders \ {h} : Entries(g, e)' = Entries(g, e)

LEMMA EntriesType ==
  ASSUME TypeOK, NEW h \in Holders, NEW e \in Events
  PROVE  Entries(h, e) \in Nat
BY Numbers DEF Entries

LEMMA EntriesTypeAfter ==
  ASSUME TypeOK', NEW h \in Holders, NEW e \in Events
  PROVE  Entries(h, e)' \in Nat
BY NumbersAfter DEF Entries

(* What is in an event's listings: its entries' numbers, by holder.        *)
LEMMA ListingsMember ==
  ASSUME NEW e \in Events, NEW x
  PROVE  x \in Listings(e) <=> \E h \in Holders : \E i \in 1..Entries(h, e) : x = <<h, i>>
BY DEF Listings

LEMMA ListingsMemberAfter ==
  ASSUME NEW e \in Events, NEW x
  PROVE  x \in Listings(e)' <=> \E h \in Holders : \E i \in 1..(Entries(h, e)') : x = <<h, i>>
BY DEF Listings

LEMMA ListingsSame ==
  ASSUME NEW e \in Events, \A h \in Holders : Entries(h, e)' = Entries(h, e)
  PROVE  Listings(e)' = Listings(e)
BY ListingsMember, ListingsMemberAfter

LEMMA ListingsMore ==
  ASSUME TypeOK, TypeOK', NEW e \in Events, NEW h \in Holders, EntryMore(h, e),
         IsFiniteSet(Listings(e))
  PROVE  IsFiniteSet(Listings(e))' /\ Cardinality(Listings(e))' = Cardinality(Listings(e)) + 1
<1> DEFINE n == Entries(h, e) + 1
           x == <<h, n>>
<1>1. n \in Nat /\ n - 1 \in Nat /\ Entries(h, e)' = n /\ Entries(h, e) = n - 1
  BY EntriesType DEF EntryMore
<1> HIDE DEF n
<1>2. x \notin Listings(e)
  BY <1>1, ListingsMember
<1>3. Listings(e)' = Listings(e) \cup {x}
  <2>1. ASSUME NEW y PROVE y \in Listings(e)' <=> y \in Listings(e) \cup {x}
    <3>1. 1..n = (1..(n - 1)) \cup {n}
      BY <1>1
    <3> QED BY <1>1, <3>1, ListingsMember, ListingsMemberAfter DEF EntryMore
  <2> QED BY <2>1
<1> HIDE DEF x
<1> QED BY <1>2, <1>3, FS_AddElement

LEMMA ListingsLess ==
  ASSUME TypeOK, TypeOK', NEW e \in Events, NEW h \in Holders, EntryLess(h, e),
         IsFiniteSet(Listings(e))
  PROVE  IsFiniteSet(Listings(e))' /\ Cardinality(Listings(e))' = Cardinality(Listings(e)) - 1
<1> DEFINE n == Entries(h, e)
           x == <<h, n>>
<1>1. n \in Nat /\ n - 1 \in Nat /\ Entries(h, e)' = n - 1 /\ Entries(h, e) = n
  BY EntriesType, EntriesTypeAfter DEF EntryLess
<1> HIDE DEF n
<1>2. x \in Listings(e)
  BY <1>1, ListingsMember
<1>3. Listings(e)' = Listings(e) \ {x}
  <2>1. ASSUME NEW y PROVE y \in Listings(e)' <=> y \in Listings(e) \ {x}
    <3>1. 1..n = (1..(n - 1)) \cup {n}
      BY <1>1
    <3> QED BY <1>1, <3>1, ListingsMember, ListingsMemberAfter DEF EntryLess
  <2> QED BY <2>1
<1> HIDE DEF x
<1> QED BY <1>2, <1>3, FS_RemoveElement

(* What is listed, or in m_events, is counted.                             *)
LEMMA CountIsPositive ==
  ASSUME TypeOK, Account, NEW e \in Events
  PROVE  /\ ref[e] \in Nat
         /\ e \in own => ref[e] > 0
         /\ \A h \in Holders : Entries(h, e) > 0 => ref[e] > 0
<1>1. Cardinality(Listings(e)) \in Nat /\ IsFiniteSet(Listings(e))
  BY FS_CardinalityType DEF Account
<1>2. ASSUME NEW h \in Holders, Entries(h, e) > 0 PROVE Cardinality(Listings(e)) # 0
  <2>1. <<h, 1>> \in Listings(e)
    BY <1>2, EntriesType, ListingsMember
  <2> QED BY <1>1, <2>1, FS_EmptySet
<1> QED BY <1>1, <1>2 DEF Account

LEMMA AccountOf ==
  ASSUME Account, NEW e \in Events, SameCount(e)
  PROVE  /\ IsFiniteSet(Listings(e))'
         /\ ref'[e] = Cardinality(Listings(e))' + (IF e \in own' THEN 1 ELSE 0)
BY ListingsSame DEF Account, SameCount

(* The event e is the only one whose count changes, with one entry or with *)
(* its place in m_events.                                                  *)
LEMMA AccountKept ==
  ASSUME TypeOK, TypeOK', Account, NEW e \in Events, \A d \in Events \ {e} : SameCount(d),
         \/ /\ e \in own' <=> e \in own
            /\ \E h \in Holders : \/ EntryMore(h, e) /\ ref'[e] = ref[e] + 1
                                  \/ EntryLess(h, e) /\ ref'[e] = ref[e] - 1
         \/ /\ \A h \in Holders : Entries(h, e)' = Entries(h, e)
            /\ \/ e \in own' \ own /\ ref'[e] = ref[e] + 1
               \/ e \in own \ own' /\ ref'[e] = ref[e] - 1
  PROVE  Account'
<1>1. \A d \in Events \ {e} : /\ IsFiniteSet(Listings(d))'
                              /\ ref'[d] = Cardinality(Listings(d))' + (IF d \in own' THEN 1 ELSE 0)
  BY AccountOf
<1>2. /\ IsFiniteSet(Listings(e)) /\ Cardinality(Listings(e)) \in Nat
      /\ ref[e] = Cardinality(Listings(e)) + (IF e \in own THEN 1 ELSE 0)
  BY FS_CardinalityType DEF Account
<1>3. /\ IsFiniteSet(Listings(e))'
      /\ ref'[e] = Cardinality(Listings(e))' + (IF e \in own' THEN 1 ELSE 0)
  <2>1. CASE /\ e \in own' <=> e \in own
             /\ \E h \in Holders : \/ EntryMore(h, e) /\ ref'[e] = ref[e] + 1
                                   \/ EntryLess(h, e) /\ ref'[e] = ref[e] - 1
    BY <1>2, <2>1, ListingsMore, ListingsLess
  <2>2. CASE \A h \in Holders : Entries(h, e)' = Entries(h, e)
    BY <1>2, <2>2, ListingsSame, ListingsMore, ListingsLess DEF EntryMore, EntryLess
  <2> QED BY <2>1, <2>2
<1> QED BY <1>1, <1>3 DEF Account

(* A step about one event that is somebody's already.                      *)
LEMMA FreshKept ==
  ASSUME TypeOK, Fresh, born' = born, NEW e \in born, \A u \in Threads : pc'[u] = "adding" => arg[u] # e,
         \A d \in Events \ {e} : SameCount(d) /\ (d \in freed' <=> d \in freed) /\ (d \in deleted' <=> d \in deleted),
         \A u \in Threads : /\ pc'[u] = "adding" => pc[u] = "adding" /\ arg'[u] = arg[u] /\ arg[u] \in Events
                            /\ arg'[u] \in {arg[u], None, e}
  PROVE  Fresh'
<1>1. \A d \in Events \ {e} : Bare(d) => Bare(d)'
  BY DEF Bare, SameCount
<1>2. \A d \in Events \ born' : Bare(d)' /\ \A t \in Threads : arg'[t] # d
  BY <1>1, EventAssumption DEF Fresh
<1>3. ASSUME NEW t \in Threads, pc'[t] = "adding"
      PROVE  Bare(arg[t])' /\ arg'[t] = arg[t] /\ \A u \in Threads \ {t} : arg'[u] # arg[t]
  BY <1>1, <1>3, EventAssumption DEF Fresh
<1> QED BY <1>2, <1>3 DEF Fresh, Bare

(* A step that changes no count.                                           *)
LEMMA QuietCounts ==
  ASSUME TypeOK, TypeOK', CInv, ~ undefined, UNCHANGED <<own, ref, freed, deleted, born, arg>>,
         \A h \in Holders, e \in Events : Entries(h, e)' = Entries(h, e),
         \A t \in Threads : pc'[t] = "adding" => pc[t] = "adding" /\ arg[t] \in Events
  PROVE  CInv'
<1>1. \A e \in Events : SameCount(e)
  BY DEF SameCount
<1>2. Account'
  BY <1>1, AccountOf DEF CInv, Account
<1>3. \A d \in Events : Bare(d) => Bare(d)'
  BY DEF Bare
<1>4. Fresh'
  BY <1>3 DEF CInv, Fresh, Bare
<1> QED BY <1>2, <1>4 DEF CInv, FreedAreDropped

(* A reference is dropped with an entry of the event.                      *)
LEMMA UnlistCounts ==
  ASSUME IInv, Core, TypeOK', CInv, ~ undefined, NEW t \in Threads, NEW h \in Holders, NEW e \in Events,
         Entries(h, e) > 0, EntryLess(h, e), ref' = [ref EXCEPT ![e] = @ - 1],
         \A d \in Events \ {e} : (d \in deleted' <=> d \in deleted) /\ \A g \in Holders : Entries(g, d)' = Entries(g, d),
         UNCHANGED <<own, freed, born, undefined>>, arg' = [arg EXCEPT ![t] = e],
         pc' = [pc EXCEPT ![t] = "testing"]
  PROVE  CInv'
<1> USE DEF CInv, IInv, Core
<1>1. ref[e] > 0 /\ ~ Bare(e)
  BY CountIsPositive DEF Bare
<1>2. \A d \in Events \ {e} : SameCount(d)
  BY DEF SameCount, TypeOK
<1>3. ref'[e] = ref[e] - 1
  BY DEF TypeOK
<1>4. Account'
  BY <1>2, <1>3, AccountKept
<1>5. e \in born /\ \A u \in Threads : pc[u] = "adding" => arg[u] # e
  BY <1>1 DEF Fresh
<1>6. Fresh'
  <2>1. \A u \in Threads : /\ pc'[u] = "adding" => pc[u] = "adding" /\ arg'[u] = arg[u] /\ arg[u] \in Events
                           /\ arg'[u] \in {arg[u], None, e}
    BY DEF TypeOK, Control
  <2> QED BY <1>2, <1>5, <2>1, FreshKept
<1>7. FreedAreDropped'
  BY <1>1, <1>2 DEF FreedAreDropped, SameCount, TypeOK
<1> QED BY <1>4, <1>6, <1>7

LEMMA TestCounts ==
  ASSUME IInv, Core, TypeOK', CInv, ~ undefined, NEW t \in Threads, Test(t)
  PROVE  CInv'
<1> USE DEF CInv, IInv, Core, Test, Goto, object, lists
<1>1. arg[t] \in Events /\ arg' = [arg EXCEPT ![t] = None] /\ UNCHANGED <<own, ref, born, deleted, list, kept, pool>>
  BY DEF Control
<1>2. \A e \in Events : SameCount(e)
  BY <1>1 DEF SameCount, Entries
<1>3. Account'
  BY <1>2, AccountOf DEF Account
<1>4. arg[t] \in born /\ \A u \in Threads : pc'[u] = "adding" => arg[u] # arg[t]
  BY <1>1 DEF Fresh, TypeOK
<1>5. Fresh'
  <2>1. \A u \in Threads : /\ pc'[u] = "adding" => pc[u] = "adding" /\ arg'[u] = arg[u] /\ arg[u] \in Events
                           /\ arg'[u] \in {arg[u], None, arg[t]}
    BY <1>1 DEF TypeOK, Control
  <2>2. \A d \in Events \ {arg[t]} : (d \in freed' <=> d \in freed) /\ (d \in deleted' <=> d \in deleted)
    BY <1>1
  <2> HIDE DEF Test
  <2> QED BY <1>1, <1>2, <1>4, <2>1, <2>2, FreshKept
<1>6. FreedAreDropped'
  BY <1>1, CountIsPositive DEF FreedAreDropped, TypeOK
<1> QED BY <1>3, <1>5, <1>6

LEMMA MergeCounts ==
  ASSUME IInv, Core, TypeOK', CInv, ~ undefined, NEW h \in Holders, Merge(h)
  PROVE  CInv'
<1> USE DEF Threads, Goto, object, event, lists, locks, control
<1>1. PICK e \in Events :
        /\ pool[h][e] > 0
        /\ pool' = [pool EXCEPT ![h][e] = @ - 1]
        /\ IF e \in deleted \/ stamp[e] # h
             THEN DecRef(h, e, "merging") /\ UNCHANGED list
             ELSE list' = [list EXCEPT ![h][e] = @ + 1] /\ UNCHANGED <<ref, pc, arg, ret>>
  BY DEF Merge
<1>2. UNCHANGED <<own, born, freed, deleted, kept, undefined>>
  BY DEF Merge
<1>3. \A g \in Holders, d \in Events : list[g][d] \in Nat /\ kept[g][d] \in Nat /\ pool[g][d] \in Nat
  BY Numbers DEF IInv, Core
<1>4. \A g \in Holders, d \in Events : pool'[g][d] = IF g = h /\ d = e THEN pool[g][d] - 1 ELSE pool[g][d]
  <2>1. pool \in [Holders -> Count]
    BY DEF IInv, Core, TypeOK
  <2> QED BY <1>1, <2>1 DEF Count
<1>5. CASE e \in deleted \/ stamp[e] # h
  <2>1. UNCHANGED list /\ DecRef(h, e, "merging")
    BY <1>1, <1>5
  <2>2. Entries(h, e) > 0 /\ EntryLess(h, e)
    BY <1>1, <1>2, <1>3, <1>4, <2>1 DEF EntryLess, Entries
  <2>3. \A d \in Events \ {e}, g \in Holders : Entries(g, d)' = Entries(g, d)
    BY <1>2, <1>4, <2>1 DEF Entries
  <2> QED BY <1>2, <2>1, <2>2, <2>3, UnlistCounts DEF DecRef
<1>6. CASE ~ (e \in deleted \/ stamp[e] # h)
  <2>1. list' = [list EXCEPT ![h][e] = @ + 1] /\ UNCHANGED <<ref, pc, arg, ret>>
    BY <1>1, <1>6
  <2>2. \A g \in Holders, d \in Events : list'[g][d] = IF g = h /\ d = e THEN list[g][d] + 1 ELSE list[g][d]
    <3>1. list \in [Holders -> Count]
      BY DEF IInv, Core, TypeOK
    <3> QED BY <2>1, <3>1 DEF Count
  <2>3. \A g \in Holders, d \in Events : Entries(g, d)' = Entries(g, d)
    BY <1>2, <1>3, <1>4, <2>2 DEF Entries
  <2> QED BY <1>2, <2>1, <2>3, QuietCounts DEF IInv, Core, Control
<1> QED BY <1>5, <1>6

LEMMA WalkCounts ==
  ASSUME IInv, Core, TypeOK', CInv, ~ undefined, NEW h \in Holders, Walk(h)
  PROVE  CInv'
<1> USE DEF Threads, Goto, object, event, lists, locks, control
<1>1. PICK e \in Events : list[h][e] > 0 /\ (Drop(h, e) \/ Wait(h, e) \/ Pass(h, e))
  BY DEF Walk
<1>2. \A g \in Holders, d \in Events : list[g][d] \in Nat /\ kept[g][d] \in Nat /\ pool[g][d] \in Nat
  BY Numbers DEF IInv, Core
<1>3. list \in [Holders -> Count] /\ kept \in [Holders -> Count]
  BY DEF IInv, Core, TypeOK
<1>4. CASE Drop(h, e)
  <2>1. UNCHANGED <<own, born, freed, deleted, kept, pool, undefined>>
    BY <1>4 DEF Drop
  <2>2. \A g \in Holders, d \in Events : list'[g][d] = IF g = h /\ d = e THEN list[g][d] - 1 ELSE list[g][d]
    BY <1>3, <1>4 DEF Drop, Count
  <2>3. Entries(h, e) > 0 /\ EntryLess(h, e)
    BY <1>1, <1>2, <2>1, <2>2 DEF EntryLess, Entries
  <2>4. \A d \in Events \ {e}, g \in Holders : Entries(g, d)' = Entries(g, d)
    BY <2>1, <2>2 DEF Entries
  <2> QED BY <1>4, <2>1, <2>3, <2>4, UnlistCounts DEF Drop, DecRef
<1>5. CASE Wait(h, e)
  <2>1. UNCHANGED <<own, ref, born, freed, deleted, pool, arg, pc>>
    BY <1>5 DEF Wait
  <2>2. \A g \in Holders, d \in Events :
          /\ list'[g][d] = IF g = h /\ d = e THEN list[g][d] - 1 ELSE list[g][d]
          /\ kept'[g][d] = IF g = h /\ d = e THEN kept[g][d] + 1 ELSE kept[g][d]
    BY <1>3, <1>5 DEF Wait, Count
  <2>3. \A g \in Holders, d \in Events : Entries(g, d)' = Entries(g, d)
    BY <1>2, <2>1, <2>2 DEF Entries
  <2> QED BY <2>1, <2>3, QuietCounts DEF IInv, Core, Control
<1>6. CASE Pass(h, e)
  BY <1>6, QuietCounts DEF Pass, Entries, IInv, Core, Control, TypeOK
<1> QED BY <1>1, <1>4, <1>5, <1>6

LEMMA ExpireCounts ==
  ASSUME IInv, Core, TypeOK', CInv, ~ undefined, NEW h \in Holders, Expire(h)
  PROVE  CInv'
<1> USE DEF Threads, Goto, object, event, lists, locks, control
<1>1. PICK e \in Events : e = cur[h] /\ list[h][e] > 0
  BY DEF Expire, IInv, Core, Control, TypeOK
<1>2. \A g \in Holders, d \in Events : list[g][d] \in Nat /\ kept[g][d] \in Nat /\ pool[g][d] \in Nat
  BY Numbers DEF IInv, Core
<1>3. list \in [Holders -> Count] /\ kept \in [Holders -> Count]
  BY DEF IInv, Core, TypeOK
<1>4. UNCHANGED <<own, born, freed, pool, undefined>> /\ list' = [list EXCEPT ![h][e] = @ - 1]
  BY <1>1 DEF Expire
<1>5. \A g \in Holders, d \in Events : list'[g][d] = IF g = h /\ d = e THEN list[g][d] - 1 ELSE list[g][d]
  BY <1>1, <1>3, <1>4 DEF Count
<1>6. CASE repeats[e] = 1 \/ e \in deleted
  <2>1. deleted' = deleted \cup {e} /\ DecRef(h, e, "walking") /\ UNCHANGED kept
    BY <1>1, <1>6 DEF Expire
  <2>2. Entries(h, e) > 0 /\ EntryLess(h, e)
    <3>1. \A g \in Holders : kept'[g][e] = kept[g][e] /\ pool'[g][e] = pool[g][e]
      BY <1>4, <2>1
    <3>2. \A g \in Holders : list'[g][e] = IF g = h THEN list[g][e] - 1 ELSE list[g][e]
      BY <1>1, <1>5
    <3>3. \A g \in Holders : list[g][e] \in Nat /\ kept[g][e] \in Nat /\ pool[g][e] \in Nat
      BY <1>1, <1>2
    <3> QED BY <1>1, <3>1, <3>2, <3>3 DEF EntryLess, Entries
  <2>3. \A d \in Events \ {e}, g \in Holders : Entries(g, d)' = Entries(g, d)
    BY <1>4, <1>5, <2>1 DEF Entries
  <2>4. \A d \in Events \ {e} : d \in deleted' <=> d \in deleted
    BY <2>1
  <2> QED BY <1>1, <1>4, <2>1, <2>2, <2>3, <2>4, UnlistCounts DEF DecRef
<1>7. CASE ~ (repeats[e] = 1 \/ e \in deleted)
  <2>1. /\ kept' = [kept EXCEPT ![h][e] = @ + 1]
        /\ pc' = [pc EXCEPT ![h] = "walking"] /\ UNCHANGED <<ref, deleted, arg, ret>>
    BY <1>1, <1>7 DEF Expire
  <2>2. \A g \in Holders, d \in Events : kept'[g][d] = IF g = h /\ d = e THEN kept[g][d] + 1 ELSE kept[g][d]
    BY <1>1, <1>3, <2>1 DEF Count
  <2>3. \A g \in Holders, d \in Events : Entries(g, d)' = Entries(g, d)
    BY <1>2, <1>4, <1>5, <2>2 DEF Entries
  <2> QED BY <1>4, <2>1, <2>3, QuietCounts DEF IInv, Core, Control, TypeOK
<1> QED BY <1>6, <1>7

LEMMA EndUpdateCounts ==
  ASSUME IInv, Core, TypeOK', CInv, ~ undefined, NEW h \in Holders, EndUpdate(h)
  PROVE  CInv'
<1> USE DEF Threads, Goto, object, event, lists, locks, control
<1>1. \A g \in Holders, d \in Events : list[g][d] \in Nat /\ kept[g][d] \in Nat /\ pool[g][d] \in Nat
  BY Numbers DEF IInv, Core
<1>2. list \in [Holders -> Count] /\ kept \in [Holders -> Count]
  BY DEF IInv, Core, TypeOK
<1>3. UNCHANGED <<own, ref, born, freed, deleted, pool, arg>> /\ pc' = [pc EXCEPT ![h] = "idle"]
  BY DEF EndUpdate
<1>4. \A d \in Events : list[h][d] = 0 /\ list'[h][d] = kept[h][d] /\ kept'[h][d] = 0
  BY <1>2 DEF EndUpdate, NoEntries
<1>5. \A g \in Holders \ {h}, d \in Events : list'[g][d] = list[g][d] /\ kept'[g][d] = kept[g][d]
  BY <1>2 DEF EndUpdate
<1>6. \A g \in Holders, d \in Events : Entries(g, d)' = Entries(g, d)
  BY <1>1, <1>3, <1>4, <1>5 DEF Entries
<1> QED BY <1>3, <1>6, QuietCounts DEF IInv, Core, Control, TypeOK

(* The event joins m_events: its adder has it for itself.                  *)
LEMMA JoinCounts ==
  ASSUME IInv, Core, TypeOK', CInv, ~ undefined, NEW t \in Threads, NEW e \in Events, Join(t, e), Bare(e),
         UNCHANGED <<freed, deleted, lists, undefined>>
  PROVE  /\ Account' /\ FreedAreDropped'
         /\ \A d \in Events \ {e} : SameCount(d)
<1> USE DEF CInv, IInv, Core, Join, Goto, lists
<1>1. \A d \in Events \ {e} : SameCount(d)
  BY DEF SameCount, TypeOK, Entries
<1>2. \A h \in Holders : Entries(h, e)' = Entries(h, e)
  BY DEF Entries
<1>3. e \in own' \ own /\ ref'[e] = ref[e] + 1
  BY DEF Bare, TypeOK
<1>4. Account'
  BY <1>1, <1>2, <1>3, AccountKept
<1>5. FreedAreDropped'
  BY <1>1 DEF FreedAreDropped, Bare, SameCount, TypeOK
<1> QED BY <1>1, <1>4, <1>5

LEMMA AddEventCounts ==
  ASSUME IInv, Core, TypeOK', CInv, ~ undefined, NEW t \in Threads, NEW e \in Events, AddEvent(t, e)
  PROVE  CInv'
<1> USE DEF lists
<1>1. /\ pc[t] \in {"idle", "running"} /\ e \notin born /\ born' = born \cup {e}
      /\ arg' = [arg EXCEPT ![t] = e] /\ UNCHANGED <<freed, deleted, lists, undefined>>
  BY DEF AddEvent, Free
<1>2. Bare(e) /\ \A u \in Threads : arg[u] # e
  BY <1>1 DEF CInv, Fresh
<1>3. \A d \in Events \ {e} : SameCount(d) => (Bare(d) => Bare(d)')
  BY <1>1 DEF Bare, SameCount
<1>4. CASE Join(t, e)
  <2>1. Account' /\ FreedAreDropped' /\ \A d \in Events \ {e} : SameCount(d)
    BY <1>1, <1>2, <1>4, JoinCounts
  <2>2. pc' = [pc EXCEPT ![t] = "added"]
    BY <1>4 DEF Join, Goto
  <2>3. Fresh'
    <3>1. \A d \in Events \ born' : Bare(d)' /\ \A u \in Threads : arg'[u] # d
      BY <1>1, <1>2, <1>3, <2>1 DEF CInv, Fresh, IInv, Core, TypeOK
    <3>2. \A u \in Threads : pc'[u] = "adding" =>
            /\ u # t /\ pc[u] = "adding" /\ arg'[u] = arg[u] /\ arg[u] \in Events \ {e}
      BY <1>1, <1>2, <2>2 DEF IInv, Core, Control, TypeOK
    <3>3. \A u \in Threads : pc'[u] = "adding" =>
            Bare(arg[u])' /\ \A v \in Threads \ {u} : arg'[v] # arg[u]
      BY <1>1, <1>2, <1>3, <2>1, <3>2 DEF CInv, Fresh, IInv, Core, TypeOK
    <3> QED BY <3>1, <3>2, <3>3 DEF Fresh, Bare
  <2> QED BY <2>1, <2>3 DEF CInv
<1>5. CASE Goto(t, "adding") /\ UNCHANGED <<holder, stamp, own, ref>>
  <2>1. \A d \in Events : SameCount(d)
    BY <1>1, <1>5 DEF SameCount, Entries
  <2>2. Account' /\ FreedAreDropped'
    BY <1>1, <1>5, <2>1, AccountOf DEF CInv, Account, FreedAreDropped
  <2>3. \A d \in Events : Bare(d) => Bare(d)'
    BY <1>1, <2>1 DEF Bare, SameCount
  <2>4. Fresh'
    <3>1. \A d \in Events \ born' : Bare(d)' /\ \A u \in Threads : arg'[u] # d
      BY <1>1, <1>2, <2>3 DEF CInv, Fresh, IInv, Core, TypeOK
    <3>2. ASSUME NEW u \in Threads, pc'[u] = "adding"
          PROVE  /\ ref'[arg'[u]] = 0 /\ arg'[u] \notin own' \cup freed' \cup deleted'
                 /\ \A h \in Holders : list'[h][arg'[u]] + kept'[h][arg'[u]] + pool'[h][arg'[u]] = 0
                 /\ \A v \in Threads \ {u} : arg'[v] # arg'[u]
      <4>1. CASE u = t
        <5>1. arg'[t] = e /\ \A v \in Threads \ {t} : arg'[v] # e
          BY <1>1, <1>2 DEF IInv, Core, TypeOK
        <5>2. ref'[e] = 0 /\ e \notin own' \cup freed' \cup deleted'
          BY <1>1, <1>2, <1>5 DEF Bare
        <5>3. \A h \in Holders : Entries(h, e)' = 0
          BY <1>2, <2>1 DEF Bare, SameCount
        <5> QED BY <4>1, <5>1, <5>2, <5>3 DEF Bare, Entries
      <4>2. CASE u # t
        <5>1. pc[u] = "adding" /\ arg'[u] = arg[u] /\ arg[u] \in Events \ {e}
          BY <1>1, <1>2, <1>5, <3>2, <4>2 DEF IInv, Core, Control, TypeOK, Goto
        <5>2. Bare(arg[u]) /\ \A v \in Threads \ {u} : arg[v] # arg[u]
          BY <5>1 DEF CInv, Fresh
        <5>3. \A v \in Threads \ {u} : arg'[v] # arg[u]
          BY <1>1, <5>1, <5>2 DEF IInv, Core, TypeOK
        <5>4. ref'[arg[u]] = 0 /\ arg[u] \notin own' \cup freed' \cup deleted'
          BY <1>1, <1>5, <5>1, <5>2 DEF Bare
        <5>5. \A h \in Holders : Entries(h, arg[u])' = 0
          BY <1>1, <1>5, <5>1, <5>2 DEF Bare, Entries
        <5> QED BY <5>1, <5>3, <5>4, <5>5 DEF Bare, Entries
      <4> QED BY <4>1, <4>2
    <3> QED BY <3>1, <3>2 DEF Fresh, Bare, Entries
  <2> QED BY <2>2, <2>4 DEF CInv
<1> QED BY <1>4, <1>5 DEF AddEvent

LEMMA AcquiredCounts ==
  ASSUME IInv, Core, TypeOK', CInv, ~ undefined, NEW t \in Threads, Acquired(t)
  PROVE  CInv'
<1>1. PICK e \in Events :
      /\ pc[t] = "adding" /\ Join(t, e) /\ e = arg[t]
      /\ UNCHANGED <<born, freed, deleted, lists, undefined, arg>>
  BY DEF Acquired, IInv, Core, Control
<1>2. Bare(e) /\ e \in born /\ \A u \in Threads \ {t} : arg[u] # e
  BY <1>1 DEF CInv, Fresh
<1>3. Account' /\ FreedAreDropped' /\ \A d \in Events \ {e} : SameCount(d)
  BY <1>1, <1>2, JoinCounts
<1>4. \A u \in Threads : pc'[u] = "adding" =>
        u # t /\ pc[u] = "adding" /\ arg'[u] = arg[u] /\ arg[u] \in Events
  BY <1>1 DEF Join, Goto, IInv, Core, Control, TypeOK
<1>5. Fresh'
  BY <1>1, <1>2, <1>3, <1>4, FreshKept DEF CInv, IInv, Core
<1> QED BY <1>3, <1>5 DEF CInv

LEMMA PushEventCounts ==
  ASSUME IInv, Core, TypeOK', CInv, ~ undefined, NEW t \in Threads, PushEvent(t)
  PROVE  CInv'
<1>1. PICK e \in Events, h \in Holders :
      /\ pc[t] = "pushing" /\ e = arg[t] /\ h = toward[t]
      /\ undefined' = (e \in freed) /\ ref' = [ref EXCEPT ![e] = @ + 1]
      /\ \/ list' = [list EXCEPT ![h][e] = @ + 1] /\ UNCHANGED pool
         \/ pool' = [pool EXCEPT ![h][e] = @ + 1] /\ UNCHANGED list
      /\ arg' = [arg EXCEPT ![t] = None]
      /\ UNCHANGED <<own, born, freed, deleted, kept>>
  BY DEF PushEvent, IInv, Core, Control, object
<1>2. \A u \in Threads : /\ pc'[u] = "adding" => u # t /\ pc[u] = "adding" /\ arg'[u] = arg[u] /\ arg[u] \in Events
                         /\ arg'[u] \in {arg[u], None, e}
  BY <1>1 DEF PushEvent, Back, Goto, IInv, Core, Control, TypeOK
<1>3. e \in born /\ \A u \in Threads : pc'[u] = "adding" => arg[u] # e
  BY <1>1, <1>2 DEF CInv, Fresh
<1>4. \A g \in Holders, d \in Events : list[g][d] \in Nat /\ kept[g][d] \in Nat /\ pool[g][d] \in Nat
  BY Numbers DEF IInv, Core
<1>5. list \in [Holders -> Count] /\ pool \in [Holders -> Count]
  BY DEF IInv, Core, TypeOK
<1>6. EntryMore(h, e) /\ \A d \in Events \ {e}, g \in Holders : Entries(g, d)' = Entries(g, d)
  <2>1. CASE list' = [list EXCEPT ![h][e] = @ + 1] /\ UNCHANGED pool
    <3>1. \A g \in Holders, d \in Events : list'[g][d] = IF g = h /\ d = e THEN list[g][d] + 1 ELSE list[g][d]
      BY <1>1, <1>5, <2>1 DEF Count
    <3>2. \A g \in Holders, d \in Events : kept'[g][d] = kept[g][d] /\ pool'[g][d] = pool[g][d]
      BY <1>1, <2>1
    <3>3. \A g \in Holders : list'[g][e] = IF g = h THEN list[g][e] + 1 ELSE list[g][e]
      BY <1>1, <3>1
    <3>4. \A g \in Holders : list[g][e] \in Nat /\ kept[g][e] \in Nat /\ pool[g][e] \in Nat
      BY <1>1, <1>4
    <3>5. EntryMore(h, e)
      BY <1>1, <3>2, <3>3, <3>4 DEF EntryMore, Entries
    <3> QED BY <3>1, <3>2, <3>5 DEF Entries
  <2>2. CASE pool' = [pool EXCEPT ![h][e] = @ + 1] /\ UNCHANGED list
    <3>1. \A g \in Holders, d \in Events : pool'[g][d] = IF g = h /\ d = e THEN pool[g][d] + 1 ELSE pool[g][d]
      BY <1>1, <1>5, <2>2 DEF Count
    <3>2. \A g \in Holders, d \in Events : kept'[g][d] = kept[g][d] /\ list'[g][d] = list[g][d]
      BY <1>1, <2>2
    <3>3. \A g \in Holders : pool'[g][e] = IF g = h THEN pool[g][e] + 1 ELSE pool[g][e]
      BY <1>1, <3>1
    <3>4. \A g \in Holders : list[g][e] \in Nat /\ kept[g][e] \in Nat /\ pool[g][e] \in Nat
      BY <1>1, <1>4
    <3>5. EntryMore(h, e)
      BY <1>1, <3>2, <3>3, <3>4 DEF EntryMore, Entries
    <3> QED BY <3>1, <3>2, <3>5 DEF Entries
  <2> QED BY <1>1, <2>1, <2>2
<1>7. (\A d \in Events \ {e} : SameCount(d)) /\ ref'[e] = ref[e] + 1
  BY <1>1, <1>6 DEF SameCount, IInv, Core, TypeOK
<1>8. Account'
  BY <1>1, <1>6, <1>7, AccountKept DEF CInv, IInv, Core
<1>9. Fresh'
  <2>1. \A d \in Events \ {e} : (d \in freed' <=> d \in freed) /\ (d \in deleted' <=> d \in deleted)
    BY <1>1
  <2> QED BY <1>1, <1>2, <1>3, <1>7, <2>1, FreshKept DEF CInv, IInv, Core
<1>10. FreedAreDropped'
  BY <1>1, <1>7 DEF CInv, FreedAreDropped, SameCount, IInv, Core, TypeOK
<1> QED BY <1>8, <1>9, <1>10 DEF CInv

(* The object's events get an entry each with the new holder.              *)
LEMMA TransferCounts ==
  ASSUME IInv, Core, TypeOK', CInv, ~ undefined, NEW h \in Holders,
         \/ Transfer(h, list) /\ UNCHANGED pool
         \/ Transfer(h, pool) /\ UNCHANGED list,
         UNCHANGED <<own, born, freed, deleted, kept, arg, undefined>>,
         \A u \in Threads : pc'[u] = "adding" => pc[u] = "adding" /\ arg[u] \in Events
  PROVE  CInv'
<1> USE DEF CInv, IInv, Core
<1>1. \A g \in Holders, d \in Events : list[g][d] \in Nat /\ kept[g][d] \in Nat /\ pool[g][d] \in Nat
  BY Numbers
<1>2. list \in [Holders -> Count] /\ pool \in [Holders -> Count] /\ Moved(h) \subseteq own /\ own \subseteq Events
  BY DEF TypeOK, Moved
<1>3. \A e \in Events : ref'[e] = IF e \in Moved(h) THEN ref[e] + 1 ELSE ref[e]
  BY DEF Transfer
<1>4. \A e \in Events \ Moved(h), g \in Holders : Entries(g, e)' = Entries(g, e)
  <2> SUFFICES ASSUME NEW e \in Events \ Moved(h), NEW g \in Holders
               PROVE  list'[g][e] = list[g][e] /\ pool'[g][e] = pool[g][e]
    BY DEF Entries
  <2>1. CASE Transfer(h, list) /\ UNCHANGED pool
    BY <1>2, <2>1 DEF Transfer
  <2>2. CASE Transfer(h, pool) /\ UNCHANGED list
    BY <1>2, <2>2 DEF Transfer
  <2> QED BY <2>1, <2>2
<1>5. ASSUME NEW e \in Moved(h) PROVE EntryMore(h, e)
  <2>1. CASE Transfer(h, list) /\ UNCHANGED pool
    <3>1. \A g \in Holders : list'[g][e] = IF g = h THEN list[g][e] + 1 ELSE list[g][e]
      BY <1>2, <1>5, <2>1 DEF Transfer
    <3>2. \A g \in Holders : pool'[g][e] = pool[g][e] /\ kept'[g][e] = kept[g][e]
      BY <2>1
    <3>3. \A g \in Holders : list[g][e] \in Nat /\ kept[g][e] \in Nat /\ pool[g][e] \in Nat
      BY <1>1, <1>2, <1>5
    <3> QED BY <3>1, <3>2, <3>3 DEF Entries, EntryMore
  <2>2. CASE Transfer(h, pool) /\ UNCHANGED list
    <3>1. \A g \in Holders : pool'[g][e] = IF g = h THEN pool[g][e] + 1 ELSE pool[g][e]
      BY <1>2, <1>5, <2>2 DEF Transfer
    <3>2. \A g \in Holders : list'[g][e] = list[g][e] /\ kept'[g][e] = kept[g][e]
      BY <2>2
    <3>3. \A g \in Holders : list[g][e] \in Nat /\ kept[g][e] \in Nat /\ pool[g][e] \in Nat
      BY <1>1, <1>2, <1>5
    <3> QED BY <3>1, <3>2, <3>3 DEF Entries, EntryMore
  <2> QED BY <2>1, <2>2
<1>6. ASSUME NEW e \in Events
      PROVE  /\ IsFiniteSet(Listings(e))'
             /\ ref'[e] = Cardinality(Listings(e))' + (IF e \in own' THEN 1 ELSE 0)
  <2>1. CASE e \in Moved(h)
    <3>1. IsFiniteSet(Listings(e))' /\ Cardinality(Listings(e))' = Cardinality(Listings(e)) + 1
      BY <1>5, <2>1, ListingsMore DEF Account
    <3>2. Cardinality(Listings(e)) \in Nat
      BY FS_CardinalityType DEF Account
    <3> QED BY <1>2, <1>3, <2>1, <3>1, <3>2 DEF Account
  <2>2. CASE e \notin Moved(h)
    BY <1>3, <1>4, <2>2, AccountOf DEF SameCount
  <2> QED BY <2>1, <2>2
<1>7. Account'
  BY <1>6 DEF Account
<1>8. \A e \in Events : Bare(e) => Bare(e)'
  BY <1>2, <1>3, <1>4 DEF Bare
<1>9. Fresh'
  BY <1>8 DEF Fresh, Bare
<1>10. FreedAreDropped'
  <2>1. \A e \in freed : e \notin Moved(h) /\ e \in Events
    BY <1>2, CountIsPositive DEF FreedAreDropped, TypeOK
  <2> QED BY <1>3, <2>1 DEF FreedAreDropped
<1> QED BY <1>7, <1>9, <1>10

LEMMA RemoveOneCounts ==
  ASSUME IInv, Core, TypeOK', CInv, ~ undefined, NEW t \in Threads, RemoveOne(t)
  PROVE  CInv'
<1> USE DEF CInv, IInv, Core, lists
<1>1. PICK e \in own : own' = own \ {e} /\ deleted' = deleted \cup {e} /\ DecRef(t, e, "removing")
  BY DEF RemoveOne
<1>2. e \in Events /\ UNCHANGED <<born, freed, lists, undefined>>
  BY DEF RemoveOne, TypeOK
<1>3. ref[e] > 0 /\ ~ Bare(e) /\ ref'[e] = ref[e] - 1
  BY <1>1, <1>2, CountIsPositive DEF Bare, DecRef, TypeOK
<1>4. \A d \in Events \ {e} : SameCount(d)
  BY <1>1, <1>2 DEF SameCount, Entries, DecRef, TypeOK
<1>5. \A h \in Holders : Entries(h, e)' = Entries(h, e)
  BY <1>2 DEF Entries
<1>6. Account'
  BY <1>1, <1>2, <1>3, <1>4, <1>5, AccountKept
<1>7. e \in born /\ \A u \in Threads : pc[u] = "adding" => arg[u] # e
  BY <1>2, <1>3 DEF Fresh
<1>8. \A u \in Threads : /\ pc'[u] = "adding" => pc[u] = "adding" /\ arg'[u] = arg[u] /\ arg[u] \in Events
                         /\ arg'[u] \in {arg[u], None, e}
  BY <1>1 DEF DecRef, Goto, TypeOK, Control
<1>9. Fresh'
  BY <1>1, <1>2, <1>4, <1>7, <1>8, FreshKept
<1>10. FreedAreDropped'
  BY <1>2, <1>3, <1>4 DEF FreedAreDropped, SameCount, TypeOK
<1> QED BY <1>6, <1>9, <1>10

LEMMA OwnerCounts ==
  ASSUME IInv, Core, TypeOK', CInv, ~ undefined, NEW t \in Threads,
         RemoveEvents(t) \/ RemoveFromWorld(t) \/ Destroy(t) \/ PushToWorld(t)
         \/ Relocate(t) \/ SameHolder(t) \/ Settle(t) \/ Remove(t) \/ ReadHolder(t)
  PROVE  CInv'
<1>1. UNCHANGED <<own, ref, freed, deleted, born, arg, list, kept, pool>>
  BY DEF RemoveEvents, RemoveFromWorld, Destroy, PushToWorld, Relocate, SameHolder, Settle, Remove, ReadHolder,
         object, event, lists
<1>2. \A u \in Threads : pc'[u] = "adding" => pc[u] = "adding" /\ arg[u] \in Events
  BY DEF RemoveEvents, RemoveFromWorld, Destroy, PushToWorld, Relocate, SameHolder, Settle, Remove, ReadHolder,
         Relocated, Lock, Goto, Back, IInv, Core, TypeOK, Control
<1> QED BY <1>1, <1>2, QuietCounts DEF IInv, Core, Entries

LEMMA RemovedCounts ==
  ASSUME IInv, Core, TypeOK', CInv, ~ undefined, NEW t \in Threads, Removed(t)
  PROVE  CInv'
<1>1. UNCHANGED <<own, ref, freed, deleted, born, arg, list, kept, pool>>
  BY DEF Removed, event, lists
<1>2. \A u \in Threads : pc'[u] = "adding" => pc[u] = "adding" /\ arg[u] \in Events
  BY DEF Removed, Goto, Back, IInv, Core, TypeOK, Control
<1> QED BY <1>1, <1>2, QuietCounts DEF IInv, Core, Entries

LEMMA AddToWorldCounts ==
  ASSUME IInv, Core, TypeOK', CInv, ~ undefined, NEW m \in Maps, AddToWorld(m)
  PROVE  CInv'
<1>1. UNCHANGED <<own, ref, freed, deleted, born, arg, list, kept, pool>>
  BY DEF AddToWorld, event, lists
<1>2. \A u \in Threads : pc'[u] = "adding" => pc[u] = "adding" /\ arg[u] \in Events
  BY DEF AddToWorld, Goto, Back, IInv, Core, TypeOK, Control
<1> QED BY <1>1, <1>2, QuietCounts DEF IInv, Core, Entries

LEMMA MoveCounts ==
  ASSUME IInv, Core, TypeOK', CInv, ~ undefined, NEW t \in Threads, MoveToList(t) \/ MoveToPool(t)
  PROVE  CInv'
<1>1. \A u \in Threads : pc'[u] = "adding" => pc[u] = "adding" /\ arg[u] \in Events
  BY DEF MoveToList, MoveToPool, Goto, IInv, Core, TypeOK, Control
<1>2. where \in Holders
  BY DEF IInv, Core, TypeOK
<1>3. \/ Transfer(where, list) /\ UNCHANGED pool
      \/ Transfer(where, pool) /\ UNCHANGED list
  BY DEF MoveToList, MoveToPool
<1>4. UNCHANGED <<own, born, freed, deleted, kept, arg, undefined>>
  BY DEF MoveToList, MoveToPool, object
<1> QED BY <1>1, <1>2, <1>3, <1>4, TransferCounts

LEMMA BeginCounts ==
  ASSUME IInv, Core, TypeOK', CInv, ~ undefined, NEW h \in Holders, BeginUpdate(h) \/ Merged(h) \/ Execute(h)
  PROVE  CInv'
<1>1. UNCHANGED <<own, ref, freed, deleted, born, arg, list, kept, pool>>
  BY DEF BeginUpdate, Merged, Execute, object, event, lists
<1>2. \A u \in Threads : pc'[u] = "adding" => pc[u] = "adding" /\ arg[u] \in Events
  BY DEF BeginUpdate, Merged, Execute, Goto, IInv, Core, TypeOK, Control, Threads
<1> QED BY <1>1, <1>2, QuietCounts DEF IInv, Core, Entries

LEMMA ContinueCounts ==
  ASSUME IInv, Core, TypeOK', CInv, ~ undefined, NEW t \in Threads, Continue(t)
  PROVE  CInv'
<1>1. CASE PushToWorld(t) \/ Test(t)
  BY <1>1, OwnerCounts, TestCounts
<1>2. CASE Update(t)
  BY <1>2, BeginCounts, MergeCounts, WalkCounts, ExpireCounts, EndUpdateCounts DEF Threads, Update
<1>3. CASE Adding(t)
  BY <1>3, AcquiredCounts, OwnerCounts, PushEventCounts DEF Adding
<1>4. CASE Moving(t)
  BY <1>4, OwnerCounts, MoveCounts DEF Moving
<1>5. CASE Removing(t)
  BY <1>5, OwnerCounts, RemoveOneCounts, RemovedCounts DEF Removing
<1> QED BY <1>1, <1>2, <1>3, <1>4, <1>5 DEF Continue

LEMMA InitCounts == Init => CInv
<1> SUFFICES ASSUME Init
             PROVE  CInv
  OBVIOUS
<1>1. \A h \in Holders, e \in Events : Entries(h, e) = 0
  BY World DEF Init, Entries, NoEntries
<1>2. ASSUME NEW e \in Events PROVE Listings(e) = {}
  BY <1>1, ListingsMember
<1>3. Account
  <2>1. own = {} /\ \A e \in Events : ref[e] = 0
    BY DEF Init, NoEntries
  <2> QED BY <1>2, <2>1, FS_EmptySet DEF Account
<1> QED BY <1>1, <1>3, EventAssumption DEF CInv, Fresh, Bare, FreedAreDropped, Init, NoEntries, Threads

LEMMA StepCounts == IInv /\ IInv' /\ CInv /\ [Next]_vars => CInv'
<1> SUFFICES ASSUME IInv, IInv', CInv, [Next]_vars
             PROVE  CInv'
  OBVIOUS
<1>1. CASE UNCHANGED vars
  BY <1>1 DEF vars, object, event, lists, locks, control, CInv, Account, Listings, Entries, Fresh, Bare,
              FreedAreDropped
<1>2. ASSUME ~ undefined, NEW t \in Threads,
             Continue(t) \/ RemoveEvents(t) \/ RemoveFromWorld(t) \/ Destroy(t)
      PROVE  CInv'
  BY <1>2, ContinueCounts, OwnerCounts DEF IInv, Core
<1>3. ASSUME ~ undefined, NEW t \in Threads, NEW e \in Events, AddEvent(t, e)
      PROVE  CInv'
  BY <1>3, AddEventCounts DEF IInv, Core
<1>4. ASSUME ~ undefined, NEW m \in Maps, AddToWorld(m)
      PROVE  CInv'
  BY <1>4, AddToWorldCounts DEF IInv, Core
<1> QED BY <1>1, <1>2, <1>3, <1>4 DEF Next, Crashed

(* An event's count is its entries' and its object's references, and no    *)
(* event that its object still has is freed, however relocations, removals, *)
(* foreign adders and updates interleave (IncRef, DecRef).                 *)
THEOREM CountsAreRight == Spec => []Counted
<1>1. Init => IInv /\ CInv
  BY InitIInv, InitCounts
<1>2. IInv /\ CInv /\ [Next]_vars => IInv' /\ CInv'
  BY StepKeeps, StepCounts
<1>3. IInv /\ CInv => Counted
  BY DEF CInv, Account, FreedAreDropped, Counted
<1> QED BY <1>1, <1>2, <1>3, PTL DEF Spec

-------------------------------------------------------------------------------
(* Waiting for locks.                                                      *)

(* Thread t waits for u: for the object's lock, for its own holder's lock, *)
(* or, as it could not have a holder's lock, for the insert pool.          *)
AwaitsPool(t, h, u) == h = u /\ ~ MayLock(t, lock[h]) /\ ~ PoolIsFree(h)

Awaits(t, u) ==
  \/ pc[t] \in {"adding", "relocate", "remove"} /\ ~ MayLock(t, objLock) /\ u = objLock
  \/ pc[t] = "idle" /\ lock[t] # None /\ u = lock[t]
  \/ pc[t] = "pushing" /\ AwaitsPool(t, toward[t], u)
  \/ pc[t] = "relocating" /\ holder # where /\ AwaitsPool(t, where, u)

(* No two threads wait for each other, nor any three in a ring: who has a  *)
(* lock that another waits for is on its way to give it back, and waits at *)
(* most for a thread that waits for nobody.                                *)
NoDeadlock ==
  \A t, u \in Threads : Awaits(t, u) =>
    /\ HasObject(u) \/ ~ PoolIsFree(u)
    /\ \A v, w \in Threads : ~ (Awaits(u, v) /\ Awaits(v, w))

(* However threads add, move, remove and update at once, they never wait   *)
(* for each other in a ring: the one lock that is awaited with another in  *)
(* hand is that of an insert pool, whose owner waits for nobody (TryLock   *)
(* in AddObject and AddEvent).                                             *)
THEOREM NeverInARing == Spec => []NoDeadlock
<1>2. TypeOK /\ Control /\ Possession => NoDeadlock
  <2> SUFFICES ASSUME TypeOK, Control, Possession, NEW t \in Threads, NEW u \in Threads, Awaits(t, u)
               PROVE  /\ HasObject(u) \/ ~ PoolIsFree(u)
                      /\ \A v, w \in Threads : ~ (Awaits(u, v) /\ Awaits(v, w))
    BY DEF NoDeadlock
  <2>1. \A v \in Threads : pc[v] = "idle" => lock[v] = None
    BY World DEF Control, Possession, Visiting, Threads
  <2>2. \A v, w \in Threads : ~ PoolIsFree(v) => ~ Awaits(v, w)
    BY World DEF PoolIsFree, Possession, Awaits
  <2>3. \A v, w \in Threads : HasObject(v) /\ Awaits(v, w) => ~ PoolIsFree(w)
    BY World DEF HasObject, Possession, Awaits, AwaitsPool
  <2>4. HasObject(u) \/ ~ PoolIsFree(u)
    BY <2>1, World DEF Awaits, AwaitsPool, Possession, MayLock, Threads
  <2> QED BY <2>2, <2>3, <2>4
<1>3. IInv => NoDeadlock
  BY <1>2 DEF IInv, Core
<1> QED BY <1>3, Invariance, PTL

===============================================================================
