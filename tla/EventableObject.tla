--------------------------- MODULE EventableObject ---------------------------
(***************************************************************************)
(* Timed events: one EventableObject, the holders of the maps and of the   *)
(* world that run its events, and the thread of each holder.               *)
(*                                                                         *)
(* An event (TimedEvent) is counted by reference: once for its object's    *)
(* m_events and once for every entry in a holder's list or insert pool.    *)
(* event_AddEvent lists it with the object's holder, event_Relocate stamps *)
(* the object's events with the new holder and lists them there; the entry *)
(* in the old list stays until that holder's own Update finds the foreign  *)
(* stamp.  Update walks the list under the holder's lock; AddEvent and     *)
(* AddObject only try that lock and use the insert pool when it is taken.  *)
(*                                                                         *)
(* A list is a bag: nothing depends on the order of its entries.  The step *)
(* after which the program's behaviour is undefined (freed memory is used) *)
(* sets "undefined" and is the last one.                                   *)
(***************************************************************************)
EXTENDS Integers, FiniteSets

CONSTANTS
  Maps,       \* instances with a thread and a holder of their own
  Events,     \* TimedEvents that may be constructed, each once
  Flagged,    \* those with EVENT_FLAG_DO_NOT_EXECUTE_IN_WORLD_CONTEXT
  OneShot,    \* those added with repeats = 1; the others repeat for ever
  MsTime,     \* updates from one run of an event to the next, by event
  MaxMoves,   \* bound: times the object is put in the queue of a map
  None        \* no thread, no holder, no map

Holders == Maps \cup {"world"}
Threads == Holders      \* each holder is updated by a thread of its own

ASSUME MapAssumption == "world" \notin Maps /\ None \notin Holders
ASSUME EventAssumption == None \notin Events /\ Flagged \subseteq Events /\ OneShot \subseteq Events
ASSUME TimeAssumption == MsTime \in [Events -> Nat \ {0}] /\ MaxMoves \in Nat

VARIABLES
  where,      \* the map the object is in, "world" for none
  queued,     \* the map whose thread will push the object, or None
  moves,      \* times the object was queued
  alive,      \* the object's destructor has not returned
  holder,     \* m_holder, and m_event_Instanceid with it
  own,        \* EventableObject::m_events
  born,       \* events constructed so far
  ref,        \* TimedEvent::ref
  freed,      \* events deleted by DecRef
  stamp,      \* TimedEvent::instanceId
  deleted,    \* events whose deleted flag is set
  left,       \* TimedEvent::currTime, in updates
  repeats,    \* TimedEvent::repeats
  list,       \* entries of a holder's list that its Update has not visited
  kept,       \* entries its Update has visited and kept
  pool,       \* entries in its insert pool
  lock,       \* the thread that has EventableObjectHolder::m_lock
  objLock,    \* the thread that has EventableObject::m_lock
  pc,         \* what each thread is doing
  cur,        \* the event whose callback a thread starts or is in
  arg,        \* the event a thread adds or drops
  toward,     \* the holder that event_AddEvent has read from m_holder
  ret,        \* where a thread goes on after DecRef
  op,         \* the operation of the object's owner in progress
  undefined   \* freed memory has been used

object == <<where, queued, moves, alive, holder, own>>
event == <<born, ref, freed, stamp, deleted, left, repeats>>
lists == <<list, kept, pool>>
locks == <<lock, objLock>>
control == <<pc, cur, arg, toward, ret, op, undefined>>
vars == <<object, event, lists, locks, control>>

Count == [Events -> Nat]
NoEntries == [e \in Events |-> 0]

TypeOK ==
  /\ where \in Holders /\ queued \in Maps \cup {None}
  /\ moves \in 0..MaxMoves /\ alive \in BOOLEAN
  /\ holder \in Holders \cup {None} /\ own \in SUBSET Events
  /\ born \in SUBSET Events
  /\ ref \in [Events -> Int] /\ freed \in SUBSET Events
  /\ stamp \in [Events -> Holders] /\ deleted \in SUBSET Events
  /\ left \in [Events -> Nat] /\ repeats \in [Events -> 0..1]
  /\ list \in [Holders -> Count] /\ kept \in [Holders -> Count]
  /\ pool \in [Holders -> Count]
  /\ lock \in [Holders -> Threads \cup {None}]
  /\ objLock \in Threads \cup {None}
  /\ pc \in [Threads -> {"idle", "merging", "walking", "starting", "running", "testing",
                         "adding", "added", "pushing", "relocate", "relocating",
                         "settling", "remove", "removing"}]
  /\ cur \in [Threads -> Events \cup {None}]
  /\ arg \in [Threads -> Events \cup {None}]
  /\ toward \in [Threads -> Holders \cup {None}]
  /\ ret \in [Threads -> {"merging", "walking", "removing", "none"}]
  /\ op \in [Threads -> {"none", "leave", "push", "remove", "destroy"}]
  /\ undefined \in BOOLEAN

Init ==
  /\ where \in Holders /\ queued = None /\ moves = 0 /\ alive = TRUE
  /\ holder = (IF where \in Maps THEN where ELSE None) /\ own = {} /\ born = {}
  /\ ref = NoEntries /\ freed = {} /\ deleted = {}
  /\ stamp = [e \in Events |-> "world"]
  /\ left = MsTime
  /\ repeats = [e \in Events |-> IF e \in OneShot THEN 1 ELSE 0]
  /\ list = [h \in Holders |-> NoEntries]
  /\ kept = list /\ pool = list
  /\ lock = [h \in Holders |-> None] /\ objLock = None
  /\ pc = [t \in Threads |-> "idle"]
  /\ cur = [t \in Threads |-> None] /\ arg = [t \in Threads |-> None]
  /\ toward = [t \in Threads |-> None]
  /\ ret = [t \in Threads |-> "none"] /\ op = [t \in Threads |-> "none"]
  /\ undefined = FALSE

Goto(t, place) == pc' = [pc EXCEPT ![t] = place]
MayLock(t, mutex) == mutex \in {None, t}     \* the mutexes are recursive

\* A holder's thread has m_insertPoolLock while it merges the pool.
PoolIsFree(h) == "merging" \notin {pc[h], ret[h]}

\* Back from an operation: to the callback that called it, or out of it.
Back(t) == Goto(t, IF cur[t] = None THEN "idle" ELSE "running")

-----------------------------------------------------------------------------
(* TimedEvent::DecRef: the count is decremented in one step and read again *)
(* in the next, when the event may be gone already.                        *)

DecRef(t, e, after) ==
  /\ ref' = [ref EXCEPT ![e] = @ - 1]
  /\ arg' = [arg EXCEPT ![t] = e] /\ ret' = [ret EXCEPT ![t] = after]
  /\ Goto(t, "testing")

Test(t) ==
  /\ pc[t] = "testing"
  /\ undefined' = (arg[t] \in freed)
  /\ freed' = IF ref[arg[t]] <= 0 THEN freed \cup {arg[t]} ELSE freed
  /\ Goto(t, ret[t]) /\ ret' = [ret EXCEPT ![t] = "none"]
  /\ arg' = [arg EXCEPT ![t] = None]
  /\ UNCHANGED <<object, born, ref, stamp, deleted, left, repeats, lists, locks, cur, toward, op>>

-----------------------------------------------------------------------------
(* EventableObjectHolder::Update, run by the thread of the holder.         *)

\* The thread has pushed the objects that waited.  What an adder puts into an
\* empty pool before its lock is taken could as well have come before m_lock was.
BeginUpdate(h) ==
  /\ pc[h] = "idle" /\ queued # h /\ lock[h] = None
  /\ lock' = [lock EXCEPT ![h] = h]
  /\ Goto(h, IF pool[h] = NoEntries THEN "walking" ELSE "merging")
  /\ UNCHANGED <<object, event, lists, objLock, cur, arg, toward, ret, op, undefined>>

\* The insert pool is emptied into the list; its lock is held meanwhile.
Merge(h) ==
  /\ pc[h] = "merging"
  /\ \E e \in Events :
       /\ pool[h][e] > 0
       /\ pool' = [pool EXCEPT ![h][e] = @ - 1]
       /\ IF e \in deleted \/ stamp[e] # h
            THEN DecRef(h, e, "merging") /\ UNCHANGED list
            ELSE list' = [list EXCEPT ![h][e] = @ + 1] /\ UNCHANGED <<ref, pc, arg, ret>>
  /\ UNCHANGED <<object, born, freed, stamp, deleted, left, repeats, kept, locks, cur, toward, op, undefined>>

Merged(h) ==
  /\ pc[h] = "merging" /\ pool[h] = NoEntries
  /\ Goto(h, "walking")
  /\ UNCHANGED <<object, event, lists, locks, cur, arg, toward, ret, op, undefined>>

\* Mutant: the flag is not looked at.
MisplacedWithoutFlag(h, e) == stamp[e] # h \/ e \in deleted

\* Entries that do not belong here any more, or must not run here.
Misplaced(h, e) == stamp[e] # h \/ e \in deleted \/ (h = "world" /\ e \in Flagged)

Drop(h, e) ==
  /\ Misplaced(h, e)
  /\ list' = [list EXCEPT ![h][e] = @ - 1]
  /\ DecRef(h, e, "walking")
  /\ UNCHANGED <<object, born, freed, stamp, deleted, left, repeats, kept, pool, locks, cur, toward, op, undefined>>

Wait(h, e) ==
  /\ ~ Misplaced(h, e) /\ left[e] > 1
  /\ left' = [left EXCEPT ![e] = @ - 1]
  /\ list' = [list EXCEPT ![h][e] = @ - 1] /\ kept' = [kept EXCEPT ![h][e] = @ + 1]
  /\ UNCHANGED <<object, born, ref, freed, stamp, deleted, repeats, pool, locks, control>>

\* The entry has passed the tests of the stamp, the flags and the time ...
Pass(h, e) ==
  /\ ~ Misplaced(h, e) /\ left[e] <= 1
  /\ cur' = [cur EXCEPT ![h] = e] /\ Goto(h, "starting")
  /\ UNCHANGED <<object, born, ref, freed, stamp, deleted, left, repeats, lists, locks, arg, toward, ret, op, undefined>>

Walk(h) ==
  /\ pc[h] = "walking"
  /\ \E e \in Events : list[h][e] > 0 /\ (Drop(h, e) \/ Wait(h, e) \/ Pass(h, e))

\* ... and its callback starts, with none of them made again: the object's lock
\* is not held, and other threads may have moved or removed the event.
Execute(h) ==
  /\ pc[h] = "starting"
  /\ Goto(h, "running")
  /\ UNCHANGED <<object, event, lists, locks, cur, arg, toward, ret, op, undefined>>

\* Mutant: the count of an event that repeats for ever is decremented too.
ExpireUncounted(h) ==
  /\ pc[h] = "running"
  /\ repeats' = [repeats EXCEPT ![cur[h]] = @ - 1]
  /\ left' = [left EXCEPT ![cur[h]] = MsTime[cur[h]]]
  /\ list' = [list EXCEPT ![h][cur[h]] = @ - 1] /\ kept' = [kept EXCEPT ![h][cur[h]] = @ + 1]
  /\ Goto(h, "walking") /\ cur' = [cur EXCEPT ![h] = None]
  /\ UNCHANGED <<object, born, ref, freed, stamp, deleted, pool, locks, arg, toward, ret, op, undefined>>

\* The callback has returned: expired, removed meanwhile, or to run again.
Expire(h) ==
  LET e == cur[h] IN
  /\ pc[h] = "running"
  /\ repeats' = [repeats EXCEPT ![e] = 0]
  /\ IF repeats[e] = 1 \/ e \in deleted
       THEN /\ deleted' = deleted \cup {e}
            /\ list' = [list EXCEPT ![h][e] = @ - 1]
            /\ DecRef(h, e, "walking")
            /\ UNCHANGED <<left, kept>>
       ELSE /\ left' = [left EXCEPT ![e] = MsTime[e]]
            /\ list' = [list EXCEPT ![h][e] = @ - 1] /\ kept' = [kept EXCEPT ![h][e] = @ + 1]
            /\ Goto(h, "walking") /\ UNCHANGED <<ref, deleted, arg, ret>>
  /\ cur' = [cur EXCEPT ![h] = None]
  /\ UNCHANGED <<object, born, freed, stamp, pool, locks, toward, op, undefined>>

EndUpdate(h) ==
  /\ pc[h] = "walking" /\ list[h] = NoEntries
  /\ list' = [list EXCEPT ![h] = kept[h]] /\ kept' = [kept EXCEPT ![h] = NoEntries]
  /\ lock' = [lock EXCEPT ![h] = None] /\ Goto(h, "idle")
  /\ UNCHANGED <<object, event, pool, objLock, cur, arg, toward, ret, op, undefined>>

-----------------------------------------------------------------------------
(* EventableObject::event_AddEvent, by any thread: a map's thread adds     *)
(* events to players of other maps too.                                    *)

Free(t) == pc[t] \in {"idle", "running"}      \* between packets, or in a callback

\* event_GetInstanceID: a queued object counts as in its map, from the moment
\* at which AddToWorld has written m_instanceId.
Home == IF queued = None THEN {where} ELSE {where, queued}

\* Under m_lock: the event gets its holder's stamp and joins m_events.
Join(t, e) ==
  /\ MayLock(t, objLock)
  /\ holder' \in IF holder = None THEN Home ELSE {holder}
  /\ stamp' = [stamp EXCEPT ![e] = holder']
  /\ own' = own \cup {e} /\ ref' = [ref EXCEPT ![e] = @ + 1]
  /\ Goto(t, "added")

AddEvent(t, e) ==
  /\ Free(t) /\ alive /\ e \notin born
  /\ born' = born \cup {e} /\ arg' = [arg EXCEPT ![t] = e]
  /\ \/ Join(t, e)
     \/ ~ MayLock(t, objLock) /\ Goto(t, "adding") /\ UNCHANGED <<holder, stamp, own, ref>>
  /\ UNCHANGED <<where, queued, moves, alive, freed, deleted, left, repeats, lists, locks, cur, toward, ret, op, undefined>>

\* The thread has waited for m_lock.
Acquired(t) ==
  /\ pc[t] = "adding" /\ Join(t, arg[t])
  /\ UNCHANGED <<where, queued, moves, alive, born, freed, deleted, left, repeats, lists, locks, cur, arg, toward, ret, op, undefined>>

\* m_holder is read again, without the lock.
ReadHolder(t) ==
  /\ pc[t] = "added"
  /\ toward' = [toward EXCEPT ![t] = holder] /\ Goto(t, "pushing")
  /\ UNCHANGED <<object, event, lists, locks, cur, arg, ret, op, undefined>>

\* EventableObjectHolder::AddEvent
PushEvent(t) ==
  LET e == arg[t]  h == toward[t] IN
  /\ pc[t] = "pushing"
  /\ undefined' = (e \in freed)
  /\ ref' = [ref EXCEPT ![e] = @ + 1]
  /\ IF MayLock(t, lock[h])
       THEN list' = [list EXCEPT ![h][e] = @ + 1] /\ UNCHANGED pool
       ELSE /\ PoolIsFree(h)
            /\ pool' = [pool EXCEPT ![h][e] = @ + 1] /\ UNCHANGED list
  /\ Back(t) /\ arg' = [arg EXCEPT ![t] = None] /\ toward' = [toward EXCEPT ![t] = None]
  /\ UNCHANGED <<object, born, freed, stamp, deleted, left, repeats, kept, locks, cur, ret, op>>

-----------------------------------------------------------------------------
(* EventableObject::event_Relocate, after the object has entered or left a *)
(* map.                                                                    *)

Lock(t, place) == MayLock(t, objLock) /\ objLock' = t /\ Goto(t, place)

Relocate(t) ==
  /\ pc[t] = "relocate" /\ Lock(t, "relocating")
  /\ UNCHANGED <<object, event, lists, lock, cur, arg, toward, ret, op, undefined>>

\* The events that AddObject lists with the holder h and stamps with it.
Moved(h) == {e \in own \ deleted : h = "world" => e \notin Flagged}

\* Mutants: the entry is not counted, or the old stamp is kept.
TransferUncounted(h, entries) ==
  /\ stamp' = [e \in Events |-> IF e \in Moved(h) THEN h ELSE stamp[e]]
  /\ entries' = [entries EXCEPT ![h] = [e \in Events |-> IF e \in Moved(h) THEN @[e] + 1 ELSE @[e]]]
  /\ UNCHANGED ref

TransferUnstamped(h, entries) ==
  /\ ref' = [e \in Events |-> IF e \in Moved(h) THEN ref[e] + 1 ELSE ref[e]]
  /\ entries' = [entries EXCEPT ![h] = [e \in Events |-> IF e \in Moved(h) THEN @[e] + 1 ELSE @[e]]]
  /\ UNCHANGED stamp

\* The new holder's entries, its stamp, and the references of both.
Transfer(h, entries) ==
  /\ stamp' = [e \in Events |-> IF e \in Moved(h) THEN h ELSE stamp[e]]
  /\ ref' = [e \in Events |-> IF e \in Moved(h) THEN ref[e] + 1 ELSE ref[e]]
  /\ entries' = [entries EXCEPT ![h] = [e \in Events |-> IF e \in Moved(h) THEN @[e] + 1 ELSE @[e]]]

\* Mutant: the early return keeps the object's lock.
RelocatedWithLock(t) ==
  /\ Back(t) /\ op' = [op EXCEPT ![t] = "none"]
  /\ UNCHANGED objLock

\* A destructor goes on to remove the events; the others are done.
Relocated(t) ==
  /\ objLock' = None
  /\ IF op[t] = "destroy" THEN Goto(t, "remove") /\ UNCHANGED op
                          ELSE Back(t) /\ op' = [op EXCEPT ![t] = "none"]

SameHolder(t) ==
  /\ pc[t] = "relocating" /\ holder = where
  /\ Relocated(t)
  /\ UNCHANGED <<object, event, lists, lock, cur, arg, toward, ret, undefined>>

\* EventableObjectHolder::AddObject with the new holder's lock ...
MoveToList(t) ==
  /\ pc[t] = "relocating" /\ holder # where /\ MayLock(t, lock[where])
  /\ Transfer(where, list) /\ Goto(t, "settling")
  /\ UNCHANGED <<object, born, freed, deleted, left, repeats, kept, pool, locks, cur, arg, toward, ret, op, undefined>>

\* ... and without it, when the holder's thread is in Update.
MoveToPool(t) ==
  /\ pc[t] = "relocating" /\ holder # where
  /\ ~ MayLock(t, lock[where]) /\ PoolIsFree(where)
  /\ Transfer(where, pool) /\ Goto(t, "settling")
  /\ UNCHANGED <<object, born, freed, deleted, left, repeats, list, kept, locks, cur, arg, toward, ret, op, undefined>>

\* Only then are m_holder and m_event_Instanceid the new holder's.
Settle(t) ==
  /\ pc[t] = "settling"
  /\ holder' = where /\ Relocated(t)
  /\ UNCHANGED <<where, queued, moves, alive, own, event, lists, lock, cur, arg, toward, ret, undefined>>

-----------------------------------------------------------------------------
(* EventableObject::event_RemoveEvents(EVENT_REMOVAL_FLAG_ALL).            *)

Remove(t) ==
  /\ pc[t] = "remove" /\ Lock(t, "removing")
  /\ UNCHANGED <<object, event, lists, lock, cur, arg, toward, ret, op, undefined>>

RemoveOne(t) ==
  /\ pc[t] = "removing"
  /\ \E e \in own : /\ own' = own \ {e} /\ deleted' = deleted \cup {e}
                    /\ DecRef(t, e, "removing")
  /\ UNCHANGED <<where, queued, moves, alive, holder, born, freed, stamp, left, repeats, lists, locks, cur, toward, op, undefined>>

\* The destructor returns; whoever is still busy with the object uses freed memory.
Removed(t) ==
  /\ pc[t] = "removing" /\ own = {}
  /\ objLock' = None
  /\ alive' = (alive /\ op[t] # "destroy")
  /\ undefined' = (~ alive' /\ \E u \in Threads \ {t} : cur[u] # None \/ pc[u] \in {"adding", "added", "pushing"})
  /\ Back(t) /\ op' = [op EXCEPT ![t] = "none"]
  /\ UNCHANGED <<where, queued, moves, holder, own, event, lists, lock, cur, arg, toward, ret>>

-----------------------------------------------------------------------------
(* What the object's owner does with it: the thread of its map, or the     *)
(* world's thread while the object is in no map and in no map's queue.     *)

Owns(t) ==
  /\ alive /\ Free(t) /\ \A u \in Threads : op[u] = "none"
  /\ where = t /\ queued = None

Call(t, name) == op' = [op EXCEPT ![t] = name]

RemoveEvents(t) ==
  /\ Owns(t) /\ own # {}
  /\ Call(t, "remove") /\ Lock(t, "removing")
  /\ UNCHANGED <<object, event, lists, lock, cur, arg, toward, ret, undefined>>

RemoveFromWorld(t) ==
  /\ Owns(t) /\ t \in Maps
  /\ where' = "world"
  /\ Call(t, "leave") /\ Goto(t, "relocate")
  /\ UNCHANGED <<queued, moves, alive, holder, own, event, lists, locks, cur, arg, toward, ret, undefined>>

\* ~Object: out of the map first, if it is in one.
Destroy(t) ==
  /\ Owns(t) /\ where' = "world"
  /\ Call(t, "destroy") /\ Goto(t, IF t \in Maps THEN "relocate" ELSE "remove")
  /\ UNCHANGED <<queued, moves, alive, holder, own, event, lists, locks, cur, arg, toward, ret, undefined>>

AddToWorld(m) ==
  /\ Owns("world") /\ moves < MaxMoves
  /\ queued' = m /\ moves' = moves + 1
  /\ Back("world")
  /\ UNCHANGED <<where, alive, holder, own, event, lists, locks, cur, arg, toward, ret, op, undefined>>

PushToWorld(m) ==
  /\ m \in Maps /\ pc[m] = "idle" /\ queued = m
  /\ where' = m /\ queued' = None
  /\ Call(m, "push") /\ Goto(m, "relocate")
  /\ UNCHANGED <<moves, alive, holder, own, event, lists, locks, cur, arg, toward, ret, undefined>>

-----------------------------------------------------------------------------

Update(h) == BeginUpdate(h) \/ Merge(h) \/ Merged(h) \/ Walk(h) \/ Execute(h) \/ Expire(h) \/ EndUpdate(h)
Adding(t) == Acquired(t) \/ ReadHolder(t) \/ PushEvent(t)
Moving(t) == Relocate(t) \/ SameHolder(t) \/ MoveToList(t) \/ MoveToPool(t) \/ Settle(t)
Removing(t) == Remove(t) \/ RemoveOne(t) \/ Removed(t)

\* The steps a thread goes on with, whatever it is asked to do.
Continue(t) == PushToWorld(t) \/ Test(t) \/ Update(t) \/ Adding(t) \/ Moving(t) \/ Removing(t)

Crashed == undefined /\ UNCHANGED vars

Next ==
  \/ /\ ~ undefined
     /\ \/ \E t \in Threads : Continue(t) \/ RemoveEvents(t) \/ RemoveFromWorld(t) \/ Destroy(t)
        \/ \E t \in Threads, e \in Events : AddEvent(t, e)
        \/ \E m \in Maps : AddToWorld(m)
  \/ Crashed

Spec == Init /\ [][Next]_vars

\* Every thread keeps running: it takes the objects that wait in its map's
\* queue, then updates its holder, again and again (MapMgr::Do, World::Update).
\* A thread that waits for a mutex gets it in the end, although its owner
\* releases and takes it over and over, between updates that take much longer.
FairSpec == Spec /\ \A t \in Threads : SF_vars(~ undefined /\ Continue(t))

-----------------------------------------------------------------------------
(* Properties.                                                             *)

Entries(h, e) == list[h][e] + kept[h][e] + pool[h][e]

\* The entries an event has anywhere, numbered in each holder.
Listings(e) == UNION {{h} \X (1..Entries(h, e)) : h \in Holders}

\* An event's count is the number of entries it has anywhere and one for its
\* object's list, whatever relocations, removals and updates run at the same
\* time, so that DecRef deletes an event only when nobody lists it, and never
\* one that its object still has (IncRef, DecRef).  What happens afterwards is
\* not promised: an adder may still list it, another DecRef delete it again.
Counted ==
  \A e \in Events :
    /\ ref[e] = Cardinality(Listings(e)) + (IF e \in own THEN 1 ELSE 0)
    /\ e \in freed => e \notin own

\* The holder that the object's events are to have: between AddObject and the
\* write of m_holder it is the new one already.
Target == IF \E t \in Threads : pc[t] = "settling" THEN where ELSE holder

\* An event of the object that is not deleted is listed with the object's
\* holder and has its stamp, except one that may not run in the world while
\* the world is the holder, and one that its adder has yet to list
\* (event_AddEvent, event_Relocate, AddObject and Update together).
NoneForgotten ==
  \A e \in own \ deleted :
    \/ Entries(Target, e) > 0 /\ stamp[e] = Target
    \/ Target = "world" /\ e \in Flagged
    \/ \E t \in Threads : arg[t] = e /\ pc[t] \in {"added", "pushing"}

Passes(t) == pc[t] = "walking" /\ pc'[t] = "starting"

\* Update picks an event to run only if it is one of the object's, never in the
\* world's thread if it is flagged, and otherwise only in the thread of the
\* holder that the object has at that moment, however old the entry is (the
\* stamp and the deleted flag).  The callback starts a little later: see
\* StartsInPlace.
PickedInPlace ==
  [][\A t \in Threads : Passes(t) =>
       /\ cur'[t] \in own
       /\ IF cur'[t] \in Flagged THEN t # "world" ELSE Target = t]_vars

\* An event is picked only in the thread of the object's holder, because the
\* object's events leave a holder's list when the object does.
RunsWhereItIs == [][\A t \in Threads : Passes(t) => Target = t]_vars

\* An event of the object runs, again and again, until it is removed, wherever
\* the object goes and whatever the threads wait for, unless the object stays
\* outside of every map and the event may not run there (Update, AddObject,
\* event_Relocate).
EventuallyRuns ==
  \A e \in Events :
    []<>(e \in own => \/ e \in deleted \/ undefined
                      \/ \E t \in Threads : pc[t] = "running" /\ cur[t] = e
                      \/ e \in Flagged /\ where = "world" /\ queued = None)

-----------------------------------------------------------------------------
(* What one might expect besides, and TLC finds violated (README.md, "Seen *)
(* in the models", has the constants for each).                            *)

Starts(t) == pc[t] = "starting" /\ pc'[t] = "running"

\* The callback of an event that is not flagged starts in the thread of the
\* object's holder, because the object's events leave a holder when it does.
StartsInPlace ==
  [][\A t \in Threads : Starts(t) => cur[t] \in Flagged \/ t \in {holder, Target}]_vars

\* An event of the object has one entry with the object's holder at most, because
\* nothing new is added to the object's events while it is relocated.
ListedOnce == \A e \in own \ deleted : Entries(Target, e) <= 1
=============================================================================
