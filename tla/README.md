# A formal model of the ArcTic server

ArcTic is a World of Warcraft server emulator in C++.  This directory holds TLA+
models of the parts in which several threads, buffers and hand-overs meet, TLC
configurations that check them on small instances, and proofs of their main
invariants for every value of the constants.  Paths below are relative to
`src/src/` of the repository.

Run in this directory: `tlc -config MCRWLock.cfg MCRWLock` and so on for the
runs of section 3; `tlapm RWLockProofs.tla` and so on for the proofs of section 4.

## 1. Inventory

### Programs and how they interact

* **WorldServer** (187 000 lines) runs the game.  Its threads: the main thread, one
  *world* thread (`WorldRunnable`, ticks of at least 50 ms), one thread per map
  (`MapMgr::run`), the socket workers (epoll), two threads per database, and helpers
  out of a thread pool.
* **AuthServer** authenticates accounts and keeps the list of realms.  A WorldServer asks
  it for an account's session key over *LogonComm* when a client connects.
* **ClusterServer** (builds with `CLUSTERING` only) holds the client sockets and
  spreads players over several WorldServers; packets pass through it.
* **libs/** is shared by all three: threads and locks, sockets and buffers, the
  database layer, cryptography, configuration.

A client's packet goes: kernel, the socket worker of `libs/Network`, the circular read
buffer, `WorldSocket`, the session's packet queue; then the thread that owns the
session runs the handler.  The answer is written into the socket's circular write
buffer under its mutex and sent by the worker.  What a handler must save goes to the
database threads through an `FQueue`.

### Components

| component | state it keeps | operations | what is hard | what makes it correct |
|---|---|---|---|---|
| Reader/writer lock (`libs/Threading/RWLock.h`) | `_readers`, `_writers`, a mutex, a condition | acquire and release, read and write | lost and spurious wakeups; a test made once before a wait | exclusion, exact counters, no writer left asleep |
| Socket buffer (`libs/Network/CircularBuffer`) | two regions in one block | write, read, remove, receive, ask for room | wrap-around; moves of region B; a query with a side effect | a FIFO of bytes; regions disjoint; enough room |
| Connected sockets (`Socket`, `SocketMgrLinux`, `WorldSocket`) | buffers, send lock, epoll registration | burst send, epoll loop | edge-triggered events; a lock tested without atomicity; partial sends | whole packets; no bytes without a coming event |
| Socket life cycle (`SocketMgrLinux`, `ListenSocketLinux`, `Socket`) | `fds[]`, deletion queue | accept, connect, disconnect, delete | reuse of descriptors; two closers | no use after deletion, one deletion |
| Database threads (`libs/DataStorage`) | two queues, connections, running flags | Execute, AddQueryBuffer, background loops, EndThreads | flags read without lock; wakeups; shutdown | sent again only after an error and only once, in order; nothing lost; shutdown ends |
| Thread pool (`libs/Threading/ThreadPool`) | free and active threads, exit credits | ExecuteTask, ThreadExit, IntegrityCheck, Shutdown | credits without an address; a task given to a thread on its way out | every task started once; shutdown ends |
| World sessions (`World`, `WorldSession`, `WorldSocket`, `MapMgr`) | session lists per thread, `instanceId`, logout timer | login, update, teleport, logout, deletion | hand-over of a session between threads; deletion by whichever thread has it | handed back to the world, never marked as being moved for good, one session per account, every lost connection cleaned up |
| Login queue (`World::AddQueuedSocket` …) | queued sockets | add, remove, let in | a queued socket is in no account table; two threads test the limit | the limit; no account twice |
| Instances (`WorldCreator`, `MapMgr`) | instance maps, owners, expiry | create, enter, expire | entering while it ends | one map per owner and difficulty |
| LogonComm (`AuthServer/LogonComm*`, `WorldServer/LogonComm*`) | pending requests, registered realms | register, request session, reconnect | answers after a reconnect | the answer meets its request |
| Login server (`AuthServer`) | accounts, bans, challenge state | challenge, proof, realm list, reload | reload under lookups | a proof uses the account it was challenged for |
| Cluster coordinator and worker (`ClusterServer`, `ClusterInterface`) | sessions, players, instances, servers | login, transfer, logout, loss of a server | two copies of a session; messages in flight | a player in one world; out of reach in this commit (section 5) |
| Timed events (`EventableObject`, `EventMgr`) | event holders per map | add, remove, move, fire | an object changes holders while events fire; a list whose lock is only tried | exact counts, no event forgotten, each picked in the right thread |
| Groups, trade, auctions, mail, loot | shared records of several players | invite, accept, bid, send, roll | players on different map threads | items and money conserved |
| Game rules (spells, AI, items, quests, battlegrounds) | objects of one map | very many | rules over numbers, one thread per map | outside this project |

Each row that is not modelled is listed in `PROJECT.json` with the reason, and each place
where the code is exposed to such a hazard is listed under `hazards` with its line.

## 2. Modules

```
ByteFifo  <--refined by--  BufferedStream --EXTENDS--> CircularBuffer <--EXTENDS-- SocketLink
PacketStream  <--refined by--  SocketLink
QueryService  <--refined by--  Database
RWLock      ThreadPool      WorldSessions      EventableObject
```

`MC*` modules only give values to constants; `*Proofs` modules hold the theorems.

### RWLock

`libs/Threading/RWLock.h` on the pthread `Mutex` and `Condition`.  One action runs from a
blocking call to the next: what lies between `BeginSynchronized` and `EndSynchronized` or
`Wait` is done under `_lock`.  `lock` is the mutex's owner, `readers` and `writers` the two
counters, `section[t]` where thread `t` stands: out, reading, waiting in the condition,
woken and contending for the mutex, writing (entered directly), resumed (entered after
`Wait`).  `SpuriousWakeup` lets a wait return without a signal.  A writer keeps `_lock`
through its section, a reader does not.

### ThreadPool

`CThreadPool` of `libs/Threading` on Linux.  What runs under `_mutex` is one step
(`ExecuteTask`, `IntegrityCheck`, `BeginShutdown`, `ThreadExit`); `thread_proc` looks at
`ExecutionTarget`, calls it and clears it without the mutex, so `Test`, `Call`, `Return` and
`Clear` are steps of their own.  `target[t]` is `ExecutionTarget`, `sem[t]` the count of the
thread's semaphore, `toExit` the anonymous credits `_threadsToExit`, `dismissed` the threads
with `DeleteAfterExit`, `eaten` `_threadsEaten`.  A thread told to go stays in `free` until it has run
`ThreadExit`.  A call through a cleared target is a thread that never goes on.  `Shutdown`
returns with `_mutex` still held (`ThreadPool.cpp:218-227`), which is why `MutexIsFree` is
`phase # "down"`.

### CircularBuffer, BufferedStream, ByteFifo

`CircularBuffer` has one operator for each method; a buffer is a record of the
block, the sizes of the regions and the places where they start (pointers are offsets, the
null pointer of region B is an offset no byte has).  `BufferedStream` is a buffer in use:
every call the sockets make on one (`BurstSend`, receive, `Read`, a send of the contiguous
bytes, `GetSpace` which may set up region B).  `ByteFifo` is what a socket expects: bytes
leave in the order in which they came, and a write is taken whole or not at all.

### SocketLink, PacketStream

Two programs joined by one connection.  Each end has a write buffer (a CircularBuffer), the
mutex, the send lock with its width, its epoll registration, and one worker thread.  Game
threads send packets (header, then body) between `BurstBegin` and `BurstEnd`.  The actions
of the worker are `EpollWait`, `ReadCallback`, the unlocked look at the write buffer after a
read (`InspectWritten`, `PostWritten`) and `WriteCallback`.  The kernel is modelled from what
the code relies on: an event is queued when the registration changes and the
condition holds already, or when it becomes true; only a send that could not place all its
bytes makes the kernel report room later.  `ChecksSpace = TRUE` is `WorldSocket`, which asks
for room for the whole packet first; other sockets (`WorkerServerSocket.cpp:157`) do
not, and with `FALSE` TLC finds the header of a refused body left in the stream; this is
listed as a hazard, no claim of the code is attached to it.  Encryption and the content of packets
are left out; so are disconnection and deletion of the socket.

`PacketStream` is what the other end may rely on: each end sends whole packets, one step each, and receives
a prefix, ever longer, of what its peer has sent.  The refinement maps the bytes that are received, in the
kernel and in the write buffer, without those of a packet under way, to the packets sent.

### Database, QueryService

`Database` has both background threads (`executor` runs `Database::run`, `buffers` runs
`thread_proc_query`), their `FQueue`, the connections they keep for a whole loop, the callers
of `Execute` and `AddQueryBuffer`, and `EndThreads`.  Flags that the code reads without a
lock (`ThreadRunning`, `qt`, `m_threadRunning`) are read in a step of their own.
A third way to the server are the direct calls (`Query`, `WaitExecute`), for which the caller waits for a
connection of its own.  Each of the ways ends in `_SendQuery`: `mysql_query` may fail before or after the
server has performed the query, and `_SendQuery` connects again and sends it once more, or logs the error and drops
it (`Database.cpp:459-476`).  `Perform`, `DrainPerform` and `CallPerform` are the first attempt,
`Resend`, `DrainResend` and `CallResend` the second.  Whether the new connection comes about is left open
(the error decides, and `mPort`, which it uses, is never assigned).

`QueryService` is the promise: the server gets a query only before every later query that the same caller
gave to the same stream, and a query is sent again only after an error and only once.  Hence a query without
an error is performed exactly once; one with an error not at all, once or twice.  `Pending` maps the queues, the
query in a thread's hand and the calls under way to the one set of the promise.
`EndThreads` may return while the query thread still runs, because after its sleep it
tests only `ThreadRunning` (`Database.cpp:347`); the model keeps that, and what is
proved of the queries holds through it.

### WorldSessions

The life of a `WorldSession` on a stand-alone WorldServer.  The threads are `"net"` (the thread that reads the answers of
the AuthServer and runs `InformationRetreiveCallback`), `"world"` (`World::UpdateSessions`) and one per map (`MapMgr::Do`).

| model | code |
|---|---|
| `online`, `queue` | `World::m_sessions`, account to session; `World::mQueuedSessions` |
| `global`, `mapSessions[m]` | `World::GlobalSessions`, `MapMgr::MapSessions` |
| `pool[m]` | `MapMgr::m_objectinsertpool` |
| `inst[s]`, `timer[s]`, `sock[s]` | `instanceId`, `_logoutTime`, `_socket` |
| `mapMgr[s]`, `pushed[s]`, `dest[s]` | `m_mapMgr`, `m_beingPushed`, `m_mapId` with `m_instanceId` of the player |
| `running`, `forced` | the maps that `GetInstance` finds; those with `forced_expire` |
| `pc[t]`, `at[t]`, `todo[t]` | where thread `t` is, at which session, what its loop has still to visit |
| `goal[t]`, `back[t]` | the map to go to, or which `LogoutPlayer` it is in; where the thread goes on after that |

*No lock but those of the code.*  Any number of threads may be at one session: after `RemoveObject` has cleared `instanceId` and
handed the session over (`MapMgr.cpp:581-585`) the map's thread goes on in its handler while the world thread updates the
session, and the world thread goes on after `AddObject` while the map pushes the player; `FindSession` releases its lock, and the
second login looks at the session it has found, logs its player out and disconnects it, each in a step of its own
(`FindSession`, `SecondLogin`, `TurnAway`) at any moment of that session's life.  Only `SessionsMutex`, held by
`UpdateSessions` during its whole loop, and `m_objectinsertlock`, held by a map while it pushes, make anybody wait.

*Freed memory.*  `LogoutPlayer` frees the player, `DeleteGlobalSession` the session, the destructor the map.  What another thread
does with one of these afterwards is undefined, so a thread that is in a method of it is `"lost"`: it makes no more steps.
A thread that finds a freed session in its list, or a freed player in its pool (`NoSession` there), stops as well, and so does one
that fails `ASSERT(m_mapMgr)` in `RemoveFromWorld`.  The safety properties go on holding for the threads that are left.

`Update` is split where other threads can come between: the tests at its head (`Update`, `WrongThread`, `WaitForPush`), one action
for each packet handled and one after it (`Handled`), the logout timer (`Timer`), the ping (`Ping`).  `TimeoutInQueue` is the branch of
120 seconds, in both places, which logs the player out before `bDeleted` is set.  `AddToWorld`, `Join`, `AddObject`, `Added` and
`SetInstance` are `Player::AddToWorld`, which sets `instanceId` after it has left the pool's lock; `Join` may fail at an instance,
which is gone, full or for raids only.  `MapEnds` takes an instance with nobody in `m_PlayerStorage`, or a forced one with players inside,
whom `TeleportPlayers` throws out.  `PushStray` is a player out of bounds, teleported with the pool's lock in hand.

Taken as one step: test and set of `_loggingOut`, the body of `DeleteGlobalSession`, what `PushToWorld` does for a player inside the
boundaries.  A request to log out and its cancellation are one action.  Time is not counted.
Not in this module: the cluster build, game masters, who owns an instance, shutdown.

### EventableObject

Timed events of one object that enters and leaves maps.  A `TimedEvent` is counted by
reference: once for the object's `m_events`, and once for every entry in the list or the insert pool
of a holder (a map's, or the world's).  The threads are those that update the holders.

| model | code |
|---|---|
| `where`, `queued` | the object's map, and the map in whose insert pool it waits |
| `holder`, `own` | `m_holder` with `m_event_Instanceid`, `EventableObject::m_events` |
| `ref[e]`, `stamp[e]`, `deleted`, `left[e]`, `repeats[e]` | `ref`, `instanceId`, `deleted`, `currTime`, `repeats` of the `TimedEvent` |
| `list[h]`, `kept[h]`, `pool[h]` | the holder's `m_events` (not visited yet, and visited and kept, by the walk in progress), `m_insertPool` |
| `lock[h]`, `objLock` | `EventableObjectHolder::m_lock`, `EventableObject::m_lock`, both recursive |
| `pc[t]`, `cur[t]`, `arg[t]`, `toward[t]`, `ret[t]`, `op[t]` | where thread `t` is, the callback it is in, the event it adds or drops, the holder it read, where `DecRef` returns to, what the owner does with the object |

`Update` is split at each event (`Merge`, `Drop`, `Wait`, `Pass`, `Execute`, `Expire`): `Pass` is the test of an entry and `Execute` the
start of its callback, and between the two others may relocate or remove.  `DecRef` is split between
the decrement and the second look at the count (`EventMgr.h:271-273`).  `Settle` is the write of `m_holder`, apart from the stamping and
listing in `AddObject` before it; in between `Target` is the holder that the object is about to have.  `event_AddEvent`
is split where it leaves `m_lock` and where it reads `m_holder` again.  `AddObject` has two forms
(`MoveToList`, `MoveToPool`), as the holder's lock can be had or not.  A callback is anything the
program may do in one: add events, remove all, move the object, destroy it.  Lists are bags, since
nothing depends on the order of their entries.  Time is counted in updates of one length.

Adding is open to every thread (a map's thread adds events to players elsewhere); moving,
removing and destroying are the owner's: the thread of the map the object is in, or the world's.
After a step by which freed memory is used, `undefined` is set and nothing more happens; it excuses no safety property.
There are four such steps: two `DecRef` that both look after both decrements delete the event twice (`EventMgr.h:271-276`); an adder
lists an event that a removal has freed meanwhile, since it has left `m_lock` before (`EventableObject.cpp:52-63`); a thread adds while the
owner destroys; and a destructor is called from the object's own callback without `EVENT_FLAG_DELETES_OBJECT`.  The code has nothing
against any of them, and no comment promises anything, so they are hazards and not findings.

What the model shows beside the properties: an expired event stays in the object's `m_events`
until all are removed, marked as deleted (the comment at `EventableObject.cpp:460`, "shouldn't be any
in here", is not so); an object that goes out of a map and into it again before that map's update
has two entries there, and an event that should run once can then be run by both; `GetEventHolder`
reads the map of holders without `holderLock` (`EventMgr.h:380`), which is harmless while
no instance is created or ends, as in the model.

Left out: `event_ModifyTime` and its like, queries, removal by type or by pointer, the flags for
firing on deletion, deleting the object and moving to the world, and the end of a holder.

## 3. Runs

| run | asks | bounds and why they are enough |
|---|---|---|
| `rwlock` | do writers exclude each other, are the counters exact, is no wakeup lost, does a waiting writer get in? | 4 threads: a writer inside, one woken, one waiting, and one that comes or leaves; the proofs lift the safety part to any number |
| `rwlock_exclusion` (violation) | does a write section exclude readers? | 2 threads are enough |
| `buffered_stream` | FIFO, and room for at least half, or for all once drained | 5 bytes: both regions with a gap between them, and an odd half; 2 byte values; the proofs lift it to any size |
| `link` | whole packets, refinement of PacketStream, the send lock, no unpushed bytes; are there only three ways to stall, and is all delivered short of these? | 5 bytes of buffer (wraps after two packets), 2 packets per thread, two senders on one end and one on the other; the kernel holds 3 bytes and one recv takes 2, so that sends are partial, reads leave bytes behind and both directions fill |
| `thread_pool` | is no task begun twice or lost on a thread that was not told to go, is no deleted thread kept, does Shutdown end? | 2 tasks, 3 threads, 2 integrity checks: a thread free, one running, one told to go; `StartCount = 0` because `Startup` only adds threads that `Respawn` and `Refill` make as well, and one more would be beyond the bound |
| `db_threads` | no sleep beside work, everything queued in time handed to `_SendQuery`, calls and EndThreads return; refinement of QueryService | one caller with 2 queries to any stream, so that order can be told; 3 connections (the configuration files have 3 to 5; each thread keeps one, and with 2 a direct call may wait for ever), failing sends, spurious wakeups.  The proofs lift the safety part to any number of callers.  95 000 states |
| `db_left_behind` (violation) | is nothing left in a queue at the end? | one query each, no spurious wakeups needed |
| `sessions` | is a session without instance the world's, and is a player marked as being pushed on its way? | two accounts on a server for one, so that either may wait in the login queue, one session with 2 packets (log in, change map or ask for logout); one continent, one instance that may end, also with the player inside, and out of whose bounds a player may be.  590 000 states |
| `sessions_again` | one session per account, HandedBack when two threads log a player out, and is a lost connection deleted in the end? | two sessions of one account, 2 packets and none, so that the second login meets every stage of the first; nobody queues.  155 000 states; DisconnectedIsDeleted was also found true for one session and an instance that may end, with 70 000 states |
| `sessions_expired` (violation) | is it deleted also when its instance ends? | one session |
| `timed_events` | exact counts, nobody forgotten, each event picked in the right thread, and run again and again | one map and the world, one object that enters the map at most once more (in, out, in again), one event that runs once at the next update and never in the world, and one that repeats at every second update; both threads may add, so that every pair of operations overlaps.  About 600 000 states |
| `timed_events_left` (violation) | are events picked only in the thread of the object's holder? | the same |

Deadlock is checked in `rwlock`, `buffered_stream` and those of timed events.  In the other runs
the system may stop: clients send a bounded number of packets, callers make a bounded number of
queries, a pool that was shut down is at its end, lost threads stop.

Other bounds: `MaxPackets`, `MaxQueries`, `Limit`, `MaxThreads`, `MaxChecks` and `MaxMoves` cap what clients, senders and
callers do; `Twice` and `Strays` say whose client logs in again and where a player may be out of bounds; `KernelRoom` and `ReadRoom` are the sizes of the kernel's buffers;
`LockModulus` (4, in place of 2^32) is the width of the send lock, wide enough to see it
leave {0, 1} on both sides.

### Fairness

* `RWLock`: strong fairness for leaving a read section (it needs `_lock`) and for
  returning from `Wait` (it competes for a mutex that is freed again and again), weak for
  leaving a write section.  Nobody has to ask for the lock, and readers may overlap for
  ever: `WriterProgress` therefore assumes that the readers are all gone again and again.
* `SocketLink`: the worker and a thread inside a packet go on (weak); taking the
  write mutex, free again and again, succeeds (strong, on `WriteCallback` and `SendHeader`).
* `ThreadPool`: weak for each thread, for the loop of `Shutdown`, and for the return of a task that has
  been told to end; a task that has not may run for ever.
* `Database`: weak for both background threads, for a call under way and for `EndThreads`;
  none for making calls, for shutting down or for spurious wakeups.
* `WorldSessions`: weak for each thread, for timers and for the queue; strong for the three steps that wait for `SessionsMutex` or the
  lock of a pool, which the world thread and the maps take once a tick and sleep in between (`WorldRunnable.cpp:55`, `MapMgr.cpp:1331`).
  Clients need not send anything, close or log out, scripts need not teleport, maps need not end.
* `EventableObject`: strong for each thread's own steps (the next update, the next step of a call,
  the push of a queued object).  The threads loop for ever (`MapMgr::run`, `WorldRunnable`), and a thread
  that waits for a mutex gets it although its owner takes it again and again: the owner sleeps
  between updates far longer than it holds it, and pthread mutexes wake a waiter on release.  None for adding,
  moving, removing and destroying.

### Where code and comments part

1. `rwlock_exclusion`: `AcquireWriteLock` does not test `_readers` again after `Wait`
   (`RWLock.h:41`); a reader can slip in and read beside the writer, although callers count on
   the opposite (`ClientManager.cpp:205`).
2. `db_left_behind`: a caller that saw `ThreadRunning` pushes after the last `pop_nowait`; "execute all the
   remaining queries" (`Database.cpp:273`) does not hold.
3. `sessions_expired`: an instance map that ends does not look at its insert pool (`MapMgr.cpp:1339`); the
   session of a player in it is updated by nobody, never deleted, and its account cannot log in again,
   although `WorldSession.cpp:106` provides for a failed `AddToWorld`.
4. `timed_events_left`: events that may not run in the world stay in the list of the map that the
   object leaves (`EventableObject.cpp:466`), although a holder is said to "remove/add them when they change from
   one holder to another" (`EventableObject.h:66`); that map's thread goes on running them while the
   world's thread has the object.

### Seen in the models

TLC finds these formulas violated as well; they are defined in the modules, and no run repeats them.  The first column
says where to look (under `SPECIFICATION Spec`, with the formula as the only one).

| formula, module and constants | what happens in the code |
|---|---|
| `LeftoverRenotified`, `MCSocketLink`: senders `OneWay`, 3 packets, `ReadRoom` 3 | a wrapped write buffer is sent up to the end of region A, and for region B no further EPOLLOUT edge comes (`SocketMgrLinux.cpp:133`, "we don't have to do anything here"); the socket stays locked for sending and registered for writing only.  `OnlyThreeStalls` and `AllDelivered` name this stall |
| `NeverForgotten`, `MCWorldSessions`: one session, `OneAccount`, `Two`, continent `east`, instance `cave` | `AddToWorld` writes the instance after the map may have pushed the player and a script may have teleported it away (`Player.cpp:3497`), and so undoes what "will trigger the session to be removed" (`MapMgr.cpp:579`): both loops drop the session |
| `NoCircularWait`: two sessions, `TwoAccounts`, `OneEach`, limit 2, continents `east` and `west`, no instance, strays in `east` | "Sessions are updated every loop" (`MapMgr.cpp:1543`), but a map that teleports a player while it pushes its pool wants `SessionsMutex` with the pool's lock in hand (`MapMgr.cpp:1306`), and the world thread the opposite: neither goes on |
| `DeletedIsNowhere`: one session, `Two`, `east` only | a map's thread that deletes a session "from both world- and map-sessions" (`MapMgr.cpp:1572`) leaves it in `GlobalSessions` when the world thread has not come back from the handler that handed it over |
| `LoggedOutFirst`: the same, with `Twice` the account | `LogoutPlayer` returns when another thread is in it (`WorldSession.cpp:214`), and the session is then deleted with its player, of which the destructor warns (`WorldSession.cpp:48`) |
| `OneSessionPerAccount`: three sessions, `TwoOfOneAccount`, `None`, limit 1, `east` only | `FindSession` does not see a connection in the login queue (`WorldSocket.cpp:408`): two sessions of one account are let in, and "accounts dupe up" (`WorldSocket.cpp:317`) |
| `StartsInPlace`, `MCEventableObject`, as `timed_events` | a callback starts after the tests of its entry (`EventableObject.cpp:349` after 333-345) without the object's lock, also in the thread of a holder the object has left meanwhile |
| `ListedOnce`, the same, `MaxMoves` 0 | a relocation between the two halves of `event_AddEvent` (`EventableObject.cpp:52`, 63) leaves the event listed twice, although the lock is to "prevent any new stuff from getting added" (line 394) |

## 4. Proofs

All proofs are of safety.  What they assume of the constants is the named assumption of the
module, which TLC evaluates in every run.

### RWLockProofs

For any finite set of threads, with or without spurious wakeups.  `IInv` adds to the checked
invariants only that `_lock` is held exactly by the thread that writes (`HeldByWriter`).
`CountersExact` is needed to know that `readers` and `writers` are naturals and zero
exactly when nobody is counted; `NoLostWakeup` follows step by step because each section ends
with a signal whenever the counters say that a writer waits.  Proved: `TypeOK`, `OneWriter`,
`CountersExact`, `NoLostWakeup`, `DirectWriterExcludesReaders`.

### ThreadPoolProofs

For any number of tasks, threads and checks.  `IInv` adds to `TypeOK` who is where: a thread
that is not born or gone is in no set, one that sleeps is free unless it has been resumed, one with a task is
active, and a count in a semaphore without a task is that of a thread told to go.  Since exits are
anonymous, nothing ties a dismissed thread to the credit made for it; the invariant
has to allow a dismissed thread to run a task, and shows that even so none is begun twice.
Two more parts are about stalls and shutdown: a thread with a task that was not told to go is in
`m_activeThreads`, sees its task at its next test or has its semaphore up, whichever of `Resume` and `Suspend`
came first; and `Shutdown` returns only when both sets are empty.
Proved: `TypeOK`, `GoneIsNowhere`, `BegunOnce`, `Undisturbed`, and beyond the run's properties that no
assignment is lost in its sleep (`NoTaskStalls`) and that after `Shutdown` only threads that were told to go
before they were given a task can have one (`ShutdownLeavesNoTask`).

### CircularBufferProofs, BufferedStreamProofs

For any capacity and any set of bytes.  `Good(b)` says that the regions are in order and that a
region B exists only while A ends in the upper half.  The last part is what `HalfUsable` needs: once
there is a B, stored and free bytes add up to the offset at which A ends.  The lemmas of
`CircularBufferProofs` say what each operator of `CircularBuffer` does to `Contents(b)` (the bytes from
the oldest to the youngest), to `Good` and to the room that is left; in `BufferedStreamProofs` each
action is a step of `ByteFifo` or a stutter.  Proved: the refinement
(`IsFifo`), `TypeOK`, `HalfUsable` (which includes that a drained buffer offers all of its block), and
`RegionsInOrder`, which no run repeats because `IsFifo` fails with it.

### SocketLinkProofs

For any number of senders and any size of packets, buffers, reads and the send lock.

*Every socket.*  `Plain` is `TypeOK`, `Buffered` (the buffers are `Good`) and `Owned` (the mutex belongs to the
thread that is inside a packet).  It is inductive without regard to room, and each step keeps the streams
or appends to one (`Appends`).  Proved: `TypeOK`, and that streams only grow, by whole pieces, under the mutex
(`StreamsOnlyGrow`).

*Sockets that ask for room* before they begin a packet (`ChecksSpace`, an assumption of the other theorems;
without it a refused body leaves its header behind and `WholePackets` is false).  `IInv` adds three facts.
`Roomy`: between header and body the room for the body is still there, which rests on
`WriteTakesItsLength`: a write never costs more room than its bytes, although it may change the
region that is written to.  `Whole`: a stream is whole packets and, while the mutex's owner is between
header and body, one byte more.  `Locked` is the argument about the send
lock: who is about to send is registered for `EPOLLOUT`; and whenever the socket is registered, about to be
registered by the worker, or not empty, the send lock is taken or somebody holds the mutex and is going to
take it.  The worker's look at buffer and lock without the mutex is harmless for that reason, since
`WriteCallback` wants the mutex.  Proved: `WholePackets`, `SendLockIsBinary`, `NothingUnpushed`.

*Stalls.*  `SInv` says what the kernel has promised: `noSpace` only while the kernel is full (`KernelFull`), an event
for whoever is registered for `EPOLLOUT` with nothing to send (`Promised`), and the header of a packet under way still
in the buffer (`Held`).  At rest an end that has bytes is registered for `EPOLLOUT`; unless it was
left without an event its kernel is full, so that the other end does not read, hence is registered for
`EPOLLOUT` too, and is full as well.  Proved: `OnlyThreeStalls`.

*Refinement.*  A sender's steps are stutters but for the body, which completes a packet; a receive
lengthens what is received, and that is a prefix of the packets sent because the header of a packet under way has not left
the buffer.  Proved: `IsPacketStream`.

### DatabaseProofs

For any number of callers, queries and connections.  `IInv` is `TypeOK`, `Control` (what a
thread holds follows from where it is; a caller sends a query itself only once the thread is gone
for good), `NoSleepOnWork` and `Order`: what a caller has given to one stream has met the server, is
in hand, in the queue and under way in the order in which it was given, and only a query that is about to be sent again is
in two of these places.  `Order` makes each first attempt, and each second one, a step of `QueryService`.
Proved: the refinement (`ImplementsService`), `TypeOK`, `NoSleepOnWork`.

### WorldSessionsProofs

For any number of sessions, accounts, maps and packets, and with any number of threads at one session.  `IInv` adds to
`TypeOK` five facts.  `Orderly`: which session, goal and way back a thread has at each place, so that whoever is about to hand a session
over still has it.  `Unborn`: nobody has a session that was not created.  `Pending` is `PushedIsPending` in the form that goes through each
step; it survives two threads at a session because every step that takes a player out of a pool or away from its adder either clears the flag or
is by a thread that will.  `Kept` is `HandedBack`: the instance is cleared only by `RemoveObject`, whose thread then either adds the session to
`GlobalSessions` or has found it being deleted; and the world thread drops only sessions with another instance.  `Registered`: a
listed session is the one that `m_sessions` has for its account; it needs that nobody waits in the login
queue (`Unlimited`, a limit that the accounts do not reach); section 3 says what happens otherwise.  The
invariant was checked with TLC in bounds like those of the runs before it was proved.
Proved: `TypeOK`, `PushedIsPending`, `HandedBack`, and under `Unlimited` `OneSessionPerAccount`.

### EventableObjectProofs

For any number of maps, events, moves and lengths of timers, and for whatever is in the lists.  `IInv`
is `TypeOK` and five facts: what each place of a thread says of its locks and its event (`Control`), who may
have entries (`Listed`), which stamp an event of the object has (`Stamped`), `NoneForgotten` in the form that
goes through each step (`Found`), and what is true once the object is gone (`Dead`).  `PickedInPlace` follows because only
`Pass` picks an event, and only an entry that is not `Misplaced`: an event that is not deleted belongs to a
living object, and an unflagged one has the holder's stamp.

`CInv` is about the counts.  `Account` equates `ref[e]` with the number of `e`'s listings and one for `m_events`;
`Fresh` says that an event nobody has listed yet is known only to its adder, and `FreedAreDropped` that its object has dropped
what is freed.  A listing is a pair of a holder and a number, so that a step that lists or drops an entry adds or takes
one element and the count follows by the theorems on finite sets.

`Possession` is about the locks: a holder's lock is its own thread's, from the beginning of `Update` to its end,
callbacks included; the object's belongs to the one thread that relocates or removes.  A
thread may wait for the object's lock with a holder's in hand, and for an insert pool with the object's, but who has
a pool waits for nobody: `AddObject` and `AddEvent` only try the holder's lock.  A plain wait there could close the ring.
Proved: `TypeOK`, `NoneForgotten`, `PickedInPlace`, `Counted`, and beyond the run's properties `NoDeadlock`
(which TLC also finds true in the bounds of `timed_events`).

### Only model-checked

Everything that must happen in the end (`WriterProgress`, `AllDelivered`, `QueuedIsPerformed`,
`CallsReturn`, `EndThreadsReturns`, `GivenIsBegun`, `ShutdownEnds`, `DisconnectedIsDeleted`,
`EventuallyRuns`), since the prover does not handle fairness.  Every other safety property of the runs that are
expected to pass is proved.

## 5. Not modelled

* The cluster (`ClusterServer`, `ClusterInterface`, `WorkerServerClient`).  In this commit no
  worker can register: `WSClient::OnRead` sets `_cmd` to zero before it switches on it
  (`WorkerServerClient.cpp:62-75`), so the coordinator's `ISMSG_AUTH_REQUEST` is put in a queue, and the one function that
  empties the queue, `ClusterInterface::Update` (`ClusterInterface.cpp:300`), is called by nobody.  The
  coordinator then has no world server and answers every login with that
  (`CharacterHandler.cpp:263`).  Sessions over two worlds, transfers and lost servers are states
  the program cannot reach, and a model of them would be one of an intention.
* Game rules, quests, spells, AI, battlegrounds: one thread per map, rules over numbers and tables.
  They are most of the code (over 300 000 of its lines, with the scripts), and why these models cover a small share of it.
* Packet formats, encryption, SQL, logging and configuration: wording and layout.
* `libs/Network-New` (not built), the Windows and BSD variants of sockets and locks, vendored code.
* Collision and pathfinding: geometry on read-only data.
* The components of the next section, because the parts above come first.

## 6. Plan

1. `SocketLife`: `fds[]`, disconnect from two sides, deletion by the garbage collector.
2. Instances: who owns one and when it ends, composed with `WorldSessions`; with it the end of a holder of
   timed events.
3. The rest of `EventableObject`: removal by type and pointer, the three other flags.
4. LogonComm: requests and answers across a reconnect.
5. Groups, trade and auctions: items and money are conserved when the players are on different maps.

New runs replace weaker ones of the table where they ask the same question.
