---------------------------- MODULE WorldSessions ----------------------------
(***************************************************************************)
(* The life of a WorldSession on a stand-alone WorldServer: logged in by   *)
(* the network thread (or out of the login queue by the world thread),     *)
(* updated by the world thread while its player is on no map               *)
(* (GlobalSessions) and by the thread of a MapMgr while it is on that map  *)
(* (MapSessions), handed from one to the other by AddToWorld and           *)
(* RemoveFromWorld, and deleted once its socket is gone.                   *)
(*                                                                         *)
(* A map is its MapMgr: one thread, one insert pool, one set of sessions.  *)
(* instanceId 0 is NoMap.  Time is not counted: a running logout timer is  *)
(* due some day, a ping may be late at any time.  The packets of a client  *)
(* come in any order; the server draws the next one when it looks.         *)
(*                                                                         *)
(* Nothing but SessionsMutex and the lock of an insert pool keeps two      *)
(* threads from being at one session.  What a thread would do with a       *)
(* Player, a WorldSession or a MapMgr that another thread has freed under  *)
(* it is undefined: it is "lost" and makes no step of the model any more.  *)
(* Neither does a thread that comes to a freed one in its list or pool.    *)
(***************************************************************************)
EXTENDS Naturals, FiniteSets

CONSTANTS
  Sessions,     (* every WorldSession that is ever created                 *)
  Account,      (* Account[s]: GetAccountId; nobody is a game master       *)
  Continents,   (* maps whose thread runs as long as the server            *)
  Instances,    (* maps that end when no player has been there for a while *)
  Twice,        (* accounts whose client may connect again while it is on  *)
  Strays,       (* maps where a player may arrive outside the boundaries   *)
  PlayerLimit,  (* m_playerLimit                                           *)
  MaxPackets,   (* bound: MaxPackets[s] packets of the client have an effect *)
  NoMap, NoSession

Maps == Continents \cup Instances
Threads == Maps \cup {"world", "net"}

(* Why a player leaves its map, other than to go to another one.           *)
Logouts == {"logout", "delete"}

ASSUME WorldSessionsAssumption ==
  /\ Maps \cap ({"world", "net", NoMap} \cup Logouts) = {}
  /\ NoMap \notin Logouts
  /\ NoSession \notin Sessions
  /\ Strays \subseteq Maps
  /\ MaxPackets \in [Sessions -> Nat] /\ PlayerLimit \in Nat

VARIABLES
  life,         (* "none", "live" or "deleted"                             *)
  sock,         (* _socket # NULL                                          *)
  inst,         (* instanceId                                              *)
  timer,        (* _logoutTime: "off", "running", "due"                    *)
  packets,      (* how many packets of the client are still to come        *)
  player,       (* _player # NULL                                          *)
  mapMgr,       (* _player->m_mapMgr                                       *)
  pushed,       (* _player->m_beingPushed                                  *)
  dest,         (* the map that m_mapId and m_instanceId of the player name *)
  online,       (* World::m_sessions                                       *)
  queue,        (* World::mQueuedSessions                                  *)
  global,       (* World::GlobalSessions                                   *)
  pool,         (* m_objectinsertpool of each map                          *)
  mapSessions,  (* MapSessions of each map                                 *)
  running,      (* the maps that GetInstance finds                         *)
  forced,       (* the maps with forced_expire                             *)
  pc, at,       (* where each thread is, and at which session              *)
  todo,         (* the sessions its loop has still to visit                *)
  goal,         (* a map to go to, or which LogoutPlayer it is             *)
  back          (* where the thread goes on after that                     *)

session == <<sock, inst, timer, packets>>
character == <<player, mapMgr, pushed, dest>>
accounts == <<online, queue>>
lists == <<global, pool, mapSessions>>
maps == <<running, forced>>
threads == <<pc, at, todo, goal, back>>
vars == <<life, session, character, accounts, lists, maps, threads>>

Accounts == {Account[s] : s \in Sessions}

Init ==
  /\ life = [s \in Sessions |-> "none"]
  /\ sock = [s \in Sessions |-> FALSE]
  /\ inst = [s \in Sessions |-> NoMap]
  /\ timer = [s \in Sessions |-> "off"]
  /\ packets = [s \in Sessions |-> 0]
  /\ player = [s \in Sessions |-> FALSE]
  /\ mapMgr = [s \in Sessions |-> NoMap]
  /\ pushed = [s \in Sessions |-> FALSE]
  /\ dest = [s \in Sessions |-> NoMap]
  /\ online = [a \in Accounts |-> NoSession]
  /\ queue = {}
  /\ global = {}
  /\ pool = [m \in Maps |-> {}]
  /\ mapSessions = [m \in Maps |-> {}]
  /\ running = Maps
  /\ forced = {}
  /\ pc = [t \in Threads |-> "idle"]
  /\ at = [t \in Threads |-> NoSession]
  /\ todo = [t \in Threads |-> {}]
  /\ goal = [t \in Threads |-> NoMap]
  /\ back = [t \in Threads |-> "idle"]

-------------------------------------------------------------------------------
(* The instance a thread passes to WorldSession::Update.                   *)
Here(t) == IF t = "world" THEN NoMap ELSE t

(* The players in m_PlayerStorage of map m.                                *)
Inside(m) ==
  {s \in Sessions : mapMgr[s] = m /\ s \notin pool[m]
                     /\ \A t \in Threads : at[t] = s => pc[t] # "inserting"}

BeingPushed(s) == player[s] /\ pushed[s]

(* _loggingOut, and bDeleted, as the threads at s have set them.           *)
LoggingOut(s) == \E t \in Threads : at[t] = s /\ goal[t] \in Logouts

BDeleted(s) == \E t \in Threads : at[t] = s /\ (goal[t] = "delete" \/ pc[t] = "deleting")

(* SessionsMutex, held during the whole of UpdateSessions, is recursive.   *)
MayLockSessions(t) == t = "world" \/ pc["world"] \in {"idle", "admitted", "authenticated"}

(* A map holds its m_objectinsertlock while it pushes what is in the pool. *)
InsertLocked(m) == "pushing" \in {pc[m], back[m]}

Goto(t, label) == pc' = [pc EXCEPT ![t] = label]

(* The thread goes on, those in us use what it has freed.                  *)
GotoLosing(t, label, us) ==
  pc' = [u \in Threads |-> IF u = t THEN label ELSE IF u \in us THEN "lost" ELSE pc[u]]

TakeUp(t, s) == at' = [at EXCEPT ![t] = s]
LetGo(t) == TakeUp(t, NoSession)

-------------------------------------------------------------------------------
(* The network thread, and the login queue of the world thread.            *)

LoginUnchecked(s) ==
  /\ pc["net"] = "idle"
  /\ life[s] = "none"
  /\ life' = [life EXCEPT ![s] = "live"]
  /\ sock' = [sock EXCEPT ![s] = TRUE]
  /\ packets' = [packets EXCEPT ![s] = MaxPackets[s]]
  /\ TakeUp("net", s) /\ Goto("net", "created")
  /\ UNCHANGED <<inst, timer, character, accounts, lists, maps, todo, goal, back>>

(* InformationRetreiveCallback: FindSession finds none of that account.    *)
Login(s) ==
  /\ pc["net"] = "idle"
  /\ life[s] = "none" /\ online[Account[s]] = NoSession
  /\ life' = [life EXCEPT ![s] = "live"]
  /\ sock' = [sock EXCEPT ![s] = TRUE]
  /\ packets' = [packets EXCEPT ![s] = MaxPackets[s]]
  /\ TakeUp("net", s) /\ Goto("net", "created")
  /\ UNCHANGED <<inst, timer, character, accounts, lists, maps, todo, goal, back>>

(* Two threads test the limit and add a session without a common lock.     *)
Room == Cardinality({a \in Accounts : online[a] # NoSession}) < PlayerLimit

Admit ==
  /\ pc["net"] = "created" /\ Room
  /\ Goto("net", "admitted")
  /\ UNCHANGED <<life, session, character, accounts, lists, maps, at, todo, goal, back>>

AddQueuedSocket ==
  /\ pc["net"] = "created" /\ ~Room
  /\ queue' = queue \cup {at["net"]}
  /\ LetGo("net") /\ Goto("net", "idle")
  /\ UNCHANGED <<life, session, character, online, lists, maps, todo, goal, back>>

(* The order of the queue is left open.  A socket whose connection is gone *)
(* has no session any more.                                                *)
UpdateQueuedSessions(s) ==
  /\ pc["world"] = "idle" /\ Room /\ s \in queue
  /\ queue' = queue \ {s}
  /\ IF sock[s] THEN TakeUp("world", s) /\ Goto("world", "admitted") ELSE UNCHANGED <<at, pc>>
  /\ UNCHANGED <<life, session, character, online, lists, maps, todo, goal, back>>

(* Authenticate: AddSession ...                                            *)
AddSession(t) ==
  /\ pc[t] = "admitted"
  /\ online' = [online EXCEPT ![Account[at[t]]] = at[t]]
  /\ Goto(t, "authenticated")
  /\ UNCHANGED <<life, session, character, queue, lists, maps, at, todo, goal, back>>

(* ... and AddGlobalSession.                                               *)
Authenticated(t) ==
  /\ pc[t] = "authenticated" /\ MayLockSessions(t)
  /\ global' = global \cup {at[t]}
  /\ LetGo(t) /\ Goto(t, "idle")
  /\ UNCHANGED <<life, session, character, accounts, pool, mapSessions, maps, todo, goal, back>>

(* WorldSocket::OnDisconnect, whoever closed the connection.               *)
Disconnect(s) ==
  /\ life[s] = "live" /\ sock[s]
  /\ sock' = [sock EXCEPT ![s] = FALSE]
  /\ UNCHANGED <<life, inst, timer, packets, character, accounts, lists, maps, threads>>

RemoveQueuedSocket(s) ==
  /\ s \in queue /\ ~sock[s]
  /\ queue' = queue \ {s}
  /\ UNCHANGED <<life, session, character, online, lists, maps, threads>>

(* m_currMsTime reaches _logoutTime.                                       *)
Elapse(s) ==
  /\ life[s] = "live" /\ timer[s] = "running"
  /\ timer' = [timer EXCEPT ![s] = "due"]
  /\ UNCHANGED <<life, sock, inst, packets, character, accounts, lists, maps, threads>>

-------------------------------------------------------------------------------
(* WorldSession::LogoutPlayer by thread t, which goes on at label after it. *)

LogoutPlayer(t, why, label) ==
  IF LoggingOut(at[t])
  THEN Goto(t, label) /\ UNCHANGED <<goal, back>>
  ELSE /\ goal' = [goal EXCEPT ![t] = why]
       /\ back' = [back EXCEPT ![t] = label]
       /\ Goto(t, IF player[at[t]] THEN "logout" ELSE "left")

(* Is the player on a map?                                                 *)
LeaveWorld(t) ==
  /\ pc[t] = "logout"
  /\ Goto(t, IF mapMgr[at[t]] # NoMap THEN "leaving" ELSE "left")
  /\ UNCHANGED <<life, session, character, accounts, lists, maps, at, todo, goal, back>>

(* The threads that are in a method of the player of s, or of its map.     *)
UsePlayer(s) ==
  {t \in Threads : at[t] = s /\ pc[t] \in {"adding", "joining", "inserting", "added", "leaving",
                                           "removing", "toGlobal", "left"}}
  \cup {m \in Maps : s \in Inside(m)}

(* The rest of LogoutPlayer.  A player that was added to a map meanwhile   *)
(* leaves a pointer to freed memory in its pool.                           *)
LoggedOut(t) ==
  LET s == at[t] IN
  /\ pc[t] = "left" /\ goal[t] \in Logouts
  /\ player' = [player EXCEPT ![s] = FALSE]
  /\ mapMgr' = [mapMgr EXCEPT ![s] = NoMap]
  /\ pool' = [m \in Maps |-> IF s \in pool[m] THEN (pool[m] \ {s}) \cup {NoSession} ELSE pool[m]]
  /\ timer' = [timer EXCEPT ![s] = "off"]
  /\ goal' = [goal EXCEPT ![t] = NoMap]
  /\ back' = [back EXCEPT ![t] = "idle"]
  /\ GotoLosing(t, back[t], UsePlayer(s))
  /\ UNCHANGED <<life, sock, inst, packets, pushed, dest, accounts, global, mapSessions, maps, at, todo>>

(* InformationRetreiveCallback: FindSession finds session s, and releases  *)
(* its lock.                                                               *)
FindSession(s) ==
  /\ pc["net"] = "idle" /\ online[Account[s]] = s /\ Account[s] \in Twice
  /\ TakeUp("net", s) /\ Goto("net", "found")
  /\ UNCHANGED <<life, session, character, accounts, lists, maps, todo, goal, back>>

(* A player between two maps is logged out on the spot.                    *)
SecondLogin ==
  LET s == at["net"] IN
  /\ pc["net"] = "found"
  /\ IF player[s] /\ mapMgr[s] = NoMap THEN LogoutPlayer("net", "logout", "turning")
     ELSE Goto("net", "turning") /\ UNCHANGED <<goal, back>>
  /\ UNCHANGED <<life, session, character, accounts, lists, maps, at, todo>>

(* The session found loses its connection and has to go; so does the new   *)
(* connection.                                                             *)
TurnAway ==
  LET s == at["net"] IN
  /\ pc["net"] = "turning"
  /\ sock' = [sock EXCEPT ![s] = FALSE]
  /\ timer' = [timer EXCEPT ![s] = "due"]
  /\ LetGo("net") /\ Goto("net", "idle")
  /\ UNCHANGED <<life, inst, packets, character, accounts, lists, maps, todo, goal, back>>

-------------------------------------------------------------------------------
(* The loops around WorldSession::Update.                                  *)

(* UpdateSessions takes SessionsMutex.                                     *)
WorldTick ==
  /\ pc["world"] = "idle"
  /\ todo' = [todo EXCEPT !["world"] = global]
  /\ Goto("world", "loop")
  /\ UNCHANGED <<life, session, character, accounts, lists, maps, at, goal, back>>

(* MapMgr::Do takes m_objectinsertlock.                                    *)
MapTick(m) ==
  /\ pc[m] = "idle"
  /\ Goto(m, "pushing")
  /\ UNCHANGED <<life, session, character, accounts, lists, maps, at, todo, goal, back>>

(* PushToWorld of a player inside the boundaries.  It is taken out of the  *)
(* pool here, the code clears the pool before it gives the lock back.      *)
PushObject(m, s) ==
  /\ pc[m] = "pushing" /\ s \in pool[m] /\ life[s] = "live"
  /\ pool' = [pool EXCEPT ![m] = @ \ {s}]
  /\ mapSessions' = [mapSessions EXCEPT ![m] = @ \cup {s}]
  /\ inst' = [inst EXCEPT ![s] = m]
  /\ mapMgr' = [mapMgr EXCEPT ![s] = m]
  /\ pushed' = [pushed EXCEPT ![s] = FALSE]
  /\ UNCHANGED <<life, sock, timer, packets, player, dest, accounts, global, maps, threads>>

(* One outside of them is teleported to where it is bound, with the lock   *)
(* held.                                                                   *)
PushStray(m, s) ==
  /\ m \in Strays
  /\ pc[m] = "pushing" /\ s \in pool[m] /\ life[s] = "live"
  /\ pool' = [pool EXCEPT ![m] = @ \ {s}]
  /\ mapMgr' = [mapMgr EXCEPT ![s] = m]
  /\ TakeUp(m, s) /\ Goto(m, "leaving")
  /\ \E d \in Continents \ {m} : goal' = [goal EXCEPT ![m] = d]
  /\ back' = [back EXCEPT ![m] = "pushing"]
  /\ UNCHANGED <<life, session, player, pushed, dest, accounts, global, mapSessions, maps, todo>>

PushDone(m) ==
  /\ pc[m] = "pushing" /\ pool[m] = {}
  /\ Goto(m, "duties")
  /\ UNCHANGED <<life, session, character, accounts, lists, maps, at, todo, goal, back>>

(* A script, a spell or an event of the map teleports one of its players.  *)
EventTeleport(m) ==
  /\ pc[m] = "duties"
  /\ \E s \in Inside(m), d \in running \ {m} :
       life[s] = "live" /\ TakeUp(m, s) /\ goal' = [goal EXCEPT ![m] = d]
  /\ back' = [back EXCEPT ![m] = "duties"]
  /\ Goto(m, "leaving")
  /\ UNCHANGED <<life, session, character, accounts, lists, maps, todo>>

DutiesDone(m) ==
  /\ pc[m] = "duties"
  /\ todo' = [todo EXCEPT ![m] = mapSessions[m]]
  /\ Goto(m, "loop")
  /\ UNCHANGED <<life, session, character, accounts, lists, maps, at, goal, back>>

Erase(t, s) ==
  /\ global' = IF t = "world" THEN global \ {s} ELSE global
  /\ mapSessions' = [m \in Maps |-> IF t = m THEN mapSessions[m] \ {s} ELSE mapSessions[m]]
  /\ UNCHANGED pool

(* A session that a loop comes to; the code looks at it even if another    *)
(* thread has deleted it, and a map at its player even if there is none.   *)
ComesTo(t, s) ==
  /\ pc[t] = "loop" /\ s \in todo[t] /\ life[s] = "live"

(* Its instance is another one by now: off the list.                       *)
Drop(t, s) ==
  /\ ComesTo(t, s) /\ inst[s] # Here(t)
  /\ Erase(t, s)
  /\ todo' = [todo EXCEPT ![t] = @ \ {s}]
  /\ UNCHANGED <<life, session, character, accounts, maps, pc, at, goal, back>>

(* A map passes over a player that is not there.                           *)
PassOver(m, s) ==
  /\ ComesTo(m, s) /\ inst[s] = m /\ player[s] /\ mapMgr[s] # m
  /\ todo' = [todo EXCEPT ![m] = @ \ {s}]
  /\ UNCHANGED <<life, session, character, accounts, lists, maps, pc, at, goal, back>>

Visit(t, s) ==
  /\ ComesTo(t, s) /\ inst[s] = Here(t)
  /\ t # "world" => player[s] /\ mapMgr[s] = t
  /\ TakeUp(t, s) /\ Goto(t, "update")
  /\ UNCHANGED <<life, session, character, accounts, lists, maps, todo, goal, back>>

TickDone(t) ==
  /\ pc[t] = "loop" /\ todo[t] = {}
  /\ Goto(t, "idle")
  /\ UNCHANGED <<life, session, character, accounts, lists, maps, at, todo, goal, back>>

(* The instance is deleted with players inside (its group disbands): they  *)
(* have 60 seconds.                                                        *)
BeginInstanceExpireCountdown(m) ==
  /\ m \in (Instances \cap running) \ forced
  /\ forced' = forced \cup {m}
  /\ UNCHANGED <<life, session, character, accounts, lists, running, threads>>

(* InactiveMoveTime has passed at the end of a tick.  It is 0 while there  *)
(* are players in m_PlayerStorage, unless the instance is forced to expire. *)
MapEnds(m) ==
  /\ m \in Instances /\ pc[m] = "loop" /\ todo[m] = {}
  /\ Inside(m) = {} \/ m \in forced
  /\ running' = running \ {m}
  /\ Goto(m, "ending")
  /\ UNCHANGED <<life, session, character, accounts, lists, forced, at, todo, goal, back>>

(* The players left over are ejected.                                      *)
TeleportPlayers(m) ==
  /\ pc[m] = "ending"
  /\ \E s \in Inside(m), d \in Continents :
       life[s] = "live" /\ TakeUp(m, s) /\ goal' = [goal EXCEPT ![m] = d]
  /\ back' = [back EXCEPT ![m] = "ending"]
  /\ Goto(m, "leaving")
  /\ UNCHANGED <<life, session, character, accounts, lists, maps, todo>>

Destructor(m) ==
  /\ pc[m] = "ending" /\ Inside(m) = {}
  /\ mapSessions' = [mapSessions EXCEPT ![m] = {}]
  /\ GotoLosing(m, "ended", {t \in Threads : pc[t] = "inserting" /\ goal[t] = m})
  /\ UNCHANGED <<life, session, character, accounts, global, pool, maps, at, todo, goal, back>>

-------------------------------------------------------------------------------
(* WorldSession::Update, called by thread t on session at[t].              *)

Finish(t) ==
  /\ LetGo(t)
  /\ todo' = [todo EXCEPT ![t] = @ \ {at[t]}]
  /\ Goto(t, "loop")

Return0(t) == Finish(t) /\ UNCHANGED lists

(* It is not ours (any more).  The test is made at the start, after every  *)
(* handler and before the timers.                                          *)
WrongThread(t) ==
  /\ pc[t] \in {"update", "handled", "packets"} /\ inst[at[t]] # Here(t)
  /\ Finish(t) /\ Erase(t, at[t])
  /\ UNCHANGED <<life, session, character, accounts, maps, goal, back>>

OurThread(t, label) == pc[t] = label /\ inst[at[t]] = Here(t)

(* The player is still being moved, and the session would be logged out.   *)
MovedMeanwhile(t) ==
  /\ \/ OurThread(t, "update") /\ ~sock[at[t]]
     \/ OurThread(t, "packets") /\ timer[at[t]] = "due"
  /\ BeingPushed(at[t])

WaitForPush(t) ==
  /\ MovedMeanwhile(t)
  /\ Return0(t)
  /\ UNCHANGED <<life, session, character, accounts, maps, goal, back>>

(* Nothing was heard of the client for 120 seconds.                        *)
TimeoutInQueue(t) ==
  /\ MovedMeanwhile(t)
  /\ LogoutPlayer(t, "logout", "deleting")
  /\ UNCHANGED <<life, session, character, accounts, lists, maps, at, todo>>

UpdateSetsNoTimer(t) ==
  /\ OurThread(t, "update") /\ (sock[at[t]] \/ ~BeingPushed(at[t]))
  /\ Goto(t, "packets")
  /\ UNCHANGED <<life, session, character, accounts, lists, maps, at, todo, goal, back>>

(* The logout timer is set off for a session without connection.           *)
Update(t) ==
  LET s == at[t] IN
  /\ OurThread(t, "update") /\ (sock[s] \/ ~BeingPushed(s))
  /\ timer' = [timer EXCEPT ![s] = IF ~sock[s] /\ @ = "off" THEN "running" ELSE @]
  /\ Goto(t, "packets")
  /\ UNCHANGED <<life, sock, inst, packets, character, accounts, lists, maps, at, todo, goal, back>>

(* A handler runs for one packet of the client.                            *)
Handles(t) ==
  /\ pc[t] = "packets" /\ packets[at[t]] > 0
  /\ packets' = [packets EXCEPT ![at[t]] = @ - 1]
  /\ UNCHANGED <<life, sock, inst, accounts, lists, maps, at, todo>>

(* HandlePlayerLoginOpcode and FullLogin; on a transporter of another map  *)
(* the player waits for a WORLDPORT_ACK.                                   *)
HandlePlayerLogin(t) ==
  LET s == at[t] IN
  /\ Handles(t) /\ ~player[s]
  /\ player' = [player EXCEPT ![s] = TRUE]
  /\ mapMgr' = [mapMgr EXCEPT ![s] = NoMap]
  /\ pushed' = [pushed EXCEPT ![s] = FALSE]
  /\ \E m \in Continents : dest' = [dest EXCEPT ![s] = m]
  /\ \E label \in {"adding", "handled"} : Goto(t, label)
  /\ UNCHANGED <<timer, goal, back>>

(* A player whose transporter has changed maps is sent after it.           *)
HandleMoveWorldportAck(t) ==
  LET s == at[t] IN
  /\ Handles(t) /\ player[s] /\ mapMgr[s] = NoMap
  /\ \/ Goto(t, "adding") /\ UNCHANGED dest
     \/ Goto(t, "handled") /\ \E m \in Continents : dest' = [dest EXCEPT ![s] = m]
  /\ UNCHANGED <<timer, player, mapMgr, pushed, goal, back>>

(* Whatever makes the player SafeTeleport to another map.                  *)
HandleTeleport(t) ==
  LET s == at[t] IN
  /\ Handles(t) /\ player[s]
  /\ \E d \in running \ {dest[s]} :
       \/ /\ mapMgr[s] = NoMap
          /\ dest' = [dest EXCEPT ![s] = d]
          /\ Goto(t, "handled") /\ UNCHANGED <<goal, back>>
       \/ /\ mapMgr[s] # NoMap
          /\ goal' = [goal EXCEPT ![t] = d]
          /\ back' = [back EXCEPT ![t] = "handled"]
          /\ Goto(t, "leaving") /\ UNCHANGED dest
  /\ UNCHANGED <<timer, player, mapMgr, pushed>>

(* CMSG_LOGOUT_REQUEST (at once, or in 20 seconds) and its cancellation.   *)
HandleLogoutRequest(t) ==
  /\ Handles(t) /\ player[at[t]]
  /\ \E v \in {"off", "running", "due"} : timer' = [timer EXCEPT ![at[t]] = v]
  /\ Goto(t, "handled")
  /\ UNCHANGED <<character, goal, back>>

HandlePlayerLogout(t) ==
  /\ Handles(t)
  /\ LogoutPlayer(t, "logout", "handled")
  /\ UNCHANGED <<timer, character>>

(* Update after each handler.                                              *)
Handled(t) ==
  /\ OurThread(t, "handled")
  /\ Goto(t, IF BDeleted(at[t]) THEN "deleting" ELSE "packets")
  /\ UNCHANGED <<life, session, character, accounts, lists, maps, at, todo, goal, back>>

(* No more packets; the logout timer is not due.                           *)
NoTimer(t) ==
  /\ OurThread(t, "packets") /\ timer[at[t]] # "due"
  /\ Goto(t, "ping")
  /\ UNCHANGED <<life, session, character, accounts, lists, maps, at, todo, goal, back>>

(* It is: a session without connection goes with its player.               *)
Timer(t) ==
  LET s == at[t] IN
  /\ OurThread(t, "packets") /\ timer[s] = "due" /\ ~BeingPushed(s)
  /\ \/ sock[s] /\ LogoutPlayer(t, "logout", "ping")
     \/ ~sock[s] /\ LogoutPlayer(t, "delete", "deleting")
  /\ UNCHANGED <<life, session, character, accounts, lists, maps, at, todo>>

(* The ping is late (missed), or not.                                      *)
Ping(t) ==
  LET s == at[t] IN
  /\ pc[t] = "ping"
  /\ \E missed \in BOOLEAN :
       /\ missed => ~BeingPushed(s)
       /\ sock' = [sock EXCEPT ![s] = @ /\ ~missed]
       /\ timer' = [timer EXCEPT ![s] = IF missed /\ @ = "off" THEN "running" ELSE @]
  /\ Return0(t)
  /\ UNCHANGED <<life, inst, packets, character, accounts, maps, goal, back>>

(* Update has returned 1.  The threads at the session use it after it is   *)
(* freed.                                                                  *)
DeleteGlobalSession(t) ==
  LET s == at[t] IN
  /\ pc[t] = "deleting"
  /\ online' = [online EXCEPT ![Account[s]] = NoSession]
  /\ life' = [life EXCEPT ![s] = "deleted"]
  /\ Erase(t, s)
  /\ LetGo(t)
  /\ todo' = [todo EXCEPT ![t] = @ \ {s}]
  /\ GotoLosing(t, "loop", {u \in Threads : at[u] = s})
  /\ UNCHANGED <<session, character, queue, maps, goal, back>>

-------------------------------------------------------------------------------
(* On to a map: Player::AddToWorld.                                        *)

AddToWorld(t) ==
  LET s == at[t] IN
  /\ pc[t] = "adding"
  /\ \/ mapMgr[s] # NoMap /\ Goto(t, "handled") /\ UNCHANGED pushed
     \/ /\ mapMgr[s] = NoMap
        /\ pushed' = [pushed EXCEPT ![s] = TRUE]
        /\ Goto(t, "joining")
  /\ UNCHANGED <<life, session, player, mapMgr, dest, accounts, lists, maps, at, todo, goal, back>>

(* Object::AddToWorld.  An instance may be gone, full, or for raids only.  *)
Join(t) ==
  LET s == at[t] IN
  /\ pc[t] = "joining"
  /\ \/ /\ dest[s] \in running
        /\ mapMgr' = [mapMgr EXCEPT ![s] = dest[s]]
        /\ goal' = [goal EXCEPT ![t] = dest[s]]
        /\ Goto(t, "inserting")
     \/ dest[s] \in Instances /\ Goto(t, "added") /\ UNCHANGED <<mapMgr, goal>>
  /\ UNCHANGED <<life, session, player, pushed, dest, accounts, lists, maps, at, todo, back>>

(* MapMgr::AddObject, under the lock of the pool.                          *)
AddObject(t) ==
  LET m == goal[t] IN
  /\ pc[t] = "inserting" /\ ~InsertLocked(m)
  /\ pool' = [pool EXCEPT ![m] = @ \cup {at[t]}]
  /\ goal' = [goal EXCEPT ![t] = NoMap]
  /\ Goto(t, "added")
  /\ UNCHANGED <<life, session, character, accounts, global, mapSessions, maps, at, todo, back>>

(* Add failed: EjectFromInstance.  Otherwise the instance is read ...      *)
Added(t) ==
  LET s == at[t] IN
  /\ pc[t] = "added"
  /\ \/ /\ mapMgr[s] = NoMap
        /\ pushed' = [pushed EXCEPT ![s] = FALSE]
        /\ \E m \in Continents : dest' = [dest EXCEPT ![s] = m]
        /\ Goto(t, "handled") /\ UNCHANGED goal
     \/ /\ mapMgr[s] # NoMap
        /\ goal' = [goal EXCEPT ![t] = mapMgr[s]]
        /\ Goto(t, "setting") /\ UNCHANGED <<pushed, dest>>
  /\ UNCHANGED <<life, session, player, mapMgr, accounts, lists, maps, at, todo, back>>

(* ... and written to the session.                                         *)
SetInstance(t) ==
  /\ pc[t] = "setting"
  /\ inst' = [inst EXCEPT ![at[t]] = goal[t]]
  /\ goal' = [goal EXCEPT ![t] = NoMap]
  /\ Goto(t, "handled")
  /\ UNCHANGED <<life, sock, timer, packets, character, accounts, lists, maps, at, todo, back>>

-------------------------------------------------------------------------------
(* Off the map: Object::RemoveFromWorld and MapMgr::RemoveObject.          *)

(* ASSERT(m_mapMgr): lost if another thread has removed the player since.  *)
RemoveFromWorld(t) ==
  /\ pc[t] = "leaving"
  /\ mapMgr' = [mapMgr EXCEPT ![at[t]] = NoMap]
  /\ Goto(t, IF mapMgr[at[t]] # NoMap THEN "removing" ELSE "lost")
  /\ UNCHANGED <<life, session, player, pushed, dest, accounts, lists, maps, at, todo, goal, back>>

RemoveObjectAtLogout(t) ==
  LET s == at[t] IN
  /\ pc[t] = "removing"
  /\ inst' = [inst EXCEPT ![s] = NoMap]
  /\ Goto(t, IF LoggingOut(s) THEN "left" ELSE "toGlobal")
  /\ UNCHANGED <<life, sock, timer, packets, character, accounts, lists, maps, at, todo, goal, back>>

RemoveObject(t) ==
  LET s == at[t] IN
  /\ pc[t] = "removing"
  /\ inst' = [inst EXCEPT ![s] = NoMap]
  /\ Goto(t, IF BDeleted(s) THEN "left" ELSE "toGlobal")
  /\ UNCHANGED <<life, sock, timer, packets, character, accounts, lists, maps, at, todo, goal, back>>

AddGlobalSession(t) ==
  /\ pc[t] = "toGlobal" /\ MayLockSessions(t)
  /\ global' = global \cup {at[t]}
  /\ Goto(t, "left")
  /\ UNCHANGED <<life, session, character, accounts, pool, mapSessions, maps, at, todo, goal, back>>

RelocatedTooLate(t) ==
  LET s == at[t] IN
  /\ pc[t] = "left" /\ goal[t] \in Maps
  /\ goal' = [goal EXCEPT ![t] = NoMap]
  /\ dest' = [dest EXCEPT ![s] = goal'[t]]
  /\ pushed' = [pushed EXCEPT ![s] = @ /\ back[t] # "pushing"]
  /\ back' = [back EXCEPT ![t] = "idle"]
  /\ Goto(t, back[t])
  /\ IF back[t] = "handled" THEN UNCHANGED at ELSE LetGo(t)
  /\ UNCHANGED <<life, session, player, mapMgr, accounts, lists, maps, todo>>

RelocatedStillPushed(t) ==
  LET s == at[t] IN
  /\ pc[t] = "left" /\ goal[t] \in Maps
  /\ dest' = [dest EXCEPT ![s] = goal[t]]
  /\ goal' = [goal EXCEPT ![t] = NoMap]
  /\ back' = [back EXCEPT ![t] = "idle"]
  /\ Goto(t, back[t])
  /\ IF back[t] = "handled" THEN UNCHANGED at ELSE LetGo(t)
  /\ UNCHANGED <<life, session, player, mapMgr, pushed, accounts, lists, maps, todo>>

(* The rest of _Relocate, and of PushToWorld if it came from there.        *)
Relocated(t) ==
  LET s == at[t] IN
  /\ pc[t] = "left" /\ goal[t] \in Maps
  /\ dest' = [dest EXCEPT ![s] = goal[t]]
  /\ pushed' = [pushed EXCEPT ![s] = @ /\ back[t] # "pushing"]
  /\ goal' = [goal EXCEPT ![t] = NoMap]
  /\ back' = [back EXCEPT ![t] = "idle"]
  /\ Goto(t, back[t])
  /\ IF back[t] = "handled" THEN UNCHANGED at ELSE LetGo(t)
  /\ UNCHANGED <<life, session, player, mapMgr, accounts, lists, maps, todo>>

-------------------------------------------------------------------------------
(* LogoutPlayer, in whichever thread.                                      *)
Logout(t) ==
  \/ LeaveWorld(t) \/ RemoveFromWorld(t) \/ RemoveObject(t) \/ AddGlobalSession(t)
  \/ LoggedOut(t)

Network ==
  \/ \E s \in Sessions : Login(s) \/ FindSession(s) \/ Disconnect(s) \/ RemoveQueuedSocket(s)
  \/ Admit \/ AddQueuedSocket \/ AddSession("net") \/ Authenticated("net")
  \/ SecondLogin \/ TurnAway \/ Logout("net")

Handler(t) ==
  \/ HandlePlayerLogin(t) \/ HandleMoveWorldportAck(t) \/ HandleTeleport(t)
  \/ HandleLogoutRequest(t) \/ HandlePlayerLogout(t)

(* What a thread does on its own, however the client behaves.              *)
UpdateLoop(t) ==
  \/ \E s \in Sessions : Drop(t, s) \/ Visit(t, s)
  \/ TickDone(t)
  \/ WrongThread(t) \/ WaitForPush(t) \/ TimeoutInQueue(t)
  \/ Update(t) \/ Handled(t) \/ NoTimer(t) \/ Timer(t) \/ Ping(t)
  \/ DeleteGlobalSession(t)
  \/ AddToWorld(t) \/ Join(t) \/ AddObject(t) \/ Added(t) \/ SetInstance(t)
  \/ Logout(t) \/ Relocated(t)

WorldThread == WorldTick \/ AddSession("world") \/ Authenticated("world") \/ UpdateLoop("world")

MapThread(m) ==
  \/ MapTick(m) \/ PushDone(m) \/ DutiesDone(m) \/ UpdateLoop(m)
  \/ \E s \in Sessions : PushObject(m, s) \/ PushStray(m, s) \/ PassOver(m, s)
  \/ TeleportPlayers(m) \/ Destructor(m)

Next ==
  \/ Network
  \/ WorldThread
  \/ \E s \in Sessions : Elapse(s) \/ UpdateQueuedSessions(s)
  \/ \E m \in Maps :
       MapThread(m) \/ EventTeleport(m) \/ BeginInstanceExpireCountdown(m) \/ MapEnds(m)
  \/ \E t \in Maps \cup {"world"} : Handler(t)

Spec == Init /\ [][Next]_vars

(* Threads go on and timers run out; no client has to send anything, no    *)
(* script has to teleport anybody and no map has to end.  The world and    *)
(* the maps sleep between two ticks, long enough for a thread that waits   *)
(* for one of their locks.                                                 *)
FairSpec ==
  /\ Spec
  /\ WF_vars(WorldThread)
  /\ WF_vars(Admit \/ AddQueuedSocket \/ SecondLogin \/ TurnAway \/ AddSession("net") \/ Logout("net"))
  /\ \A m \in Maps : WF_vars(MapThread(m))
  /\ \A t \in Threads : SF_vars(Authenticated(t) \/ AddGlobalSession(t) \/ AddObject(t))
  /\ \A s \in Sessions : WF_vars(Elapse(s) \/ RemoveQueuedSocket(s) \/ UpdateQueuedSessions(s))

-------------------------------------------------------------------------------
Labels ==
  {"idle", "created", "admitted", "authenticated", "found", "turning", "pushing", "loop",
   "duties", "update", "packets", "handled", "ping", "deleting", "adding", "joining",
   "inserting", "added", "setting", "logout", "leaving", "removing", "toGlobal", "left",
   "ending", "ended", "lost"}

ReturnLabels ==
  {"idle", "pushing", "duties", "handled", "ping", "deleting", "turning", "ending"}

TypeOK ==
  /\ life \in [Sessions -> {"none", "live", "deleted"}]
  /\ sock \in [Sessions -> BOOLEAN] /\ player \in [Sessions -> BOOLEAN]
  /\ pushed \in [Sessions -> BOOLEAN]
  /\ inst \in [Sessions -> Maps \cup {NoMap}]
  /\ mapMgr \in [Sessions -> Maps \cup {NoMap}]
  /\ dest \in [Sessions -> Maps \cup {NoMap}]
  /\ timer \in [Sessions -> {"off", "running", "due"}]
  /\ packets \in [Sessions -> Nat] /\ \A s \in Sessions : packets[s] <= MaxPackets[s]
  /\ online \in [Accounts -> Sessions \cup {NoSession}]
  /\ queue \subseteq Sessions /\ global \subseteq Sessions
  /\ pool \in [Maps -> SUBSET (Sessions \cup {NoSession})]
  /\ mapSessions \in [Maps -> SUBSET Sessions]
  /\ forced \subseteq Instances /\ running \subseteq Maps
  /\ pc \in [Threads -> Labels]
  /\ at \in [Threads -> Sessions \cup {NoSession}]
  /\ todo \in [Threads -> SUBSET Sessions]
  /\ goal \in [Threads -> Maps \cup {NoMap} \cup Logouts]
  /\ back \in [Threads -> ReturnLabels]
  /\ \A s \in Sessions : player[s] => dest[s] # NoMap

(* A player marked as being pushed to a map is on its way there: it is in  *)
(* an insert pool, or a thread is adding or pushing it (or was when memory *)
(* was freed under it).  Until nothing was heard of the client for 120     *)
(* seconds Update neither logs such a player out nor deletes its session,  *)
(* so a flag left behind would keep both.                                  *)
PushedIsPending ==
  \A s \in Sessions : life[s] = "live" /\ BeingPushed(s) =>
    \/ \E m \in Maps : s \in pool[m]
    \/ \E t \in Threads :
         at[t] = s /\ (pc[t] \in {"joining", "inserting", "added", "lost"} \/ back[t] = "pushing")

(* A session whose instance is 0 is the world thread's to update: it is in *)
(* GlobalSessions, or about to be deleted, or the thread that has set the  *)
(* instance is on its way to put it there (or was when memory was freed    *)
(* under it).  The thread of a map leaves it alone from then on.           *)
HandedBack ==
  \A s \in Sessions : life[s] = "live" /\ online[Account[s]] = s /\ inst[s] = NoMap =>
    \/ s \in global
    \/ BDeleted(s)
    \/ \E t \in Threads : at[t] = s /\ pc[t] \in {"authenticated", "toGlobal", "lost"}

Listed(s) == s \in global \/ \E m \in Maps : s \in pool[m] \cup mapSessions[m]

(* No two sessions of one account are played at a time: "otherwise         *)
(* accounts dupe up and disasters happen".                                 *)
OneSessionPerAccount ==
  \A s, u \in Sessions :
    /\ life[s] = "live" /\ Listed(s)
    /\ life[u] = "live" /\ Listed(u)
    /\ Account[s] = Account[u]
    => s = u

(* What no thread updates any more though m_sessions has it: the world has *)
(* it no longer, and the map that its instance names has it neither in its *)
(* pool nor as the session of one of its players.                          *)
Forgotten(s) ==
  /\ \A t \in Threads : at[t] # s
  /\ ~(inst[s] = NoMap /\ s \in global)
  /\ ~ \E m \in Maps : inst[s] = m /\ (s \in pool[m] \/ (s \in mapSessions[m] /\ mapMgr[s] = m))

(* In the insert pool of a map whose thread has decided to end.            *)
Stranded(s) == \E m \in Maps : s \in pool[m] /\ m \notin running

(* A thread has used a player, session or map that was freed, or will when *)
(* it comes to a deleted session in its loop or pushes its pool.           *)
UsesFreed ==
  \/ \E t \in Threads : pc[t] = "lost" \/ \E s \in todo[t] : life[s] = "deleted"
  \/ \E m \in Maps : NoSession \in pool[m]

(* A session that has lost its connection is deleted in the end, wherever  *)
(* its player was.  Three things may come between, and no other: two       *)
(* threads leave it where neither updates it, its map ends with the player *)
(* in the pool, or a thread uses freed memory.                             *)
DisconnectedIsDeleted ==
  \A s \in Sessions :
    life[s] = "live" /\ ~sock[s] /\ online[Account[s]] = s ~>
      life[s] = "deleted" \/ Forgotten(s) \/ Stranded(s) \/ UsesFreed

(* A session without connection whose player does not get into its map is  *)
(* deleted after the timeout "in case AddToWorld failed".                  *)
StrandedIsDeleted ==
  \A s \in Sessions : life[s] = "live" /\ ~sock[s] /\ Stranded(s) ~> life[s] = "deleted"

-------------------------------------------------------------------------------
(* What one might expect besides, and TLC finds violated (README.md, "Seen *)
(* in the models", has the constants for each).                            *)

(* A session that somebody is not just working on is always on the list of *)
(* a thread that will update it: the instance set when a player is removed *)
(* from a map sees to that.                                                *)
NeverForgotten ==
  \A s \in Sessions : life[s] = "live" /\ online[Account[s]] = s => ~Forgotten(s)

(* "Sessions are updated every loop": the threads of a map and of the      *)
(* world do not wait for each other's locks, a map that pushes its pool    *)
(* for SessionsMutex and the world for the lock of that pool.              *)
NoCircularWait ==
  ~ \E m \in Maps :
      pc[m] = "toGlobal" /\ InsertLocked(m) /\ pc["world"] = "inserting" /\ goal["world"] = m

(* A session without socket is deleted "from both world- and map-sessions". *)
DeletedIsNowhere ==
  \A s \in Sessions : life[s] = "deleted" =>
    s \notin global /\ \A m \in Maps : s \notin mapSessions[m]

(* The player of a session has been logged out when it is deleted; the     *)
(* destructor warns otherwise.                                             *)
LoggedOutFirst ==
  [][\A s \in Sessions : life[s] = "live" /\ life'[s] = "deleted" => ~player[s]]_vars
=============================================================================
