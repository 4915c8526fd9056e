------------------------- MODULE WorldSessionsProofs -------------------------
(***************************************************************************)
(* Proofs about WorldSessions, for any number of sessions, accounts and    *)
(* maps, however often clients connect again and players arrive outside of *)
(* a map: types, and that a player being pushed and a session taken off a  *)
(* map are always on somebody's way.                                       *)
(*                                                                         *)
(* Two threads may be at one session, so no step can rely on what its      *)
(* thread has seen before.  What makes the argument work all the same is   *)
(* that each thread leaves its own traces: at, pc, goal and back change    *)
(* by its own steps only, or to "lost".                                    *)
(***************************************************************************)
EXTENDS WorldSessions, FiniteSetTheorems, TLAPS

(* The labels at which a thread has a session.                             *)
SessionLabels == Labels \ {"idle", "pushing", "loop", "duties", "ending", "ended", "lost"}

(* From the start of LogoutPlayer or _Relocate to the return from it.      *)
Way == {"logout", "leaving", "removing", "toGlobal", "left", "lost"}

(* What a thread remembers goes with where it is.                          *)
Orderly ==
  \A t \in Threads :
    /\ pc[t] \in SessionLabels => at[t] \in Sessions
    /\ pc[t] \in {"inserting", "setting"} => goal[t] \in Maps
    /\ pc[t] \notin Way => back[t] = "idle" /\ goal[t] \notin Logouts
    /\ goal[t] = "delete" => back[t] = "deleting"
    /\ pc[t] \in Way \ {"lost"} /\ goal[t] \in Maps =>
         back[t] \in {"pushing", "duties", "handled", "ending"}

(* Nothing refers to a session before it is created.                       *)
Unborn ==
  \A s \in Sessions : life[s] = "none" =>
    /\ ~player[s] /\ mapMgr[s] = NoMap
    /\ s \notin queue /\ online[Account[s]] # s
    /\ \A t \in Threads : at[t] # s

(* The thread at s will see to the flag, or will put s into a pool.        *)
Pushes(t, s) ==
  /\ at[t] = s
  /\ \/ pc[t] \in {"inserting", "lost"} \/ back[t] = "pushing"
     \/ pc[t] \in {"joining", "added"} /\ mapMgr[s] = NoMap

(* PushedIsPending, but for a thread that finds its player on another map. *)
Pending ==
  \A s \in Sessions : life[s] = "live" /\ BeingPushed(s) =>
    \/ \E m \in Maps : s \in pool[m]
    \/ \E t \in Threads : Pushes(t, s)

(* The thread at s is about to list it for the world, or to delete it.     *)
InHand(t, s) ==
  /\ at[t] = s
  /\ goal[t] = "delete" \/ pc[t] \in {"authenticated", "toGlobal", "deleting", "lost"}

Kept ==
  \A s \in Sessions : life[s] = "live" /\ online[Account[s]] = s /\ inst[s] = NoMap =>
    s \in global \/ \E t \in Threads : InHand(t, s)

(* Nobody but the network thread knows of a session that was just created. *)
Unlisted(s) ==
  /\ mapMgr[s] = NoMap /\ ~Listed(s)
  /\ \A t \in Threads : s \notin todo[t]

New(s) == at["net"] = s /\ pc["net"] \in {"created", "admitted"}

(* There is always room, so that no session has to wait in the queue.      *)
Unlimited == IsFiniteSet(Accounts) /\ Cardinality(Accounts) < PlayerLimit

(* m_sessions has the live sessions, but for the one just created, and a   *)
(* thread at a session that was deleted is lost.                           *)
Registered ==
  /\ queue = {}
  /\ \A t \in Threads \ {"net"} : pc[t] \notin {"created", "admitted", "authenticated"}
  /\ \A t \in Threads : at[t] \in Sessions /\ pc[t] # "lost" => life[at[t]] = "live"
  /\ \A s \in Sessions :
       /\ life[s] = "live" => online[Account[s]] = s \/ New(s)
       /\ online[Account[s]] = s => life[s] = "live"
       /\ life[s] = "none" \/ New(s) => Unlisted(s)
       /\ New(s) =>
            online[Account[s]] = NoSession /\ \A t \in Threads \ {"net"} : at[t] # s

IInv ==
  /\ TypeOK /\ Orderly /\ Unborn /\ Pending /\ Kept
  /\ Unlimited => Registered

-------------------------------------------------------------------------------
(* A map is not taken for another thread, nor for a reason to leave.       *)
LEMMA NamesApart ==
  /\ NoMap \notin Maps /\ NoSession \notin Sessions
  /\ "world" \notin Maps /\ "net" \notin Maps /\ NoMap \notin Logouts
  /\ "logout" \notin Maps /\ "delete" \notin Maps
  /\ Threads = Maps \cup {"world", "net"}
  /\ Continents \subseteq Maps /\ Instances \subseteq Maps
  /\ \A s \in Sessions : Account[s] \in Accounts /\ MaxPackets[s] \in Nat
BY WorldSessionsAssumption DEF Maps, Threads, Accounts, Logouts

(* No login has to wait then.                                              *)
LEMMA RoomAlways ==
  ASSUME Unlimited, TypeOK
  PROVE  Room
<1>1. {a \in Accounts : online[a] # NoSession} \subseteq Accounts
  OBVIOUS
<1>2. /\ IsFiniteSet({a \in Accounts : online[a] # NoSession})
      /\ Cardinality({a \in Accounts : online[a] # NoSession}) <= Cardinality(Accounts)
  BY <1>1, FS_Subset DEF Unlimited
<1>3. Cardinality({a \in Accounts : online[a] # NoSession}) \in Nat /\ Cardinality(Accounts) \in Nat
  BY <1>2, FS_CardinalityType DEF Unlimited
<1> QED BY <1>2, <1>3, WorldSessionsAssumption DEF Unlimited, Room

-------------------------------------------------------------------------------
(* Each action keeps the invariant.                                        *)
LEMMA LoginKeeps ==
  ASSUME NEW s \in Sessions, IInv, Login(s)
  PROVE  IInv'
<1> USE NamesApart DEF IInv, Login,
     Goto, TakeUp, LetGo, session, character, accounts, lists, maps, threads
<1>1. TypeOK'
  BY DEF TypeOK, Orderly, SessionLabels, Labels, ReturnLabels, Way, Logouts
<1>2. Orderly'
  BY DEF TypeOK, Orderly, SessionLabels, Labels, ReturnLabels, Way, Logouts
<1>3. Unborn'
  BY DEF TypeOK, Orderly, Unborn, SessionLabels, Labels
<1>4. Pending'
  BY SMTT(30) DEF TypeOK, Orderly, Unborn, Pending, Pushes, BeingPushed, SessionLabels, Labels, Way, Logouts
<1>5. Kept'
  BY DEF TypeOK, Orderly, Unborn, Kept, InHand, SessionLabels, Labels, Way, Logouts
<1>6. ASSUME Unlimited
      PROVE  Registered'
  <2> SUFFICES ASSUME NEW x \in Sessions
               PROVE  /\ life'[x] = "live" => online[Account[x]] = x \/ New(x)'
                      /\ online[Account[x]] = x => life'[x] = "live"
                      /\ life'[x] = "none" \/ New(x)' => Unlisted(x)
                      /\ New(x)' =>
                           /\ online[Account[x]] = NoSession
                           /\ \A t \in Threads \ {"net"} : at'[t] # x
    BY <1>6 DEF TypeOK, Registered, Unlisted, Listed
  <2>1. CASE x = s
    BY <1>6, <2>1 DEF TypeOK, Registered, Unborn, New
  <2>2. CASE x # s
    BY <1>6, <2>2 DEF TypeOK, Registered, New
  <2> QED BY <2>1, <2>2
<1> QED BY <1>1, <1>2, <1>3, <1>4, <1>5, <1>6

LEMMA FindSessionKeeps ==
  ASSUME NEW s \in Sessions, IInv, FindSession(s)
  PROVE  IInv'
<1> USE NamesApart DEF IInv, FindSession,
     Goto, TakeUp, LetGo, session, character, accounts, lists, maps, threads
<1>1. TypeOK'
  BY DEF TypeOK, Orderly, SessionLabels, Labels, ReturnLabels, Way, Logouts
<1>2. Orderly'
  BY DEF TypeOK, Orderly, SessionLabels, Labels, ReturnLabels, Way, Logouts
<1>3. Unborn'
  BY DEF TypeOK, Orderly, Unborn, SessionLabels, Labels
<1>4. Pending'
  BY DEF TypeOK, Orderly, Unborn, Pending, Pushes, BeingPushed, SessionLabels, Labels, Way, Logouts
<1>5. Kept'
  BY DEF TypeOK, Orderly, Unborn, Kept, InHand, SessionLabels, Labels, Way, Logouts
<1>6. ASSUME Unlimited
      PROVE  Registered'
  BY <1>6 DEF TypeOK, Orderly, Registered, New, Unlisted, Listed, SessionLabels, Labels
<1> QED BY <1>1, <1>2, <1>3, <1>4, <1>5, <1>6

LEMMA DisconnectKeeps ==
  ASSUME NEW s \in Sessions, IInv, Disconnect(s)
  PROVE  IInv'
<1> USE NamesApart DEF IInv, Disconnect,
     Goto, TakeUp, LetGo, session, character, accounts, lists, maps, threads
<1>1. TypeOK'
  BY DEF TypeOK, Orderly, SessionLabels, Labels, ReturnLabels, Way, Logouts
<1>2. Orderly'
  BY DEF TypeOK, Orderly, SessionLabels, Labels, ReturnLabels, Way, Logouts
<1>3. Unborn'
  BY DEF TypeOK, Orderly, Unborn, SessionLabels, Labels
<1>4. Pending'
  BY DEF TypeOK, Orderly, Unborn, Pending, Pushes, BeingPushed, SessionLabels, Labels, Way, Logouts
<1>5. Kept'
  BY DEF TypeOK, Orderly, Unborn, Kept, InHand, SessionLabels, Labels, Way, Logouts
<1>6. ASSUME Unlimited
      PROVE  Registered'
  BY <1>6 DEF TypeOK, Orderly, Registered, New, Unlisted, Listed, SessionLabels, Labels
<1> QED BY <1>1, <1>2, <1>3, <1>4, <1>5, <1>6

LEMMA RemoveQueuedSocketKeeps ==
  ASSUME NEW s \in Sessions, IInv, RemoveQueuedSocket(s)
  PROVE  IInv'
<1> USE NamesApart DEF IInv, RemoveQueuedSocket,
     Goto, TakeUp, LetGo, session, character, accounts, lists, maps, threads
<1>1. TypeOK'
  BY DEF TypeOK, Orderly, SessionLabels, Labels, ReturnLabels, Way, Logouts
<1>2. Orderly'
  BY DEF TypeOK, Orderly, SessionLabels, Labels, ReturnLabels, Way, Logouts
<1>3. Unborn'
  BY DEF TypeOK, Orderly, Unborn, SessionLabels, Labels
<1>4. Pending'
  BY DEF TypeOK, Orderly, Unborn, Pending, Pushes, BeingPushed, SessionLabels, Labels, Way, Logouts
<1>5. Kept'
  BY DEF TypeOK, Orderly, Unborn, Kept, InHand, SessionLabels, Labels, Way, Logouts
<1>6. ASSUME Unlimited
      PROVE  Registered'
  BY <1>6 DEF TypeOK, Orderly, Registered, New, Unlisted, Listed, SessionLabels, Labels
<1> QED BY <1>1, <1>2, <1>3, <1>4, <1>5, <1>6

LEMMA AdmitKeeps ==
  ASSUME IInv, Admit
  PROVE  IInv'
<1> USE NamesApart DEF IInv, Admit,
     Goto, TakeUp, LetGo, session, character, accounts, lists, maps, threads
<1>1. TypeOK'
  BY DEF TypeOK, Orderly, SessionLabels, Labels, ReturnLabels, Way, Logouts
<1>2. Orderly'
  BY DEF TypeOK, Orderly, SessionLabels, Labels, ReturnLabels, Way, Logouts
<1>3. Unborn'
  BY DEF TypeOK, Orderly, Unborn, SessionLabels, Labels
<1>4. Pending'
  BY DEF TypeOK, Orderly, Unborn, Pending, Pushes, BeingPushed, SessionLabels, Labels, Way, Logouts
<1>5. Kept'
  BY DEF TypeOK, Orderly, Unborn, Kept, InHand, SessionLabels, Labels, Way, Logouts
<1>6. ASSUME Unlimited
      PROVE  Registered'
  BY <1>6 DEF TypeOK, Orderly, Registered, New, Unlisted, Listed, SessionLabels, Labels
<1> QED BY <1>1, <1>2, <1>3, <1>4, <1>5, <1>6

LEMMA AddQueuedSocketKeeps ==
  ASSUME IInv, AddQueuedSocket
  PROVE  IInv'
<1> USE NamesApart DEF IInv, AddQueuedSocket,
     Goto, TakeUp, LetGo, session, character, accounts, lists, maps, threads
<1>1. TypeOK'
  BY SMTT(30) DEF TypeOK, Orderly, SessionLabels, Labels, ReturnLabels, Way, Logouts
<1>2. Orderly'
  BY SMTT(30) DEF TypeOK, Orderly, SessionLabels, Labels, ReturnLabels, Way, Logouts
<1>3. Unborn'
  BY DEF TypeOK, Orderly, Unborn, SessionLabels, Labels
<1>4. Pending'
  BY DEF TypeOK, Orderly, Unborn, Pending, Pushes, BeingPushed, SessionLabels, Labels, Way, Logouts
<1>5. Kept'
  BY DEF TypeOK, Orderly, Unborn, Kept, InHand, SessionLabels, Labels, Way, Logouts
<1>6. ASSUME Unlimited
      PROVE  Registered'
  BY <1>6, RoomAlways
<1> QED BY <1>1, <1>2, <1>3, <1>4, <1>5, <1>6

LEMMA UpdateQueuedSessionsKeeps ==
  ASSUME NEW s \in Sessions, IInv, UpdateQueuedSessions(s)
  PROVE  IInv'
<1> USE NamesApart DEF IInv, UpdateQueuedSessions,
     Goto, TakeUp, LetGo, session, character, accounts, lists, maps, threads
<1>1. TypeOK'
  BY DEF TypeOK, Orderly, SessionLabels, Labels, ReturnLabels, Way, Logouts
<1>2. Orderly'
  BY DEF TypeOK, Orderly, SessionLabels, Labels, ReturnLabels, Way, Logouts
<1>3. Unborn'
  BY DEF TypeOK, Orderly, Unborn, SessionLabels, Labels
<1>4. Pending'
  BY DEF TypeOK, Orderly, Unborn, Pending, Pushes, BeingPushed, SessionLabels, Labels, Way, Logouts
<1>5. Kept'
  BY SMTT(30) DEF TypeOK, Orderly, Unborn, Kept, InHand, SessionLabels, Labels, Way, Logouts
<1>6. ASSUME Unlimited
      PROVE  Registered'
  BY <1>6 DEF Registered
<1> QED BY <1>1, <1>2, <1>3, <1>4, <1>5, <1>6

LEMMA AddSessionKeeps ==
  ASSUME NEW t \in Threads, IInv, AddSession(t)
  PROVE  IInv'
<1> USE NamesApart DEF IInv, AddSession,
     Goto, TakeUp, LetGo, session, character, accounts, lists, maps, threads
<1>1. TypeOK'
  BY DEF TypeOK, Orderly, SessionLabels, Labels, ReturnLabels, Way, Logouts
<1>2. Orderly'
  BY DEF TypeOK, Orderly, SessionLabels, Labels, ReturnLabels, Way, Logouts
<1>3. Unborn'
  BY DEF TypeOK, Orderly, Unborn, SessionLabels, Labels
<1>4. Pending'
  BY SMTT(30) DEF TypeOK, Orderly, Unborn, Pending, Pushes, BeingPushed, SessionLabels, Labels, Way, Logouts
<1>5. Kept'
  BY DEF TypeOK, Orderly, Unborn, Kept, InHand, SessionLabels, Labels, Way, Logouts
<1>6. ASSUME Unlimited
      PROVE  Registered'
  BY SMTT(30), <1>6 DEF TypeOK, Orderly, Registered, New, Unlisted, Listed, SessionLabels, Labels
<1> QED BY <1>1, <1>2, <1>3, <1>4, <1>5, <1>6

LEMMA AuthenticatedKeeps ==
  ASSUME NEW t \in Threads, IInv, Authenticated(t)
  PROVE  IInv'
<1> USE NamesApart DEF IInv, Authenticated,
     Goto, TakeUp, LetGo, session, character, accounts, lists, maps, threads
<1>1. TypeOK'
  BY DEF TypeOK, Orderly, SessionLabels, Labels, ReturnLabels, Way, Logouts
<1>2. Orderly'
  BY DEF TypeOK, Orderly, SessionLabels, Labels, ReturnLabels, Way, Logouts
<1>3. Unborn'
  BY DEF TypeOK, Orderly, Unborn, SessionLabels, Labels
<1>4. Pending'
  BY SMTT(30) DEF TypeOK, Orderly, Unborn, Pending, Pushes, BeingPushed, SessionLabels, Labels, Way, Logouts
<1>5. Kept'
  BY SMTT(30) DEF TypeOK, Orderly, Unborn, Kept, InHand, SessionLabels, Labels, Way, Logouts
<1>6. ASSUME Unlimited
      PROVE  Registered'
  BY <1>6 DEF TypeOK, Orderly, Registered, New, Unlisted, Listed, SessionLabels, Labels
<1> QED BY <1>1, <1>2, <1>3, <1>4, <1>5, <1>6

LEMMA SecondLoginKeeps ==
  ASSUME IInv, SecondLogin
  PROVE  IInv'
<1> USE NamesApart DEF IInv, SecondLogin, LogoutPlayer,
     Goto, TakeUp, LetGo, session, character, accounts, lists, maps, threads
<1>1. TypeOK'
  BY DEF TypeOK, Orderly, SessionLabels, Labels, ReturnLabels, Way, Logouts
<1>2. Orderly'
  BY DEF TypeOK, Orderly, SessionLabels, Labels, ReturnLabels, Way, Logouts
<1>3. Unborn'
  BY DEF TypeOK, Orderly, Unborn, SessionLabels, Labels
<1>4. Pending'
  BY DEF TypeOK, Orderly, Unborn, Pending, Pushes, BeingPushed, SessionLabels, Labels, Way, Logouts
<1>5. Kept'
  BY DEF TypeOK, Orderly, Unborn, Kept, InHand, SessionLabels, Labels, Way, Logouts
<1>6. ASSUME Unlimited
      PROVE  Registered'
  BY <1>6 DEF TypeOK, Orderly, Registered, New, Unlisted, Listed, SessionLabels, Labels
<1> QED BY <1>1, <1>2, <1>3, <1>4, <1>5, <1>6

LEMMA TurnAwayKeeps ==
  ASSUME IInv, TurnAway
  PROVE  IInv'
<1> USE NamesApart DEF IInv, TurnAway,
     Goto, TakeUp, LetGo, session, character, accounts, lists, maps, threads
<1>1. TypeOK'
  BY DEF TypeOK, Orderly, SessionLabels, Labels, ReturnLabels, Way, Logouts
<1>2. Orderly'
  BY DEF TypeOK, Orderly, SessionLabels, Labels, ReturnLabels, Way, Logouts
<1>3. Unborn'
  BY DEF TypeOK, Orderly, Unborn, SessionLabels, Labels
<1>4. Pending'
  BY DEF TypeOK, Orderly, Unborn, Pending, Pushes, BeingPushed, SessionLabels, Labels, Way, Logouts
<1>5. Kept'
  BY DEF TypeOK, Orderly, Unborn, Kept, InHand, SessionLabels, Labels, Way, Logouts
<1>6. ASSUME Unlimited
      PROVE  Registered'
  BY <1>6 DEF TypeOK, Orderly, Registered, New, Unlisted, Listed, SessionLabels, Labels
<1> QED BY <1>1, <1>2, <1>3, <1>4, <1>5, <1>6

LEMMA ElapseKeeps ==
  ASSUME NEW s \in Sessions, IInv, Elapse(s)
  PROVE  IInv'
<1> USE NamesApart DEF IInv, Elapse,
     Goto, TakeUp, LetGo, session, character, accounts, lists, maps, threads
<1>1. TypeOK'
  BY DEF TypeOK, Orderly, SessionLabels, Labels, ReturnLabels, Way, Logouts
<1>2. Orderly'
  BY DEF TypeOK, Orderly, SessionLabels, Labels, ReturnLabels, Way, Logouts
<1>3. Unborn'
  BY DEF TypeOK, Orderly, Unborn, SessionLabels, Labels
<1>4. Pending'
  BY DEF TypeOK, Orderly, Unborn, Pending, Pushes, BeingPushed, SessionLabels, Labels, Way, Logouts
<1>5. Kept'
  BY DEF TypeOK, Orderly, Unborn, Kept, InHand, SessionLabels, Labels, Way, Logouts
<1>6. ASSUME Unlimited
      PROVE  Registered'
  BY <1>6 DEF TypeOK, Orderly, Registered, New, Unlisted, Listed, SessionLabels, Labels
<1> QED BY <1>1, <1>2, <1>3, <1>4, <1>5, <1>6

LEMMA LeaveWorldKeeps ==
  ASSUME NEW t \in Threads, IInv, LeaveWorld(t)
  PROVE  IInv'
<1> USE NamesApart DEF IInv, LeaveWorld,
     Goto, TakeUp, LetGo, session, character, accounts, lists, maps, threads
<1>1. TypeOK'
  BY DEF TypeOK, Orderly, SessionLabels, Labels, ReturnLabels, Way, Logouts
<1>2. Orderly'
  BY DEF TypeOK, Orderly, SessionLabels, Labels, ReturnLabels, Way, Logouts
<1>3. Unborn'
  BY DEF TypeOK, Orderly, Unborn, SessionLabels, Labels
<1>4. Pending'
  BY DEF TypeOK, Orderly, Unborn, Pending, Pushes, BeingPushed, SessionLabels, Labels, Way, Logouts
<1>5. Kept'
  BY DEF TypeOK, Orderly, Unborn, Kept, InHand, SessionLabels, Labels, Way, Logouts
<1>6. ASSUME Unlimited
      PROVE  Registered'
  BY <1>6 DEF TypeOK, Orderly, Registered, New, Unlisted, Listed, SessionLabels, Labels
<1> QED BY <1>1, <1>2, <1>3, <1>4, <1>5, <1>6

LEMMA RemoveFromWorldKeeps ==
  ASSUME NEW t \in Threads, IInv, RemoveFromWorld(t)
  PROVE  IInv'
<1> USE NamesApart DEF IInv, RemoveFromWorld,
     Goto, TakeUp, LetGo, session, character, accounts, lists, maps, threads
<1>1. TypeOK'
  BY DEF TypeOK, Orderly, SessionLabels, Labels, ReturnLabels, Way, Logouts
<1>2. Orderly'
  BY DEF TypeOK, Orderly, SessionLabels, Labels, ReturnLabels, Way, Logouts
<1>3. Unborn'
  BY DEF TypeOK, Orderly, Unborn, SessionLabels, Labels
<1>4. Pending'
  BY DEF TypeOK, Orderly, Unborn, Pending, Pushes, BeingPushed, SessionLabels, Labels, Way, Logouts
<1>5. Kept'
  BY DEF TypeOK, Orderly, Unborn, Kept, InHand, SessionLabels, Labels, Way, Logouts
<1>6. ASSUME Unlimited
      PROVE  Registered'
  BY <1>6 DEF TypeOK, Orderly, Registered, New, Unlisted, Listed, SessionLabels, Labels
<1> QED BY <1>1, <1>2, <1>3, <1>4, <1>5, <1>6

LEMMA RemoveObjectKeeps ==
  ASSUME NEW t \in Threads, IInv, RemoveObject(t)
  PROVE  IInv'
<1> USE NamesApart DEF IInv, RemoveObject,
     Goto, TakeUp, LetGo, session, character, accounts, lists, maps, threads
<1>1. TypeOK'
  BY DEF TypeOK, Orderly, SessionLabels, Labels, ReturnLabels, Way, Logouts
<1>2. Orderly'
  BY DEF TypeOK, Orderly, SessionLabels, Labels, ReturnLabels, Way, Logouts
<1>3. Unborn'
  BY DEF TypeOK, Orderly, Unborn, SessionLabels, Labels
<1>4. Pending'
  BY DEF TypeOK, Orderly, Unborn, Pending, Pushes, BeingPushed, SessionLabels, Labels, Way, Logouts
<1>5. Kept'
  <2> SUFFICES ASSUME NEW x \in Sessions,
                      life'[x] = "live", online'[Account[x]] = x, inst'[x] = NoMap
               PROVE  x \in global' \/ \E u \in Threads : InHand(u, x)'
    BY DEF Kept
  <2>1. CASE x = at[t] /\ BDeleted(at[t])
    BY <2>1 DEF TypeOK, BDeleted, InHand
  <2>2. CASE x = at[t] /\ ~BDeleted(at[t])
    BY <2>2 DEF TypeOK, InHand
  <2>3. CASE x # at[t]
    BY <2>3 DEF TypeOK, Kept, InHand
  <2> QED BY <2>1, <2>2, <2>3
<1>6. ASSUME Unlimited
      PROVE  Registered'
  BY <1>6 DEF TypeOK, Orderly, Registered, New, Unlisted, Listed, SessionLabels, Labels
<1> QED BY <1>1, <1>2, <1>3, <1>4, <1>5, <1>6

LEMMA AddGlobalSessionKeeps ==
  ASSUME NEW t \in Threads, IInv, AddGlobalSession(t)
  PROVE  IInv'
<1> USE NamesApart DEF IInv, AddGlobalSession,
     Goto, TakeUp, LetGo, session, character, accounts, lists, maps, threads
<1>1. TypeOK'
  BY DEF TypeOK, Orderly, SessionLabels, Labels, ReturnLabels, Way, Logouts
<1>2. Orderly'
  BY DEF TypeOK, Orderly, SessionLabels, Labels, ReturnLabels, Way, Logouts
<1>3. Unborn'
  BY DEF TypeOK, Orderly, Unborn, SessionLabels, Labels
<1>4. Pending'
  BY DEF TypeOK, Orderly, Unborn, Pending, Pushes, BeingPushed, SessionLabels, Labels, Way, Logouts
<1>5. Kept'
  BY DEF TypeOK, Orderly, Unborn, Kept, InHand, SessionLabels, Labels, Way, Logouts
<1>6. ASSUME Unlimited
      PROVE  Registered'
  BY <1>6 DEF TypeOK, Orderly, Registered, New, Unlisted, Listed, SessionLabels, Labels
<1> QED BY <1>1, <1>2, <1>3, <1>4, <1>5, <1>6

LEMMA LoggedOutKeeps ==
  ASSUME NEW t \in Threads, IInv, LoggedOut(t)
  PROVE  IInv'
<1> USE NamesApart DEF IInv, LoggedOut, GotoLosing, UsePlayer,
     Goto, TakeUp, LetGo, session, character, accounts, lists, maps, threads
<1>1. TypeOK'
  BY SMTT(30) DEF TypeOK, Orderly, SessionLabels, Labels, ReturnLabels, Way, Logouts
<1>2. Orderly'
  BY DEF TypeOK, Orderly, SessionLabels, Labels, ReturnLabels, Way, Logouts
<1>3. Unborn'
  BY DEF TypeOK, Orderly, Unborn, SessionLabels, Labels
<1>4. Pending'
  <2> SUFFICES ASSUME NEW x \in Sessions, life[x] = "live", player'[x] /\ pushed[x]
               PROVE  \/ \E m \in Maps : x \in pool'[m]
                      \/ \E u \in Threads : Pushes(u, x)'
    BY DEF Pending, BeingPushed
  <2>1. x # at[t] /\ player[x]
    BY DEF TypeOK
  <2>2. CASE \E m \in Maps : x \in pool[m]
    BY <2>1, <2>2 DEF TypeOK
  <2>3. ASSUME NEW u \in Threads, Pushes(u, x)
        PROVE  Pushes(u, x)'
    <3>1. u # t
      BY <2>1, <2>3 DEF Pushes
    <3>2. /\ at'[u] = at[u] /\ back'[u] = back[u] /\ mapMgr'[x] = mapMgr[x]
          /\ pc'[u] = pc[u] \/ pc'[u] = "lost"
      BY <2>1, <3>1 DEF TypeOK
    <3> QED BY ONLY <2>3, <3>2 DEF Pushes
  <2> QED BY <2>1, <2>2, <2>3 DEF Pending, BeingPushed
<1>5. Kept'
  BY DEF TypeOK, Orderly, Unborn, Kept, InHand, SessionLabels, Labels, Way, Logouts
<1>6. ASSUME Unlimited
      PROVE  Registered'
  <2>1. \A u \in Threads :
          /\ at'[u] = at[u]
          /\ pc'[u] = pc[u] \/ pc'[u] = "lost" \/ (u = t /\ pc'[u] \in ReturnLabels)
    BY DEF TypeOK
  <2>2. pc[t] = "left" /\ UNCHANGED <<life, online, queue, todo, global, mapSessions>>
    OBVIOUS
  <2>3. ASSUME NEW x \in Sessions
        PROVE  (New(x)' <=> New(x)) /\ (Unlisted(x) => Unlisted(x)')
    <3>1. New(x)' => New(x)
      BY ONLY <2>1, NamesApart DEF New, ReturnLabels
    <3>2. New(x) => New(x)'
      BY DEF TypeOK, New
    <3>3. Unlisted(x) => Unlisted(x)'
      BY DEF TypeOK, Unlisted, Listed
    <3> QED BY <3>1, <3>2, <3>3
  <2>4. Registered
    BY <1>6
  <2>5. /\ queue' = {}
        /\ \A u \in Threads \ {"net"} : pc'[u] \notin {"created", "admitted", "authenticated"}
        /\ \A u \in Threads : at'[u] \in Sessions /\ pc'[u] # "lost" => life'[at'[u]] = "live"
    BY ONLY <2>1, <2>2, <2>4 DEF Registered, ReturnLabels
  <2> QED BY ONLY <2>1, <2>2, <2>3, <2>4, <2>5 DEF Registered
<1> QED BY <1>1, <1>2, <1>3, <1>4, <1>5, <1>6

LEMMA WorldTickKeeps ==
  ASSUME IInv, WorldTick
  PROVE  IInv'
<1> USE NamesApart DEF IInv, WorldTick,
     Goto, TakeUp, LetGo, session, character, accounts, lists, maps, threads
<1>1. TypeOK'
  BY DEF TypeOK, Orderly, SessionLabels, Labels, ReturnLabels, Way, Logouts
<1>2. Orderly'
  BY SMTT(30) DEF TypeOK, Orderly, SessionLabels, Labels, ReturnLabels, Way, Logouts
<1>3. Unborn'
  BY DEF TypeOK, Orderly, Unborn, SessionLabels, Labels
<1>4. Pending'
  BY DEF TypeOK, Orderly, Unborn, Pending, Pushes, BeingPushed, SessionLabels, Labels, Way, Logouts
<1>5. Kept'
  BY DEF TypeOK, Orderly, Unborn, Kept, InHand, SessionLabels, Labels, Way, Logouts
<1>6. ASSUME Unlimited
      PROVE  Registered'
  BY <1>6 DEF TypeOK, Orderly, Registered, New, Unlisted, Listed, SessionLabels, Labels
<1> QED BY <1>1, <1>2, <1>3, <1>4, <1>5, <1>6

LEMMA TickDoneKeeps ==
  ASSUME NEW t \in Threads, IInv, TickDone(t)
  PROVE  IInv'
<1> USE NamesApart DEF IInv, TickDone,
     Goto, TakeUp, LetGo, session, character, accounts, lists, maps, threads
<1>1. TypeOK'
  BY DEF TypeOK, Orderly, SessionLabels, Labels, ReturnLabels, Way, Logouts
<1>2. Orderly'
  BY DEF TypeOK, Orderly, SessionLabels, Labels, ReturnLabels, Way, Logouts
<1>3. Unborn'
  BY DEF TypeOK, Orderly, Unborn, SessionLabels, Labels
<1>4. Pending'
  BY DEF TypeOK, Orderly, Unborn, Pending, Pushes, BeingPushed, SessionLabels, Labels, Way, Logouts
<1>5. Kept'
  BY DEF TypeOK, Orderly, Unborn, Kept, InHand, SessionLabels, Labels, Way, Logouts
<1>6. ASSUME Unlimited
      PROVE  Registered'
  BY <1>6 DEF TypeOK, Orderly, Registered, New, Unlisted, Listed, SessionLabels, Labels
<1> QED BY <1>1, <1>2, <1>3, <1>4, <1>5, <1>6

LEMMA DropKeeps ==
  ASSUME NEW t \in Threads, NEW s \in Sessions, IInv, Drop(t, s)
  PROVE  IInv'
<1> USE NamesApart DEF IInv, Drop, ComesTo, Erase,
     Goto, TakeUp, LetGo, session, character, accounts, lists, maps, threads
<1>1. TypeOK'
  BY DEF TypeOK, Orderly, SessionLabels, Labels, ReturnLabels, Way, Logouts
<1>2. Orderly'
  BY DEF TypeOK, Orderly, SessionLabels, Labels, ReturnLabels, Way, Logouts
<1>3. Unborn'
  BY DEF TypeOK, Orderly, Unborn, SessionLabels, Labels
<1>4. Pending'
  BY DEF TypeOK, Orderly, Unborn, Pending, Pushes, BeingPushed, SessionLabels, Labels, Way, Logouts
<1>5. Kept'
  BY DEF TypeOK, Kept, InHand, Here
<1>6. ASSUME Unlimited
      PROVE  Registered'
  BY <1>6 DEF TypeOK, Orderly, Registered, New, Unlisted, Listed, SessionLabels, Labels
<1> QED BY <1>1, <1>2, <1>3, <1>4, <1>5, <1>6

LEMMA PassOverKeeps ==
  ASSUME NEW m \in Maps, NEW s \in Sessions, IInv, PassOver(m, s)
  PROVE  IInv'
<1> USE NamesApart DEF IInv, PassOver, ComesTo,
     Goto, TakeUp, LetGo, session, character, accounts, lists, maps, threads
<1>1. TypeOK'
  BY DEF TypeOK, Orderly, SessionLabels, Labels, ReturnLabels, Way, Logouts
<1>2. Orderly'
  BY DEF TypeOK, Orderly, SessionLabels, Labels, ReturnLabels, Way, Logouts
<1>3. Unborn'
  BY DEF TypeOK, Orderly, Unborn, SessionLabels, Labels
<1>4. Pending'
  BY DEF TypeOK, Orderly, Unborn, Pending, Pushes, BeingPushed, SessionLabels, Labels, Way, Logouts
<1>5. Kept'
  BY DEF TypeOK, Orderly, Unborn, Kept, InHand, SessionLabels, Labels, Way, Logouts
<1>6. ASSUME Unlimited
      PROVE  Registered'
  BY <1>6 DEF TypeOK, Orderly, Registered, New, Unlisted, Listed, SessionLabels, Labels
<1> QED BY <1>1, <1>2, <1>3, <1>4, <1>5, <1>6

LEMMA VisitKeeps ==
  ASSUME NEW t \in Threads, NEW s \in Sessions, IInv, Visit(t, s)
  PROVE  IInv'
<1> USE NamesApart DEF IInv, Visit, ComesTo,
     Goto, TakeUp, LetGo, session, character, accounts, lists, maps, threads
<1>1. TypeOK'
  BY DEF TypeOK, Orderly, SessionLabels, Labels, ReturnLabels, Way, Logouts
<1>2. Orderly'
  BY DEF TypeOK, Orderly, SessionLabels, Labels, ReturnLabels, Way, Logouts
<1>3. Unborn'
  BY DEF TypeOK, Orderly, Unborn, SessionLabels, Labels
<1>4. Pending'
  BY DEF TypeOK, Orderly, Unborn, Pending, Pushes, BeingPushed, SessionLabels, Labels, Way, Logouts
<1>5. Kept'
  BY SMTT(30) DEF TypeOK, Orderly, Unborn, Kept, InHand, SessionLabels, Labels, Way, Logouts
<1>6. ASSUME Unlimited
      PROVE  Registered'
  BY <1>6 DEF TypeOK, Orderly, Registered, New, Unlisted, Listed, SessionLabels, Labels
<1> QED BY <1>1, <1>2, <1>3, <1>4, <1>5, <1>6

LEMMA WrongThreadKeeps ==
  ASSUME NEW t \in Threads, IInv, WrongThread(t)
  PROVE  IInv'
<1> USE NamesApart DEF IInv, WrongThread, Finish, Erase,
     Goto, TakeUp, LetGo, session, character, accounts, lists, maps, threads
<1>1. TypeOK'
  BY DEF TypeOK, Orderly, SessionLabels, Labels, ReturnLabels, Way, Logouts
<1>2. Orderly'
  BY SMTT(30) DEF TypeOK, Orderly, SessionLabels, Labels, ReturnLabels, Way, Logouts
<1>3. Unborn'
  BY DEF TypeOK, Orderly, Unborn, SessionLabels, Labels
<1>4. Pending'
  BY SMTT(30) DEF TypeOK, Orderly, Unborn, Pending, Pushes, BeingPushed, SessionLabels, Labels, Way, Logouts
<1>5. Kept'
  <2> SUFFICES ASSUME NEW x \in Sessions,
                      life[x] = "live", online[Account[x]] = x, inst[x] = NoMap
               PROVE  x \in global' \/ \E u \in Threads : InHand(u, x)'
    BY DEF Kept
  <2>1. CASE x \in global
    BY <2>1 DEF TypeOK, Here
  <2>2. ASSUME NEW u \in Threads, InHand(u, x)
        PROVE  InHand(u, x)'
    <3>1. u # t
      BY <2>2 DEF InHand, Orderly, Way, Logouts
    <3> QED BY <2>2, <3>1 DEF TypeOK, InHand
  <2> QED BY <2>1, <2>2 DEF Kept
<1>6. ASSUME Unlimited
      PROVE  Registered'
  BY <1>6 DEF TypeOK, Orderly, Registered, New, Unlisted, Listed, SessionLabels, Labels
<1> QED BY <1>1, <1>2, <1>3, <1>4, <1>5, <1>6

LEMMA WaitForPushKeeps ==
  ASSUME NEW t \in Threads, IInv, WaitForPush(t)
  PROVE  IInv'
<1> USE NamesApart DEF IInv, WaitForPush, MovedMeanwhile, OurThread, Return0, Finish,
     Goto, TakeUp, LetGo, session, character, accounts, lists, maps, threads
<1>1. TypeOK'
  BY DEF TypeOK, Orderly, SessionLabels, Labels, ReturnLabels, Way, Logouts
<1>2. Orderly'
  BY DEF TypeOK, Orderly, SessionLabels, Labels, ReturnLabels, Way, Logouts
<1>3. Unborn'
  BY DEF TypeOK, Orderly, Unborn, SessionLabels, Labels
<1>4. Pending'
  <2>1. ASSUME NEW x \in Sessions, NEW u \in Threads, Pushes(u, x)
        PROVE  Pushes(u, x)'
    <3>1. u # t
      BY <2>1 DEF Pushes, Orderly, Way
    <3> QED BY <2>1, <3>1 DEF TypeOK, Pushes
  <2> QED BY <2>1 DEF Pending, BeingPushed
<1>5. Kept'
  BY DEF TypeOK, Orderly, Unborn, Kept, InHand, SessionLabels, Labels, Way, Logouts
<1>6. ASSUME Unlimited
      PROVE  Registered'
  BY <1>6 DEF TypeOK, Orderly, Registered, New, Unlisted, Listed, SessionLabels, Labels
<1> QED BY <1>1, <1>2, <1>3, <1>4, <1>5, <1>6

LEMMA TimeoutInQueueKeeps ==
  ASSUME NEW t \in Threads, IInv, TimeoutInQueue(t)
  PROVE  IInv'
<1> USE NamesApart DEF IInv, TimeoutInQueue, MovedMeanwhile, OurThread, LogoutPlayer,
     Goto, TakeUp, LetGo, session, character, accounts, lists, maps, threads
<1>1. TypeOK'
  BY SMTT(30) DEF TypeOK, Orderly, SessionLabels, Labels, ReturnLabels, Way, Logouts
<1>2. Orderly'
  BY SMTT(30) DEF TypeOK, Orderly, SessionLabels, Labels, ReturnLabels, Way, Logouts
<1>3. Unborn'
  BY DEF TypeOK, Orderly, Unborn, SessionLabels, Labels
<1>4. Pending'
  BY DEF TypeOK, Orderly, Unborn, Pending, Pushes, BeingPushed, SessionLabels, Labels, Way, Logouts
<1>5. Kept'
  BY DEF TypeOK, Orderly, Unborn, Kept, InHand, SessionLabels, Labels, Way, Logouts
<1>6. ASSUME Unlimited
      PROVE  Registered'
  BY <1>6 DEF TypeOK, Orderly, Registered, New, Unlisted, Listed, SessionLabels, Labels
<1> QED BY <1>1, <1>2, <1>3, <1>4, <1>5, <1>6

LEMMA UpdateKeeps ==
  ASSUME NEW t \in Threads, IInv, Update(t)
  PROVE  IInv'
<1> USE NamesApart DEF IInv, Update, OurThread,
     Goto, TakeUp, LetGo, session, character, accounts, lists, maps, threads
<1>1. TypeOK'
  BY SMTT(30) DEF TypeOK, Orderly, SessionLabels, Labels, ReturnLabels, Way, Logouts
<1>2. Orderly'
  BY DEF TypeOK, Orderly, SessionLabels, Labels, ReturnLabels, Way, Logouts
<1>3. Unborn'
  BY DEF TypeOK, Orderly, Unborn, SessionLabels, Labels
<1>4. Pending'
  BY SMTT(30) DEF TypeOK, Orderly, Unborn, Pending, Pushes, BeingPushed, SessionLabels, Labels, Way, Logouts
<1>5. Kept'
  BY DEF TypeOK, Orderly, Unborn, Kept, InHand, SessionLabels, Labels, Way, Logouts
<1>6. ASSUME Unlimited
      PROVE  Registered'
  BY <1>6 DEF TypeOK, Orderly, Registered, New, Unlisted, Listed, SessionLabels, Labels
<1> QED BY <1>1, <1>2, <1>3, <1>4, <1>5, <1>6

LEMMA HandledKeeps ==
  ASSUME NEW t \in Threads, IInv, Handled(t)
  PROVE  IInv'
<1> USE NamesApart DEF IInv, Handled, OurThread,
     Goto, TakeUp, LetGo, session, character, accounts, lists, maps, threads
<1>1. TypeOK'
  BY DEF TypeOK, Orderly, SessionLabels, Labels, ReturnLabels, Way, Logouts
<1>2. Orderly'
  BY DEF TypeOK, Orderly, SessionLabels, Labels, ReturnLabels, Way, Logouts
<1>3. Unborn'
  BY DEF TypeOK, Orderly, Unborn, SessionLabels, Labels
<1>4. Pending'
  BY DEF TypeOK, Orderly, Unborn, Pending, Pushes, BeingPushed, SessionLabels, Labels, Way, Logouts
<1>5. Kept'
  BY DEF TypeOK, Orderly, Unborn, Kept, InHand, SessionLabels, Labels, Way, Logouts
<1>6. ASSUME Unlimited
      PROVE  Registered'
  BY <1>6 DEF TypeOK, Orderly, Registered, New, Unlisted, Listed, SessionLabels, Labels
<1> QED BY <1>1, <1>2, <1>3, <1>4, <1>5, <1>6

LEMMA NoTimerKeeps ==
  ASSUME NEW t \in Threads, IInv, NoTimer(t)
  PROVE  IInv'
<1> USE NamesApart DEF IInv, NoTimer, OurThread,
     Goto, TakeUp, LetGo, session, character, accounts, lists, maps, threads
<1>1. TypeOK'
  BY DEF TypeOK, Orderly, SessionLabels, Labels, ReturnLabels, Way, Logouts
<1>2. Orderly'
  BY DEF TypeOK, Orderly, SessionLabels, Labels, ReturnLabels, Way, Logouts
<1>3. Unborn'
  BY DEF TypeOK, Orderly, Unborn, SessionLabels, Labels
<1>4. Pending'
  BY DEF TypeOK, Orderly, Unborn, Pending, Pushes, BeingPushed, SessionLabels, Labels, Way, Logouts
<1>5. Kept'
  BY DEF TypeOK, Orderly, Unborn, Kept, InHand, SessionLabels, Labels, Way, Logouts
<1>6. ASSUME Unlimited
      PROVE  Registered'
  BY <1>6 DEF TypeOK, Orderly, Registered, New, Unlisted, Listed, SessionLabels, Labels
<1> QED BY <1>1, <1>2, <1>3, <1>4, <1>5, <1>6

LEMMA TimerKeeps ==
  ASSUME NEW t \in Threads, IInv, Timer(t)
  PROVE  IInv'
<1> USE NamesApart DEF IInv, Timer, OurThread, LogoutPlayer,
     Goto, TakeUp, LetGo, session, character, accounts, lists, maps, threads
<1>1. TypeOK'
  BY SMTT(30) DEF TypeOK, Orderly, SessionLabels, Labels, ReturnLabels, Way, Logouts
<1>2. Orderly'
  BY DEF TypeOK, Orderly, SessionLabels, Labels, ReturnLabels, Way, Logouts
<1>3. Unborn'
  BY DEF TypeOK, Orderly, Unborn, SessionLabels, Labels
<1>4. Pending'
  BY SMTT(30) DEF TypeOK, Orderly, Unborn, Pending, Pushes, BeingPushed, SessionLabels, Labels, Way, Logouts
<1>5. Kept'
  BY DEF TypeOK, Orderly, Unborn, Kept, InHand, SessionLabels, Labels, Way, Logouts
<1>6. ASSUME Unlimited
      PROVE  Registered'
  BY <1>6 DEF TypeOK, Orderly, Registered, New, Unlisted, Listed, SessionLabels, Labels
<1> QED BY <1>1, <1>2, <1>3, <1>4, <1>5, <1>6

LEMMA PingKeeps ==
  ASSUME NEW t \in Threads, IInv, Ping(t)
  PROVE  IInv'
<1> USE NamesApart DEF IInv, Ping, Return0, Finish,
     Goto, TakeUp, LetGo, session, character, accounts, lists, maps, threads
<1>1. TypeOK'
  BY DEF TypeOK, Orderly, SessionLabels, Labels, ReturnLabels, Way, Logouts
<1>2. Orderly'
  BY DEF TypeOK, Orderly, SessionLabels, Labels, ReturnLabels, Way, Logouts
<1>3. Unborn'
  BY DEF TypeOK, Orderly, Unborn, SessionLabels, Labels
<1>4. Pending'
  BY SMTT(30) DEF TypeOK, Orderly, Unborn, Pending, Pushes, BeingPushed, SessionLabels, Labels, Way, Logouts
<1>5. Kept'
  BY SMTT(30) DEF TypeOK, Orderly, Unborn, Kept, InHand, SessionLabels, Labels, Way, Logouts
<1>6. ASSUME Unlimited
      PROVE  Registered'
  BY <1>6 DEF TypeOK, Orderly, Registered, New, Unlisted, Listed, SessionLabels, Labels
<1> QED BY <1>1, <1>2, <1>3, <1>4, <1>5, <1>6

LEMMA DeleteGlobalSessionKeeps ==
  ASSUME NEW t \in Threads, IInv, DeleteGlobalSession(t)
  PROVE  IInv'
<1> USE NamesApart DEF IInv, DeleteGlobalSession, Erase, GotoLosing,
     Goto, TakeUp, LetGo, session, character, accounts, lists, maps, threads
<1>1. TypeOK'
  BY DEF TypeOK, Orderly, SessionLabels, Labels, ReturnLabels, Way, Logouts
<1>2. Orderly'
  BY SMTT(30) DEF TypeOK, Orderly, SessionLabels, Labels, ReturnLabels, Way, Logouts
<1>3. Unborn'
  BY DEF TypeOK, Orderly, Unborn, SessionLabels, Labels
<1>4. Pending'
  <2>1. ASSUME NEW x \in Sessions, x # at[t], NEW u \in Threads, Pushes(u, x)
        PROVE  Pushes(u, x)'
    <3>1. u # t
      BY <2>1 DEF Pushes
    <3> QED BY <2>1, <3>1 DEF TypeOK, Pushes
  <2> QED BY <2>1 DEF TypeOK, Pending, BeingPushed
<1>5. Kept'
  <2> SUFFICES ASSUME NEW x \in Sessions,
                      life'[x] = "live", online'[Account[x]] = x, inst[x] = NoMap
               PROVE  x \in global' \/ \E u \in Threads : InHand(u, x)'
    BY DEF Kept
  <2>1. x # at[t] /\ life[x] = "live" /\ online[Account[x]] = x
    BY DEF TypeOK, Orderly, SessionLabels, Labels
  <2>2. CASE x \in global
    BY <2>1, <2>2 DEF TypeOK
  <2>3. ASSUME NEW u \in Threads, InHand(u, x)
        PROVE  InHand(u, x)'
    <3>1. u # t
      BY <2>1, <2>3 DEF InHand
    <3> QED BY <2>1, <2>3, <3>1 DEF TypeOK, InHand
  <2> QED BY <2>1, <2>2, <2>3 DEF Kept
<1>6. ASSUME Unlimited
      PROVE  Registered'
  BY SMTT(30), <1>6 DEF TypeOK, Orderly, Registered, New, Unlisted, Listed, SessionLabels, Labels
<1> QED BY <1>1, <1>2, <1>3, <1>4, <1>5, <1>6

LEMMA HandlePlayerLoginKeeps ==
  ASSUME NEW t \in Threads, IInv, HandlePlayerLogin(t)
  PROVE  IInv'
<1> USE NamesApart DEF IInv, HandlePlayerLogin, Handles,
     Goto, TakeUp, LetGo, session, character, accounts, lists, maps, threads
<1>1. TypeOK'
  BY SMTT(30) DEF TypeOK, Orderly, SessionLabels, Labels, ReturnLabels, Way, Logouts
<1>2. Orderly'
  BY DEF TypeOK, Orderly, SessionLabels, Labels, ReturnLabels, Way, Logouts
<1>3. Unborn'
  BY DEF TypeOK, Orderly, Unborn, SessionLabels, Labels
<1>4. Pending'
  BY DEF TypeOK, Orderly, Unborn, Pending, Pushes, BeingPushed, SessionLabels, Labels, Way, Logouts
<1>5. Kept'
  BY DEF TypeOK, Orderly, Unborn, Kept, InHand, SessionLabels, Labels, Way, Logouts
<1>6. ASSUME Unlimited
      PROVE  Registered'
  BY <1>6 DEF TypeOK, Orderly, Registered, New, Unlisted, Listed, SessionLabels, Labels
<1> QED BY <1>1, <1>2, <1>3, <1>4, <1>5, <1>6

LEMMA HandleMoveWorldportAckKeeps ==
  ASSUME NEW t \in Threads, IInv, HandleMoveWorldportAck(t)
  PROVE  IInv'
<1> USE NamesApart DEF IInv, HandleMoveWorldportAck, Handles,
     Goto, TakeUp, LetGo, session, character, accounts, lists, maps, threads
<1>1. TypeOK'
  <2>1. pc' \in [Threads -> Labels]
    BY DEF TypeOK, Orderly, SessionLabels, Labels, ReturnLabels, Logouts
  <2>2. packets' \in [Sessions -> Nat] /\ \A x \in Sessions : packets'[x] <= MaxPackets[x]
    BY DEF TypeOK, Orderly, SessionLabels, Labels, ReturnLabels, Logouts
  <2>3. dest' \in [Sessions -> Maps \cup {NoMap}] /\ \A x \in Sessions : player[x] => dest'[x] # NoMap
    BY DEF TypeOK, Orderly, SessionLabels, Labels, ReturnLabels, Logouts
  <2> QED BY <2>1, <2>2, <2>3 DEF TypeOK
<1>2. Orderly'
  BY DEF TypeOK, Orderly, SessionLabels, Labels, ReturnLabels, Way, Logouts
<1>3. Unborn'
  BY DEF TypeOK, Orderly, Unborn, SessionLabels, Labels
<1>4. Pending'
  BY DEF TypeOK, Orderly, Unborn, Pending, Pushes, BeingPushed, SessionLabels, Labels, Way, Logouts
<1>5. Kept'
  BY DEF TypeOK, Orderly, Unborn, Kept, InHand, SessionLabels, Labels, Way, Logouts
<1>6. ASSUME Unlimited
      PROVE  Registered'
  BY <1>6 DEF TypeOK, Orderly, Registered, New, Unlisted, Listed, SessionLabels, Labels
<1> QED BY <1>1, <1>2, <1>3, <1>4, <1>5, <1>6

LEMMA HandleTeleportKeeps ==
  ASSUME NEW t \in Threads, IInv, HandleTeleport(t)
  PROVE  IInv'
<1> USE NamesApart DEF IInv, HandleTeleport, Handles,
     Goto, TakeUp, LetGo, session, character, accounts, lists, maps, threads
<1>1. TypeOK'
  <2>1. pc' \in [Threads -> Labels]
    BY DEF TypeOK, Orderly, SessionLabels, Labels, ReturnLabels, Logouts
  <2>2. packets' \in [Sessions -> Nat] /\ \A x \in Sessions : packets'[x] <= MaxPackets[x]
    BY DEF TypeOK, Orderly, SessionLabels, Labels, ReturnLabels, Logouts
  <2>3. dest' \in [Sessions -> Maps \cup {NoMap}] /\ \A x \in Sessions : player[x] => dest'[x] # NoMap
    BY DEF TypeOK, Orderly, SessionLabels, Labels, ReturnLabels, Logouts
  <2>4. goal' \in [Threads -> Maps \cup {NoMap} \cup Logouts] /\ back' \in [Threads -> ReturnLabels]
    BY DEF TypeOK, Orderly, SessionLabels, Labels, ReturnLabels, Logouts
  <2> QED BY <2>1, <2>2, <2>3, <2>4 DEF TypeOK
<1>2. Orderly'
  BY DEF TypeOK, Orderly, SessionLabels, Labels, ReturnLabels, Way, Logouts
<1>3. Unborn'
  BY DEF TypeOK, Orderly, Unborn, SessionLabels, Labels
<1>4. Pending'
  BY SMTT(30) DEF TypeOK, Orderly, Unborn, Pending, Pushes, BeingPushed, SessionLabels, Labels, Way, Logouts
<1>5. Kept'
  BY DEF TypeOK, Orderly, Unborn, Kept, InHand, SessionLabels, Labels, Way, Logouts
<1>6. ASSUME Unlimited
      PROVE  Registered'
  BY <1>6 DEF TypeOK, Orderly, Registered, New, Unlisted, Listed, SessionLabels, Labels
<1> QED BY <1>1, <1>2, <1>3, <1>4, <1>5, <1>6

LEMMA HandleLogoutRequestKeeps ==
  ASSUME NEW t \in Threads, IInv, HandleLogoutRequest(t)
  PROVE  IInv'
<1> USE NamesApart DEF IInv, HandleLogoutRequest, Handles,
     Goto, TakeUp, LetGo, session, character, accounts, lists, maps, threads
<1>1. TypeOK'
  BY DEF TypeOK, Orderly, SessionLabels, Labels, ReturnLabels, Way, Logouts
<1>2. Orderly'
  BY DEF TypeOK, Orderly, SessionLabels, Labels, ReturnLabels, Way, Logouts
<1>3. Unborn'
  BY DEF TypeOK, Orderly, Unborn, SessionLabels, Labels
<1>4. Pending'
  BY SMTT(30) DEF TypeOK, Orderly, Unborn, Pending, Pushes, BeingPushed, SessionLabels, Labels, Way, Logouts
<1>5. Kept'
  BY DEF TypeOK, Orderly, Unborn, Kept, InHand, SessionLabels, Labels, Way, Logouts
<1>6. ASSUME Unlimited
      PROVE  Registered'
  BY <1>6 DEF TypeOK, Orderly, Registered, New, Unlisted, Listed, SessionLabels, Labels
<1> QED BY <1>1, <1>2, <1>3, <1>4, <1>5, <1>6

LEMMA HandlePlayerLogoutKeeps ==
  ASSUME NEW t \in Threads, IInv, HandlePlayerLogout(t)
  PROVE  IInv'
<1> USE NamesApart DEF IInv, HandlePlayerLogout, Handles, LogoutPlayer,
     Goto, TakeUp, LetGo, session, character, accounts, lists, maps, threads
<1>1. TypeOK'
  <2>1. pc' \in [Threads -> Labels]
    BY DEF TypeOK, Orderly, SessionLabels, Labels, ReturnLabels, Logouts
  <2>2. packets' \in [Sessions -> Nat] /\ \A x \in Sessions : packets'[x] <= MaxPackets[x]
    BY DEF TypeOK, Orderly, SessionLabels, Labels, ReturnLabels, Logouts
  <2>3. goal' \in [Threads -> Maps \cup {NoMap} \cup Logouts] /\ back' \in [Threads -> ReturnLabels]
    BY DEF TypeOK, Orderly, SessionLabels, Labels, ReturnLabels, Logouts
  <2> QED BY <2>1, <2>2, <2>3 DEF TypeOK
<1>2. Orderly'
  BY DEF TypeOK, Orderly, SessionLabels, Labels, ReturnLabels, Way, Logouts
<1>3. Unborn'
  BY DEF TypeOK, Orderly, Unborn, SessionLabels, Labels
<1>4. Pending'
  BY DEF TypeOK, Orderly, Unborn, Pending, Pushes, BeingPushed, SessionLabels, Labels, Way, Logouts
<1>5. Kept'
  BY DEF TypeOK, Orderly, Unborn, Kept, InHand, SessionLabels, Labels, Way, Logouts
<1>6. ASSUME Unlimited
      PROVE  Registered'
  BY <1>6 DEF TypeOK, Orderly, Registered, New, Unlisted, Listed, SessionLabels, Labels
<1> QED BY <1>1, <1>2, <1>3, <1>4, <1>5, <1>6

LEMMA AddToWorldKeeps ==
  ASSUME NEW t \in Threads, IInv, AddToWorld(t)
  PROVE  IInv'
<1> USE NamesApart DEF IInv, AddToWorld,
     Goto, TakeUp, LetGo, session, character, accounts, lists, maps, threads
<1>1. TypeOK'
  <2>1. CASE mapMgr[at[t]] = NoMap
    <3>1. pushed \in [Sessions -> BOOLEAN] /\ pushed' = [pushed EXCEPT ![at[t]] = TRUE]
      BY <2>1 DEF TypeOK
    <3>2. pushed' \in [Sessions -> BOOLEAN]
      BY ONLY <3>1
    <3>3. pc' \in [Threads -> Labels]
      BY <2>1 DEF TypeOK, Labels
    <3> QED BY <2>1, <3>2, <3>3 DEF TypeOK
  <2>2. CASE mapMgr[at[t]] # NoMap
    BY <2>2 DEF TypeOK, Orderly, SessionLabels, Labels, Logouts
  <2> QED BY <2>1, <2>2
<1>2. Orderly'
  BY DEF TypeOK, Orderly, SessionLabels, Labels, ReturnLabels, Way, Logouts
<1>3. Unborn'
  BY DEF TypeOK, Orderly, Unborn, SessionLabels, Labels
<1>4. Pending'
  BY DEF TypeOK, Orderly, Unborn, Pending, Pushes, BeingPushed, SessionLabels, Labels, Way, Logouts
<1>5. Kept'
  BY DEF TypeOK, Orderly, Unborn, Kept, InHand, SessionLabels, Labels, Way, Logouts
<1>6. ASSUME Unlimited
      PROVE  Registered'
  BY <1>6 DEF TypeOK, Orderly, Registered, New, Unlisted, Listed, SessionLabels, Labels
<1> QED BY <1>1, <1>2, <1>3, <1>4, <1>5, <1>6

LEMMA JoinKeeps ==
  ASSUME NEW t \in Threads, IInv, Join(t)
  PROVE  IInv'
<1> USE NamesApart DEF IInv, Join,
     Goto, TakeUp, LetGo, session, character, accounts, lists, maps, threads
<1>1. TypeOK'
  BY SMTT(30) DEF TypeOK, Orderly, SessionLabels, Labels, ReturnLabels, Way, Logouts
<1>2. Orderly'
  <2>1. CASE goal' = [goal EXCEPT ![t] = dest[at[t]]] /\ dest[at[t]] \in Maps
    BY <2>1 DEF TypeOK, Orderly, SessionLabels, Labels, Way, Logouts
  <2>2. CASE goal' = goal /\ pc' = [pc EXCEPT ![t] = "added"]
    BY <2>2 DEF TypeOK, Orderly, SessionLabels, Labels, Way, Logouts
  <2> QED BY <2>1, <2>2 DEF TypeOK
<1>3. Unborn'
  BY DEF TypeOK, Orderly, Unborn, SessionLabels, Labels
<1>4. Pending'
  BY DEF TypeOK, Orderly, Unborn, Pending, Pushes, BeingPushed, SessionLabels, Labels, Way, Logouts
<1>5. Kept'
  BY DEF TypeOK, Orderly, Unborn, Kept, InHand, SessionLabels, Labels, Way, Logouts
<1>6. ASSUME Unlimited
      PROVE  Registered'
  BY <1>6 DEF TypeOK, Orderly, Registered, New, Unlisted, Listed, SessionLabels, Labels
<1> QED BY <1>1, <1>2, <1>3, <1>4, <1>5, <1>6

LEMMA AddObjectKeeps ==
  ASSUME NEW t \in Threads, IInv, AddObject(t)
  PROVE  IInv'
<1> USE NamesApart DEF IInv, AddObject,
     Goto, TakeUp, LetGo, session, character, accounts, lists, maps, threads
<1>1. TypeOK'
  BY DEF TypeOK, Orderly, SessionLabels, Labels, ReturnLabels, Way, Logouts
<1>2. Orderly'
  BY SMTT(30) DEF TypeOK, Orderly, SessionLabels, Labels, ReturnLabels, Way, Logouts
<1>3. Unborn'
  BY DEF TypeOK, Orderly, Unborn, SessionLabels, Labels
<1>4. Pending'
  BY DEF TypeOK, Orderly, Unborn, Pending, Pushes, BeingPushed, SessionLabels, Labels, Way, Logouts
<1>5. Kept'
  BY SMTT(30) DEF TypeOK, Orderly, Unborn, Kept, InHand, SessionLabels, Labels, Way, Logouts
<1>6. ASSUME Unlimited
      PROVE  Registered'
  BY <1>6 DEF TypeOK, Orderly, Registered, New, Unlisted, Listed, SessionLabels, Labels
<1> QED BY <1>1, <1>2, <1>3, <1>4, <1>5, <1>6

LEMMA AddedKeeps ==
  ASSUME NEW t \in Threads, IInv, Added(t)
  PROVE  IInv'
<1> USE NamesApart DEF IInv, Added,
     Goto, TakeUp, LetGo, session, character, accounts, lists, maps, threads
<1>1. TypeOK'
  <2>1. CASE mapMgr[at[t]] = NoMap
    <3>1. pushed \in [Sessions -> BOOLEAN] /\ pushed' = [pushed EXCEPT ![at[t]] = FALSE]
      BY <2>1 DEF TypeOK
    <3>2. pushed' \in [Sessions -> BOOLEAN]
      BY ONLY <3>1
    <3>3. pc' \in [Threads -> Labels]
      BY <2>1 DEF TypeOK, Labels
    <3>4. PICK m \in Continents : dest' = [dest EXCEPT ![at[t]] = m]
      BY <2>1
    <3>5. /\ dest' \in [Sessions -> Maps \cup {NoMap}]
          /\ \A x \in Sessions : dest[x] # NoMap => dest'[x] # NoMap
      BY ONLY <3>4, NamesApart, TypeOK DEF TypeOK
    <3> QED BY <2>1, <3>2, <3>3, <3>5 DEF TypeOK
  <2>2. CASE mapMgr[at[t]] # NoMap
    BY SMTT(30), <2>2 DEF TypeOK, Orderly, SessionLabels, Labels, Logouts
  <2> QED BY <2>1, <2>2
<1>2. Orderly'
  BY SMTT(30) DEF TypeOK, Orderly, SessionLabels, Labels, ReturnLabels, Way, Logouts
<1>3. Unborn'
  BY DEF TypeOK, Orderly, Unborn, SessionLabels, Labels
<1>4. Pending'
  BY SMTT(30) DEF TypeOK, Orderly, Unborn, Pending, Pushes, BeingPushed, SessionLabels, Labels, Way, Logouts
<1>5. Kept'
  BY DEF TypeOK, Orderly, Unborn, Kept, InHand, SessionLabels, Labels, Way, Logouts
<1>6. ASSUME Unlimited
      PROVE  Registered'
  BY <1>6 DEF TypeOK, Orderly, Registered, New, Unlisted, Listed, SessionLabels, Labels
<1> QED BY <1>1, <1>2, <1>3, <1>4, <1>5, <1>6

LEMMA SetInstanceKeeps ==
  ASSUME NEW t \in Threads, IInv, SetInstance(t)
  PROVE  IInv'
<1> USE NamesApart DEF IInv, SetInstance,
     Goto, TakeUp, LetGo, session, character, accounts, lists, maps, threads
<1>1. TypeOK'
  BY DEF TypeOK, Orderly, SessionLabels, Labels, ReturnLabels, Way, Logouts
<1>2. Orderly'
  BY DEF TypeOK, Orderly, SessionLabels, Labels, ReturnLabels, Way, Logouts
<1>3. Unborn'
  BY DEF TypeOK, Orderly, Unborn, SessionLabels, Labels
<1>4. Pending'
  BY DEF TypeOK, Orderly, Unborn, Pending, Pushes, BeingPushed, SessionLabels, Labels, Way, Logouts
<1>5. Kept'
  BY DEF TypeOK, Orderly, Unborn, Kept, InHand, SessionLabels, Labels, Way, Logouts
<1>6. ASSUME Unlimited
      PROVE  Registered'
  BY <1>6 DEF TypeOK, Orderly, Registered, New, Unlisted, Listed, SessionLabels, Labels
<1> QED BY <1>1, <1>2, <1>3, <1>4, <1>5, <1>6

LEMMA RelocatedKeeps ==
  ASSUME NEW t \in Threads, IInv, Relocated(t)
  PROVE  IInv'
<1> USE NamesApart DEF IInv, Relocated,
     Goto, TakeUp, LetGo, session, character, accounts, lists, maps, threads
<1>1. TypeOK'
  BY SMTT(30) DEF TypeOK, Orderly, SessionLabels, Labels, ReturnLabels, Way, Logouts
<1>2. Orderly'
  BY SMTT(30) DEF TypeOK, Orderly, SessionLabels, Labels, ReturnLabels, Way, Logouts
<1>3. Unborn'
  BY DEF TypeOK, Orderly, Unborn, SessionLabels, Labels
<1>4. Pending'
  <2> SUFFICES ASSUME NEW x \in Sessions, life[x] = "live", player[x] /\ pushed'[x]
               PROVE  \/ \E m \in Maps : x \in pool[m]
                      \/ \E u \in Threads : Pushes(u, x)'
    BY DEF Pending, BeingPushed
  <2>1. pushed[x] /\ (x = at[t] => back[t] # "pushing")
    <3>1. /\ pushed' = [pushed EXCEPT ![at[t]] = pushed[at[t]] /\ back[t] # "pushing"]
          /\ pushed \in [Sessions -> BOOLEAN] /\ pushed'[x]
      BY DEF TypeOK
    <3>2. CASE x = at[t]
      BY ONLY <3>1, <3>2, x \in Sessions
    <3>3. CASE x # at[t]
      BY ONLY <3>1, <3>3, x \in Sessions
    <3> QED BY ONLY <3>2, <3>3
  <2>2. ASSUME NEW u \in Threads, Pushes(u, x)
        PROVE  Pushes(u, x)'
    <3>1. u # t
      BY <2>1, <2>2 DEF Pushes
    <3>2. at'[u] = at[u] /\ back'[u] = back[u] /\ pc'[u] = pc[u] /\ mapMgr' = mapMgr
      BY <3>1 DEF TypeOK
    <3> QED BY ONLY <2>2, <3>2 DEF Pushes
  <2> QED BY <2>1, <2>2 DEF Pending, BeingPushed
<1>5. Kept'
  BY SMTT(30) DEF TypeOK, Orderly, Unborn, Kept, InHand, SessionLabels, Labels, Way, Logouts
<1>6. ASSUME Unlimited
      PROVE  Registered'
  BY <1>6 DEF TypeOK, Orderly, Registered, New, Unlisted, Listed, SessionLabels, Labels
<1> QED BY <1>1, <1>2, <1>3, <1>4, <1>5, <1>6

LEMMA MapTickKeeps ==
  ASSUME NEW m \in Maps, IInv, MapTick(m)
  PROVE  IInv'
<1> USE NamesApart DEF IInv, MapTick,
     Goto, TakeUp, LetGo, session, character, accounts, lists, maps, threads
<1>1. TypeOK'
  BY DEF TypeOK, Orderly, SessionLabels, Labels, ReturnLabels, Way, Logouts
<1>2. Orderly'
  BY DEF TypeOK, Orderly, SessionLabels, Labels, ReturnLabels, Way, Logouts
<1>3. Unborn'
  BY DEF TypeOK, Orderly, Unborn, SessionLabels, Labels
<1>4. Pending'
  BY DEF TypeOK, Orderly, Unborn, Pending, Pushes, BeingPushed, SessionLabels, Labels, Way, Logouts
<1>5. Kept'
  BY SMTT(30) DEF TypeOK, Orderly, Unborn, Kept, InHand, SessionLabels, Labels, Way, Logouts
<1>6. ASSUME Unlimited
      PROVE  Registered'
  BY <1>6 DEF TypeOK, Orderly, Registered, New, Unlisted, Listed, SessionLabels, Labels
<1> QED BY <1>1, <1>2, <1>3, <1>4, <1>5, <1>6

LEMMA PushDoneKeeps ==
  ASSUME NEW m \in Maps, IInv, PushDone(m)
  PROVE  IInv'
<1> USE NamesApart DEF IInv, PushDone,
     Goto, TakeUp, LetGo, session, character, accounts, lists, maps, threads
<1>1. TypeOK'
  BY DEF TypeOK, Orderly, SessionLabels, Labels, ReturnLabels, Way, Logouts
<1>2. Orderly'
  BY DEF TypeOK, Orderly, SessionLabels, Labels, ReturnLabels, Way, Logouts
<1>3. Unborn'
  BY DEF TypeOK, Orderly, Unborn, SessionLabels, Labels
<1>4. Pending'
  BY DEF TypeOK, Orderly, Unborn, Pending, Pushes, BeingPushed, SessionLabels, Labels, Way, Logouts
<1>5. Kept'
  BY SMTT(30) DEF TypeOK, Orderly, Unborn, Kept, InHand, SessionLabels, Labels, Way, Logouts
<1>6. ASSUME Unlimited
      PROVE  Registered'
  BY <1>6 DEF TypeOK, Orderly, Registered, New, Unlisted, Listed, SessionLabels, Labels
<1> QED BY <1>1, <1>2, <1>3, <1>4, <1>5, <1>6

LEMMA DutiesDoneKeeps ==
  ASSUME NEW m \in Maps, IInv, DutiesDone(m)
  PROVE  IInv'
<1> USE NamesApart DEF IInv, DutiesDone,
     Goto, TakeUp, LetGo, session, character, accounts, lists, maps, threads
<1>1. TypeOK'
  BY DEF TypeOK, Orderly, SessionLabels, Labels, ReturnLabels, Way, Logouts
<1>2. Orderly'
  BY DEF TypeOK, Orderly, SessionLabels, Labels, ReturnLabels, Way, Logouts
<1>3. Unborn'
  BY DEF TypeOK, Orderly, Unborn, SessionLabels, Labels
<1>4. Pending'
  BY DEF TypeOK, Orderly, Unborn, Pending, Pushes, BeingPushed, SessionLabels, Labels, Way, Logouts
<1>5. Kept'
  BY DEF TypeOK, Orderly, Unborn, Kept, InHand, SessionLabels, Labels, Way, Logouts
<1>6. ASSUME Unlimited
      PROVE  Registered'
  BY <1>6 DEF TypeOK, Orderly, Registered, New, Unlisted, Listed, SessionLabels, Labels
<1> QED BY <1>1, <1>2, <1>3, <1>4, <1>5, <1>6

LEMMA PushObjectKeeps ==
  ASSUME NEW m \in Maps, NEW s \in Sessions, IInv, PushObject(m, s)
  PROVE  IInv'
<1> USE NamesApart DEF IInv, PushObject,
     Goto, TakeUp, LetGo, session, character, accounts, lists, maps, threads
<1>1. TypeOK'
  BY DEF TypeOK, Orderly, SessionLabels, Labels, ReturnLabels, Way, Logouts
<1>2. Orderly'
  BY DEF TypeOK, Orderly, SessionLabels, Labels, ReturnLabels, Way, Logouts
<1>3. Unborn'
  BY DEF TypeOK, Orderly, Unborn, SessionLabels, Labels
<1>4. Pending'
  BY DEF TypeOK, Orderly, Unborn, Pending, Pushes, BeingPushed, SessionLabels, Labels, Way, Logouts
<1>5. Kept'
  BY DEF TypeOK, Orderly, Unborn, Kept, InHand, SessionLabels, Labels, Way, Logouts
<1>6. ASSUME Unlimited
      PROVE  Registered'
  BY <1>6 DEF TypeOK, Orderly, Registered, New, Unlisted, Listed, SessionLabels, Labels
<1> QED BY <1>1, <1>2, <1>3, <1>4, <1>5, <1>6

LEMMA PushStrayKeeps ==
  ASSUME NEW m \in Maps, NEW s \in Sessions, IInv, PushStray(m, s)
  PROVE  IInv'
<1> USE NamesApart DEF IInv, PushStray,
     Goto, TakeUp, LetGo, session, character, accounts, lists, maps, threads
<1>1. TypeOK'
  BY DEF TypeOK, Orderly, SessionLabels, Labels, ReturnLabels, Way, Logouts
<1>2. Orderly'
  BY DEF TypeOK, Orderly, SessionLabels, Labels, ReturnLabels, Way, Logouts
<1>3. Unborn'
  BY DEF TypeOK, Orderly, Unborn, SessionLabels, Labels
<1>4. Pending'
  BY SMTT(30) DEF TypeOK, Orderly, Unborn, Pending, Pushes, BeingPushed, SessionLabels, Labels, Way, Logouts
<1>5. Kept'
  <2>1. ASSUME NEW x \in Sessions, NEW u \in Threads, InHand(u, x)
        PROVE  InHand(u, x)'
    <3>1. u # m
      BY <2>1 DEF InHand, Orderly, Way, Logouts
    <3> QED BY <2>1, <3>1 DEF TypeOK, InHand
  <2> QED BY <2>1 DEF Kept
<1>6. ASSUME Unlimited
      PROVE  Registered'
  BY <1>6 DEF TypeOK, Orderly, Registered, New, Unlisted, Listed, SessionLabels, Labels
<1> QED BY <1>1, <1>2, <1>3, <1>4, <1>5, <1>6

LEMMA TeleportPlayersKeeps ==
  ASSUME NEW m \in Maps, IInv, TeleportPlayers(m)
  PROVE  IInv'
<1> USE NamesApart DEF IInv, TeleportPlayers, Inside,
     Goto, TakeUp, LetGo, session, character, accounts, lists, maps, threads
<1>1. TypeOK'
  BY DEF TypeOK, Orderly, SessionLabels, Labels, ReturnLabels, Way, Logouts
<1>2. Orderly'
  BY DEF TypeOK, Orderly, SessionLabels, Labels, ReturnLabels, Way, Logouts
<1>3. Unborn'
  BY DEF TypeOK, Orderly, Unborn, SessionLabels, Labels
<1>4. Pending'
  BY SMTT(30) DEF TypeOK, Orderly, Unborn, Pending, Pushes, BeingPushed, SessionLabels, Labels, Way, Logouts
<1>5. Kept'
  BY SMTT(30) DEF TypeOK, Orderly, Unborn, Kept, InHand, SessionLabels, Labels, Way, Logouts
<1>6. ASSUME Unlimited
      PROVE  Registered'
  BY <1>6 DEF TypeOK, Orderly, Registered, New, Unlisted, Listed, SessionLabels, Labels
<1> QED BY <1>1, <1>2, <1>3, <1>4, <1>5, <1>6

LEMMA DestructorKeeps ==
  ASSUME NEW m \in Maps, IInv, Destructor(m)
  PROVE  IInv'
<1> USE NamesApart DEF IInv, Destructor, GotoLosing,
     Goto, TakeUp, LetGo, session, character, accounts, lists, maps, threads
<1>1. TypeOK'
  BY DEF TypeOK, Orderly, SessionLabels, Labels, ReturnLabels, Way, Logouts
<1>2. Orderly'
  BY DEF TypeOK, Orderly, SessionLabels, Labels, ReturnLabels, Way, Logouts
<1>3. Unborn'
  BY DEF TypeOK, Orderly, Unborn, SessionLabels, Labels
<1>4. Pending'
  <2>1. ASSUME NEW x \in Sessions, NEW u \in Threads, Pushes(u, x)
        PROVE  Pushes(u, x)'
    <3>1. /\ at'[u] = at[u] /\ back'[u] = back[u] /\ mapMgr' = mapMgr
          /\ u = m \/ pc'[u] = pc[u] \/ pc'[u] = "lost"
      BY DEF TypeOK
    <3>2. u = m => back[u] = "pushing"
      BY <2>1 DEF Pushes
    <3> QED BY ONLY <2>1, <3>1, <3>2 DEF Pushes
  <2> QED BY <2>1 DEF Pending, BeingPushed
<1>5. Kept'
  BY DEF TypeOK, Orderly, Unborn, Kept, InHand, SessionLabels, Labels, Way, Logouts
<1>6. ASSUME Unlimited
      PROVE  Registered'
  BY <1>6 DEF TypeOK, Orderly, Registered, New, Unlisted, Listed, SessionLabels, Labels
<1> QED BY <1>1, <1>2, <1>3, <1>4, <1>5, <1>6

LEMMA EventTeleportKeeps ==
  ASSUME NEW m \in Maps, IInv, EventTeleport(m)
  PROVE  IInv'
<1> USE NamesApart DEF IInv, EventTeleport, Inside,
     Goto, TakeUp, LetGo, session, character, accounts, lists, maps, threads
<1>1. TypeOK'
  BY DEF TypeOK, Orderly, SessionLabels, Labels, ReturnLabels, Way, Logouts
<1>2. Orderly'
  BY DEF TypeOK, Orderly, SessionLabels, Labels, ReturnLabels, Way, Logouts
<1>3. Unborn'
  BY DEF TypeOK, Orderly, Unborn, SessionLabels, Labels
<1>4. Pending'
  BY DEF TypeOK, Orderly, Unborn, Pending, Pushes, BeingPushed, SessionLabels, Labels, Way, Logouts
<1>5. Kept'
  BY SMTT(30) DEF TypeOK, Orderly, Unborn, Kept, InHand, SessionLabels, Labels, Way, Logouts
<1>6. ASSUME Unlimited
      PROVE  Registered'
  BY <1>6 DEF TypeOK, Orderly, Registered, New, Unlisted, Listed, SessionLabels, Labels
<1> QED BY <1>1, <1>2, <1>3, <1>4, <1>5, <1>6

LEMMA BeginInstanceExpireCountdownKeeps ==
  ASSUME NEW m \in Maps, IInv, BeginInstanceExpireCountdown(m)
  PROVE  IInv'
<1> USE NamesApart DEF IInv, BeginInstanceExpireCountdown,
     Goto, TakeUp, LetGo, session, character, accounts, lists, maps, threads
<1>1. TypeOK'
  BY DEF TypeOK, Orderly, SessionLabels, Labels, ReturnLabels, Way, Logouts
<1>2. Orderly'
  BY DEF TypeOK, Orderly, SessionLabels, Labels, ReturnLabels, Way, Logouts
<1>3. Unborn'
  BY DEF TypeOK, Orderly, Unborn, SessionLabels, Labels
<1>4. Pending'
  BY DEF TypeOK, Orderly, Unborn, Pending, Pushes, BeingPushed, SessionLabels, Labels, Way, Logouts
<1>5. Kept'
  BY DEF TypeOK, Orderly, Unborn, Kept, InHand, SessionLabels, Labels, Way, Logouts
<1>6. ASSUME Unlimited
      PROVE  Registered'
  BY <1>6 DEF TypeOK, Orderly, Registered, New, Unlisted, Listed, SessionLabels, Labels
<1> QED BY <1>1, <1>2, <1>3, <1>4, <1>5, <1>6

LEMMA MapEndsKeeps ==
  ASSUME NEW m \in Maps, IInv, MapEnds(m)
  PROVE  IInv'
<1> USE NamesApart DEF IInv, MapEnds,
     Goto, TakeUp, LetGo, session, character, accounts, lists, maps, threads
<1>1. TypeOK'
  BY DEF TypeOK, Orderly, SessionLabels, Labels, ReturnLabels, Way, Logouts
<1>2. Orderly'
  BY DEF TypeOK, Orderly, SessionLabels, Labels, ReturnLabels, Way, Logouts
<1>3. Unborn'
  BY DEF TypeOK, Orderly, Unborn, SessionLabels, Labels
<1>4. Pending'
  BY DEF TypeOK, Orderly, Unborn, Pending, Pushes, BeingPushed, SessionLabels, Labels, Way, Logouts
<1>5. Kept'
  BY DEF TypeOK, Orderly, Unborn, Kept, InHand, SessionLabels, Labels, Way, Logouts
<1>6. ASSUME Unlimited
      PROVE  Registered'
  BY <1>6 DEF TypeOK, Orderly, Registered, New, Unlisted, Listed, SessionLabels, Labels
<1> QED BY <1>1, <1>2, <1>3, <1>4, <1>5, <1>6

-------------------------------------------------------------------------------
(* The invariant holds at first, and every step keeps it.                  *)
LEMMA InitEstablishes == Init => IInv
<1> SUFFICES ASSUME Init
             PROVE  IInv
  OBVIOUS
<1> USE NamesApart DEF Init
<1>1. TypeOK
  BY DEF TypeOK, Labels, ReturnLabels
<1>2. Orderly
  BY DEF Orderly, SessionLabels, Labels, Way, Logouts
<1>3. Unborn /\ Pending /\ Kept
  BY DEF Unborn, Pending, BeingPushed, Kept
<1>4. Registered
  BY DEF Registered, New, Unlisted, Listed
<1> QED BY <1>1, <1>2, <1>3, <1>4 DEF IInv

LEMMA LogoutKeeps ==
  ASSUME NEW t \in Threads, IInv, Logout(t)
  PROVE  IInv'
BY LeaveWorldKeeps, RemoveFromWorldKeeps, RemoveObjectKeeps, AddGlobalSessionKeeps,
   LoggedOutKeeps DEF Logout

LEMMA UpdateLoopKeeps ==
  ASSUME NEW t \in Threads, IInv, UpdateLoop(t)
  PROVE  IInv'
BY DropKeeps, VisitKeeps, TickDoneKeeps, WrongThreadKeeps, WaitForPushKeeps,
   TimeoutInQueueKeeps, UpdateKeeps, HandledKeeps, NoTimerKeeps, TimerKeeps, PingKeeps,
   DeleteGlobalSessionKeeps, AddToWorldKeeps, JoinKeeps, AddObjectKeeps, AddedKeeps,
   SetInstanceKeeps, LogoutKeeps, RelocatedKeeps DEF UpdateLoop

LEMMA NetworkKeeps ==
  ASSUME IInv, Network
  PROVE  IInv'
BY NamesApart, LoginKeeps, FindSessionKeeps, DisconnectKeeps, RemoveQueuedSocketKeeps,
   AdmitKeeps, AddQueuedSocketKeeps, AddSessionKeeps, AuthenticatedKeeps, SecondLoginKeeps,
   TurnAwayKeeps, LogoutKeeps DEF Network

LEMMA WorldThreadKeeps ==
  ASSUME IInv, WorldThread
  PROVE  IInv'
BY NamesApart, WorldTickKeeps, AddSessionKeeps, AuthenticatedKeeps, UpdateLoopKeeps
   DEF WorldThread

LEMMA MapThreadKeeps ==
  ASSUME NEW m \in Maps, IInv, MapThread(m)
  PROVE  IInv'
BY NamesApart, MapTickKeeps, PushDoneKeeps, DutiesDoneKeeps, UpdateLoopKeeps, PushObjectKeeps,
   PushStrayKeeps, PassOverKeeps, TeleportPlayersKeeps, DestructorKeeps DEF MapThread

LEMMA HandlerKeeps ==
  ASSUME NEW t \in Maps \cup {"world"}, IInv, Handler(t)
  PROVE  IInv'
BY NamesApart, HandlePlayerLoginKeeps, HandleMoveWorldportAckKeeps, HandleTeleportKeeps,
   HandleLogoutRequestKeeps, HandlePlayerLogoutKeeps DEF Handler

LEMMA NextKeeps == IInv /\ [Next]_vars => IInv'
<1> SUFFICES ASSUME IInv, [Next]_vars
             PROVE  IInv'
  OBVIOUS
<1>1. CASE Network
  BY <1>1, NetworkKeeps
<1>2. CASE WorldThread
  BY <1>2, WorldThreadKeeps
<1>3. CASE \E s \in Sessions : Elapse(s) \/ UpdateQueuedSessions(s)
  BY <1>3, ElapseKeeps, UpdateQueuedSessionsKeeps
<1>4. CASE \E m \in Maps :
             MapThread(m) \/ EventTeleport(m) \/ BeginInstanceExpireCountdown(m) \/ MapEnds(m)
  BY <1>4, MapThreadKeeps, EventTeleportKeeps, BeginInstanceExpireCountdownKeeps, MapEndsKeeps
<1>5. CASE \E t \in Maps \cup {"world"} : Handler(t)
  BY <1>5, HandlerKeeps
<1>6. CASE UNCHANGED vars
  BY <1>6 DEF vars, session, character, accounts, lists, maps, threads, IInv, TypeOK, Orderly,
     Unborn, Pending, Pushes, BeingPushed, Kept, InHand, Registered, New, Unlisted, Listed
<1> QED BY <1>1, <1>2, <1>3, <1>4, <1>5, <1>6 DEF Next

(* What the theorems below follow from.                                    *)
THEOREM InvariantHolds == Spec => []IInv
BY InitEstablishes, NextKeeps, PTL DEF Spec

(* Sessions, lists and threads hold what they are meant to hold, for any   *)
(* number of sessions and maps.                                            *)
THEOREM TypeCorrect == Spec => []TypeOK
BY InvariantHolds, PTL DEF IInv

(* A player that is marked as being pushed to a map is in its insert pool  *)
(* or in the hands of the thread that puts it there or takes it out        *)
(* (MapMgr::Do, Player::AddToWorld), whatever else happens to it.          *)
THEOREM PushedPlayersArePending == Spec => []PushedIsPending
<1>1. IInv => PushedIsPending
  BY DEF IInv, Pending, Pushes, PushedIsPending
<1> QED BY <1>1, InvariantHolds, PTL

(* A session that a map has let go of (MapMgr::RemoveObject) is listed for *)
(* the world thread, or about to be, or about to be deleted.               *)
THEOREM SessionsAreHandedBack == Spec => []HandedBack
<1>1. IInv => HandedBack
  BY DEF IInv, Kept, InHand, HandedBack, BDeleted
<1> QED BY <1>1, InvariantHolds, PTL

(* While nobody has to wait in the login queue, an account has one session *)
(* at a time: the test of FindSession is made in the network thread, which *)
(* is the only one to add sessions then, and m_sessions loses a session    *)
(* only when it is deleted.                                                *)
THEOREM AccountsDoNotDupe == Unlimited => (Spec => []OneSessionPerAccount)
<1> SUFFICES ASSUME Unlimited
             PROVE  Spec => []OneSessionPerAccount
  OBVIOUS
<1>1. IInv => OneSessionPerAccount
  <2> SUFFICES ASSUME IInv, NEW s \in Sessions, NEW u \in Sessions,
                      life[s] = "live", Listed(s), life[u] = "live", Listed(u),
                      Account[s] = Account[u]
               PROVE  s = u
    BY DEF OneSessionPerAccount
  <2> QED BY DEF IInv, Registered, Unlisted
<1> QED BY <1>1, InvariantHolds, PTL
===============================================================================
