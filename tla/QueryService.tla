----------------------------- MODULE QueryService -----------------------------
(***************************************************************************)
(* What a caller of Database::Execute, Database::AddQueryBuffer and the    *)
(* direct calls may rely on.  A query meets the server only before every   *)
(* later query that the same caller gave to the same stream, and it is     *)
(* sent once more only when an error came back the first time.  So a query *)
(* with no error is performed exactly once; one with an error may have     *)
(* been performed not at all, once or twice, and no caller is told which.  *)
(* A call may return long before its query is performed.  q.from made q,   *)
(* q.to is its stream, q.n numbers the queries of a caller.                *)
(***************************************************************************)
EXTENDS Naturals

CONSTANT Queries
VARIABLES
  pending,      (* asked for, and not yet done with                        *)
  performed,    (* performed by the server                                 *)
  repeated,     (* performed a second time                                 *)
  failed        (* sent, with an error as the answer                       *)

vars == <<pending, performed, repeated, failed>>

Init == pending = {} /\ performed = {} /\ repeated = {} /\ failed = {}

Ask(q) ==
  /\ \A r \in pending \cup performed \cup failed : r.from = q.from => r.n < q.n
  /\ pending' = pending \cup {q}
  /\ UNCHANGED <<performed, repeated, failed>>

InTurn(q) ==
  \A r \in performed \cup failed : r.from = q.from /\ r.to = q.to => r.n <= q.n

(* Sent, and answered or lost before or after the server performed it.     *)
Meet(q, done, ok) ==
  /\ q \in pending /\ InTurn(q)
  /\ performed' = IF done THEN performed \cup {q} ELSE performed
  /\ repeated' = IF done THEN repeated \cup ({q} \cap performed) ELSE repeated
  /\ failed' = IF ok THEN failed ELSE failed \cup {q}

(* The last time q is sent.                                                *)
Finish(q) ==
  /\ \E done, ok \in BOOLEAN : (ok => done) /\ Meet(q, done, ok)
  /\ pending' = pending \ {q}

(* q is sent, fails for the first time and is going to be sent again.      *)
Stumble(q) ==
  /\ q \notin failed
  /\ \E done \in BOOLEAN : Meet(q, done, FALSE)
  /\ UNCHANGED pending

Next == \E q \in Queries : Ask(q) \/ Finish(q) \/ Stumble(q)

Spec == Init /\ [][Next]_vars
===============================================================================
