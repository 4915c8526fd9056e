--------------------------- MODULE MCWorldSessions ---------------------------
(* Accounts and packets of up to three sessions, for model checking.         *)
EXTENDS WorldSessions, TLC

CONSTANTS s1, s2, s3

OneAccount == s1 :> "a"
SameAccount == s1 :> "a" @@ s2 :> "a"
TwoAccounts == s1 :> "a" @@ s2 :> "b"
TwoOfOneAccount == s1 :> "a" @@ s2 :> "a" @@ s3 :> "b"

None == [s \in Sessions |-> 0]
OneEach == [s \in Sessions |-> 1]
Two == s1 :> 2
TwoAndNone == s1 :> 2 @@ s2 :> 0
=============================================================================
