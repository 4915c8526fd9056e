------------------------------ MODULE MCDatabase ------------------------------
(* Instances of Database for TLC.                                          *)
EXTENDS Database, TLC

CONSTANTS c1, c2

(* One caller makes two queries, so that their order can be told.          *)
Two == c1 :> 2

(* Every caller makes one query.                                           *)
OneEach == (c1 :> 1) @@ (c2 :> 1)

===============================================================================
