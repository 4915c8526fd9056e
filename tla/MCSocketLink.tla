---------------------------- MODULE MCSocketLink ----------------------------
(* Instances of SocketLink for TLC.                                        *)
EXTENDS SocketLink, TLC

CONSTANTS here, there, t1, t2, t3

(* Two threads of one program send; the other program only listens.        *)
OneWay == (t1 :> here) @@ (t2 :> here)

(* Each program has a thread that sends.                                   *)
BothWays == (t1 :> here) @@ (t3 :> there)

(* Two threads of one program send, and one of the other.                  *)
AllThree == OneWay @@ BothWays

=============================================================================
