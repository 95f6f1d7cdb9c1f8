----------------------------- MODULE MCDaemon -----------------------------
(* Small instances of Daemon for TLC. *)
EXTENDS Daemon, TLC

CONSTANTS d1, d2, c1, c2, c3

\* Three configurations: two devices, the second alone, both the other way round.
Files == c1 :> <<d1, d2>> @@ c2 :> <<d2>> @@ c3 :> <<d2, d1>>

\* The schedule of d1 is a typing error in c3, where d1 stands after the good device.
BadLast == [c \in Config |-> IF c = c3 THEN {d1} ELSE {}]
=============================================================================
