---------------------------- MODULE MCTransport ----------------------------
(* A small instance of Transport for TLC: the silences are shorter than the *)
(* timeout, and that of the configuration is the longest, as in the code.   *)
EXTENDS Transport, TLC

TwoDelays == <<1, 2>>
Silences == "banner" :> 2 @@ "pager" :> 1 @@ "config" :> 3
=============================================================================
