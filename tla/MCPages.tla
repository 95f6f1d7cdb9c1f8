------------------------------ MODULE MCPages ------------------------------
(* The two seconds of a December and the first of the January after it, and *)
(* the directory of a device that is no longer configured.                  *)
EXTENDS Pages

CONSTANTS fw, old

Seconds == 22..24
=============================================================================
