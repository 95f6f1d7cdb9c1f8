--------------------------- MODULE AlertProtocol ---------------------------
(* What the watchdog promises the operator about alerts, device by device:  *)
(* an alert opens an episode; within an episode alerts are at least Realert *)
(* apart; a recovery notice closes the episode it follows.  A restart       *)
(* forgets all episodes.  Watchdog, the model of the code, implements this. *)
EXTENDS Integers

CONSTANTS
    Device,
    Realert, \* the least time between two alerts of one episode
    Never    \* no episode is open

VARIABLES
    now,
    alerted  \* alerted[d]: when the last alert of d's open episode was due

Init ==
    /\ now = 0
    /\ alerted = [d \in Device |-> Never]

Advance ==
    /\ now' = now + 1
    /\ UNCHANGED alerted

\* A check may be late: the alert counts from the moment the check began.
Alert(d, t) ==
    /\ t <= now
    /\ alerted[d] # Never => t - alerted[d] >= Realert
    /\ alerted' = [alerted EXCEPT ![d] = t]
    /\ UNCHANGED now

Recover(d) ==
    /\ alerted[d] # Never
    /\ alerted' = [alerted EXCEPT ![d] = Never]
    /\ UNCHANGED now

Forget ==
    /\ alerted' = [d \in Device |-> Never]
    /\ UNCHANGED now

Next ==
    \/ Advance
    \/ \E d \in Device : Recover(d) \/ \E t \in 0..now : Alert(d, t)
    \/ Forget

Spec == Init /\ [][Next]_<<now, alerted>>
=============================================================================
