------------------------------ MODULE Archive ------------------------------
(* What the backup directory of one device promises, whoever writes to it.  *)
(* A backup is identified by the second in which its configuration was      *)
(* fetched (its file stem).  Backups appear at any time; one disappears      *)
(* only when it is older than the retention period AND enough newer ones    *)
(* remain.  DeviceBackup, the detailed model of the code, implements this.  *)
EXTENDS Integers, FiniteSets

CONSTANTS
    MaxTime,   \* the horizon: time runs from 0 to MaxTime
    KeepDays,  \* no backup younger than this disappears
    KeepCopies \* no backup with fewer newer ones than this disappears

VARIABLES
    now,     \* the current second
    backups  \* the stems of the backups in the directory

Newer(S, t) == {u \in S : u > t}

Init ==
    /\ now = 0
    /\ backups = {}

Tick ==
    /\ now < MaxTime
    /\ now' = now + 1
    /\ UNCHANGED backups

Store(t) ==
    /\ t \in 0..now \ backups
    /\ backups' = backups \cup {t}
    /\ UNCHANGED now

Expire(t) ==
    /\ t \in backups
    /\ t + KeepDays < now
    /\ Cardinality(Newer(backups, t)) >= KeepCopies
    /\ backups' = backups \ {t}
    /\ UNCHANGED now

Next ==
    \/ Tick
    \/ \E t \in 0..MaxTime : Store(t) \/ Expire(t)

Spec == Init /\ [][Next]_<<now, backups>>
=============================================================================
