-------------------------- MODULE MCDeviceBackup --------------------------
(* Small instances of DeviceBackup for TLC. *)
EXTENDS DeviceBackup, TLC

\* Retention settings, the same for every actor: a file expires one second after
\* its own, or two, and one copy is kept.
AtOnce == [a \in Actor |-> 0]
OneSecond == [a \in Actor |-> 1]
KeepOne == [a \in Actor |-> 1]

\* The daemon runs all runners in one process; every `prune` is its own.
Processes == {Runner} \cup {{a} : a \in Pruner}

\* The runs of the daemon are alike, and so are the configurations.
Symmetry == Permutations(Runner) \cup Permutations(Version)
=============================================================================
