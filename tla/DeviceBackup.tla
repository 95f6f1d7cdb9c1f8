--------------------------- MODULE DeviceBackup ---------------------------
(* The backup pipeline of ONE device (backup.rs, storage.rs, storage_s3.rs, *)
(* `prune` of main.rs): the files of {backup_dir}/{device}/, the objects of *)
(* the S3 mirror, and every run that may work on them at the same time.     *)
(* Nothing locks the directory: scheduled runs, runs started from the web   *)
(* UI, `fortibackup once` and `fortibackup prune` interleave at every file  *)
(* operation, and a process may die between any two of them.                *)
(*                                                                          *)
(* A configuration is a model value of Version: two fetches of one Version  *)
(* have equal normalized hashes.  A file X.conf[.gz] and its sidecar X.json *)
(* are named by the second X of the fetch.                                  *)
EXTENDS Integers, FiniteSets

CONSTANTS
    Runner,        \* tasks that run run_for_device: cron job, web UI, `once`
    Pruner,        \* processes that run `prune`
    Process,       \* a partition of the actors: what one kill stops
    Version,       \* the configurations the device can have
    Absent, Torn,  \* no file; a file that was created and not fully written
    Compress,      \* global.compress
    S3,            \* whether the S3 mirror exists
    RetentionDays, \* global.retention_days, as each actor's configuration has it
    MinCopies,     \* global.retention_min_copies, likewise
    KeepDays,      \* a lower bound of the RetentionDays in use
    KeepCopies,    \* a lower bound of the MinCopies in use
    SharedSecond,  \* whether two fetches may end in the same second
    MaxTime,       \* bound: the horizon of the clock
    MaxFaults      \* bound: crashes, cancellations and I/O errors

Actor == Runner \cup Pruner
Time == 0..MaxTime

ASSUME ActorAssumption ==
    /\ Runner \cap Pruner = {}
    /\ Process \subseteq SUBSET Actor
    /\ UNION Process = Actor

ASSUME FileAssumption ==
    /\ Absent # Torn
    /\ Absent \notin Version /\ Torn \notin Version
    /\ Absent \notin Nat /\ Torn \notin Nat
    /\ Compress \in BOOLEAN /\ S3 \in BOOLEAN /\ SharedSecond \in BOOLEAN

ASSUME RetentionAssumption ==
    /\ RetentionDays \in [Actor -> Nat]
    /\ MinCopies \in [Actor -> Nat]
    /\ KeepDays \in Nat /\ KeepCopies \in Nat
    /\ \A a \in Actor : KeepDays <= RetentionDays[a] /\ KeepCopies <= MinCopies[a]

ASSUME BoundAssumption == MaxTime \in Nat /\ MaxFaults \in Nat

VARIABLES
    now,     \* the clock, in seconds
    fresh,   \* no fetch has been stamped in this second yet
    device,  \* the configuration on the device
    conf,    \* conf[t]: the content of the file with stem t
    meta,    \* meta[t]: the hash in the sidecar of stem t
    marker,  \* .last_success
    s3conf, s3meta, \* the objects of the mirror
    run,     \* run[a]: where actor a is in its pipeline, and its locals
    faults   \* faults so far

dirVars == <<conf, meta, marker>>
s3Vars == <<s3conf, s3meta>>
envVars == <<now, fresh, device>>
vars == <<envVars, dirVars, s3Vars, run, faults>>

----------------------------------------------------------------------------
(* The actors *)

Step == {"idle", "fetch", "open", "scan",
         "createConf", "writeConf", "createMeta", "writeMeta",
         "uploadConf", "uploadMeta",
         "delete", "deleteMeta", "mark", "writeMark", "report"}

\* Why a directory is being listed: latest_hash, the second listing of an
\* unchanged save, apply_retention, plan_retention.
Purpose == {"dedup", "relist", "retain", "plan"}

Content == Version \cup {Absent, Torn}

Run == [step    : Step,
        purpose : Purpose,
        cfg     : Version \cup {Absent}, \* the artifact that was fetched
        stem    : Time,                  \* its fetched_at
        todo    : SUBSET Time,           \* listing: directory entries not yet read
        seen    : SUBSET Time,           \* listing: entries read
        newest  : Content,               \* latest_hash: the hash of the newest entry read
        basis   : Time,                  \* the file the run's verdict rests on
        victims : SUBSET Time,           \* what retention has still to delete
        at      : Time,                  \* the time record_success writes
        outcome : {"none", "changed", "noChange", "failed"}]

Idle == [step |-> "idle", purpose |-> "dedup", cfg |-> Absent, stem |-> 0,
         todo |-> {}, seen |-> {}, newest |-> Absent, basis |-> 0,
         victims |-> {}, at |-> 0, outcome |-> "none"]

\* A run whose pipeline has returned an error: all it still has is the report.
Failed == [Idle EXCEPT !.step = "report", !.outcome = "failed"]

\* Actor a's record becomes r; it does, and nothing else changes.
Becomes(a, r) == run' = [run EXCEPT ![a] = r]
Moves(a, r) == Becomes(a, r) /\ UNCHANGED <<envVars, dirVars, s3Vars, faults>>

Present == {t \in Time : conf[t] # Absent}
Newer(S, t) == {u \in S : u > t}
IsNewest(t, S) == t \in S /\ Newer(S, t) = {}

TypeOK ==
    /\ now \in Time
    /\ fresh \in BOOLEAN
    /\ device \in Version
    /\ conf \in [Time -> Content]
    /\ meta \in [Time -> Content]
    /\ marker \in Time \cup {Absent, Torn}
    /\ s3conf \in [Time -> Content]
    /\ s3meta \in [Time -> Content]
    /\ run \in [Actor -> Run]
    /\ faults \in 0..MaxFaults

Init ==
    /\ now = 0
    /\ fresh = TRUE
    /\ device \in Version
    /\ conf = [t \in Time |-> Absent]
    /\ meta = [t \in Time |-> Absent]
    /\ marker = Absent
    /\ s3conf = [t \in Time |-> Absent]
    /\ s3meta = [t \in Time |-> Absent]
    /\ run = [a \in Actor |-> Idle]
    /\ faults = 0

----------------------------------------------------------------------------
(* The environment *)

Tick ==
    /\ now < MaxTime
    /\ now' = now + 1
    /\ fresh' = TRUE
    /\ UNCHANGED <<device, dirVars, s3Vars, run, faults>>

\* An administrator changes the device's configuration.
Reconfigure(v) ==
    /\ v # device
    /\ device' = v
    /\ UNCHANGED <<now, fresh, dirVars, s3Vars, run, faults>>

\* A process is killed.  Its files stay as they are.
Crash(p) ==
    /\ faults < MaxFaults
    /\ \E a \in p : run[a].step # "idle"
    /\ faults' = faults + 1
    /\ run' = [a \in Actor |-> IF a \in p THEN Idle ELSE run[a]]
    /\ UNCHANGED <<envVars, dirVars, s3Vars>>

\* A task is dropped at a point where it awaits: a shutdown, or the client of
\* a manual run going away.
Cancel(a) ==
    /\ faults < MaxFaults
    /\ run[a].step \in {"fetch", "uploadConf", "uploadMeta", "report"}
    /\ faults' = faults + 1
    /\ Becomes(a, Idle)
    /\ UNCHANGED <<envVars, dirVars, s3Vars>>

----------------------------------------------------------------------------
(* Fetching *)

Start(a) ==
    /\ a \in Runner
    /\ run[a].step = "idle"
    /\ Moves(a, [run[a] EXCEPT !.step = "fetch"])

\* Mutant: the file names have a resolution of two seconds.
CoarseStems(a) ==
    /\ run[a].step = "fetch"
    /\ fresh
    /\ fresh' = SharedSecond
    /\ Becomes(a, [run[a] EXCEPT !.step = "open", !.purpose = "dedup",
                                 !.cfg = device, !.stem = now - (now % 2)])
    /\ UNCHANGED <<now, device, dirVars, s3Vars, faults>>

\* The artifact is stamped when its bytes have arrived.
FetchOk(a) ==
    /\ run[a].step = "fetch"
    /\ fresh
    /\ fresh' = SharedSecond
    /\ Becomes(a, [run[a] EXCEPT !.step = "open", !.purpose = "dedup",
                                 !.cfg = device, !.stem = now])
    /\ UNCHANGED <<now, device, dirVars, s3Vars, faults>>

FetchFails(a) ==
    /\ run[a].step = "fetch"
    /\ Moves(a, Failed)

----------------------------------------------------------------------------
(* Listing the directory, one entry at a time *)

OpenDir(a) ==
    /\ run[a].step = "open"
    /\ Moves(a, [run[a] EXCEPT !.step = "scan", !.todo = Present,
                               !.seen = {}, !.newest = Absent])

\* Mutant: an entry without a sidecar is taken for one with an unknown hash.
SidecarOnlyHash(t) == IF meta[t] # Absent THEN meta[t] ELSE Torn

\* The hash an entry is listed with: the sidecar's; without a sidecar, that of
\* the content if it is plain, and that of the compressed bytes, which equals
\* no normalized hash, if it is not.
EntryHash(t) ==
    IF meta[t] # Absent THEN meta[t] ELSE IF Compress THEN Torn ELSE conf[t]

\* metadata() of a file that was removed, or a sidecar that does not parse.
Unreadable(t) == conf[t] = Absent \/ meta[t] = Torn

\* Mutant: latest_hash takes the hash of the oldest entry.
OldestHashRead(a, t) ==
    /\ run[a].step = "scan"
    /\ t \in run[a].todo
    /\ ~Unreadable(t)
    /\ Moves(a, [run[a] EXCEPT
                 !.todo = @ \ {t},
                 !.seen = @ \cup {t},
                 !.newest = IF run[a].purpose = "dedup" /\ {u \in run[a].seen : u < t} = {}
                            THEN EntryHash(t) ELSE @])

ReadEntry(a, t) ==
    /\ run[a].step = "scan"
    /\ t \in run[a].todo
    /\ ~Unreadable(t)
    /\ Moves(a, [run[a] EXCEPT
                 !.todo = @ \ {t},
                 !.seen = @ \cup {t},
                 !.newest = IF run[a].purpose = "dedup" /\ Newer(run[a].seen, t) = {}
                            THEN EntryHash(t) ELSE @])

\* Nothing holds the directory still while it is read: an entry removed since may
\* be passed over, and one created since may yet be found.
PassOver(a, t) ==
    /\ run[a].step = "scan"
    /\ t \in run[a].todo
    /\ conf[t] = Absent
    /\ Moves(a, [run[a] EXCEPT !.todo = @ \ {t}])

Discover(a, t) ==
    /\ run[a].step = "scan"
    /\ t \in Present \ (run[a].todo \cup run[a].seen)
    /\ Moves(a, [run[a] EXCEPT !.todo = @ \cup {t}])

\* What follows retention: a run records its success, `prune` ends.
AfterRetention(a) ==
    IF a \in Runner
    THEN [run[a] EXCEPT !.step = "mark", !.todo = {}, !.seen = {}, !.victims = {}]
    ELSE Idle

\* One bad entry fails the whole listing: a save fails its run, retention only
\* warns, `prune` exits.
ListFails(a) ==
    /\ run[a].step = "scan"
    /\ \E t \in run[a].todo : Unreadable(t)
    /\ Moves(a, IF run[a].purpose \in {"dedup", "relist"} THEN Failed
                ELSE IF run[a].purpose = "retain" THEN AfterRetention(a)
                ELSE Idle)

Listed(a, purpose) ==
    run[a].step = "scan" /\ run[a].todo = {} /\ run[a].purpose = purpose

----------------------------------------------------------------------------
(* Saving *)

\* Mutant: any stored backup counts as this one.
AnyCopyWillDo(a) == run[a].newest # Absent

\* The newest stored hash is the fetched one.
Unchanged(a) == run[a].newest = run[a].cfg

\* An unchanged save lists the directory again, for a path to report.
DedupHit(a) ==
    /\ Listed(a, "dedup")
    /\ Unchanged(a)
    /\ \E t \in Time :
          /\ IsNewest(t, run[a].seen)
          /\ Moves(a, [run[a] EXCEPT !.step = "open", !.purpose = "relist", !.basis = t,
                                     !.seen = {}, !.newest = Absent])

DedupMiss(a) ==
    /\ Listed(a, "dedup")
    /\ ~Unchanged(a)
    /\ Moves(a, [run[a] EXCEPT !.step = "createConf", !.basis = run[a].stem,
                               !.seen = {}, !.newest = Absent])

Relisted(a) ==
    /\ Listed(a, "relist")
    /\ Moves(a, [run[a] EXCEPT !.step = "open", !.purpose = "retain",
                               !.outcome = "noChange", !.seen = {}])

\* fs::write truncates (or creates) the file, then writes it.  Over bytes that
\* another writer has put there since, the tail of the longer text may remain;
\* a file that was unlinked meanwhile stays unlinked.
Written(old, new) ==
    IF old = Absent THEN {Absent}
    ELSE IF old = Torn \/ old = new THEN {new}
    ELSE {new, Torn}

CreateConf(a) ==
    /\ run[a].step = "createConf"
    /\ conf' = [conf EXCEPT ![run[a].stem] = Torn]
    /\ Becomes(a, [run[a] EXCEPT !.step = "writeConf"])
    /\ UNCHANGED <<envVars, meta, marker, s3Vars, faults>>

WriteConf(a) ==
    /\ run[a].step = "writeConf"
    /\ \E c \in Written(conf[run[a].stem], run[a].cfg) :
          conf' = [conf EXCEPT ![run[a].stem] = c]
    /\ Becomes(a, [run[a] EXCEPT !.step = "createMeta"])
    /\ UNCHANGED <<envVars, meta, marker, s3Vars, faults>>

CreateMeta(a) ==
    /\ run[a].step = "createMeta"
    /\ meta' = [meta EXCEPT ![run[a].stem] = Torn]
    /\ Becomes(a, [run[a] EXCEPT !.step = "writeMeta"])
    /\ UNCHANGED <<envVars, conf, marker, s3Vars, faults>>

\* The snapshot is saved; it is mirrored next, if there is a mirror.
WriteMeta(a) ==
    /\ run[a].step = "writeMeta"
    /\ \E m \in Written(meta[run[a].stem], run[a].cfg) :
          meta' = [meta EXCEPT ![run[a].stem] = m]
    /\ Becomes(a, [run[a] EXCEPT !.step = IF S3 THEN "uploadConf" ELSE "open",
                                 !.purpose = "retain", !.outcome = "changed"])
    /\ UNCHANGED <<envVars, conf, marker, s3Vars, faults>>

----------------------------------------------------------------------------
(* Mirroring: the local file is read again, and put as one object *)

UploadConf(a) ==
    /\ run[a].step = "uploadConf"
    /\ conf[run[a].stem] # Absent
    /\ s3conf' = [s3conf EXCEPT ![run[a].stem] = conf[run[a].stem]]
    /\ Becomes(a, [run[a] EXCEPT !.step = "uploadMeta"])
    /\ UNCHANGED <<envVars, dirVars, s3meta, faults>>

UploadMeta(a) ==
    /\ run[a].step = "uploadMeta"
    /\ meta[run[a].stem] # Absent
    /\ s3meta' = [s3meta EXCEPT ![run[a].stem] = meta[run[a].stem]]
    /\ Becomes(a, [run[a] EXCEPT !.step = "open"])
    /\ UNCHANGED <<envVars, dirVars, s3conf, faults>>

\* The first error ends the mirroring; the run goes on as if it had succeeded.
UploadMissing(a) ==
    /\ \/ run[a].step = "uploadConf" /\ conf[run[a].stem] = Absent
       \/ run[a].step = "uploadMeta" /\ meta[run[a].stem] = Absent
    /\ Moves(a, [run[a] EXCEPT !.step = "open"])

\* Mutant: a failed upload of the file does not stop that of the sidecar.
UploadGoesOn(a) ==
    /\ faults < MaxFaults
    /\ run[a].step \in {"uploadConf", "uploadMeta"}
    /\ faults' = faults + 1
    /\ Becomes(a, [run[a] EXCEPT !.step = IF @ = "uploadConf" THEN "uploadMeta" ELSE "open"])
    /\ UNCHANGED <<envVars, dirVars, s3Vars>>

\* A request that failed, or timed out, may still have stored its object.
UploadFails(a) ==
    /\ faults < MaxFaults
    /\ run[a].step \in {"uploadConf", "uploadMeta"}
    /\ faults' = faults + 1
    /\ Becomes(a, [run[a] EXCEPT !.step = "open"])
    /\ \/ UNCHANGED s3Vars
       \/ /\ run[a].step = "uploadConf" /\ conf[run[a].stem] # Absent
          /\ s3conf' = [s3conf EXCEPT ![run[a].stem] = conf[run[a].stem]]
          /\ UNCHANGED s3meta
       \/ /\ run[a].step = "uploadMeta" /\ meta[run[a].stem] # Absent
          /\ s3meta' = [s3meta EXCEPT ![run[a].stem] = meta[run[a].stem]]
          /\ UNCHANGED s3conf
    /\ UNCHANGED <<envVars, dirVars>>

----------------------------------------------------------------------------
(* Retention *)

\* Mutant: one copy fewer than MinCopies is kept.
OneCopyFewer(a, entries) ==
    {t \in entries : /\ Cardinality(Newer(entries, t)) + 1 >= MinCopies[a]
                     /\ t + RetentionDays[a] < now}

\* Mutant: the age alone decides.
AgeAlone(a, entries) == {t \in entries : t + RetentionDays[a] < now}

\* Mutant: a file goes when it is old or when there are enough newer ones.
OldOrSurplus(a, entries) ==
    {t \in entries : \/ Cardinality(Newer(entries, t)) >= MinCopies[a]
                     \/ t + RetentionDays[a] < now}

\* pick_victims: of the entries newest first, those from index MinCopies on
\* that are older than the cutoff, the clock being read in whole ticks.
Victims(a, entries) ==
    {t \in entries : /\ Cardinality(Newer(entries, t)) >= MinCopies[a]
                     /\ t + RetentionDays[a] < now}

PickVictims(a) ==
    /\ Listed(a, "retain")
    /\ Moves(a, [run[a] EXCEPT !.step = "delete", !.seen = {},
                               !.victims = Victims(a, run[a].seen)])

\* Newest first; the file, then its sidecar.
DeleteConf(a, t) ==
    /\ run[a].step = "delete"
    /\ IsNewest(t, run[a].victims)
    /\ conf[t] # Absent
    /\ conf' = [conf EXCEPT ![t] = Absent]
    /\ Becomes(a, [run[a] EXCEPT !.step = "deleteMeta"])
    /\ UNCHANGED <<envVars, meta, marker, s3Vars, faults>>

DeleteMeta(a, t) ==
    /\ run[a].step = "deleteMeta"
    /\ IsNewest(t, run[a].victims)
    /\ meta' = [meta EXCEPT ![t] = Absent]
    /\ Becomes(a, [run[a] EXCEPT !.step = "delete", !.victims = @ \ {t}])
    /\ UNCHANGED <<envVars, conf, marker, s3Vars, faults>>

\* Mutant: deletion waits for a victim that is gone already.
EndsWhenAllGone(a) ==
    /\ run[a].step = "delete"
    /\ run[a].victims = {}
    /\ Moves(a, AfterRetention(a))

\* Nothing left to delete, or the next victim is already gone, which is an
\* error and ends the deletion.
EndDelete(a) ==
    /\ run[a].step = "delete"
    /\ \A t \in run[a].victims : IsNewest(t, run[a].victims) => conf[t] = Absent
    /\ Moves(a, AfterRetention(a))

----------------------------------------------------------------------------
(* Recording and reporting the success *)

\* Mutant: the marker is given the next second.
MarksTheFuture(a) ==
    /\ run[a].step = "mark"
    /\ marker' = Torn
    /\ Becomes(a, [run[a] EXCEPT !.step = "writeMark", !.at = now + 1])
    /\ UNCHANGED <<envVars, conf, meta, s3Vars, faults>>

CreateMark(a) ==
    /\ run[a].step = "mark"
    /\ marker' = Torn
    /\ Becomes(a, [run[a] EXCEPT !.step = "writeMark", !.at = now])
    /\ UNCHANGED <<envVars, conf, meta, s3Vars, faults>>

WriteMark(a) ==
    /\ run[a].step = "writeMark"
    /\ marker' \in Written(marker, run[a].at)
    /\ Becomes(a, [run[a] EXCEPT !.step = "report", !.at = 0])
    /\ UNCHANGED <<envVars, conf, meta, s3Vars, faults>>

\* Metrics and notifications, which never fail the run.
Report(a) ==
    /\ run[a].step = "report"
    /\ Moves(a, Idle)

\* A file operation that returns an error: it fails the run while saving, ends
\* the deletion while retaining, and is only logged while recording.
IoError(a) ==
    /\ faults < MaxFaults
    /\ faults' = faults + 1
    /\ \/ /\ run[a].step \in {"createConf", "writeConf", "createMeta", "writeMeta"}
          /\ Becomes(a, Failed)
       \/ /\ run[a].step \in {"delete", "deleteMeta"}
          /\ run[a].victims # {}
          /\ Becomes(a, AfterRetention(a))
       \/ /\ run[a].step \in {"mark", "writeMark"}
          /\ Becomes(a, [run[a] EXCEPT !.step = "report", !.at = 0])
    /\ UNCHANGED <<envVars, dirVars, s3Vars>>

----------------------------------------------------------------------------
(* fortibackup prune: plan, print, then retain from a second listing *)

StartPrune(a) ==
    /\ a \in Pruner
    /\ run[a].step = "idle"
    /\ Moves(a, [run[a] EXCEPT !.step = "open", !.purpose = "plan"])

Planned(a) ==
    /\ Listed(a, "plan")
    /\ Moves(a, IF Victims(a, run[a].seen) = {} THEN Idle
                ELSE [Idle EXCEPT !.step = "open", !.purpose = "retain"])

----------------------------------------------------------------------------

\* The steps an actor takes by itself once it has started.
Continue(a) ==
    \/ FetchOk(a) \/ FetchFails(a)
    \/ OpenDir(a) \/ ListFails(a)
    \/ DedupHit(a) \/ DedupMiss(a) \/ Relisted(a)
    \/ CreateConf(a) \/ WriteConf(a) \/ CreateMeta(a) \/ WriteMeta(a)
    \/ UploadConf(a) \/ UploadMeta(a) \/ UploadMissing(a)
    \/ PickVictims(a) \/ EndDelete(a) \/ Planned(a)
    \/ CreateMark(a) \/ WriteMark(a) \/ Report(a)
    \/ \E t \in Time : ReadEntry(a, t) \/ PassOver(a, t) \/ Discover(a, t)
    \/ \E t \in Time : DeleteConf(a, t) \/ DeleteMeta(a, t)

Fault ==
    \/ \E p \in Process : Crash(p)
    \/ \E a \in Actor : Cancel(a) \/ UploadFails(a) \/ IoError(a)

Next ==
    \/ Tick
    \/ \E v \in Version : Reconfigure(v)
    \/ \E a \in Actor : Start(a) \/ StartPrune(a) \/ Continue(a)
    \/ Fault

Spec == Init /\ [][Next]_vars

\* The runtime runs every task that can go on, cron fires again and again, and a
\* device that keeps being asked answers some time.  Nothing is assumed of
\* faults, of `prune` being started, of the clock or of the device changing.
Fairness ==
    /\ \A a \in Actor : WF_vars(Continue(a))
    /\ \A a \in Runner : WF_vars(Start(a)) /\ SF_vars(FetchOk(a))

FairSpec == Spec /\ Fairness

----------------------------------------------------------------------------
(* What retention guarantees *)

Enough(S, t) == Cardinality(Newer(S, t)) >= KeepCopies

\* Every file that any actor has still to delete is expired and has at least
\* KeepCopies newer files beside it at this moment, however old the listing is
\* from which it was picked and whatever the others have deleted since
\* (pick_victims, delete_victims).
VictimsBacked ==
    \A a \in Actor : \A t \in run[a].victims :
        t + KeepDays < now /\ Enough(Present, t)

\* What an actor has listed is still there, or has KeepCopies newer files beside
\* it: only retention can have removed it.
ListedBacked ==
    \A a \in Actor : \A t \in run[a].seen \cup run[a].todo :
        t \in Present \/ Enough(Present, t)

\* A listing may be stale, but wherever it shows enough newer files, enough
\* newer files are there (list_entries_for_device against the delete_victims of
\* another actor).
ListingsBacked ==
    \A a \in Actor : \A t \in Time :
        Enough(run[a].seen \cup run[a].todo, t) => Enough(Present, t)

StemsInPast == \A a \in Actor : run[a].stem <= now

\* Nothing is saved before it is fetched.
ArtifactKnown ==
    \A a \in Actor :
        \/ run[a].step \in {"createConf", "writeConf", "createMeta", "writeMeta",
                           "uploadConf", "uploadMeta"}
        \/ run[a].step \in {"open", "scan"} /\ run[a].purpose = "dedup"
        => run[a].cfg \in Version

\* The inductive invariant behind VictimsBacked and KeepsPromise.
RetentionInv ==
    TypeOK /\ StemsInPast /\ ArtifactKnown /\ ListedBacked /\ VictimsBacked

\* The directory behaves as Archive promises: files only appear with stems in
\* the past, and one disappears only when it is expired and KeepCopies newer
\* ones are present at that moment (execute and cmd_prune as a whole).
Promise == INSTANCE Archive WITH backups <- Present
KeepsPromise == Promise!Spec

\* Retention deletes a file only if KeepCopies newer COMPLETE backups remain
\* (the doc of apply_retention counts backups, the code counts files).
KeepsCompleteCopies ==
    [][\A t \in Time : conf[t] # Absent /\ conf'[t] = Absent =>
          Cardinality({u \in Newer(Time, t) : conf'[u] \in Version}) >= KeepCopies]_vars

----------------------------------------------------------------------------
(* What a saved configuration is worth *)

Complete(t) == conf[t] \in Version

\* A sidecar tells the truth: the file it stands beside has the content whose
\* hash the sidecar holds, unless the file has been deleted (save_backup, and
\* the dedup of every later run, which believes the sidecar).
SidecarTrue == \A t \in Time : meta[t] \in Version => conf[t] \in {meta[t], Absent}

\* A run that has decided on `changed` or `no_change` has the configuration it
\* fetched complete on disk until it has reported, in the file it wrote or in
\* the one it compared with, unless retention has deleted that file by now
\* (execute: the verdict is reported an upload and a retention later).
VerdictHolds ==
    \A a \in Actor : run[a].outcome \in {"changed", "noChange"} =>
        conf[run[a].basis] \in {run[a].cfg, Absent}

\* The objects of one backup in the mirror belong together: a sidecar is there
\* only with its file, and describes it (mirror_new_backup reads both files
\* anew, awaits later).
MirrorConsistent ==
    \A t \in Time : s3meta[t] # Absent => s3meta[t] \in Version /\ s3conf[t] = s3meta[t]

\* Once the device has a complete backup it never has none (save_backup and
\* apply_retention of one run after another, with crashes anywhere between).
NeverLosesLastCopy ==
    [][(\E t \in Time : Complete(t)) => (\E t \in Time : Complete(t))']_vars

\* A new file is begun only when the newest file does not hold, complete, the
\* very configuration that was fetched: "stores only changes" (save_backup).
StoresOnlyChanges ==
    [][\A a \in Runner :
          run[a].step = "createConf" /\ run'[a].step = "writeConf" =>
              ~ \E t \in Time : IsNewest(t, Present) /\ conf[t] = run[a].cfg]_vars

----------------------------------------------------------------------------
(* What must happen *)

\* Every run and every `prune` ends, whatever the others delete or leave
\* half-written under it (run_for_device, cmd_prune).
EveryRunEnds == \A a \in Actor : run[a].step # "idle" ~> run[a].step = "idle"

\* No sidecar is half-written or stands beside content that is not its own.
Legible == SidecarTrue /\ \A t \in Time : meta[t] # Torn

\* A configuration that stays on the device is stored in the end, through
\* crashes and failed fetches, unless an illegible sidecar has been left in the
\* directory for good: that one fails, or deceives, every later run.
EventuallyCaptured ==
    []<>Legible =>
        \A v \in Version :
            <>[](device = v) => <>[](\E t \in Time : conf[t] = v)
=============================================================================
