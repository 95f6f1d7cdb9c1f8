------------------------------ MODULE Startup ------------------------------
(* The start of the daemon (main.rs: cmd_run), one part after the other,    *)
(* and what a running process has kept of the configuration it started      *)
(* with.  An administrator edits config.toml and the environment file,      *)
(* verifies them, restarts the service, or saves a configuration in the web *)
(* UI; systemd restarts a process that failed.  How a reload replaces the   *)
(* jobs, and how it can fail in the middle, is Daemon's.                    *)
EXTENDS Config

CONSTANTS
    Texts,     \* the configurations that anyone writes
    Garbled,   \* text that does not parse, or a file that cannot be read
    None,
    Capacity,  \* of the reload channel
    MaxActs,   \* bound: acts of the administrator
    MaxFaults  \* bound: kills, addresses in use

ASSUME StartupAssumption ==
    /\ Texts \subseteq Config
    /\ Garbled \notin Config /\ None \notin Config
    /\ {"unset", "none"} \cap Bucket = {}
    /\ Capacity \in Nat /\ MaxActs \in Nat /\ MaxFaults \in Nat

VARIABLES
    disk,     \* config.toml
    password, \* the environment file: the variable of the web UI's password
    verified, \* history: `verify` has accepted these two as they are
    step,     \* where cmd_run is, or "failed"
    cfg,      \* its configuration, loaded from the file
    environ,  \* its environment
    web,      \* the web UI is listening
    pending,  \* the reload channel
    live,     \* the shared configuration
    watcher,  \* the watchdog's task
    mirror,   \* S3_MIRROR
    upload,   \* history: where the process has uploaded last
    notice,   \* history: the last event dispatched, and where it went
    acts, faults

files == <<disk, password, verified>>
memory == <<cfg, environ, web, pending, live, watcher, mirror, upload>>
counters == <<acts, faults>>
vars == <<files, step, memory, notice, counters>>

Step == {"failed", "load", "metrics", "webui", "watchdog", "jobs", "running"}
Status == {"success", "no_change"} \cup Alarming
NoNotice == [status |-> "success", by |-> None, sent |-> {}]

TypeOK ==
    /\ disk \in Texts \cup {Garbled}
    /\ password \in {"unset", "empty", "set"}
    /\ verified \in BOOLEAN
    /\ step \in Step
    /\ cfg \in Texts \cup {None}
    /\ environ \in {"unset", "empty", "set"}
    /\ web \in BOOLEAN
    /\ pending \in Seq(Texts) /\ Len(pending) <= Capacity
    /\ live \in Texts \cup {None}
    /\ watcher \in {"none", "alive", "panicked"}
    /\ mirror \in Bucket \cup {"unset", "none"}
    /\ upload \in Bucket \cup {"none"}
    /\ notice \in [status : Status, by : Texts \cup {None}, sent : SUBSET Channel]
    /\ acts \in 0..MaxActs /\ faults \in 0..MaxFaults

Init ==
    /\ disk \in Texts \cup {Garbled}
    /\ password \in {"unset", "empty", "set"}
    /\ verified = FALSE
    /\ step = "load"
    /\ cfg = None /\ environ = password
    /\ web = FALSE /\ pending = <<>> /\ live = None
    /\ watcher = "none" /\ mirror = "unset" /\ upload = "none"
    /\ notice = NoNotice
    /\ acts = 0 /\ faults = 0

----------------------------------------------------------------------------
(* The administrator, and systemd *)

Act == acts < MaxActs /\ acts' = acts + 1 /\ UNCHANGED faults
Fault == faults < MaxFaults /\ faults' = faults + 1 /\ UNCHANGED acts

EditFile(t) ==
    /\ t # disk
    /\ Act
    /\ disk' = t
    /\ verified' = FALSE
    /\ UNCHANGED <<password, step, memory, notice>>

EditEnvironment(p) ==
    /\ p # password
    /\ Act
    /\ password' = p
    /\ verified' = FALSE
    /\ UNCHANGED <<disk, step, memory, notice>>

\* `fortibackup verify` loads the file and reaches every device.
Verify ==
    /\ disk # Garbled /\ Valid(disk)
    /\ Act
    /\ verified' = TRUE
    /\ UNCHANGED <<disk, password, step, memory, notice>>

\* The process is gone, with all it had in memory.
Ends(next) ==
    /\ step' = next
    /\ cfg' = None /\ environ' = password
    /\ web' = FALSE /\ pending' = <<>> /\ live' = None
    /\ watcher' = "none" /\ mirror' = "unset" /\ upload' = "none"
    /\ UNCHANGED <<files, notice>>

\* `systemctl restart`: the new process has the environment of now.
Restart ==
    /\ Act
    /\ Ends("load")

\* Restart=on-failure.
RestartFailed ==
    /\ step = "failed"
    /\ Ends("load")
    /\ UNCHANGED counters

Kill ==
    /\ step # "failed"
    /\ Fault
    /\ Ends("failed")

----------------------------------------------------------------------------
(* cmd_run *)

Fails == Ends("failed") /\ UNCHANGED counters

\* An address is in use by another program.
AddressInUse ==
    /\ \/ step = "metrics" /\ cfg.metrics = "ok"
       \/ step = "webui" /\ cfg.webui.listen = "ok"
    /\ Fault
    /\ Ends("failed")

Load ==
    /\ step = "load"
    /\ IF disk # Garbled /\ Valid(disk)
       THEN /\ step' = "metrics"
            /\ cfg' = disk /\ live' = disk
            /\ UNCHANGED <<files, environ, web, pending, watcher, mirror, upload, notice, counters>>
       ELSE Fails

ServeMetrics ==
    /\ step = "metrics"
    /\ IF cfg.metrics # "bad"
       THEN step' = "webui" /\ UNCHANGED <<files, memory, notice, counters>>
       ELSE Fails

ServeWebUi ==
    /\ step = "webui"
    /\ IF WebUiStarts(cfg.webui, environ)
       THEN /\ step' = "watchdog"
            /\ web' = (cfg.webui.listen # "absent")
            /\ UNCHANGED <<files, cfg, environ, pending, live, watcher, mirror, upload,
                           notice, counters>>
       ELSE Fails

\* tokio::time::interval(0) panics in the task; the process goes on without it.
SpawnWatchdog ==
    /\ step = "watchdog"
    /\ step' = "jobs"
    /\ watcher' = IF ~cfg.watchdog.enabled THEN "none"
                  ELSE IF cfg.watchdog.interval = "zero" THEN "panicked" ELSE "alive"
    /\ UNCHANGED <<files, cfg, environ, web, pending, live, mirror, upload, notice, counters>>

\* Mutant: the scheduler logs a schedule it cannot install and returns.
InstallOrStop ==
    /\ step = "jobs"
    /\ Scheduled(cfg)
    /\ step' = "running"
    /\ UNCHANGED <<files, memory, notice, counters>>

\* The jobs of the configuration the process started with; one bad schedule ends it.
InstallJobs ==
    /\ step = "jobs"
    /\ IF Scheduled(cfg)
       THEN step' = "running" /\ UNCHANGED <<files, memory, notice, counters>>
       ELSE Fails

----------------------------------------------------------------------------
(* The running process *)

\* Mutant: the handler does not wait for room in the channel.
SaveAtOnce(c) ==
    /\ web
    /\ Valid(c)
    /\ Act
    /\ disk' = c
    /\ verified' = (verified /\ c = disk)
    /\ pending' = Append(pending, c)
    /\ UNCHANGED <<password, step, cfg, environ, web, live, watcher, mirror, upload, notice>>

\* POST /config, from the moment the web UI listens.
Save(c) ==
    /\ web
    /\ Valid(c)
    /\ Len(pending) < Capacity
    /\ Act
    /\ disk' = c
    /\ verified' = (verified /\ c = disk)
    /\ pending' = Append(pending, c)
    /\ UNCHANGED <<password, step, cfg, environ, web, live, watcher, mirror, upload, notice>>

\* Mutant: a configuration without a watchdog ends its task.
ReloadTearsDown ==
    /\ step = "running"
    /\ pending # <<>>
    /\ live' = Head(pending)
    /\ pending' = Tail(pending)
    /\ watcher' = IF live'.watchdog.enabled THEN watcher ELSE "none"
    /\ UNCHANGED <<files, step, cfg, environ, web, mirror, upload, notice, counters>>

\* The scheduler swaps the live configuration.  Listeners, credentials, the
\* watchdog's task and the mirror stay what they are.
Reload ==
    /\ step = "running"
    /\ pending # <<>>
    /\ live' = Head(pending)
    /\ pending' = Tail(pending)
    /\ UNCHANGED <<files, step, cfg, environ, web, watcher, mirror, upload, notice, counters>>

Dispatch(c, status) ==
    notice' = [status |-> status, by |-> c, sent |-> Sent(c.notifications, status)]

\* Mutant: the client is made anew for every upload.
MirrorAnew(c) == IF c.s3 \in Bucket THEN c.s3 ELSE "none"

\* What s3_mirror returns: its first caller's configuration has decided for good.
S3Mirror(c) ==
    IF mirror # "unset" THEN mirror ELSE IF c.s3 \in Bucket THEN c.s3 ELSE "none"

\* A run that stores a new backup ...
BackUp ==
    /\ step = "running"
    /\ mirror' = S3Mirror(live)
    /\ upload' = IF mirror' = "none" THEN upload ELSE mirror'
    /\ Dispatch(live, "success")
    /\ UNCHANGED <<files, step, cfg, environ, web, pending, live, watcher, counters>>

\* ... one that finds nothing new, and one that fails.
BackUpNothing ==
    /\ step = "running"
    /\ \E status \in {"no_change", "failed"} : Dispatch(live, status)
    /\ UNCHANGED <<files, step, memory, counters>>

\* The watchdog finds a device overdue, or recovered.
WatchdogCheck ==
    /\ step \in {"jobs", "running"}
    /\ watcher = "alive"
    /\ live.watchdog.enabled /\ live.watchdog.staleAfter = "ok"
    /\ \E status \in {"stale", "recovered"} : Dispatch(live, status)
    /\ UNCHANGED <<files, step, memory, counters>>

----------------------------------------------------------------------------

Start == Load \/ ServeMetrics \/ ServeWebUi \/ SpawnWatchdog \/ InstallJobs

Next ==
    \/ \E t \in Texts \cup {Garbled} : EditFile(t)
    \/ \E p \in {"unset", "empty", "set"} : EditEnvironment(p)
    \/ Verify \/ Restart
    \/ RestartFailed \/ Kill \/ AddressInUse
    \/ Start
    \/ \E c \in Texts : Save(c)
    \/ Reload \/ BackUp \/ BackUpNothing \/ WatchdogCheck

Spec == Init /\ [][Next]_vars

\* cmd_run goes on while it can, and systemd restarts what failed.
FairSpec == Spec /\ WF_vars(Start) /\ WF_vars(RestartFailed)

----------------------------------------------------------------------------
(* Properties *)

Startable ==
    /\ disk # Garbled /\ Valid(disk)
    /\ disk.metrics # "bad"
    /\ WebUiStarts(disk.webui, password)
    /\ Scheduled(disk)

\* Once what is on disk can be started with and stays so, the daemon runs in the
\* end, whatever it was doing and however often it has failed: every failure of
\* cmd_run ends the process with an error, and systemd starts it with the file and
\* the environment of that time (main.rs:101-130, fortibackup.service).
Recovers == <>[]Startable => <>[](step = "running")

\* An event that somebody should see is sent on every channel that its
\* configuration names, knows and has given usable settings; so a channel that is
\* named is never without its block, although dispatch would only warn and the
\* configuration may have been swapped since (config.rs:343-356, notify/mod.rs:82-122).
AlarmsGoOut ==
    notice.status \in Alarming =>
        LET n == notice.by.notifications
        IN \A ch \in n.onFailure \cap Channel :
              \/ ch \in notice.sent
              \/ n[ch] = "useless"

\* The live configuration wants the watchdog and nothing watches, only if the
\* process started without one, or with an interval of zero (main.rs:118-127).
BlindOnlyAsStarted ==
    step = "running" /\ live.watchdog.enabled /\ watcher # "alive" =>
        ~cfg.watchdog.enabled \/ cfg.watchdog.interval = "zero"

\* Everything one process mirrors is in one bucket, whatever is reloaded
\* (backup.rs:121-146).
OneBucket ==
    [][upload # "none" /\ upload' # "none" => upload' = upload]_vars

\* A configuration that `verify` has accepted does not fail at the start.
\* README.md:199-201: "a bad config is caught here instead of failing the live daemon
\* on restart".
VerifiedStarts ==
    [][verified /\ step \notin {"failed", "running"} /\ step' = "failed" /\ UNCHANGED faults
          => step # "load" /\ (cfg # disk \/ environ # password)]_vars
=============================================================================
