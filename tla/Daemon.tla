------------------------------ MODULE Daemon ------------------------------
(* The daemon around the backup runs: the configuration file on disk, the   *)
(* handlers of POST /config that rewrite it (webui.rs), the channel they    *)
(* send it down, the scheduler that swaps it in and replaces its cron jobs  *)
(* (scheduler.rs), the runs that cron and "Run now" start, SIGTERM, and     *)
(* systemd, which restarts a process that failed.                           *)
EXTENDS Integers, Sequences

CONSTANTS
    Config,      \* the configurations that pass validation
    Device,
    Devices,     \* Devices[c]: the devices of c, in the order of the file
    BadCron,     \* BadCron[c]: those whose schedule no job can be made from
    Torn,        \* a file that was created and not fully written
    Nothing,     \* no file, no configuration
    Handler,     \* tasks serving POST /config
    Visitor,     \* tasks serving "Run now"
    CronTask,    \* tasks spawned by cron jobs
    Capacity,    \* of the reload channel
    SharedSecond,\* whether two saves may happen in the same second
    MaxPosts,    \* bound: saves
    MaxSignals,  \* bound: SIGTERMs
    MaxFaults    \* bound: kills of the process and calls that the cron scheduler
                 \* fails, together

ASSUME ConfigAssumption ==
    /\ Devices \in [Config -> Seq(Device)]
    /\ \A c \in Config : \A i, j \in 1..Len(Devices[c]) :
          Devices[c][i] = Devices[c][j] => i = j
    /\ BadCron \in [Config -> SUBSET Device]
    /\ Torn \notin Config /\ Nothing \notin Config /\ Torn # Nothing
    /\ Nothing \notin Device

ASSUME BoundAssumption ==
    /\ Capacity \in Nat \ {0}
    /\ SharedSecond \in BOOLEAN
    /\ MaxPosts \in Nat /\ MaxSignals \in Nat /\ MaxFaults \in Nat

VARIABLES
    disk,     \* config.toml
    kept,     \* kept[t]: the file config.toml.bak-t
    original, \* history: the configurations that config.toml has held
    left,     \* history: a client has left while its handler awaited the channel
    post,     \* post[h]: the request that handler h is serving
    channel,  \* configurations sent and not yet received
    live,     \* the shared configuration
    jobs,     \* the jobs of the cron scheduler
    sched,    \* the loop of scheduler::run
    heard,    \* the loop's signal listener has received a SIGTERM
    inFlight, \* the reservations of "Run now"
    manual,   \* manual[m]: the device that visitor m is having backed up
    cron,     \* cron[k]: the job whose run task k is executing
    second, posts, signals, faults

files == <<disk, kept, original, left>>
runs == <<inFlight, manual, cron>>
counters == <<second, posts, signals, faults>>
vars == <<files, post, channel, live, jobs, sched, heard, runs, counters>>

----------------------------------------------------------------------------

Second == 0..MaxPosts
Generation == 0..MaxPosts

\* One job per device and installation; the uuid is the pair of the two.
Job == [device : Device, cfg : Config, made : Generation]

Post == [step : {"idle", "copy", "create", "write", "send"},
         cfg  : Config \cup {Nothing}]

Sched == [step    : {"boot", "select", "remove", "install", "failed", "stopped"},
          ids     : SUBSET Job,   \* current_ids
          new     : SUBSET Job,   \* the ids of the installation that is going on
          stray   : SUBSET Job,   \* history: jobs that are there and whose ids are gone
          refused : Device \cup {Nothing}, \* history: whose job the cron scheduler has
                                  \* refused in the last installation
          made    : Generation]

NoPost == [step |-> "idle", cfg |-> Nothing]
DevicesOf(c) == {Devices[c][i] : i \in DOMAIN Devices[c]}
Up == sched.step \notin {"failed", "stopped"}

TypeOK ==
    /\ disk \in Config \cup {Torn}
    /\ kept \in [Second -> Config \cup {Torn, Nothing}]
    /\ original \subseteq Config
    /\ left \in BOOLEAN
    /\ post \in [Handler -> Post]
    /\ channel \in Seq(Config) /\ Len(channel) <= Capacity
    /\ live \in Config
    /\ jobs \subseteq Job
    /\ sched \in Sched
    /\ heard \in BOOLEAN
    /\ inFlight \subseteq Device
    /\ manual \in [Visitor -> Device \cup {Nothing}]
    /\ cron \in [CronTask -> Job \cup {Nothing}]
    /\ second \in Second
    /\ posts \in 0..MaxPosts /\ signals \in 0..MaxSignals /\ faults \in 0..MaxFaults

Init ==
    /\ disk \in Config
    /\ kept = [t \in Second |-> Nothing]
    /\ original = {disk}
    /\ left = FALSE
    /\ post = [h \in Handler |-> NoPost]
    /\ channel = <<>>
    /\ live = disk
    /\ jobs = {}
    /\ sched = [step |-> "boot", ids |-> {}, new |-> {}, stray |-> {}, refused |-> Nothing,
                made |-> 0]
    /\ heard = FALSE
    /\ inFlight = {}
    /\ manual = [m \in Visitor |-> Nothing]
    /\ cron = [k \in CronTask |-> Nothing]
    /\ second = 0 /\ posts = 0 /\ signals = 0 /\ faults = 0

----------------------------------------------------------------------------
(* The life of the process *)

\* The process ends: what it has in memory is gone, the files stay.
Ends(step) ==
    /\ sched' = [sched EXCEPT !.step = step, !.ids = {}, !.new = {}, !.stray = {},
                              !.refused = Nothing]
    /\ post' = [h \in Handler |-> NoPost]
    /\ channel' = <<>>
    /\ jobs' = {}
    /\ heard' = FALSE
    /\ inFlight' = {}
    /\ manual' = [m \in Visitor |-> Nothing]
    /\ cron' = [k \in CronTask |-> Nothing]
    /\ UNCHANGED <<files, live>>

Crash ==
    /\ Up
    /\ faults < MaxFaults
    /\ faults' = faults + 1
    /\ Ends("failed")
    /\ UNCHANGED <<second, posts, signals>>

\* Mutant: what the file holds is not parsed.
BootUnparsed ==
    /\ sched.step = "failed"
    /\ live' = disk
    /\ sched' = [sched EXCEPT !.step = "boot", !.made = 0]
    /\ UNCHANGED <<files, post, channel, jobs, heard, runs, counters>>

\* systemd starts a process that failed again; it loads the file, which it
\* must be able to parse.
Boot ==
    /\ sched.step = "failed"
    /\ disk \in Config
    /\ live' = disk
    /\ sched' = [sched EXCEPT !.step = "boot", !.made = 0]
    /\ UNCHANGED <<files, post, channel, jobs, heard, runs, counters>>

\* Until the loop has listened for the first time, SIGTERM kills.  From then
\* on a signal is noticed only by the listener that select! is polling.
Terminate ==
    /\ Up
    /\ signals < MaxSignals
    /\ signals' = signals + 1
    /\ IF sched.step = "boot"
       THEN Ends("stopped")
       ELSE /\ heard' = (sched.step = "select")
            /\ UNCHANGED <<files, post, channel, live, jobs, sched, runs>>
    /\ UNCHANGED <<second, posts, faults>>

Shutdown ==
    /\ sched.step = "select"
    /\ heard
    /\ Ends("stopped")
    /\ UNCHANGED counters

----------------------------------------------------------------------------
(* POST /config *)

NextSecond ==
    /\ second < MaxPosts
    /\ second' = second + 1
    /\ UNCHANGED <<files, post, channel, live, jobs, sched, heard, runs,
                   posts, signals, faults>>

\* The request has arrived, and its text parses and is valid.
Submit(h, c) ==
    /\ Up
    /\ post[h] = NoPost
    /\ posts < MaxPosts
    /\ posts' = posts + 1
    /\ post' = [post EXCEPT ![h] = [step |-> "copy", cfg |-> c]]
    /\ UNCHANGED <<files, channel, live, jobs, sched, heard, runs,
                   second, signals, faults>>

\* Mutant: the file is copied after it has been overwritten.
CopyNew(h) ==
    /\ post[h].step = "copy"
    /\ SharedSecond \/ kept[second] = Nothing
    /\ kept' = [kept EXCEPT ![second] = post[h].cfg]
    /\ post' = [post EXCEPT ![h].step = "create"]
    /\ UNCHANGED <<disk, original, left, channel, live, jobs, sched, heard, runs, counters>>

\* The file is copied to .bak-<now> before it is overwritten.
CopyOld(h) ==
    /\ post[h].step = "copy"
    /\ SharedSecond \/ kept[second] = Nothing
    /\ kept' = [kept EXCEPT ![second] = disk]
    /\ post' = [post EXCEPT ![h].step = "create"]
    /\ UNCHANGED <<disk, original, left, channel, live, jobs, sched, heard, runs, counters>>

\* fs::write truncates the file, then writes it.
CreateDisk(h) ==
    /\ post[h].step = "create"
    /\ disk' = Torn
    /\ post' = [post EXCEPT ![h].step = "write"]
    /\ UNCHANGED <<kept, original, left, channel, live, jobs, sched, heard, runs, counters>>

\* Over what another handler has written since, a tail of it may remain.
WriteDisk(h) ==
    /\ post[h].step = "write"
    /\ disk' \in IF disk \in {Torn, post[h].cfg} THEN {post[h].cfg} ELSE {post[h].cfg, Torn}
    /\ original' = original \cup {post[h].cfg}
    /\ post' = [post EXCEPT ![h].step = "send"]
    /\ UNCHANGED <<kept, left, channel, live, jobs, sched, heard, runs, counters>>

Send(h) ==
    /\ post[h].step = "send"
    /\ Len(channel) < Capacity
    /\ channel' = Append(channel, post[h].cfg)
    /\ post' = [post EXCEPT ![h] = NoPost]
    /\ UNCHANGED <<files, live, jobs, sched, heard, runs, counters>>

\* The client goes away while the handler awaits room in the channel.
Abandon(h) ==
    /\ post[h].step = "send"
    /\ Len(channel) = Capacity
    /\ left' = TRUE
    /\ post' = [post EXCEPT ![h] = NoPost]
    /\ UNCHANGED <<disk, kept, original, channel, live, jobs, sched, heard, runs, counters>>

----------------------------------------------------------------------------
(* The scheduler *)

\* Mutant: the old jobs are not torn down.
ReceiveKeepsJobs ==
    /\ sched.step = "select"
    /\ channel # <<>>
    /\ channel' = Tail(channel)
    /\ live' = Head(channel)
    /\ heard' = FALSE
    /\ sched' = [sched EXCEPT !.step = "install", !.refused = Nothing,
                              !.made = @ + 1]
    /\ UNCHANGED <<files, post, jobs, runs, counters>>

\* Mutant: the shared configuration is not replaced.
ReceiveNoSwap ==
    /\ sched.step = "select"
    /\ channel # <<>>
    /\ channel' = Tail(channel)
    /\ heard' = FALSE
    /\ sched' = [sched EXCEPT !.step = "remove", !.refused = Nothing,
                              !.made = @ + 1]
    /\ UNCHANGED <<files, post, live, jobs, runs, counters>>

\* One round of select! ends with a reload: the listener of that round is
\* dropped with whatever it has heard, and the configuration is swapped in.
Receive ==
    /\ sched.step = "select"
    /\ channel # <<>>
    /\ channel' = Tail(channel)
    /\ live' = Head(channel)
    /\ heard' = FALSE
    /\ sched' = [sched EXCEPT !.step = "remove", !.refused = Nothing,
                              !.made = @ + 1]
    /\ UNCHANGED <<files, post, jobs, runs, counters>>

RemoveJob(j) ==
    /\ sched.step = "remove"
    /\ j \in sched.ids
    /\ jobs' = jobs \ {j}
    /\ sched' = [sched EXCEPT !.ids = @ \ {j}]
    /\ UNCHANGED <<files, post, channel, live, heard, runs, counters>>

\* A removal that fails is only warned about: the job stays, its id is gone.
RemoveFails(j) ==
    /\ sched.step = "remove"
    /\ j \in sched.ids
    /\ faults < MaxFaults
    /\ faults' = faults + 1
    /\ sched' = [sched EXCEPT !.ids = @ \ {j}, !.stray = @ \cup {j}]
    /\ UNCHANGED <<files, post, channel, live, jobs, heard, runs,
                   second, posts, signals>>

RemovedAll ==
    /\ sched.step = "remove"
    /\ sched.ids = {}
    /\ sched' = [sched EXCEPT !.step = "install"]
    /\ UNCHANGED <<files, post, channel, live, jobs, heard, runs, counters>>

\* The device whose job is created next, in the order of the file.
Installing == sched.step \in {"boot", "install"}
Remaining == {i \in DOMAIN Devices[live] :
                 \A j \in sched.new : j.device # Devices[live][i]}
IsNextDevice(d) ==
    \E i \in Remaining : d = Devices[live][i] /\ \A k \in Remaining : i <= k

JobOf(d) == [device |-> d, cfg |-> live, made |-> sched.made]

InstallJob(d) ==
    /\ Installing
    /\ IsNextDevice(d)
    /\ d \notin BadCron[live]
    /\ jobs' = jobs \cup {JobOf(d)}
    /\ sched' = [sched EXCEPT !.new = @ \cup {JobOf(d)}]
    /\ UNCHANGED <<files, post, channel, live, heard, runs, counters>>

\* Mutant: the ids that were installed so far are taken for the current ones,
\* and their jobs are removed with the failure.
InstallFailsCleanly(d) ==
    /\ Installing
    /\ IsNextDevice(d)
    /\ d \in BadCron[live]
    /\ IF sched.step = "boot"
       THEN Ends("failed")
       ELSE /\ sched' = [sched EXCEPT !.step = "select", !.new = {}, !.refused = Nothing]
            /\ jobs' = jobs \ sched.new
            /\ UNCHANGED <<files, post, channel, live, heard, runs>>
    /\ UNCHANGED counters

\* The end of an installation at a job that cannot be made, or be added.  At start
\* it ends the process; in a reload the ids of the jobs installed so far are dropped.
EndsInstallation(refused) ==
    IF sched.step = "boot"
    THEN Ends("failed")
    ELSE /\ sched' = [sched EXCEPT !.step = "select", !.new = {}, !.stray = @ \cup sched.new,
                                   !.refused = refused]
         /\ UNCHANGED <<files, post, channel, live, jobs, heard, runs>>

InstallFails(d) ==
    /\ Installing
    /\ IsNextDevice(d)
    /\ d \in BadCron[live]
    /\ EndsInstallation(Nothing)
    /\ UNCHANGED counters

\* The cron scheduler does not take the job.
AddFails(d) ==
    /\ Installing
    /\ IsNextDevice(d)
    /\ d \notin BadCron[live]
    /\ faults < MaxFaults
    /\ faults' = faults + 1
    /\ EndsInstallation(d)
    /\ UNCHANGED <<second, posts, signals>>

InstalledAll ==
    /\ Installing
    /\ Remaining = {}
    /\ sched' = [sched EXCEPT !.step = "select", !.ids = sched.new, !.new = {}]
    /\ UNCHANGED <<files, post, channel, live, jobs, heard, runs, counters>>

----------------------------------------------------------------------------
(* The runs *)

\* A job fires with the configuration it was made with, whatever else runs.
Fire(j, k) ==
    /\ j \in jobs
    /\ cron[k] = Nothing
    /\ cron' = [cron EXCEPT ![k] = j]
    /\ UNCHANGED <<files, post, channel, live, jobs, sched, heard,
                   inFlight, manual, counters>>

FinishCron(k) ==
    /\ cron[k] # Nothing
    /\ cron' = [cron EXCEPT ![k] = Nothing]
    /\ UNCHANGED <<files, post, channel, live, jobs, sched, heard,
                   inFlight, manual, counters>>

\* Mutant: the reservation is made and not looked at.
RunNowAnyway(m, d) ==
    /\ Up
    /\ manual[m] = Nothing
    /\ d \in DevicesOf(live)
    /\ inFlight' = inFlight \cup {d}
    /\ manual' = [manual EXCEPT ![m] = d]
    /\ UNCHANGED <<files, post, channel, live, jobs, sched, heard, cron, counters>>

\* A device that is reserved already is answered with 409.
RunNow(m, d) ==
    /\ Up
    /\ manual[m] = Nothing
    /\ d \in DevicesOf(live)
    /\ d \notin inFlight
    /\ inFlight' = inFlight \cup {d}
    /\ manual' = [manual EXCEPT ![m] = d]
    /\ UNCHANGED <<files, post, channel, live, jobs, sched, heard, cron, counters>>

\* The run ends, panics, or is dropped with its client: the guard is released.
FinishManual(m) ==
    /\ manual[m] # Nothing
    /\ inFlight' = inFlight \ {manual[m]}
    /\ manual' = [manual EXCEPT ![m] = Nothing]
    /\ UNCHANGED <<files, post, channel, live, jobs, sched, heard, cron, counters>>

----------------------------------------------------------------------------

Schedule ==
    \/ Shutdown \/ Receive \/ RemovedAll \/ InstalledAll
    \/ \E j \in sched.ids : RemoveJob(j)
    \/ \E d \in Device : InstallJob(d) \/ InstallFails(d)

Serve(h) == CopyOld(h) \/ CreateDisk(h) \/ WriteDisk(h) \/ Send(h)

Next ==
    \/ Crash \/ Boot \/ Terminate \/ NextSecond
    \/ Schedule
    \/ \E j \in sched.ids : RemoveFails(j)
    \/ \E d \in Device : AddFails(d)
    \/ \E h \in Handler : Serve(h) \/ Abandon(h) \/ \E c \in Config : Submit(h, c)
    \/ \E k \in CronTask : FinishCron(k) \/ \E j \in jobs : Fire(j, k)
    \/ \E m \in Visitor : FinishManual(m) \/ \E d \in Device : RunNow(m, d)

Spec == Init /\ [][Next]_vars

\* The runtime polls every task that can go on, and systemd restarts a failed
\* process.  Nothing is assumed of requests, signals, crashes or cron.
Fairness ==
    /\ WF_vars(Schedule) /\ WF_vars(Boot) /\ WF_vars(NextSecond)
    /\ \A h \in Handler : WF_vars(Serve(h))

FairSpec == Spec /\ Fairness

----------------------------------------------------------------------------
(* What the daemon must keep true *)

\* A bad schedule, or a job that the cron scheduler refuses, costs no device that
\* stands before it in the file its job, and no earlier job of such a device stands
\* in for it (install_jobs, run).
PrefixScheduled ==
    sched.step = "select" =>
        \A i \in DOMAIN Devices[live] :
            (\A k \in 1..i : Devices[live][k] \notin BadCron[live] \cup {sched.refused}) =>
                JobOf(Devices[live][i]) \in jobs

\* Whenever the loop waits, it knows by its id every job that there is, except those
\* that a failed removal or an installation cut short has left behind; and unless the
\* last installation was cut short, what it knows is exactly one job for every device
\* of the live configuration, whatever reloads, crashes and lost clients came before
\* (run, install_jobs).
JobsMatchLive ==
    sched.step = "select" =>
        /\ jobs = sched.ids \cup sched.stray /\ sched.ids \cap sched.stray = {}
        /\ BadCron[live] = {} /\ sched.refused = Nothing =>
              sched.ids = {JobOf(d) : d \in DevicesOf(live)}

\* No configuration is lost by saving another, wherever the process dies: it is
\* still on disk or in a backup of the file (handle_config_post).
ConfigKept == \A c \in original : disk = c \/ \E t \in Second : kept[t] = c

\* No two visitors have one device backed up at the same time, and every
\* reservation has its run ("another browser tab", AppState).
OneManualRun ==
    /\ inFlight = {manual[m] : m \in Visitor} \ {Nothing}
    /\ \A m, n \in Visitor : m # n /\ manual[m] = manual[n] => manual[m] = Nothing

\* In the end the daemon works with the configuration that is on disk, so that a
\* restart would change nothing (handle_config_post, run).  A client that leaves
\* while its handler waits for room breaks this: the file is written by then.
LiveFollowsDisk == \A c \in Config : <>[](disk = c /\ Up /\ ~left) => <>[](live = c)
=============================================================================
