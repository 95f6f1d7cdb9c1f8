----------------------------- MODULE Watchdog -----------------------------
(* The backup-overdue watchdog (watchdog.rs) beside the runs that write the *)
(* markers it reads (record_success, last_success_at) and the hot reloads   *)
(* that replace the configuration under it.  A check visits the devices one *)
(* after the other and awaits every notice it sends, so markers are written *)
(* and time passes in the middle of a check.                                *)
EXTENDS Integers

CONSTANTS
    Device,
    Runner,       \* tasks that may be recording a success
    Absent, Torn, \* no marker; a marker that was created and not written
    Never,        \* no alert has been sent
    StaleAfter,   \* the values of watchdog.stale_after that are configured
    Realert,      \* REALERT_INTERVAL
    MaxTime,      \* bound: the horizon of the clock
    MaxReloads,   \* bound: hot reloads
    MaxCrashes,   \* bound: restarts of the daemon
    MaxLosses,    \* bound: notices that are lost
    MaxFaults     \* bound: markers that cannot be created or written

Time == 0..MaxTime

ASSUME ValueAssumption ==
    /\ Absent # Torn
    /\ Absent \notin Int /\ Torn \notin Int /\ Never \notin Int
    /\ Never \notin Device

ASSUME TimeAssumption ==
    /\ StaleAfter \subseteq Nat /\ StaleAfter # {}
    /\ Realert \in Nat

ASSUME BoundAssumption ==
    /\ MaxTime \in Nat /\ MaxReloads \in Nat /\ MaxCrashes \in Nat /\ MaxLosses \in Nat
    /\ MaxFaults \in Nat

VARIABLES
    now,
    cfg,      \* the live configuration, as far as the watchdog reads it
    spawned,  \* the watchdog task was started with the process
    marker,   \* marker[d]: the .last_success file
    recorder, \* recorder[r]: the success that task r is writing
    success,  \* success[d]: when d was last backed up with success
    missed,   \* history: missed[d]: that success could not be recorded
    state,    \* AlertState of every device, in memory
    check,    \* the watchdog task
    told,     \* history: the last notice about d that reached the operator, and
              \* the stale_after it was decided with
    reloads, crashes, losses, faults

vars == <<now, cfg, spawned, marker, recorder, success, missed, state, check, told,
          reloads, crashes, losses, faults>>
counters == <<reloads, crashes, losses, faults>>
files == <<marker, recorder, success, missed>>

Config == [devices : SUBSET Device, enabled : BOOLEAN, staleAfter : StaleAfter]
AlertState == [stale : BOOLEAN, lastAlert : Time \cup {Never}]
Decision == {"quiet", "alert", "recovered"}

Check == [step     : {"wait", "visit", "send"},
          cfg      : Config,           \* the configuration this check began with
          at       : Time,             \* the time this check began
          todo     : SUBSET Device,    \* devices still to visit
          device   : Device \cup {Never}, \* the device whose notice is being sent
          decision : Decision]

Recorder == [device : Device \cup {Never}, at : Time]

TypeOK ==
    /\ now \in Time
    /\ cfg \in Config
    /\ spawned \in BOOLEAN
    /\ marker \in [Device -> Time \cup {Absent, Torn}]
    /\ recorder \in [Runner -> Recorder]
    /\ success \in [Device -> Time \cup {Never}]
    /\ missed \in [Device -> BOOLEAN]
    /\ state \in [Device -> AlertState]
    /\ check \in Check
    /\ told \in [Device -> [notice : {"none", "stale", "recovered"}, at : Time, limit : Nat]]
    /\ reloads \in 0..MaxReloads /\ crashes \in 0..MaxCrashes /\ losses \in 0..MaxLosses
    /\ faults \in 0..MaxFaults

NoRecord == [device |-> Never, at |-> 0]
Calm == [stale |-> FALSE, lastAlert |-> Never]
Waiting(c) == [step |-> "wait", cfg |-> c, at |-> 0, todo |-> {}, device |-> Never,
               decision |-> "quiet"]

Init ==
    /\ now = 0
    /\ cfg \in Config
    /\ spawned = cfg.enabled
    /\ marker = [d \in Device |-> Absent]
    /\ recorder = [r \in Runner |-> NoRecord]
    /\ success = [d \in Device |-> Never]
    /\ missed = [d \in Device |-> FALSE]
    /\ state = [d \in Device |-> Calm]
    /\ check = Waiting(cfg)
    /\ told = [d \in Device |-> [notice |-> "none", at |-> 0, limit |-> 0]]
    /\ reloads = 0 /\ crashes = 0 /\ losses = 0 /\ faults = 0

----------------------------------------------------------------------------
(* The environment *)

Tick ==
    /\ now < MaxTime
    /\ now' = now + 1
    /\ UNCHANGED <<cfg, spawned, files, state, check, told, counters>>

\* The scheduler swaps in the configuration that was posted.  A watchdog that
\* was not spawned with the process stays unspawned.
Reload(c) ==
    /\ reloads < MaxReloads
    /\ c # cfg
    /\ cfg' = c
    /\ reloads' = reloads + 1
    /\ UNCHANGED <<now, spawned, files, state, check, told, crashes, losses, faults>>

\* The process is killed and started again.  Everything in memory is gone.
Restart ==
    /\ crashes < MaxCrashes
    /\ crashes' = crashes + 1
    /\ spawned' = cfg.enabled
    /\ recorder' = [r \in Runner |-> NoRecord]
    /\ state' = [d \in Device |-> Calm]
    /\ check' = Waiting(cfg)
    /\ UNCHANGED <<now, cfg, marker, success, missed, told, reloads, losses, faults>>

----------------------------------------------------------------------------
(* Recording a success: the time is taken, the file created, then written.   *)
(* Either can fail, of which the run only warns: it has succeeded all the    *)
(* same.                                                                     *)

CreateMark(r, d) ==
    /\ recorder[r] = NoRecord
    /\ recorder' = [recorder EXCEPT ![r] = [device |-> d, at |-> now]]
    /\ marker' = [marker EXCEPT ![d] = Torn]
    /\ success' = [success EXCEPT ![d] = now]
    /\ missed' = [missed EXCEPT ![d] = FALSE]
    /\ UNCHANGED <<now, cfg, spawned, state, check, told, counters>>

WriteMark(r) ==
    /\ recorder[r] # NoRecord
    /\ marker' = [marker EXCEPT ![recorder[r].device] = recorder[r].at]
    /\ recorder' = [recorder EXCEPT ![r] = NoRecord]
    /\ UNCHANGED <<now, cfg, spawned, success, missed, state, check, told, counters>>

\* The directory or the file cannot be created: an older marker stays.
CreateFails(r, d) ==
    /\ recorder[r] = NoRecord
    /\ faults < MaxFaults
    /\ faults' = faults + 1
    /\ success' = [success EXCEPT ![d] = now]
    /\ missed' = [missed EXCEPT ![d] = TRUE]
    /\ UNCHANGED <<now, cfg, spawned, marker, recorder, state, check, told,
                   reloads, crashes, losses>>

\* The file has been truncated and cannot be written.
WriteFails(r) ==
    /\ recorder[r] # NoRecord
    /\ faults < MaxFaults
    /\ faults' = faults + 1
    /\ missed' = [missed EXCEPT ![recorder[r].device] = TRUE]
    /\ recorder' = [recorder EXCEPT ![r] = NoRecord]
    /\ UNCHANGED <<now, cfg, spawned, marker, success, state, check, told,
                   reloads, crashes, losses>>

Record(r) ==
    \/ WriteMark(r) \/ WriteFails(r)
    \/ \E d \in Device : CreateMark(r, d) \/ CreateFails(r, d)

----------------------------------------------------------------------------
(* One check *)

\* Mutant: the check is given the next second.
WakesAhead ==
    /\ spawned
    /\ check.step = "wait"
    /\ cfg.enabled
    /\ check' = [check EXCEPT !.step = "visit", !.cfg = cfg, !.at = now + 1,
                              !.todo = cfg.devices]
    /\ UNCHANGED <<now, cfg, spawned, files, state, told, counters>>

Wake ==
    /\ spawned
    /\ check.step = "wait"
    /\ cfg.enabled
    /\ check' = [check EXCEPT !.step = "visit", !.cfg = cfg, !.at = now,
                              !.todo = cfg.devices]
    /\ UNCHANGED <<now, cfg, spawned, files, state, told, counters>>

\* Mutant: a marker that does not parse counts as one from long ago.
TornIsOld(d) == IF marker[d] = Torn THEN -1 - MaxTime ELSE marker[d]

\* What last_success_at returns: nothing for a marker that does not parse.
LastSuccess(d) == IF marker[d] = Torn THEN Absent ELSE marker[d]

IsStale(d) == check.at - LastSuccess(d) > check.cfg.staleAfter

\* Mutant: the re-alert interval is forgotten.
AlwaysAlert(isStale, prev) ==
    IF isStale THEN "alert" ELSE IF prev.stale THEN "recovered" ELSE "quiet"

\* Mutant: what is not due is taken for recovered.
DueOrRecovered(isStale, prev) ==
    IF isStale /\ (~prev.stale \/ check.at - prev.lastAlert >= Realert) THEN "alert"
    ELSE IF prev.stale THEN "recovered" ELSE "quiet"

\* Mutant: only a device that was alerted about before can be due.
OnlyRealert(isStale, prev) ==
    IF isStale
    THEN IF prev.lastAlert # Never /\ check.at - prev.lastAlert >= Realert
         THEN "alert" ELSE "quiet"
    ELSE IF prev.stale THEN "recovered" ELSE "quiet"

Decide(isStale, prev) ==
    IF isStale
    THEN IF ~prev.stale \/ prev.lastAlert = Never \/ check.at - prev.lastAlert >= Realert
         THEN "alert" ELSE "quiet"
    ELSE IF prev.stale THEN "recovered" ELSE "quiet"

\* A device without a baseline is passed over.
Skip(d) ==
    /\ check.step = "visit"
    /\ d \in check.todo
    /\ LastSuccess(d) = Absent
    /\ check' = [check EXCEPT !.todo = @ \ {d}]
    /\ UNCHANGED <<now, cfg, spawned, files, state, told, counters>>

Verdict(d) == Decide(IsStale(d), state[d])

StayQuiet(d) ==
    /\ check.step = "visit"
    /\ d \in check.todo
    /\ LastSuccess(d) # Absent
    /\ Verdict(d) = "quiet"
    /\ state' = [state EXCEPT ![d].stale = IsStale(d)]
    /\ check' = [check EXCEPT !.todo = @ \ {d}]
    /\ UNCHANGED <<now, cfg, spawned, files, told, counters>>

BeginNotice(d) ==
    /\ check.step = "visit"
    /\ d \in check.todo
    /\ LastSuccess(d) # Absent
    /\ Verdict(d) # "quiet"
    /\ check' = [check EXCEPT !.step = "send", !.todo = @ \ {d},
                              !.device = d, !.decision = Verdict(d)]
    /\ UNCHANGED <<now, cfg, spawned, files, state, told, counters>>

\* Mutant: an alert is not remembered as one.
ForgetsAlert(decision) ==
    IF decision = "alert" THEN [stale |-> FALSE, lastAlert |-> check.at] ELSE Calm

\* What a notice leaves in the device's bookkeeping.
After(decision) ==
    IF decision = "alert" THEN [stale |-> TRUE, lastAlert |-> check.at] ELSE Calm

\* dispatch never fails, so the bookkeeping is the same whether it arrived.
Noted ==
    /\ state' = [state EXCEPT ![check.device] = After(check.decision)]
    /\ check' = [check EXCEPT !.step = "visit", !.device = Never, !.decision = "quiet"]
    /\ UNCHANGED <<now, cfg, spawned, files, reloads, crashes, faults>>

Deliver ==
    /\ check.step = "send"
    /\ told' = [told EXCEPT ![check.device] =
                  [notice |-> IF check.decision = "alert" THEN "stale" ELSE "recovered",
                   at |-> check.at, limit |-> check.cfg.staleAfter]]
    /\ UNCHANGED losses
    /\ Noted

Lose ==
    /\ check.step = "send"
    /\ losses < MaxLosses
    /\ losses' = losses + 1
    /\ UNCHANGED told
    /\ Noted

Finish ==
    /\ check.step = "visit"
    /\ check.todo = {}
    /\ check' = Waiting(check.cfg)
    /\ UNCHANGED <<now, cfg, spawned, files, state, told, counters>>

----------------------------------------------------------------------------

Proceed ==
    \/ Wake \/ Deliver \/ Finish
    \/ \E d \in Device : Skip(d) \/ StayQuiet(d) \/ BeginNotice(d)

Next ==
    \/ Tick
    \/ \E c \in Config : Reload(c)
    \/ Restart
    \/ \E r \in Runner : Record(r)
    \/ Proceed
    \/ Lose

Spec == Init /\ [][Next]_vars

\* The interval keeps firing, a notice is sent within its timeouts, and a task
\* that has created a marker goes on to write it, unless that fails.
Fairness == WF_vars(Proceed) /\ \A r \in Runner : WF_vars(WriteMark(r))

FairSpec == Spec /\ Fairness

----------------------------------------------------------------------------
(* What the operator may rely on *)

\* The watchdog alerts as AlertProtocol promises: at most one alert per Realert
\* within an episode, and a recovery only after an alert, whatever is reloaded
\* in the middle of a check (decide, check_once).
Promise == INSTANCE AlertProtocol WITH
    alerted <- [d \in Device |-> IF state[d].stale THEN state[d].lastAlert ELSE Never]
KeepsAlertProtocol == Promise!Spec

\* The last success of d, or what the marker has in its place.
OnRecord(d) == IF missed[d] THEN marker[d] ELSE success[d]

\* No alert is decided about a device that has been backed up within the
\* period, although the check may have begun long before it reads the marker
\* and the marker may be half-written (check_once against record_success),
\* unless no marker of that backup could be created: then the one it would have
\* replaced speaks for the device.
NoFalseAlarm ==
    [][\A d \in Device :
          check.step # "send" /\ check'.step = "send" /\ check'.decision = "alert"
             /\ check'.device = d
          => OnRecord(d) \in Time /\ OnRecord(d) + check.cfg.staleAfter < now]_vars

\* A recovery notice follows a backup that has succeeded since the alert, or a
\* reload that has raised stale_after since (decide, across the checks of run).
RecoveryIsReal ==
    [][\A d \in Device :
          told[d].notice = "stale" /\ told'[d].notice = "recovered"
          => \/ success[d] # Never /\ success[d] >= told[d].at
             \/ told'[d].limit > told[d].limit]_vars

\* What must hold in the end for the device to be watched, stale or fresh.
Watched(d) == cfg.enabled /\ d \in cfg.devices
Overdue(d) == success[d] # Never /\ now - success[d] > cfg.staleAfter
Fresh(d) == marker[d] \notin {Absent, Torn} /\ now - marker[d] <= cfg.staleAfter

\* A device that stays overdue while the watchdog looks at it has the operator's
\* attention in the end, through reloads and restarts: the last he heard of it is
\* that it is stale.  Two things can keep it from him: a lost notice, and a marker
\* that is not there or not legible, because none could be created at the first
\* success, or a crash or an error has left it half-written (run, check_once).
OverdueTold ==
    \A d \in Device :
        <>[](/\ spawned /\ Watched(d) /\ Overdue(d)
             /\ marker[d] \notin {Absent, Torn} /\ losses = 0) => <>[](told[d].notice = "stale")

\* Nobody is left believing that a device is stale which is fresh for good, as
\* long as no notice is lost and the process is not restarted.
RecoveryTold ==
    \A d \in Device :
        <>[](/\ Watched(d) /\ Fresh(d)
             /\ losses = 0 /\ crashes = 0) => <>[](told[d].notice # "stale")
=============================================================================
