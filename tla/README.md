# fortibackup in TLA+

A formal model of fortibackup: TLA+ modules translated from the Rust source
(`src/src/`), TLC configurations that check them on small instances, and TLAPS
proofs of what holds for every instance. `PROJECT.json` maps every definition to
the lines it stands for.

    tlc -config DeviceBackup_race.cfg MCDeviceBackup.tla     # a run
    tlapm DeviceBackupProofs.tla                             # the proofs

## 1. The system

fortibackup fetches the configurations of firewalls on a schedule, stores those
that changed, prunes old ones, mirrors them to S3, and tells an operator when
something fails or falls silent. One daemon (`fortibackup run`) does all of this;
`once` and `prune` are separate processes on the same directory.

| Component | State | Operations | Interacts with |
|---|---|---|---|
| Backup pipeline (`backup.rs`) | locals of one run | fetch, save, mirror, retain, mark, notify | everything below; several runs of one device may overlap |
| Storage (`storage.rs`) | `{dir}/{device}/X.conf[.gz]`, `X.json`, `.last_success` | `save_backup`, `apply_retention`, `plan_retention`, listing, `record_success` | no lock: runs, `once` and `prune` share the directory |
| S3 mirror (`storage_s3.rs`) | two objects per backup | `mirror_new_backup` | reads the local files again |
| Transports (`transport/`) | one session per attempt | `fetch_config` over REST, SSH `exec`, StoneOS shell, with retries | the device; called by a run |
| Normalization (`normalize.rs`) | none | `for_hash` | decides "changed" in `save_backup` |
| Scheduler (`scheduler.rs`) | cron jobs, live configuration | install, remove, reload, shut down | reload channel, signals |
| Config editor and Run now (`webui.rs`) | `config.toml`, its backups, `in_flight` | `handle_config_post`, `handle_run` | channel to the scheduler, storage |
| Watchdog (`watchdog.rs`) | alert state per device, in memory | `check_once`, `decide` | markers, live configuration, notifications |
| Notifications (`notify/`) | none | `dispatch` | mail and webhook; never fails its caller |
| Configuration (`config.rs`) | none | `load_config`, `validate` | everything |
| Start, `once`, `prune`, `verify` (`main.rs`) | what a process keeps of the configuration it started with: listeners, credentials, the watchdog's task, the S3 client | `cmd_run` part by part | systemd restarts a failed daemon; the administrator edits files |
| Pages (`webui.rs`: dashboard, device, diff, monthly report) and `list` | none | list directories, read two files | read what runs and `prune` are changing |
| Metrics, CLI, logging | counters | count, parse, print | the metrics listener can fail the start |

What makes it hard:

- **No locks.** Two runs of a device, a run and `prune`, two saves of the
  configuration: each is a sequence of file operations that interleaves with the
  others, and each reads state that it acts on later.
- **Crashes.** `fs::write` truncates and then writes. A kill leaves a torn
  configuration, sidecar, marker or `config.toml`, and every later run has to live
  with it.
- **Stale decisions.** Retention deletes from a listing, the watchdog alerts from a
  time read at the start of a check, a cron job runs with the configuration it was
  made with.
- **Silence as a signal.** An interactive StoneOS session does not say where an
  answer ends; read timers do, and a late line lands in the next phase.
- **Half a reload.** A reload replaces the configuration, and with it what jobs,
  watchdog and notifications read; what `cmd_run` built at the start stays as it was.
- **Losses.** Notices, uploads and reload messages can be lost, and the caller
  often cannot tell.

What makes each component correct, in one line: retention never leaves fewer
newer copies than promised, whoever deletes; a sidecar, a verdict and a mirror
object tell the truth about the content; an accepted fetch is the whole
configuration; the scheduler's jobs are those of the live configuration, which is
that on disk; alerts follow a protocol and nothing stays overdue unreported; the
daemon comes back once its files can be started with; two exports hash alike
exactly when they say the same; a page shows all that stays, or nothing.

## 2. The modules

| Module | Models | State ↔ code |
|---|---|---|
| `Archive` | what a backup directory promises: files appear, and disappear only when expired with enough newer ones beside them | abstract specification |
| `DeviceBackup` | `run_for_device`, `execute`, `save_backup`, the listing entry by entry, `mirror_new_backup`, `apply_retention`, `record_success`, `cmd_prune`, for one device | `conf[t]`, `meta[t]`: the files with stem `t`; `marker`: `.last_success`; `run[a]`: program counter and locals of actor `a` |
| `DeviceBackupProofs`, `ContentProofs` | proofs about it: of retention, and of what the files contain | |
| `Transport` | `retry_with_backoff`, `ApiTransport::fetch_config`, `run_ssh_session`, `read_until`, `read_to_eof`, `clean_hillstone`, both validations | `step`, `buf`, `gap`, `phaseAt`: where the session is, what it has read, its timers; `wire`: what the device has still to say |
| `TransportProofs` | proofs about it | |
| `Normalize` | `for_hash` line by line, beside the device that writes the export | `inPem`, `out`: the locals of the loop; `said`: what the device meant |
| `NormalizeProofs` | proofs about it | |
| `AlertProtocol` | what the watchdog promises: alerts of one episode `Realert` apart, a recovery only after an alert | abstract specification |
| `Watchdog` | `run`, `check_once`, `decide` of the watchdog beside `record_success`, reloads and restarts | `state[d]`: `AlertState`; `check`: the check that is going on, its configuration and time; `told[d]`: what reached the operator |
| `WatchdogProofs` | proofs about it | |
| `Daemon` | `handle_config_post`, `handle_run`, the loop of `scheduler::run`, `install_jobs`, `wait_for_shutdown`, process start and end | `disk`, `kept`: `config.toml` and its backups; `channel`, `live`, `jobs`; `sched`: the loop and its locals |
| `DaemonProofs` | proofs about it | |
| `Config` | what a configuration can be, every rule of `validate`, what a start needs beyond it, which channels an event goes out on | operators |
| `Startup` | `cmd_run` part by part, `verify`, edits, systemd's restart, and what a running process does with the parts it has kept | `step`, `cfg`, `environ`: `cmd_run` and its locals; `live`, `pending`: shared configuration and reload channel; `watcher`, `mirror`, `web`: the parts |
| `StartupProofs` | proofs about it | |
| `Pages` | `list_all_entries`, `render_dashboard`, `render_device`, `render_diff`, `entries_in_month`, `cmd_list`, over directories that change meanwhile | `req`: the request, its listing so far and its answer; `kept`: what has been there ever since it came |
| `PagesProofs` | proofs about it | |
| `MC*` | instances for TLC | |

`DeviceBackup` implements `Archive` (`KeepsPromise`) and `Watchdog` implements
`AlertProtocol` (`KeepsAlertProtocol`) by refinement mappings. The other modules
meet at named assumptions: a `Transport` fetch is `FetchOk` or `FetchFails` of
`DeviceBackup`; `WriteMark` of `DeviceBackup` is the `CreateMark`/`WriteMark` pair
of `Watchdog`; `Receive` of `Daemon` is `Reload` of `Watchdog` and of
`Startup`, where it is one step; a fired job or a manual run of `Daemon` is a `Runner`
of `DeviceBackup`; the hash of a fetched configuration in `DeviceBackup` is a function
of the configuration alone, which is what `Normalize` shows; the writers of `Pages` are
those of `DeviceBackup` without their decisions: one that writes and one that deletes
anything but the newest file.

Choices of abstraction that matter:

- A configuration is a model value; two fetches of one `Version` have one
  normalized hash. `Torn` stands for everything between created and completely
  written. Every file write is two steps (truncate, write), so a crash or another
  writer fits in between.
- A directory is listed entry by entry while others change it: `PassOver` and
  `Discover` are what `readdir` may do with entries removed and created meanwhile.
- The stem of a file is the second of its fetch. `SharedSecond` says whether two
  fetches may end in one second.
- The constants `RetentionDays` and `MinCopies` are per actor: a run that started
  before a reload, or a `prune` with another file, has other values.
- In `Transport` a device's output is a sequence of lines of which only the kind
  matters. A packet may carry any number of them and end within one; a line comes in
  at most two pieces. A piece reads like nothing, except that of a line beginning with
  `End` it may be these letters, and that the rest of a prompt may be its `#`. Time
  advances in ticks and never passes a timer that is due. `steady` is a history of the
  device's side only: no pause of `NoGap`, none within a line until a phase is over, no
  hang-up, the pager off, a complete export, and no packet ending behind the `End` of a
  longer line.
- In `Normalize` the device and the reader go through an export together; a line is
  a text, with or without a secret behind it. What a text is for (begin, end, both,
  neither) is all that is known of it.
- In `Config` a setting has the values a decision of the program tells apart: an
  address is absent, bad or usable, a duration absent, zero or a time.
- In `Pages` all months have `MonthLength` seconds, years have twelve of them; one
  request goes on at a time, and nothing is written for it.
- In `Daemon` a signal is noticed only by the listener of the present round of
  `select!`; after the first round the default action is gone for good.

## 3. What is checked

Time limits aside, every passing run explores its whole state space. Every
property of a passing run has a mutant, an operator defined beside the definition
it would replace, under which the property fails.

| Run | Question | Instance |
|---|---|---|
| `DeviceBackup_race` | Do sidecars, verdicts and mirror stay true, and does retention keep its promise, when two runs interleave with a fault? | 2 runs in one process, 2 configurations, 3 seconds, compressed, mirrored, 1 fault |
| `DeviceBackup_alone` | Is the last complete copy safe, and is nothing stored twice, when runs do not overlap? | 1 run at a time, 4 seconds, 2 faults |
| `DeviceBackup_live` | Does every run and prune end, and is a lasting configuration stored in the end? | run and prune, 2 seconds, shared seconds, 1 fault, fairness |
| `Transport_fetch` | Is an accepted fetch whole, is a steady device served, does nothing foreign pass, does every fetch end in time? | all three transports, timeout 9, silences 2, 1 and 3, delays 1 and 2, fairness |
| `Watchdog_alerts` | Are alerts true, spaced, complete? | 1 device, 1 recorder, thresholds 0 and 1, 4 seconds, 2 reloads, 1 restart, 1 lost notice, 1 marker that cannot be created or written, fairness |
| `Normalize_exports` | Do two exports hash alike exactly when they say the same? | 2 exports of up to 3 lines or keys, 4 kinds of text, 2 encryptions |
| `Startup_config` | Does the daemon come back whatever it is given, do alarms go out, is the mirror one? | 12 configurations (8 valid), every environment, 3 acts, 1 fault, a channel of 2, fairness |
| `Pages_report` | Is a page complete, and a diff of neighbours, while files come and go? | 1 device and 1 removed one, 3 seconds around the end of a year, 1 fault |
| `Daemon_reload` | Do jobs, files, reservations and live configuration stay in step? | 2 devices, 3 configurations (one with a bad schedule), 2 saves, 1 signal, 1 crash or failed removal or addition of a job, 2 visitors, 1 cron task, fairness |

Why these bounds are enough for the questions: a stale decision needs two actors
and one change between reading and acting; a file expires one second after its
own, so three stems give a listing with a victim, a copy to keep and a newer file;
two faults suffice for a torn file met by a failing repair; two saves fill a
channel of one (the code's has four: a shorter one only fills sooner); a timeout
of nine ticks leaves room for a late login, three phases and a pause, and is short
enough for a device to run into it in every phase. Two exports are all that a
comparison of hashes is about, and three lines give a key with a body, or a key that
never ends, beside a line that must not vanish. The twelve configurations differ from a
full one each in one thing a decision of the program looks at. A page is wrong at the
earliest when one entry is removed and one created while it is listed, for which three
seconds and one directory suffice; the second directory shows one device's trouble
spilling into another's rows. The watchdog and each directory
treat devices one by one, so one device stands for all; `Watchdog` is
parameterised and its check visits any set of them.

The properties, by hazard:

- *Retention*: `VictimsBacked` (all that is still to be deleted is expired and has
  `KeepCopies` newer files beside it now), `ListingsBacked` (a stale listing never
  overstates what is there), `KeepsPromise` (implements `Archive`),
  `NeverLosesLastCopy` (crash after crash).
- *Truth of what is stored*: `SidecarTrue`, `VerdictHolds`, `MirrorConsistent`,
  `StoresOnlyChanges`.
- *Fetching*: `WholeIfSteady`, `SteadyServed`, `NothingForeign`, `FetchBounded`.
- *Reload*: `JobsMatchLive`, `PrefixScheduled`, `LiveFollowsDisk`, `ConfigKept`,
  `OneManualRun`.
- *Alerts*: `KeepsAlertProtocol`, `NoFalseAlarm`, `RecoveryIsReal`, `OverdueTold`,
  `RecoveryTold`.
- *Hashing*: `SameHash`, `ChangeSeen`.
- *Start*: `Recovers`, `AlarmsGoOut`, `BlindOnlyAsStarted`, `OneBucket`.
- *Pages*: `WholeOrNothing`, `DiffForward`.
- *Ends*: `EveryRunEnds`, `EventuallyCaptured`, `FetchEnds`.

Conditions under which they hold, each a constant or a premise:

- `SidecarTrue`, `VerdictHolds`, `MirrorConsistent` need `SharedSecond = FALSE`: two
  runs that fetch in one second write the same two files. `ConfigKept` needs it and
  a single handler: two saves within a second share one backup name.
- `StoresOnlyChanges` and `NeverLosesLastCopy` need runs that do not overlap, and
  the first an uncompressed store (section 4).
- `EventuallyCaptured` needs that no illegible sidecar stays: one that a crash left
  empty fails every later listing of the device, and nothing repairs it.
- `LiveFollowsDisk` needs one handler at a time and clients that wait (`~left`).
- `SameHash` and `ChangeSeen` are of exports that are UTF-8: others are hashed as they
  are. Behind ` ENC ` and beside a key's marker everything counts as secret, so a change
  there is not seen, in the code as in the model.
- `BlindOnlyAsStarted` names the two ways in which a running daemon has no watchdog
  although its live configuration wants one; both are divergences of section 4.
- `WholeOrNothing` allows the empty page: one unreadable entry empties it.
- `NoFalseAlarm` and `RecoveryIsReal` are of one recorder: of two, one may take its
  time first and write last, and the marker goes back by the moment in between.
- `WholeIfSteady` needs what `steady` says, and each part of it is needed. `NothingForeign`
  has one exception, a prompt cut before its `#` (section 4).
- `NoFalseAlarm` is of backups that were recorded (`OnRecord`). `record_success` can fail
  to create the marker, of which the run only warns (`backup.rs:197`): the older marker
  stays, speaks for the device, and raises a false alert. If the file was created and
  could not be written the marker is torn, and the watchdog is silent.
- `OverdueTold` excludes lost notices and a marker that is absent or illegible: of a
  device whose first marker could not be created nothing is ever reported.
  `RecoveryTold` excludes lost notices and restarts, and speaks of what the marker says.
- `JobsMatchLive` sets apart the jobs that a failure has left behind (`sched.stray`): one
  whose removal failed, of which the loop only warns and drops the id
  (`scheduler.rs:73`), and those of an installation that was cut short. That the rest are
  one job per device needs that the last installation was not cut short, by a bad
  schedule or by a job that the cron scheduler did not take (`scheduler.rs:122`,
  `sched.refused`). `PrefixScheduled` is what remains then.

### Fairness

`DeviceBackup`: weak fairness of every actor's next step (the tokio runtime polls a
task that can go on; timeouts end every await), of starting a run (cron), strong
fairness of a successful fetch (a device that keeps being asked answers some time).
`Transport`: time passes and due timers fire; nothing is assumed of the device.
`Watchdog`: the check proceeds, a marker that was created is written unless the
process dies or the write fails. `Daemon`: the loop and the handlers proceed, systemd restarts a failed
process (`Restart=on-failure`). `Startup`: `cmd_run` goes on, and systemd restarts what
failed (`RestartSec=30s` stays below its limit of starts, so it never gives up).
`Normalize` and `Pages` have no liveness property. Nowhere is anything assumed of
faults, crashes, clients, signals, reloads, or a prune being started.

Deadlock checking is off in all runs: clocks and budgets of faults are bounded, a
fetch ends, and a daemon that was stopped stays stopped.

## 4. Where code and documentation disagree

Runs that are expected to find a violation, each of a sentence the repository says
of itself:

| Run | Sentence | What happens |
|---|---|---|
| `DeviceBackup_files` | "always keeps at least `min_copies` of the newest backups" (`storage.rs:349`) | files are counted, and one just created by another run counts as a copy |
| `Transport_pause` | "pulls the **full** configuration" (`README.md:20`) | a pause of 2.5 s, or a hang-up, after the header ends a StoneOS read; the rest is accepted |
| `Startup_verified` | "a bad config is caught here instead of failing the live daemon on restart" (`README.md:199`) | a schedule that is no cron expression, or a listener's address that does not parse, passes `verify` and ends the daemon at its next start |

The models show more divergences by changing one constant or premise; they are
stated here and have no run of their own:

- after a failed upload no unchanged run uploads the backup again, although existing
  copies are "already identical to what S3 holds" (`backup.rs:166`);
- a torn marker counts as no baseline, and its device is not reported until its next
  success, nor is one whose first marker could not be created, although the watchdog
  "catches the silent failure case" (`config.rs:68`);
- a run whose marker cannot be created has succeeded all the same, although "the watchdog
  must see it to avoid a false overdue alert" (`backup.rs:195`): the older marker stays,
  and the alert is raised;
- jobs of an installation that was cut short stay for ever, and so does a job whose
  removal failed, although "all current jobs are removed" (`scheduler.rs:2`);
- a signal during a reload is lost, although `run` "returns when Ctrl-C / SIGTERM is
  received" (`scheduler.rs:26`);
- one entry that cannot be read empties the monthly report, of all devices, and the
  dashboard says "no backup yet" of its device: neither shows an error, although the
  report has "all stored backup entries" of the month (`webui.rs:1267`, `:1275`, `:485`);
- "the SSH login banner, the echoed command" are dropped (`ssh.rs:386`), but not when a
  prompt is cut in two by a pause that ends a phase: its `#` is then the first thing the
  next phase reads and is taken for a comment of the configuration, and the echo behind
  it is stored;
- `check_interval = "0s"` passes the validation that is there so that a bad value does
  not end in "silently disabling the watchdog at runtime" (`config.rs:367`);
- listeners, the web UI's credentials, the watchdog's task and the S3 client stay those
  of the start although "no restart required" (`webui.rs:992`);
- `validate` looks at `on_failure` only: a channel of `on_success` without a block, or
  of an unknown name, is accepted, and nothing is sent on it (`config.rs:350`);
- overlapping runs that fetch the same configuration in different seconds both
  store it, and a `.conf.gz` without its sidecar is stored again, although the
  README says "stores **only changes**" (`README.md:23`, `config.example.toml:13`);
- retention runs after an unchanged run too, although "retention is not triggered"
  (`README.md:267`, `backup.rs:179`);
- a bad schedule, or a job that the cron scheduler does not take, costs every device
  after it in the file its job, although only "that device" should have none
  (`scheduler.rs:78`);
- `config.toml` is truncated and written, not "updated atomically" (`webui.rs:40`);
- "Run now" does not prevent "clashing with the scheduler" (`webui.rs:47`): cron jobs
  do not look at the reservations;
- a reload that enables the watchdog does nothing until a restart (`webui.rs:992`,
  `main.rs:121`); one that raises `stale_after` yields a recovery notice without a
  backup (`watchdog.rs:13`); a restart loses a due recovery notice
  (`config.example.toml:55`);
- a body cut by the FortiGate itself passes `validate_fortigate_config`, whose doc
  names "truncated bytes" (`api.rs:163`), and an `exec` is not validated at all;
- there are two delays, 5 s and 15 s, not the three of `transport/mod.rs:56`.

## 5. What is proved

Every invariant and every action property that a passing run checks is a theorem, for
all values of the constants that its hypotheses name, and so are both refinements.
What a theorem assumes beyond the ASSUMEs of its module stands in its hypotheses, and
is one of the conditions of section 3.

`DeviceBackupProofs`, for any number of runs and prunes, any retention settings, any
horizon and any number of faults, from the assumptions declared in `DeviceBackup`
(the partition of actors into processes, the distinctness of `Absent`, `Torn` and
contents, and that `KeepDays` and `KeepCopies` are lower bounds):

- `TypeCorrect`: `Spec => []TypeOK`.
- `RetentionInvariant`: `Spec => []RetentionInv`. `VictimsBacked` is not inductive:
  that a file an actor is about to delete has enough newer ones now depends on the
  listing it was picked from, and that on what others deleted since. The
  strengthening is `ListedBacked` (what an actor has listed is present or has enough
  newer files beside it), with `StemsInPast` and `ArtifactKnown` for the files that
  are being written. The argument is one lemma: when a backed file is deleted, all
  that counted it among its newer files have the deleted file's own newer ones.
- `RetentionSafe` and `ListingsSafe`: `VictimsBacked` and `ListingsBacked` follow.
- `ImplementsArchive`: `Spec => KeepsPromise`, step by step: every step of every
  actor is `Store`, `Expire`, `Tick` or a stutter of `Archive`.

`ContentProofs`, about what the files contain:

- `ContentInvariant`, for any runs and prunes that do not fetch twice in one second
  (`~SharedSecond`; without it the three properties fail, and TLC shows it). None of
  them is inductive. What makes them so is that a stem belongs to one run: no other
  holds it (`StemsDistinct`), nobody has written there before (`NothingAhead`), so what
  stands at it is determined by how far its run has come (`ConfAtStem`, `MetaAtStem`,
  `ObjectsAtStem`). Once that run has written the file, or has gone, the file is
  *settled*: all that can still happen to it is that it is deleted. A listing that read
  a settled file knows its content for good, however stale the listing is (`ScanTrue`),
  and so does the verdict that rests on it (`BasisTrue`). From it `SidecarsTrue`,
  `VerdictsHold` and `MirrorsConsistent`.
- `LastCopyKept` and `OnlyChangesStored`, for one runner and no prune (`Alone`: two
  runs that overlap break them). On top of `ContentInv` a listing then
  lists all there is (`ListsAll`), `latest_hash` knows the newest file (`ListsTruly`),
  and the file a verdict rests on is there and the newest (`LoneVerdict`), so that
  retention, which begins with a verdict, never reaches it. The first needs a
  `KeepCopies` other than zero, the second an uncompressed store.

`TransportProofs`, for every timeout, every pair of delays, every silence and whatever
the device does:

- `TimeAccounted` (at any moment the time that has passed is covered by the attempts
  and delays so far and the running timer, and no timer is overdue) and from it
  `FetchInTime`: `Spec => []FetchBounded`.
- `FetchInvariant`, about positions in `Stream`, all that a device says in a session.
  The wire carries the rest of what was asked for (`WireInv`). What the last phase has
  read is a part of the stream without gaps, broken only in its first and its last
  line, and begins before the configuration does, however late the answers to earlier
  commands came (`BufInv`). While a device is steady, it has been silent for less than
  `NoGap`, which is no more than the silence that ends the last phase (`SteadyInv`): so
  that phase ends, unless the attempt does, only when all has come (`SteadyOver`).
- What `Clean` makes of such a part: nothing with a header before the configuration has
  begun (`CleanTooEarly`), then a beginning of it, and all of it from its `End` on
  (`CleanConfiguration`); what is read after a prompt's `#` begins with that `#`
  (`CleanSharp`), the exception of `NothingForeign`.
- From these `FetchTyped`, `SteadyWhole`, `SteadyKept` and `OnlyConfiguration`.

`WithoutPager` is written with cardinalities because nothing can be proved of a
recursive filter of sequences; it is proved to leave alone what has no line of the pager
and to take such a line from the end, where alone a session of the model has it.

`NormalizeProofs`, for any texts and exports of any length: the reader is inside a key
exactly when the device is, and its output is what the device has said, blanks for
blanks (`ReadsWhatIsSaid`); `UnchangedHashesAlike` and `ChangeIsSeen` are its two
halves, and `NormalizeTyped` says that the locals of the loop keep their types.

`WatchdogProofs`, for any devices, thresholds, clocks, reloads, restarts and losses:

- `WatchInvariant`: while a notice is being sent, the bookkeeping still calls for it:
  nothing changes an alert state behind the check's back, though everything around it
  moves. `WatchTyped` follows, and `ImplementsAlertProtocol`: every step is one of
  `AlertProtocol` or a stutter.
- `TruthInvariant`, with one recorder: a marker that can be read holds the last success,
  or an older one where that could not be recorded (`missed`), and a recorder at work has
  the last success; what a check decided on, and what the operator was last told, was so
  by the marker of that moment, or the device has succeeded since. From it
  `AlarmsAreTrue`, whose exception is the backup that could not be recorded, and
  `RecoveriesAreReal`, which needs none: an older marker only delays a recovery.

`DaemonProofs`, for any files, schedules, handlers, visitors and cron tasks, and any
number of crashes and of calls that the cron scheduler fails:

- `SavesAccounted`: what is live, sent or whole on disk has been in the file, and the
  generations of jobs, the messages in the channel and the handlers at work are
  together no more than the saves. `DaemonTyped` is its first part; the count is what
  bounds the generations.
- `JobsAccounted`: in every phase of a removal and an installation each job is known to
  the loop, or was just made, or was left behind by a failure, and none is two of these.
  The generations make that inductive: what an installation makes is new, what it finds
  is older. From it `PrefixIsScheduled`, and `JobsFollowLive`, whose second half is of
  installations that were not cut short.
- `OneRunPerReservation`, which is inductive by itself.
- `NoConfigLost`, with one handler and saves in different seconds: a copy is complete
  before the file is truncated, so wherever the process dies one of the two is whole.

`StartupProofs`, for all configurations: `StartInvariant` (what a process has loaded
has passed `validate`, and each part is as the configuration it started with says),
and from it `StartTyped`, `AlarmsAreSent`, `BlindnessHasACause`, `OneMirror`. That a
channel named in `on_failure` has its block is a rule of `validate`; the proof is that
no reload, edit or restart gets an event to a configuration that has not passed it.

`PagesProofs`, for any directories, backups and month: `BoundsOfMonth` (the bounds hold
the seconds of the month and no others), `PageInvariant` (what is there all the time is
read, or still to be read, or belongs to a listing that failed and shows as empty; two
sides of a diff were neighbours in their listing), and from it `PagesTyped`,
`PagesWhole`, `DiffsForward`. "All the time" is what the history `kept` says, which only
shrinks.

Only model-checked: the liveness properties, since fairness and ENABLED are beyond the
prover. They are `EveryRunEnds`, `EventuallyCaptured`, `FetchEnds`, `OverdueTold`,
`RecoveryTold`, `LiveFollowsDisk` and `Recovers`. That a fetch takes no longer than its
timers allow, if it goes on at all, is the safety half of `FetchEnds`, and proved
(`FetchInTime`).

## 6. What is not modelled

Rendering (pages, CSS, CSV quoting, mail bodies), argument parsing, logging, metrics
(counters no component reads), TLS and SSH protocols, authentication, the vdom query,
the metadata parsed out of a configuration. Of the pages: the download of a file, the
badges the report takes from the markers, a year out of range in `parse_month`. That a
sidecar exists and is read is one step, in `Pages` and in `DeviceBackup`: a deletion takes
the file before its sidecar, so an entry that loses its sidecar in between is one whose
file has gone, and a listing that comes to such an entry fails in the models as well.
`once` is a
`Runner` of `DeviceBackup`; its loop over the devices is not modelled, nor is that of
`prune`, which ends at the first device whose directory cannot be listed (`main.rs:239`). A
directory that cannot be created counts as a file in it that cannot. In `Daemon` a cron
scheduler that cannot be created or started is a crash during the start, a call that it
fails changes nothing in it, and a shutdown that fails ends the process all the same
(`scheduler.rs:55`). In `Transport` a login banner has no line beginning with
`#`, and a line of it that comes late would be taken for a comment, too.

## 7. Plan

1. `Daemon`: an abstract specification of the editor and the scheduler, one
   configuration that is saved and later in force, implemented by `Daemon` for one
   handler and clients that wait.
2. `Transport`: an abstract specification of a fetch, attempts and one result, that
   `DeviceBackup` could use in the place of `FetchOk` and `FetchFails`.
3. `Pages`: the report's badges, which read the markers a second time.
