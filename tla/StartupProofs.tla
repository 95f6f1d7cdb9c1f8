--------------------------- MODULE StartupProofs ---------------------------
(* What a running process keeps of its start, for any set of configurations *)
(* and any number of acts and faults.                                       *)
EXTENDS Startup, TLAPS

\* Past the first step the process has a configuration, and whatever is live or
\* on its way to be has been validated.
Loaded ==
    /\ step \notin {"failed", "load"} => cfg \in Texts /\ live \in Texts /\ Valid(live)
    /\ \A i \in 1..Len(pending) : Valid(pending[i])

\* Only the configuration of the start can have left the process without a watchdog.
Watching ==
    step \in {"jobs", "running"} /\ watcher # "alive" =>
        ~cfg.watchdog.enabled \/ cfg.watchdog.interval = "zero"

\* An alarm went where the validated configuration it was raised under sends it.
Reported ==
    notice.status \in Alarming =>
        /\ notice.by \in Texts /\ Valid(notice.by)
        /\ notice.sent = Sent(notice.by.notifications, notice.status)

\* What has been uploaded went to the one mirror.
Uploaded == upload # "none" => mirror = upload

Inv == TypeOK /\ Loaded /\ Watching /\ Reported /\ Uploaded

----------------------------------------------------------------------------

LEMMA NotificationsTyped ==
  ASSUME NEW c \in Texts
  PROVE  c.notifications \in NotificationsConfig
  BY StartupAssumption DEF Config

LEMMA SentTyped ==
  ASSUME NEW n, NEW status
  PROVE  Sent(n, status) \subseteq Channel
  BY DEF Sent, Sends, Channel

\* The configuration that a save appends, and the one that a reload takes.
LEMMA AppendTyped ==
  ASSUME TypeOK, Loaded, NEW c \in Texts, Valid(c), Len(pending) < Capacity,
         pending' = Append(pending, c)
  PROVE  /\ pending' \in Seq(Texts) /\ Len(pending') <= Capacity
         /\ \A i \in 1..Len(pending') : Valid(pending'[i])
  BY StartupAssumption DEF TypeOK, Loaded

LEMMA TailTyped ==
  ASSUME TypeOK, Loaded, pending # <<>>, pending' = Tail(pending)
  PROVE  /\ Head(pending) \in Texts /\ Valid(Head(pending))
         /\ pending' \in Seq(Texts) /\ Len(pending') <= Capacity
         /\ \A i \in 1..Len(pending') : Valid(pending'[i])
  BY StartupAssumption DEF TypeOK, Loaded

----------------------------------------------------------------------------
(* The process ends *)

LEMMA EndsSafe ==
  ASSUME Inv, NEW next \in {"failed", "load"}, Ends(next),
         acts' \in 0..MaxActs, faults' \in 0..MaxFaults
  PROVE  Inv'
  <1>1. TypeOK'
    <2>1. pending' \in Seq(Texts) /\ Len(pending') <= Capacity
      BY StartupAssumption DEF Ends
    <2>2. QED
      BY <2>1 DEF Inv, TypeOK, Ends, files, Step
  <1>2. Loaded'
    BY DEF Ends, Loaded
  <1>3. Watching' /\ Uploaded'
    BY DEF Ends, Watching, Uploaded
  <1>4. Reported'
    BY DEF Inv, Ends, Reported
  <1>5. QED
    BY <1>1, <1>2, <1>3, <1>4 DEF Inv

LEMMA CountersTyped ==
  ASSUME TypeOK, Act \/ Fault \/ UNCHANGED counters
  PROVE  acts' \in 0..MaxActs /\ faults' \in 0..MaxFaults
  BY StartupAssumption DEF TypeOK, Act, Fault, counters

----------------------------------------------------------------------------
(* An event is dispatched under the live configuration *)

LEMMA DispatchSafe ==
  ASSUME TypeOK, live \in Texts, Valid(live), NEW status \in Status, Dispatch(live, status)
  PROVE  /\ notice' \in [status : Status, by : Texts \cup {None}, sent : SUBSET Channel]
         /\ Reported'
  <1>1. Sent(live.notifications, status) \in SUBSET Channel
    BY SentTyped
  <1>2. QED
    BY <1>1 DEF Dispatch, Reported

----------------------------------------------------------------------------
(* One step of cmd_run *)

LEMMA StartSafe ==
  ASSUME Inv, Start
  PROVE  Inv'
  <1>1. ASSUME Fails PROVE Inv'
    BY <1>1, EndsSafe, CountersTyped DEF Fails, Inv
  <1>2. CASE Load
    <2>1. CASE disk # Garbled /\ Valid(disk)
      <3>1. disk \in Texts
        BY <2>1 DEF Inv, TypeOK
      <3>2. QED
        BY <1>2, <2>1, <3>1 DEF Load, Inv, TypeOK, Loaded, Watching, Reported, Uploaded,
           files, counters, Step
    <2>2. QED
      BY <1>1, <1>2, <2>1 DEF Load
  <1>3. CASE ServeMetrics
    <2>1. CASE cfg.metrics # "bad"
      BY <1>3, <2>1 DEF ServeMetrics, Inv, TypeOK, Loaded, Watching, Reported, Uploaded,
         files, memory, counters, Step
    <2>2. QED
      BY <1>1, <1>3, <2>1 DEF ServeMetrics
  <1>4. CASE ServeWebUi
    <2>1. CASE WebUiStarts(cfg.webui, environ)
      <3>1. (cfg.webui.listen # "absent") \in BOOLEAN
        OBVIOUS
      <3>2. QED
        BY <1>4, <2>1, <3>1 DEF ServeWebUi, Inv, TypeOK, Loaded, Watching, Reported, Uploaded,
           files, counters, Step
    <2>2. QED
      BY <1>1, <1>4, <2>1 DEF ServeWebUi
  <1>5. CASE SpawnWatchdog
    BY <1>5 DEF SpawnWatchdog, Inv, TypeOK, Loaded, Watching, Reported, Uploaded,
       files, counters, Step
  <1>6. CASE InstallJobs
    <2>1. CASE Scheduled(cfg)
      BY <1>6, <2>1 DEF InstallJobs, Inv, TypeOK, Loaded, Watching, Reported, Uploaded,
         files, memory, counters, Step
    <2>2. QED
      BY <1>1, <1>6, <2>1 DEF InstallJobs
  <1>7. QED
    BY <1>2, <1>3, <1>4, <1>5, <1>6 DEF Start

----------------------------------------------------------------------------

LEMMA InitSafe == Init => Inv
  <1>1. ASSUME Init PROVE TypeOK
    <2>1. pending \in Seq(Texts) /\ Len(pending) <= Capacity
      BY <1>1, StartupAssumption DEF Init
    <2>2. notice \in [status : Status, by : Texts \cup {None}, sent : SUBSET Channel]
      BY <1>1 DEF Init, NoNotice, Status
    <2>3. acts \in 0..MaxActs /\ faults \in 0..MaxFaults
      BY <1>1, StartupAssumption DEF Init
    <2>4. QED
      BY <1>1, <2>1, <2>2, <2>3 DEF Init, TypeOK, Step
  <1>2. Init => Loaded /\ Watching /\ Uploaded
    BY DEF Init, Loaded, Watching, Uploaded
  <1>3. Init => Reported
    BY DEF Init, Reported, NoNotice, Alarming
  <1>4. QED
    BY <1>1, <1>2, <1>3 DEF Inv

LEMMA NextSafe ==
  ASSUME Inv, [Next]_vars
  PROVE  Inv'
  <1>1. CASE UNCHANGED vars
    BY <1>1 DEF Inv, TypeOK, Loaded, Watching, Reported, Uploaded,
       vars, files, memory, counters
  <1>2. ASSUME NEW t \in Texts \cup {Garbled}, EditFile(t) PROVE Inv'
    <2>1. acts' \in 0..MaxActs /\ faults' \in 0..MaxFaults
      BY <1>2, CountersTyped DEF EditFile, Inv
    <2>2. verified' \in BOOLEAN
      BY <1>2 DEF EditFile
    <2>3. TypeOK'
      BY <1>2, <2>1, <2>2 DEF EditFile, Inv, TypeOK, memory
    <2>4. QED
      BY <1>2, <2>3 DEF EditFile, Inv, Loaded, Watching, Reported, Uploaded, memory
  <1>3. ASSUME NEW p \in {"unset", "empty", "set"}, EditEnvironment(p) PROVE Inv'
    <2>1. acts' \in 0..MaxActs /\ faults' \in 0..MaxFaults
      BY <1>3, CountersTyped DEF EditEnvironment, Inv
    <2>2. verified' \in BOOLEAN
      BY <1>3 DEF EditEnvironment
    <2>3. TypeOK'
      BY <1>3, <2>1, <2>2 DEF EditEnvironment, Inv, TypeOK, memory
    <2>4. QED
      BY <1>3, <2>3 DEF EditEnvironment, Inv, Loaded, Watching, Reported, Uploaded, memory
  <1>4. CASE Verify
    <2>1. acts' \in 0..MaxActs /\ faults' \in 0..MaxFaults
      BY <1>4, CountersTyped DEF Verify, Inv
    <2>2. TypeOK'
      BY <1>4, <2>1 DEF Verify, Inv, TypeOK, memory
    <2>3. QED
      BY <1>4, <2>2 DEF Verify, Inv, Loaded, Watching, Reported, Uploaded, memory
  <1>5. CASE Restart \/ RestartFailed \/ Kill \/ AddressInUse
    BY <1>5, EndsSafe, CountersTyped DEF Restart, RestartFailed, Kill, AddressInUse, Inv
  <1>6. CASE Start
    BY <1>6, StartSafe
  <1>7. ASSUME NEW c \in Texts, Save(c) PROVE Inv'
    <2>1. /\ pending' \in Seq(Texts) /\ Len(pending') <= Capacity
          /\ \A i \in 1..Len(pending') : Valid(pending'[i])
      BY <1>7, AppendTyped DEF Save, Inv
    <2>2. (verified /\ c = disk) \in BOOLEAN
      OBVIOUS
    <2>3. acts' \in 0..MaxActs /\ faults' \in 0..MaxFaults
      BY <1>7, CountersTyped DEF Save, Inv
    <2>4. TypeOK'
      BY <1>7, <2>1, <2>2, <2>3 DEF Save, Inv, TypeOK
    <2>5. QED
      BY <1>7, <2>1, <2>4 DEF Save, Inv, Loaded, Watching, Reported, Uploaded
  <1>8. CASE Reload
    <2>1. /\ Head(pending) \in Texts /\ Valid(Head(pending))
          /\ pending' \in Seq(Texts) /\ Len(pending') <= Capacity
          /\ \A i \in 1..Len(pending') : Valid(pending'[i])
      BY <1>8, TailTyped DEF Reload, Inv
    <2>2. QED
      BY <1>8, <2>1 DEF Reload, Inv, TypeOK, Loaded, Watching, Reported, Uploaded,
         files, counters
  <1>9. CASE BackUp
    <2>1. /\ notice' \in [status : Status, by : Texts \cup {None}, sent : SUBSET Channel]
          /\ Reported'
      BY <1>9, DispatchSafe DEF BackUp, Inv, Loaded, Status
    <2>2. mirror' \in Bucket \cup {"unset", "none"} /\ mirror' # "unset"
      BY <1>9, StartupAssumption DEF BackUp, S3Mirror, Inv, TypeOK
    <2>3. upload' \in Bucket \cup {"none"} /\ Uploaded'
      BY <1>9, <2>2, StartupAssumption DEF BackUp, S3Mirror, Inv, TypeOK, Uploaded
    <2>4. QED
      BY <1>9, <2>1, <2>2, <2>3 DEF BackUp, Inv, TypeOK, Loaded, Watching, files, counters
  <1>10. CASE BackUpNothing
    <2>1. /\ notice' \in [status : Status, by : Texts \cup {None}, sent : SUBSET Channel]
          /\ Reported'
      BY <1>10, DispatchSafe DEF BackUpNothing, Inv, Loaded, Status, Alarming
    <2>2. QED
      BY <1>10, <2>1 DEF BackUpNothing, Inv, TypeOK, Loaded, Watching, Uploaded,
         files, memory, counters
  <1>11. CASE WatchdogCheck
    <2>1. /\ notice' \in [status : Status, by : Texts \cup {None}, sent : SUBSET Channel]
          /\ Reported'
      BY <1>11, DispatchSafe DEF WatchdogCheck, Inv, Loaded, Status, Alarming
    <2>2. QED
      BY <1>11, <2>1 DEF WatchdogCheck, Inv, TypeOK, Loaded, Watching, Uploaded,
         files, memory, counters
  <1>12. QED
    BY <1>1, <1>2, <1>3, <1>4, <1>5, <1>6, <1>7, <1>8, <1>9, <1>10, <1>11 DEF Next

\* What is live or queued has been validated, and what a process has kept of its
\* start explains the rest.
THEOREM StartInvariant == Spec => []Inv
  BY InitSafe, NextSafe, PTL DEF Spec

\* Every variable keeps its type.
THEOREM StartTyped == Spec => []TypeOK
  <1>1. Inv => TypeOK
    BY DEF Inv
  <1>2. QED
    BY <1>1, StartInvariant, PTL

\* Whatever is reloaded between validation and dispatch, an alarm reaches every
\* channel its configuration names and has given usable settings (dispatch).
THEOREM AlarmsAreSent == Spec => []AlarmsGoOut
  <1>1. ASSUME Inv PROVE AlarmsGoOut
    <2>1. SUFFICES ASSUME notice.status \in Alarming,
                          NEW ch \in notice.by.notifications.onFailure \cap Channel,
                          notice.by.notifications[ch] # "useless"
                   PROVE  ch \in notice.sent
      BY DEF AlarmsGoOut
    <2> DEFINE n == notice.by.notifications
    <2>2. n \in NotificationsConfig /\ Valid(notice.by) /\ notice.sent = Sent(n, notice.status)
      BY <1>1, <2>1, NotificationsTyped DEF Inv, Reported
    <2>3. ChannelsHaveBlocks(n)
      BY <2>2 DEF Valid
    <2>4. ch \in Listed(n, notice.status)
      BY <2>1 DEF Listed
    <2>5. CASE ch = "email"
      <3>1. n.email = "ok"
        BY <2>1, <2>2, <2>3, <2>5 DEF ChannelsHaveBlocks, NotificationsConfig
      <3>2. QED
        BY <2>2, <2>4, <2>5, <3>1 DEF Sent, Sends
    <2>6. CASE ch = "webhook"
      <3>1. n.webhook = "ok"
        BY <2>1, <2>2, <2>3, <2>6 DEF ChannelsHaveBlocks, NotificationsConfig
      <3>2. QED
        BY <2>2, <2>4, <2>6, <3>1 DEF Sent, Sends
    <2>7. QED
      BY <2>1, <2>5, <2>6 DEF Channel
  <1>2. QED
    BY <1>1, StartInvariant, PTL

\* A reload can switch the watchdog on where the start left none, and only there is
\* it switched on in vain (cmd_run).
THEOREM BlindnessHasACause == Spec => []BlindOnlyAsStarted
  <1>1. Inv => BlindOnlyAsStarted
    BY DEF Inv, Watching, BlindOnlyAsStarted
  <1>2. QED
    BY <1>1, StartInvariant, PTL

\* Two uploads of one process never go to different buckets (s3_mirror).
THEOREM OneMirror == Spec => OneBucket
  <1>1. ASSUME Inv, [Next]_vars, upload # "none", upload' # "none"
        PROVE  upload' = upload
    <2>1. mirror = upload /\ mirror # "unset"
      BY <1>1, StartupAssumption DEF Inv, Uploaded, TypeOK
    <2>2. CASE BackUp
      BY <2>1, <2>2, <1>1 DEF BackUp, S3Mirror
    <2>3. CASE Ends("failed") \/ Ends("load")
      BY <2>3, <1>1 DEF Ends
    <2>4. CASE UNCHANGED upload
      BY <2>4
    <2>5. QED
      BY <1>1, <2>2, <2>3, <2>4
         DEF Next, vars, memory, files, EditFile, EditEnvironment, Verify, Restart, RestartFailed,
             Kill, AddressInUse, Start, Fails, Load, ServeMetrics, ServeWebUi, SpawnWatchdog,
             InstallJobs, Save, Reload, BackUpNothing, WatchdogCheck
  <1>2. QED
    BY <1>1, StartInvariant, PTL DEF Spec, OneBucket
=============================================================================
