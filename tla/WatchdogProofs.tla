--------------------------- MODULE WatchdogProofs ---------------------------
(* What the operator may rely on, for any devices, thresholds and number of *)
(* reloads, restarts and lost notices.                                      *)
EXTENDS Watchdog, TLAPS

\* A check rests on a time that has been; an open episode has its alert.
InTime == check.at <= now
Episodes == \A d \in Device : state[d].stale => state[d].lastAlert \in Time

\* The notice that is being sent is still what the bookkeeping calls for, which
\* nobody has touched since it was decided.
Sending ==
    check.step = "send" =>
        /\ check.device \in Device
        /\ check.decision \in {"alert", "recovered"}
        /\ check.decision = "alert" /\ state[check.device].stale =>
              check.at - state[check.device].lastAlert >= Realert
        /\ check.decision = "recovered" => state[check.device].stale

Inv == TypeOK /\ InTime /\ Episodes /\ Sending

----------------------------------------------------------------------------
(* Types and episodes *)

LEMMA Values ==
  /\ MaxTime \in Nat /\ MaxReloads \in Nat /\ MaxCrashes \in Nat /\ MaxLosses \in Nat
  /\ MaxFaults \in Nat
  /\ StaleAfter \subseteq Nat /\ Realert \in Nat
  /\ Time \subseteq Int /\ 0 \in Time
  /\ Absent \notin Int /\ Torn \notin Int /\ Never \notin Int /\ Absent # Torn
  /\ Never \notin Device
  BY ValueAssumption, TimeAssumption, BoundAssumption DEF Time

LEMMA WaitingTyped == ASSUME NEW c \in Config PROVE Waiting(c) \in Check
  BY Values DEF Waiting, Check, Decision

LEMMA CalmTyped == Calm \in AlertState /\ ~Calm.stale /\ Calm.lastAlert = Never
  BY DEF Calm, AlertState

LEMMA DecideTyped ==
  ASSUME NEW stale \in BOOLEAN, NEW prev
  PROVE  /\ Decide(stale, prev) \in Decision
         /\ Decide(stale, prev) = "recovered" => ~stale /\ prev.stale
         /\ Decide(stale, prev) = "alert" =>
               stale /\ (prev.stale => prev.lastAlert = Never \/ check.at - prev.lastAlert >= Realert)
         /\ Decide(stale, prev) = "quiet" /\ prev.stale \in BOOLEAN => stale = prev.stale
  BY DEF Decide, Decision

LEMMA IsStaleTyped == \A d \in Device : IsStale(d) \in BOOLEAN
  BY DEF IsStale

\* A check that passes over a device without a notice leaves its bookkeeping alone.
LEMMA QuietKeepsState ==
  ASSUME TypeOK, NEW d \in Device, StayQuiet(d)
  PROVE  state' = state
<1>1. state[d] \in AlertState /\ state[d].stale \in BOOLEAN
  BY DEF TypeOK, AlertState
<1>2. IsStale(d) = state[d].stale
  BY <1>1, DecideTyped, IsStaleTyped DEF StayQuiet, Verdict
<1>3. [state[d] EXCEPT !.stale = IsStale(d)] = state[d]
  BY <1>1, <1>2 DEF AlertState
<1>4. state' = [state EXCEPT ![d] = [state[d] EXCEPT !.stale = IsStale(d)]]
  BY DEF StayQuiet
<1> QED
  BY <1>3, <1>4 DEF TypeOK

LEMMA EnvironmentStep ==
  ASSUME Inv,
         \/ Tick \/ Restart \/ \E c \in Config : Reload(c)
         \/ \E r \in Runner : Record(r)
  PROVE  Inv'
<1> USE Values DEF Inv, files, counters
<1>0. now \in Time /\ check \in Check /\ check.at \in Time
  BY DEF TypeOK, Check
<1>1. CASE Tick
  <2>1. now' \in Time /\ now <= now'
    BY <1>0, <1>1 DEF Tick, Time
  <2>2. TypeOK'
    BY <1>1, <2>1 DEF Tick, TypeOK
  <2>3. InTime'
    BY <1>0, <1>1, <2>1 DEF Tick, InTime, Time
  <2> QED
    BY <1>1, <2>2, <2>3 DEF Tick, Episodes, Sending
<1>2. CASE Restart
  <2>1. cfg \in Config /\ cfg.enabled \in BOOLEAN
    BY DEF TypeOK, Config
  <2>2. check' \in Check /\ check'.step = "wait" /\ check'.at = 0
    BY <1>2, <2>1, WaitingTyped DEF Restart, Waiting
  <2>3. state' \in [Device -> AlertState] /\ \A d \in Device : ~state'[d].stale
    BY <1>2, CalmTyped DEF Restart
  <2>4. recorder' \in [Runner -> Recorder]
    BY <1>2 DEF Restart, Recorder, NoRecord
  <2>5. crashes' \in 0..MaxCrashes /\ spawned' \in BOOLEAN
    BY <1>2, <2>1 DEF Restart, TypeOK
  <2>6. TypeOK'
    BY <1>2, <2>2, <2>3, <2>4, <2>5 DEF Restart, TypeOK
  <2>7. InTime'
    BY <1>0, <1>2, <2>2 DEF Restart, InTime, Time
  <2> QED
    BY <2>2, <2>3, <2>6, <2>7 DEF Episodes, Sending
<1>3. ASSUME NEW c \in Config, Reload(c) PROVE Inv'
  <2>1. TypeOK'
    BY <1>3 DEF Reload, TypeOK
  <2> QED
    BY <1>3, <2>1 DEF Reload, InTime, Episodes, Sending
<1>4. ASSUME NEW r \in Runner, WriteMark(r) PROVE Inv'
  <2>1. recorder[r] \in Recorder
    BY DEF TypeOK
  <2>2. recorder[r].at \in Time /\ NoRecord \in Recorder
    BY <2>1 DEF Recorder, NoRecord
  <2>3. /\ marker' \in [Device -> Time \cup {Absent, Torn}]
        /\ recorder' \in [Runner -> Recorder]
    BY <1>4, <2>2 DEF WriteMark, TypeOK
  <2>4. TypeOK'
    BY <1>4, <2>3 DEF WriteMark, TypeOK
  <2> QED
    BY <1>4, <2>4 DEF WriteMark, InTime, Episodes, Sending
<1>5. ASSUME NEW r \in Runner, NEW d \in Device, CreateMark(r, d) PROVE Inv'
  <2>1. /\ marker' \in [Device -> Time \cup {Absent, Torn}]
        /\ recorder' \in [Runner -> Recorder]
        /\ success' \in [Device -> Time \cup {Never}]
    BY <1>0, <1>5 DEF CreateMark, TypeOK, Recorder
  <2>2. TypeOK'
    BY <1>5, <2>1 DEF CreateMark, TypeOK
  <2> QED
    BY <1>5, <2>2 DEF CreateMark, InTime, Episodes, Sending
<1>6. ASSUME NEW r \in Runner, NEW d \in Device, CreateFails(r, d) PROVE Inv'
  <2>1. faults' \in 0..MaxFaults /\ success' \in [Device -> Time \cup {Never}]
    BY <1>0, <1>6 DEF CreateFails, TypeOK
  <2>2. TypeOK'
    BY <1>6, <2>1 DEF CreateFails, TypeOK
  <2> QED
    BY <1>6, <2>2 DEF CreateFails, InTime, Episodes, Sending
<1>7. ASSUME NEW r \in Runner, WriteFails(r) PROVE Inv'
  <2>1. faults' \in 0..MaxFaults /\ recorder' \in [Runner -> Recorder]
    BY <1>7 DEF WriteFails, TypeOK, Recorder, NoRecord
  <2>2. TypeOK'
    BY <1>7, <2>1 DEF WriteFails, TypeOK
  <2> QED
    BY <1>7, <2>2 DEF WriteFails, InTime, Episodes, Sending
<1> QED
  BY <1>1, <1>2, <1>3, <1>4, <1>5, <1>6, <1>7 DEF Record

LEMMA VisitStep ==
  ASSUME Inv,
         \/ Wake \/ Finish
         \/ \E d \in Device : Skip(d) \/ StayQuiet(d) \/ BeginNotice(d)
  PROVE  Inv'
<1> USE Values DEF Inv, files, counters
<1>0. now \in Time /\ check \in Check /\ check.at \in Time /\ check.cfg \in Config
      /\ check.todo \subseteq Device
  BY DEF TypeOK, Check
<1>1. CASE Wake
  <2>1. cfg \in Config /\ cfg.devices \subseteq Device
    BY DEF TypeOK, Config
  <2>2. /\ check' \in Check /\ check'.step = "visit" /\ check'.at = now
    BY <1>0, <1>1, <2>1 DEF Wake, Check
  <2>3. TypeOK'
    BY <1>1, <2>2 DEF Wake, TypeOK
  <2>4. InTime'
    BY <1>0, <1>1, <2>2 DEF Wake, InTime, Time
  <2> QED
    BY <1>1, <2>2, <2>3, <2>4 DEF Wake, Episodes, Sending
<1>2. CASE Finish
  <2>1. check' \in Check /\ check'.step = "wait" /\ check'.at = 0
    BY <1>0, <1>2, WaitingTyped DEF Finish, Waiting
  <2>2. TypeOK'
    BY <1>2, <2>1 DEF Finish, TypeOK
  <2>3. InTime'
    BY <1>0, <1>2, <2>1 DEF Finish, InTime, Time
  <2> QED
    BY <1>2, <2>1, <2>2, <2>3 DEF Finish, Episodes, Sending
<1>3. ASSUME NEW d \in Device, Skip(d) \/ StayQuiet(d) PROVE Inv'
  <2>1. check' = [check EXCEPT !.todo = @ \ {d}] /\ check.step = "visit"
    BY <1>3 DEF Skip, StayQuiet
  <2>2. check' \in Check /\ check'.step = "visit" /\ check'.at = check.at
    BY <1>0, <2>1 DEF Check
  <2>3. state' = state
    BY <1>3, QuietKeepsState DEF Skip
  <2>4. UNCHANGED <<now, cfg, spawned, files, told, counters>>
    BY <1>3 DEF Skip, StayQuiet
  <2>5. TypeOK'
    BY <2>2, <2>3, <2>4 DEF TypeOK
  <2> QED
    BY <2>2, <2>3, <2>4, <2>5 DEF InTime, Episodes, Sending
<1>4. ASSUME NEW d \in Device, BeginNotice(d) PROVE Inv'
  <2> DEFINE verdict == Verdict(d)
  <2>1. /\ verdict \in Decision /\ verdict # "quiet"
        /\ verdict = "recovered" => state[d].stale
        /\ verdict = "alert" /\ state[d].stale =>
              state[d].lastAlert = Never \/ check.at - state[d].lastAlert >= Realert
    BY <1>4, DecideTyped, IsStaleTyped DEF BeginNotice, Verdict
  <2>2. check' = [check EXCEPT !.step = "send", !.todo = @ \ {d},
                               !.device = d, !.decision = verdict]
    BY <1>4 DEF BeginNotice
  <2>3. UNCHANGED <<now, cfg, spawned, files, state, told, counters>>
    BY <1>4 DEF BeginNotice
  <2> HIDE DEF verdict
  <2>4. /\ check' \in Check /\ check'.at = check.at
        /\ check'.device = d /\ check'.decision = verdict
    BY <1>0, <2>1, <2>2 DEF Check
  <2>5. TypeOK'
    BY <2>3, <2>4 DEF TypeOK
  <2>6. state[d].stale => state[d].lastAlert # Never
    BY DEF Episodes
  <2>7. Sending'
    BY <2>1, <2>3, <2>4, <2>6 DEF Sending, Decision
  <2> QED
    BY <2>3, <2>4, <2>5, <2>7 DEF InTime, Episodes
<1> QED
  BY <1>1, <1>2, <1>3, <1>4

\* A notice is sent, or lost.
LEMMA NoticeStep ==
  ASSUME Inv, Deliver \/ Lose
  PROVE  Inv'
<1> USE Values DEF Inv, files
<1>0. /\ now \in Time /\ check \in Check /\ check.at \in Time /\ check.cfg \in Config
      /\ check.device \in Device /\ check.decision \in {"alert", "recovered"}
      /\ check.cfg.staleAfter \in Nat
  BY DEF TypeOK, Check, Config, Sending, Deliver, Lose
<1>1. /\ state' = [state EXCEPT ![check.device] = After(check.decision)]
      /\ check' = [check EXCEPT !.step = "visit", !.device = Never, !.decision = "quiet"]
      /\ UNCHANGED <<now, cfg, spawned, files, reloads, crashes, faults>>
  BY DEF Deliver, Lose, Noted
<1>2. check' \in Check /\ check'.step = "visit" /\ check'.at = check.at
  BY <1>0, <1>1 DEF Check, Decision
<1>3. After(check.decision) \in AlertState
      /\ (After(check.decision).stale => After(check.decision).lastAlert \in Time)
  BY <1>0, CalmTyped DEF After, AlertState
<1>4. state' \in [Device -> AlertState] /\ Episodes'
  BY <1>0, <1>1, <1>3 DEF TypeOK, Episodes
<1>5. /\ told' \in [Device -> [notice : {"none", "stale", "recovered"}, at : Time, limit : Nat]]
      /\ losses' \in 0..MaxLosses
  BY <1>0 DEF Deliver, Lose, TypeOK
<1>6. TypeOK'
  BY <1>1, <1>2, <1>4, <1>5 DEF TypeOK
<1> QED
  BY <1>1, <1>2, <1>4, <1>6 DEF InTime, Sending

LEMMA WatchStep ==
  ASSUME Inv, [Next]_vars
  PROVE  Inv'
<1>1. CASE UNCHANGED vars
  BY <1>1 DEF vars, files, counters, Inv, TypeOK, InTime, Episodes, Sending
<1> QED
  BY <1>1, EnvironmentStep, VisitStep, NoticeStep DEF Next, Proceed

LEMMA WatchInit == Init => Inv
<1> SUFFICES ASSUME Init PROVE Inv
  OBVIOUS
<1> USE Values DEF Init
<1>1. check \in Check /\ check.step = "wait" /\ check.at = 0 /\ now = 0
  BY WaitingTyped DEF Waiting
<1>2. state \in [Device -> AlertState] /\ \A d \in Device : ~state[d].stale
  BY CalmTyped
<1>3. recorder \in [Runner -> Recorder] /\ spawned \in BOOLEAN
  BY DEF Recorder, NoRecord, Config
<1>4. TypeOK
  BY <1>1, <1>2, <1>3 DEF TypeOK
<1> QED
  BY <1>1, <1>2, <1>4 DEF Inv, InTime, Episodes, Sending

\* A notice that is being sent is the one the bookkeeping calls for (check_once).
THEOREM WatchInvariant == Spec => []Inv
<1> QED
  BY WatchInit, WatchStep, PTL DEF Spec

\* The type invariant of the watchdog.
THEOREM WatchTyped == Spec => []TypeOK
<1>1. Inv => TypeOK
  BY DEF Inv
<1> QED
  BY <1>1, WatchInvariant, PTL

----------------------------------------------------------------------------
(* The watchdog implements AlertProtocol *)

Alerted == [d \in Device |-> IF state[d].stale THEN state[d].lastAlert ELSE Never]

LEMMA SameEpisodes ==
  ASSUME UNCHANGED <<now, state>>
  PROVE  UNCHANGED <<now, Alerted>>
  BY DEF Alerted

LEMMA NoticeImplements ==
  ASSUME Inv, Deliver \/ Lose, NEW d, d = check.device
  PROVE  d \in Device /\ (Promise!Recover(d) \/ \E t \in 0..now : Promise!Alert(d, t))
<1> USE Values
<1>0. /\ now \in Time /\ check.at \in Time /\ d \in Device /\ check.step = "send"
      /\ check.decision \in {"alert", "recovered"} /\ state \in [Device -> AlertState]
  BY DEF Inv, TypeOK, Check, Sending, Deliver, Lose
<1>1. state' = [state EXCEPT ![d] = After(check.decision)] /\ now' = now
  BY DEF Deliver, Lose, Noted
<1>2. state[d].stale => state[d].lastAlert \in Time /\ state[d].lastAlert # Never
  BY <1>0 DEF Inv, Episodes
<1>3. CASE check.decision = "alert"
  <2>1. state' = [state EXCEPT ![d] = [stale |-> TRUE, lastAlert |-> check.at]]
    BY <1>1, <1>3 DEF After
  <2>2. Alerted' = [Alerted EXCEPT ![d] = check.at]
    BY <1>0, <2>1 DEF Alerted
  <2>3. check.at \in 0..now
    BY <1>0 DEF Inv, InTime, Time
  <2>4. Alerted[d] # Never => check.at - Alerted[d] >= Realert
    BY <1>0, <1>3 DEF Alerted, Inv, Sending
  <2>5. PICK t \in 0..now : t = check.at
    BY <2>3
  <2>6. Promise!Alert(d, t)
    BY <1>1, <2>2, <2>4, <2>5 DEF Promise!Alert, Alerted
  <2> QED
    BY <1>0, <2>5, <2>6
<1>4. CASE check.decision = "recovered"
  <2>1. state' = [state EXCEPT ![d] = Calm]
    BY <1>1, <1>4 DEF After
  <2>2. Alerted' = [Alerted EXCEPT ![d] = Never]
    BY <1>0, <2>1, CalmTyped DEF Alerted
  <2>3. Alerted[d] # Never
    BY <1>0, <1>2, <1>4 DEF Alerted, Inv, Sending
  <2>4. Promise!Recover(d)
    BY <1>1, <2>2, <2>3 DEF Promise!Recover, Alerted
  <2> QED
    BY <1>0, <2>4
<1> QED
  BY <1>0, <1>3, <1>4

\* Every step of the watchdog is one of the protocol, or does not concern it.
LEMMA StepImplements ==
  ASSUME Inv, [Next]_vars
  PROVE  Promise!Next \/ UNCHANGED <<now, Alerted>>
<1> USE DEF files, counters
<1>1. CASE Tick
  BY <1>1 DEF Tick, Promise!Next, Promise!Advance
<1>2. CASE Restart
  <2>1. \A d \in Device : ~state'[d].stale
    BY <1>2, CalmTyped DEF Restart
  <2>2. Promise!Forget
    BY <1>2, <2>1 DEF Restart, Promise!Forget
  <2> QED
    BY <2>2 DEF Promise!Next
<1>3. CASE Deliver \/ Lose
  BY <1>3, NoticeImplements DEF Promise!Next
<1>4. CASE \/ \E c \in Config : Reload(c)
           \/ \E r \in Runner : Record(r)
  BY <1>4, SameEpisodes DEF Reload, Record, WriteMark, CreateMark, CreateFails, WriteFails
<1>5. ASSUME NEW d \in Device, StayQuiet(d) PROVE UNCHANGED <<now, Alerted>>
  BY <1>5, QuietKeepsState, SameEpisodes DEF StayQuiet, Inv
<1>6. ASSUME NEW d \in Device, Skip(d) \/ BeginNotice(d) PROVE UNCHANGED <<now, Alerted>>
  BY <1>6, SameEpisodes DEF Skip, BeginNotice
<1>7. CASE Wake \/ Finish \/ UNCHANGED vars
  BY <1>7, SameEpisodes DEF Wake, Finish, vars
<1> QED
  BY <1>1, <1>2, <1>3, <1>4, <1>5, <1>6, <1>7 DEF Next, Proceed

\* Within an episode alerts are Realert apart, and a recovery follows an alert, whatever
\* is reloaded, restarted or lost (decide, check_once).
THEOREM ImplementsAlertProtocol == Spec => KeepsAlertProtocol
<1>1. Init => Promise!Init
  BY CalmTyped DEF Init, Promise!Init
<1>2. Inv /\ [Next]_vars
        => [Promise!Next]_<<now, [d \in Device |-> IF state[d].stale THEN state[d].lastAlert ELSE Never]>>
  BY StepImplements DEF Alerted
<1> QED
  BY <1>1, <1>2, WatchInvariant, PTL DEF Spec, KeepsAlertProtocol, Promise!Spec

----------------------------------------------------------------------------
(* The truth of the notices, where one run at a time records its success *)

\* A marker that can be read holds the last success, or one before it where that could
\* not be recorded; who is writing one has the last success.
MarkerTrue ==
    /\ \A d \in Device : marker[d] \in Time =>
          /\ success[d] \in Time /\ marker[d] <= success[d]
          /\ ~missed[d] => marker[d] = success[d]
    /\ \A r \in Runner : recorder[r] # NoRecord =>
          /\ recorder[r].device \in Device
          /\ recorder[r].at \in Time /\ recorder[r].at = success[recorder[r].device]
          /\ ~missed[recorder[r].device] /\ marker[recorder[r].device] = Torn
    /\ \A d \in Device : success[d] \in Time => success[d] <= now

\* At time t the device d was overdue, or not, by the marker that there is; or it has
\* succeeded since.
SucceededSince(d, t) == success[d] \in Time /\ success[d] >= t
OverdueAt(d, t, limit) ==
    \/ marker[d] \in Time /\ t - marker[d] > limit
    \/ SucceededSince(d, t)
FreshAt(d, t, limit) ==
    \/ marker[d] \in Time /\ t - marker[d] <= limit
    \/ SucceededSince(d, t)

DecidedRightly ==
    check.step = "send" =>
        /\ check.decision = "alert" => OverdueAt(check.device, check.at, check.cfg.staleAfter)
        /\ check.decision = "recovered" => FreshAt(check.device, check.at, check.cfg.staleAfter)

\* The last that was said of a device, at a time before the check that goes on.
ToldRightly ==
    \A d \in Device :
        told[d].notice = "stale" =>
            /\ told[d].at <= now
            /\ check.step # "wait" => told[d].at <= check.at
            /\ OverdueAt(d, told[d].at, told[d].limit)

Truth == MarkerTrue /\ DecidedRightly /\ ToldRightly

LEMMA TruthKept ==
  ASSUME Inv, Truth, UNCHANGED <<now, files, check, told>>
  PROVE  Truth'
  BY DEF Truth, MarkerTrue, DecidedRightly, ToldRightly, OverdueAt, FreshAt, SucceededSince, files

\* A decision and a notice outlive what happens to the marker, as long as the marker is
\* changed for a success of this moment only.
LEMMA SaidStays ==
  ASSUME Inv, DecidedRightly, ToldRightly, UNCHANGED <<check, told>>, now' = now,
         \A d \in Device :
            \/ marker'[d] = marker[d] /\ success'[d] = success[d]
            \/ success'[d] = now
            \/ success'[d] = success[d] /\ marker[d] = Torn
  PROVE  DecidedRightly' /\ ToldRightly'
<1> USE Values
<1>0. /\ now \in Time /\ check.at \in Time /\ check.at <= now /\ Torn \notin Time
      /\ check.step = "send" => check.device \in Device
      /\ \A d \in Device : told[d].at \in Time
  BY DEF Inv, InTime, TypeOK, Check, Sending
<1>1. ASSUME NEW d \in Device, NEW t \in Time, t <= now, NEW limit
      PROVE  /\ OverdueAt(d, t, limit) => OverdueAt(d, t, limit)'
             /\ FreshAt(d, t, limit) => FreshAt(d, t, limit)'
  BY <1>0, <1>1 DEF OverdueAt, FreshAt, SucceededSince
<1>2. DecidedRightly'
  <2> SUFFICES ASSUME check.step = "send" PROVE DecidedRightly'
    BY DEF DecidedRightly
  <2>1. PICK d \in Device : d = check.device
    BY <1>0
  <2>2. PICK limit : limit = check.cfg.staleAfter
    OBVIOUS
  <2>3. PICK t \in Time : t = check.at /\ t <= now
    BY <1>0
  <2>4. /\ check.decision = "alert" => OverdueAt(d, t, limit)
        /\ check.decision = "recovered" => FreshAt(d, t, limit)
    BY <2>1, <2>2, <2>3 DEF DecidedRightly
  <2>5. /\ check.decision = "alert" => OverdueAt(d, t, limit)'
        /\ check.decision = "recovered" => FreshAt(d, t, limit)'
    BY <1>1, <2>3, <2>4
  <2> QED
    BY <2>1, <2>2, <2>3, <2>5 DEF DecidedRightly, OverdueAt, FreshAt, SucceededSince
<1>3. ToldRightly'
  <2> SUFFICES ASSUME NEW d \in Device, told[d].notice = "stale"
               PROVE  /\ told[d].at <= now
                      /\ check.step # "wait" => told[d].at <= check.at
                      /\ (\/ marker'[d] \in Time /\ told[d].at - marker'[d] > told[d].limit
                          \/ success'[d] \in Time /\ success'[d] >= told[d].at)
    BY DEF ToldRightly, OverdueAt, SucceededSince
  <2>1. /\ told[d].at <= now
        /\ check.step # "wait" => told[d].at <= check.at
        /\ OverdueAt(d, told[d].at, told[d].limit)
    BY DEF ToldRightly
  <2>2. CASE marker'[d] = marker[d] /\ success'[d] = success[d]
    BY <2>1, <2>2 DEF OverdueAt, SucceededSince
  <2>3. CASE success'[d] = now
    BY <1>0, <2>1, <2>3 DEF Time
  <2>4. CASE success'[d] = success[d] /\ marker[d] = Torn
    BY <1>0, <2>1, <2>4 DEF OverdueAt, SucceededSince
  <2> QED
    BY <2>2, <2>3, <2>4
<1> QED
  BY <1>2, <1>3

\* The clock, a restart, and a success that is recorded or cannot be.
LEMMA RecordTruth ==
  ASSUME \A q, r \in Runner : q = r, Inv, Truth,
         \/ Tick \/ Restart
         \/ \E r \in Runner : Record(r)
  PROVE  Truth'
<1> USE Values DEF Truth, files, counters
<1>0. /\ now \in Time /\ check.at \in Time
      /\ recorder \in [Runner -> Recorder] /\ marker \in [Device -> Time \cup {Absent, Torn}]
      /\ success \in [Device -> Time \cup {Never}] /\ missed \in [Device -> BOOLEAN]
      /\ check.at <= now /\ Torn \notin Time
      /\ \A d \in Device : told[d].at \in Time /\ told[d].limit \in Nat
  BY DEF Inv, InTime, TypeOK, Check
<1>1. CASE Tick
  <2>1. now' = now + 1 /\ UNCHANGED <<marker, recorder, success, missed, check, told>>
    BY <1>1 DEF Tick
  <2>2. MarkerTrue' /\ DecidedRightly'
    BY <1>0, <2>1 DEF MarkerTrue, DecidedRightly, OverdueAt, FreshAt, SucceededSince, Time
  <2>3. ToldRightly'
    BY <1>0, <2>1 DEF ToldRightly, OverdueAt, SucceededSince, Time
  <2> QED
    BY <2>2, <2>3
<1>2. CASE Restart
  <2>1. /\ check'.step = "wait" /\ UNCHANGED <<now, marker, success, missed, told>>
        /\ \A r \in Runner : recorder'[r] = NoRecord
    BY <1>2 DEF Restart, Waiting
  <2> QED
    BY <2>1 DEF MarkerTrue, DecidedRightly, ToldRightly, OverdueAt, SucceededSince
<1>3. ASSUME NEW r \in Runner, WriteMark(r) PROVE Truth'
  <2>0. PICK d \in Device : d = recorder[r].device
    BY <1>3 DEF WriteMark, MarkerTrue
  <2>1. /\ d \in Device /\ recorder[r].at \in Time /\ recorder[r].at = success[d]
        /\ ~missed[d] /\ marker[d] = Torn
    BY <1>3, <2>0 DEF WriteMark, MarkerTrue
  <2>2. /\ marker'[d] = success[d] /\ \A e \in Device : e # d => marker'[e] = marker[e]
        /\ \A q \in Runner : recorder'[q] = NoRecord
        /\ UNCHANGED <<now, success, missed, check, told>>
    BY <1>0, <1>3, <2>0, <2>1 DEF WriteMark
  <2>3. MarkerTrue'
    BY <1>0, <2>1, <2>2 DEF MarkerTrue, Time
  <2> QED
    BY <2>1, <2>2, <2>3, SaidStays
<1>4. ASSUME NEW r \in Runner, NEW d \in Device, CreateMark(r, d) PROVE Truth'
  <2>1. /\ marker'[d] = Torn /\ \A e \in Device : e # d => marker'[e] = marker[e]
        /\ success'[d] = now /\ \A e \in Device : e # d => success'[e] = success[e]
        /\ ~missed'[d] /\ \A e \in Device : e # d => missed'[e] = missed[e]
        /\ \A q \in Runner : recorder'[q].device = d /\ recorder'[q].at = now
        /\ UNCHANGED <<now, check, told>>
    BY <1>0, <1>4 DEF CreateMark
  <2>2. \A e \in Device : marker'[e] \in Time =>
            /\ success'[e] \in Time /\ marker'[e] <= success'[e]
            /\ ~missed'[e] => marker'[e] = success'[e]
    BY <1>0, <2>1 DEF MarkerTrue
  <2>3. \A e \in Device : success'[e] \in Time => success'[e] <= now'
    <3> SUFFICES ASSUME NEW e \in Device, success'[e] \in Time PROVE success'[e] <= now
      BY <2>1
    <3>1. CASE e = d
      BY <1>0, <2>1, <3>1 DEF Time
    <3>2. CASE e # d
      BY <2>1, <3>2 DEF MarkerTrue
    <3> QED
      BY <3>1, <3>2
  <2>4. MarkerTrue'
    BY <1>0, <2>1, <2>2, <2>3 DEF MarkerTrue
  <2> QED
    BY <2>1, <2>4, SaidStays
<1>5. ASSUME NEW r \in Runner, NEW d \in Device, CreateFails(r, d) PROVE Truth'
  <2>1. /\ recorder[r] = NoRecord /\ UNCHANGED <<now, marker, recorder, check, told>>
        /\ success'[d] = now /\ \A e \in Device : e # d => success'[e] = success[e]
        /\ missed'[d] /\ \A e \in Device : e # d => missed'[e] = missed[e]
    BY <1>0, <1>5 DEF CreateFails
  <2>2. \A q \in Runner : recorder[q] = NoRecord
    BY <2>1
  <2>3. MarkerTrue'
    BY <1>0, <2>1, <2>2 DEF MarkerTrue, Time
  <2> QED
    BY <2>1, <2>3, SaidStays
<1>6. ASSUME NEW r \in Runner, WriteFails(r) PROVE Truth'
  <2>1. /\ UNCHANGED <<now, marker, success, check, told>>
        /\ \A q \in Runner : recorder'[q] = NoRecord
        /\ \A d \in Device : missed[d] => missed'[d]
    BY <1>0, <1>6 DEF WriteFails
  <2>2. MarkerTrue'
    BY <2>1 DEF MarkerTrue
  <2> QED
    BY <2>1, <2>2, SaidStays
<1> QED
  BY <1>1, <1>2, <1>3, <1>4, <1>5, <1>6 DEF Record

\* What a notice is decided on.
LEMMA NoticeDecided ==
  ASSUME Inv, MarkerTrue, NEW d \in Device, BeginNotice(d)
  PROVE  /\ check'.device = d /\ check'.at = check.at /\ check'.cfg = check.cfg
         /\ check'.step = "send" /\ check.step = "visit"
         /\ marker[d] \in Time /\ OnRecord(d) = marker[d]
         /\ check'.decision = "alert" => check.at - marker[d] > check.cfg.staleAfter
         /\ check'.decision = "recovered" => ~(check.at - marker[d] > check.cfg.staleAfter)
<1>1. check \in Check /\ marker[d] \in Time \cup {Absent, Torn}
  BY DEF Inv, TypeOK
<1>2. /\ check.step = "visit"
      /\ check' = [check EXCEPT !.step = "send", !.todo = @ \ {d},
                                !.device = d, !.decision = Verdict(d)]
  BY DEF BeginNotice
<1>3. marker[d] \in Time /\ LastSuccess(d) = marker[d]
  BY <1>1 DEF BeginNotice, LastSuccess
<1>4. OnRecord(d) = marker[d]
  BY <1>3 DEF MarkerTrue, OnRecord
<1>5. IsStale(d) <=> check.at - marker[d] > check.cfg.staleAfter
  BY <1>3 DEF IsStale
<1>6. /\ Verdict(d) = "alert" => IsStale(d)
      /\ Verdict(d) = "recovered" => ~IsStale(d)
  BY IsStaleTyped, DecideTyped DEF Verdict
<1> QED
  BY <1>1, <1>2, <1>3, <1>4, <1>5, <1>6 DEF Check

LEMMA CheckTruth ==
  ASSUME Inv, Truth,
         \/ Wake \/ Finish \/ Deliver \/ Lose
         \/ \E d \in Device : Skip(d) \/ StayQuiet(d) \/ BeginNotice(d)
  PROVE  Truth'
<1> USE Values DEF Truth, files, counters
<1>0. /\ now \in Time /\ check \in Check /\ check.at \in Time /\ check.cfg.staleAfter \in Nat
      /\ check.at <= now
      /\ \A d \in Device : told[d].at \in Time /\ told[d].limit \in Nat
  BY DEF Inv, InTime, TypeOK, Check, Config
<1>1. UNCHANGED <<now, marker, recorder, success, missed>>
  BY DEF Wake, Finish, Deliver, Lose, Noted, Skip, StayQuiet, BeginNotice
<1>2. MarkerTrue'
  BY <1>1 DEF MarkerTrue
<1>3. CASE Wake
  <2>1. check'.step = "visit" /\ check'.at = now /\ told' = told
    BY <1>0, <1>3 DEF Wake, Check
  <2> QED
    BY <1>1, <1>2, <2>1 DEF DecidedRightly, ToldRightly, OverdueAt, SucceededSince
<1>4. CASE Finish
  <2>1. check'.step = "wait" /\ told' = told
    BY <1>4 DEF Finish, Waiting
  <2> QED
    BY <1>1, <1>2, <2>1 DEF DecidedRightly, ToldRightly, OverdueAt, SucceededSince
<1>5. ASSUME NEW d \in Device, Skip(d) \/ StayQuiet(d) PROVE Truth'
  <2>1. /\ check.step = "visit" /\ check'.step = "visit" /\ check'.at = check.at
        /\ told' = told
    BY <1>0, <1>5 DEF Skip, StayQuiet, Check
  <2> QED
    BY <1>1, <1>2, <2>1 DEF DecidedRightly, ToldRightly, OverdueAt, SucceededSince
<1>6. ASSUME NEW d \in Device, BeginNotice(d) PROVE Truth'
  <2>1. told' = told
    BY <1>6 DEF BeginNotice
  <2>2. /\ check'.device = d /\ check'.at = check.at /\ check'.cfg = check.cfg
        /\ check'.step = "send" /\ check.step = "visit" /\ marker[d] \in Time
        /\ check'.decision = "alert" => check.at - marker[d] > check.cfg.staleAfter
        /\ check'.decision = "recovered" => ~(check.at - marker[d] > check.cfg.staleAfter)
    BY <1>6, NoticeDecided
  <2>3. ~(check.at - marker[d] > check.cfg.staleAfter) => check.at - marker[d] <= check.cfg.staleAfter
    BY <1>0, <2>2 DEF Time
  <2>4. DecidedRightly'
    BY <1>1, <2>2, <2>3 DEF DecidedRightly, OverdueAt, FreshAt
  <2>5. ToldRightly'
    BY <1>1, <2>1, <2>2 DEF ToldRightly, OverdueAt, SucceededSince
  <2> QED
    BY <1>2, <2>4, <2>5
<1>7. CASE Deliver \/ Lose
  <2>1. check.step = "send" /\ check'.step = "visit" /\ check'.at = check.at
    BY <1>0, <1>7 DEF Deliver, Lose, Noted, Check
  <2>2. check.device \in Device
    BY <2>1 DEF Inv, Sending
  <2>3. DecidedRightly'
    BY <2>1 DEF DecidedRightly
  <2>4. CASE Lose
    <3>1. told' = told
      BY <2>4 DEF Lose
    <3> QED
      BY <1>1, <1>2, <2>1, <2>3, <3>1 DEF ToldRightly, OverdueAt, SucceededSince
  <2>5. CASE Deliver
    <3>1. /\ told'[check.device].notice = (IF check.decision = "alert" THEN "stale" ELSE "recovered")
          /\ told'[check.device].at = check.at
          /\ told'[check.device].limit = check.cfg.staleAfter
          /\ \A d \in Device : d # check.device => told'[d] = told[d]
      BY <2>2, <2>5 DEF Deliver, Inv, TypeOK
    <3> DEFINE Right(d) == /\ told'[d].at <= now'
                           /\ check'.step # "wait" => told'[d].at <= check'.at
                           /\ \/ marker'[d] \in Time /\ told'[d].at - marker'[d] > told'[d].limit
                              \/ success'[d] \in Time /\ success'[d] >= told'[d].at
    <3>2. ASSUME NEW d \in Device, d # check.device, told'[d].notice = "stale"
          PROVE  Right(d)
      BY <1>1, <2>1, <3>1, <3>2 DEF ToldRightly, OverdueAt, SucceededSince
    <3>3. ASSUME told'[check.device].notice = "stale" PROVE Right(check.device)
      <4>1. OverdueAt(check.device, check.at, check.cfg.staleAfter)
        BY <2>1, <3>1, <3>3 DEF DecidedRightly
      <4>2. PICK d \in Device : d = check.device
        BY <2>2
      <4>3. \/ marker'[d] \in Time /\ told'[d].at - marker'[d] > told'[d].limit
            \/ success'[d] \in Time /\ success'[d] >= told'[d].at
        BY <1>1, <3>1, <4>1, <4>2 DEF OverdueAt, SucceededSince
      <4>4. told'[d].at <= now' /\ told'[d].at <= check'.at
        BY <1>0, <1>1, <2>1, <3>1, <4>2 DEF Time
      <4> QED
        BY <4>2, <4>3, <4>4
    <3>4. ToldRightly'
      BY <3>2, <3>3 DEF ToldRightly, OverdueAt, SucceededSince
    <3> QED
      BY <1>2, <2>3, <3>4
  <2> QED
    BY <1>7, <2>4, <2>5
<1> QED
  BY <1>3, <1>4, <1>5, <1>6, <1>7

LEMMA TruthStep ==
  ASSUME \A q, r \in Runner : q = r, Inv, Truth, [Next]_vars
  PROVE  Truth'
<1>1. ASSUME NEW c \in Config, Reload(c) PROVE Truth'
  BY <1>1, TruthKept DEF Reload
<1>2. CASE UNCHANGED vars
  BY <1>2, TruthKept DEF vars, files
<1> QED
  BY <1>1, <1>2, RecordTruth, CheckTruth DEF Next, Proceed

\* What is said of a device rests on its last success, or where that could not be
\* recorded on the one before it that could (check_once, record_success).
THEOREM TruthInvariant ==
  ASSUME \A q, r \in Runner : q = r
  PROVE  Spec => []Truth
<1>1. ASSUME Init PROVE Truth
  <2>1. \A d \in Device : marker[d] \notin Time /\ success[d] \notin Time /\ told[d].notice = "none"
    BY <1>1, Values DEF Init, Time
  <2>2. check.step = "wait" /\ \A r \in Runner : recorder[r] = NoRecord
    BY <1>1 DEF Init, Waiting
  <2> QED
    BY <2>1, <2>2 DEF Truth, MarkerTrue, DecidedRightly, ToldRightly
<1>2. Inv /\ Truth /\ [Next]_vars => Truth'
  BY TruthStep
<1> QED
  BY <1>1, <1>2, WatchInvariant, PTL DEF Spec

\* No alert is decided about a device whose last success is within the period, or the
\* last one that could be recorded, however long the check takes and whatever is
\* half-written (check_once, record_success).
THEOREM AlarmsAreTrue ==
  ASSUME \A q, r \in Runner : q = r
  PROVE  Spec => NoFalseAlarm
<1>1. ASSUME Inv, Truth, [Next]_vars, NEW d \in Device,
             check.step # "send", check'.step = "send", check'.decision = "alert", check'.device = d
      PROVE  OnRecord(d) \in Time /\ OnRecord(d) + check.cfg.staleAfter < now
  <2>1. BeginNotice(d)
    <3>1. check' # check
      BY <1>1
    <3>2. CASE \E e \in Device : Skip(e) \/ StayQuiet(e)
      BY <1>1, <3>2 DEF Skip, StayQuiet, Inv, TypeOK, Check
    <3>3. ASSUME NEW e \in Device, BeginNotice(e) PROVE BeginNotice(d)
      BY <1>1, <3>3, NoticeDecided DEF Truth
    <3>4. CASE Restart \/ Finish
      BY <1>1, <3>4 DEF Restart, Finish, Waiting
    <3>5. CASE Wake
      BY <1>1, <3>5 DEF Wake, Inv, TypeOK, Check
    <3>6. ~\E r \in Runner : Record(r)
      BY <3>1 DEF Record, WriteMark, CreateMark, CreateFails, WriteFails
    <3> QED
      BY <1>1, <3>1, <3>2, <3>3, <3>4, <3>5, <3>6
         DEF Next, Proceed, Tick, Reload, Deliver, Lose, vars
  <2>2. /\ marker[d] \in Time /\ OnRecord(d) = marker[d]
        /\ check.at - marker[d] > check.cfg.staleAfter
    BY <1>1, <2>1, NoticeDecided DEF Truth
  <2>3. now \in Time /\ check.at \in Time /\ check.cfg.staleAfter \in Nat /\ check.at <= now
    BY <1>1, Values DEF Inv, InTime, TypeOK, Check, Config
  <2>4. marker[d] \in Int /\ now \in Int /\ check.at \in Int
    BY <2>2, <2>3, Values
  <2> QED
    BY <2>2, <2>3, <2>4
<1>2. Inv /\ Truth /\ [Next]_vars =>
        \A d \in Device :
          check.step # "send" /\ check'.step = "send" /\ check'.decision = "alert"
             /\ check'.device = d
          => OnRecord(d) \in Time /\ OnRecord(d) + check.cfg.staleAfter < now
  BY <1>1
<1> QED
  BY <1>2, WatchInvariant, TruthInvariant, PTL DEF Spec, NoFalseAlarm

\* A recovery notice follows a success since the alert, or a raised threshold, whatever
\* could not be recorded in between (decide, record_success).
THEOREM RecoveriesAreReal ==
  ASSUME \A q, r \in Runner : q = r
  PROVE  Spec => RecoveryIsReal
<1>1. ASSUME Inv, Truth, [Next]_vars, NEW d \in Device,
             told[d].notice = "stale", told'[d].notice = "recovered"
      PROVE  \/ success[d] # Never /\ success[d] >= told[d].at
             \/ told'[d].limit > told[d].limit
  <2>1. Deliver
    BY <1>1 DEF Next, Proceed, Tick, Reload, Restart, Record, WriteMark, CreateMark,
                CreateFails, WriteFails, Wake, Skip, StayQuiet, BeginNotice, Lose, Finish, vars
  <2>2. check.step = "send" /\ check.device \in Device
    BY <1>1, <2>1 DEF Deliver, Inv, Sending
  <2>3. told' = [told EXCEPT ![check.device] =
                   [notice |-> IF check.decision = "alert" THEN "stale" ELSE "recovered",
                    at |-> check.at, limit |-> check.cfg.staleAfter]]
    BY <2>1 DEF Deliver
  <2>4. /\ d = check.device /\ check.decision = "recovered"
        /\ told'[d].limit = check.cfg.staleAfter
    BY <1>1, <2>2, <2>3 DEF Inv, TypeOK, Sending
  <2>5. FreshAt(d, check.at, check.cfg.staleAfter)
    BY <1>1, <2>2, <2>4 DEF Truth, DecidedRightly
  <2>6. told[d].at <= check.at /\ OverdueAt(d, told[d].at, told[d].limit)
    BY <1>1, <2>2 DEF Truth, ToldRightly
  <2>7. told[d].at \in Time /\ check.at \in Time /\ Never \notin Time
    BY <1>1, Values DEF Inv, TypeOK, Check
  <2>8. told[d].limit \in Nat /\ check.cfg.staleAfter \in Nat
    BY <1>1, Values DEF Inv, TypeOK, Check, Config
  <2>9. CASE SucceededSince(d, told[d].at) \/ SucceededSince(d, check.at)
    <3>1. success[d] \in Time /\ (success[d] >= told[d].at \/ success[d] >= check.at)
      BY <2>9 DEF SucceededSince
    <3> QED
      BY <2>6, <2>7, <3>1 DEF Time
  <2>10. CASE ~SucceededSince(d, told[d].at) /\ ~SucceededSince(d, check.at)
    <3>1. /\ marker[d] \in Time /\ check.at - marker[d] <= check.cfg.staleAfter
          /\ told[d].at - marker[d] > told[d].limit
      BY <2>5, <2>6, <2>10 DEF FreshAt, OverdueAt
    <3> QED
      BY <2>4, <2>6, <2>7, <2>8, <3>1 DEF Time
  <2> QED
    BY <2>9, <2>10
<1>2. Inv /\ Truth /\ [Next]_vars =>
        \A d \in Device :
          told[d].notice = "stale" /\ told'[d].notice = "recovered"
          => \/ success[d] # Never /\ success[d] >= told[d].at
             \/ told'[d].limit > told[d].limit
  BY <1>1
<1> QED
  BY <1>2, WatchInvariant, TruthInvariant, PTL DEF Spec, RecoveryIsReal
=============================================================================
