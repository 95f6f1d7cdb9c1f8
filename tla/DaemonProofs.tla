---------------------------- MODULE DaemonProofs ----------------------------
(* Jobs, files and reservations of the daemon, for any configurations, any  *)
(* number of handlers, visitors and cron tasks, and any number of saves,    *)
(* crashes and signals.                                                     *)
EXTENDS Daemon, FiniteSetTheorems, TLAPS

\* What is live, on its way to be, or whole on disk has been in the file.
Known ==
    /\ live \in original
    /\ disk \in Config => disk \in original
    /\ \A i \in 1..Len(channel) : channel[i] \in original
    /\ \A h \in Handler : /\ post[h].step # "idle" => post[h].cfg \in Config
                          /\ post[h].step = "send" => post[h].cfg \in original

\* Every reload of a process comes from a save: received, sent or being served.
Busy == {h \in Handler : post[h] # NoPost}
Counted ==
    /\ IsFiniteSet(Busy)
    /\ sched.made + Len(channel) + Cardinality(Busy) <= posts

SavesInv == TypeOK /\ Known /\ Counted

----------------------------------------------------------------------------
(* Types, and what has been in the file *)

LEMMA Bounds == MaxPosts \in Nat /\ MaxFaults \in Nat /\ MaxSignals \in Nat /\ Capacity \in Nat
  BY BoundAssumption

LEMMA DevicesTyped ==
  ASSUME NEW c \in Config
  PROVE  DevicesOf(c) \subseteq Device
  BY ConfigAssumption DEF DevicesOf

LEMMA IdleNotBusy == ASSUME post = [h \in Handler |-> NoPost] PROVE Busy = {}
  BY DEF Busy

\* A handler that goes on stays busy, one that is done is not busy any more.
LEMMA BusyStays ==
  ASSUME TypeOK, NEW h \in Handler, post[h] # NoPost,
         post'[h] # NoPost, \A k \in Handler : k # h => post'[k] = post[k]
  PROVE  Busy' = Busy
  BY DEF Busy

LEMMA BusyEnds ==
  ASSUME TypeOK, Counted, NEW h \in Handler, post[h] # NoPost,
         post' = [post EXCEPT ![h] = NoPost]
  PROVE  /\ IsFiniteSet(Busy')
         /\ Cardinality(Busy') = Cardinality(Busy) - 1
         /\ Cardinality(Busy) \in Nat
<1>1. Busy' = Busy \ {h} /\ h \in Busy
  BY DEF TypeOK, Busy, NoPost
<1> QED
  BY <1>1, FS_RemoveElement, FS_CardinalityType DEF Counted

LEMMA BusyBegins ==
  ASSUME TypeOK, Counted, NEW h \in Handler, post[h] = NoPost,
         NEW p, p # NoPost, post' = [post EXCEPT ![h] = p]
  PROVE  /\ IsFiniteSet(Busy')
         /\ Cardinality(Busy') = Cardinality(Busy) + 1
<1>1. Busy' = Busy \cup {h} /\ h \notin Busy
  BY DEF TypeOK, Busy, NoPost
<1> QED
  BY <1>1, FS_AddElement DEF Counted

\* The process ends; the files stay, and so does what the next one will load.
LEMMA EndsSafe ==
  ASSUME SavesInv, NEW step \in {"failed", "stopped"}, Ends(step),
         posts' = posts, second' = second,
         faults' \in 0..MaxFaults, signals' \in 0..MaxSignals
  PROVE  SavesInv'
<1> USE DEF Ends, files
<1>1. TypeOK'
  <2>1. /\ sched' \in Sched /\ post' \in [Handler -> Post]
    BY DEF SavesInv, TypeOK, Sched, Post, NoPost
  <2>2. jobs' \subseteq Job /\ inFlight' \subseteq Device /\ heard' \in BOOLEAN
    OBVIOUS
  <2>3. channel' \in Seq(Config) /\ Len(channel') <= Capacity
    BY Bounds
  <2> QED
    BY <2>1, <2>2, <2>3 DEF SavesInv, TypeOK
<1>2. Known'
  BY DEF SavesInv, TypeOK, Known, NoPost
<1>3. Counted'
  <2>1. Busy' = {}
    BY DEF Busy
  <2>2. sched'.made = sched.made /\ Len(channel') = 0
    BY DEF SavesInv, TypeOK, Sched
  <2>3. sched.made <= posts
    BY FS_CardinalityType DEF SavesInv, TypeOK, Counted, Sched, Generation
  <2> QED
    BY <2>1, <2>2, <2>3, FS_EmptySet DEF Counted, SavesInv, TypeOK, Sched, Generation
<1> QED
  BY <1>1, <1>2, <1>3 DEF SavesInv

\* The steps of the process and of its scheduler.
LEMMA ScheduleSaves ==
  ASSUME SavesInv,
         \/ Boot \/ Receive \/ RemovedAll \/ InstalledAll \/ NextSecond
         \/ \E j \in sched.ids : RemoveJob(j) \/ RemoveFails(j)
         \/ \E d \in Device : InstallJob(d)
         \/ \E d \in Device : (InstallFails(d) \/ AddFails(d)) /\ sched.step # "boot"
         \/ Terminate /\ sched.step # "boot"
  PROVE  SavesInv'
<1> USE Bounds DEF SavesInv, files, runs, counters
<1>0. /\ sched \in Sched /\ Cardinality(Busy) \in Nat /\ Len(channel) \in Nat
      /\ posts \in 0..MaxPosts
  BY FS_CardinalityType DEF TypeOK, Counted
<1>1. CASE Boot
  <2>0. sched' \in Sched
    <3>1. 0 \in Generation
      BY DEF Generation
    <3>2. sched' = [sched EXCEPT !.step = "boot", !.made = 0]
      BY <1>1 DEF Boot
    <3> QED
      BY <1>0, <3>1, <3>2 DEF Sched
  <2>1. TypeOK'
    <3>1. live' \in Config /\ UNCHANGED <<files, post, channel, jobs, heard, runs, counters>>
      BY <1>1 DEF Boot
    <3> QED
      BY <2>0, <3>1 DEF TypeOK
  <2>2. Known'
    BY <1>1 DEF Boot, Known
  <2>3. Counted'
    BY <1>0, <1>1 DEF Boot, Counted, Busy, Sched, Generation
  <2> QED
    BY <2>1, <2>2, <2>3
<1>2. CASE Receive
  <2>1. Head(channel) = channel[1] /\ 1 \in 1..Len(channel) /\ Len(channel') = Len(channel) - 1
    BY <1>2 DEF Receive, TypeOK
  <2>2. sched.made + 1 \in Generation
    BY <1>0, <2>1 DEF Counted, Sched, Generation
  <2>3. TypeOK'
    <3>1. sched' \in Sched
      BY <1>0, <1>2, <2>2 DEF Receive, Sched
    <3>2. channel' \in Seq(Config) /\ Len(channel') <= Capacity /\ live' \in Config
      BY <1>2, <2>1 DEF Receive, TypeOK
    <3> QED
      BY <1>2, <3>1, <3>2 DEF Receive, TypeOK
  <2>4. Known'
    <3>1. \A i \in 1..Len(channel') : channel'[i] = channel[i + 1] /\ i + 1 \in 1..Len(channel)
      BY <1>2, <2>1 DEF Receive, TypeOK
    <3> QED
      BY <1>2, <2>1, <3>1 DEF Receive, Known
  <2>5. Counted'
    <3>1. sched'.made = sched.made + 1
      BY <1>0, <1>2 DEF Receive, Sched
    <3>2. Busy' = Busy /\ posts' = posts
      BY <1>2 DEF Receive, Busy
    <3> QED
      BY <1>0, <2>1, <3>1, <3>2 DEF Counted, Sched, Generation
  <2> QED
    BY <2>3, <2>4, <2>5
<1>3. CASE RemovedAll \/ InstalledAll
  <2>1. sched' \in Sched /\ sched'.made = sched.made
    BY <1>0, <1>3 DEF RemovedAll, InstalledAll, Sched
  <2> QED
    BY <1>3, <2>1 DEF RemovedAll, InstalledAll, TypeOK, Known, Counted, Busy
<1>4. CASE NextSecond
  <2>1. TypeOK'
    BY <1>4 DEF NextSecond, TypeOK, Second
  <2> QED
    BY <1>4, <2>1 DEF NextSecond, Known, Counted, Busy
<1>5. ASSUME NEW j \in sched.ids, RemoveJob(j) \/ RemoveFails(j) PROVE SavesInv'
  <2>1. CASE RemoveJob(j)
    <3>1. sched' = [sched EXCEPT !.ids = @ \ {j}] /\ jobs' \subseteq Job
      BY <2>1 DEF RemoveJob, TypeOK
    <3>2. sched' \in Sched /\ sched'.made = sched.made
      BY <1>0, <3>1 DEF Sched
    <3>3. TypeOK'
      BY <2>1, <3>1, <3>2 DEF RemoveJob, TypeOK
    <3> QED
      BY <2>1, <3>2, <3>3 DEF RemoveJob, Known, Counted, Busy
  <2>2. CASE RemoveFails(j)
    <3>1. sched' = [sched EXCEPT !.ids = @ \ {j}, !.stray = @ \cup {j}] /\ j \in Job
      BY <1>0, <2>2 DEF RemoveFails, Sched
    <3>2. sched' \in Sched /\ sched'.made = sched.made
      BY <1>0, <3>1 DEF Sched
    <3>3. faults' \in 0..MaxFaults
      <4>1. faults \in 0..MaxFaults /\ faults < MaxFaults /\ faults' = faults + 1
        BY <2>2 DEF RemoveFails, TypeOK
      <4> QED
        BY <4>1
    <3>4. TypeOK'
      BY <2>2, <3>2, <3>3 DEF RemoveFails, TypeOK
    <3> QED
      BY <2>2, <3>2, <3>4 DEF RemoveFails, Known, Counted, Busy
  <2> QED
    BY <1>5, <2>1, <2>2
<1>6. ASSUME NEW d \in Device, InstallJob(d) PROVE SavesInv'
  <2> DEFINE job == JobOf(d)
  <2>1. job \in Job
    BY <1>0 DEF Job, JobOf, TypeOK, Sched
  <2>2. sched' = [sched EXCEPT !.new = @ \cup {job}] /\ jobs' = jobs \cup {job}
    BY <1>6 DEF InstallJob
  <2> HIDE DEF job
  <2>3. sched' \in Sched /\ sched'.made = sched.made
    BY <1>0, <2>1, <2>2 DEF Sched
  <2>4. TypeOK'
    BY <1>6, <2>1, <2>2, <2>3 DEF InstallJob, TypeOK
  <2> QED
    BY <1>6, <2>3, <2>4 DEF InstallJob, Known, Counted, Busy
<1>7. ASSUME NEW d \in Device, InstallFails(d) \/ AddFails(d), sched.step # "boot" PROVE SavesInv'
  <2>1. PICK refused \in Device \cup {Nothing} :
            sched' = [sched EXCEPT !.step = "select", !.new = {}, !.stray = @ \cup sched.new,
                                   !.refused = refused]
    BY <1>7 DEF InstallFails, AddFails, EndsInstallation
  <2>2. sched' \in Sched /\ sched'.made = sched.made
    BY <1>0, <2>1 DEF Sched
  <2>3. UNCHANGED <<files, post, channel, live, jobs, heard, runs, second, posts, signals>>
    BY <1>7 DEF InstallFails, AddFails, EndsInstallation
  <2>4. faults' \in 0..MaxFaults
    BY <1>7 DEF InstallFails, AddFails, TypeOK
  <2>5. TypeOK'
    BY <2>2, <2>3, <2>4 DEF TypeOK
  <2> QED
    BY <2>2, <2>3, <2>5 DEF Known, Counted, Busy
<1>8. CASE Terminate /\ sched.step # "boot"
  <2>1. TypeOK'
    BY <1>8 DEF Terminate, TypeOK
  <2> QED
    BY <1>8, <2>1 DEF Terminate, Known, Counted, Busy
<1> QED
  BY <1>1, <1>2, <1>3, <1>4, <1>5, <1>6, <1>7, <1>8

\* A save, and the client that leaves it.
LEMMA PostSaves ==
  ASSUME SavesInv, NEW h \in Handler,
         CopyOld(h) \/ CreateDisk(h) \/ WriteDisk(h) \/ Send(h) \/ Abandon(h)
         \/ \E c \in Config : Submit(h, c)
  PROVE  SavesInv'
<1> USE Bounds DEF SavesInv, files, runs, counters
<1>0. /\ post \in [Handler -> Post] /\ Cardinality(Busy) \in Nat /\ Len(channel) \in Nat
      /\ posts \in 0..MaxPosts /\ sched.made \in Nat
  BY FS_CardinalityType DEF TypeOK, Counted, Sched, Generation
<1>1. CASE CopyOld(h)
  <2>1. post'[h] = [post[h] EXCEPT !.step = "create"] /\ post'[h] \in Post /\ post'[h] # NoPost
    BY <1>0, <1>1 DEF CopyOld, Post, NoPost
  <2>2. TypeOK'
    <3>1. post' \in [Handler -> Post]
      BY <1>0, <1>1, <2>1 DEF CopyOld
    <3> QED
      BY <1>1, <2>1, <3>1 DEF CopyOld, TypeOK
  <2>3. Busy' = Busy
    <3>1. post[h] # NoPost /\ \A k \in Handler : k # h => post'[k] = post[k]
      BY <1>0, <1>1 DEF CopyOld, NoPost
    <3> QED
      BY <2>1, <3>1, BusyStays
  <2>4. Known'
    BY <1>0, <1>1, <2>1 DEF CopyOld, Known, Post
  <2> QED
    BY <1>1, <2>2, <2>3, <2>4 DEF CopyOld, Counted
<1>2. CASE CreateDisk(h)
  <2>1. post'[h] = [post[h] EXCEPT !.step = "write"] /\ post'[h] \in Post /\ post'[h] # NoPost
    BY <1>0, <1>2 DEF CreateDisk, Post, NoPost
  <2>2. TypeOK'
    <3>1. post' \in [Handler -> Post]
      BY <1>0, <1>2, <2>1 DEF CreateDisk
    <3> QED
      BY <1>2, <2>1, <3>1 DEF CreateDisk, TypeOK
  <2>3. Busy' = Busy
    <3>1. post[h] # NoPost /\ \A k \in Handler : k # h => post'[k] = post[k]
      BY <1>0, <1>2 DEF CreateDisk, NoPost
    <3> QED
      BY <2>1, <3>1, BusyStays
  <2>4. Known'
    BY <1>0, <1>2, <2>1, ConfigAssumption DEF CreateDisk, Known, Post
  <2> QED
    BY <1>2, <2>2, <2>3, <2>4 DEF CreateDisk, Counted
<1>3. CASE WriteDisk(h)
  <2>1. post'[h] = [post[h] EXCEPT !.step = "send"] /\ post'[h] \in Post /\ post'[h] # NoPost
    BY <1>0, <1>3 DEF WriteDisk, Post, NoPost
  <2>2. post[h].cfg \in Config /\ disk' \in {post[h].cfg, Torn}
    BY <1>3 DEF WriteDisk, Known
  <2>3. TypeOK'
    <3>1. post' \in [Handler -> Post]
      BY <1>0, <1>3, <2>1 DEF WriteDisk
    <3> QED
      BY <1>3, <2>1, <2>2, <3>1 DEF WriteDisk, TypeOK
  <2>4. Busy' = Busy
    <3>1. post[h] # NoPost /\ \A k \in Handler : k # h => post'[k] = post[k]
      BY <1>0, <1>3 DEF WriteDisk, NoPost
    <3> QED
      BY <2>1, <3>1, BusyStays
  <2>5. Known'
    BY <1>0, <1>3, <2>1, <2>2, ConfigAssumption DEF WriteDisk, Known, Post
  <2> QED
    BY <1>3, <2>3, <2>4, <2>5 DEF WriteDisk, Counted
<1>4. CASE Send(h)
  <2>1. post[h].cfg \in Config /\ post[h].cfg \in original /\ post[h] # NoPost
    BY <1>4 DEF Send, Known, NoPost
  <2>2. /\ channel' \in Seq(Config) /\ Len(channel') = Len(channel) + 1
        /\ \A i \in 1..Len(channel') : channel'[i] \in original
    BY <1>4, <2>1 DEF Send, TypeOK, Known
  <2>3. TypeOK'
    <3>1. post' \in [Handler -> Post]
      BY <1>0, <1>4 DEF Send, Post, NoPost
    <3>2. Len(channel') <= Capacity
      BY <1>4, <1>0, <2>2 DEF Send, TypeOK
    <3> QED
      BY <1>4, <2>2, <3>1, <3>2 DEF Send, TypeOK
  <2>4. Known'
    BY <1>0, <1>4, <2>2 DEF Send, Known, NoPost
  <2>5. Counted'
    <3>1. IsFiniteSet(Busy') /\ Cardinality(Busy') = Cardinality(Busy) - 1
      BY <1>4, <2>1, BusyEnds DEF Send
    <3> QED
      BY <1>0, <1>4, <2>2, <3>1 DEF Send, Counted
  <2> QED
    BY <2>3, <2>4, <2>5
<1>5. CASE Abandon(h)
  <2>1. TypeOK'
    <3>1. post' \in [Handler -> Post]
      BY <1>0, <1>5, ConfigAssumption DEF Abandon, Post, NoPost
    <3> QED
      BY <1>5, <3>1 DEF Abandon, TypeOK
  <2>2. Known'
    BY <1>0, <1>5 DEF Abandon, Known, NoPost
  <2>3. Counted'
    <3>1. post[h] # NoPost
      BY <1>5 DEF Abandon, NoPost
    <3>2. IsFiniteSet(Busy') /\ Cardinality(Busy') = Cardinality(Busy) - 1
      BY <1>5, <3>1, BusyEnds DEF Abandon
    <3> QED
      BY <1>0, <1>5, <3>2 DEF Abandon, Counted
  <2> QED
    BY <2>1, <2>2, <2>3
<1>6. ASSUME NEW c \in Config, Submit(h, c) PROVE SavesInv'
  <2> DEFINE p == [step |-> "copy", cfg |-> c]
  <2>1. post' = [post EXCEPT ![h] = p] /\ p \in Post /\ p # NoPost /\ p.step = "copy" /\ p.cfg \in Config
    BY <1>6 DEF Submit, Post, NoPost
  <2> HIDE DEF p
  <2>2. TypeOK'
    <3>1. post' \in [Handler -> Post]
      BY <1>0, <2>1
    <3> QED
      BY <1>0, <1>6, <3>1 DEF Submit, TypeOK
  <2>3. Known'
    BY <1>0, <1>6, <2>1 DEF Submit, Known
  <2>4. Counted'
    <3>1. IsFiniteSet(Busy') /\ Cardinality(Busy') = Cardinality(Busy) + 1
      BY <1>6, <2>1, BusyBegins DEF Submit
    <3> QED
      BY <1>0, <1>6, <3>1 DEF Submit, Counted
  <2> QED
    BY <2>2, <2>3, <2>4
<1> QED
  BY <1>1, <1>2, <1>3, <1>4, <1>5, <1>6

\* The runs touch neither the file nor the configurations on their way.
LEMMA RunSaves ==
  ASSUME SavesInv,
         \/ \E k \in CronTask : FinishCron(k) \/ \E j \in jobs : Fire(j, k)
         \/ \E m \in Visitor : FinishManual(m) \/ \E d \in Device : RunNow(m, d)
  PROVE  SavesInv'
<1> USE DEF SavesInv, files, counters
<1>1. ASSUME NEW k \in CronTask, FinishCron(k) PROVE SavesInv'
  BY <1>1 DEF FinishCron, TypeOK, Known, Counted, Busy
<1>2. ASSUME NEW k \in CronTask, NEW j \in jobs, Fire(j, k) PROVE SavesInv'
  BY <1>2 DEF Fire, TypeOK, Known, Counted, Busy
<1>3. ASSUME NEW m \in Visitor, FinishManual(m) PROVE SavesInv'
  BY <1>3 DEF FinishManual, TypeOK, Known, Counted, Busy
<1>4. ASSUME NEW m \in Visitor, NEW d \in Device, RunNow(m, d) PROVE SavesInv'
  BY <1>4 DEF RunNow, TypeOK, Known, Counted, Busy
<1> QED
  BY <1>1, <1>2, <1>3, <1>4

LEMMA SavesStep ==
  ASSUME SavesInv, [Next]_vars
  PROVE  SavesInv'
<1>1. CASE Crash
  BY <1>1, EndsSafe, Bounds DEF Crash, SavesInv, TypeOK
<1>2. CASE Terminate
  <2>1. CASE sched.step = "boot"
    BY <1>2, <2>1, EndsSafe, Bounds DEF Terminate, SavesInv, TypeOK
  <2> QED
    BY <1>2, <2>1, ScheduleSaves
<1>3. CASE Shutdown
  BY <1>3, EndsSafe DEF Shutdown, counters, SavesInv, TypeOK
<1>4. ASSUME NEW d \in Device, InstallFails(d) \/ AddFails(d) PROVE SavesInv'
  <2>1. CASE sched.step = "boot"
    <3>1. Ends("failed") /\ UNCHANGED <<second, posts, signals>> /\ faults' \in 0..MaxFaults
      BY <1>4, <2>1, Bounds
         DEF InstallFails, AddFails, EndsInstallation, counters, SavesInv, TypeOK
    <3> QED
      BY <3>1, EndsSafe DEF SavesInv, TypeOK
  <2> QED
    BY <1>4, <2>1, ScheduleSaves
<1>5. CASE Boot \/ NextSecond \/ Receive \/ RemovedAll \/ InstalledAll
  BY <1>5, ScheduleSaves
<1>6. CASE \/ \E j \in sched.ids : RemoveJob(j) \/ RemoveFails(j)
           \/ \E d \in Device : InstallJob(d)
  BY <1>6, ScheduleSaves
<1>7. ASSUME NEW h \in Handler, Serve(h) \/ Abandon(h) \/ \E c \in Config : Submit(h, c)
      PROVE  SavesInv'
  BY <1>7, PostSaves DEF Serve
<1>8. CASE \/ \E k \in CronTask : FinishCron(k) \/ \E j \in jobs : Fire(j, k)
           \/ \E m \in Visitor : FinishManual(m) \/ \E d \in Device : RunNow(m, d)
  BY <1>8, RunSaves
<1>9. CASE UNCHANGED vars
  BY <1>9 DEF vars, files, runs, counters, SavesInv, TypeOK, Known, Counted, Busy
<1> QED
  BY <1>1, <1>2, <1>3, <1>4, <1>5, <1>6, <1>7, <1>8, <1>9 DEF Next, Schedule

LEMMA SavesInit == Init => SavesInv
<1> SUFFICES ASSUME Init PROVE SavesInv
  OBVIOUS
<1> USE Bounds DEF Init
<1>1. TypeOK
  <2>1. sched \in Sched /\ post \in [Handler -> Post]
    BY DEF Sched, Generation, Post, NoPost
  <2>2. channel \in Seq(Config) /\ Len(channel) <= Capacity
    OBVIOUS
  <2>3. kept \in [Second -> Config \cup {Torn, Nothing}] /\ second \in Second
    BY DEF Second
  <2>4. manual \in [Visitor -> Device \cup {Nothing}] /\ cron \in [CronTask -> Job \cup {Nothing}]
    OBVIOUS
  <2>5. posts \in 0..MaxPosts /\ signals \in 0..MaxSignals /\ faults \in 0..MaxFaults
    OBVIOUS
  <2>6. /\ disk \in Config \cup {Torn} /\ original \subseteq Config /\ left \in BOOLEAN
        /\ live \in Config /\ jobs \subseteq Job /\ heard \in BOOLEAN /\ inFlight \subseteq Device
    OBVIOUS
  <2> QED
    BY ONLY <2>1, <2>2, <2>3, <2>4, <2>5, <2>6 DEF TypeOK
<1>2. Known
  BY DEF Known, NoPost
<1>3. Counted
  <2>1. Busy = {}
    BY DEF Busy
  <2> QED
    BY <2>1, FS_EmptySet DEF Counted
<1> QED
  BY <1>1, <1>2, <1>3 DEF SavesInv

\* Every configuration that is live, sent, or whole on disk has been in the file, and
\* the generation of the jobs counts the saves that have been received
\* (handle_config_post, scheduler::run).
THEOREM SavesAccounted == Spec => []SavesInv
<1> QED
  BY SavesInit, SavesStep, PTL DEF Spec

\* The type invariant of the daemon.
THEOREM DaemonTyped == Spec => []TypeOK
<1>1. SavesInv => TypeOK
  BY DEF SavesInv
<1> QED
  BY <1>1, SavesAccounted, PTL

----------------------------------------------------------------------------
(* The jobs *)

\* What the installation has made so far is of the live configuration.
InstalledSoFar ==
    /\ ~Installing => sched.new = {}
    /\ \A j \in sched.new : /\ j.cfg = live /\ j.made = sched.made
                            /\ j.device \in DevicesOf(live)

\* Every job is one that the loop knows, one that the installation has just made, or
\* one that a failure has left behind, and none is two of them.
JobsKnown ==
    /\ jobs = sched.ids \cup sched.new \cup sched.stray
    /\ sched.ids \cap sched.stray = {}
    /\ sched.step \notin {"select", "remove"} => sched.ids = {}

\* What an earlier installation has made, the present one has not; a new process
\* begins with nothing.
Older ==
    /\ \A j \in sched.ids \cup sched.stray :
          /\ j.made <= sched.made
          /\ sched.step # "select" => j.made < sched.made
    /\ sched.step \in {"boot", "failed", "stopped"} => sched.stray = {}

\* An installation that has not been cut short has a job for every device.
Complete ==
    sched.step = "select" /\ BadCron[live] = {} /\ sched.refused = Nothing =>
        sched.ids = {JobOf(d) : d \in DevicesOf(live)}

JobsInv == InstalledSoFar /\ JobsKnown /\ Older /\ Complete /\ PrefixScheduled

\* The jobs, and what the loop knows of them, stay.
LEMMA OthersKeepJobs ==
  ASSUME JobsInv, UNCHANGED <<jobs, sched, live>>
  PROVE  JobsInv'
  BY DEF JobsInv, InstalledSoFar, JobsKnown, Older, Complete, PrefixScheduled, JobOf, Installing

LEMMA EndsNoJobs ==
  ASSUME SavesInv, NEW step \in {"failed", "stopped"}, Ends(step)
  PROVE  JobsInv'
<1>1. /\ sched' = [sched EXCEPT !.step = step, !.ids = {}, !.new = {}, !.stray = {},
                                !.refused = Nothing]
      /\ sched \in Sched
  BY DEF Ends, SavesInv, TypeOK
<1>2. /\ sched'.step = step /\ sched'.ids = {} /\ sched'.new = {} /\ sched'.stray = {}
      /\ jobs' = {}
  BY <1>1 DEF Sched, Ends
<1> QED
  BY <1>2 DEF JobsInv, InstalledSoFar, JobsKnown, Older, Complete, PrefixScheduled, Installing

\* A new process, or a reload: the old jobs go, or stay behind.
LEMMA OldJobsGo ==
  ASSUME SavesInv, JobsInv,
         \/ Boot \/ Receive \/ RemovedAll
         \/ \E j \in sched.ids : RemoveJob(j) \/ RemoveFails(j)
  PROVE  JobsInv'
<1> USE DEF JobsInv
<1>0. /\ sched \in Sched /\ sched.made \in Nat
      /\ \A j \in sched.ids \cup sched.stray : j.made \in Nat
  BY DEF SavesInv, TypeOK, Sched, Job, Generation
<1>1. CASE Boot
  <2>1. /\ sched.step = "failed" /\ sched'.step = "boot" /\ sched'.new = sched.new
        /\ sched'.ids = sched.ids /\ sched'.stray = sched.stray /\ jobs' = jobs
    BY <1>0, <1>1 DEF Boot, Sched
  <2>2. sched.new = {} /\ sched.ids = {} /\ sched.stray = {}
    BY <2>1 DEF InstalledSoFar, JobsKnown, Older, Installing
  <2> QED
    BY <2>1, <2>2 DEF InstalledSoFar, JobsKnown, Older, Complete, PrefixScheduled, Installing
<1>2. CASE Receive
  <2>1. /\ sched.step = "select" /\ sched'.step = "remove" /\ sched'.new = sched.new
        /\ sched'.ids = sched.ids /\ sched'.stray = sched.stray /\ jobs' = jobs
        /\ sched'.made = sched.made + 1
    BY <1>0, <1>2 DEF Receive, Sched
  <2>2. sched.new = {}
    BY <2>1 DEF InstalledSoFar, Installing
  <2>3. Older'
    BY <1>0, <2>1 DEF Older
  <2> QED
    BY <2>1, <2>2, <2>3 DEF InstalledSoFar, JobsKnown, Complete, PrefixScheduled, Installing
<1>3. CASE RemovedAll
  <2>1. /\ sched.step = "remove" /\ sched'.step = "install" /\ sched'.new = sched.new
        /\ sched.ids = {} /\ sched'.ids = {} /\ sched'.stray = sched.stray /\ jobs' = jobs
        /\ sched'.made = sched.made
    BY <1>0, <1>3 DEF RemovedAll, Sched
  <2>2. sched.new = {}
    BY <2>1 DEF InstalledSoFar, Installing
  <2> QED
    BY <2>1, <2>2 DEF InstalledSoFar, JobsKnown, Older, Complete, PrefixScheduled, Installing
<1>4. ASSUME NEW j \in sched.ids, RemoveJob(j) \/ RemoveFails(j) PROVE JobsInv'
  <2>1. /\ sched.step = "remove" /\ sched'.step = "remove" /\ sched'.new = sched.new
        /\ sched'.ids = sched.ids \ {j} /\ sched'.made = sched.made
        /\ \/ jobs' = jobs \ {j} /\ sched'.stray = sched.stray
           \/ jobs' = jobs /\ sched'.stray = sched.stray \cup {j}
    BY <1>0, <1>4 DEF RemoveJob, RemoveFails, Sched
  <2>2. sched.new = {}
    BY <2>1 DEF InstalledSoFar, Installing
  <2>3. JobsKnown'
    BY <2>1, <2>2 DEF JobsKnown
  <2>4. Older'
    BY <2>1 DEF Older
  <2> QED
    BY <2>1, <2>2, <2>3, <2>4 DEF InstalledSoFar, Complete, PrefixScheduled, Installing
<1> QED
  BY <1>1, <1>2, <1>3, <1>4

LEMMA InstallJobKnown ==
  ASSUME SavesInv, JobsInv, NEW d \in Device, InstallJob(d)
  PROVE  JobsInv'
<1> DEFINE job == JobOf(d)
<1>1. job.cfg = live /\ job.made = sched.made /\ job.device = d
  BY DEF JobOf
<1>2. d \in DevicesOf(live)
  BY DEF InstallJob, IsNextDevice, Remaining, DevicesOf
<1>3. jobs' = jobs \cup {job} /\ sched' = [sched EXCEPT !.new = @ \cup {job}]
  BY DEF InstallJob
<1> HIDE DEF job
<1>4. /\ sched'.step = sched.step /\ sched'.new = sched.new \cup {job}
      /\ sched'.ids = sched.ids /\ sched'.made = sched.made /\ sched'.stray = sched.stray
  BY <1>3 DEF SavesInv, TypeOK, Sched
<1>5. live' = live /\ Installing /\ DevicesOf(live)' = DevicesOf(live)
  BY DEF InstallJob, DevicesOf
<1>6. sched.step \notin {"select", "remove"}
  BY <1>5 DEF Installing
<1>7. InstalledSoFar'
  BY <1>1, <1>2, <1>4, <1>5 DEF JobsInv, InstalledSoFar, Installing
<1>8. JobsKnown' /\ Older'
  BY <1>3, <1>4 DEF JobsInv, JobsKnown, Older
<1> QED
  BY <1>4, <1>6, <1>7, <1>8 DEF JobsInv, Complete, PrefixScheduled

\* Whatever the installation has made, it has made for its devices.
LEMMA MadeIsJobOf ==
  ASSUME SavesInv, JobsInv, NEW j \in sched.new
  PROVE  j = JobOf(j.device) /\ j \in jobs
  BY DEF SavesInv, TypeOK, Sched, Job, JobsInv, InstalledSoFar, JobsKnown, JobOf

\* Every device before the one that ends the installation has its job by then, and
\* the device itself ends the prefix.
LEMMA FailureLeavesPrefix ==
  ASSUME SavesInv, JobsInv, NEW d \in Device, InstallFails(d) \/ AddFails(d),
         sched.step # "boot"
  PROVE  JobsInv'
<1>1. /\ Installing /\ IsNextDevice(d) /\ jobs' = jobs /\ live' = live
      /\ \E refused \in {Nothing, d} :
            /\ sched' = [sched EXCEPT !.step = "select", !.new = {}, !.stray = @ \cup sched.new,
                                      !.refused = refused]
            /\ d \in BadCron[live] \/ refused = d
  BY DEF InstallFails, AddFails, EndsInstallation
<1>2. /\ sched'.step = "select" /\ sched'.new = {} /\ sched'.ids = sched.ids
      /\ sched'.stray = sched.stray \cup sched.new /\ sched'.made = sched.made
      /\ d \in BadCron[live] \/ sched'.refused = d
  BY <1>1 DEF SavesInv, TypeOK, Sched
<1>3. PICK i \in Remaining : d = Devices[live][i] /\ \A k \in Remaining : i <= k
  BY <1>1 DEF IsNextDevice
<1>4. DOMAIN Devices[live] = 1..Len(Devices[live]) /\ Len(Devices[live]) \in Nat
  BY ConfigAssumption DEF SavesInv, TypeOK
<1>5. PrefixScheduled'
  <2> SUFFICES ASSUME NEW n \in DOMAIN Devices[live],
                      \A k \in 1..n : Devices[live][k] \notin BadCron[live] \cup {sched'.refused}
               PROVE  JobOf(Devices[live][n]) \in jobs
    BY <1>1, <1>2 DEF PrefixScheduled, JobOf
  <2>1. n < i
    BY <1>2, <1>3, <1>4 DEF Remaining
  <2>2. n \notin Remaining
    BY <1>3, <1>4, <2>1 DEF Remaining
  <2>3. PICK j \in sched.new : j.device = Devices[live][n]
    BY <2>2 DEF Remaining
  <2> QED
    BY <2>3, MadeIsJobOf
<1>6. sched.ids = {} /\ jobs = sched.new \cup sched.stray
  BY <1>1 DEF JobsInv, JobsKnown, Installing
<1>7. JobsKnown'
  BY <1>1, <1>2, <1>6 DEF JobsKnown
<1>8. Older'
  <2>1. \A j \in sched.stray : j.made <= sched.made
    BY DEF JobsInv, Older
  <2>2. \A j \in sched.new : j.made <= sched.made
    BY DEF JobsInv, InstalledSoFar, SavesInv, TypeOK, Sched, Generation
  <2> QED
    BY <1>2, <1>6, <2>1, <2>2 DEF Older
<1>9. Complete'
  BY <1>1, <1>2, ConfigAssumption DEF Complete
<1> QED
  BY <1>2, <1>5, <1>7, <1>8, <1>9 DEF JobsInv, InstalledSoFar

LEMMA InstalledAllKnown ==
  ASSUME SavesInv, JobsInv, InstalledAll
  PROVE  JobsInv'
<1>1. /\ Installing /\ Remaining = {} /\ UNCHANGED <<jobs, live>>
      /\ sched' = [sched EXCEPT !.step = "select", !.ids = sched.new, !.new = {}]
  BY DEF InstalledAll
<1>2. /\ sched'.step = "select" /\ sched'.ids = sched.new /\ sched'.new = {}
      /\ sched'.made = sched.made /\ sched'.stray = sched.stray
  BY <1>1 DEF SavesInv, TypeOK, Sched
<1>3. \A i \in DOMAIN Devices[live] : \E j \in sched.new : j.device = Devices[live][i]
  BY <1>1 DEF Remaining
<1>4. PrefixScheduled'
  <2> SUFFICES ASSUME NEW i \in DOMAIN Devices[live] PROVE JobOf(Devices[live][i]) \in jobs
    BY <1>1, <1>2 DEF PrefixScheduled, JobOf
  <2> QED
    BY <1>3, MadeIsJobOf
<1>5. sched.new = {JobOf(d) : d \in DevicesOf(live)}
  <2>1. \A j \in sched.new : j.device \in DevicesOf(live) /\ j = JobOf(j.device)
    BY MadeIsJobOf DEF JobsInv, InstalledSoFar
  <2>2. \A d \in DevicesOf(live) : JobOf(d) \in sched.new
    BY <1>3, <2>1 DEF DevicesOf
  <2> QED
    BY <2>1, <2>2
<1>6. Complete'
  BY <1>1, <1>2, <1>5 DEF Complete, JobOf
<1>7. sched.ids = {} /\ jobs = sched.new \cup sched.stray
  BY <1>1 DEF JobsInv, JobsKnown, Installing
<1>8. /\ \A j \in sched.new : j.made = sched.made
      /\ \A j \in sched.stray : j.made < sched.made
      /\ sched.made \in Nat
  BY <1>1 DEF JobsInv, InstalledSoFar, Older, Installing, SavesInv, TypeOK, Sched, Generation
<1>9. sched.new \cap sched.stray = {}
  <2>1. ASSUME NEW j \in sched.new, j \in sched.stray PROVE FALSE
    BY <1>8, <2>1
  <2> QED
    BY <2>1
<1>10. JobsKnown'
  BY <1>1, <1>2, <1>7, <1>9 DEF JobsKnown
<1>11. Older'
  <2>1. \A j \in sched.stray : j.made <= sched.made
    BY DEF JobsInv, Older
  <2>2. \A j \in sched.new : j.made <= sched.made
    BY <1>8
  <2> QED
    BY <1>2, <2>1, <2>2 DEF Older
<1> QED
  BY <1>2, <1>4, <1>6, <1>10, <1>11 DEF JobsInv, InstalledSoFar

LEMMA JobsStep ==
  ASSUME SavesInv, JobsInv, [Next]_vars
  PROVE  JobsInv'
<1> USE DEF files, runs, counters
<1>1. CASE Crash \/ Shutdown
  BY <1>1, EndsNoJobs DEF Crash, Shutdown
<1>2. CASE Terminate
  <2>1. CASE sched.step = "boot"
    BY <1>2, <2>1, EndsNoJobs DEF Terminate
  <2> QED
    BY <1>2, <2>1, OthersKeepJobs DEF Terminate
<1>3. CASE \/ Boot \/ Receive \/ RemovedAll
           \/ \E j \in sched.ids : RemoveJob(j) \/ RemoveFails(j)
  BY <1>3, OldJobsGo
<1>4. ASSUME NEW d \in Device, InstallJob(d) PROVE JobsInv'
  BY <1>4, InstallJobKnown
<1>5. ASSUME NEW d \in Device, InstallFails(d) \/ AddFails(d) PROVE JobsInv'
  <2>1. CASE sched.step = "boot"
    BY <1>5, <2>1, EndsNoJobs DEF InstallFails, AddFails, EndsInstallation
  <2> QED
    BY <1>5, <2>1, FailureLeavesPrefix
<1>6. CASE InstalledAll
  BY <1>6, InstalledAllKnown
<1>7. CASE NextSecond
  BY <1>7, OthersKeepJobs DEF NextSecond
<1>8. ASSUME NEW h \in Handler, Serve(h) \/ Abandon(h) \/ \E c \in Config : Submit(h, c)
      PROVE  JobsInv'
  BY <1>8, OthersKeepJobs DEF Serve, CopyOld, CreateDisk, WriteDisk, Send, Abandon, Submit
<1>9. CASE \/ \E k \in CronTask : FinishCron(k) \/ \E j \in jobs : Fire(j, k)
           \/ \E m \in Visitor : FinishManual(m) \/ \E d \in Device : RunNow(m, d)
  BY <1>9, OthersKeepJobs DEF FinishCron, Fire, FinishManual, RunNow
<1>10. CASE UNCHANGED vars
  BY <1>10, OthersKeepJobs DEF vars
<1> QED
  BY <1>1, <1>2, <1>3, <1>4, <1>5, <1>6, <1>7, <1>8, <1>9, <1>10 DEF Next, Schedule

\* In every phase of the loop each job is one that it knows, one that the installation
\* has just made, or one that a failed removal or a cut installation has left behind;
\* those are of earlier installations (scheduler::run, install_jobs).
THEOREM JobsAccounted == Spec => []JobsInv
<1>1. Init => JobsInv
  BY DEF Init, JobsInv, InstalledSoFar, JobsKnown, Older, Complete, PrefixScheduled, Installing
<1>2. SavesInv /\ JobsInv /\ [Next]_vars => JobsInv'
  BY JobsStep
<1> QED
  BY <1>1, <1>2, SavesAccounted, PTL DEF Spec

\* Whatever schedule is bad, and whichever job the cron scheduler refuses, the devices
\* before it in the file have their job of the live configuration (install_jobs).
THEOREM PrefixIsScheduled == Spec => []PrefixScheduled
<1>1. JobsInv => PrefixScheduled
  BY DEF JobsInv
<1> QED
  BY <1>1, JobsAccounted, PTL

\* When the loop waits, the jobs are those it knows and those that a failure has left
\* behind, and unless the last installation was cut short it knows one job for every
\* device of the live configuration, after any number of reloads, crashes and
\* failures (scheduler::run).
THEOREM JobsFollowLive == Spec => []JobsMatchLive
<1>1. JobsInv => JobsMatchLive
  BY DEF JobsInv, JobsMatchLive, InstalledSoFar, JobsKnown, Complete, Installing
<1> QED
  BY <1>1, JobsAccounted, PTL

----------------------------------------------------------------------------
(* The reservations of "Run now" *)

LEMMA OthersKeepVisits ==
  ASSUME OneManualRun, UNCHANGED <<inFlight, manual>>
  PROVE  OneManualRun'
  BY DEF OneManualRun

LEMMA EndsNoVisits ==
  ASSUME NEW step, Ends(step)
  PROVE  OneManualRun'
<1>1. inFlight' = {} /\ \A m \in Visitor : manual'[m] = Nothing
  BY DEF Ends
<1> QED
  BY <1>1 DEF OneManualRun

LEMMA VisitsStep ==
  ASSUME TypeOK, OneManualRun, [Next]_vars
  PROVE  OneManualRun'
<1> USE DEF runs
<1>1. CASE Crash \/ Shutdown
  BY <1>1, EndsNoVisits DEF Crash, Shutdown
<1>2. CASE Terminate
  <2>1. CASE sched.step = "boot"
    BY <1>2, <2>1, EndsNoVisits DEF Terminate
  <2> QED
    BY <1>2, <2>1, OthersKeepVisits DEF Terminate
<1>3. ASSUME NEW d \in Device, InstallFails(d) \/ AddFails(d) PROVE OneManualRun'
  <2>1. CASE sched.step = "boot"
    BY <1>3, <2>1, EndsNoVisits DEF InstallFails, AddFails, EndsInstallation
  <2> QED
    BY <1>3, <2>1, OthersKeepVisits DEF InstallFails, AddFails, EndsInstallation
<1>4. ASSUME NEW m \in Visitor, NEW d \in Device, RunNow(m, d) PROVE OneManualRun'
  <2>1. /\ manual[m] = Nothing /\ d \notin inFlight /\ inFlight' = inFlight \cup {d}
        /\ manual'[m] = d /\ \A n \in Visitor : n # m => manual'[n] = manual[n]
    BY <1>4 DEF RunNow, TypeOK
  <2>2. d # Nothing /\ \A n \in Visitor : manual[n] # d
    BY <2>1, ConfigAssumption DEF OneManualRun
  <2>3. {manual'[n] : n \in Visitor} \ {Nothing} = ({manual[n] : n \in Visitor} \ {Nothing}) \cup {d}
    BY <2>1, <2>2
  <2> QED
    BY <2>1, <2>2, <2>3 DEF OneManualRun
<1>5. ASSUME NEW m \in Visitor, FinishManual(m) PROVE OneManualRun'
  <2>1. /\ manual[m] # Nothing /\ inFlight' = inFlight \ {manual[m]}
        /\ manual'[m] = Nothing /\ \A n \in Visitor : n # m => manual'[n] = manual[n]
    BY <1>5 DEF FinishManual, TypeOK
  <2>2. \A n \in Visitor : n # m => manual[n] # manual[m]
    BY <2>1 DEF OneManualRun
  <2>3. {manual'[n] : n \in Visitor} \ {Nothing}
           = ({manual[n] : n \in Visitor} \ {Nothing}) \ {manual[m]}
    BY <2>1, <2>2
  <2> QED
    BY <2>1, <2>2, <2>3 DEF OneManualRun
<1>6. CASE Boot \/ Receive \/ RemovedAll \/ InstalledAll \/ NextSecond
  BY <1>6, OthersKeepVisits DEF Boot, Receive, RemovedAll, InstalledAll, NextSecond
<1>7. CASE \/ \E j \in sched.ids : RemoveJob(j) \/ RemoveFails(j)
           \/ \E d \in Device : InstallJob(d)
  BY <1>7, OthersKeepVisits DEF RemoveJob, RemoveFails, InstallJob
<1>8. ASSUME NEW h \in Handler, Serve(h) \/ Abandon(h) \/ \E c \in Config : Submit(h, c)
      PROVE  OneManualRun'
  BY <1>8, OthersKeepVisits DEF Serve, CopyOld, CreateDisk, WriteDisk, Send, Abandon, Submit
<1>9. CASE \E k \in CronTask : FinishCron(k) \/ \E j \in jobs : Fire(j, k)
  BY <1>9, OthersKeepVisits DEF FinishCron, Fire
<1>10. CASE UNCHANGED vars
  BY <1>10, OthersKeepVisits DEF vars
<1> QED
  BY <1>1, <1>2, <1>3, <1>4, <1>5, <1>6, <1>7, <1>8, <1>9, <1>10 DEF Next, Schedule

\* A device has one manual run at a time, and every reservation one run, whatever
\* visitors come, leave and crash (handle_run, InFlightGuard).
THEOREM OneRunPerReservation == Spec => []OneManualRun
<1>1. Init => OneManualRun
  BY DEF Init, OneManualRun
<1>2. TypeOK /\ OneManualRun /\ [Next]_vars => OneManualRun'
  BY VisitsStep
<1> QED
  BY <1>1, <1>2, DaemonTyped, PTL DEF Spec

----------------------------------------------------------------------------
(* The file, where one handler saves at a time, and not twice in a second *)

\* While the only whole copy is about to be truncated, or is, a backup has it.
Copied ==
    \A h \in Handler :
        /\ post[h].step = "create" => \E t \in Second : kept[t] = disk
        /\ post[h].step = "write" => disk = Torn

KeptInv == ConfigKept /\ Copied

LEMMA OthersKeepFiles ==
  ASSUME KeptInv, UNCHANGED <<disk, kept, original>>,
         \A h \in Handler : post'[h].step \in {"create", "write"} => post'[h].step = post[h].step
  PROVE  KeptInv'
  BY DEF KeptInv, ConfigKept, Copied

LEMMA KeptStep ==
  ASSUME ~SharedSecond, \A g, h \in Handler : g = h,
         SavesInv, KeptInv, [Next]_vars
  PROVE  KeptInv'
<1> USE DEF files, runs, counters
<1>0. /\ post \in [Handler -> Post] /\ original \subseteq Config /\ Torn \notin Config
      /\ kept \in [Second -> Config \cup {Torn, Nothing}] /\ second \in Second
      /\ Nothing \notin Config
  BY ConfigAssumption DEF SavesInv, TypeOK
<1>1. ASSUME NEW step, Ends(step) PROVE KeptInv'
  <2>1. \A h \in Handler : post'[h].step = "idle"
    BY <1>1 DEF Ends, NoPost
  <2> QED
    BY <1>1, <2>1, OthersKeepFiles DEF Ends
<1>2. CASE Crash \/ Shutdown
  BY <1>1, <1>2 DEF Crash, Shutdown
<1>3. CASE Terminate
  <2>1. CASE sched.step = "boot"
    BY <1>1, <1>3, <2>1 DEF Terminate
  <2> QED
    BY <1>3, <2>1, OthersKeepFiles DEF Terminate
<1>4. ASSUME NEW d \in Device, InstallFails(d) \/ AddFails(d) PROVE KeptInv'
  <2>1. CASE sched.step = "boot"
    BY <1>1, <1>4, <2>1 DEF InstallFails, AddFails, EndsInstallation
  <2> QED
    BY <1>4, <2>1, OthersKeepFiles DEF InstallFails, AddFails, EndsInstallation
<1>5. CASE Boot \/ Receive \/ RemovedAll \/ InstalledAll \/ NextSecond
  BY <1>5, OthersKeepFiles DEF Boot, Receive, RemovedAll, InstalledAll, NextSecond
<1>6. CASE \/ \E j \in sched.ids : RemoveJob(j) \/ RemoveFails(j)
           \/ \E d \in Device : InstallJob(d)
  BY <1>6, OthersKeepFiles DEF RemoveJob, RemoveFails, InstallJob
<1>7. CASE \/ \E k \in CronTask : FinishCron(k) \/ \E j \in jobs : Fire(j, k)
           \/ \E m \in Visitor : FinishManual(m) \/ \E d \in Device : RunNow(m, d)
  BY <1>7, OthersKeepFiles DEF FinishCron, Fire, FinishManual, RunNow
<1>8. ASSUME NEW h \in Handler, CopyOld(h) PROVE KeptInv'
  <2>1. /\ kept[second] = Nothing /\ UNCHANGED <<disk, original>>
        /\ post'[h].step = "create"
        /\ kept'[second] = disk
        /\ \A t \in Second : t # second => kept'[t] = kept[t]
    BY <1>0, <1>8 DEF CopyOld, Post
  <2>2. \A c \in original : disk = c \/ \E t \in Second : kept'[t] = c
    BY <1>0, <2>1 DEF KeptInv, ConfigKept
  <2>3. Copied'
    BY <1>0, <2>1 DEF Copied
  <2> QED
    BY <2>1, <2>2, <2>3 DEF KeptInv, ConfigKept
<1>9. ASSUME NEW h \in Handler, CreateDisk(h) PROVE KeptInv'
  <2>1. /\ disk' = Torn /\ post[h].step = "create" /\ post'[h].step = "write"
        /\ UNCHANGED <<kept, original>>
    BY <1>0, <1>9 DEF CreateDisk, Post
  <2>2. \E t \in Second : kept[t] = disk
    BY <2>1 DEF KeptInv, Copied
  <2>3. ConfigKept'
    BY <2>1, <2>2 DEF KeptInv, ConfigKept
  <2>4. Copied'
    BY <2>1 DEF Copied
  <2> QED
    BY <2>3, <2>4 DEF KeptInv
<1>10. ASSUME NEW h \in Handler, WriteDisk(h) PROVE KeptInv'
  <2>1. /\ post[h].step = "write" /\ post'[h].step = "send" /\ kept' = kept
        /\ original' = original \cup {post[h].cfg}
    BY <1>0, <1>10 DEF WriteDisk, Post
  <2>2. disk = Torn
    BY <2>1 DEF KeptInv, Copied
  <2>3. disk' = post[h].cfg
    BY <1>10, <2>2 DEF WriteDisk
  <2>4. ConfigKept'
    BY <1>0, <2>1, <2>2, <2>3 DEF KeptInv, ConfigKept
  <2>5. Copied'
    BY <2>1 DEF Copied
  <2> QED
    BY <2>4, <2>5 DEF KeptInv
<1>11. ASSUME NEW h \in Handler, Send(h) \/ Abandon(h) PROVE KeptInv'
  <2>1. post' = [post EXCEPT ![h] = NoPost] /\ UNCHANGED <<disk, kept, original>>
    BY <1>11 DEF Send, Abandon
  <2>2. post'[h].step = "idle" /\ \A g \in Handler : g # h => post'[g] = post[g]
    BY <1>0, <2>1 DEF NoPost
  <2> QED
    BY <2>1, <2>2, OthersKeepFiles
<1>12. ASSUME NEW h \in Handler, NEW c \in Config, Submit(h, c) PROVE KeptInv'
  <2>1. /\ UNCHANGED <<disk, kept, original>> /\ post'[h].step = "copy"
        /\ \A g \in Handler : g # h => post'[g] = post[g]
    BY <1>0, <1>12 DEF Submit
  <2> QED
    BY <2>1, OthersKeepFiles
<1>13. CASE UNCHANGED vars
  BY <1>13, OthersKeepFiles DEF vars
<1> QED
  BY <1>2, <1>3, <1>4, <1>5, <1>6, <1>7, <1>8, <1>9, <1>10, <1>11, <1>12, <1>13
     DEF Next, Schedule, Serve

\* With one save at a time, and none in the second of another, every configuration
\* that the file has held is in the file or in one of its backups, wherever the process
\* dies (handle_config_post).
THEOREM NoConfigLost ==
  ASSUME ~SharedSecond, \A g, h \in Handler : g = h
  PROVE  Spec => []ConfigKept
<1>1. Init => KeptInv
  BY DEF Init, KeptInv, ConfigKept, Copied, NoPost
<1>2. SavesInv /\ KeptInv /\ [Next]_vars => KeptInv'
  BY KeptStep
<1>3. KeptInv => ConfigKept
  BY DEF KeptInv
<1> QED
  BY <1>1, <1>2, <1>3, SavesAccounted, PTL DEF Spec
=============================================================================
