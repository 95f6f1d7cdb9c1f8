-------------------------- MODULE ContentProofs --------------------------
(* Theorems of DeviceBackup about the CONTENT of the files and objects, for  *)
(* every set of runners and pruners that never fetch twice in one second.    *)
(*                                                                           *)
(* The argument: a stem belongs to one run, which alone writes the files and *)
(* the objects of that stem; so what stands at a stem is determined by how   *)
(* far its run has come, and once the run has written the file, or is gone,  *)
(* all that can still happen to the file is that it is deleted.              *)
EXTENDS DeviceBackupProofs

----------------------------------------------------------------------------
(* The inductive invariant *)

\* No later fetch will bear the stem t.
Stamped(t) == t < now \/ (t = now /\ ~fresh)

\* Of the record r of an actor: it holds an artifact; it is still to decide
\* whether to store it; it is still to write the file; it is saving, mirroring;
\* it relies on a file to hold what it has fetched.
Holds(r) == r.cfg # Absent
Deciding(r) == r.step \in {"open", "scan"} /\ r.purpose = "dedup"
Begins(r) == Deciding(r) \/ r.step \in {"createConf", "writeConf"}
Saving(r) == Begins(r) \/ r.step \in {"createMeta", "writeMeta"}
Mirroring(r) == r.step \in {"uploadConf", "uploadMeta"}
Relies(r) == \/ r.outcome \in {"changed", "noChange"}
             \/ r.step \in {"open", "scan"} /\ r.purpose = "relist"

\* Nobody will write the file with stem t any more.
Settled(t) == Stamped(t) /\ \A b \in Actor : Begins(run[b]) => run[b].stem # t

NothingAhead ==
    \A t \in Time : ~Stamped(t) =>
        /\ conf[t] = Absent /\ meta[t] = Absent
        /\ s3conf[t] = Absent /\ s3meta[t] = Absent

StemsStamped == \A a \in Actor : Holds(run[a]) => Stamped(run[a].stem)

StemsDistinct ==
    \A a, b \in Actor :
        a # b /\ Holds(run[a]) /\ Holds(run[b]) => run[a].stem # run[b].stem

\* What stands at the stem of a run, by how far the run has come.
ConfAtStem(r) ==
    /\ Deciding(r) \/ r.step = "createConf" => conf[r.stem] = Absent
    /\ r.step = "writeConf" => conf[r.stem] \in {Torn, Absent}
    /\ r.step \in {"createMeta", "writeMeta"} \/ Mirroring(r) =>
           conf[r.stem] \in {r.cfg, Absent}

MetaAtStem(r) ==
    /\ Begins(r) \/ r.step = "createMeta" => meta[r.stem] = Absent
    /\ r.step = "writeMeta" => meta[r.stem] \in {Torn, Absent}
    /\ Mirroring(r) => meta[r.stem] \in {r.cfg, Absent}

ObjectsAtStem(r) ==
    /\ Saving(r) \/ r.step = "uploadConf" => s3conf[r.stem] = Absent
    /\ Saving(r) \/ Mirroring(r) => s3meta[r.stem] = Absent
    /\ r.step = "uploadMeta" => s3conf[r.stem] = r.cfg

Undecided(r) ==
    /\ r.step \in {"idle", "fetch"} \/ Saving(r) => r.outcome = "none"
    /\ r.step \in {"createConf", "writeConf", "createMeta", "writeMeta"} =>
           r.basis = r.stem
    /\ Mirroring(r) => r.purpose = "retain"

\* latest_hash knows the content of the newest file it has read, which stays
\* that file's content for as long as the file exists.
ScanTrue(r) ==
    r.step = "scan" /\ r.purpose = "dedup" /\ r.newest \in Version =>
        \A t \in Time : IsNewest(t, r.seen) =>
            Settled(t) /\ conf[t] \in {r.newest, Absent}

BasisTrue(r) == Relies(r) => Settled(r.basis) /\ conf[r.basis] \in {r.cfg, Absent}

RecordTrue(r) ==
    /\ ConfAtStem(r) /\ MetaAtStem(r) /\ ObjectsAtStem(r)
    /\ Undecided(r) /\ ScanTrue(r) /\ BasisTrue(r)

\* The inductive invariant behind SidecarTrue, VerdictHolds and MirrorConsistent.
ContentInv ==
    /\ RetentionInv
    /\ NothingAhead /\ StemsStamped /\ StemsDistinct
    /\ \A a \in Actor : RecordTrue(run[a])
    /\ SidecarTrue /\ MirrorConsistent

----------------------------------------------------------------------------
(* What a step of one actor does to the records and the files *)

\* Whatever a does, or happens to a alone.
Acts(a) ==
    Start(a) \/ StartPrune(a) \/ Continue(a) \/ Cancel(a) \/ UploadFails(a) \/ IoError(a)

LEMMA OthersKeepRecords ==
  ASSUME TypeOK, NEW a \in Actor, Acts(a)
  PROVE  /\ \A b \in Actor \ {a} : run'[b] = run[b]
         /\ now' = now
  <1>1. run \in [Actor -> Run]
    BY DEF TypeOK
  <1>2. \A b \in Actor \ {a} : run'[b] = run[b]
    BY <1>1 DEF Acts, Start, StartPrune, Cancel, UploadFails, IoError,
       Continue, FetchOk, FetchFails, OpenDir, ListFails, DedupHit,
       DedupMiss, Relisted, CreateConf, WriteConf, CreateMeta, WriteMeta,
       UploadConf, UploadMeta, UploadMissing, PickVictims, EndDelete, Planned,
       CreateMark, WriteMark, Report, ReadEntry, PassOver, Discover, DeleteConf,
       DeleteMeta, Moves, Becomes
  <1>3. now' = now
    BY DEF Acts, Start, StartPrune, Cancel, UploadFails, IoError,
       Continue, FetchOk, FetchFails, OpenDir, ListFails, DedupHit,
       DedupMiss, Relisted, CreateConf, WriteConf, CreateMeta, WriteMeta,
       UploadConf, UploadMeta, UploadMissing, PickVictims, EndDelete, Planned,
       CreateMark, WriteMark, Report, ReadEntry, PassOver, Discover, DeleteConf,
       DeleteMeta, Moves, envVars
  <1>4. QED
    BY <1>2, <1>3

\* Files change at the stem of the run that writes them, or disappear; objects
\* change at the stem of the run that uploads them.
WritesOwnStem(a, t) ==
    /\ \/ conf'[t] \in {conf[t], Absent}
       \/ run[a].step \in {"createConf", "writeConf"} /\ t = run[a].stem
    /\ \/ meta'[t] \in {meta[t], Absent}
       \/ run[a].step \in {"createMeta", "writeMeta"} /\ t = run[a].stem
    /\ \/ s3conf'[t] = s3conf[t]
       \/ run[a].step = "uploadConf" /\ t = run[a].stem
    /\ \/ s3meta'[t] = s3meta[t]
       \/ run[a].step = "uploadMeta" /\ t = run[a].stem

LEMMA FilesWritten ==
  ASSUME TypeOK, NEW a \in Actor, Acts(a), NEW t \in Time
  PROVE  WritesOwnStem(a, t)
  <1>1. /\ conf \in [Time -> Content] /\ meta \in [Time -> Content]
        /\ s3conf \in [Time -> Content] /\ s3meta \in [Time -> Content]
        /\ run[a].stem \in Time
    BY DEF TypeOK, Run
  <1> USE DEF WritesOwnStem, dirVars, s3Vars
  <1>2. CASE UNCHANGED <<conf, meta, s3Vars>>
    BY <1>2
  <1>3. CASE CreateConf(a) \/ WriteConf(a)
    BY <1>1, <1>3 DEF CreateConf, WriteConf
  <1>4. CASE CreateMeta(a) \/ WriteMeta(a)
    BY <1>1, <1>4 DEF CreateMeta, WriteMeta
  <1>5. CASE UploadConf(a) \/ UploadMeta(a) \/ UploadFails(a)
    BY <1>1, <1>5 DEF UploadConf, UploadMeta, UploadFails
  <1>6. CASE \E u \in Time : DeleteConf(a, u) \/ DeleteMeta(a, u)
    BY <1>1, <1>6 DEF DeleteConf, DeleteMeta
  <1>7. QED
    BY <1>2, <1>3, <1>4, <1>5, <1>6
       DEF Acts, Start, StartPrune, Cancel, IoError,
       Continue, FetchOk, FetchFails, OpenDir, ListFails, DedupHit,
       DedupMiss, Relisted, UploadMissing, PickVictims, EndDelete, Planned,
       CreateMark, WriteMark, Report, ReadEntry, PassOver, Discover, Moves


\* The record r of an actor is q, moved on to a step s.
Advances(r, q, s) ==
    /\ r.step = s
    /\ r.purpose = q.purpose /\ r.cfg = q.cfg /\ r.stem = q.stem
    /\ r.basis = q.basis /\ r.outcome = q.outcome

LEMMA StepsAdvance ==
  ASSUME TypeOK, NEW a \in Actor
  PROVE  /\ Start(a) => Advances(run'[a], run[a], "fetch")
         /\ OpenDir(a) => Advances(run'[a], run[a], "scan") /\ run'[a].newest = Absent
         /\ CreateConf(a) => Advances(run'[a], run[a], "writeConf")
         /\ WriteConf(a) => Advances(run'[a], run[a], "createMeta")
         /\ CreateMeta(a) => Advances(run'[a], run[a], "writeMeta")
         /\ UploadConf(a) => Advances(run'[a], run[a], "uploadMeta")
         /\ UploadMeta(a) => Advances(run'[a], run[a], "open")
         /\ UploadMissing(a) => Advances(run'[a], run[a], "open")
         /\ UploadFails(a) => Advances(run'[a], run[a], "open")
         /\ PickVictims(a) => Advances(run'[a], run[a], "delete")
         /\ CreateMark(a) => Advances(run'[a], run[a], "writeMark")
         /\ WriteMark(a) => Advances(run'[a], run[a], "report")
         /\ \A t \in Time : DeleteConf(a, t) => Advances(run'[a], run[a], "deleteMeta")
         /\ \A t \in Time : DeleteMeta(a, t) => Advances(run'[a], run[a], "delete")
  <1>1. run[a] \in Run /\ run \in [Actor -> Run]
    BY DEF TypeOK
  <1> USE DEF Moves, Becomes, Advances, Run
  <1>2. Start(a) => Advances(run'[a], run[a], "fetch")
    BY <1>1 DEF Start
  <1>3. OpenDir(a) => Advances(run'[a], run[a], "scan") /\ run'[a].newest = Absent
    BY <1>1 DEF OpenDir
  <1>4. CreateConf(a) => Advances(run'[a], run[a], "writeConf")
    BY <1>1 DEF CreateConf
  <1>5. WriteConf(a) => Advances(run'[a], run[a], "createMeta")
    BY <1>1 DEF WriteConf
  <1>6. CreateMeta(a) => Advances(run'[a], run[a], "writeMeta")
    BY <1>1 DEF CreateMeta
  <1>7. UploadConf(a) => Advances(run'[a], run[a], "uploadMeta")
    BY <1>1 DEF UploadConf
  <1>8. UploadMeta(a) => Advances(run'[a], run[a], "open")
    BY <1>1 DEF UploadMeta
  <1>9. UploadMissing(a) => Advances(run'[a], run[a], "open")
    BY <1>1 DEF UploadMissing
  <1>10. UploadFails(a) => Advances(run'[a], run[a], "open")
    BY <1>1 DEF UploadFails
  <1>11. PickVictims(a) => Advances(run'[a], run[a], "delete")
    BY <1>1 DEF PickVictims
  <1>12. CreateMark(a) => Advances(run'[a], run[a], "writeMark")
    BY <1>1 DEF CreateMark
  <1>13. WriteMark(a) => Advances(run'[a], run[a], "report")
    BY <1>1 DEF WriteMark
  <1>14. \A t \in Time : DeleteConf(a, t) => Advances(run'[a], run[a], "deleteMeta")
    BY <1>1 DEF DeleteConf
  <1>15. \A t \in Time : DeleteMeta(a, t) => Advances(run'[a], run[a], "delete")
    BY <1>1 DEF DeleteMeta
  <1>16. QED
    BY <1>2, <1>3, <1>4, <1>5, <1>6, <1>7, <1>8, <1>9, <1>10, <1>11, <1>12,
       <1>13, <1>14, <1>15

\* Reading an entry, which may be the newest yet, and the two ways in which the
\* directory changes under the reader.
LEMMA ScanAdvances ==
  ASSUME TypeOK, NEW a \in Actor, NEW t \in Time,
         ReadEntry(a, t) \/ PassOver(a, t) \/ Discover(a, t)
  PROVE  /\ run[a].step = "scan" /\ Advances(run'[a], run[a], "scan")
         /\ \/ run'[a].seen = run[a].seen /\ run'[a].newest = run[a].newest
            \/ /\ run[a].purpose # "dedup"
               /\ run'[a].seen = run[a].seen \cup {t}
            \/ /\ ReadEntry(a, t) /\ Newer(run[a].seen, t) = {}
               /\ run'[a].seen = run[a].seen \cup {t}
               /\ run'[a].newest = EntryHash(t)
            \/ /\ ReadEntry(a, t) /\ Newer(run[a].seen, t) # {}
               /\ run'[a].seen = run[a].seen \cup {t}
               /\ run'[a].newest = run[a].newest
  <1>1. run[a] \in Run /\ run \in [Actor -> Run]
    BY DEF TypeOK
  <1>2. CASE ReadEntry(a, t)
    <2> DEFINE n == IF run[a].purpose = "dedup" /\ Newer(run[a].seen, t) = {}
                    THEN EntryHash(t) ELSE run[a].newest
    <2>1. /\ run' = [run EXCEPT ![a] = [run[a] EXCEPT
                       !.todo = @ \ {t}, !.seen = @ \cup {t}, !.newest = n]]
          /\ run[a].step = "scan"
      BY <1>2 DEF ReadEntry, Moves, Becomes
    <2> HIDE DEF n
    <2>2. /\ Advances(run'[a], run[a], "scan")
          /\ run'[a].seen = run[a].seen \cup {t}
          /\ run'[a].newest = n
      BY <1>1, <2>1 DEF Advances, Run
    <2>3. QED
      BY <1>2, <2>1, <2>2 DEF n
  <1>3. CASE PassOver(a, t)
    BY <1>1, <1>3 DEF PassOver, Moves, Becomes, Advances, Run
  <1>4. CASE Discover(a, t)
    BY <1>1, <1>4 DEF Discover, Moves, Becomes, Advances, Run
  <1>5. QED
    BY <1>2, <1>3, <1>4

\* A step that ends something: the run, with or without a report, or its
\* retention.
LEMMA EndsAdvance ==
  ASSUME TypeOK, NEW a \in Actor,
         \/ FetchFails(a) \/ ListFails(a) \/ EndDelete(a) \/ Report(a)
         \/ Cancel(a) \/ IoError(a)
  PROVE  \/ run'[a] \in {Idle, Failed}
         \/ Advances(run'[a], run[a], "mark")
         \/ Advances(run'[a], run[a], "report")
  <1>1. run[a] \in Run /\ run \in [Actor -> Run]
    BY DEF TypeOK
  <1>2. \/ AfterRetention(a) = Idle
        \/ Advances(AfterRetention(a), run[a], "mark")
    BY <1>1 DEF AfterRetention, Advances, Run
  <1>3. Advances([run[a] EXCEPT !.step = "report", !.at = 0], run[a], "report")
    BY <1>1 DEF Advances, Run
  <1>4. \/ run'[a] \in {Idle, Failed, AfterRetention(a)}
        \/ run'[a] = [run[a] EXCEPT !.step = "report", !.at = 0]
    BY <1>1 DEF FetchFails, ListFails, EndDelete, Report, Cancel, IoError,
       Moves, Becomes
  <1>5. QED
    BY <1>2, <1>3, <1>4


LEMMA OtherSteps ==
  ASSUME TypeOK, NEW a \in Actor
  PROVE  /\ FetchOk(a) =>
              /\ run'[a].step = "open" /\ run'[a].purpose = "dedup"
              /\ run'[a].cfg = device /\ run'[a].stem = now
              /\ run'[a].outcome = run[a].outcome
         /\ DedupHit(a) => \E t \in Time :
              /\ IsNewest(t, run[a].seen)
              /\ run'[a].step = "open" /\ run'[a].purpose = "relist"
              /\ run'[a].cfg = run[a].cfg /\ run'[a].stem = run[a].stem
              /\ run'[a].outcome = run[a].outcome /\ run'[a].basis = t
         /\ DedupMiss(a) =>
              /\ run'[a].step = "createConf"
              /\ run'[a].cfg = run[a].cfg /\ run'[a].stem = run[a].stem
              /\ run'[a].outcome = run[a].outcome /\ run'[a].basis = run[a].stem
         /\ Relisted(a) =>
              /\ run'[a].step = "open" /\ run'[a].purpose = "retain"
              /\ run'[a].cfg = run[a].cfg /\ run'[a].stem = run[a].stem
              /\ run'[a].basis = run[a].basis /\ run'[a].outcome = "noChange"
         /\ WriteMeta(a) =>
              /\ run'[a].step \in {"uploadConf", "open"} /\ run'[a].purpose = "retain"
              /\ run'[a].cfg = run[a].cfg /\ run'[a].stem = run[a].stem
              /\ run'[a].basis = run[a].basis /\ run'[a].outcome = "changed"
         /\ StartPrune(a) =>
              /\ run'[a].step = "open" /\ run'[a].purpose = "plan"
              /\ run'[a].cfg = run[a].cfg /\ run'[a].stem = run[a].stem
              /\ run'[a].outcome = run[a].outcome
         /\ Planned(a) =>
              \/ run'[a] = Idle
              \/ /\ run'[a].step = "open" /\ run'[a].purpose = "retain"
                 /\ run'[a].cfg = Absent /\ run'[a].outcome = "none"
  <1>1. run[a] \in Run /\ run \in [Actor -> Run] /\ Idle \in Run
    BY IdleTyped DEF TypeOK
  <1> USE DEF Moves, Becomes, Run
  <1>2. FetchOk(a) =>
          /\ run'[a].step = "open" /\ run'[a].purpose = "dedup"
          /\ run'[a].cfg = device /\ run'[a].stem = now
          /\ run'[a].outcome = run[a].outcome
    BY <1>1 DEF FetchOk
  <1>3. ASSUME DedupHit(a)
        PROVE  \E t \in Time :
                 /\ IsNewest(t, run[a].seen)
                 /\ run'[a].step = "open" /\ run'[a].purpose = "relist"
                 /\ run'[a].cfg = run[a].cfg /\ run'[a].stem = run[a].stem
                 /\ run'[a].outcome = run[a].outcome /\ run'[a].basis = t
    <2>1. PICK t \in Time :
             /\ IsNewest(t, run[a].seen)
             /\ run' = [run EXCEPT ![a] =
                          [run[a] EXCEPT !.step = "open", !.purpose = "relist",
                                         !.basis = t, !.seen = {}, !.newest = Absent]]
      BY <1>3 DEF DedupHit
    <2>2. /\ run'[a].step = "open" /\ run'[a].purpose = "relist"
          /\ run'[a].cfg = run[a].cfg /\ run'[a].stem = run[a].stem
          /\ run'[a].outcome = run[a].outcome /\ run'[a].basis = t
      BY <1>1, <2>1
    <2>3. QED
      BY <2>1, <2>2
  <1>4. DedupMiss(a) =>
          /\ run'[a].step = "createConf"
          /\ run'[a].cfg = run[a].cfg /\ run'[a].stem = run[a].stem
          /\ run'[a].outcome = run[a].outcome /\ run'[a].basis = run[a].stem
    BY <1>1 DEF DedupMiss
  <1>5. Relisted(a) =>
          /\ run'[a].step = "open" /\ run'[a].purpose = "retain"
          /\ run'[a].cfg = run[a].cfg /\ run'[a].stem = run[a].stem
          /\ run'[a].basis = run[a].basis /\ run'[a].outcome = "noChange"
    BY <1>1 DEF Relisted
  <1>6. WriteMeta(a) =>
          /\ run'[a].step \in {"uploadConf", "open"} /\ run'[a].purpose = "retain"
          /\ run'[a].cfg = run[a].cfg /\ run'[a].stem = run[a].stem
          /\ run'[a].basis = run[a].basis /\ run'[a].outcome = "changed"
    BY <1>1 DEF WriteMeta
  <1>7. StartPrune(a) =>
          /\ run'[a].step = "open" /\ run'[a].purpose = "plan"
          /\ run'[a].cfg = run[a].cfg /\ run'[a].stem = run[a].stem
          /\ run'[a].outcome = run[a].outcome
    BY <1>1 DEF StartPrune
  <1>8. ASSUME Planned(a)
        PROVE  \/ run'[a] = Idle
               \/ /\ run'[a].step = "open" /\ run'[a].purpose = "retain"
                  /\ run'[a].cfg = Absent /\ run'[a].outcome = "none"
    <2>1. run'[a] \in {Idle, [Idle EXCEPT !.step = "open", !.purpose = "retain"]}
      BY <1>1, <1>8 DEF Planned
    <2>2. Idle.cfg = Absent /\ Idle.outcome = "none"
      BY DEF Idle
    <2>3. QED
      BY <1>1, <2>1, <2>2
  <1>9. QED
    BY <1>2, <1>3, <1>4, <1>5, <1>6, <1>7, <1>8

\* Stamped seconds stay stamped, if each is given to one fetch only.
LEMMA StampedStays ==
  ASSUME TypeOK, ~SharedSecond, [Next]_vars, NEW t \in Time, Stamped(t)
  PROVE  Stamped(t)'
  <1>1. now \in Nat /\ t \in Nat
    BY BoundAssumption DEF TypeOK, Time
  <1>2. ASSUME NEW a \in Actor, Start(a) \/ StartPrune(a) \/ Cancel(a) \/ UploadFails(a)
                                \/ IoError(a)
        PROVE  now' = now /\ fresh' = fresh
    BY <1>2 DEF Start, StartPrune, Cancel, UploadFails, IoError, Moves, envVars
  <1>3. ASSUME NEW a \in Actor, Continue(a)
        PROVE  now' = now /\ (fresh' = fresh \/ ~fresh')
    <2>1. FetchOk(a) => now' = now /\ ~fresh'
      BY DEF FetchOk
    <2>2. ASSUME FetchFails(a) \/ OpenDir(a) \/ ListFails(a) \/ DedupHit(a) \/ DedupMiss(a)
                 \/ Relisted(a) \/ CreateConf(a) \/ WriteConf(a) \/ CreateMeta(a)
                 \/ WriteMeta(a)
          PROVE  now' = now /\ fresh' = fresh
      BY <2>2 DEF FetchFails, OpenDir, ListFails, DedupHit, DedupMiss, Relisted, Moves,
         CreateConf, WriteConf, CreateMeta, WriteMeta, envVars
    <2>3. ASSUME UploadConf(a) \/ UploadMeta(a) \/ UploadMissing(a) \/ PickVictims(a)
                 \/ EndDelete(a) \/ Planned(a) \/ CreateMark(a) \/ WriteMark(a) \/ Report(a)
          PROVE  now' = now /\ fresh' = fresh
      BY <2>3 DEF UploadConf, UploadMeta, UploadMissing, PickVictims, EndDelete, Planned,
         CreateMark, WriteMark, Report, Moves, envVars
    <2>4. ASSUME NEW u \in Time, ReadEntry(a, u) \/ PassOver(a, u) \/ Discover(a, u)
                                 \/ DeleteConf(a, u) \/ DeleteMeta(a, u)
          PROVE  now' = now /\ fresh' = fresh
      BY <2>4 DEF ReadEntry, PassOver, Discover, DeleteConf, DeleteMeta, Moves, envVars
    <2>5. QED
      BY <1>3, <2>1, <2>2, <2>3, <2>4 DEF Continue
  <1>4. Tick => now' = now + 1
    BY DEF Tick
  <1>5. ASSUME (\E v \in Version : Reconfigure(v)) \/ (\E p \in Process : Crash(p))
               \/ UNCHANGED vars
        PROVE  now' = now /\ fresh' = fresh
    BY <1>5 DEF Reconfigure, Crash, envVars, vars
  <1>6. \/ now' = now + 1
        \/ now' = now /\ (fresh' = fresh \/ ~fresh')
    BY <1>2, <1>3, <1>4, <1>5 DEF Next, Fault
  <1>7. QED
    BY <1>1, <1>6 DEF Stamped

LEMMA ActsNext ==
  ASSUME NEW a \in Actor, Acts(a)
  PROVE  Next
  BY DEF Acts, Next, Fault

\* A run gets its artifact, and with it its stem, from a fetch only; and only
\* from there does it set out to write a file.
LEMMA ArtifactKept ==
  ASSUME TypeOK, NEW a \in Actor, Undecided(run[a]), Acts(a), ~FetchOk(a)
  PROVE  /\ Holds(run'[a]) =>
              run'[a].cfg = run[a].cfg /\ run'[a].stem = run[a].stem
         /\ Begins(run'[a]) => Begins(run[a]) /\ run'[a].stem = run[a].stem
  <1>1. ~Holds(Idle) /\ ~Holds(Failed) /\ ~Begins(Idle) /\ ~Begins(Failed)
    BY DEF Idle, Failed, Holds, Begins, Deciding
  <1>2. CASE \/ FetchFails(a) \/ ListFails(a) \/ EndDelete(a) \/ Report(a)
             \/ Cancel(a) \/ IoError(a)
    BY <1>1, <1>2, EndsAdvance DEF Advances, Begins, Deciding
  <1>3. CASE \E t \in Time : ReadEntry(a, t) \/ PassOver(a, t) \/ Discover(a, t)
    BY <1>3, ScanAdvances DEF Advances, Begins, Deciding
  <1> USE DEF Holds, Begins, Deciding, Advances
  <1>4. CASE \/ DedupHit(a) \/ DedupMiss(a) \/ Relisted(a) \/ WriteMeta(a)
             \/ StartPrune(a) \/ Planned(a)
    BY <1>1, <1>4, OtherSteps DEF DedupMiss, Listed
  <1>5. CASE \/ Start(a) \/ OpenDir(a) \/ CreateConf(a) \/ WriteConf(a) \/ CreateMeta(a)
             \/ PickVictims(a) \/ CreateMark(a) \/ WriteMark(a)
             \/ \E t \in Time : DeleteConf(a, t) \/ DeleteMeta(a, t)
    BY <1>5, StepsAdvance DEF OpenDir, CreateConf
  <1>6. CASE UploadConf(a) \/ UploadMeta(a) \/ UploadMissing(a) \/ UploadFails(a)
    BY <1>6, StepsAdvance
       DEF Undecided, Mirroring, UploadConf, UploadMeta, UploadMissing, UploadFails
  <1> HIDE DEF Holds, Begins, Deciding, Advances
  <1>7. QED
    BY <1>2, <1>3, <1>4, <1>5, <1>6 DEF Acts, Continue

----------------------------------------------------------------------------
(* What a step of one actor leaves true of the others *)

LEMMA InvFacts ==
  ASSUME ContentInv, NEW a \in Actor
  PROVE  /\ TypeOK /\ run[a] \in Run /\ RecordTrue(run[a])
         /\ Saving(run[a]) \/ Mirroring(run[a]) =>
              run[a].cfg \in Version /\ Holds(run[a])
         /\ Holds(run[a]) => Stamped(run[a].stem)
  <1>1. Saving(run[a]) \/ Mirroring(run[a]) => run[a].cfg \in Version
    BY DEF ContentInv, RetentionInv, ArtifactKnown, Saving, Begins, Deciding, Mirroring
  <1>2. QED
    BY <1>1, FileAssumption DEF ContentInv, RetentionInv, TypeOK, Holds, StemsStamped

\* A fetch is given a stem that nobody has.
LEMMA FetchedStemNew ==
  ASSUME ContentInv, NEW a \in Actor, FetchOk(a)
  PROVE  ~Stamped(now) /\ now \in Time
  BY BoundAssumption DEF ContentInv, RetentionInv, TypeOK, FetchOk, Stamped, Time

\* A file that nobody is still to write stays so, and as it is until it goes.
LEMMA SettledStays ==
  ASSUME ContentInv, ~SharedSecond, NEW a \in Actor, Acts(a),
         NEW t \in Time, Settled(t)
  PROVE  Settled(t)' /\ conf'[t] \in {conf[t], Absent}
  <1>1. TypeOK /\ Undecided(run[a])
    BY InvFacts DEF RecordTrue
  <1>2. Stamped(t)'
    BY <1>1, ActsNext, StampedStays DEF Settled
  <1>3. ASSUME NEW b \in Actor, Begins(run'[b])
        PROVE  run'[b].stem # t
    <2>1. CASE b # a
      BY <1>1, <1>3, <2>1, OthersKeepRecords DEF Settled
    <2>2. CASE b = a /\ FetchOk(a)
      BY <1>1, <2>2, OtherSteps, FetchedStemNew DEF Settled
    <2>3. CASE b = a /\ ~FetchOk(a)
      BY <1>1, <1>3, <2>3, ArtifactKept DEF Settled
    <2>4. QED
      BY <2>1, <2>2, <2>3
  <1>4. conf'[t] \in {conf[t], Absent}
    BY <1>1, FilesWritten DEF WritesOwnStem, Settled, Begins
  <1>5. QED
    BY <1>2, <1>3, <1>4 DEF Settled

\* Nobody but its own run touches what stands at a stem, except to delete it.
LEMMA ForeignStem ==
  ASSUME ContentInv, NEW a \in Actor, NEW b \in Actor, a # b, Acts(a),
         Saving(run[b]) \/ Mirroring(run[b])
  PROVE  /\ run[b].stem \in Time
         /\ conf'[run[b].stem] \in {conf[run[b].stem], Absent}
         /\ meta'[run[b].stem] \in {meta[run[b].stem], Absent}
         /\ s3conf'[run[b].stem] = s3conf[run[b].stem]
         /\ s3meta'[run[b].stem] = s3meta[run[b].stem]
  <1>1. TypeOK /\ Holds(run[b]) /\ run[b].stem \in Time
    BY InvFacts DEF Run
  <1>2. Saving(run[a]) \/ Mirroring(run[a]) => run[a].stem # run[b].stem
    BY <1>1, InvFacts DEF ContentInv, StemsDistinct
  <1>3. WritesOwnStem(a, run[b].stem)
    BY <1>1, FilesWritten
  <1>4. QED
    BY <1>1, <1>2, <1>3 DEF WritesOwnStem, Saving, Begins, Mirroring

\* What is true of the record of b stays true while another actor moves.
LEMMA OthersTrue ==
  ASSUME ContentInv, ~SharedSecond, NEW a \in Actor, NEW b \in Actor, a # b, Acts(a)
  PROVE  RecordTrue(run[b])'
  <1>1. /\ TypeOK /\ RecordTrue(run[b]) /\ run[b] \in Run
        /\ run'[b] = run[b]
    BY InvFacts, OthersKeepRecords
  <1>2. ASSUME Saving(run[b]) \/ Mirroring(run[b])
        PROVE  /\ conf'[run[b].stem] \in {conf[run[b].stem], Absent}
               /\ meta'[run[b].stem] \in {meta[run[b].stem], Absent}
               /\ s3conf'[run[b].stem] = s3conf[run[b].stem]
               /\ s3meta'[run[b].stem] = s3meta[run[b].stem]
    BY <1>2, ForeignStem
  <1>3. ConfAtStem(run[b])'
    BY <1>1, <1>2 DEF RecordTrue, ConfAtStem, Saving, Begins
  <1>4. MetaAtStem(run[b])'
    BY <1>1, <1>2 DEF RecordTrue, MetaAtStem, Saving
  <1>5. ObjectsAtStem(run[b])'
    BY <1>1, <1>2 DEF RecordTrue, ObjectsAtStem, Mirroring
  <1>6. Undecided(run[b])'
    BY <1>1 DEF RecordTrue, Undecided
  <1>7. ScanTrue(run[b])'
    BY <1>1, SettledStays DEF RecordTrue, ScanTrue
  <1>8. BasisTrue(run[b])'
    BY <1>1, SettledStays DEF RecordTrue, BasisTrue, Run
  <1>9. QED
    BY <1>3, <1>4, <1>5, <1>6, <1>7, <1>8 DEF RecordTrue

----------------------------------------------------------------------------
(* What a step of one actor leaves true of itself *)

LEMMA IdleTrue ==
  ASSUME NEW a \in Actor, run'[a] \in {Idle, Failed}
  PROVE  RecordTrue(run[a])'
  <1>1. /\ Idle.step = "idle" /\ Idle.outcome = "none"
        /\ Failed.step = "report" /\ Failed.outcome = "failed"
    BY DEF Idle, Failed
  <1>2. QED
    BY <1>1 DEF RecordTrue, ConfAtStem, MetaAtStem, ObjectsAtStem, Undecided, ScanTrue,
       BasisTrue, Relies, Saving, Begins, Deciding, Mirroring

\* Once it neither saves nor mirrors, all that is said of a run is its verdict.
LEMMA LaterTrue ==
  ASSUME ContentInv, ~SharedSecond, NEW a \in Actor, Acts(a),
         run'[a].cfg = run[a].cfg, run'[a].basis = run[a].basis,
         Relies(run'[a]) => Relies(run[a]),
         ~Saving(run'[a]), ~Mirroring(run'[a]),
         run'[a].step \notin {"idle", "fetch"}
  PROVE  RecordTrue(run[a])'
  <1>1. RecordTrue(run[a]) /\ run[a].basis \in Time
    BY InvFacts DEF Run
  <1>2. BasisTrue(run[a])'
    BY <1>1, SettledStays DEF RecordTrue, BasisTrue, Relies
  <1>3. QED
    BY <1>2 DEF RecordTrue, ConfAtStem, MetaAtStem, ObjectsAtStem, Undecided, ScanTrue,
       Saving, Begins, Deciding, Mirroring

LEMMA EndsTrue ==
  ASSUME ContentInv, ~SharedSecond, NEW a \in Actor, Acts(a),
         \/ FetchFails(a) \/ ListFails(a) \/ EndDelete(a) \/ Report(a)
         \/ Cancel(a) \/ IoError(a)
         \/ PickVictims(a) \/ CreateMark(a) \/ WriteMark(a)
         \/ \E t \in Time : DeleteConf(a, t) \/ DeleteMeta(a, t)
  PROVE  RecordTrue(run[a])'
  <1>1. TypeOK
    BY InvFacts
  <1>2. \/ run'[a] \in {Idle, Failed}
        \/ \E s \in {"mark", "report", "delete", "deleteMeta", "writeMark"} :
              Advances(run'[a], run[a], s)
    BY <1>1, EndsAdvance, StepsAdvance
  <1>3. CASE run'[a] \in {Idle, Failed}
    BY <1>3, IdleTrue
  <1>4. CASE \E s \in {"mark", "report", "delete", "deleteMeta", "writeMark"} :
                Advances(run'[a], run[a], s)
    <2>1. /\ run'[a].cfg = run[a].cfg /\ run'[a].basis = run[a].basis
          /\ run'[a].outcome = run[a].outcome
          /\ run'[a].step \in {"mark", "report", "delete", "deleteMeta", "writeMark"}
      BY <1>4 DEF Advances
    <2>2. /\ Relies(run'[a]) => Relies(run[a])
          /\ ~Saving(run'[a]) /\ ~Mirroring(run'[a])
          /\ run'[a].step \notin {"idle", "fetch"}
      BY <2>1 DEF Relies, Saving, Begins, Deciding, Mirroring
    <2>3. QED
      BY <2>1, <2>2, LaterTrue
  <1>5. QED
    BY <1>2, <1>3, <1>4

LEMMA StartTrue ==
  ASSUME ContentInv, NEW a \in Actor, Start(a) \/ StartPrune(a) \/ Planned(a)
  PROVE  RecordTrue(run[a])'
  <1>1. TypeOK /\ Undecided(run[a])
    BY InvFacts DEF RecordTrue
  <1>2. CASE run'[a] = Idle
    BY <1>2, IdleTrue
  <1>3. CASE Start(a)
    <2>1. run'[a].step = "fetch" /\ run'[a].outcome = "none"
      BY <1>1, <1>3, StepsAdvance DEF Advances, Start, Undecided
    <2>2. QED
      BY <2>1 DEF RecordTrue, ConfAtStem, MetaAtStem, ObjectsAtStem, Undecided, ScanTrue,
         BasisTrue, Relies, Saving, Begins, Deciding, Mirroring
  <1>4. CASE ~Start(a) /\ run'[a] # Idle
    <2>1. /\ run'[a].step = "open" /\ run'[a].purpose \in {"plan", "retain"}
          /\ run'[a].outcome = "none"
      BY <1>1, <1>4, OtherSteps DEF StartPrune, Undecided
    <2>2. QED
      BY <2>1 DEF RecordTrue, ConfAtStem, MetaAtStem, ObjectsAtStem, Undecided, ScanTrue,
         BasisTrue, Relies, Saving, Begins, Deciding, Mirroring
  <1>5. QED
    BY <1>2, <1>3, <1>4

\* Nothing stands yet where the fetched artifact is to be stored.
LEMMA FetchTrue ==
  ASSUME ContentInv, NEW a \in Actor, FetchOk(a)
  PROVE  RecordTrue(run[a])'
  <1>1. TypeOK /\ Undecided(run[a])
    BY InvFacts DEF RecordTrue
  <1>2. /\ run'[a].step = "open" /\ run'[a].purpose = "dedup"
        /\ run'[a].stem = now /\ run'[a].outcome = "none"
    BY <1>1, OtherSteps DEF FetchOk, Undecided
  <1>3. /\ conf'[now] = Absent /\ meta'[now] = Absent
        /\ s3conf'[now] = Absent /\ s3meta'[now] = Absent
    <2>1. /\ conf[now] = Absent /\ meta[now] = Absent
          /\ s3conf[now] = Absent /\ s3meta[now] = Absent
      BY FetchedStemNew DEF ContentInv, NothingAhead
    <2>2. QED
      BY <2>1 DEF FetchOk, dirVars, s3Vars
  <1>4. QED
    BY <1>2, <1>3 DEF RecordTrue, ConfAtStem, MetaAtStem, ObjectsAtStem, Undecided, ScanTrue,
       BasisTrue, Relies, Saving, Begins, Deciding, Mirroring

----------------------------------------------------------------------------
(* The listing that decides whether to store *)

\* An entry that is listed with the hash of a configuration has it, and nobody
\* is still to write it: its sidecar is true, or it was written in full.
LEMMA EntryTrue ==
  ASSUME ContentInv, NEW t \in Time, ~Unreadable(t), EntryHash(t) \in Version
  PROVE  Settled(t) /\ conf[t] = EntryHash(t)
  <1>1. conf[t] # Absent
    BY DEF Unreadable
  <1>2. Stamped(t)
    BY <1>1 DEF ContentInv, NothingAhead
  <1>3. conf[t] = EntryHash(t)
    BY <1>1, FileAssumption DEF ContentInv, SidecarTrue, EntryHash
  <1>4. ASSUME NEW b \in Actor, Begins(run[b])
        PROVE  run[b].stem # t
    <2>1. ConfAtStem(run[b]) /\ MetaAtStem(run[b])
      BY DEF ContentInv, RecordTrue
    <2>2. meta[run[b].stem] = Absent /\ conf[run[b].stem] \in {Torn, Absent}
      BY <1>4, <2>1 DEF ConfAtStem, MetaAtStem, Begins
    <2>3. QED
      BY <1>1, <1>3, <2>2, FileAssumption
  <1>5. QED
    BY <1>2, <1>3, <1>4 DEF Settled

\* Where the newest entry is, once t has been read.
LEMMA NewestAfter ==
  ASSUME NEW S \in SUBSET Time, NEW t \in Time, NEW u \in Time,
         IsNewest(u, S \cup {t})
  PROVE  /\ Newer(S, t) = {} => u = t
         /\ Newer(S, t) # {} => IsNewest(u, S)
  <1>1. /\ u \in S \cup {t} /\ \A v \in S \cup {t} : ~(v > u)
        /\ u \in Nat /\ t \in Nat
    BY BoundAssumption DEF IsNewest, Newer, Time
  <1>2. ASSUME Newer(S, t) = {} PROVE u = t
    BY <1>1, <1>2 DEF Newer
  <1>3. ASSUME Newer(S, t) # {} PROVE IsNewest(u, S)
    <2>1. PICK v \in S : v > t
      BY <1>3 DEF Newer
    <2>2. u \in S
      BY <1>1, <2>1
    <2>3. QED
      BY <1>1, <2>2 DEF IsNewest, Newer
  <1>4. QED
    BY <1>2, <1>3

LEMMA ScanStaysTrue ==
  ASSUME ContentInv, ~SharedSecond, NEW a \in Actor, Acts(a),
         NEW t \in Time, ReadEntry(a, t) \/ PassOver(a, t) \/ Discover(a, t)
  PROVE  ScanTrue(run[a])'
  <1>1. /\ TypeOK /\ ScanTrue(run[a]) /\ run[a].seen \in SUBSET Time
        /\ run[a].step = "scan" /\ run'[a].purpose = run[a].purpose
        /\ conf' = conf
    BY InvFacts, ScanAdvances
       DEF RecordTrue, Run, Advances, ReadEntry, PassOver, Discover, Moves, dirVars
  <1>2. SUFFICES ASSUME run[a].purpose = "dedup", run'[a].newest \in Version,
                        NEW u \in Time, IsNewest(u, run'[a].seen)
                 PROVE  Settled(u) /\ conf[u] \in {run'[a].newest, Absent}
    BY <1>1, SettledStays DEF ScanTrue, IsNewest, Newer
  <1>3. CASE run'[a].seen = run[a].seen /\ run'[a].newest = run[a].newest
    BY <1>1, <1>2, <1>3 DEF ScanTrue
  <1>4. CASE /\ ReadEntry(a, t) /\ Newer(run[a].seen, t) = {}
             /\ run'[a].seen = run[a].seen \cup {t}
             /\ run'[a].newest = EntryHash(t)
    <2>1. u = t
      BY <1>1, <1>2, <1>4, NewestAfter
    <2>2. Settled(t) /\ conf[t] = EntryHash(t)
      BY <1>2, <1>4, EntryTrue DEF ReadEntry
    <2>3. QED
      BY <1>4, <2>1, <2>2
  <1>5. CASE /\ Newer(run[a].seen, t) # {}
             /\ run'[a].seen = run[a].seen \cup {t}
             /\ run'[a].newest = run[a].newest
    <2>1. IsNewest(u, run[a].seen)
      BY <1>1, <1>2, <1>5, NewestAfter
    <2>2. QED
      BY <1>1, <1>2, <1>5, <2>1 DEF ScanTrue
  <1>6. QED
    BY <1>1, <1>2, <1>3, <1>4, <1>5, ScanAdvances

LEMMA ListingTrue ==
  ASSUME ContentInv, ~SharedSecond, NEW a \in Actor, Acts(a),
         \/ OpenDir(a)
         \/ \E t \in Time : ReadEntry(a, t) \/ PassOver(a, t) \/ Discover(a, t)
  PROVE  RecordTrue(run[a])'
  <1>1. /\ TypeOK /\ RecordTrue(run[a]) /\ run[a].step \in {"open", "scan"}
        /\ run[a].basis \in Time
    BY InvFacts DEF OpenDir, ReadEntry, PassOver, Discover, Run
  <1>2. /\ Advances(run'[a], run[a], "scan")
        /\ UNCHANGED <<conf, meta, s3conf, s3meta>>
    BY <1>1, StepsAdvance, ScanAdvances
       DEF OpenDir, ReadEntry, PassOver, Discover, Moves, dirVars, s3Vars
  <1>3. ScanTrue(run[a])'
    <2>1. CASE OpenDir(a)
      BY <1>1, <2>1, StepsAdvance, FileAssumption DEF ScanTrue
    <2>2. CASE \E t \in Time : ReadEntry(a, t) \/ PassOver(a, t) \/ Discover(a, t)
      BY <2>2, ScanStaysTrue
    <2>3. QED
      BY <2>1, <2>2
  <1>4. BasisTrue(run[a])'
    BY <1>1, <1>2, SettledStays DEF RecordTrue, BasisTrue, Relies, Advances
  <1>5. ConfAtStem(run[a])' /\ MetaAtStem(run[a])'
    BY <1>1, <1>2 DEF RecordTrue, ConfAtStem, MetaAtStem, Advances,
       Saving, Begins, Deciding, Mirroring
  <1>6. ObjectsAtStem(run[a])' /\ Undecided(run[a])'
    BY <1>1, <1>2 DEF RecordTrue, ObjectsAtStem, Undecided, Advances,
       Saving, Begins, Deciding, Mirroring
  <1>7. QED
    BY <1>3, <1>4, <1>5, <1>6 DEF RecordTrue

\* An unchanged save relies on the newest file it has read.
LEMMA DedupTrue ==
  ASSUME ContentInv, ~SharedSecond, NEW a \in Actor, Acts(a), DedupHit(a) \/ DedupMiss(a)
  PROVE  RecordTrue(run[a])'
  <1>1. /\ TypeOK /\ RecordTrue(run[a])
        /\ Deciding(run[a]) /\ run[a].step = "scan" /\ run[a].cfg \in Version
        /\ UNCHANGED <<conf, meta, s3conf, s3meta>>
    BY InvFacts DEF DedupHit, DedupMiss, Listed, Moves, dirVars, s3Vars,
       Deciding, Saving, Begins
  <1>2. run[a].outcome = "none" /\ run'[a].outcome = "none"
    BY <1>1, OtherSteps DEF RecordTrue, Undecided, Saving, Begins
  <1>3. CASE DedupHit(a)
    <2>1. PICK t \in Time :
             /\ IsNewest(t, run[a].seen)
             /\ run'[a].step = "open" /\ run'[a].purpose = "relist"
             /\ run'[a].cfg = run[a].cfg /\ run'[a].basis = t
      BY <1>1, <1>3, OtherSteps
    <2>2. Settled(t) /\ conf[t] \in {run[a].cfg, Absent}
      BY <1>1, <1>3, <2>1 DEF DedupHit, Unchanged, RecordTrue, ScanTrue, Deciding
    <2>3. Settled(t)' /\ conf'[t] \in {run'[a].cfg, Absent}
      BY <2>1, <2>2, SettledStays
    <2>4. BasisTrue(run[a])'
      BY <2>1, <2>3 DEF BasisTrue
    <2>5. QED
      BY <1>2, <2>1, <2>4 DEF RecordTrue, ConfAtStem, MetaAtStem, ObjectsAtStem,
         Undecided, ScanTrue, Saving, Begins, Deciding, Mirroring
  <1>4. CASE DedupMiss(a)
    <2>1. /\ run'[a].step = "createConf"
          /\ run'[a].stem = run[a].stem /\ run'[a].basis = run[a].stem
      BY <1>1, <1>4, OtherSteps
    <2>2. /\ conf[run[a].stem] = Absent /\ meta[run[a].stem] = Absent
          /\ s3conf[run[a].stem] = Absent /\ s3meta[run[a].stem] = Absent
      BY <1>1 DEF RecordTrue, ConfAtStem, MetaAtStem, ObjectsAtStem, Saving, Begins
    <2>3. QED
      BY <1>1, <1>2, <2>1, <2>2 DEF RecordTrue, ConfAtStem, MetaAtStem, ObjectsAtStem,
         Undecided, ScanTrue, BasisTrue, Relies, Saving, Begins, Deciding, Mirroring
  <1>5. QED
    BY <1>3, <1>4

----------------------------------------------------------------------------
(* Saving and mirroring *)

\* A run that is past writing its file relies on nobody else's doing so.
LEMMA OwnStemSettled ==
  ASSUME ContentInv, NEW a \in Actor, Saving(run[a]) \/ Mirroring(run[a]),
         ~Begins(run[a])
  PROVE  Settled(run[a].stem)
  <1>1. Holds(run[a]) /\ Stamped(run[a].stem)
    BY InvFacts
  <1>2. \A b \in Actor : Begins(run[b]) => Holds(run[b])
    BY InvFacts DEF Saving
  <1>3. QED
    BY <1>1, <1>2 DEF Settled, ContentInv, StemsDistinct

LEMMA WriteConfTrue ==
  ASSUME ContentInv, NEW a \in Actor, CreateConf(a) \/ WriteConf(a)
  PROVE  RecordTrue(run[a])'
  <1>1. /\ TypeOK /\ RecordTrue(run[a]) /\ run[a].stem \in Time
        /\ run[a].step \in {"createConf", "writeConf"}
        /\ Begins(run[a]) /\ run[a].cfg \in Version
        /\ conf \in [Time -> Content]
        /\ UNCHANGED <<meta, s3conf, s3meta>>
    BY InvFacts DEF CreateConf, WriteConf, s3Vars, Begins, Saving, Run, TypeOK
  <1>2. \E s \in {"writeConf", "createMeta"} : Advances(run'[a], run[a], s)
    BY <1>1, StepsAdvance
  <1>3. /\ run'[a].stem = run[a].stem /\ run'[a].cfg = run[a].cfg
        /\ run'[a].basis = run[a].stem /\ run'[a].outcome = "none"
        /\ run'[a].step \in {"writeConf", "createMeta"}
    BY <1>1, <1>2 DEF Advances, RecordTrue, Undecided, Saving
  <1>4. /\ run'[a].step = "writeConf" => conf'[run[a].stem] = Torn
        /\ run'[a].step = "createMeta" => conf'[run[a].stem] \in {run[a].cfg, Absent}
    <2>1. CASE CreateConf(a)
      BY <1>1, <2>1, StepsAdvance DEF CreateConf, Advances
    <2>2. CASE WriteConf(a)
      <3>1. conf[run[a].stem] \in {Torn, Absent} /\ run'[a].step = "createMeta"
        BY <1>1, <2>2, StepsAdvance DEF RecordTrue, ConfAtStem, WriteConf, Advances
      <3>2. QED
        BY <1>1, <2>2, <3>1 DEF WriteConf, Written
    <2>3. QED
      BY <2>1, <2>2
  <1>5. /\ meta[run[a].stem] = Absent
        /\ s3conf[run[a].stem] = Absent /\ s3meta[run[a].stem] = Absent
    BY <1>1 DEF RecordTrue, MetaAtStem, ObjectsAtStem, Saving
  <1>6. QED
    BY <1>1, <1>3, <1>4, <1>5 DEF RecordTrue, ConfAtStem, MetaAtStem, ObjectsAtStem,
       Undecided, ScanTrue, BasisTrue, Relies, Saving, Begins, Deciding, Mirroring

LEMMA CreateMetaTrue ==
  ASSUME ContentInv, NEW a \in Actor, CreateMeta(a)
  PROVE  RecordTrue(run[a])'
  <1>1. /\ TypeOK /\ RecordTrue(run[a]) /\ run[a].stem \in Time
        /\ run[a].step = "createMeta" /\ Saving(run[a])
        /\ UNCHANGED <<conf, s3conf, s3meta>>
        /\ meta'[run[a].stem] = Torn
    BY InvFacts DEF CreateMeta, s3Vars, Saving, Run, TypeOK
  <1>2. /\ run'[a].stem = run[a].stem /\ run'[a].cfg = run[a].cfg
        /\ run'[a].basis = run[a].stem /\ run'[a].outcome = "none"
        /\ run'[a].step = "writeMeta"
    BY <1>1, StepsAdvance DEF Advances, CreateMeta, RecordTrue, Undecided
  <1>3. /\ conf[run[a].stem] \in {run[a].cfg, Absent}
        /\ s3conf[run[a].stem] = Absent /\ s3meta[run[a].stem] = Absent
    BY <1>1 DEF RecordTrue, ConfAtStem, ObjectsAtStem
  <1>4. QED
    BY <1>1, <1>2, <1>3 DEF RecordTrue, ConfAtStem, MetaAtStem, ObjectsAtStem,
       Undecided, ScanTrue, BasisTrue, Relies, Saving, Begins, Deciding, Mirroring

LEMMA WriteMetaTrue ==
  ASSUME ContentInv, ~SharedSecond, NEW a \in Actor, Acts(a), WriteMeta(a)
  PROVE  RecordTrue(run[a])'
  <1>1. /\ TypeOK /\ RecordTrue(run[a]) /\ run[a].stem \in Time
        /\ run[a].step = "writeMeta" /\ Saving(run[a]) /\ ~Begins(run[a])
        /\ run[a].cfg \in Version /\ meta \in [Time -> Content]
        /\ UNCHANGED <<conf, s3conf, s3meta>>
    BY InvFacts DEF WriteMeta, s3Vars, Saving, Begins, Deciding, Run, TypeOK
  <1>2. /\ run'[a].stem = run[a].stem /\ run'[a].cfg = run[a].cfg
        /\ run'[a].basis = run[a].stem
        /\ run'[a].step \in {"uploadConf", "open"} /\ run'[a].purpose = "retain"
    BY <1>1, OtherSteps DEF RecordTrue, Undecided
  <1>3. /\ conf[run[a].stem] \in {run[a].cfg, Absent}
        /\ meta[run[a].stem] \in {Torn, Absent}
        /\ s3conf[run[a].stem] = Absent /\ s3meta[run[a].stem] = Absent
    BY <1>1 DEF RecordTrue, ConfAtStem, MetaAtStem, ObjectsAtStem
  <1>4. meta'[run[a].stem] \in {run[a].cfg, Absent}
    BY <1>1, <1>3 DEF WriteMeta, Written
  <1>5. Settled(run[a].stem) /\ (\A t \in Time : Settled(t) => Settled(t)')
    BY <1>1, OwnStemSettled, SettledStays
  <1>6. BasisTrue(run[a])'
    BY <1>1, <1>2, <1>3, <1>5 DEF BasisTrue
  <1>7. QED
    BY <1>1, <1>2, <1>3, <1>4, <1>6 DEF RecordTrue, ConfAtStem, MetaAtStem,
       ObjectsAtStem, Undecided, ScanTrue, Saving, Begins, Deciding, Mirroring

LEMMA UploadConfTrue ==
  ASSUME ContentInv, ~SharedSecond, NEW a \in Actor, Acts(a), UploadConf(a)
  PROVE  RecordTrue(run[a])'
  <1>1. /\ TypeOK /\ RecordTrue(run[a])
        /\ run[a].stem \in Time /\ run[a].basis \in Time
        /\ run[a].step = "uploadConf" /\ Mirroring(run[a]) /\ ~Saving(run[a])
        /\ s3conf \in [Time -> Content]
        /\ UNCHANGED <<conf, meta, s3meta>>
    BY InvFacts DEF UploadConf, dirVars, Mirroring, Saving, Begins, Deciding, Run, TypeOK
  <1>2. /\ Advances(run'[a], run[a], "uploadMeta")
        /\ run[a].purpose = "retain"
    BY <1>1, StepsAdvance DEF RecordTrue, Undecided
  <1>3. /\ conf[run[a].stem] \in {run[a].cfg, Absent}
        /\ meta[run[a].stem] \in {run[a].cfg, Absent}
        /\ s3meta[run[a].stem] = Absent
    BY <1>1 DEF RecordTrue, ConfAtStem, MetaAtStem, ObjectsAtStem
  <1>4. s3conf'[run[a].stem] = run[a].cfg
    BY <1>1, <1>3 DEF UploadConf
  <1>5. BasisTrue(run[a])'
    BY <1>1, <1>2, SettledStays DEF RecordTrue, BasisTrue, Relies, Advances
  <1>6. QED
    BY <1>1, <1>2, <1>3, <1>4, <1>5 DEF RecordTrue, ConfAtStem, MetaAtStem, Advances,
       ObjectsAtStem, Undecided, ScanTrue, Saving, Begins, Deciding, Mirroring

\* The mirroring ends, with success or without, or the second listing does.
LEMMA MirroredTrue ==
  ASSUME ContentInv, ~SharedSecond, NEW a \in Actor, Acts(a),
         UploadMeta(a) \/ UploadMissing(a) \/ UploadFails(a) \/ Relisted(a)
  PROVE  RecordTrue(run[a])'
  <1>1. /\ TypeOK /\ Undecided(run[a])
        /\ Mirroring(run[a]) \/ Relisted(a)
    BY InvFacts DEF RecordTrue, UploadMeta, UploadMissing, UploadFails, Mirroring
  <1>2. /\ run'[a].cfg = run[a].cfg /\ run'[a].basis = run[a].basis
        /\ run'[a].step = "open" /\ run'[a].purpose = "retain"
        /\ Relisted(a) \/ run'[a].outcome = run[a].outcome
    BY <1>1, StepsAdvance, OtherSteps DEF Advances, Undecided
  <1>3. Relies(run'[a]) => Relies(run[a])
    BY <1>2 DEF Relies, Relisted, Listed
  <1>4. QED
    BY <1>2, <1>3, LaterTrue DEF Saving, Begins, Deciding, Mirroring

\* Whatever an actor does, its record stays true.
LEMMA OwnTrue ==
  ASSUME ContentInv, ~SharedSecond, NEW a \in Actor, Acts(a)
  PROVE  RecordTrue(run[a])'
  BY EndsTrue, StartTrue, FetchTrue, ListingTrue, DedupTrue, WriteConfTrue,
     CreateMetaTrue, WriteMetaTrue, UploadConfTrue, MirroredTrue DEF Acts, Continue

----------------------------------------------------------------------------
(* The files and the objects *)

LEMMA AheadKept ==
  ASSUME ContentInv, ~SharedSecond, NEW a \in Actor, Acts(a)
  PROVE  NothingAhead'
  <1>1. TypeOK
    BY InvFacts
  <1>2. SUFFICES ASSUME NEW t \in Time, ~Stamped(t)'
                 PROVE  /\ conf'[t] = Absent /\ meta'[t] = Absent
                        /\ s3conf'[t] = Absent /\ s3meta'[t] = Absent
    BY DEF NothingAhead
  <1>3. ~Stamped(t)
    BY <1>1, <1>2, ActsNext, StampedStays
  <1>4. Saving(run[a]) \/ Mirroring(run[a]) => run[a].stem # t
    BY <1>3, InvFacts
  <1>5. WritesOwnStem(a, t)
    BY <1>1, FilesWritten
  <1>6. QED
    BY <1>3, <1>4, <1>5
       DEF ContentInv, NothingAhead, WritesOwnStem, Saving, Begins, Mirroring

LEMMA StemsKept ==
  ASSUME ContentInv, ~SharedSecond, NEW a \in Actor, Acts(a)
  PROVE  StemsStamped' /\ StemsDistinct'
  <1>1. /\ TypeOK /\ Undecided(run[a])
        /\ \A b \in Actor \ {a} : run'[b] = run[b]
        /\ \A b \in Actor : Holds(run[b]) => Stamped(run[b].stem) /\ run[b].stem \in Time
    BY InvFacts, OthersKeepRecords DEF RecordTrue, Run
  <1>2. \A t \in Time : Stamped(t) => Stamped(t)'
    BY <1>1, ActsNext, StampedStays
  <1>3. CASE FetchOk(a)
    <2>1. run'[a].stem = now /\ ~Stamped(now) /\ now \in Time
      BY <1>1, <1>3, OtherSteps, FetchedStemNew
    <2>2. now' = now /\ ~fresh'
      BY <1>3 DEF FetchOk
    <2>3. StemsStamped'
      <3>1. ASSUME NEW b \in Actor, Holds(run'[b])
            PROVE  run'[b].stem < now' \/ (run'[b].stem = now' /\ ~fresh')
        BY <1>1, <2>1, <2>2, <3>1 DEF Stamped
      <3>2. QED
        BY <3>1 DEF StemsStamped, Stamped, Holds
    <2>4. \A b \in Actor \ {a} : Holds(run'[b]) => run'[b].stem # run'[a].stem
      BY <1>1, <2>1
    <2>5. StemsDistinct'
      BY <1>1, <2>4 DEF StemsDistinct, Holds, ContentInv
    <2>6. QED
      BY <2>3, <2>5
  <1>4. CASE ~FetchOk(a)
    <2>1. Holds(run'[a]) => Holds(run[a]) /\ run'[a].stem = run[a].stem
      BY <1>1, <1>4, ArtifactKept DEF Holds
    <2>2. \A b \in Actor : Holds(run'[b]) => Holds(run[b]) /\ run'[b].stem = run[b].stem
      BY <1>1, <2>1
    <2>3. StemsStamped'
      BY <1>1, <1>2, <2>2 DEF StemsStamped, Holds
    <2>4. StemsDistinct'
      BY <2>2 DEF StemsDistinct, Holds, ContentInv
    <2>5. QED
      BY <2>3, <2>4
  <1>5. QED
    BY <1>3, <1>4

\* The sidecar is written while the file it describes is complete or gone.
LEMMA SidecarKept ==
  ASSUME ContentInv, NEW a \in Actor, Acts(a)
  PROVE  SidecarTrue'
  <1>1. /\ TypeOK /\ RecordTrue(run[a]) /\ run[a].stem \in Time
        /\ meta \in [Time -> Content] /\ conf \in [Time -> Content]
    BY InvFacts DEF Run, TypeOK
  <1>2. SUFFICES ASSUME NEW t \in Time, meta'[t] \in Version
                 PROVE  conf'[t] \in {meta'[t], Absent}
    BY DEF SidecarTrue
  <1>3. WritesOwnStem(a, t)
    BY <1>1, FilesWritten
  <1>4. CASE run[a].step \in {"createConf", "writeConf"} /\ t = run[a].stem
    <2>1. meta[t] = Absent /\ meta'[t] \in {meta[t], Absent}
      BY <1>1, <1>3, <1>4 DEF RecordTrue, MetaAtStem, Begins, WritesOwnStem
    <2>2. QED
      BY <1>2, <2>1, FileAssumption
  <1>5. CASE run[a].step \in {"createMeta", "writeMeta"} /\ t = run[a].stem
    <2>1. conf[t] \in {run[a].cfg, Absent} /\ conf'[t] \in {conf[t], Absent}
      BY <1>1, <1>3, <1>5 DEF RecordTrue, ConfAtStem, WritesOwnStem
    <2>2. meta'[t] \in {meta[t], Absent, Torn, run[a].cfg}
      <3>1. meta[t] \in {Torn, Absent}
        BY <1>1, <1>5 DEF RecordTrue, MetaAtStem
      <3>2. CASE CreateMeta(a)
        BY <1>1, <1>5, <3>2 DEF CreateMeta
      <3>3. CASE WriteMeta(a)
        BY <1>1, <1>5, <3>1, <3>3 DEF WriteMeta, Written
      <3>4. CASE \E u \in Time : DeleteMeta(a, u)
        BY <1>5, <3>4 DEF DeleteMeta
      <3>5. CASE meta' = meta
        BY <3>5
      <3>6. QED
        BY <3>2, <3>3, <3>4, <3>5
           DEF Acts, Start, StartPrune, Cancel, IoError, UploadFails,
           Continue, FetchOk, FetchFails, OpenDir, ListFails, DedupHit,
           DedupMiss, Relisted, CreateConf, WriteConf, UploadConf, UploadMeta,
           UploadMissing, PickVictims, EndDelete, Planned, CreateMark, WriteMark,
           Report, ReadEntry, PassOver, Discover, DeleteConf, Moves, dirVars
    <2>3. meta[t] \notin Version
      BY <1>1, <1>5, FileAssumption DEF RecordTrue, MetaAtStem
    <2>4. QED
      BY <1>2, <2>1, <2>2, <2>3, FileAssumption
  <1>6. CASE conf'[t] \in {conf[t], Absent} /\ meta'[t] \in {meta[t], Absent}
    BY <1>2, <1>6, FileAssumption DEF ContentInv, SidecarTrue
  <1>7. QED
    BY <1>3, <1>4, <1>5, <1>6 DEF WritesOwnStem

\* An object of a sidecar is put while the object beside it holds the file.
LEMMA MirrorKept ==
  ASSUME ContentInv, NEW a \in Actor, Acts(a)
  PROVE  MirrorConsistent'
  <1>1. /\ TypeOK /\ RecordTrue(run[a]) /\ run[a].stem \in Time
        /\ s3meta \in [Time -> Content] /\ s3conf \in [Time -> Content]
        /\ Mirroring(run[a]) => run[a].cfg \in Version
    BY InvFacts DEF Run, TypeOK
  <1>2. SUFFICES ASSUME NEW t \in Time, s3meta'[t] # Absent
                 PROVE  s3meta'[t] \in Version /\ s3conf'[t] = s3meta'[t]
    BY DEF MirrorConsistent
  <1>3. WritesOwnStem(a, t)
    BY <1>1, FilesWritten
  <1>4. CASE run[a].step = "uploadConf" /\ t = run[a].stem
    <2>1. s3meta[t] = Absent /\ s3meta'[t] = s3meta[t]
      BY <1>1, <1>3, <1>4 DEF RecordTrue, ObjectsAtStem, Mirroring, WritesOwnStem
    <2>2. QED
      BY <1>2, <2>1
  <1>5. CASE run[a].step = "uploadMeta" /\ t = run[a].stem
    <2>1. /\ s3conf[t] = run[a].cfg /\ s3meta[t] = Absent
          /\ meta[t] \in {run[a].cfg, Absent} /\ run[a].cfg \in Version
          /\ s3conf'[t] = s3conf[t]
      BY <1>1, <1>3, <1>5 DEF RecordTrue, ObjectsAtStem, MetaAtStem, Mirroring,
         WritesOwnStem
    <2>2. s3meta'[t] \in {s3meta[t], run[a].cfg}
      <3>1. CASE UploadMeta(a) \/ UploadFails(a)
        BY <1>1, <1>5, <2>1, <3>1 DEF UploadMeta, UploadFails, s3Vars
      <3>2. CASE s3meta' = s3meta
        BY <3>2
      <3>3. QED
        BY <3>1, <3>2
           DEF Acts, Start, StartPrune, Cancel, IoError,
           Continue, FetchOk, FetchFails, OpenDir, ListFails, DedupHit,
           DedupMiss, Relisted, CreateConf, WriteConf, CreateMeta, WriteMeta,
           UploadConf, UploadMissing, PickVictims, EndDelete, Planned, CreateMark,
           WriteMark, Report, ReadEntry, PassOver, Discover, DeleteConf, DeleteMeta,
           Moves, s3Vars
    <2>3. QED
      BY <1>2, <2>1, <2>2
  <1>6. CASE s3conf'[t] = s3conf[t] /\ s3meta'[t] = s3meta[t]
    BY <1>2, <1>6 DEF ContentInv, MirrorConsistent
  <1>7. QED
    BY <1>3, <1>4, <1>5, <1>6 DEF WritesOwnStem

----------------------------------------------------------------------------
(* The invariant *)

LEMMA InitContent == Init => ContentInv
  <1> SUFFICES ASSUME Init PROVE ContentInv
    OBVIOUS
  <1>1. RetentionInv
    BY InitRetention
  <1>2. NothingAhead /\ SidecarTrue /\ MirrorConsistent
    BY FileAssumption DEF Init, NothingAhead, SidecarTrue, MirrorConsistent
  <1>3. \A a \in Actor : run[a] = Idle
    BY DEF Init
  <1>4. /\ Idle.cfg = Absent /\ Idle.step = "idle" /\ Idle.outcome = "none"
    BY DEF Idle
  <1>5. StemsStamped /\ StemsDistinct
    BY <1>3, <1>4 DEF StemsStamped, StemsDistinct, Holds
  <1>6. RecordTrue(Idle)
    BY <1>4 DEF RecordTrue, ConfAtStem, MetaAtStem, ObjectsAtStem, Undecided, ScanTrue,
       BasisTrue, Relies, Saving, Begins, Deciding, Mirroring
  <1>7. QED
    BY <1>1, <1>2, <1>3, <1>5, <1>6 DEF ContentInv

\* Time, the device and the end of a process write nothing: what has not been
\* reset stays as true as it was.
LEMMA EnvironmentTrue ==
  ASSUME ContentInv, ~SharedSecond, [Next]_vars,
         UNCHANGED <<dirVars, s3Vars>>,
         \A a \in Actor : run'[a] \in {run[a], Idle}
  PROVE  /\ NothingAhead' /\ StemsStamped' /\ StemsDistinct'
         /\ \A a \in Actor : RecordTrue(run[a])'
         /\ SidecarTrue' /\ MirrorConsistent'
  <1>1. TypeOK /\ UNCHANGED <<conf, meta, s3conf, s3meta>>
    BY DEF ContentInv, RetentionInv, dirVars, s3Vars
  <1>2. \A t \in Time : Stamped(t) => Stamped(t)'
    BY <1>1, StampedStays
  <1>3. /\ Idle.cfg = Absent /\ Idle.step = "idle" /\ Idle.outcome = "none"
    BY DEF Idle
  <1>4. \A t \in Time : Settled(t) => Settled(t)'
    BY <1>2, <1>3 DEF Settled, Begins, Deciding
  <1>5. SidecarTrue' /\ MirrorConsistent' /\ NothingAhead'
    BY <1>1, <1>2 DEF ContentInv, SidecarTrue, MirrorConsistent, NothingAhead
  <1>6. \A a \in Actor : run[a].stem \in Time /\ run[a].basis \in Time
    BY <1>1 DEF TypeOK, Run
  <1>7. StemsStamped'
    BY <1>2, <1>3, <1>6 DEF ContentInv, StemsStamped, Holds
  <1>8. StemsDistinct'
    BY <1>3 DEF ContentInv, StemsDistinct, Holds
  <1>9. ASSUME NEW a \in Actor
        PROVE  RecordTrue(run[a])'
    <2>1. CASE run'[a] = Idle
      BY <2>1, IdleTrue
    <2>2. CASE run'[a] = run[a]
      <3>1. RecordTrue(run[a])
        BY DEF ContentInv
      <3>2. ScanTrue(run[a])' /\ BasisTrue(run[a])'
        BY <1>1, <1>4, <1>6, <2>2, <3>1 DEF RecordTrue, ScanTrue, BasisTrue
      <3>3. /\ ConfAtStem(run[a])' /\ MetaAtStem(run[a])' /\ ObjectsAtStem(run[a])'
            /\ Undecided(run[a])'
        BY <1>1, <2>2, <3>1 DEF RecordTrue, ConfAtStem, MetaAtStem, ObjectsAtStem, Undecided
      <3>4. QED
        BY <3>2, <3>3 DEF RecordTrue
    <2>3. QED
      BY <2>1, <2>2
  <1>10. QED
    BY <1>5, <1>7, <1>8, <1>9

LEMMA NextContent ==
  ASSUME ContentInv, ~SharedSecond, [Next]_vars
  PROVE  ContentInv'
  <1>1. RetentionInv'
    BY NextRetention DEF ContentInv
  <1>2. ASSUME NEW a \in Actor, Acts(a)
        PROVE  ContentInv'
    <2>1. \A b \in Actor : RecordTrue(run[b])'
      BY <1>2, OwnTrue, OthersTrue
    <2>2. QED
      BY <1>1, <1>2, <2>1, AheadKept, StemsKept, SidecarKept, MirrorKept DEF ContentInv
  <1>3. CASE \/ Tick \/ (\E v \in Version : Reconfigure(v))
             \/ (\E p \in Process : Crash(p)) \/ UNCHANGED vars
    <2>1. /\ UNCHANGED <<dirVars, s3Vars>>
          /\ \A a \in Actor : run'[a] \in {run[a], Idle}
      BY <1>3 DEF Tick, Reconfigure, Crash, vars
    <2>2. QED
      BY <1>1, <2>1, EnvironmentTrue DEF ContentInv
  <1>4. QED
    BY <1>2, <1>3 DEF Next, Fault, Acts

\* The inductive invariant holds of every behaviour in which no two fetches end
\* in the same second.
THEOREM ContentInvariant ==
  ASSUME ~SharedSecond
  PROVE  Spec => []ContentInv
  <1>1. ContentInv /\ [Next]_vars => ContentInv'
    BY NextContent
  <1>2. QED
    BY <1>1, InitContent, PTL DEF Spec

\* Whatever runs and prunes interleave and crash: a sidecar that can be read
\* names the content of the file beside it (write_backup).
THEOREM SidecarsTrue ==
  ASSUME ~SharedSecond
  PROVE  Spec => []SidecarTrue
  <1>1. ContentInv => SidecarTrue
    BY DEF ContentInv
  <1>2. QED
    BY <1>1, ContentInvariant, PTL

\* A run that reports `changed` or `no_change` has what it fetched complete on
\* disk, or retention has deleted it since (execute, latest_hash).
THEOREM VerdictsHold ==
  ASSUME ~SharedSecond
  PROVE  Spec => []VerdictHolds
  <1>1. ContentInv => VerdictHolds
    BY DEF ContentInv, RecordTrue, BasisTrue, Relies, VerdictHolds
  <1>2. QED
    BY <1>1, ContentInvariant, PTL

\* The objects of one backup in the mirror belong together, although each local
\* file is read again when its turn comes (mirror_new_backup).
THEOREM MirrorsConsistent ==
  ASSUME ~SharedSecond
  PROVE  Spec => []MirrorConsistent
  <1>1. ContentInv => MirrorConsistent
    BY DEF ContentInv
  <1>2. QED
    BY <1>1, ContentInvariant, PTL

----------------------------------------------------------------------------
(* One run at a time *)

\* No `prune`, and one run after another.
Alone == Pruner = {} /\ \A a, b \in Runner : a = b

\* A listing lists what is there.
ListsAll(r) == r.step = "scan" => r.seen \cup r.todo = Present

\* latest_hash knows the newest file, if it is whole; a file is about to be
\* created only if the newest one has another content.
ListsTruly(r) ==
    /\ r.step = "scan" /\ r.purpose = "dedup" =>
           \A t \in Time : IsNewest(t, r.seen) /\ conf[t] \in Version => r.newest = conf[t]
    /\ r.step = "createConf" => \A t \in Time : IsNewest(t, Present) => conf[t] # r.cfg

\* The file a verdict rests on is there, and none is newer; retention begins
\* with a verdict.
LoneVerdict(r) ==
    /\ Holds(r) => \A u \in Present : u <= r.stem
    /\ r.step \in {"createMeta", "writeMeta"} => conf[r.stem] = r.cfg
    /\ r.step = "writeConf" => conf[r.stem] = Torn
    /\ Relies(r) => /\ conf[r.basis] = r.cfg /\ r.cfg \in Version
                    /\ \A u \in Present : u <= r.basis
    /\ r.step \in {"open", "scan"} => r.purpose # "plan"
    /\ \/ r.step \in {"delete", "deleteMeta"} \/ Mirroring(r)
       \/ r.step \in {"open", "scan"} /\ r.purpose # "dedup"
       => Relies(r)

ListsAllInv == ContentInv /\ \A a \in Actor : ListsAll(run[a])
ListsTrulyInv == ListsAllInv /\ \A a \in Actor : ListsTruly(run[a])
LoneVerdictInv == ListsAllInv /\ \A a \in Actor : LoneVerdict(run[a])

LEMMA AloneActor ==
  ASSUME Alone, NEW a \in Actor
  PROVE  a \in Runner /\ \A b \in Actor : b = a
  BY DEF Alone, Actor

LEMMA OnlyScansScan ==
  ASSUME TypeOK, NEW a \in Actor, Acts(a), run'[a].step = "scan"
  PROVE  OpenDir(a) \/ \E t \in Time : ReadEntry(a, t) \/ PassOver(a, t) \/ Discover(a, t)
  <1>1. Idle.step = "idle" /\ Failed.step = "report"
    BY DEF Idle, Failed
  <1>2. CASE \/ FetchFails(a) \/ ListFails(a) \/ EndDelete(a) \/ Report(a)
             \/ Cancel(a) \/ IoError(a)
    BY <1>1, <1>2, EndsAdvance DEF Advances
  <1>3. CASE \/ DedupHit(a) \/ DedupMiss(a) \/ Relisted(a) \/ WriteMeta(a)
             \/ StartPrune(a) \/ Planned(a) \/ FetchOk(a)
    BY <1>1, <1>3, OtherSteps
  <1>4. CASE \/ Start(a) \/ CreateConf(a) \/ WriteConf(a) \/ CreateMeta(a)
             \/ UploadConf(a) \/ UploadMeta(a) \/ UploadMissing(a) \/ UploadFails(a)
             \/ PickVictims(a) \/ CreateMark(a) \/ WriteMark(a)
             \/ \E t \in Time : DeleteConf(a, t) \/ DeleteMeta(a, t)
    BY <1>4, StepsAdvance DEF Advances
  <1>5. QED
    BY <1>2, <1>3, <1>4 DEF Acts, Continue

LEMMA ListsAllKept ==
  ASSUME ListsAllInv, NEW a \in Actor, Acts(a)
  PROVE  ListsAll(run[a])'
  <1>1. TypeOK /\ run[a] \in Run /\ run \in [Actor -> Run] /\ ListsAll(run[a])
    BY InvFacts DEF ListsAllInv, TypeOK
  <1>2. SUFFICES ASSUME run'[a].step = "scan"
                 PROVE  run'[a].seen \cup run'[a].todo = Present'
    BY DEF ListsAll
  <1>3. CASE OpenDir(a)
    <2>1. run'[a].seen = {} /\ run'[a].todo = Present /\ Present' = Present
      BY <1>1, <1>3 DEF OpenDir, Moves, Becomes, Run, Present, dirVars
    <2>2. QED
      BY <2>1
  <1>4. ASSUME NEW t \in Time, ReadEntry(a, t)
        PROVE  run'[a].seen \cup run'[a].todo = Present'
    <2> DEFINE n == IF run[a].purpose = "dedup" /\ Newer(run[a].seen, t) = {}
                    THEN EntryHash(t) ELSE run[a].newest
    <2>1. /\ run' = [run EXCEPT ![a] = [run[a] EXCEPT
                       !.todo = @ \ {t}, !.seen = @ \cup {t}, !.newest = n]]
          /\ run[a].step = "scan" /\ t \in run[a].todo /\ Present' = Present
      BY <1>4 DEF ReadEntry, Moves, Becomes, Present, dirVars
    <2> HIDE DEF n
    <2>2. /\ run'[a].seen = run[a].seen \cup {t}
          /\ run'[a].todo = run[a].todo \ {t}
      BY <1>1, <2>1 DEF Run
    <2>3. QED
      BY <1>1, <2>1, <2>2 DEF ListsAll
  <1>5. ASSUME NEW t \in Time, PassOver(a, t) \/ Discover(a, t)
        PROVE  run'[a].seen \cup run'[a].todo = Present'
    BY <1>1, <1>5 DEF PassOver, Discover, ListsAll, Present
  <1>6. QED
    BY <1>1, <1>2, <1>3, <1>4, <1>5, OnlyScansScan

\* Nothing is said of an idle actor, nor of one that only has to report.
LEMMA IdleAlone ==
  ASSUME NEW a \in Actor, run'[a] \in {Idle, Failed}
  PROVE  ListsAll(run[a])' /\ ListsTruly(run[a])' /\ LoneVerdict(run[a])'
  <1>1. /\ Idle.step = "idle" /\ Idle.outcome = "none" /\ Idle.cfg = Absent
        /\ Failed.step = "report" /\ Failed.outcome = "failed" /\ Failed.cfg = Absent
    BY DEF Idle, Failed
  <1>2. QED
    BY <1>1 DEF ListsAll, ListsTruly, LoneVerdict, Holds, Relies, Mirroring

LEMMA ListsTrulyKept ==
  ASSUME ListsTrulyInv, ~Compress, NEW a \in Actor, Acts(a)
  PROVE  ListsTruly(run[a])'
  <1>1. /\ ContentInv /\ TypeOK /\ run[a] \in Run
        /\ ListsAll(run[a]) /\ ListsTruly(run[a])
        /\ run[a].seen \in SUBSET Time
    BY InvFacts DEF ListsTrulyInv, ListsAllInv, Run
  <1>2. ASSUME run'[a].step = "scan", run'[a].purpose = "dedup",
               NEW u \in Time, IsNewest(u, run'[a].seen), conf'[u] \in Version
        PROVE  run'[a].newest = conf'[u]
    <2>1. CASE OpenDir(a)
      <3>1. run'[a].seen = {}
        BY <1>1, <2>1 DEF OpenDir, Moves, Becomes, Run, TypeOK
      <3>2. QED
        BY <1>2, <3>1 DEF IsNewest
    <2>2. ASSUME NEW t \in Time, ReadEntry(a, t) \/ PassOver(a, t) \/ Discover(a, t)
          PROVE  run'[a].newest = conf'[u]
      <3>1. /\ conf' = conf /\ run[a].step = "scan"
            /\ run[a].purpose = "dedup"
        BY <1>1, <1>2, <2>2, ScanAdvances
           DEF Advances, ReadEntry, PassOver, Discover, Moves, dirVars
      <3>2. CASE run'[a].seen = run[a].seen /\ run'[a].newest = run[a].newest
        BY <1>1, <1>2, <3>1, <3>2 DEF ListsTruly
      <3>3. CASE /\ ReadEntry(a, t) /\ Newer(run[a].seen, t) = {}
                 /\ run'[a].seen = run[a].seen \cup {t}
                 /\ run'[a].newest = EntryHash(t)
        <4>1. u = t
          BY <1>1, <1>2, <3>3, NewestAfter
        <4>2. ~Unreadable(t) /\ meta \in [Time -> Content]
          BY <1>1, <3>3 DEF ReadEntry, TypeOK
        <4>3. EntryHash(t) = conf[t]
          BY <1>1, <4>2 DEF Unreadable, EntryHash, ContentInv, SidecarTrue, Content
        <4>4. QED
          BY <3>1, <3>3, <4>1, <4>3
      <3>4. CASE /\ Newer(run[a].seen, t) # {}
                 /\ run'[a].seen = run[a].seen \cup {t}
                 /\ run'[a].newest = run[a].newest
        <4>1. IsNewest(u, run[a].seen)
          BY <1>1, <1>2, <3>4, NewestAfter
        <4>2. QED
          BY <1>1, <1>2, <3>1, <3>4, <4>1 DEF ListsTruly
      <3>5. QED
        BY <1>1, <2>2, <3>1, <3>2, <3>3, <3>4, ScanAdvances
    <2>3. QED
      BY <1>1, <1>2, <2>1, <2>2, OnlyScansScan
  <1>3. ASSUME run'[a].step = "createConf",
               NEW t \in Time, IsNewest(t, Present')
        PROVE  conf'[t] # run'[a].cfg
    <2>1. DedupMiss(a)
      <3>1. Idle.step = "idle" /\ Failed.step = "report"
        BY DEF Idle, Failed
      <3>2. CASE \/ FetchFails(a) \/ ListFails(a) \/ EndDelete(a) \/ Report(a)
                 \/ Cancel(a) \/ IoError(a)
        BY <1>1, <1>3, <3>1, <3>2, EndsAdvance DEF Advances
      <3>3. CASE \E v \in Time : ReadEntry(a, v) \/ PassOver(a, v) \/ Discover(a, v)
        BY <1>1, <1>3, <3>3, ScanAdvances DEF Advances
      <3>4. CASE \/ DedupHit(a) \/ Relisted(a) \/ WriteMeta(a)
                 \/ StartPrune(a) \/ Planned(a) \/ FetchOk(a)
        BY <1>1, <1>3, <3>1, <3>4, OtherSteps
      <3>5. CASE \/ Start(a) \/ OpenDir(a) \/ CreateConf(a) \/ WriteConf(a)
                 \/ CreateMeta(a) \/ UploadConf(a) \/ UploadMeta(a)
                 \/ UploadMissing(a) \/ UploadFails(a)
                 \/ PickVictims(a) \/ CreateMark(a) \/ WriteMark(a)
                 \/ \E v \in Time : DeleteConf(a, v) \/ DeleteMeta(a, v)
        BY <1>1, <1>3, <3>5, StepsAdvance DEF Advances
      <3>6. QED
        BY <3>2, <3>3, <3>4, <3>5 DEF Acts, Continue
    <2>2. /\ run'[a].cfg = run[a].cfg /\ run[a].cfg \in Version
          /\ conf' = conf /\ Present' = Present
          /\ run[a].step = "scan" /\ run[a].purpose = "dedup"
          /\ run[a].seen = Present /\ run[a].newest # run[a].cfg
      BY <1>1, <2>1, OtherSteps, InvFacts
         DEF DedupMiss, Listed, Unchanged, Moves, dirVars, Present, ListsAll,
         Saving, Begins, Deciding
    <2>3. QED
      BY <1>1, <1>3, <2>2 DEF ListsTruly
  <1>4. QED
    BY <1>2, <1>3 DEF ListsTruly

\* What moves a run on without touching the files keeps its verdict.
LEMMA VerdictMoves ==
  ASSUME LoneVerdictInv, NEW a \in Actor, conf' = conf,
         NEW s \in {"mark", "report", "delete", "deleteMeta", "writeMark", "fetch", "scan",
                    "writeMeta", "uploadMeta", "open"},
         Advances(run'[a], run[a], s),
         s \in {"scan", "open"} => run[a].step \in {"open", "scan"} \/ Mirroring(run[a]),
         s \in {"delete", "deleteMeta"} =>
             \/ run[a].step \in {"delete", "deleteMeta"}
             \/ run[a].step \in {"open", "scan"} /\ run[a].purpose = "retain",
         s = "writeMeta" => run[a].step = "createMeta",
         s = "uploadMeta" => Mirroring(run[a]),
         s \notin {"scan", "open"} =>
             ~(run[a].step \in {"open", "scan"} /\ run[a].purpose = "relist")
  PROVE  LoneVerdict(run[a])'
  <1>1. /\ LoneVerdict(run[a]) /\ Undecided(run[a]) /\ Present' = Present
    BY InvFacts DEF LoneVerdictInv, ListsAllInv, RecordTrue, Present
  <1>2. /\ run'[a].step = s /\ run'[a].purpose = run[a].purpose
        /\ run'[a].cfg = run[a].cfg /\ run'[a].stem = run[a].stem
        /\ run'[a].basis = run[a].basis /\ run'[a].outcome = run[a].outcome
    BY DEF Advances
  <1>3. Relies(run'[a]) => Relies(run[a])
    BY <1>1, <1>2 DEF Relies, Undecided, Mirroring
  <1>4. \/ run'[a].step \in {"delete", "deleteMeta"} \/ Mirroring(run'[a])
        \/ run'[a].step \in {"open", "scan"} /\ run'[a].purpose # "dedup"
        => Relies(run'[a])
    BY <1>1, <1>2 DEF Relies, Undecided, Mirroring, LoneVerdict
  <1>5. run'[a].step \in {"open", "scan"} => run'[a].purpose # "plan"
    BY <1>1, <1>2 DEF LoneVerdict, Undecided
  <1>6. run'[a].step \in {"createMeta", "writeMeta"} => run[a].step = "createMeta"
    BY <1>2
  <1>7. QED
    BY <1>1, <1>2, <1>3, <1>4, <1>5, <1>6 DEF LoneVerdict, Holds

\* If retention keeps a copy, it is not the file that the run relies on that it
\* deletes: there is a newer one than what it deletes, and none newer than that.
LEMMA DeletesOlder ==
  ASSUME LoneVerdictInv, KeepCopies # 0, NEW a \in Actor,
         NEW t \in Time, DeleteConf(a, t)
  PROVE  /\ Relies(run[a]) /\ run[a].basis \in Time /\ t < run[a].basis
         /\ conf'[run[a].basis] = conf[run[a].basis]
  <1>1. /\ LoneVerdict(run[a]) /\ run[a] \in Run /\ TypeOK
        /\ Enough(Present, t)
    BY InvFacts
       DEF LoneVerdictInv, ListsAllInv, ContentInv, RetentionInv, VictimsBacked,
       DeleteConf, IsNewest
  <1>2. Relies(run[a]) /\ \A u \in Present : u <= run[a].basis
    BY <1>1 DEF LoneVerdict, DeleteConf
  <1>3. Newer(Present, t) # {}
    <2>1. Cardinality({}) = 0
      BY FS_EmptySet
    <2>2. QED
      BY <1>1, <2>1, RetentionAssumption DEF Enough
  <1>4. PICK u \in Present : u > t
    BY <1>3 DEF Newer
  <1>5. run[a].basis \in Time /\ u \in Time /\ u <= run[a].basis
    BY <1>1, <1>2 DEF Run, Present
  <1>6. t < run[a].basis
    BY <1>4, <1>5, BoundAssumption DEF Time
  <1>7. conf'[run[a].basis] = conf[run[a].basis]
    BY <1>1, <1>5, <1>6, BoundAssumption DEF DeleteConf, TypeOK, Time
  <1>8. QED
    BY <1>2, <1>5, <1>6, <1>7

LEMMA DeleteKeepsVerdict ==
  ASSUME LoneVerdictInv, KeepCopies # 0, NEW a \in Actor,
         NEW t \in Time, DeleteConf(a, t)
  PROVE  LoneVerdict(run[a])'
  <1>1. /\ LoneVerdict(run[a]) /\ TypeOK
        /\ run[a].step = "delete" /\ Relies(run[a])
        /\ conf'[run[a].basis] = conf[run[a].basis]
    BY DeletesOlder, InvFacts DEF LoneVerdictInv, ListsAllInv, DeleteConf
  <1>2. Advances(run'[a], run[a], "deleteMeta")
    BY <1>1, StepsAdvance
  <1>3. Present' \subseteq Present
    BY <1>1 DEF DeleteConf, Present, TypeOK
  <1>4. /\ run'[a].cfg = run[a].cfg /\ run'[a].stem = run[a].stem
        /\ run'[a].basis = run[a].basis /\ run'[a].step = "deleteMeta"
        /\ Relies(run'[a])
    BY <1>1, <1>2 DEF Advances, Relies
  <1>5. QED
    BY <1>1, <1>3, <1>4 DEF LoneVerdict, Holds, Mirroring

\* Writing its file makes a run's stem the newest there is.
LEMMA WriteKeepsVerdict ==
  ASSUME LoneVerdictInv, NEW a \in Actor,
         CreateConf(a) \/ WriteConf(a) \/ WriteMeta(a)
  PROVE  LoneVerdict(run[a])'
  <1>1. /\ LoneVerdict(run[a]) /\ TypeOK /\ Undecided(run[a])
        /\ run[a].stem \in Time /\ run[a].cfg \in Version /\ Holds(run[a])
        /\ conf \in [Time -> Content] /\ Saving(run[a])
        /\ run[a].outcome = "none" /\ run[a].basis = run[a].stem
    BY InvFacts DEF LoneVerdictInv, ListsAllInv, RecordTrue, CreateConf, WriteConf,
       WriteMeta, Saving, Begins, Run, TypeOK, Undecided
  <1>2. \A u \in Present : u <= run[a].stem
    BY <1>1 DEF LoneVerdict
  <1>3. CASE CreateConf(a)
    <2>1. /\ run'[a].step = "writeConf" /\ run'[a].outcome = "none"
          /\ run'[a].stem = run[a].stem
          /\ conf'[run[a].stem] = Torn
      BY <1>1, <1>3, StepsAdvance DEF Advances, CreateConf
    <2>2. Present' \subseteq Present \cup {run[a].stem}
      BY <1>1, <1>3 DEF CreateConf, Present
    <2>3. \A u \in Present' : u <= run'[a].stem
      BY <1>1, <1>2, <2>1, <2>2, BoundAssumption DEF Time
    <2>4. QED
      BY <2>1, <2>3 DEF LoneVerdict, Relies, Mirroring
  <1>4. CASE WriteConf(a)
    <2>1. /\ run'[a].step = "createMeta" /\ run'[a].outcome = "none"
          /\ run'[a].stem = run[a].stem /\ run'[a].cfg = run[a].cfg
      BY <1>1, <1>4, StepsAdvance DEF Advances
    <2>2. conf[run[a].stem] = Torn
      BY <1>1, <1>4 DEF WriteConf, LoneVerdict
    <2>3. conf'[run[a].stem] = run[a].cfg
      BY <1>1, <1>4, <2>2, FileAssumption DEF WriteConf, Written
    <2>4. Present' \subseteq Present \cup {run[a].stem}
      BY <1>1, <1>4 DEF WriteConf, Present
    <2>5. \A u \in Present' : u <= run'[a].stem
      BY <1>1, <1>2, <2>1, <2>4, BoundAssumption DEF Time
    <2>6. QED
      BY <2>1, <2>3, <2>5 DEF LoneVerdict, Relies, Mirroring
  <1>5. CASE WriteMeta(a)
    <2>1. /\ run'[a].step \in {"uploadConf", "open"} /\ run'[a].purpose = "retain"
          /\ run'[a].cfg = run[a].cfg /\ run'[a].stem = run[a].stem
          /\ run'[a].basis = run[a].stem /\ run'[a].outcome = "changed"
      BY <1>1, <1>5, OtherSteps
    <2>2. conf[run[a].stem] = run[a].cfg /\ conf' = conf /\ Present' = Present
      BY <1>1, <1>5 DEF WriteMeta, LoneVerdict, Present
    <2>3. QED
      BY <1>1, <1>2, <2>1, <2>2 DEF LoneVerdict, Relies
  <1>6. QED
    BY <1>3, <1>4, <1>5

\* An unchanged save relies on the newest file that is there.
LEMMA DedupKeepsVerdict ==
  ASSUME LoneVerdictInv, NEW a \in Actor,
         DedupHit(a) \/ DedupMiss(a) \/ Relisted(a)
  PROVE  LoneVerdict(run[a])'
  <1>1. /\ LoneVerdict(run[a]) /\ RecordTrue(run[a]) /\ TypeOK /\ ListsAll(run[a])
        /\ run[a].step = "scan" /\ run[a].seen = Present
        /\ conf' = conf /\ Present' = Present
    BY InvFacts DEF LoneVerdictInv, ListsAllInv, DedupHit, DedupMiss, Relisted,
       Listed, Moves, dirVars, ListsAll, Present
  <1>2. CASE DedupHit(a)
    <2>1. /\ Saving(run[a]) /\ run[a].purpose = "dedup"
      BY <1>1, <1>2 DEF DedupHit, Listed, Saving, Begins, Deciding
    <2>2. PICK t \in Time :
             /\ IsNewest(t, Present)
             /\ run'[a].step = "open" /\ run'[a].purpose = "relist"
             /\ run'[a].cfg = run[a].cfg /\ run'[a].stem = run[a].stem
             /\ run'[a].basis = t
      BY <1>1, <1>2, OtherSteps
    <2>3. run[a].cfg \in Version /\ run[a].newest = run[a].cfg
      BY <1>2, <2>1, InvFacts DEF LoneVerdictInv, ListsAllInv, DedupHit, Unchanged
    <2>4. conf[t] = run[a].cfg
      BY <1>1, <2>1, <2>2, <2>3 DEF RecordTrue, ScanTrue, IsNewest, Present
    <2>5. \A u \in Present : u <= t
      BY <2>2, BoundAssumption DEF IsNewest, Newer, Present, Time
    <2>6. QED
      BY <1>1, <2>2, <2>3, <2>4, <2>5 DEF LoneVerdict, Holds, Relies
  <1>3. CASE DedupMiss(a)
    <2>1. Undecided(run[a]) /\ Saving(run[a])
      BY <1>1, <1>3 DEF RecordTrue, DedupMiss, Listed, Saving, Begins, Deciding
    <2>2. /\ run'[a].step = "createConf" /\ run'[a].outcome = "none"
          /\ run'[a].cfg = run[a].cfg /\ run'[a].stem = run[a].stem
      BY <1>1, <1>3, <2>1, OtherSteps DEF Undecided
    <2>3. QED
      BY <1>1, <2>2 DEF LoneVerdict, Relies, Mirroring, Holds
  <1>4. CASE Relisted(a)
    <2>1. Relies(run[a])
      BY <1>1, <1>4 DEF Relisted, Listed, Relies
    <2>2. /\ run'[a].step = "open" /\ run'[a].purpose = "retain"
          /\ run'[a].cfg = run[a].cfg /\ run'[a].stem = run[a].stem
          /\ run'[a].basis = run[a].basis /\ run'[a].outcome = "noChange"
      BY <1>1, <1>4, OtherSteps
    <2>3. QED
      BY <1>1, <2>1, <2>2 DEF LoneVerdict, Relies, Holds
  <1>5. QED
    BY <1>2, <1>3, <1>4

\* No file is newer than an artifact that has just been fetched.
LEMMA FetchKeepsVerdict ==
  ASSUME LoneVerdictInv, NEW a \in Actor, FetchOk(a)
  PROVE  LoneVerdict(run[a])'
  <1>1. /\ TypeOK /\ Undecided(run[a]) /\ Present' = Present /\ ContentInv
    BY InvFacts DEF LoneVerdictInv, ListsAllInv, RecordTrue, FetchOk, dirVars, Present
  <1>2. /\ run'[a].step = "open" /\ run'[a].purpose = "dedup"
        /\ run'[a].stem = now /\ run'[a].outcome = "none"
    BY <1>1, OtherSteps DEF Undecided, FetchOk
  <1>3. ASSUME NEW u \in Present
        PROVE  u <= now
    <2>1. Stamped(u) /\ u \in Time
      BY <1>1 DEF ContentInv, NothingAhead, Present
    <2>2. QED
      BY <1>1, <2>1, BoundAssumption DEF Stamped, Time, TypeOK
  <1>4. QED
    BY <1>1, <1>2, <1>3 DEF LoneVerdict, Relies, Mirroring

\* Whatever the only run does, its verdict keeps its ground.
LEMMA VerdictKept ==
  ASSUME LoneVerdictInv, KeepCopies # 0, Alone, NEW a \in Actor, Acts(a)
  PROVE  LoneVerdict(run[a])'
  <1>1. /\ TypeOK /\ LoneVerdict(run[a]) /\ a \in Runner /\ a \notin Pruner
    BY InvFacts, AloneActor, ActorAssumption DEF LoneVerdictInv, ListsAllInv
  <1>2. CASE run'[a] \in {Idle, Failed}
    BY <1>2, IdleAlone
  <1>3. CASE \/ FetchFails(a) \/ ListFails(a) \/ EndDelete(a) \/ Report(a)
             \/ Cancel(a) \/ IoError(a)
    <2>1. CASE \E s \in {"mark", "report"} : Advances(run'[a], run[a], s)
      <3>1. conf' = conf
        BY <1>3 DEF FetchFails, ListFails, EndDelete, Report, Cancel, IoError,
           Moves, dirVars
      <3>2. run'[a] \in {Idle, Failed}
               \/ ~(run[a].step \in {"open", "scan"} /\ run[a].purpose = "relist")
        <4>1. run \in [Actor -> Run]
          BY <1>1 DEF TypeOK
        <4>2. QED
          BY <1>3, <4>1 DEF FetchFails, ListFails, EndDelete, Report, Cancel, IoError,
             Moves, Becomes
      <3>3. QED
        BY <1>2, <2>1, <3>1, <3>2, VerdictMoves
    <2>2. QED
      BY <1>1, <1>2, <1>3, <2>1, EndsAdvance
  <1>4. CASE \/ PickVictims(a) \/ CreateMark(a) \/ WriteMark(a) \/ Start(a)
             \/ CreateMeta(a) \/ UploadConf(a) \/ \E t \in Time : DeleteMeta(a, t)
    <2>1. \E s \in {"delete", "writeMark", "report", "fetch", "writeMeta", "uploadMeta"} :
             Advances(run'[a], run[a], s)
      BY <1>1, <1>4, StepsAdvance
    <2>2. /\ conf' = conf
          /\ run[a].step \notin {"open", "scan"} \/ run[a].purpose = "retain"
      BY <1>4 DEF PickVictims, CreateMark, WriteMark, Start, CreateMeta, UploadConf,
         DeleteMeta, Moves, dirVars, Listed
    <2>3. /\ run'[a].step = "delete" =>
                \/ run[a].step \in {"delete", "deleteMeta"}
                \/ run[a].step \in {"open", "scan"} /\ run[a].purpose = "retain"
          /\ run'[a].step = "writeMeta" => run[a].step = "createMeta"
          /\ run'[a].step = "uploadMeta" => Mirroring(run[a])
      BY <1>1, <1>4, StepsAdvance DEF Advances, PickVictims, CreateMeta, UploadConf,
         DeleteMeta, Listed, Mirroring
    <2>4. QED
      BY <2>1, <2>2, <2>3, VerdictMoves DEF Advances
  <1>5. CASE \/ OpenDir(a)
             \/ \E t \in Time : ReadEntry(a, t) \/ PassOver(a, t) \/ Discover(a, t)
    <2>1. /\ Advances(run'[a], run[a], "scan") /\ conf' = conf
          /\ run[a].step \in {"open", "scan"}
      BY <1>1, <1>5, StepsAdvance, ScanAdvances
         DEF OpenDir, ReadEntry, PassOver, Discover, Moves, dirVars
    <2>2. QED
      BY <2>1, VerdictMoves
  <1>6. CASE UploadMeta(a) \/ UploadMissing(a) \/ UploadFails(a)
    <2>1. /\ Advances(run'[a], run[a], "open") /\ conf' = conf
          /\ Mirroring(run[a])
      BY <1>1, <1>6, StepsAdvance
         DEF UploadMeta, UploadMissing, UploadFails, Moves, dirVars, Mirroring
    <2>2. QED
      BY <2>1, VerdictMoves
  <1>7. ~StartPrune(a) /\ ~Planned(a)
    BY <1>1 DEF StartPrune, Planned, Listed, LoneVerdict
  <1>8. QED
    BY <1>3, <1>4, <1>5, <1>6, <1>7, FetchKeepsVerdict, DedupKeepsVerdict,
       WriteKeepsVerdict, DeleteKeepsVerdict DEF Acts, Continue

\* What is not the doing of an actor.
Environs ==
    \/ Tick \/ (\E v \in Version : Reconfigure(v))
    \/ (\E p \in Process : Crash(p)) \/ UNCHANGED vars

LEMMA EnvironsLeave ==
  ASSUME Environs
  PROVE  /\ UNCHANGED <<conf, meta>> /\ Present' = Present
         /\ \A a \in Actor : run'[a] \in {run[a], Idle}
  BY DEF Environs, Tick, Reconfigure, Crash, vars, dirVars, Present

LEMMA NextLone ==
  ASSUME ContentInv, ~SharedSecond, Alone, [Next]_vars
  PROVE  /\ ContentInv'
         /\ (\A a \in Actor : ListsAll(run[a])) =>
               \A a \in Actor : ListsAll(run[a])'
         /\ ListsTrulyInv /\ ~Compress =>
               \A a \in Actor : ListsTruly(run[a])'
         /\ LoneVerdictInv /\ KeepCopies # 0 =>
               \A a \in Actor : LoneVerdict(run[a])'
  <1>1. ContentInv'
    BY NextContent
  <1>2. CASE \E a \in Actor : Acts(a)
    <2>1. PICK a \in Actor : Acts(a) /\ \A b \in Actor : b = a
      BY <1>2, AloneActor
    <2>2. (\A b \in Actor : ListsAll(run[b])) => ListsAll(run[a])'
      BY <2>1, ListsAllKept DEF ListsAllInv
    <2>3. ListsTrulyInv /\ ~Compress => ListsTruly(run[a])'
      BY <2>1, ListsTrulyKept
    <2>4. LoneVerdictInv /\ KeepCopies # 0 => LoneVerdict(run[a])'
      BY <2>1, VerdictKept
    <2>5. QED
      BY <1>1, <2>1, <2>2, <2>3, <2>4
  <1>3. CASE Environs
    <2>1. ASSUME NEW a \in Actor, run'[a] = Idle
          PROVE  ListsAll(run[a])' /\ ListsTruly(run[a])' /\ LoneVerdict(run[a])'
      BY <2>1, IdleAlone
    <2>2. ASSUME NEW a \in Actor, run'[a] = run[a]
          PROVE  /\ ListsAll(run[a]) => ListsAll(run[a])'
                 /\ ListsTruly(run[a]) => ListsTruly(run[a])'
                 /\ LoneVerdict(run[a]) => LoneVerdict(run[a])'
      BY <1>3, <2>2, EnvironsLeave DEF ListsAll, ListsTruly, LoneVerdict
    <2>3. QED
      BY <1>1, <1>3, <2>1, <2>2, EnvironsLeave DEF ListsTrulyInv, LoneVerdictInv
  <1>4. QED
    BY <1>2, <1>3 DEF Next, Fault, Acts, Environs

LEMMA InitLone == Init => ListsTrulyInv /\ LoneVerdictInv
  <1> SUFFICES ASSUME Init PROVE ListsTrulyInv /\ LoneVerdictInv
    OBVIOUS
  <1>1. \A a \in Actor : run[a] = Idle
    BY DEF Init
  <1>2. Idle.step = "idle" /\ Idle.outcome = "none" /\ Idle.cfg = Absent
    BY DEF Idle
  <1>3. \A a \in Actor : ListsAll(run[a]) /\ ListsTruly(run[a]) /\ LoneVerdict(run[a])
    BY <1>1, <1>2 DEF ListsAll, ListsTruly, LoneVerdict, Holds, Relies, Mirroring
  <1>4. QED
    BY <1>3, InitContent DEF ListsTrulyInv, LoneVerdictInv, ListsAllInv

LEMMA ListsInvariant ==
  ASSUME ~SharedSecond, Alone, ~Compress
  PROVE  Spec => []ListsTrulyInv
  <1>1. ListsTrulyInv /\ [Next]_vars => ListsTrulyInv'
    BY NextLone DEF ListsTrulyInv, ListsAllInv
  <1>2. QED
    BY <1>1, InitLone, PTL DEF Spec

LEMMA VerdictInvariant ==
  ASSUME ~SharedSecond, Alone, KeepCopies # 0
  PROVE  Spec => []LoneVerdictInv
  <1>1. LoneVerdictInv /\ [Next]_vars => LoneVerdictInv'
    BY NextLone DEF LoneVerdictInv, ListsAllInv
  <1>2. QED
    BY <1>1, InitLone, PTL DEF Spec

\* A complete file is lost only when a run deletes it, and then the one that
\* the run relies on is complete.
LEMMA CompleteKept ==
  ASSUME LoneVerdictInv, KeepCopies # 0, [Next]_vars,
         NEW t \in Time, Complete(t)
  PROVE  \E u \in Time : conf'[u] \in Version
  <1>1. TypeOK /\ conf[t] \in Version /\ conf \in [Time -> Content]
    BY DEF LoneVerdictInv, ListsAllInv, ContentInv, RetentionInv, Complete, TypeOK
  <1>2. CASE conf' = conf
    BY <1>1, <1>2
  <1>3. ASSUME NEW a \in Actor, CreateConf(a) \/ WriteConf(a)
        PROVE  conf'[t] = conf[t]
    <2>1. conf[run[a].stem] \in {Torn, Absent} /\ run[a].stem \in Time
      BY <1>3, InvFacts
         DEF LoneVerdictInv, ListsAllInv, CreateConf, WriteConf, RecordTrue,
         ConfAtStem, Run
    <2>2. t # run[a].stem
      BY <1>1, <2>1, FileAssumption
    <2>3. QED
      BY <1>1, <1>3, <2>1, <2>2 DEF CreateConf, WriteConf
  <1>4. ASSUME NEW a \in Actor, NEW u \in Time, DeleteConf(a, u)
        PROVE  \E v \in Time : conf'[v] \in Version
    <2>1. /\ Relies(run[a]) /\ run[a].basis \in Time
          /\ conf'[run[a].basis] = conf[run[a].basis]
      BY <1>4, DeletesOlder
    <2>2. conf[run[a].basis] \in Version
      BY <2>1 DEF LoneVerdictInv, LoneVerdict
    <2>3. QED
      BY <2>1, <2>2
  <1>5. ASSUME NEW a \in Actor, Start(a) \/ StartPrune(a) \/ Cancel(a) \/ UploadFails(a)
                                \/ IoError(a)
        PROVE  conf' = conf
    BY <1>5 DEF Start, StartPrune, Cancel, UploadFails, IoError, Moves, dirVars
  <1>6. ASSUME NEW a \in Actor, FetchOk(a) \/ FetchFails(a) \/ OpenDir(a) \/ ListFails(a)
                 \/ DedupHit(a) \/ DedupMiss(a) \/ Relisted(a) \/ CreateMeta(a)
                 \/ WriteMeta(a)
        PROVE  conf' = conf
    BY <1>6 DEF FetchOk, FetchFails, OpenDir, ListFails, DedupHit, DedupMiss, Relisted,
       CreateMeta, WriteMeta, Moves, dirVars
  <1>7. ASSUME NEW a \in Actor, UploadConf(a) \/ UploadMeta(a) \/ UploadMissing(a)
                 \/ PickVictims(a) \/ EndDelete(a) \/ Planned(a) \/ CreateMark(a)
                 \/ WriteMark(a) \/ Report(a)
        PROVE  conf' = conf
    BY <1>7 DEF UploadConf, UploadMeta, UploadMissing, PickVictims, EndDelete, Planned,
       CreateMark, WriteMark, Report, Moves, dirVars
  <1>8. ASSUME NEW a \in Actor, NEW u \in Time, ReadEntry(a, u) \/ PassOver(a, u)
                                \/ Discover(a, u) \/ DeleteMeta(a, u)
        PROVE  conf' = conf
    BY <1>8 DEF ReadEntry, PassOver, Discover, DeleteMeta, Moves, dirVars
  <1>9. ASSUME Tick \/ (\E v \in Version : Reconfigure(v)) \/ (\E p \in Process : Crash(p))
               \/ UNCHANGED vars
        PROVE  conf' = conf
    BY <1>9 DEF Tick, Reconfigure, Crash, dirVars, vars
  <1>10. QED
    BY <1>1, <1>2, <1>3, <1>4, <1>5, <1>6, <1>7, <1>8, <1>9 DEF Next, Fault, Continue

\* As long as one run follows another and a copy is kept, a device that has a
\* complete backup always has one, whatever crashes or fails half-way
\* (save_backup and apply_retention).
THEOREM LastCopyKept ==
  ASSUME ~SharedSecond, Alone, KeepCopies # 0
  PROVE  Spec => NeverLosesLastCopy
  <1>1. LoneVerdictInv /\ [Next]_vars =>
          ((\E t \in Time : Complete(t)) => (\E t \in Time : Complete(t))')
    BY CompleteKept DEF Complete
  <1>2. QED
    BY <1>1, VerdictInvariant, PTL DEF Spec, NeverLosesLastCopy

\* As long as one run follows another and files are stored plain, a new file is
\* begun only if the newest one does not hold the very same configuration,
\* whatever an earlier run has left half-written (save_backup, latest_hash).
THEOREM OnlyChangesStored ==
  ASSUME ~SharedSecond, Alone, ~Compress
  PROVE  Spec => StoresOnlyChanges
  <1>1. ListsTrulyInv =>
          \A a \in Runner :
            run[a].step = "createConf" =>
              ~ \E t \in Time : IsNewest(t, Present) /\ conf[t] = run[a].cfg
    BY DEF ListsTrulyInv, ListsTruly, Actor
  <1>2. ListsTrulyInv /\ [Next]_vars =>
          \A a \in Runner :
            run[a].step = "createConf" /\ run'[a].step = "writeConf" =>
              ~ \E t \in Time : IsNewest(t, Present) /\ conf[t] = run[a].cfg
    BY <1>1
  <1>3. QED
    BY <1>2, ListsInvariant, PTL DEF Spec, StoresOnlyChanges
=============================================================================
