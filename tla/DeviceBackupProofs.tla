------------------------ MODULE DeviceBackupProofs ------------------------
(* Theorems of DeviceBackup, for every set of runners and pruners, every    *)
(* retention setting of each of them, and every bound.                      *)
EXTENDS DeviceBackup, FiniteSetTheorems, TLAPS

----------------------------------------------------------------------------
(* Type correctness *)

LEMMA IdleTyped == Idle \in Run /\ Failed \in Run
  <1>1. Idle \in Run
    BY BoundAssumption DEF Idle, Run, Step, Purpose, Time, Content
  <1>2. Failed \in Run
    BY <1>1 DEF Failed, Run, Step
  <1>3. QED
    BY <1>1, <1>2

LEMMA InitTyped == Init => TypeOK
  <1> SUFFICES ASSUME Init
               PROVE  TypeOK
    OBVIOUS
  <1>1. 0 \in Time /\ 0 \in 0..MaxFaults /\ Absent \in Content
    BY BoundAssumption DEF Time, Content
  <1>2. run \in [Actor -> Run]
    BY IdleTyped DEF Init
  <1>3. QED
    BY <1>1, <1>2 DEF Init, TypeOK

LEMMA AfterRetentionTyped ==
  ASSUME TypeOK, NEW a \in Actor
  PROVE  AfterRetention(a) \in Run
  <1>1. run[a] \in Run
    BY DEF TypeOK
  <1>2. [run[a] EXCEPT !.step = "mark", !.todo = {}, !.seen = {}, !.victims = {}] \in Run
    BY <1>1 DEF Run, Step
  <1>3. QED
    BY <1>2, IdleTyped DEF AfterRetention

LEMMA ReportTyped ==
  ASSUME NEW r \in Run
  PROVE  [r EXCEPT !.step = "report", !.at = 0] \in Run
  <1>1. 0 \in Time
    BY BoundAssumption DEF Time
  <1>2. QED
    BY <1>1 DEF Run, Step

\* A record that replaces an actor's is all that a step changes in `run`.
LEMMA RunTyped ==
  ASSUME TypeOK, NEW a \in Actor, NEW r \in Run, Becomes(a, r)
  PROVE  run' \in [Actor -> Run]
  BY DEF TypeOK, Becomes

\* ... and of many a step it is all that changes.
LEMMA MovesTyped ==
  ASSUME TypeOK, NEW a \in Actor, NEW r \in Run, Moves(a, r)
  PROVE  TypeOK'
  <1>1. run' \in [Actor -> Run]
    BY RunTyped DEF Moves
  <1>2. UNCHANGED <<envVars, dirVars, s3Vars, faults>>
    BY DEF Moves
  <1>3. QED
    BY <1>1, <1>2 DEF TypeOK, envVars, dirVars, s3Vars

\* Whatever an actor does by itself, the state stays well typed.
LEMMA ContinueTyped ==
  ASSUME TypeOK, NEW a \in Actor, Continue(a)
  PROVE  TypeOK'
  <1>0. run[a] \in Run /\ Idle \in Run /\ Failed \in Run /\ AfterRetention(a) \in Run
    BY IdleTyped, AfterRetentionTyped DEF TypeOK
  <1> USE DEF envVars, dirVars, s3Vars
  <1>1. CASE FetchOk(a)
    <2>1. [run[a] EXCEPT !.step = "open", !.purpose = "dedup",
                          !.cfg = device, !.stem = now] \in Run
      BY <1>0 DEF Run, Step, Purpose, TypeOK
    <2>2. QED
      BY <1>0, <1>1, <2>1, FileAssumption, RunTyped DEF FetchOk, TypeOK
  <1>2. CASE FetchFails(a)
    BY <1>0, <1>2, MovesTyped DEF FetchFails
  <1>3. CASE OpenDir(a)
    <2>1. [run[a] EXCEPT !.step = "scan", !.todo = Present,
                          !.seen = {}, !.newest = Absent] \in Run
      BY <1>0 DEF Run, Step, Content, Present
    <2>2. QED
      BY <1>0, <1>3, <2>1, MovesTyped DEF OpenDir
  <1>4. CASE ListFails(a)
    BY <1>0, <1>4, MovesTyped DEF ListFails
  <1>5. CASE DedupHit(a)
    <2>1. PICK t \in Time :
             Moves(a, [run[a] EXCEPT !.step = "open", !.purpose = "relist", !.basis = t,
                                     !.seen = {}, !.newest = Absent])
      BY <1>5 DEF DedupHit
    <2>2. "open" \in Step /\ "relist" \in Purpose /\ Absent \in Content
      BY DEF Step, Purpose, Content
    <2>3. [run[a] EXCEPT !.step = "open", !.purpose = "relist", !.basis = t,
                          !.seen = {}, !.newest = Absent] \in Run
      BY <1>0, <2>2 DEF Run
    <2>4. QED
      BY <2>1, <2>3, MovesTyped
  <1>6. CASE DedupMiss(a)
    <2>1. [run[a] EXCEPT !.step = "createConf", !.basis = run[a].stem,
                          !.seen = {}, !.newest = Absent] \in Run
      BY <1>0 DEF Run, Step, Content
    <2>2. QED
      BY <1>0, <1>6, <2>1, MovesTyped DEF DedupMiss
  <1>7. CASE Relisted(a)
    <2>1. [run[a] EXCEPT !.step = "open", !.purpose = "retain",
                          !.outcome = "noChange", !.seen = {}] \in Run
      BY <1>0 DEF Run, Step, Purpose
    <2>2. QED
      BY <1>0, <1>7, <2>1, MovesTyped DEF Relisted
  <1>8. CASE CreateConf(a)
    <2>1. [run[a] EXCEPT !.step = "writeConf"] \in Run
      BY <1>0 DEF Run, Step
    <2>2. QED
      BY <1>0, <1>8, <2>1, RunTyped DEF CreateConf, TypeOK, Content
  <1>9. CASE WriteConf(a)
    <2>1. [run[a] EXCEPT !.step = "createMeta"] \in Run
      BY <1>0 DEF Run, Step
    <2>2. run[a].stem \in Time /\ run[a].cfg \in Content
      BY <1>0 DEF Run, Content
    <2>3. Written(conf[run[a].stem], run[a].cfg) \subseteq Content
      BY <2>2 DEF TypeOK, Written, Content
    <2>4. conf' \in [Time -> Content]
      BY <1>9, <2>2, <2>3 DEF WriteConf, TypeOK
    <2>5. QED
      BY <1>0, <1>9, <2>1, <2>4, RunTyped DEF WriteConf, TypeOK
  <1>10. CASE CreateMeta(a)
    <2>1. [run[a] EXCEPT !.step = "writeMeta"] \in Run
      BY <1>0 DEF Run, Step
    <2>2. meta' \in [Time -> Content]
      BY <1>10 DEF CreateMeta, TypeOK, Content
    <2>3. QED
      BY <1>10, <2>1, <2>2, RunTyped DEF CreateMeta, TypeOK
  <1>11. CASE WriteMeta(a)
    <2>1. [run[a] EXCEPT !.step = IF S3 THEN "uploadConf" ELSE "open",
                          !.purpose = "retain", !.outcome = "changed"] \in Run
      <3>1. (IF S3 THEN "uploadConf" ELSE "open") \in Step /\ "retain" \in Purpose
        BY DEF Step, Purpose
      <3>2. QED
        BY <1>0, <3>1 DEF Run
    <2>2. run[a].stem \in Time /\ run[a].cfg \in Content
      BY <1>0 DEF Run, Content
    <2>3. Written(meta[run[a].stem], run[a].cfg) \subseteq Content
      BY <2>2 DEF TypeOK, Written, Content
    <2>4. meta' \in [Time -> Content]
      BY <1>11, <2>2, <2>3 DEF WriteMeta, TypeOK
    <2>5. QED
      BY <1>0, <1>11, <2>1, <2>4, RunTyped DEF WriteMeta, TypeOK
  <1>12. CASE UploadConf(a)
    <2>1. [run[a] EXCEPT !.step = "uploadMeta"] \in Run
      BY <1>0 DEF Run, Step
    <2>2. QED
      BY <1>0, <1>12, <2>1, RunTyped DEF UploadConf, TypeOK
  <1>13. CASE UploadMeta(a)
    <2>1. [run[a] EXCEPT !.step = "open"] \in Run
      BY <1>0 DEF Run, Step
    <2>2. QED
      BY <1>0, <1>13, <2>1, RunTyped DEF UploadMeta, TypeOK
  <1>14. CASE UploadMissing(a)
    <2>1. [run[a] EXCEPT !.step = "open"] \in Run
      BY <1>0 DEF Run, Step
    <2>2. QED
      BY <1>0, <1>14, <2>1, MovesTyped DEF UploadMissing
  <1>15. CASE PickVictims(a)
    <2>1. [run[a] EXCEPT !.step = "delete", !.seen = {},
                          !.victims = Victims(a, run[a].seen)] \in Run
      BY <1>0 DEF Run, Step, Victims
    <2>2. QED
      BY <1>0, <1>15, <2>1, MovesTyped DEF PickVictims
  <1>16. CASE EndDelete(a)
    BY <1>0, <1>16, MovesTyped DEF EndDelete
  <1>17. CASE Planned(a)
    <2>1. [Idle EXCEPT !.step = "open", !.purpose = "retain"] \in Run
      <3>1. "open" \in Step /\ "retain" \in Purpose
        BY DEF Step, Purpose
      <3>2. QED
        BY <1>0, <3>1 DEF Run
    <2>2. QED
      BY <1>0, <1>17, <2>1, MovesTyped DEF Planned
  <1>18. CASE CreateMark(a)
    <2>1. [run[a] EXCEPT !.step = "writeMark", !.at = now] \in Run
      BY <1>0 DEF Run, Step, TypeOK
    <2>2. QED
      BY <1>0, <1>18, <2>1, RunTyped DEF CreateMark, TypeOK
  <1>19. CASE WriteMark(a)
    <2>1. [run[a] EXCEPT !.step = "report", !.at = 0] \in Run
      BY <1>0, ReportTyped
    <2>2. run[a].at \in Time
      BY <1>0 DEF Run
    <2>3. Written(marker, run[a].at) \subseteq Time \cup {Absent, Torn}
      BY <2>2 DEF TypeOK, Written
    <2>4. QED
      BY <1>0, <1>19, <2>1, <2>3, RunTyped DEF WriteMark, TypeOK
  <1>20. CASE Report(a)
    BY <1>0, <1>20, MovesTyped DEF Report
  <1>21. ASSUME NEW t \in Time, ReadEntry(a, t) PROVE TypeOK'
    <2>1. [run[a] EXCEPT
                  !.todo = @ \ {t},
                  !.seen = @ \cup {t},
                  !.newest = IF run[a].purpose = "dedup" /\ Newer(run[a].seen, t) = {}
                             THEN EntryHash(t) ELSE @] \in Run
      <3>1. EntryHash(t) \in Content
        BY DEF TypeOK, EntryHash, Content
      <3>2. QED
        BY <1>0, <3>1 DEF Run
    <2>2. QED
      BY <1>21, <2>1, MovesTyped DEF ReadEntry
  <1>22. ASSUME NEW t \in Time, DeleteConf(a, t) PROVE TypeOK'
    <2>1. [run[a] EXCEPT !.step = "deleteMeta"] \in Run
      BY <1>0 DEF Run, Step
    <2>2. QED
      BY <1>22, <2>1, RunTyped DEF DeleteConf, TypeOK, Content
  <1>23. ASSUME NEW t \in Time, DeleteMeta(a, t) PROVE TypeOK'
    <2>1. [run[a] EXCEPT !.step = "delete", !.victims = @ \ {t}] \in Run
      BY <1>0 DEF Run, Step
    <2>2. QED
      BY <1>23, <2>1, RunTyped DEF DeleteMeta, TypeOK, Content
  <1>24. ASSUME NEW t \in Time, PassOver(a, t) PROVE TypeOK'
    <2>1. [run[a] EXCEPT !.todo = @ \ {t}] \in Run
      BY <1>0 DEF Run
    <2>2. QED
      BY <1>24, <2>1, MovesTyped DEF PassOver
  <1>25. ASSUME NEW t \in Time, Discover(a, t) PROVE TypeOK'
    <2>1. [run[a] EXCEPT !.todo = @ \cup {t}] \in Run
      BY <1>0 DEF Run
    <2>2. QED
      BY <1>25, <2>1, MovesTyped DEF Discover
  <1>26. QED
    BY <1>1, <1>2, <1>3, <1>4, <1>5, <1>6, <1>7, <1>8, <1>9, <1>10, <1>11,
       <1>12, <1>13, <1>14, <1>15, <1>16, <1>17, <1>18, <1>19, <1>20, <1>21,
       <1>22, <1>23, <1>24, <1>25
       DEF Continue

LEMMA FaultTyped ==
  ASSUME TypeOK, Fault
  PROVE  TypeOK'
  <1> USE DEF envVars, dirVars, s3Vars
  <1>1. Idle \in Run /\ Failed \in Run
    BY IdleTyped
  <1>2. ASSUME faults < MaxFaults, faults' = faults + 1
        PROVE  faults' \in 0..MaxFaults
    BY <1>2, BoundAssumption DEF TypeOK
  <1>3. ASSUME NEW p \in Process, Crash(p) PROVE TypeOK'
    BY <1>1, <1>2, <1>3 DEF Crash, TypeOK
  <1>4. ASSUME NEW a \in Actor, Cancel(a) PROVE TypeOK'
    BY <1>1, <1>2, <1>4, RunTyped DEF Cancel, TypeOK
  <1>5. ASSUME NEW a \in Actor, UploadFails(a) PROVE TypeOK'
    <2>1. [run[a] EXCEPT !.step = "open"] \in Run
      BY DEF TypeOK, Run, Step
    <2>2. s3conf' \in [Time -> Content] /\ s3meta' \in [Time -> Content]
      BY <1>5 DEF UploadFails, TypeOK, Run
    <2>3. QED
      BY <1>2, <1>5, <2>1, <2>2, RunTyped DEF UploadFails, TypeOK
  <1>6. ASSUME NEW a \in Actor, IoError(a) PROVE TypeOK'
    <2>1. [run[a] EXCEPT !.step = "report", !.at = 0] \in Run
      BY ReportTyped DEF TypeOK
    <2>2. QED
      BY <1>1, <1>2, <1>6, <2>1, AfterRetentionTyped, RunTyped DEF IoError, TypeOK
  <1>7. QED
    BY <1>3, <1>4, <1>5, <1>6 DEF Fault

LEMMA NextTyped ==
  ASSUME TypeOK, [Next]_vars
  PROVE  TypeOK'
  <1> USE DEF envVars, dirVars, s3Vars
  <1>1. CASE Tick
    BY <1>1, BoundAssumption DEF Tick, TypeOK, Time
  <1>2. ASSUME NEW v \in Version, Reconfigure(v) PROVE TypeOK'
    BY <1>2 DEF Reconfigure, TypeOK
  <1>3. ASSUME NEW a \in Actor, Start(a) PROVE TypeOK'
    <2>1. [run[a] EXCEPT !.step = "fetch"] \in Run
      <3>1. run[a] \in Run /\ "fetch" \in Step
        BY DEF TypeOK, Step
      <3>2. QED
        BY <3>1 DEF Run
    <2>2. QED
      BY <1>3, <2>1, MovesTyped DEF Start
  <1>4. ASSUME NEW a \in Actor, StartPrune(a) PROVE TypeOK'
    <2>1. [run[a] EXCEPT !.step = "open", !.purpose = "plan"] \in Run
      <3>1. run[a] \in Run /\ "open" \in Step /\ "plan" \in Purpose
        BY DEF TypeOK, Step, Purpose
      <3>2. QED
        BY <3>1 DEF Run
    <2>2. QED
      BY <1>4, <2>1, MovesTyped DEF StartPrune
  <1>5. CASE UNCHANGED vars
    BY <1>5 DEF vars, TypeOK
  <1>6. QED
    BY <1>1, <1>2, <1>3, <1>4, <1>5, ContinueTyped, FaultTyped DEF Next

\* Every variable keeps its type (the type invariant of the model).
THEOREM TypeCorrect == Spec => []TypeOK
  <1>1. QED
    BY InitTyped, NextTyped, PTL DEF Spec

----------------------------------------------------------------------------
(* Counting newer files *)

LEMMA NewerFinite ==
  ASSUME NEW S \in SUBSET Time, NEW t
  PROVE  IsFiniteSet(Newer(S, t)) /\ Cardinality(Newer(S, t)) \in Nat
  <1>1. IsFiniteSet(Time)
    BY BoundAssumption, FS_Interval DEF Time
  <1>2. Newer(S, t) \subseteq Time
    BY DEF Newer
  <1>3. QED
    BY <1>1, <1>2, FS_Subset, FS_CardinalityType

\* More files never make fewer newer ones.
LEMMA NewerMonotone ==
  ASSUME NEW S \in SUBSET Time, NEW T \in SUBSET Time, NEW t, NEW u,
         Newer(S, t) \subseteq Newer(T, u), Enough(S, t)
  PROVE  Enough(T, u)
  <1>1. Cardinality(Newer(S, t)) <= Cardinality(Newer(T, u))
    BY NewerFinite, FS_Subset
  <1>2. QED
    BY <1>1, NewerFinite, RetentionAssumption DEF Enough

\* Deleting a file that has enough newer ones takes enough newer ones from no
\* other: those that were newer than the deleted file are newer than any file
\* that is older than it.
LEMMA DeletionKeepsEnough ==
  ASSUME NEW S \in SUBSET Time, NEW d \in S, Enough(S, d),
         NEW t \in Time, Enough(S, t)
  PROVE  Enough(S \ {d}, t)
  <1>1. CASE t < d
    <2>1. ASSUME NEW u \in Newer(S, d) PROVE u \in Newer(S \ {d}, t)
      <3>1. u \in Time /\ u \in S /\ u > d /\ d \in Time
        BY DEF Newer
      <3>2. u > t /\ u # d
        BY <1>1, <3>1, BoundAssumption DEF Time
      <3>3. QED
        BY <3>1, <3>2 DEF Newer
    <2>2. QED
      BY <2>1, NewerMonotone
  <1>2. CASE ~(t < d)
    <2>1. Newer(S, t) \subseteq Newer(S \ {d}, t)
      BY <1>2, BoundAssumption DEF Newer, Time
    <2>2. QED
      BY <2>1, NewerMonotone
  <1>3. QED
    BY <1>1, <1>2

----------------------------------------------------------------------------
(* Retention.  What one actor knows is `backed' when whatever it has listed  *)
(* is there or has enough newer files, and its victims may be deleted.       *)

ListingBacked(r) ==
    \A t \in r.seen \cup r.todo : t \in Present \/ Enough(Present, t)

Backed(r) ==
    /\ r.stem <= now
    /\ ListingBacked(r)
    /\ \A t \in r.victims : t + KeepDays < now /\ Enough(Present, t)

LEMMA InvBacked == RetentionInv => \A a \in Actor : run[a] \in Run /\ Backed(run[a])
  BY DEF RetentionInv, TypeOK, StemsInPast, ListedBacked, VictimsBacked,
     Backed, ListingBacked

\* If every element of S is there or has enough newer files, then S never shows
\* enough newer files where there are not: either all it shows are there, or
\* one that is not has enough newer ones, which are newer than t as well.
LEMMA ListingTrustworthy ==
  ASSUME NEW S \in SUBSET Time, \A u \in S : u \in Present \/ Enough(Present, u),
         NEW t \in Time, Enough(S, t)
  PROVE  Enough(Present, t)
  <1>1. Present \in SUBSET Time
    BY DEF Present
  <1>2. CASE Newer(S, t) \subseteq Present
    <2>1. Newer(S, t) \subseteq Newer(Present, t)
      BY <1>2 DEF Newer
    <2>2. QED
      BY <1>1, <2>1, NewerMonotone
  <1>3. CASE ~(Newer(S, t) \subseteq Present)
    <2>1. PICK u \in S : u > t /\ u \notin Present
      BY <1>3 DEF Newer
    <2>2. Enough(Present, u) /\ u \in Time
      BY <2>1
    <2>3. ASSUME NEW v \in Newer(Present, u) PROVE v \in Newer(Present, t)
      <3>1. v \in Present /\ v \in Time /\ v > u
        BY <1>1 DEF Newer
      <3>2. v > t
        BY <2>1, <2>2, <3>1, BoundAssumption DEF Time
      <3>3. QED
        BY <3>1, <3>2 DEF Newer
    <2>4. QED
      BY <1>1, <2>2, <2>3, NewerMonotone
  <1>4. QED
    BY <1>2, <1>3

\* r knows no more than q: every file r counts on, q counted on.
Shrunk(r, q) ==
    /\ r.seen \cup r.todo \subseteq q.seen \cup q.todo
    /\ r.victims \subseteq q.victims
    /\ r.stem \in {q.stem, 0, now}

LEMMA ShrunkBacked ==
  ASSUME TypeOK, NEW q \in Run, NEW r \in Run, Backed(q), Shrunk(r, q)
  PROVE  Backed(r)
  <1>1. r.stem <= now
    BY BoundAssumption DEF TypeOK, Time, Backed, Shrunk
  <1>2. QED
    BY <1>1 DEF Backed, ListingBacked, Shrunk

\* What a step of the pipeline makes of the record of its actor is backed.
LEMMA IdleBacked ==
  ASSUME TypeOK, NEW q \in Run, Backed(q)
  PROVE  Backed(Idle) /\ Backed(Failed)
  <1>1. Shrunk(Idle, q) /\ Shrunk(Failed, q)
    BY DEF Shrunk, Idle, Failed
  <1>2. QED
    BY <1>1, IdleTyped, ShrunkBacked

LEMMA AfterRetentionBacked ==
  ASSUME RetentionInv, NEW a \in Actor
  PROVE  Backed(AfterRetention(a))
  <1>1. run[a] \in Run /\ Backed(run[a]) /\ TypeOK
    BY InvBacked DEF RetentionInv
  <1>2. Backed(Idle)
    BY <1>1, IdleBacked
  <1>3. CASE a \in Runner
    <2>1. Shrunk(AfterRetention(a), run[a])
      BY <1>1, <1>3 DEF Shrunk, AfterRetention, Run
    <2>2. QED
      BY <1>1, <2>1, AfterRetentionTyped, ShrunkBacked
  <1>4. QED
    BY <1>2, <1>3 DEF AfterRetention

LEMMA OpenDirBacked ==
  ASSUME RetentionInv, NEW a \in Actor, OpenDir(a)
  PROVE  Backed(run'[a])
  <1>1. run[a] \in Run /\ Backed(run[a]) /\ a \in Actor
    BY InvBacked
  <1>2. /\ run'[a].stem = run[a].stem
        /\ run'[a].victims = run[a].victims
        /\ run'[a].seen = {} /\ run'[a].todo = Present
    BY <1>1 DEF OpenDir, Moves, Becomes, Run, RetentionInv, TypeOK
  <1>3. run'[a].seen \cup run'[a].todo = Present
    BY <1>2
  <1>4. QED
    BY <1>1, <1>2, <1>3 DEF Backed, ListingBacked

LEMMA PickVictimsBacked ==
  ASSUME RetentionInv, NEW a \in Actor, PickVictims(a)
  PROVE  Backed(run'[a])
  <1>1. run[a] \in Run /\ Backed(run[a]) /\ TypeOK
    BY InvBacked DEF RetentionInv
  <1>2. /\ run'[a].stem = run[a].stem
        /\ run'[a].victims = Victims(a, run[a].seen)
        /\ run'[a].seen = {} /\ run'[a].todo = {} /\ run[a].todo = {}
    BY <1>1 DEF PickVictims, Listed, Moves, Becomes, Run, TypeOK
  <1>3. ASSUME NEW t \in run'[a].victims
        PROVE  t + KeepDays < now /\ Enough(Present, t)
    <2>1. /\ t \in run[a].seen /\ t \in Time
          /\ Cardinality(Newer(run[a].seen, t)) >= MinCopies[a]
          /\ t + RetentionDays[a] < now
      BY <1>1, <1>2 DEF Victims, Run
    <2>2. t + KeepDays < now
      BY <1>1, <2>1, RetentionAssumption, BoundAssumption DEF TypeOK, Time
    <2>3. run[a].seen \in SUBSET Time
      BY <1>1 DEF Run
    <2>4. Cardinality(Newer(run[a].seen, t)) \in Nat
      BY <2>3, NewerFinite
    <2>5. Enough(run[a].seen, t)
      BY <2>1, <2>4, RetentionAssumption DEF Enough
    <2>6. \A u \in run[a].seen : u \in Present \/ Enough(Present, u)
      BY <1>1 DEF Backed, ListingBacked
    <2>7. QED
      BY <2>1, <2>2, <2>3, <2>5, <2>6, ListingTrustworthy
  <1>4. ListingBacked(run'[a])
    BY <1>2 DEF ListingBacked
  <1>5. QED
    BY <1>1, <1>2, <1>3, <1>4 DEF Backed

\* An entry that is found late is there.
LEMMA DiscoverBacked ==
  ASSUME RetentionInv, NEW a \in Actor, NEW t \in Time, Discover(a, t)
  PROVE  Backed(run'[a])
  <1>1. run[a] \in Run /\ Backed(run[a])
    BY InvBacked
  <1>2. /\ run'[a].stem = run[a].stem
        /\ run'[a].victims = run[a].victims
        /\ run'[a].seen = run[a].seen /\ run'[a].todo = run[a].todo \cup {t}
        /\ t \in Present
    BY <1>1 DEF Discover, Moves, Becomes, Run, RetentionInv, TypeOK
  <1>3. ListingBacked(run'[a])
    BY <1>1, <1>2 DEF Backed, ListingBacked
  <1>4. QED
    BY <1>1, <1>2, <1>3 DEF Backed

LEMMA ShrinkingSteps ==
  ASSUME RetentionInv, NEW a \in Actor,
         \/ FetchOk(a) \/ DedupHit(a) \/ DedupMiss(a) \/ Relisted(a)
         \/ CreateConf(a) \/ WriteConf(a) \/ CreateMeta(a) \/ WriteMeta(a)
         \/ UploadConf(a) \/ UploadMeta(a) \/ UploadMissing(a) \/ UploadFails(a)
         \/ CreateMark(a) \/ WriteMark(a) \/ Start(a) \/ StartPrune(a)
         \/ \E t \in Time : ReadEntry(a, t) \/ PassOver(a, t)
         \/ \E t \in Time : DeleteConf(a, t) \/ DeleteMeta(a, t)
  PROVE  Shrunk(run'[a], run[a])
  <1>1. run[a] \in Run /\ run \in [Actor -> Run]
    BY DEF RetentionInv, TypeOK
  <1> USE DEF Moves, Becomes, Shrunk, Run
  <1>2. CASE FetchOk(a)
    BY <1>1, <1>2 DEF FetchOk
  <1>3. CASE DedupHit(a)
    <2>1. PICK t \in Time :
             run' = [run EXCEPT ![a] =
                       [run[a] EXCEPT !.step = "open", !.purpose = "relist", !.basis = t,
                                      !.seen = {}, !.newest = Absent]]
      BY <1>3 DEF DedupHit
    <2>2. /\ run'[a].stem = run[a].stem
          /\ run'[a].victims = run[a].victims
          /\ run'[a].seen = {} /\ run'[a].todo = run[a].todo
      BY <1>1, <2>1
    <2>3. QED
      BY <2>2
  <1>4. CASE DedupMiss(a)
    BY <1>1, <1>4 DEF DedupMiss
  <1>5. CASE Relisted(a)
    BY <1>1, <1>5 DEF Relisted
  <1>6. CASE CreateConf(a)
    BY <1>1, <1>6 DEF CreateConf
  <1>7. CASE WriteConf(a)
    BY <1>1, <1>7 DEF WriteConf
  <1>8. CASE CreateMeta(a)
    BY <1>1, <1>8 DEF CreateMeta
  <1>9. CASE WriteMeta(a)
    BY <1>1, <1>9 DEF WriteMeta
  <1>10. CASE UploadConf(a)
    BY <1>1, <1>10 DEF UploadConf
  <1>11. CASE UploadMeta(a)
    BY <1>1, <1>11 DEF UploadMeta
  <1>12. CASE UploadMissing(a)
    BY <1>1, <1>12 DEF UploadMissing
  <1>13. CASE UploadFails(a)
    BY <1>1, <1>13 DEF UploadFails
  <1>14. CASE CreateMark(a)
    BY <1>1, <1>14 DEF CreateMark
  <1>15. CASE WriteMark(a)
    BY <1>1, <1>15 DEF WriteMark
  <1>16. CASE Start(a)
    BY <1>1, <1>16 DEF Start
  <1>17. CASE StartPrune(a)
    BY <1>1, <1>17 DEF StartPrune
  <1>18. CASE \E t \in Time : ReadEntry(a, t)
    <2>1. PICK t \in Time : ReadEntry(a, t)
      BY <1>18
    <2>2. /\ run'[a].stem = run[a].stem
          /\ run'[a].victims = run[a].victims
          /\ run'[a].seen = run[a].seen \cup {t}
          /\ run'[a].todo = run[a].todo \ {t}
          /\ t \in run[a].todo
      BY <1>1, <2>1 DEF ReadEntry
    <2>3. QED
      BY <2>2
  <1>19. CASE \E t \in Time : DeleteConf(a, t)
    BY <1>1, <1>19 DEF DeleteConf
  <1>20. CASE \E t \in Time : DeleteMeta(a, t)
    <2>1. PICK t \in Time : DeleteMeta(a, t)
      BY <1>20
    <2>2. /\ run'[a].stem = run[a].stem
          /\ run'[a].victims = run[a].victims \ {t}
          /\ run'[a].seen = run[a].seen
          /\ run'[a].todo = run[a].todo
      BY <1>1, <2>1 DEF DeleteMeta
    <2>3. QED
      BY <2>2
  <1>21. CASE \E t \in Time : PassOver(a, t)
    <2>1. PICK t \in Time : PassOver(a, t)
      BY <1>21
    <2>2. /\ run'[a].stem = run[a].stem
          /\ run'[a].victims = run[a].victims
          /\ run'[a].seen = run[a].seen
          /\ run'[a].todo = run[a].todo \ {t}
      BY <1>1, <2>1 DEF PassOver
    <2>3. QED
      BY <2>2
  <1>22. QED
    BY <1>2, <1>3, <1>4, <1>5, <1>6, <1>7, <1>8, <1>9, <1>10, <1>11, <1>12,
       <1>13, <1>14, <1>15, <1>16, <1>17, <1>18, <1>19, <1>20, <1>21

\* The record of one actor after any step of [Next]_vars is the one it had, or
\* is backed.
LEMMA ContinueBacked ==
  ASSUME RetentionInv, TypeOK', NEW a \in Actor, Continue(a)
  PROVE  /\ Backed(run'[a])
         /\ \A b \in Actor \ {a} : run'[b] = run[b]
  <1>1. /\ run[a] \in Run /\ Backed(run[a]) /\ TypeOK
        /\ run'[a] \in Run /\ run \in [Actor -> Run]
    BY InvBacked DEF RetentionInv, TypeOK
  <1>2. \A b \in Actor \ {a} : run'[b] = run[b]
    BY <1>1 DEF Continue, FetchOk, FetchFails, OpenDir, ListFails, DedupHit,
       DedupMiss, Relisted, CreateConf, WriteConf, CreateMeta, WriteMeta,
       UploadConf, UploadMeta, UploadMissing, PickVictims, EndDelete, Planned,
       CreateMark, WriteMark, Report, ReadEntry, PassOver, Discover, DeleteConf,
       DeleteMeta, Moves, Becomes
  <1>3. /\ Backed(Idle) /\ Backed(Failed)
        /\ Backed(AfterRetention(a))
    BY <1>1, IdleBacked, AfterRetentionBacked
  <1>4. CASE FetchFails(a) \/ Report(a) \/ ListFails(a) \/ EndDelete(a)
    <2>1. run'[a] \in {Idle, Failed, AfterRetention(a)}
      BY <1>1, <1>4 DEF FetchFails, Report, ListFails, EndDelete, Moves, Becomes
    <2>2. QED
      BY <1>2, <1>3, <2>1
  <1>5. CASE OpenDir(a) \/ PickVictims(a) \/ \E t \in Time : Discover(a, t)
    BY <1>2, <1>5, OpenDirBacked, PickVictimsBacked, DiscoverBacked
  <1>6. CASE Planned(a)
    <2>1. Shrunk(run'[a], Idle)
      BY <1>1, <1>6 DEF Planned, Moves, Becomes, Shrunk, Idle
    <2>2. QED
      BY <1>1, <1>2, <1>3, <2>1, IdleTyped, ShrunkBacked
  <1>7. CASE Shrunk(run'[a], run[a])
    BY <1>1, <1>2, <1>7, ShrunkBacked
  <1>8. QED
    BY <1>4, <1>5, <1>6, <1>7, ShrinkingSteps DEF Continue

LEMMA NextRecordsBacked ==
  ASSUME RetentionInv, TypeOK', [Next]_vars, NEW b \in Actor
  PROVE  Backed(run'[b])
  <1>1. /\ run[b] \in Run /\ Backed(run[b]) /\ TypeOK
        /\ run \in [Actor -> Run] /\ run' \in [Actor -> Run]
    BY InvBacked DEF RetentionInv, TypeOK
  <1>2. Backed(Idle) /\ Backed(Failed)
    BY <1>1, IdleBacked
  <1>3. CASE run'[b] = run[b]
    BY <1>1, <1>3
  <1>4. CASE Tick \/ (\E v \in Version : Reconfigure(v)) \/ UNCHANGED vars
    BY <1>3, <1>4 DEF Tick, Reconfigure, vars
  <1>5. ASSUME NEW a \in Actor, Continue(a)
        PROVE  Backed(run'[b])
    BY <1>3, <1>5, ContinueBacked
  <1>6. ASSUME NEW a \in Actor, Start(a) \/ StartPrune(a) \/ UploadFails(a)
        PROVE  Backed(run'[b])
    <2>1. \A c \in Actor \ {a} : run'[c] = run[c]
      BY <1>1, <1>6 DEF Start, StartPrune, UploadFails, Moves, Becomes
    <2>2. b = a => Shrunk(run'[b], run[b])
      BY <1>6, ShrinkingSteps
    <2>3. QED
      BY <1>1, <1>3, <2>1, <2>2, ShrunkBacked
  <1>7. ASSUME NEW a \in Actor, Cancel(a)
        PROVE  Backed(run'[b])
    <2>1. run'[b] \in {Idle, run[b]}
      BY <1>1, <1>7 DEF Cancel, Becomes
    <2>2. QED
      BY <1>2, <1>3, <2>1
  <1>8. ASSUME NEW p \in Process, Crash(p)
        PROVE  Backed(run'[b])
    <2>1. run'[b] \in {Idle, run[b]}
      BY <1>1, <1>8 DEF Crash
    <2>2. QED
      BY <1>2, <1>3, <2>1
  <1>9. ASSUME NEW a \in Actor, IoError(a)
        PROVE  Backed(run'[b])
    <2>1. CASE b # a
      BY <1>1, <1>3, <1>9, <2>1 DEF IoError, Becomes
    <2>2. CASE b = a
      <3>1. \/ run'[a] \in {Failed, AfterRetention(a)}
            \/ run'[a] = [run[a] EXCEPT !.step = "report", !.at = 0]
        BY <1>1, <1>9 DEF IoError, Becomes
      <3>2. Shrunk([run[a] EXCEPT !.step = "report", !.at = 0], run[a])
        BY <1>1, <2>2 DEF Shrunk, Run
      <3>3. QED
        BY <1>1, <1>2, <2>2, <3>1, <3>2, AfterRetentionBacked, ShrunkBacked
    <2>3. QED
      BY <2>1, <2>2
  <1>10. QED
    BY <1>4, <1>5, <1>6, <1>7, <1>8, <1>9 DEF Next, Fault

----------------------------------------------------------------------------
(* Nothing is saved before it is fetched *)

Known(r) ==
    \/ r.step \in {"createConf", "writeConf", "createMeta", "writeMeta",
                   "uploadConf", "uploadMeta"}
    \/ r.step \in {"open", "scan"} /\ r.purpose = "dedup"
    => r.cfg \in Version

\* Only a fetch makes a record that must know its artifact from one that need not.
LEMMA ContinueKnown ==
  ASSUME RetentionInv, NEW a \in Actor, Continue(a)
  PROVE  Known(run'[a])
  <1>1. /\ run[a] \in Run /\ Known(run[a]) /\ device \in Version
        /\ run \in [Actor -> Run]
    BY DEF RetentionInv, TypeOK, ArtifactKnown, Known
  <1>2. Known(Idle) /\ Known(Failed) /\ Known(AfterRetention(a))
    BY <1>1 DEF Known, Idle, Failed, AfterRetention, Run
  <1> USE DEF Moves, Becomes, Known, Run
  <1>3. CASE FetchOk(a)
    BY <1>1, <1>3 DEF FetchOk
  <1>4. CASE FetchFails(a) \/ ListFails(a) \/ EndDelete(a) \/ Report(a)
    <2>1. run'[a] \in {Idle, Failed, AfterRetention(a)}
      BY <1>1, <1>4 DEF FetchFails, ListFails, EndDelete, Report
    <2>2. QED
      BY <1>2, <2>1
  <1>5. CASE OpenDir(a)
    BY <1>1, <1>5 DEF OpenDir
  <1>6. CASE DedupMiss(a)
    BY <1>1, <1>6 DEF DedupMiss, Listed
  <1>7. CASE DedupHit(a) \/ Relisted(a) \/ PickVictims(a)
    <2>1. CASE DedupHit(a)
      <3>1. PICK t \in Time :
               run' = [run EXCEPT ![a] =
                         [run[a] EXCEPT !.step = "open", !.purpose = "relist",
                                        !.basis = t, !.seen = {}, !.newest = Absent]]
        BY <2>1 DEF DedupHit
      <3>2. run'[a].step = "open" /\ run'[a].purpose = "relist"
        BY <1>1, <3>1
      <3>3. QED
        BY <3>2
    <2>2. CASE Relisted(a)
      BY <1>1, <2>2 DEF Relisted
    <2>3. CASE PickVictims(a)
      BY <1>1, <2>3 DEF PickVictims
    <2>4. QED
      BY <1>7, <2>1, <2>2, <2>3
  <1>8. CASE CreateConf(a) \/ WriteConf(a) \/ CreateMeta(a) \/ WriteMeta(a)
             \/ UploadConf(a) \/ UploadMeta(a) \/ UploadMissing(a)
    <2>1. run[a].cfg \in Version
      BY <1>1, <1>8 DEF CreateConf, WriteConf, CreateMeta, WriteMeta,
         UploadConf, UploadMeta, UploadMissing
    <2>2. run'[a].cfg = run[a].cfg
      <3>1. CASE CreateConf(a) \/ WriteConf(a) \/ CreateMeta(a)
        BY <1>1, <3>1 DEF CreateConf, WriteConf, CreateMeta
      <3>2. CASE WriteMeta(a)
        BY <1>1, <3>2 DEF WriteMeta
      <3>3. CASE UploadConf(a) \/ UploadMeta(a) \/ UploadMissing(a)
        BY <1>1, <3>3 DEF UploadConf, UploadMeta, UploadMissing
      <3>4. QED
        BY <1>8, <3>1, <3>2, <3>3
    <2>3. QED
      BY <2>1, <2>2
  <1>9. CASE Planned(a)
    <2>1. \/ run'[a] = Idle
          \/ run'[a].step = "open" /\ run'[a].purpose = "retain"
      <3>1. run'[a] \in {Idle, [Idle EXCEPT !.step = "open", !.purpose = "retain"]}
        BY <1>1, <1>9 DEF Planned
      <3>2. QED
        BY <3>1, IdleTyped
    <2>2. QED
      BY <1>2, <2>1
  <1>10. CASE CreateMark(a) \/ WriteMark(a)
    <2>1. CASE CreateMark(a)
      <3>1. run'[a].step = "writeMark"
        BY <1>1, <2>1 DEF CreateMark
      <3>2. QED
        BY <3>1
    <2>2. CASE WriteMark(a)
      <3>1. run'[a].step = "report"
        BY <1>1, <2>2 DEF WriteMark
      <3>2. QED
        BY <3>1
    <2>3. QED
      BY <1>10, <2>1, <2>2
  <1>11. CASE \E t \in Time : ReadEntry(a, t) \/ PassOver(a, t) \/ Discover(a, t)
    <2>1. PICK t \in Time : ReadEntry(a, t) \/ PassOver(a, t) \/ Discover(a, t)
      BY <1>11
    <2>2. /\ run'[a].step = run[a].step
          /\ run'[a].purpose = run[a].purpose
          /\ run'[a].cfg = run[a].cfg
      <3>1. CASE ReadEntry(a, t)
        <4> DEFINE n == IF run[a].purpose = "dedup" /\ Newer(run[a].seen, t) = {}
                        THEN EntryHash(t) ELSE run[a].newest
        <4>1. run' = [run EXCEPT ![a] = [run[a] EXCEPT
                         !.todo = @ \ {t}, !.seen = @ \cup {t}, !.newest = n]]
          BY <3>1 DEF ReadEntry
        <4> HIDE DEF n
        <4>2. QED
          BY <1>1, <4>1
      <3>2. CASE PassOver(a, t)
        BY <1>1, <3>2 DEF PassOver
      <3>3. CASE Discover(a, t)
        BY <1>1, <3>3 DEF Discover
      <3>4. QED
        BY <2>1, <3>1, <3>2, <3>3
    <2>3. QED
      <3> HIDE DEF Run
      <3>1. QED
        BY <1>1, <2>2 DEF Known
  <1>12. CASE \E t \in Time : DeleteConf(a, t) \/ DeleteMeta(a, t)
    <2>1. CASE \E t \in Time : DeleteConf(a, t)
      <3>1. run'[a].step = "deleteMeta"
        BY <1>1, <2>1 DEF DeleteConf
      <3>2. QED
        BY <3>1
    <2>2. CASE \E t \in Time : DeleteMeta(a, t)
      <3>1. run'[a].step = "delete"
        BY <1>1, <2>2 DEF DeleteMeta
      <3>2. QED
        BY <3>1
    <2>3. QED
      BY <1>12, <2>1, <2>2
  <1>13. QED
    BY <1>3, <1>4, <1>5, <1>6, <1>7, <1>8, <1>9, <1>10, <1>11, <1>12
       DEF Continue

LEMMA NextKnown ==
  ASSUME RetentionInv, TypeOK', [Next]_vars, NEW b \in Actor
  PROVE  Known(run'[b])
  <1>1. /\ run[b] \in Run /\ Known(run[b])
        /\ run \in [Actor -> Run] /\ run' \in [Actor -> Run]
    BY DEF RetentionInv, TypeOK, ArtifactKnown, Known
  <1>2. Known(Idle) /\ Known(Failed)
    BY DEF Known, Idle, Failed
  <1>3. CASE run'[b] = run[b]
    BY <1>1, <1>3
  <1>4. CASE Tick \/ (\E v \in Version : Reconfigure(v)) \/ UNCHANGED vars
    BY <1>3, <1>4 DEF Tick, Reconfigure, vars
  <1>5. ASSUME NEW a \in Actor, Continue(a)
        PROVE  Known(run'[b])
    BY <1>3, <1>5, ContinueKnown, ContinueBacked
  <1>6. ASSUME NEW p \in Process, Crash(p)
        PROVE  Known(run'[b])
    <2>1. run'[b] \in {Idle, run[b]}
      BY <1>1, <1>6 DEF Crash
    <2>2. QED
      BY <1>2, <1>3, <2>1
  <1>7. ASSUME NEW a \in Actor,
               Start(a) \/ StartPrune(a) \/ Cancel(a) \/ UploadFails(a) \/ IoError(a)
        PROVE  Known(run'[b])
    <2>1. CASE b # a
      BY <1>1, <1>3, <1>7, <2>1
         DEF Start, StartPrune, Cancel, UploadFails, IoError, Moves, Becomes
    <2>2. CASE b = a /\ UploadFails(a)
      BY <1>1, <2>2 DEF UploadFails, Becomes, Known, Run
    <2>3. CASE b = a /\ Start(a)
      <3>1. run' = [run EXCEPT ![a] = [run[a] EXCEPT !.step = "fetch"]]
        BY <2>3 DEF Start, Moves, Becomes
      <3>2. run'[b] = [run[b] EXCEPT !.step = "fetch"]
        BY <1>1, <2>3, <3>1
      <3>3. [run[b] EXCEPT !.step = "fetch"].step = "fetch"
        BY <1>1 DEF Run
      <3>4. QED
        BY <3>2, <3>3 DEF Known
    <2>4. CASE b = a /\ StartPrune(a)
      <3>1. run' = [run EXCEPT ![a] = [run[a] EXCEPT !.step = "open", !.purpose = "plan"]]
        BY <2>4 DEF StartPrune, Moves, Becomes
      <3>2. run'[b] = [run[b] EXCEPT !.step = "open", !.purpose = "plan"]
        BY <1>1, <2>4, <3>1
      <3>3. /\ [run[b] EXCEPT !.step = "open", !.purpose = "plan"].step = "open"
            /\ [run[b] EXCEPT !.step = "open", !.purpose = "plan"].purpose = "plan"
        BY <1>1 DEF Run
      <3>4. QED
        BY <3>2, <3>3 DEF Known
    <2>5. CASE b = a /\ Cancel(a)
      BY <1>1, <1>2, <2>5 DEF Cancel, Becomes
    <2>6. CASE b = a /\ IoError(a)
      <3>1. \/ run'[b] \in {Failed, AfterRetention(a)}
            \/ run'[b] = [run[b] EXCEPT !.step = "report", !.at = 0]
        BY <1>1, <2>6 DEF IoError, Becomes
      <3>2. [run[b] EXCEPT !.step = "report", !.at = 0].step = "report"
        BY <1>1 DEF Run
      <3>3. Known(AfterRetention(a))
        BY <1>1, <1>2, <2>6 DEF Known, AfterRetention, Run
      <3>4. QED
        BY <1>2, <3>1, <3>2, <3>3 DEF Known
    <2>7. QED
      BY <1>7, <2>1, <2>2, <2>3, <2>4, <2>5, <2>6
  <1>8. QED
    BY <1>4, <1>5, <1>6, <1>7 DEF Next, Fault

----------------------------------------------------------------------------
(* The directory implements Archive *)

LEMMA SameCardinality ==
  ASSUME NEW S
  PROVE  Promise!Cardinality(S) = Cardinality(S)
  BY DEF Promise!Cardinality, Cardinality

\* A step that leaves the set of files alone, and the clock.
LEMMA ConfKeptStutters ==
  ASSUME conf' = conf, now' = now
  PROVE  UNCHANGED <<now, Present>>
  BY DEF Present

\* Every step of the detailed model is a step of Archive, or changes nothing
\* that Archive sees.
LEMMA ContinueSimulates ==
  ASSUME RetentionInv, NEW a \in Actor, Continue(a)
  PROVE  [Promise!Next]_<<now, Present>>
  <1>1. /\ run[a] \in Run /\ Backed(run[a]) /\ TypeOK /\ Known(run[a])
        /\ conf \in [Time -> Content]
    BY InvBacked DEF RetentionInv, TypeOK, ArtifactKnown, Known
  <1>2. CASE CreateConf(a)
    <2>1. run[a].stem \in Time /\ run[a].stem \in 0..now
      BY <1>1, BoundAssumption DEF Run, Backed, Time, TypeOK
    <2>2. Present' = Present \cup {run[a].stem} /\ now' = now
      BY <1>1, <1>2, <2>1, FileAssumption DEF CreateConf, Present, envVars
    <2>3. CASE run[a].stem \in Present
      BY <2>2, <2>3
    <2>4. CASE run[a].stem \notin Present
      <3>1. Promise!Store(run[a].stem)
        BY <2>1, <2>2, <2>4 DEF Promise!Store
      <3>2. QED
        BY <2>1, <3>1 DEF Promise!Next, Time
    <2>5. QED
      BY <2>3, <2>4
  <1>3. CASE WriteConf(a)
    <2>1. run[a].cfg \in Version /\ run[a].stem \in Time
      BY <1>1, <1>3 DEF WriteConf, Known, Run
    <2>2. PICK c \in Written(conf[run[a].stem], run[a].cfg) :
             conf' = [conf EXCEPT ![run[a].stem] = c]
      BY <1>3 DEF WriteConf
    <2>3. c = Absent <=> conf[run[a].stem] = Absent
      BY <2>1, <2>2, FileAssumption DEF Written
    <2>4. Present' = Present /\ now' = now
      BY <1>1, <1>3, <2>1, <2>2, <2>3 DEF Present, WriteConf, envVars
    <2>5. QED
      BY <2>4
  <1>4. ASSUME NEW t \in Time, DeleteConf(a, t)
        PROVE  [Promise!Next]_<<now, Present>>
    <2>1. t + KeepDays < now /\ Enough(Present, t)
      BY <1>1, <1>4 DEF DeleteConf, IsNewest, Backed
    <2>2. t \in Present /\ Present' = Present \ {t} /\ now' = now
      BY <1>1, <1>4 DEF DeleteConf, Present, envVars
    <2>3. Promise!Expire(t)
      BY <2>1, <2>2, SameCardinality DEF Promise!Expire, Promise!Newer, Enough, Newer
    <2>4. QED
      BY <2>3 DEF Promise!Next, Time
  <1>5. CASE conf' = conf /\ now' = now
    BY <1>5, ConfKeptStutters
  <1>6. QED
    BY <1>2, <1>3, <1>4, <1>5
       DEF Continue, FetchOk, FetchFails, OpenDir, ListFails, DedupHit,
       DedupMiss, Relisted, CreateMeta, WriteMeta, UploadConf, UploadMeta,
       UploadMissing, PickVictims, EndDelete, Planned, CreateMark, WriteMark,
       Report, ReadEntry, PassOver, Discover, DeleteMeta, Moves, envVars, dirVars

LEMMA NextSimulates ==
  ASSUME RetentionInv, [Next]_vars
  PROVE  [Promise!Next]_<<now, Present>>
  <1>1. CASE Tick
    <2>1. Promise!Tick
      BY <1>1 DEF Tick, Promise!Tick, Present, dirVars
    <2>2. QED
      BY <2>1 DEF Promise!Next
  <1>2. CASE conf' = conf /\ now' = now
    BY <1>2, ConfKeptStutters
  <1>3. ASSUME NEW a \in Actor, Continue(a)
        PROVE  [Promise!Next]_<<now, Present>>
    BY <1>3, ContinueSimulates
  <1>4. QED
    BY <1>1, <1>2, <1>3
       DEF Next, Fault, Reconfigure, Start, StartPrune, Crash, Cancel,
       UploadFails, IoError, Moves, vars, envVars, dirVars

\* A step of Archive leaves enough newer files wherever there were enough.
LEMMA ArchiveKeepsEnough ==
  ASSUME [Promise!Next]_<<now, Present>>, now \in Time,
         NEW t \in Time, Enough(Present, t)
  PROVE  Enough(Present', t) /\ now' \in Int /\ now' >= now
  <1>1. Present \in SUBSET Time /\ Present' \in SUBSET Time
    BY DEF Present
  <1>2. now \in Int
    BY BoundAssumption DEF Time
  <1>3. CASE UNCHANGED <<now, Present>> \/ Promise!Tick
    BY <1>2, <1>3 DEF Promise!Tick
  <1>4. ASSUME NEW u \in Time, Promise!Store(u)
        PROVE  Enough(Present', t) /\ now' \in Int /\ now' >= now
    <2>1. Newer(Present, t) \subseteq Newer(Present', t)
      BY <1>4 DEF Promise!Store, Newer
    <2>2. QED
      BY <1>1, <1>2, <1>4, <2>1, NewerMonotone DEF Promise!Store
  <1>5. ASSUME NEW u \in Time, Promise!Expire(u)
        PROVE  Enough(Present', t) /\ now' \in Int /\ now' >= now
    <2>1. Enough(Present, u) /\ u \in Present /\ Present' = Present \ {u}
      BY <1>5, SameCardinality DEF Promise!Expire, Promise!Newer, Enough, Newer
    <2>2. QED
      BY <1>1, <1>2, <1>5, <2>1, DeletionKeepsEnough DEF Promise!Expire
  <1>6. QED
    BY <1>3, <1>4, <1>5 DEF Promise!Next, Time

\* What a step of Archive removes has enough newer files beside it.
LEMMA RemovedBacked ==
  ASSUME [Promise!Next]_<<now, Present>>, now \in Time, NEW t \in Present
  PROVE  t \in Present' \/ Enough(Present', t)
  <1>1. CASE UNCHANGED <<now, Present>> \/ Promise!Tick
    BY <1>1 DEF Promise!Tick
  <1>2. CASE \E u \in Time : Promise!Store(u)
    BY <1>2 DEF Promise!Store
  <1>3. ASSUME NEW u \in Time, Promise!Expire(u)
        PROVE  t \in Present' \/ Enough(Present', t)
    <2>1. Enough(Present, u) /\ u \in Present /\ Present' = Present \ {u}
      BY <1>3, SameCardinality DEF Promise!Expire, Promise!Newer, Enough, Newer
    <2>2. CASE t = u
      <3>1. Enough(Present', t)
        BY <1>3, <2>1, <2>2, ArchiveKeepsEnough DEF Promise!Next, Time
      <3>2. QED
        BY <3>1
    <2>3. CASE t # u
      BY <2>1, <2>3
    <2>4. QED
      BY <2>2, <2>3
  <1>4. QED
    BY <1>1, <1>2, <1>3 DEF Promise!Next, Time

LEMMA InitRetention == Init => RetentionInv
  <1> SUFFICES ASSUME Init PROVE RetentionInv
    OBVIOUS
  <1>1. TypeOK
    BY InitTyped
  <1>2. \A a \in Actor : run[a] = Idle
    BY DEF Init
  <1>3. StemsInPast /\ ArtifactKnown /\ VictimsBacked
    BY <1>2 DEF Init, Idle, StemsInPast, ArtifactKnown, VictimsBacked
  <1>4. ListedBacked
    BY <1>2 DEF Idle, ListedBacked
  <1>5. QED
    BY <1>1, <1>3, <1>4 DEF RetentionInv

LEMMA NextRetention ==
  ASSUME RetentionInv, [Next]_vars
  PROVE  RetentionInv'
  <1>1. TypeOK' /\ now \in Time
    BY NextTyped DEF RetentionInv, TypeOK
  <1>2. \A b \in Actor : run'[b] \in Run /\ Backed(run'[b]) /\ Known(run'[b])
    BY <1>1, NextRecordsBacked, NextKnown DEF TypeOK
  <1>3. [Promise!Next]_<<now, Present>>
    BY NextSimulates
  <1>4. now' \in Int /\ now' >= now /\ now \in Int
    BY <1>1, <1>3, BoundAssumption
       DEF Promise!Next, Promise!Tick, Promise!Store, Promise!Expire, Time
  <1>5. \A t \in Time : Enough(Present, t) => Enough(Present', t)
    BY <1>1, <1>3, ArchiveKeepsEnough
  <1>6. StemsInPast'
    BY <1>2, <1>4, BoundAssumption DEF StemsInPast, Backed, Run, Time
  <1>7. ArtifactKnown'
    BY <1>2 DEF ArtifactKnown, Known
  <1>8. ListedBacked'
    <2>1. \A t \in Present : t \in Present' \/ Enough(Present', t)
      BY <1>1, <1>3, RemovedBacked
    <2>2. ASSUME NEW b \in Actor, NEW t \in run'[b].seen \cup run'[b].todo
          PROVE  t \in Present' \/ Enough(Present', t)
      <3>1. t \in Time /\ (t \in Present \/ Enough(Present, t))
        BY <1>2 DEF Backed, ListingBacked, Run
      <3>2. QED
        BY <1>5, <2>1, <3>1
    <2>3. QED
      BY <2>2 DEF ListedBacked
  <1>9. ASSUME NEW b \in Actor, NEW t \in run'[b].victims
        PROVE  t + KeepDays < now' /\ Enough(Present', t)
    <2>1. t \in Time /\ t + KeepDays < now /\ Enough(Present, t)
      BY <1>2 DEF Backed, Run
    <2>2. QED
      BY <1>4, <1>5, <2>1, BoundAssumption, RetentionAssumption DEF Time
  <1>10. VictimsBacked'
    BY <1>9 DEF VictimsBacked
  <1>11. QED
    BY <1>1, <1>6, <1>7, <1>8, <1>10 DEF RetentionInv

----------------------------------------------------------------------------
(* The theorems *)

\* The inductive invariant holds of every behaviour.
THEOREM RetentionInvariant == Spec => []RetentionInv
  <1>1. QED
    BY InitRetention, NextRetention, PTL DEF Spec

\* Whatever the interleaving of runs and prunes, whatever has crashed: a file
\* that is still to be deleted is expired, and KeepCopies newer files are in
\* the directory now (pick_victims and delete_victims on stale listings).
THEOREM RetentionSafe == Spec => []VictimsBacked
  <1>1. RetentionInv => VictimsBacked
    BY DEF RetentionInv
  <1>2. QED
    BY <1>1, RetentionInvariant, PTL

\* A stale listing never shows enough newer files where there are not.
THEOREM ListingsSafe == Spec => []ListingsBacked
  <1>1. RetentionInv => ListingsBacked
    <2> SUFFICES ASSUME RetentionInv, NEW a \in Actor, NEW t \in Time,
                        Enough(run[a].seen \cup run[a].todo, t)
                 PROVE  Enough(Present, t)
      BY DEF ListingsBacked
    <2>1. run[a].seen \cup run[a].todo \in SUBSET Time
      BY DEF RetentionInv, TypeOK, Run
    <2>2. QED
      BY <2>1, ListingTrustworthy DEF RetentionInv, ListedBacked
  <1>2. QED
    BY <1>1, RetentionInvariant, PTL

\* The pipeline and `prune`, in any number, together implement Archive: files
\* are only added, except that expired ones with KeepCopies newer ones go.
THEOREM ImplementsArchive == Spec => KeepsPromise
  <1>1. Init => Promise!Init
    BY DEF Init, Promise!Init, Present
  <1>2. QED
    BY <1>1, RetentionInvariant, NextSimulates, PTL
       DEF Spec, KeepsPromise, Promise!Spec
=============================================================================
