------------------------------- MODULE Pages -------------------------------
(* What is read of the backup directory: the dashboard, a device's page, a  *)
(* diff, the monthly report with its CSV (webui.rs) and `list` (main.rs).   *)
(* A reader goes through the directories entry by entry and takes no lock,  *)
(* while runs and `prune` create, write and remove files, a process dies in *)
(* the middle, and an administrator leaves a file of his own.  DeviceBackup *)
(* is the detailed model of who writes; here a device has one writer and    *)
(* one pruner, which leaves the newest file alone (retention_min_copies of  *)
(* at least 1), and contents are absent, torn or whole.  Nobody writes to   *)
(* the directory of a device that has been removed from the configuration.  *)
EXTENDS Integers

CONSTANTS
    Device,      \* the devices of the configuration
    Dir,         \* the directories: theirs, and those of devices since removed
    Moment,      \* bound: the seconds in which backups are fetched
    MonthLength, \* seconds in a month: every month has as many
    Stray,       \* a file X.conf whose X is no time
    None,
    MaxFaults    \* bound: crashes and stray files

ASSUME PagesAssumption ==
    /\ Device \subseteq Dir
    /\ Moment \subseteq Nat /\ {None, Stray} \cap Moment = {}
    /\ None \notin Dir
    /\ MonthLength \in Nat \ {0} /\ MaxFaults \in Nat

VARIABLES
    now,     \* the clock
    conf,    \* conf[f]: the configuration file of backup f
    meta,    \* meta[f]: its sidecar
    strays,  \* the directories with a stray file
    saving,  \* saving[d]: the backup a run is writing
    pruning, \* pruning[d]: the backup whose sidecar is still to be removed
    req,     \* the request, and its answer when it is over
    kept,    \* history: what has been stored ever since the request came in
    faults

dirVars == <<conf, meta, strays, saving, pruning>>
vars == <<now, dirVars, req, kept, faults>>

File == Dir \X Moment
FileState == {"absent", "torn", "whole"}

\* The month of a year in which a moment lies.
Month == [year : Nat, month : 1..12]
MonthOf(t) == [year  |-> (t \div MonthLength) \div 12,
               month |-> 1 + ((t \div MonthLength) % 12)]

Page == {"dashboard", "device", "diff", "compare", "report", "list"}
Step == {"idle", "list", "scan", "prev", "curr", "ok", "notFound", "same", "error"}

Request == [page  : Page,
            scope : SUBSET Dir,              \* the directories it asks for
            month : Month \cup {None},       \* the month it asks for
            a     : Moment \cup {None},      \* the file it asks for
            b     : Moment \cup {None},      \* the file to compare with
            step  : Step,
            dirs  : SUBSET Dir,              \* still to be listed
            dir   : Dir \cup {None},         \* being listed
            todo  : SUBSET (Moment \cup {Stray}), \* its entries not yet read
            rows  : SUBSET File,             \* the entries read; the rows shown
            prev  : Moment \cup {None},      \* the two sides of a diff
            curr  : Moment \cup {None}]

Stored == {f \in File : conf[f] # "absent"}
StoredIn(d) == {t \in Moment : conf[<<d, t>>] # "absent"}

TypeOK ==
    /\ now \in Moment
    /\ conf \in [File -> FileState]
    /\ meta \in [File -> FileState]
    /\ strays \subseteq Dir
    /\ saving \in [Dir -> Moment \cup {None}]
    /\ pruning \in [Dir -> Moment \cup {None}]
    /\ req \in Request
    /\ kept \subseteq File
    /\ faults \in 0..MaxFaults

Idle == [page |-> "list", scope |-> {}, month |-> None, a |-> None, b |-> None,
         step |-> "idle", dirs |-> {}, dir |-> None, todo |-> {}, rows |-> {},
         prev |-> None, curr |-> None]

Init ==
    /\ now \in {t \in Moment : \A u \in Moment : t <= u}
    /\ \E left \in SUBSET ((Dir \ Device) \X {now}), sidecar \in FileState :
          /\ conf = [f \in File |-> IF f \in left THEN "whole" ELSE "absent"]
          /\ meta = [f \in File |-> IF f \in left THEN sidecar ELSE "absent"]
    /\ strays = {}
    /\ saving = [d \in Dir |-> None]
    /\ pruning = [d \in Dir |-> None]
    /\ req = Idle
    /\ kept = {}
    /\ faults = 0

----------------------------------------------------------------------------
(* Those who write *)

Tick ==
    /\ now + 1 \in Moment
    /\ now' = now + 1
    /\ UNCHANGED <<dirVars, req, kept, faults>>

\* Mutant: the name of a file is its second rounded up.
CreateAhead(d) ==
    /\ saving[d] = None
    /\ conf[<<d, now>>] = "absent" /\ meta[<<d, now>>] = "absent"
    /\ saving' = [saving EXCEPT ![d] = now + 1]
    /\ conf' = [conf EXCEPT ![<<d, now + 1>>] = "torn"]
    /\ UNCHANGED <<now, meta, strays, pruning, req, kept, faults>>

CreateConf(d) ==
    /\ saving[d] = None
    /\ conf[<<d, now>>] = "absent" /\ meta[<<d, now>>] = "absent"
    /\ saving' = [saving EXCEPT ![d] = now]
    /\ conf' = [conf EXCEPT ![<<d, now>>] = "torn"]
    /\ UNCHANGED <<now, meta, strays, pruning, req, kept, faults>>

WriteConf(d) ==
    /\ saving[d] # None
    /\ conf[<<d, saving[d]>>] = "torn"
    /\ conf' = [conf EXCEPT ![<<d, saving[d]>>] = "whole"]
    /\ UNCHANGED <<now, meta, strays, saving, pruning, req, kept, faults>>

CreateMeta(d) ==
    /\ saving[d] # None
    /\ conf[<<d, saving[d]>>] # "torn" /\ meta[<<d, saving[d]>>] = "absent"
    /\ meta' = [meta EXCEPT ![<<d, saving[d]>>] = "torn"]
    /\ UNCHANGED <<now, conf, strays, saving, pruning, req, kept, faults>>

WriteMeta(d) ==
    /\ saving[d] # None
    /\ meta[<<d, saving[d]>>] = "torn"
    /\ meta' = [meta EXCEPT ![<<d, saving[d]>>] = "whole"]
    /\ saving' = [saving EXCEPT ![d] = None]
    /\ UNCHANGED <<now, conf, strays, pruning, req, kept, faults>>

DeleteConf(d, t) ==
    /\ pruning[d] = None
    /\ t \in StoredIn(d) /\ \E u \in StoredIn(d) : u > t
    /\ conf' = [conf EXCEPT ![<<d, t>>] = "absent"]
    /\ kept' = kept \ {<<d, t>>}
    /\ pruning' = [pruning EXCEPT ![d] = t]
    /\ UNCHANGED <<now, meta, strays, saving, req, faults>>

DeleteMeta(d) ==
    /\ pruning[d] # None
    /\ meta' = [meta EXCEPT ![<<d, pruning[d]>>] = "absent"]
    /\ pruning' = [pruning EXCEPT ![d] = None]
    /\ UNCHANGED <<now, conf, strays, saving, req, kept, faults>>

Fault == faults < MaxFaults /\ faults' = faults + 1

\* Whoever writes in d dies; the files stay as they are.
Crash(d) ==
    /\ saving[d] # None \/ pruning[d] # None
    /\ Fault
    /\ saving' = [saving EXCEPT ![d] = None]
    /\ pruning' = [pruning EXCEPT ![d] = None]
    /\ UNCHANGED <<now, conf, meta, strays, req, kept>>

LeaveStray(d) ==
    /\ d \notin strays
    /\ Fault
    /\ strays' = strays \cup {d}
    /\ UNCHANGED <<now, conf, meta, saving, pruning, req, kept>>

----------------------------------------------------------------------------
(* Requests *)

\* What a request changes is nothing but itself.
Goes(r) == req' = r /\ UNCHANGED <<now, dirVars, kept, faults>>
Ends(step) == Goes([req EXCEPT !.step = step, !.dirs = {}, !.dir = None, !.todo = {}])

\* A request for a page about the directories S, all still to be listed.
Asked(page, S) ==
    [Idle EXCEPT !.step = "list", !.page = page, !.scope = S, !.dirs = S]

Ask(r) ==
    /\ req.step = "idle"
    /\ req' = r
    /\ kept' = Stored
    /\ UNCHANGED <<now, dirVars, faults>>

AskDashboard == Ask(Asked("dashboard", Device))

AskDevice(d) == Ask(Asked("device", {d}))

\* `list`, of all directories or of one.
AskList(S) == Ask(Asked("list", S))

\* A `month` that is absent or malformed means that of the clock, one of these.
AskReport(m) == Ask([Asked("report", Dir) EXCEPT !.month = m])

AskDiff(d, t) == Ask([Asked("diff", {d}) EXCEPT !.a = t])

AskCompare(d, t, u) == Ask([Asked("compare", {d}) EXCEPT !.a = t, !.b = u])

Asks ==
    \/ AskDashboard
    \/ \E d \in Device : AskDevice(d)
    \/ \E d \in Dir : AskList({d})
    \/ AskList(Dir)
    \/ \E t \in Moment : AskReport(MonthOf(t))
    \/ \E d \in Dir, t \in Moment : AskDiff(d, t) \/ \E u \in Moment : AskCompare(d, t, u)

Close ==
    /\ req.step \in {"ok", "notFound", "same", "error"}
    /\ req' = Idle
    /\ kept' = {}
    /\ UNCHANGED <<now, dirVars, faults>>

----------------------------------------------------------------------------
(* Listing *)

OpenDir(d) ==
    /\ req.step = "list"
    /\ d \in req.dirs
    /\ Goes([req EXCEPT !.step = "scan", !.dir = d, !.dirs = @ \ {d},
                        !.todo = StoredIn(d) \cup (IF d \in strays THEN {Stray} ELSE {})])

\* A stem that is no time, an entry removed since, a sidecar that does not parse.
Unreadable(t) ==
    t # Stray => conf[<<req.dir, t>>] = "absent" \/ meta[<<req.dir, t>>] = "torn"

ReadEntry(t) ==
    /\ req.step = "scan" /\ t \in req.todo
    /\ ~Unreadable(t)
    /\ Goes([req EXCEPT !.todo = @ \ {t}, !.rows = @ \cup {<<req.dir, t>>}])

\* An entry removed since may be passed over, one created since may be found.
PassOver(t) ==
    /\ req.step = "scan" /\ t \in req.todo
    /\ t # Stray /\ conf[<<req.dir, t>>] = "absent"
    /\ Goes([req EXCEPT !.todo = @ \ {t}])

Discover(t) ==
    /\ req.step = "scan"
    /\ t \in StoredIn(req.dir) \ req.todo /\ <<req.dir, t>> \notin req.rows
    /\ Goes([req EXCEPT !.todo = @ \cup {t}])

DiscoverStray ==
    /\ req.step = "scan"
    /\ req.dir \in strays /\ Stray \notin req.todo
    /\ Goes([req EXCEPT !.todo = @ \cup {Stray}])

\* Mutant: an entry that cannot be read is left out, and the listing goes on.
SkipsEntry ==
    /\ req.step = "scan"
    /\ \E t \in req.todo : Unreadable(t) /\ Goes([req EXCEPT !.todo = @ \ {t}])

\* One bad entry fails the listing of its directory, and with it that of all.
\* The dashboard takes the directory for an empty one, the report takes the
\* whole archive for empty, everybody else says that there was an error.
ListFails ==
    /\ req.step = "scan"
    /\ \E t \in req.todo : Unreadable(t)
    /\ CASE req.page = "dashboard" ->
              Goes([req EXCEPT !.step = "list", !.dir = None, !.todo = {},
                               !.rows = {f \in @ : f[1] # req.dir}])
         [] req.page = "report" ->
              Goes([req EXCEPT !.step = "list", !.dir = None, !.todo = {},
                               !.dirs = {}, !.rows = {}])
         [] OTHER -> Ends("error")

DirListed ==
    /\ req.step = "scan" /\ req.todo = {}
    /\ Goes([req EXCEPT !.step = "list", !.dir = None])

Listed(page) == req.step = "list" /\ req.dirs = {} /\ req.page = page

----------------------------------------------------------------------------
(* Answers *)

ShowEntries ==
    /\ Listed("dashboard") \/ Listed("device") \/ Listed("list")
    /\ Ends("ok")

\* month_bounds: from the first second of the month up to, and without, the
\* first of the next.
FirstOf(m) == (12 * m.year + m.month - 1) * MonthLength
NextMonth(m) == IF m.month = 12 THEN [year |-> m.year + 1, month |-> 1]
                ELSE [m EXCEPT !.month = @ + 1]

ShowReport ==
    /\ Listed("report")
    /\ Goes([req EXCEPT !.step = "ok",
                        !.rows = {f \in @ : /\ FirstOf(req.month) <= f[2]
                                            /\ f[2] < FirstOf(NextMonth(req.month))}])

Seen == {f[2] : f \in req.rows}

\* A diff is of two rows, the older one first; of a directory that belongs to no
\* configured device there is none.
Pair(p, c) ==
    IF req.scope \subseteq Device
    THEN Goes([req EXCEPT !.step = "prev", !.prev = p, !.curr = c])
    ELSE Ends("notFound")

\* Mutant: the rows are newest first, as the page shows them.
AfterInTime(t) == {u \in Seen : u > t /\ \A v \in Seen : v > t => v >= u}

\* The row before t, oldest first: none, for the oldest.
Predecessor(t) == {u \in Seen : u < t /\ \A v \in Seen : v < t => v <= u}

LocateOne ==
    /\ Listed("diff")
    /\ IF req.a \notin Seen THEN Ends("notFound")
       ELSE \/ Predecessor(req.a) = {} /\ Ends("same")
            \/ \E p \in Predecessor(req.a) : Pair(p, req.a)

LocateBoth ==
    /\ Listed("compare")
    /\ IF ~({req.a, req.b} \subseteq Seen) THEN Ends("notFound")
       ELSE IF req.a = req.b THEN Ends("same")
       ELSE IF req.a > req.b THEN Pair(req.b, req.a)
       ELSE Pair(req.a, req.b)

\* The files are read again, after the listing.  One that is torn is shown as it
\* is, or cannot be decompressed.
ReadSide(step, t, next) ==
    /\ req.step = step
    /\ LET state == CHOOSE s \in FileState : \A d \in req.scope : conf[<<d, t>>] = s IN
       \/ state # "absent" /\ Goes([req EXCEPT !.step = next])
       \/ state # "whole" /\ Ends("error")

ReadPrev == ReadSide("prev", req.prev, "curr")
ReadCurr == ReadSide("curr", req.curr, "ok")

----------------------------------------------------------------------------

Write(d) ==
    \/ CreateConf(d) \/ WriteConf(d) \/ CreateMeta(d) \/ WriteMeta(d)
    \/ DeleteMeta(d) \/ \E t \in Moment : DeleteConf(d, t)

Answer ==
    \/ \E d \in Dir : OpenDir(d)
    \/ \E t \in Moment : ReadEntry(t) \/ PassOver(t) \/ Discover(t)
    \/ DiscoverStray \/ ListFails \/ DirListed
    \/ ShowEntries \/ ShowReport \/ LocateOne \/ LocateBoth
    \/ ReadPrev \/ ReadCurr

Next ==
    \/ Tick
    \/ \E d \in Device : Write(d) \/ Crash(d)
    \/ \E d \in Dir : LeaveStray(d)
    \/ Asks
    \/ Answer
    \/ Close

Spec == Init /\ [][Next]_vars

----------------------------------------------------------------------------
(* What a reader may conclude from a page *)

\* What was stored in d all the time the request took, as far as it is asked for.
Due(d) == {f \in kept : f[1] = d /\ (req.page = "report" => MonthOf(f[2]) = req.month)}
Shown(d) == {f \in req.rows : f[1] = d}

\* A page never shows a part of what it is asked for: every backup that is there
\* all the time is shown, unless the dashboard shows none of its device, or the
\* report none of any; and a report shows only what belongs to its month
\* (list_all_entries, entries_in_month, render_dashboard).
WholeOrNothing ==
    req.step = "ok" /\ req.page \in {"dashboard", "device", "list", "report"} =>
        /\ \A d \in req.scope :
              \/ Due(d) \subseteq Shown(d)
              \/ req.page = "dashboard" /\ Shown(d) = {}
              \/ req.page = "report" /\ req.rows = {}
        /\ req.page = "report" => \A f \in req.rows : MonthOf(f[2]) = req.month

\* A diff goes from an older backup to a newer one.  Asked for one file it goes to
\* it from the one before: no backup that is there all the time lies between them
\* (render_diff, whose listing is stale when it reads the files).
DiffForward ==
    req.step = "ok" /\ req.page \in {"diff", "compare"} =>
        /\ req.prev < req.curr
        /\ req.page = "compare" => {req.prev, req.curr} = {req.a, req.b}
        /\ req.page = "diff" =>
              /\ req.curr = req.a
              /\ ~ \E f \in kept : req.prev < f[2] /\ f[2] < req.curr /\ f[1] \in req.scope
=============================================================================
