---------------------------- MODULE PagesProofs ----------------------------
(* What a page may leave out, for any number of directories and backups and *)
(* months of any length.                                                    *)
EXTENDS Pages, TLAPS

\* Directories that the request has done with.
Done == req.scope \ (req.dirs \cup {req.dir})

\* A backup that is there all the time has been read, or is still to be, unless
\* the listing of its directory has failed and the page takes it for empty.
Covered(f) ==
    \/ f \in req.rows
    \/ f[1] = req.dir /\ f[2] \in req.todo
    \/ f[1] \in req.dirs
    \/ req.page = "dashboard" /\ f[1] \in Done /\ Shown(f[1]) = {}
    \/ req.page = "report" /\ req.rows = {} /\ req.dirs = {} /\ req.dir = None

Listing ==
    /\ req.dirs \subseteq req.scope
    /\ req.step = "scan" => req.dir \in req.scope \ req.dirs
    /\ req.step = "list" => req.dir = None
    /\ \A f \in kept : f[1] \in req.scope => Covered(f)

\* What a diff has settled before it reads the files.
Chosen ==
    /\ req.prev < req.curr
    /\ req.page = "compare" => {req.prev, req.curr} = {req.a, req.b}
    /\ req.page = "diff" =>
          /\ req.curr = req.a
          /\ ~ \E f \in kept : req.prev < f[2] /\ f[2] < req.curr /\ f[1] \in req.scope

Inv ==
    /\ TypeOK
    /\ kept \subseteq Stored
    /\ req.page = "report" => req.month \in Month
    /\ req.step \in {"list", "scan"} => Listing
    /\ req.step \in {"prev", "curr"} => req.page \in {"diff", "compare"}
    /\ req.step \in {"prev", "curr", "ok"} /\ req.page \in {"diff", "compare"} => Chosen
    /\ WholeOrNothing

----------------------------------------------------------------------------
(* Months *)

LEMMA Multiples ==
  ASSUME NEW a \in Nat, NEW b \in Nat, NEW l \in Nat \ {0}, a < b
  PROVE  (a + 1) * l <= b * l
  BY Z3

LEMMA Quotient ==
  ASSUME NEW q \in Nat, NEW l \in Nat \ {0}, NEW t \in Nat, q * l <= t, t < (q + 1) * l
  PROVE  t \div l = q
  <1> DEFINE k == t \div l
  <1>1. k \in Nat /\ k * l <= t /\ t < (k + 1) * l
    BY Z3
  <1> HIDE DEF k
  <1>2. ~(k < q)
    BY <1>1, Multiples
  <1>3. ~(q < k)
    BY <1>1, Multiples
  <1>4. k = q
    BY <1>1, <1>2, <1>3
  <1>5. QED
    BY <1>4 DEF k

LEMMA Dozens ==
  ASSUME NEW y \in Nat, NEW r \in 0..11
  PROVE  (12 * y + r) \div 12 = y /\ (12 * y + r) % 12 = r
  OBVIOUS

\* Months follow each other without a gap, at the end of the year too.
LEMMA MonthsFollow ==
  ASSUME NEW m \in Month
  PROVE  /\ FirstOf(m) = (12 * m.year + m.month - 1) * MonthLength
         /\ FirstOf(NextMonth(m)) = (12 * m.year + m.month - 1 + 1) * MonthLength
  <1> DEFINE q == 12 * m.year + m.month - 1
  <1>1. m.year \in Nat /\ m.month \in 1..12
    BY DEF Month
  <1>2. CASE m.month = 12
    <2>1. NextMonth(m) = [year |-> m.year + 1, month |-> 1]
      BY <1>2 DEF NextMonth
    <2>2. 12 * (m.year + 1) + 1 - 1 = q + 1
      BY <1>1, <1>2
    <2>3. QED
      BY <2>1, <2>2 DEF FirstOf
  <1>3. CASE m.month # 12
    <2>1. NextMonth(m).year = m.year /\ NextMonth(m).month = m.month + 1
      BY <1>3 DEF NextMonth, Month
    <2>2. 12 * m.year + (m.month + 1) - 1 = q + 1
      BY <1>1
    <2>3. QED
      BY <2>1, <2>2 DEF FirstOf
  <1>4. QED
    BY <1>2, <1>3

\* The bounds of a month hold its moments and no others (month_bounds).
THEOREM BoundsOfMonth ==
  ASSUME NEW m \in Month, NEW t \in Moment
  PROVE  FirstOf(m) <= t /\ t < FirstOf(NextMonth(m)) <=> MonthOf(t) = m
  <1> DEFINE q == 12 * m.year + m.month - 1
  <1>1. q \in Nat /\ m.year \in Nat /\ m.month \in 1..12 /\ t \in Nat
    BY PagesAssumption DEF Month
  <1>2. FirstOf(m) = q * MonthLength /\ FirstOf(NextMonth(m)) = (q + 1) * MonthLength
    BY MonthsFollow
  <1>3. ASSUME FirstOf(m) <= t, t < FirstOf(NextMonth(m)) PROVE MonthOf(t) = m
    <2>1. t \div MonthLength = q
      BY <1>1, <1>2, <1>3, Quotient, PagesAssumption
    <2>2. m.month - 1 \in 0..11 /\ q = 12 * m.year + (m.month - 1)
      BY <1>1
    <2>3. q \div 12 = m.year /\ q % 12 = m.month - 1
      BY <1>1, <2>2, Dozens
    <2>4. 1 + (q % 12) = m.month
      BY <1>1, <2>3
    <2>5. MonthOf(t) = [year |-> m.year, month |-> m.month]
      BY <2>1, <2>3, <2>4 DEF MonthOf
    <2>6. QED
      BY <2>5 DEF Month
  <1>4. ASSUME MonthOf(t) = m PROVE FirstOf(m) <= t /\ t < FirstOf(NextMonth(m))
    <2> DEFINE k == t \div MonthLength
    <2>1. m.year = k \div 12 /\ m.month = 1 + (k % 12)
      BY <1>4 DEF MonthOf
    <2>2. k \in Nat /\ k * MonthLength <= t /\ t < (k + 1) * MonthLength
      BY <1>1, PagesAssumption, Z3
    <2> HIDE DEF k
    <2>3. k = q
      BY <2>1, <2>2
    <2> HIDE DEF q
    <2>4. QED
      BY <1>2, <2>2, <2>3
  <1>5. QED
    BY <1>3, <1>4

LEMMA MonthTyped ==
  ASSUME NEW t \in Moment
  PROVE  MonthOf(t) \in Month
  <1>1. t \div MonthLength \in Nat
    BY PagesAssumption
  <1>2. QED
    BY <1>1 DEF MonthOf, Month

----------------------------------------------------------------------------
(* Those who write change no answer: what is kept can only become less *)

LEMMA KeptShrinks ==
  ASSUME Inv, TypeOK', req' = req, kept' \subseteq kept, kept' \subseteq Stored'
  PROVE  Inv'
  <1>1. req.step \in {"list", "scan"} => Listing'
    BY DEF Inv, Listing, Covered, Done, Shown
  <1>2. Chosen => Chosen'
    BY DEF Chosen
  <1>3. WholeOrNothing'
    <2>1. \A d \in Dir : Due(d)' \subseteq Due(d) /\ Shown(d)' = Shown(d)
      BY DEF Due, Shown
    <2>2. req.scope \subseteq Dir
      BY DEF Inv, TypeOK, Request
    <2>3. QED
      BY <2>1, <2>2 DEF Inv, WholeOrNothing
  <1>4. QED
    BY <1>1, <1>2, <1>3 DEF Inv

LEMMA WriteSafe ==
  ASSUME Inv, NEW d \in Device, Write(d) \/ Crash(d)
  PROVE  Inv'
  <1>1. d \in Dir /\ now \in Moment /\ <<d, now>> \in File
    BY PagesAssumption DEF Inv, TypeOK, File
  <1>2. req' = req
    BY DEF Write, CreateConf, WriteConf, CreateMeta, WriteMeta, DeleteConf, DeleteMeta, Crash
  <1>3. TypeOK'
    <2>1. CASE CreateConf(d)
      BY <1>1, <2>1 DEF CreateConf, Inv, TypeOK, FileState
    <2>2. CASE WriteConf(d)
      BY <2>2 DEF WriteConf, Inv, TypeOK, FileState
    <2>3. CASE CreateMeta(d)
      BY <2>3 DEF CreateMeta, Inv, TypeOK, FileState
    <2>4. CASE WriteMeta(d)
      BY <1>1, <2>4 DEF WriteMeta, Inv, TypeOK, FileState
    <2>5. CASE DeleteMeta(d)
      BY <1>1, <2>5 DEF DeleteMeta, Inv, TypeOK, FileState
    <2>6. ASSUME NEW t \in Moment, DeleteConf(d, t) PROVE TypeOK'
      BY <1>1, <2>6 DEF DeleteConf, Inv, TypeOK, FileState
    <2>7. CASE Crash(d)
      BY <1>1, <2>7, PagesAssumption DEF Crash, Fault, Inv, TypeOK
    <2>8. QED
      BY <2>1, <2>2, <2>3, <2>4, <2>5, <2>6, <2>7 DEF Write
  <1>4. kept' \subseteq kept /\ kept' \subseteq Stored'
    <2>1. CASE CreateConf(d)
      BY <1>1, <2>1 DEF CreateConf, Inv, TypeOK, Stored
    <2>2. CASE WriteConf(d)
      BY <2>2 DEF WriteConf, Inv, TypeOK, Stored
    <2>3. CASE CreateMeta(d) \/ WriteMeta(d) \/ DeleteMeta(d) \/ Crash(d)
      BY <2>3 DEF CreateMeta, WriteMeta, DeleteMeta, Crash, Inv, Stored
    <2>4. ASSUME NEW t \in Moment, DeleteConf(d, t)
          PROVE  kept' \subseteq kept /\ kept' \subseteq Stored'
      BY <2>4 DEF DeleteConf, Inv, TypeOK, Stored, File
    <2>5. QED
      BY <2>1, <2>2, <2>3, <2>4 DEF Write
  <1>5. QED
    BY <1>2, <1>3, <1>4, KeptShrinks

LEMMA EnvironmentSafe ==
  ASSUME Inv, Tick \/ \E d \in Dir : LeaveStray(d)
  PROVE  Inv'
  <1>1. req' = req /\ kept' = kept /\ Stored' = Stored
    BY DEF Tick, LeaveStray, dirVars, Stored
  <1>2. TypeOK'
    BY PagesAssumption DEF Tick, LeaveStray, Fault, dirVars, Inv, TypeOK
  <1>3. QED
    BY <1>1, <1>2, KeptShrinks DEF Inv

----------------------------------------------------------------------------
(* The request goes on *)

LEMMA GoesTyped ==
  ASSUME Inv, NEW r \in Request, Goes(r)
  PROVE  TypeOK' /\ kept' \subseteq Stored' /\ kept' = kept /\ req' = r
  BY DEF Goes, dirVars, Inv, TypeOK, Stored

\* A request that ends in no page says nothing.
LEMMA EndsSafe ==
  ASSUME Inv, NEW step \in {"notFound", "same", "error"}, Ends(step)
  PROVE  Inv'
  <1> DEFINE r == [req EXCEPT !.step = step, !.dirs = {}, !.dir = None, !.todo = {}]
  <1>1. r \in Request /\ r.page = req.page /\ r.month = req.month /\ r.step = step
    <2>1. req \in Request /\ step \in Step
      BY DEF Inv, TypeOK, Step
    <2>2. QED
      BY <2>1 DEF Request
  <1>2. Goes(r)
    BY DEF Ends
  <1> HIDE DEF r
  <1>3. TypeOK' /\ kept' \subseteq Stored' /\ req' = r
    BY <1>1, <1>2, GoesTyped
  <1>4. QED
    BY <1>1, <1>3 DEF Inv, WholeOrNothing

\* A request that comes in with everything still to be listed.
Fresh(r) ==
    /\ r \in Request /\ r.step = "list" /\ r.dir = None /\ r.dirs = r.scope
    /\ r.page = "report" => r.month \in Month

LEMMA AskSafe ==
  ASSUME Inv, NEW r, Fresh(r), Ask(r)
  PROVE  Inv'
  <1>1. req' = r /\ kept' = Stored /\ Stored' = Stored
    BY DEF Ask, dirVars, Stored
  <1>2. TypeOK'
    BY <1>1 DEF Fresh, Ask, dirVars, Inv, TypeOK, Stored
  <1>3. Listing'
    BY <1>1 DEF Fresh, Listing, Covered
  <1>4. QED
    BY <1>1, <1>2, <1>3 DEF Fresh, Inv, WholeOrNothing

LEMMA AsksSafe ==
  ASSUME Inv, Asks
  PROVE  Inv'
  <1>1. Device \in SUBSET Dir /\ Dir \in SUBSET Dir /\ \A d \in Dir : {d} \in SUBSET Dir
    BY PagesAssumption
  <1>2. {"dashboard", "device", "list", "report", "diff", "compare"} \subseteq Page
    BY DEF Page
  <1>3. ASSUME NEW p \in Page, NEW S \in SUBSET Dir
        PROVE  /\ Asked(p, S) \in Request /\ Asked(p, S).page = p
               /\ Asked(p, S).step = "list" /\ Asked(p, S).dir = None
               /\ Asked(p, S).dirs = Asked(p, S).scope
    <2>1. Idle \in Request /\ Idle.dir = None /\ "list" \in Step
      BY DEF Idle, Request, Page, Step
    <2>2. QED
      BY <2>1 DEF Asked, Request
  <1>4. ASSUME NEW p \in Page \ {"report"}, NEW S \in SUBSET Dir, Ask(Asked(p, S))
        PROVE  Inv'
    BY <1>3, <1>4, AskSafe DEF Fresh
  <1>5. ASSUME NEW t \in Moment, AskReport(MonthOf(t)) PROVE Inv'
    <2> DEFINE r == [Asked("report", Dir) EXCEPT !.month = MonthOf(t)]
    <2>1. Fresh(r)
      BY <1>1, <1>2, <1>3, MonthTyped DEF Fresh, Request
    <2>2. QED
      BY <1>5, <2>1, AskSafe DEF AskReport
  <1>6. ASSUME NEW d \in Dir, NEW t \in Moment, AskDiff(d, t) PROVE Inv'
    <2> DEFINE r == [Asked("diff", {d}) EXCEPT !.a = t]
    <2>1. Fresh(r)
      BY <1>1, <1>2, <1>3 DEF Fresh, Request
    <2>2. QED
      BY <1>6, <2>1, AskSafe DEF AskDiff
  <1>7. ASSUME NEW d \in Dir, NEW t \in Moment, NEW u \in Moment, AskCompare(d, t, u)
        PROVE  Inv'
    <2> DEFINE r == [Asked("compare", {d}) EXCEPT !.a = t, !.b = u]
    <2>1. \A q \in Request : [q EXCEPT !.a = t, !.b = u] \in Request
      BY DEF Request
    <2>2. r \in Request
      BY <1>1, <1>2, <1>3, <2>1
    <2>3. r.step = "list" /\ r.dir = None /\ r.dirs = r.scope /\ r.page # "report"
      BY <1>1, <1>2, <1>3 DEF Request
    <2>4. Fresh(r)
      BY <2>2, <2>3 DEF Fresh
    <2>5. QED
      BY <1>7, <2>4, AskSafe DEF AskCompare
  <1>8. Device \subseteq Dir
    BY PagesAssumption
  <1>9. QED
    BY <1>1, <1>2, <1>4, <1>5, <1>6, <1>7, <1>8 DEF Asks, AskDashboard, AskDevice, AskList

LEMMA CloseSafe ==
  ASSUME Inv, Close
  PROVE  Inv'
  <1>1. Idle \in Request /\ Idle.step = "idle" /\ Idle.page = "list"
    BY DEF Idle, Request, Page, Step
  <1>2. TypeOK'
    BY <1>1 DEF Close, dirVars, Inv, TypeOK
  <1>3. QED
    BY <1>1, <1>2 DEF Close, Inv, WholeOrNothing

----------------------------------------------------------------------------
(* Listing *)

\* A step within the listing: what changes is the request, and that stays a
\* request that is being listed.
LEMMA ListingGoes ==
  ASSUME Inv, NEW r \in Request, Goes(r),
         r.page = req.page, r.month = req.month, r.step \in {"list", "scan"},
         Listing'
  PROVE  Inv'
  BY GoesTyped DEF Inv, WholeOrNothing

LEMMA OpenDirSafe ==
  ASSUME Inv, NEW d \in Dir, OpenDir(d)
  PROVE  Inv'
  <1> DEFINE todo == StoredIn(d) \cup (IF d \in strays THEN {Stray} ELSE {})
  <1> DEFINE r == [req EXCEPT !.step = "scan", !.dir = d, !.dirs = @ \ {d}, !.todo = todo]
  <1>1. todo \in SUBSET (Moment \cup {Stray})
    BY DEF StoredIn
  <1>2. /\ r \in Request /\ r.page = req.page /\ r.month = req.month /\ r.scope = req.scope
        /\ r.step = "scan" /\ r.dir = d /\ r.dirs = req.dirs \ {d}
        /\ r.todo = todo /\ r.rows = req.rows
    <2>1. req \in Request /\ "scan" \in Step
      BY DEF Inv, TypeOK, Step
    <2> HIDE DEF todo
    <2>2. QED
      BY <1>1, <2>1 DEF Request
  <1>3. Goes(r) /\ req.step = "list" /\ d \in req.dirs
    BY DEF OpenDir
  <1>4. \A f \in kept : f[1] = d => f[2] \in todo
    BY DEF Inv, Stored, StoredIn, File
  <1> HIDE DEF r, todo
  <1>5. req' = r /\ kept' = kept
    BY <1>3 DEF Goes
  <1>6. Listing'
    <2>1. ASSUME NEW f \in kept, f[1] \in req.scope PROVE Covered(f)'
      <3>1. Covered(f) /\ req.dir = None /\ d \in req.scope
        BY <1>3, <2>1 DEF Inv, Listing
      <3>2. None \notin Dir /\ f[1] \in Dir /\ req.scope \subseteq Dir
        BY PagesAssumption DEF Inv, TypeOK, Stored, File, Request
      <3>3. CASE f[1] = d
        BY <1>2, <1>4, <1>5, <3>3 DEF Covered
      <3>4. CASE f[1] # d
        BY <1>2, <1>3, <1>5, <3>1, <3>2, <3>4 DEF Covered, Done, Shown
      <3>5. QED
        BY <3>3, <3>4
    <2>2. QED
      BY <1>2, <1>3, <1>5, <2>1 DEF Inv, Listing
  <1>7. QED
    BY <1>2, <1>3, <1>6, ListingGoes

\* Entries are taken from, or added to, those to be read, and rows are added.
LEMMA EntryGoes ==
  ASSUME Inv, req.step = "scan",
         NEW todo \in SUBSET (Moment \cup {Stray}), NEW rows \in SUBSET File,
         Goes([req EXCEPT !.todo = todo, !.rows = rows]),
         req.rows \subseteq rows, \A f \in rows \ req.rows : f[1] = req.dir,
         \A f \in kept : f[1] = req.dir /\ f[2] \in req.todo => f[2] \in todo \/ f \in rows
  PROVE  Inv'
  <1> DEFINE r == [req EXCEPT !.todo = todo, !.rows = rows]
  <1>1. /\ req \in Request /\ Listing
        /\ req.dir \in Dir /\ req.dir \in req.scope
    BY DEF Inv, TypeOK, Listing, Request
  <1>2. /\ r \in Request /\ r.page = req.page /\ r.month = req.month /\ r.scope = req.scope
        /\ r.step = "scan" /\ r.dir = req.dir /\ r.dirs = req.dirs
        /\ r.todo = todo /\ r.rows = rows
    BY <1>1 DEF Request
  <1>3. Goes(r)
    OBVIOUS
  <1> HIDE DEF r
  <1>4. req' = r /\ kept' = kept
    BY <1>3 DEF Goes
  <1>5. Listing'
    <2>1. ASSUME NEW f \in kept, f[1] \in req.scope PROVE Covered(f)'
      <3>1. Covered(f) /\ req.dir # None
        BY <1>1, <2>1, PagesAssumption DEF Listing
      <3>2. CASE f \in req.rows \/ f[1] \in req.dirs
        BY <1>2, <1>4, <3>2 DEF Covered
      <3>3. CASE f[1] = req.dir /\ f[2] \in req.todo
        BY <1>2, <1>4, <3>3 DEF Covered
      <3>4. CASE req.page = "dashboard" /\ f[1] \in Done /\ Shown(f[1]) = {}
        BY <1>2, <1>4, <3>4 DEF Covered, Done, Shown
      <3>5. QED
        BY <3>1, <3>2, <3>3, <3>4 DEF Covered
    <2>2. QED
      BY <1>1, <1>2, <1>4, <2>1 DEF Listing
  <1>6. QED
    BY <1>2, <1>3, <1>5, ListingGoes

\* An entry is read, passed over, or found.
LEMMA EntrySafe ==
  ASSUME Inv,
         DiscoverStray \/ \E t \in Moment : ReadEntry(t) \/ PassOver(t) \/ Discover(t)
  PROVE  Inv'
  <1>1. /\ req \in Request /\ req.step = "scan" /\ req.dir \in Dir
        /\ req.todo \in SUBSET (Moment \cup {Stray}) /\ req.rows \in SUBSET File
        /\ \A f \in kept : f \in File /\ f = <<f[1], f[2]>>
    <2>1. req.step = "scan"
      BY DEF DiscoverStray, ReadEntry, PassOver, Discover
    <2>2. req \in Request /\ kept \subseteq File /\ req.dir \in req.scope
      BY <2>1 DEF Inv, TypeOK, Listing
    <2>3. \A f \in File : f = <<f[1], f[2]>>
      BY DEF File
    <2>4. QED
      BY <2>1, <2>2, <2>3 DEF Request
  <1>2. CASE DiscoverStray
    <2> DEFINE todo == req.todo \cup {Stray}
    <2>1. Goes([req EXCEPT !.todo = todo, !.rows = req.rows])
      BY <1>1, <1>2 DEF DiscoverStray, Request
    <2>2. /\ todo \in SUBSET (Moment \cup {Stray})
          /\ \A f \in kept : f[1] = req.dir /\ f[2] \in req.todo => f[2] \in todo
      BY <1>1
    <2> HIDE DEF todo
    <2>3. QED
      BY <1>1, <2>1, <2>2, EntryGoes
  <1>3. ASSUME NEW t \in Moment, ReadEntry(t) PROVE Inv'
    <2> DEFINE todo == req.todo \ {t}
               rows == req.rows \cup {<<req.dir, t>>}
    <2>1. Goes([req EXCEPT !.todo = todo, !.rows = rows])
      BY <1>3 DEF ReadEntry
    <2>2. /\ todo \in SUBSET (Moment \cup {Stray}) /\ rows \in SUBSET File
          /\ req.rows \subseteq rows /\ \A f \in rows \ req.rows : f[1] = req.dir
          /\ \A f \in kept : f[1] = req.dir /\ f[2] \in req.todo => f[2] \in todo \/ f \in rows
      BY <1>1, <1>3 DEF File
    <2> HIDE DEF todo, rows
    <2>3. QED
      BY <1>1, <2>1, <2>2, EntryGoes
  <1>4. ASSUME NEW t \in Moment, PassOver(t) PROVE Inv'
    <2> DEFINE todo == req.todo \ {t}
    <2>1. Goes([req EXCEPT !.todo = todo, !.rows = req.rows])
      BY <1>1, <1>4 DEF PassOver, Request
    <2>2. <<req.dir, t>> \notin kept
      BY <1>4 DEF PassOver, Inv, Stored
    <2>3. /\ todo \in SUBSET (Moment \cup {Stray})
          /\ \A f \in kept : f[1] = req.dir /\ f[2] \in req.todo => f[2] \in todo
      BY <1>1, <2>2
    <2> HIDE DEF todo
    <2>4. QED
      BY <1>1, <2>1, <2>3, EntryGoes
  <1>5. ASSUME NEW t \in Moment, Discover(t) PROVE Inv'
    <2> DEFINE todo == req.todo \cup {t}
    <2>1. Goes([req EXCEPT !.todo = todo, !.rows = req.rows])
      BY <1>1, <1>5 DEF Discover, Request
    <2>2. /\ todo \in SUBSET (Moment \cup {Stray})
          /\ \A f \in kept : f[1] = req.dir /\ f[2] \in req.todo => f[2] \in todo
      BY <1>1, <1>5
    <2> HIDE DEF todo
    <2>3. QED
      BY <1>1, <2>1, <2>2, EntryGoes
  <1>6. QED
    BY <1>2, <1>3, <1>4, <1>5

LEMMA ListFailsSafe ==
  ASSUME Inv, ListFails
  PROVE  Inv'
  <1>1. /\ req \in Request /\ req.step = "scan" /\ Listing
        /\ req.dir \in Dir /\ req.dir \in req.scope \ req.dirs /\ req.rows \in SUBSET File
    BY DEF ListFails, Inv, TypeOK, Listing, Request
  <1>2. None \notin Dir /\ req.scope \subseteq Dir
    BY <1>1, PagesAssumption DEF Request
  <1>3. CASE req.page = "dashboard"
    <2> DEFINE rows == {f \in req.rows : f[1] # req.dir}
               r == [req EXCEPT !.step = "list", !.dir = None, !.todo = {}, !.rows = rows]
    <2>1. Goes(r)
      BY <1>3 DEF ListFails
    <2>2. /\ r \in Request /\ r.page = "dashboard" /\ r.month = req.month
          /\ r.scope = req.scope /\ r.step = "list" /\ r.dir = None /\ r.dirs = req.dirs
          /\ r.rows = rows
      BY <1>1, <1>3 DEF Request, Step
    <2> HIDE DEF r
    <2>3. req' = r /\ kept' = kept
      BY <2>1 DEF Goes
    <2>4. ASSUME NEW f \in kept, f[1] \in req.scope PROVE Covered(f)'
      <3>1. Covered(f) /\ f[1] # None
        BY <1>1, <1>2, <2>4 DEF Listing
      <3>2. CASE f[1] = req.dir
        <4>1. f[1] \in Done' /\ Shown(f[1])' = {}
          BY <1>1, <1>2, <2>2, <2>3, <3>2 DEF Done, Shown
        <4>2. QED
          BY <2>2, <2>3, <4>1 DEF Covered
      <3>3. CASE f[1] # req.dir /\ (f \in req.rows \/ f[1] \in req.dirs)
        BY <2>2, <2>3, <3>3 DEF Covered
      <3>4. CASE f[1] # req.dir /\ f[1] \in Done /\ Shown(f[1]) = {}
        <4>1. f[1] \in Done' /\ Shown(f[1])' = {}
          BY <2>2, <2>3, <3>1, <3>4 DEF Done, Shown
        <4>2. QED
          BY <2>2, <2>3, <4>1 DEF Covered
      <3>5. QED
        BY <1>3, <3>1, <3>2, <3>3, <3>4 DEF Covered
    <2>5. Listing'
      BY <1>1, <2>2, <2>3, <2>4 DEF Listing
    <2>6. QED
      BY <1>3, <2>1, <2>2, <2>5, ListingGoes
  <1>4. CASE req.page = "report"
    <2> DEFINE r == [req EXCEPT !.step = "list", !.dir = None, !.todo = {},
                                !.dirs = {}, !.rows = {}]
    <2>1. Goes(r)
      BY <1>4 DEF ListFails
    <2>2. /\ r \in Request /\ r.page = "report" /\ r.month = req.month
          /\ r.step = "list" /\ r.dir = None /\ r.dirs = {} /\ r.rows = {}
      BY <1>1, <1>4 DEF Request, Step
    <2> HIDE DEF r
    <2>3. req' = r
      BY <2>1 DEF Goes
    <2>4. Listing'
      BY <2>2, <2>3 DEF Listing, Covered
    <2>5. QED
      BY <1>4, <2>1, <2>2, <2>4, ListingGoes
  <1>5. CASE req.page \notin {"dashboard", "report"}
    <2>1. Ends("error")
      BY <1>5 DEF ListFails
    <2>2. QED
      BY <2>1, EndsSafe
  <1>6. QED
    BY <1>3, <1>4, <1>5

LEMMA DirListedSafe ==
  ASSUME Inv, DirListed
  PROVE  Inv'
  <1> DEFINE r == [req EXCEPT !.step = "list", !.dir = None]
  <1>1. /\ req \in Request /\ req.step = "scan" /\ Listing /\ req.todo = {}
        /\ req.dir \in req.scope \ req.dirs /\ req.scope \subseteq Dir
    BY DEF DirListed, Inv, TypeOK, Listing, Request
  <1>2. /\ r \in Request /\ r.page = req.page /\ r.month = req.month /\ r.scope = req.scope
        /\ r.step = "list" /\ r.dir = None /\ r.dirs = req.dirs /\ r.rows = req.rows
    BY <1>1 DEF Request, Step
  <1>3. Goes(r)
    BY DEF DirListed
  <1> HIDE DEF r
  <1>4. req' = r /\ kept' = kept
    BY <1>3 DEF Goes
  <1>5. ASSUME NEW f \in kept, f[1] \in req.scope PROVE Covered(f)'
    <2>1. Covered(f) /\ f[1] # None /\ req.dir # None
      BY <1>1, <1>5, PagesAssumption DEF Listing
    <2>2. Done \subseteq Done' /\ Shown(f[1])' = Shown(f[1])
      BY <1>1, <1>2, <1>4, PagesAssumption DEF Done, Shown
    <2>3. QED
      BY <1>1, <1>2, <1>4, <2>1, <2>2 DEF Covered
  <1>6. Listing'
    BY <1>1, <1>2, <1>4, <1>5 DEF Listing
  <1>7. QED
    BY <1>2, <1>3, <1>6, ListingGoes

----------------------------------------------------------------------------
(* Answers *)

\* When all directories have been listed, what is kept has been read.
LEMMA AllListed ==
  ASSUME Inv, req.step = "list", req.dirs = {}, NEW f \in kept, f[1] \in req.scope
  PROVE  \/ f \in req.rows
         \/ req.page = "dashboard" /\ Shown(f[1]) = {}
         \/ req.page = "report" /\ req.rows = {}
  <1>1. Covered(f) /\ req.dir = None
    BY DEF Inv, Listing
  <1>2. f[1] \in Dir
    BY DEF Inv, TypeOK, File
  <1>3. QED
    BY <1>1, <1>2, PagesAssumption DEF Covered

LEMMA ShowEntriesSafe ==
  ASSUME Inv, ShowEntries
  PROVE  Inv'
  <1> DEFINE r == [req EXCEPT !.step = "ok", !.dirs = {}, !.dir = None, !.todo = {}]
  <1>1. /\ req \in Request /\ req.step = "list" /\ req.dirs = {}
        /\ req.page \in {"dashboard", "device", "list"}
    BY DEF ShowEntries, Listed, Inv, TypeOK
  <1>2. /\ r \in Request /\ r.page = req.page /\ r.month = req.month /\ r.scope = req.scope
        /\ r.step = "ok" /\ r.rows = req.rows
    BY <1>1 DEF Request, Step
  <1>3. Goes(r)
    BY DEF ShowEntries, Ends
  <1> HIDE DEF r
  <1>4. TypeOK' /\ kept' \subseteq Stored' /\ kept' = kept /\ req' = r
    BY <1>2, <1>3, GoesTyped
  <1>5. ASSUME NEW d \in req.scope
        PROVE  Due(d)' \subseteq Shown(d)' \/ (req.page = "dashboard" /\ Shown(d)' = {})
    <2>1. Shown(d)' = Shown(d)
      BY <1>2, <1>4 DEF Shown
    <2>2. \A f \in Due(d)' : f \in kept /\ f[1] = d
      BY <1>4 DEF Due
    <2>3. \A f \in Due(d)' : f \in req.rows \/ (req.page = "dashboard" /\ Shown(d) = {})
      BY <1>1, <1>5, <2>2, AllListed
    <2>4. QED
      BY <2>1, <2>2, <2>3 DEF Shown
  <1>6. WholeOrNothing'
    BY <1>1, <1>2, <1>4, <1>5 DEF WholeOrNothing
  <1>7. QED
    BY <1>1, <1>2, <1>4, <1>6 DEF Inv

LEMMA ShowReportSafe ==
  ASSUME Inv, ShowReport
  PROVE  Inv'
  <1> DEFINE Within(f) == FirstOf(req.month) <= f[2] /\ f[2] < FirstOf(NextMonth(req.month))
             rows == {f \in req.rows : Within(f)}
             r == [req EXCEPT !.step = "ok", !.rows = rows]
  <1>1. /\ req \in Request /\ req.step = "list" /\ req.dirs = {} /\ req.page = "report"
        /\ req.month \in Month /\ req.rows \subseteq File /\ kept \subseteq File
    BY DEF ShowReport, Listed, Inv, TypeOK, Request
  <1>2. /\ r \in Request /\ r.page = "report" /\ r.month = req.month /\ r.scope = req.scope
        /\ r.step = "ok" /\ r.rows = rows
    BY <1>1 DEF Request, Step
  <1>3. Goes(r)
    BY DEF ShowReport
  <1>4. \A f \in File : Within(f) <=> MonthOf(f[2]) = req.month
    BY <1>1, BoundsOfMonth DEF File
  <1> HIDE DEF r, Within
  <1>5. TypeOK' /\ kept' \subseteq Stored' /\ kept' = kept /\ req' = r
    BY <1>2, <1>3, GoesTyped
  <1>6. ASSUME NEW d \in req.scope
        PROVE  Due(d)' \subseteq Shown(d)' \/ rows = {}
    <2>1. \A f \in Due(d)' : f \in kept /\ f[1] = d /\ MonthOf(f[2]) = req.month
      BY <1>2, <1>5 DEF Due
    <2>2. \A f \in Due(d)' : f \in req.rows \/ req.rows = {}
      BY <1>1, <1>6, <2>1, AllListed
    <2>3. \A f \in Due(d)' : Within(f)
      BY <1>1, <1>4, <2>1
    <2>4. QED
      BY <1>2, <1>5, <2>1, <2>2, <2>3 DEF Shown
  <1>7. WholeOrNothing'
    <2>1. \A f \in rows : MonthOf(f[2]) = req.month
      BY <1>1, <1>4
    <2>2. QED
      BY <1>2, <1>5, <1>6, <2>1 DEF WholeOrNothing
  <1>8. QED
    BY <1>1, <1>2, <1>5, <1>7 DEF Inv

\* Two rows are taken for a diff.
LEMMA PairSafe ==
  ASSUME Inv, req.step = "list", req.page \in {"diff", "compare"},
         NEW p \in Moment, NEW c \in Moment, Pair(p, c),
         p < c,
         req.page = "compare" => {p, c} = {req.a, req.b},
         req.page = "diff" =>
            c = req.a /\ ~ \E f \in kept : p < f[2] /\ f[2] < c /\ f[1] \in req.scope
  PROVE  Inv'
  <1> DEFINE r == [req EXCEPT !.step = "prev", !.prev = p, !.curr = c]
  <1>1. CASE Goes(r)
    <2>1. /\ r \in Request /\ r.page = req.page /\ r.month = req.month /\ r.scope = req.scope
          /\ r.step = "prev" /\ r.prev = p /\ r.curr = c /\ r.a = req.a /\ r.b = req.b
      BY DEF Inv, TypeOK, Request, Step
    <2> HIDE DEF r
    <2>2. TypeOK' /\ kept' \subseteq Stored' /\ kept' = kept /\ req' = r
      BY <1>1, <2>1, GoesTyped
    <2>3. Chosen'
      BY <2>1, <2>2 DEF Chosen
    <2>4. WholeOrNothing'
      BY <2>1, <2>2 DEF WholeOrNothing
    <2>5. QED
      BY <2>1, <2>2, <2>3, <2>4 DEF Inv
  <1>2. CASE Ends("notFound")
    BY <1>2, EndsSafe
  <1>3. QED
    BY <1>1, <1>2 DEF Pair

LEMMA LocateOneSafe ==
  ASSUME Inv, LocateOne
  PROVE  Inv'
  <1>1. /\ req \in Request /\ req.step = "list" /\ req.dirs = {} /\ req.page = "diff"
        /\ Seen \subseteq Moment /\ Moment \subseteq Nat /\ kept \subseteq File
    BY PagesAssumption DEF LocateOne, Listed, Inv, TypeOK, Request, Seen, File
  <1>2. CASE Ends("notFound") \/ Ends("same")
    BY <1>2, EndsSafe
  <1>3. ASSUME req.a \in Seen, NEW p \in Predecessor(req.a), Pair(p, req.a) PROVE Inv'
    <2>1. /\ p \in Moment /\ req.a \in Moment /\ p < req.a
          /\ \A v \in Seen : v < req.a => v <= p
      BY <1>1, <1>3 DEF Predecessor
    <2>2. ASSUME NEW f \in kept, p < f[2], f[2] < req.a, f[1] \in req.scope PROVE FALSE
      <3>1. f \in req.rows
        BY <1>1, <2>2, AllListed
      <3>2. f[2] \in Seen
        BY <3>1 DEF Seen
      <3>3. QED
        BY <1>1, <2>1, <2>2, <3>2
    <2>3. QED
      BY <1>1, <1>3, <2>1, <2>2, PairSafe
  <1>4. QED
    BY <1>2, <1>3 DEF LocateOne

LEMMA LocateBothSafe ==
  ASSUME Inv, LocateBoth
  PROVE  Inv'
  <1>1. /\ req \in Request /\ req.step = "list" /\ req.page = "compare"
        /\ Seen \subseteq Moment /\ Moment \subseteq Nat
    BY PagesAssumption DEF LocateBoth, Listed, Inv, TypeOK, Request, Seen, File
  <1>2. CASE Ends("notFound") \/ Ends("same")
    BY <1>2, EndsSafe
  <1>3. CASE /\ req.a \in Seen /\ req.b \in Seen /\ req.a # req.b
             /\ IF req.a > req.b THEN Pair(req.b, req.a) ELSE Pair(req.a, req.b)
    <2>1. req.a \in Moment /\ req.b \in Moment /\ req.a \in Nat /\ req.b \in Nat
      BY <1>1, <1>3
    <2>2. CASE req.a > req.b
      BY <1>1, <1>3, <2>1, <2>2, PairSafe
    <2>3. CASE ~(req.a > req.b)
      <3>1. req.a < req.b
        BY <1>3, <2>1, <2>3
      <3>2. QED
        BY <1>1, <1>3, <2>1, <2>3, <3>1, PairSafe
    <2>4. QED
      BY <2>2, <2>3
  <1>4. QED
    BY <1>2, <1>3 DEF LocateBoth

\* Reading the two files settles nothing more.
LEMMA ReadSideSafe ==
  ASSUME Inv, NEW next \in {"curr", "ok"}, req.step \in {"prev", "curr"},
         Goes([req EXCEPT !.step = next]) \/ Ends("error")
  PROVE  Inv'
  <1> DEFINE r == [req EXCEPT !.step = next]
  <1>1. CASE Goes(r)
    <2>1. /\ r \in Request /\ r.page = req.page /\ r.month = req.month /\ r.scope = req.scope
          /\ r.step = next /\ r.prev = req.prev /\ r.curr = req.curr
          /\ r.a = req.a /\ r.b = req.b
      BY DEF Inv, TypeOK, Request, Step
    <2>2. req.page \in {"diff", "compare"} /\ Chosen
      BY DEF Inv
    <2> HIDE DEF r
    <2>3. TypeOK' /\ kept' \subseteq Stored' /\ kept' = kept /\ req' = r
      BY <1>1, <2>1, GoesTyped
    <2>4. Chosen'
      BY <2>1, <2>2, <2>3 DEF Chosen
    <2>5. WholeOrNothing'
      BY <2>1, <2>2, <2>3 DEF WholeOrNothing
    <2>6. QED
      BY <2>1, <2>2, <2>3, <2>4, <2>5 DEF Inv
  <1>2. CASE Ends("error")
    BY <1>2, EndsSafe
  <1>3. QED
    BY <1>1, <1>2

----------------------------------------------------------------------------
(* The invariant *)

LEMMA InitSafe ==
  ASSUME Init
  PROVE  Inv
  <1>1. Idle \in Request /\ Idle.step = "idle" /\ Idle.page = "list"
    BY DEF Idle, Request, Page, Step
  <1>2. conf \in [File -> FileState] /\ meta \in [File -> FileState]
    BY DEF Init, FileState
  <1>3. TypeOK
    BY <1>1, <1>2, PagesAssumption DEF Init, TypeOK
  <1>4. QED
    BY <1>1, <1>3 DEF Init, Inv, WholeOrNothing

LEMMA AnswerSafe ==
  ASSUME Inv, Answer
  PROVE  Inv'
  <1>1. CASE ReadPrev \/ ReadCurr
    BY <1>1, ReadSideSafe DEF ReadPrev, ReadCurr, ReadSide
  <1>2. QED
    BY <1>1, OpenDirSafe, EntrySafe, ListFailsSafe, DirListedSafe, ShowEntriesSafe,
       ShowReportSafe, LocateOneSafe, LocateBothSafe DEF Answer

LEMMA NextSafe ==
  ASSUME Inv, [Next]_vars
  PROVE  Inv'
  <1>1. CASE UNCHANGED vars
    <2>1. TypeOK'
      BY <1>1 DEF vars, dirVars, Inv, TypeOK
    <2>2. req' = req /\ kept' = kept /\ Stored' = Stored
      BY <1>1 DEF vars, dirVars, Stored
    <2>3. QED
      BY <2>1, <2>2, KeptShrinks DEF Inv
  <1>2. CASE Next
    BY <1>2, WriteSafe, EnvironmentSafe, AsksSafe, CloseSafe, AnswerSafe DEF Next
  <1>3. QED
    BY <1>1, <1>2

\* What is kept is covered by what has been read and what is still to be read, or
\* by a listing that failed, until the page is shown.
THEOREM PageInvariant == Spec => []Inv
  BY InitSafe, NextSafe, PTL DEF Spec

\* Requests and files keep their types.
THEOREM PagesTyped == Spec => []TypeOK
  <1>1. Inv => TypeOK
    BY DEF Inv
  <1>2. QED
    BY <1>1, PageInvariant, PTL

\* However many directories there are and whoever writes to them meanwhile, a page
\* leaves out nothing that is there all the time, or shows nothing, and a report
\* nothing of another month (list_all_entries, entries_in_month).
THEOREM PagesWhole == Spec => []WholeOrNothing
  <1>1. Inv => WholeOrNothing
    BY DEF Inv
  <1>2. QED
    BY <1>1, PageInvariant, PTL

\* A diff goes forward, and from the backup right before the one asked for
\* (render_diff), whoever deletes between its listing and its reads.
THEOREM DiffsForward == Spec => []DiffForward
  <1>1. Inv => DiffForward
    BY DEF Inv, Chosen, DiffForward
  <1>2. QED
    BY <1>1, PageInvariant, PTL
=============================================================================
