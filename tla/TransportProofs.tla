-------------------------- MODULE TransportProofs --------------------------
(* What a fetch is worth and the time it may take, for every timeout, every *)
(* pair of delays and every silence.                                        *)
EXTENDS Transport, SequenceTheorems, FiniteSetTheorems, TLAPS

\* The most that can have passed before attempt n began.
Before(n) ==
    IF n = 0 THEN 0
    ELSE IF n = 1 THEN Timeout + Delay[1]
    ELSE 2 * Timeout + Delay[1] + Delay[2]

Trying == Session \cup {"request"}

\* Where the fetch is, as far as time depends on it.
ClockOK ==
    /\ attempt \in 0..2 /\ waited \in Nat /\ elapsed \in Nat
    /\ step \in Trying \cup {"begin", "status", "backoff", "done"}
    /\ step \in {"request", "status"} => kind = "rest"
    /\ step \in Session => kind # "rest"
    /\ step = "backoff" => attempt < 2

\* No timer is overdue.
InTime ==
    /\ step \in Trying \cup {"status"} => waited <= Timeout
    /\ step = "backoff" => waited <= Delay[attempt + 1]

\* What has passed is accounted for by the attempts and delays so far.
Accounted ==
    /\ step = "begin" => attempt = 0 /\ elapsed = 0
    /\ step \in Trying => elapsed <= Before(attempt) + waited
    /\ step \in {"status", "backoff"} => elapsed <= Before(attempt) + Timeout + waited
    /\ step = "done" => FetchBounded

TimeInv == ClockOK /\ InTime /\ Accounted

USE DEF Session, Phase, Trying

LEMMA TimesAreNaturals == Timeout \in Nat /\ Delay[1] \in Nat /\ Delay[2] \in Nat
  BY TimeAssumption

LEMMA InitTime == Init => TimeInv
  BY TimeAssumption DEF Init, TimeInv, ClockOK, InTime, Accounted, Before

\* An attempt that fails leads to the next delay or to the end, within the bound.
LEMMA FailTime ==
    ASSUME TimeInv, step \in Trying, FailAttempt
    PROVE  TimeInv'
<1>1. /\ attempt' = attempt /\ kind' = kind /\ elapsed' = elapsed /\ waited' = 0
      /\ step' = IF attempt < 2 THEN "backoff" ELSE "done"
  BY DEF FailAttempt, Enter
<1>2. elapsed <= Before(attempt) + Timeout
  BY TimesAreNaturals DEF TimeInv, ClockOK, InTime, Accounted, Before
<1>3. CASE attempt < 2
  BY <1>1, <1>2, <1>3, TimesAreNaturals
     DEF TimeInv, ClockOK, InTime, Accounted, Before
<1>4. CASE attempt = 2
  <2>1. FetchBounded'
    BY <1>1, <1>2, <1>4, TimesAreNaturals DEF TimeInv, ClockOK, Before, FetchBounded
  <2>. QED
    BY <1>1, <1>4, <2>1 DEF TimeInv, ClockOK, InTime, Accounted
<1>. QED
  BY <1>3, <1>4 DEF TimeInv, ClockOK

\* So does one that ends the fetch, one way or the other.
LEMMA DoneTime ==
    ASSUME TimeInv, step \in Trying \cup {"status"},
           NEW content, Enter("done", content), attempt' = attempt
    PROVE  TimeInv'
<1>1. kind' = kind /\ elapsed' = elapsed /\ waited' = 0 /\ step' = "done"
  BY DEF Enter
<1>2. FetchBounded
  BY TimesAreNaturals DEF TimeInv, ClockOK, InTime, Accounted, Before, FetchBounded
<1>3. FetchBounded'
  BY <1>1, <1>2 DEF FetchBounded
<1>. QED
  BY <1>1, <1>3 DEF TimeInv, ClockOK, InTime, Accounted

\* A new attempt has all its time before it.
LEMMA StartTime ==
    ASSUME ClockOK, StartAttempt, attempt' \in 0..2, elapsed <= Before(attempt')
    PROVE  TimeInv'
<1>1. /\ kind' = kind /\ elapsed' = elapsed /\ waited' = 0
      /\ step' = IF kind = "rest" THEN "request" ELSE "connect"
  BY DEF StartAttempt, Enter
<1>2. ClockOK'
  BY <1>1 DEF ClockOK
<1>3. InTime'
  BY <1>1, TimesAreNaturals DEF InTime
<1>4. Accounted'
  <2>1. step' \in Trying
    BY <1>1
  <2>2. elapsed' <= Before(attempt') + waited'
    BY <1>1, TimesAreNaturals DEF ClockOK, Before
  <2>. QED
    BY <1>1, <2>1, <2>2, TimesAreNaturals DEF Accounted, Before
<1>. QED
  BY <1>2, <1>3, <1>4 DEF TimeInv

\* The actions that leave the attempt, its timer and the clock alone.
LEMMA SameTime ==
    ASSUME TimeInv, step \in Session, step' \in Session,
           UNCHANGED <<kind, attempt, waited, elapsed>>
    PROVE  TimeInv'
  BY DEF TimeInv, ClockOK, InTime, Accounted, Before

LEMMA EnvironmentTime == TimeInv /\ Environment => TimeInv'
<1> SUFFICES ASSUME TimeInv, Environment PROVE TimeInv'
  OBVIOUS
<1>1. CASE Break
  BY <1>1, FailTime DEF Break
<1>2. CASE Connected
  <2>1. step' \in Session /\ step \in Session
    BY <1>2 DEF Connected
  <2>. QED
    BY <1>2, <2>1, SameTime DEF Connected
<1>3. CASE Close
  BY <1>3, SameTime DEF Close
<1>4. ASSUME NEW body, Answer(body) PROVE TimeInv'
  <2>1. CASE ValidBody(body)
    <3>1. /\ step = "request" /\ step' = "status" /\ kind' = kind /\ attempt' = attempt
          /\ elapsed' = elapsed /\ waited' = 0
      BY <1>4, <2>1 DEF Answer, Enter
    <3>. QED
      BY <3>1, TimesAreNaturals DEF TimeInv, ClockOK, InTime, Accounted, Before
  <2>2. CASE ~ValidBody(body)
    BY <1>4, <2>2, FailTime DEF Answer
  <2>. QED
    BY <2>1, <2>2
<1>5. ASSUME NEW n, Send(n) PROVE TimeInv'
  BY <1>5, SameTime DEF Send
<1>6. ASSUME NEW n, NEW piece, SendPiece(n, piece) PROVE TimeInv'
  BY <1>6, SameTime DEF SendPiece
<1>. QED
  BY <1>1, <1>2, <1>3, <1>4, <1>5, <1>6 DEF Environment

LEMMA ProceedTime == TimeInv /\ Proceed => TimeInv'
<1> SUFFICES ASSUME TimeInv, Proceed PROVE TimeInv'
  OBVIOUS
<1>1. CASE NoToken
  <2>1. /\ step = "begin" /\ step' = "done" /\ kind' = kind /\ attempt' = attempt
        /\ elapsed' = elapsed /\ waited' = 0
    BY <1>1 DEF NoToken, Enter
  <2>2. FetchBounded'
    BY <2>1, TimesAreNaturals DEF TimeInv, Accounted, FetchBounded
  <2>. QED
    BY <2>1, <2>2 DEF TimeInv, ClockOK, InTime, Accounted
<1>2. CASE Begin
  <2>1. attempt' = 0 /\ elapsed = 0 /\ Before(0) = 0
    BY <1>2 DEF Begin, TimeInv, Accounted, Before
  <2>. QED
    BY <1>2, <2>1, StartTime DEF Begin, TimeInv
<1>3. CASE Retry
  <2>1. /\ step = "backoff" /\ waited = Delay[attempt + 1]
        /\ attempt \in {0, 1} /\ attempt' = attempt + 1
    BY <1>3 DEF Retry, TimeInv, ClockOK
  <2>2. elapsed <= Before(attempt) + Timeout + Delay[attempt + 1]
    BY <2>1 DEF TimeInv, Accounted
  <2>3. elapsed <= Before(attempt')
    <3>1. CASE attempt = 0
      BY <2>1, <2>2, <3>1, TimesAreNaturals DEF Before, TimeInv, ClockOK
    <3>2. CASE attempt = 1
      BY <2>1, <2>2, <3>2, TimesAreNaturals DEF Before, TimeInv, ClockOK
    <3>. QED
      BY <2>1, <3>1, <3>2
  <2>. QED
    BY <1>3, <2>1, <2>3, StartTime DEF Retry, TimeInv
<1>4. CASE Expire
  BY <1>4, FailTime DEF Expire
<1>5. CASE StatusDone
  BY <1>5, DoneTime DEF StatusDone, Succeed
<1>6. CASE ExecDone
  BY <1>6, DoneTime DEF ExecDone, Succeed
<1>7. CASE TurnOffPager
  BY <1>7, SameTime DEF TurnOffPager, Type
<1>8. CASE ShowConfiguration
  BY <1>8, SameTime DEF ShowConfiguration, Type
<1>9. CASE WriteFails
  BY <1>9, FailTime DEF WriteFails
<1>10. CASE ShellDone
  <2>1. PICK content : Enter("done", content) /\ attempt' = attempt
    BY <1>10 DEF ShellDone, Succeed
  <2>. QED
    BY <1>10, <2>1, DoneTime DEF ShellDone
<1>. QED
  BY <1>1, <1>2, <1>3, <1>4, <1>5, <1>6, <1>7, <1>8, <1>9, <1>10 DEF Proceed

\* Time passes only while no timer is due.
LEMMA TickTime == TimeInv /\ Tick => TimeInv'
<1> SUFFICES ASSUME TimeInv, Tick PROVE TimeInv'
  OBVIOUS
<1>1. step \notin {"begin", "done"}
  BY DEF Tick, Due
<1>2. step \in Trying \cup {"status"} => waited < Timeout
  BY TimeAssumption DEF Tick, Due, TimeInv, ClockOK, InTime
<1>3. step = "backoff" => waited < Delay[attempt + 1]
  BY TimeAssumption DEF Tick, Due, TimeInv, ClockOK, InTime
<1>4. /\ step' = step /\ attempt' = attempt /\ kind' = kind
      /\ waited' = waited + 1 /\ elapsed' = elapsed + 1
  BY DEF Tick
<1>5. ClockOK'
  BY <1>4 DEF TimeInv, ClockOK
<1>6. InTime'
  <2>2. CASE step = "backoff"
    <3>1. attempt + 1 \in {1, 2}
      BY <2>2 DEF TimeInv, ClockOK
    <3>2. Delay[attempt + 1] \in Nat
      BY <3>1, TimesAreNaturals
    <3>. QED
      BY <1>3, <1>4, <2>2, <3>2 DEF TimeInv, ClockOK, InTime
  <2>3. CASE step # "backoff"
    BY <1>2, <1>4, <2>3, TimesAreNaturals DEF TimeInv, ClockOK, InTime
  <2>. QED
    BY <2>2, <2>3
<1>7. Accounted'
  BY <1>1, <1>4, TimesAreNaturals DEF TimeInv, ClockOK, Accounted, Before
<1>. QED
  BY <1>5, <1>6, <1>7 DEF TimeInv

\* What is accounted for is bounded wherever the fetch is.
LEMMA AccountedBounded == TimeInv => FetchBounded
  BY TimeAssumption
     DEF TimeInv, ClockOK, InTime, Accounted, Before, FetchBounded

\* Along every behaviour the time spent is accounted for, attempt by attempt, and
\* no timer is ever overdue (retry_with_backoff and the timeouts around it).
THEOREM TimeAccounted == Spec => []TimeInv
<1>1. TimeInv /\ [Next]_vars => TimeInv'
  <2> SUFFICES ASSUME TimeInv, [Next]_vars PROVE TimeInv'
    OBVIOUS
  <2>1. CASE UNCHANGED vars
    BY <2>1 DEF vars, TimeInv, ClockOK, InTime, Accounted, Before, FetchBounded
  <2>. QED
    BY <2>1, EnvironmentTime, ProceedTime, TickTime DEF Next
<1>. QED
  BY <1>1, InitTime, PTL DEF Spec

\* A fetch ends within three attempts, two delays and one status request, for
\* every timeout and whatever the device does (fetch_config of both transports).
THEOREM FetchInTime == Spec => []FetchBounded
  BY TimeAccounted, AccountedBounded, PTL

----------------------------------------------------------------------------
(* What a session has received *)

\* All that a device says in a session of StoneOS, with its answers in order.
Stream ==
    IF pager THEN <<"login", "prompt", "echo", "prompt", "echo", "running", "header", "more">>
    ELSE <<"login", "prompt", "echo", "prompt", "echo", "running", "header", "body", "end",
           "prompt">>

\* So many lines of it have been asked for in phase p, and so many have been sent.
Asked(p) == IF p = "banner" THEN 2 ELSE IF p = "pager" THEN 4 ELSE IF pager THEN 8 ELSE 10
Sent == Asked(step) - Len(wire)

\* The lines the phase has received to their ends, and those sent before it began.
Lines == IF cut /\ buf # <<>> THEN Len(buf) - 1 ELSE Len(buf)
Earlier == Sent - Lines

\* What is known of a fetch by its step.
StageInv ==
    /\ pager => kind = "shell"
    /\ step # "done" => result = "none"
    /\ step = "connect" => gap = 0 /\ wire = <<>> /\ buf = <<>> /\ ~cut /\ ~closed
    /\ step \in Phase => kind = "shell" /\ phaseAt \in 1..waited

\* The device has still to send the rest of what it has been asked for.
WireInv ==
    step \in Phase =>
        /\ Len(wire) <= Asked(step)
        /\ \A i \in 1..Len(wire) : wire[i] = Stream[Sent + i]

\* The last phase has received a part of the stream without gaps, of which only the
\* first and the last line may be incomplete; it began before the configuration.
BufInv ==
    step = "config" =>
        /\ Earlier \in 0..4
        /\ \A i \in 1..Lines :
              \/ buf[i] = Stream[Earlier + i]
              \/ i = 1 /\ ~steady /\ buf[1] \in {"rest", "sharp"}
        /\ cut /\ buf = <<>> => ~steady
        /\ cut /\ buf # <<>> =>
              \/ buf[Len(buf)] = "piece"
              \/ buf[Len(buf)] = "end" /\ Stream[Sent + 1] = "body" /\ ~steady

\* A device that does its part keeps a phase waiting less than it pauses.
SteadyInv ==
    steady =>
        /\ ~pager /\ quiet < NoGap
        /\ step \in Phase => ~closed /\ (wire # <<>> => gap <= quiet)

\* What `exec` of a device that does its part has received and what is still to come
\* are its configuration.
ExecInv ==
    step = "exec" =>
        /\ kind = "exec" /\ ~cut
        /\ steady =>
              /\ Len(buf) + Len(wire) = 3
              /\ \A i \in 1..Len(buf) : buf[i] = Whole[i]
              /\ \A i \in 1..Len(wire) : wire[i] = Whole[Len(buf) + i]
              /\ closed => wire = <<>>

\* The body that waits for the status has been validated.
StatusInv ==
    step = "status" =>
        /\ kind = "rest" /\ buf \in {Whole, <<"header", "body">>}
        /\ steady => buf = Whole

ResultInv == WholeIfSteady /\ SteadyServed /\ NothingForeign

SessionInv ==
    StageInv /\ WireInv /\ BufInv /\ SteadyInv /\ ExecInv /\ StatusInv /\ ResultInv

FetchInv == TypeOK /\ TimeInv /\ SessionInv

LEMMA StreamIs ==
    /\ Stream[1] = "login" /\ Stream[2] = "prompt" /\ Stream[3] = "echo"
    /\ Stream[4] = "prompt" /\ Stream[5] = "echo" /\ Stream[6] = "running"
    /\ Stream[7] = "header"
    /\ pager => Stream[8] = "more"
    /\ ~pager => Stream[8] = "body" /\ Stream[9] = "end" /\ Stream[10] = "prompt"
  BY DEF Stream

LEMMA InitFetch == Init => FetchInv
<1> SUFFICES ASSUME Init PROVE FetchInv
  OBVIOUS
<1>. USE DEF Init
<1>1. TypeOK
  <2>1. 0 \in 0..Timeout /\ 0 \in 0..NoGap
    BY TimeAssumption
  <2>2. pager \in BOOLEAN /\ steady \in BOOLEAN
    OBVIOUS
  <2>3. wire \in Seq(Line) /\ buf \in Seq(Line \cup Piece)
    OBVIOUS
  <2>4. /\ kind \in Kinds /\ step = "begin" /\ attempt \in 0..2 /\ waited \in Nat
        /\ phaseAt \in 0..Timeout /\ gap \in Nat /\ cut = FALSE /\ closed = FALSE
        /\ result = "none" /\ quiet \in 0..NoGap /\ elapsed \in Nat
    BY <2>1
  <2>. QED
    BY <2>2, <2>3, <2>4 DEF TypeOK
<1>2. StageInv /\ WireInv /\ BufInv /\ ExecInv /\ StatusInv
  BY DEF StageInv, WireInv, BufInv, ExecInv, StatusInv
<1>3. SteadyInv
  <2>1. steady => ~pager
    BY Zenon
  <2>2. quiet < NoGap /\ step \notin Phase
    BY TimeAssumption
  <2>. QED
    BY <2>1, <2>2 DEF SteadyInv
<1>4. ResultInv
  BY DEF ResultInv, WholeIfSteady, SteadyServed, NothingForeign
<1>5. SessionInv
  BY <1>2, <1>3, <1>4 DEF SessionInv
<1>. QED
  BY <1>1, <1>5, InitTime DEF FetchInv

\* Between two attempts, and at the end, nothing of a session is left.
LEMMA EnterKeeps ==
    ASSUME FetchInv, NEW b \in Seq(Line \cup Piece),
           NEW s \in {"request", "connect", "backoff", "status", "done"}, Enter(s, b),
           attempt' \in 0..2, result' \in {"none", "ok", "error", "noToken"},
           steady' \in BOOLEAN, steady' => ~pager,
           s # "done" => result' = "none", s = "connect" => b = <<>>,
           StatusInv', ResultInv'
    PROVE  TypeOK' /\ SessionInv'
<1>1. /\ step' = s /\ buf' = b /\ wire' = <<>> /\ kind' = kind /\ pager' = pager
      /\ waited' = 0 /\ phaseAt' = 0 /\ gap' = 0 /\ quiet' = 0 /\ elapsed' = elapsed
      /\ cut' = FALSE /\ closed' = FALSE
  BY DEF Enter
<1>2. TypeOK'
  <2>1. 0 \in 0..Timeout /\ 0 \in 0..NoGap /\ <<>> \in Seq(Line)
    BY TimeAssumption
  <2>2. kind \in Kinds /\ pager \in BOOLEAN /\ elapsed \in Nat
    BY DEF FetchInv, TypeOK
  <2>3. cut' \in BOOLEAN /\ closed' \in BOOLEAN /\ pager' \in BOOLEAN
    BY <1>1, <2>2
  <2>. QED
    BY <1>1, <2>1, <2>2, <2>3 DEF TypeOK
<1>3. StageInv' /\ WireInv' /\ BufInv' /\ SteadyInv' /\ ExecInv'
  BY <1>1, TimeAssumption
     DEF FetchInv, SessionInv, StageInv, WireInv, BufInv, SteadyInv, ExecInv
<1>. QED
  BY <1>2, <1>3 DEF SessionInv

\* Both of two sequences are where they are to be in their concatenation.
LEMMA Joined ==
    ASSUME NEW S, NEW s \in Seq(S), NEW t \in Seq(S)
    PROVE  /\ s \o t \in Seq(S) /\ Len(s \o t) = Len(s) + Len(t)
           /\ \A i \in 1..Len(s) : (s \o t)[i] = s[i]
           /\ \A i \in 1..Len(t) : (s \o t)[Len(s) + i] = t[i]
<1>1. Len(s) \in Nat /\ Len(t) \in Nat
  OBVIOUS
<1>2. /\ s \o t \in Seq(S) /\ Len(s \o t) = Len(s) + Len(t)
      /\ \A i \in 1..Len(s) + Len(t) :
            (s \o t)[i] = IF i <= Len(s) THEN s[i] ELSE t[i - Len(s)]
  BY ConcatProperties
<1>. QED
  BY <1>1, <1>2

\* What the next n lines add to what the phase has, of which they complete the last.
LEMMA ReceivedIs ==
    ASSUME TypeOK, NEW n \in 1..Len(wire), NEW b \in Received(n)
    PROVE  /\ b \in Seq(Line \cup Piece)
           /\ Len(b) = Lines + n
           /\ \A i \in 1..Lines : b[i] = buf[i]
           /\ \A i \in 1..n :
                 \/ b[Lines + i] = wire[i]
                 \/ i = 1 /\ cut /\ buf = <<>> /\ b[1] \in {"rest", "sharp"}
<1>1. wire \in Seq(Line) /\ buf \in Seq(Line \cup Piece) /\ Len(wire) \in Nat /\ Len(buf) \in Nat
  BY DEF TypeOK
<1>2. PICK now \in Seq(Line \cup Piece) :
         /\ now = SubSeq(wire, 1, n) /\ Len(now) = n
         /\ \A i \in 1..n : now[i] = wire[i]
  <2>1. /\ SubSeq(wire, 1, n) \in Seq(Line \cup Piece) /\ Len(SubSeq(wire, 1, n)) = n
        /\ \A i \in 1..n : SubSeq(wire, 1, n)[i] = wire[i]
    BY <1>1
  <2>. QED
    BY <2>1, Zenon
<1>3. CASE ~cut
  <2>1. b = buf \o now /\ Lines = Len(buf)
    BY <1>2, <1>3 DEF Received, Lines
  <2>. QED
    BY <1>1, <1>2, <2>1, Joined
<1>4. CASE cut /\ buf # <<>>
  <2>1. Lines = Len(buf) - 1 /\ Lines \in Nat
    BY <1>1, <1>4 DEF Lines
  <2>2. PICK whole \in Seq(Line \cup Piece) :
           /\ whole = SubSeq(buf, 1, Len(buf) - 1) /\ Len(whole) = Lines
           /\ \A i \in 1..Lines : whole[i] = buf[i]
    <3>1. /\ SubSeq(buf, 1, Len(buf) - 1) \in Seq(Line \cup Piece)
          /\ Len(SubSeq(buf, 1, Len(buf) - 1)) = Lines
          /\ \A i \in 1..Lines : SubSeq(buf, 1, Len(buf) - 1)[i] = buf[i]
      BY <1>1, <2>1
    <3>. QED
      BY <3>1, Zenon
  <2>3. b = whole \o now
    BY <1>2, <1>4, <2>2 DEF Received
  <2>4. /\ b \in Seq(Line \cup Piece) /\ Len(b) = Len(whole) + Len(now)
        /\ \A i \in 1..Len(whole) : b[i] = whole[i]
        /\ \A i \in 1..Len(now) : b[Len(whole) + i] = now[i]
    BY <2>3, Joined
  <2>. QED
    BY <1>2, <2>2, <2>4
<1>5. CASE cut /\ buf = <<>>
  <2>1. PICK rest \in Rests(Head(wire)) : b = <<rest>> \o SubSeq(wire, 2, n)
    BY <1>5 DEF Received
  <2>2. rest \in {"rest", "sharp"} /\ Lines = 0
    BY <1>5, <2>1 DEF Rests, Lines
  <2>3. PICK later \in Seq(Line \cup Piece) :
           /\ later = SubSeq(wire, 2, n) /\ Len(later) = n - 1
           /\ \A i \in 1..n - 1 : later[i] = wire[i + 1]
    <3>1. /\ SubSeq(wire, 2, n) \in Seq(Line \cup Piece) /\ Len(SubSeq(wire, 2, n)) = n - 1
          /\ \A i \in 1..n - 1 : SubSeq(wire, 2, n)[i] = wire[i + 1]
      BY <1>1
    <3>. QED
      BY <3>1, Zenon
  <2>4. <<rest>> \in Seq(Line \cup Piece) /\ b = <<rest>> \o later
    BY <2>1, <2>2, <2>3 DEF Piece
  <2>5. /\ b \in Seq(Line \cup Piece) /\ Len(b) = n /\ b[1] = rest
        /\ \A i \in 1..n - 1 : b[1 + i] = later[i]
    BY <2>3, <2>4, Joined
  <2>6. ASSUME NEW i \in 2..n PROVE b[i] = wire[i]
    <3>. DEFINE j == i - 1
    <3>1. j \in 1..n - 1 /\ 1 + j = i /\ j + 1 = i
      OBVIOUS
    <3>. HIDE DEF j
    <3>. QED
      BY <2>3, <2>5, <3>1
  <2>. QED
    BY <1>5, <2>2, <2>5, <2>6
<1>. QED
  BY <1>3, <1>4, <1>5

\* What the device has still to send after them.
LEMMA RestIs ==
    ASSUME TypeOK, NEW n \in 0..Len(wire)
    PROVE  LET rest == SubSeq(wire, n + 1, Len(wire))
           IN  /\ rest \in Seq(Line) /\ Len(rest) = Len(wire) - n
               /\ \A i \in 1..Len(wire) - n : rest[i] = wire[n + i]
  BY DEF TypeOK

\* As long as a fetch is not done, it has no result to speak of.
LEMMA NoResultYet == StageInv' /\ step' # "done" => ResultInv'
  BY DEF StageInv, ResultInv, WholeIfSteady, SteadyServed, NothingForeign

\* What is still to come is asked for no less when a part of it has come.
LEMMA WireKeeps ==
    ASSUME FetchInv, step \in Phase, NEW n \in 0..Len(wire),
           UNCHANGED <<step, pager>>, wire' = SubSeq(wire, n + 1, Len(wire))
    PROVE  WireInv' /\ Sent' = Sent + n /\ Sent \in Nat
<1>1. /\ Len(wire) \in Nat /\ Asked(step) \in Nat /\ Len(wire) <= Asked(step)
      /\ \A i \in 1..Len(wire) : wire[i] = Stream[Sent + i]
  BY DEF FetchInv, TypeOK, SessionInv, WireInv, Asked
<1>2. /\ Len(wire') = Len(wire) - n
      /\ \A i \in 1..Len(wire) - n : wire'[i] = wire[n + i]
  BY RestIs DEF FetchInv
<1>3. Asked(step)' = Asked(step) /\ Stream' = Stream
  BY DEF Asked, Stream
<1>4. Sent' = Sent + n /\ Sent \in Nat
  BY <1>1, <1>2, <1>3 DEF Sent
<1>5. ASSUME NEW i \in 1..Len(wire')
      PROVE  wire'[i] = Stream'[Sent' + i]
  <2>1. n + i \in 1..Len(wire) /\ i \in 1..Len(wire) - n /\ Sent + (n + i) = Sent' + i
    BY <1>1, <1>2, <1>4
  <2>2. wire[n + i] = Stream[Sent + (n + i)]
    BY <1>1, <2>1
  <2>. QED
    BY <1>2, <1>3, <2>1, <2>2
<1>6. Len(wire') <= Asked(step)'
  BY <1>1, <1>2, <1>3
<1>. QED
  BY <1>4, <1>5, <1>6 DEF WireInv

\* The lines that come continue what the last phase has.
LEMMA Extended ==
    ASSUME FetchInv, step = "config", NEW n \in 1..Len(wire), NEW b \in Received(n)
    PROVE  /\ Lines \in Nat /\ Len(b) = Lines + n /\ b \in Seq(Line \cup Piece)
           /\ \A i \in 1..Len(b) :
                 \/ b[i] = Stream[Earlier + i]
                 \/ i = 1 /\ ~steady /\ b[1] \in {"rest", "sharp"}
<1>1. /\ Len(b) = Lines + n /\ b \in Seq(Line \cup Piece)
      /\ \A i \in 1..Lines : b[i] = buf[i]
      /\ \A i \in 1..n :
            \/ b[Lines + i] = wire[i]
            \/ i = 1 /\ cut /\ buf = <<>> /\ b[1] \in {"rest", "sharp"}
  BY ReceivedIs DEF FetchInv
<1>2. /\ Len(buf) \in Nat /\ Lines \in Nat /\ (buf = <<>> => Lines = 0)
      /\ Sent \in Int /\ Earlier \in Int /\ Earlier + Lines = Sent
  <2>1. Len(buf) \in Nat /\ (buf # <<>> => Len(buf) > 0) /\ Len(wire) \in Nat
    BY DEF FetchInv, TypeOK
  <2>. QED
    BY <2>1 DEF Lines, Earlier, Sent, Asked
<1>3. /\ \A i \in 1..Len(wire) : wire[i] = Stream[Sent + i]
      /\ \A i \in 1..Lines :
            \/ buf[i] = Stream[Earlier + i]
            \/ i = 1 /\ ~steady /\ buf[1] \in {"rest", "sharp"}
      /\ cut /\ buf = <<>> => ~steady
  BY DEF FetchInv, SessionInv, WireInv, BufInv
<1>4. ASSUME NEW i \in 1..Lines + n
      PROVE  \/ b[i] = Stream[Earlier + i]
             \/ i = 1 /\ ~steady /\ b[1] \in {"rest", "sharp"}
  <2>1. CASE i <= Lines
    <3>1. i \in 1..Lines
      BY <1>2, <2>1
    <3>2. CASE buf[i] = Stream[Earlier + i]
      BY <1>1, <3>1, <3>2
    <3>3. CASE i = 1 /\ ~steady /\ buf[1] \in {"rest", "sharp"}
      BY <1>1, <3>1, <3>3
    <3>. QED
      BY <1>3, <3>1, <3>2, <3>3
  <2>2. CASE i > Lines
    <3>1. PICK j \in 1..n : j = i - Lines
      BY <1>2, <2>2
    <3>2. i = Lines + j /\ Earlier + i = Sent + j /\ j \in 1..Len(wire)
      BY <1>2, <3>1
    <3>3. CASE b[Lines + j] = wire[j]
      BY <1>3, <3>2, <3>3
    <3>4. CASE j = 1 /\ cut /\ buf = <<>> /\ b[1] \in {"rest", "sharp"}
      BY <1>2, <1>3, <3>2, <3>4
    <3>. QED
      BY <1>1, <3>3, <3>4
  <2>. QED
    BY <1>2, <2>1, <2>2
<1>. QED
  BY <1>1, <1>2, <1>4

LEMMA SendKeeps ==
    ASSUME FetchInv, NEW n \in 1..Len(wire), Send(n)
    PROVE  TypeOK' /\ SessionInv'
<1>1. /\ step \in Session /\ ~closed /\ buf' \in Received(n) /\ cut' = FALSE
      /\ wire' = SubSeq(wire, n + 1, Len(wire)) /\ gap' = 0 /\ quiet' = 0
      /\ UNCHANGED <<kind, pager, step, attempt, waited, phaseAt, closed, result,
                     steady, elapsed>>
      /\ kind' = kind /\ pager' = pager /\ step' = step /\ closed' = closed
  BY DEF Send
<1>2. /\ buf' \in Seq(Line \cup Piece) /\ Len(buf') = Lines + n
      /\ \A i \in 1..Lines : buf'[i] = buf[i]
      /\ \A i \in 1..n :
            \/ buf'[Lines + i] = wire[i]
            \/ i = 1 /\ cut /\ buf = <<>> /\ buf'[1] \in {"rest", "sharp"}
  BY <1>1, ReceivedIs DEF FetchInv
<1>3. /\ wire' \in Seq(Line) /\ Len(wire') = Len(wire) - n
      /\ \A i \in 1..Len(wire) - n : wire'[i] = wire[n + i]
  BY <1>1, RestIs DEF FetchInv
<1>4. TypeOK'
  <2>1. 0 \in 0..NoGap /\ 0 \in Nat
    BY TimeAssumption
  <2>. QED
    BY <1>1, <1>2, <1>3, <2>1 DEF FetchInv, TypeOK
<1>5. step # "connect" /\ Len(wire) \in Nat /\ n <= Len(wire)
  BY DEF FetchInv, TypeOK, SessionInv, StageInv
<1>6. StageInv' /\ StatusInv' /\ SteadyInv'
  BY <1>1, <1>5, TimeAssumption
     DEF FetchInv, TypeOK, SessionInv, StageInv, StatusInv, SteadyInv
<1>7. CASE step \in Phase
  <2>1. WireInv' /\ Sent' = Sent + n /\ Sent \in Nat
    <3>1. n \in 0..Len(wire)
      BY <1>5
    <3>2. UNCHANGED <<step, pager>> /\ wire' = SubSeq(wire, n + 1, Len(wire))
      BY <1>1
    <3>. QED
      BY <1>7, <3>1, <3>2, WireKeeps
  <2>2. ASSUME step = "config"
        PROVE  BufInv'
    <3>1. /\ Lines \in Nat
          /\ \A i \in 1..Len(buf') :
                \/ buf'[i] = Stream[Earlier + i]
                \/ i = 1 /\ ~steady /\ buf'[1] \in {"rest", "sharp"}
      BY <1>1, <2>2, Extended
    <3>2. Lines' = Len(buf') /\ Earlier' = Earlier /\ Stream' = Stream
      <4>1. Lines' = Len(buf') /\ Stream' = Stream
        BY <1>1 DEF Lines, Stream
      <4>. QED
        BY <1>2, <2>1, <3>1, <4>1 DEF Earlier
    <3>. QED
      BY <1>1, <2>2, <3>1, <3>2 DEF FetchInv, SessionInv, BufInv
  <2>3. BufInv' /\ ExecInv'
    BY <1>1, <1>7, <2>2 DEF BufInv, ExecInv
  <2>. QED
    BY <1>1, <1>4, <1>6, <1>7, <2>1, <2>3, NoResultYet DEF SessionInv
<1>8. CASE step = "exec"
  <2>1. /\ kind = "exec" /\ ~cut /\ Lines = Len(buf) /\ Len(buf) \in Nat /\ Whole' = Whole
    BY <1>1, <1>8 DEF FetchInv, TypeOK, SessionInv, ExecInv, Lines, Whole
  <2>2. ASSUME steady
        PROVE  /\ Len(buf') + Len(wire') = 3
               /\ \A i \in 1..Len(buf') : buf'[i] = Whole[i]
               /\ \A i \in 1..Len(wire') : wire'[i] = Whole[Len(buf') + i]
    <3>1. /\ Len(buf) + Len(wire) = 3
          /\ \A i \in 1..Len(buf) : buf[i] = Whole[i]
          /\ \A i \in 1..Len(wire) : wire[i] = Whole[Len(buf) + i]
      BY <1>8, <2>2 DEF FetchInv, SessionInv, ExecInv
    <3>2. ASSUME NEW i \in 1..Len(buf') PROVE buf'[i] = Whole[i]
      <4>1. CASE i \in 1..Len(buf)
        BY <1>2, <2>1, <3>1, <4>1
      <4>2. CASE i \notin 1..Len(buf)
        <5>1. PICK j \in 1..n : i = Len(buf) + j
          <6>1. i - Len(buf) \in 1..n /\ i = Len(buf) + (i - Len(buf))
            BY <1>2, <2>1, <4>2
          <6>. QED
            BY <6>1
        <5>2. j \in 1..Len(wire) /\ buf'[i] = wire[j]
          BY <1>2, <1>5, <2>1, <5>1
        <5>. QED
          BY <3>1, <5>1, <5>2
      <4>. QED
        BY <4>1, <4>2
    <3>3. ASSUME NEW i \in 1..Len(wire') PROVE wire'[i] = Whole[Len(buf') + i]
      <4>1. /\ n + i \in 1..Len(wire) /\ i \in 1..Len(wire) - n
            /\ Len(buf) + (n + i) = Len(buf') + i
        BY <1>2, <1>3, <1>5, <2>1
      <4>. QED
        BY <1>3, <3>1, <4>1
    <3>4. Len(buf') + Len(wire') = 3
      BY <1>2, <1>3, <1>5, <2>1, <3>1
    <3>. QED
      BY <3>2, <3>3, <3>4
  <2>3. ExecInv'
    <3>1. steady' =>
            /\ Len(buf') + Len(wire') = 3
            /\ \A i \in 1..Len(buf') : buf'[i] = Whole'[i]
            /\ \A i \in 1..Len(wire') : wire'[i] = Whole'[Len(buf') + i]
            /\ ~closed'
      <4>1. (steady' <=> steady) /\ ~closed' /\ Whole' = Whole
        BY <1>1, <2>1
      <4>. QED
        BY <2>2, <4>1
    <3>2. kind' = "exec" /\ ~cut'
      BY <1>1, <2>1
    <3>. QED
      BY <3>1, <3>2 DEF ExecInv
  <2>4. WireInv' /\ BufInv'
    BY <1>1, <1>8 DEF WireInv, BufInv
  <2>. QED
    BY <1>1, <1>4, <1>6, <1>8, <2>3, <2>4, NoResultYet DEF SessionInv
<1>. QED
  BY <1>1, <1>5, <1>7, <1>8

LEMMA SendPieceKeeps ==
    ASSUME FetchInv, NEW n \in 0..Len(wire) - 1, NEW piece \in {"piece", "end"},
           SendPiece(n, piece)
    PROVE  TypeOK' /\ SessionInv'
<1>1. /\ step \in Phase /\ ~closed /\ cut' = TRUE /\ (n = 0 => ~cut)
      /\ piece = "end" => step = "config" /\ wire[n + 1] = "body"
      /\ wire' = SubSeq(wire, n + 1, Len(wire)) /\ gap' = 0 /\ quiet' = 0
      /\ steady' = (steady /\ piece # "end")
      /\ UNCHANGED <<kind, pager, step, attempt, waited, phaseAt, closed, result, elapsed>>
      /\ kind' = kind /\ pager' = pager /\ step' = step /\ closed' = closed
  BY DEF SendPiece
<1>2. PICK received : received \in (IF n = 0 THEN {buf} ELSE Received(n))
                      /\ buf' = Append(received, piece)
  BY DEF SendPiece
<1>3. Len(wire) \in Nat /\ n \in 0..Len(wire) /\ n < Len(wire) /\ (n # 0 => n \in 1..Len(wire))
  BY DEF FetchInv, TypeOK
<1>4. /\ wire' \in Seq(Line) /\ Len(wire') = Len(wire) - n /\ wire' # <<>>
      /\ 1 \in 1..Len(wire') /\ wire'[1] = wire[n + 1]
  <2>1. /\ wire' \in Seq(Line) /\ Len(wire') = Len(wire) - n
        /\ \A i \in 1..Len(wire) - n : wire'[i] = wire[n + i]
    BY <1>1, <1>3, RestIs DEF FetchInv
  <2>. QED
    BY <1>3, <2>1
<1>5. received \in Seq(Line \cup Piece) /\ Len(received) \in Nat
  <2>1. CASE n = 0
    BY <1>2, <2>1 DEF FetchInv, TypeOK
  <2>2. CASE n # 0
    BY <1>2, <1>3, <2>2, ReceivedIs DEF FetchInv
  <2>. QED
    BY <2>1, <2>2
<1>6. /\ buf' \in Seq(Line \cup Piece) /\ Len(buf') = Len(received) + 1
      /\ buf'[Len(buf')] = piece /\ \A i \in 1..Len(received) : buf'[i] = received[i]
  <2>1. piece \in Line \cup Piece
    BY DEF Line, Piece
  <2>. QED
    BY <1>2, <1>5, <2>1
<1>7. (steady' => steady) /\ steady' \in BOOLEAN /\ (piece = "end" => ~steady')
  BY <1>1
<1>8. TypeOK'
  <2>1. 0 \in 0..NoGap /\ 0 \in Nat
    BY TimeAssumption
  <2>. QED
    BY <1>1, <1>4, <1>6, <1>7, <2>1 DEF FetchInv, TypeOK
<1>9. WireInv' /\ Sent' = Sent + n /\ Sent \in Nat
  BY <1>1, <1>3, WireKeeps
<1>10. ASSUME step = "config"
       PROVE  BufInv'
  <2>1. /\ Lines \in Nat /\ Len(received) = Lines + n
        /\ \A i \in 1..Len(received) :
              \/ received[i] = Stream[Earlier + i]
              \/ i = 1 /\ ~steady /\ received[1] \in {"rest", "sharp"}
    <3>1. CASE n = 0
      <4>1. received = buf /\ Lines = Len(buf)
        BY <1>1, <1>2, <3>1 DEF Lines
      <4>. QED
        BY <1>5, <1>10, <3>1, <4>1 DEF FetchInv, SessionInv, BufInv
    <3>2. CASE n # 0
      BY <1>2, <1>3, <1>10, <3>2, Extended
    <3>. QED
      BY <3>1, <3>2
  <2>2. Lines' = Len(received) /\ Earlier' = Earlier /\ Stream' = Stream
    <3>1. buf' # <<>>
      BY <1>5, <1>6
    <3>2. Lines' = Len(received) /\ Stream' = Stream
      BY <1>1, <1>5, <1>6, <3>1 DEF Lines, Stream
    <3>. QED
      BY <1>3, <1>9, <2>1, <3>2 DEF Earlier
  <2>3. Earlier \in 0..4
    BY <1>10 DEF FetchInv, SessionInv, BufInv
  <2>4. ASSUME NEW i \in 1..Lines'
        PROVE  \/ buf'[i] = Stream'[Earlier' + i]
               \/ i = 1 /\ ~steady' /\ buf'[1] \in {"rest", "sharp"}
    BY <1>6, <1>7, <2>1, <2>2
  <2>5. buf'[Len(buf')] = "end" => Stream'[Sent' + 1] = "body" /\ ~steady'
    <3>1. ASSUME piece = "end"
          PROVE  Stream'[Sent' + 1] = "body"
      <4>1. /\ wire'[1] = "body" /\ 1 \in 1..Len(wire')
        BY <1>1, <1>4, <3>1
      <4>. QED
        BY <1>1, <1>9, <4>1 DEF WireInv
    <3>. QED
      BY <1>6, <1>7, <3>1
  <2>6. buf' # <<>> /\ buf'[Len(buf')] \in {"piece", "end"}
    BY <1>5, <1>6
  <2>. QED
    BY <2>2, <2>3, <2>4, <2>5, <2>6 DEF BufInv
<1>11. StageInv' /\ StatusInv' /\ ExecInv'
  BY <1>1 DEF FetchInv, SessionInv, StageInv, StatusInv, ExecInv
<1>12. SteadyInv'
  BY <1>1, <1>7, TimeAssumption DEF FetchInv, SessionInv, SteadyInv
<1>13. BufInv'
  BY <1>1, <1>10 DEF BufInv
<1>. QED
  BY <1>1, <1>8, <1>9, <1>11, <1>12, <1>13, NoResultYet DEF SessionInv

LEMMA CloseKeeps == ASSUME FetchInv, Close PROVE TypeOK' /\ SessionInv'
<1>1. /\ step \in Session \ {"connect"} /\ closed' = TRUE
      /\ steady' = (steady /\ step = "exec" /\ wire = <<>>)
      /\ step' = step /\ kind' = kind /\ pager' = pager /\ wire' = wire /\ buf' = buf
      /\ cut' = cut /\ gap' = gap /\ quiet' = quiet /\ phaseAt' = phaseAt
      /\ attempt' = attempt /\ waited' = waited /\ result' = result /\ elapsed' = elapsed
  BY DEF Close
<1>2. steady' => steady /\ step = "exec" /\ wire = <<>>
  BY <1>1
<1>3. /\ steady' \in BOOLEAN /\ Sent' = Sent /\ Lines' = Lines /\ Earlier' = Earlier
      /\ Stream' = Stream /\ Asked(step)' = Asked(step) /\ Whole' = Whole
  BY <1>1 DEF Sent, Lines, Earlier, Stream, Asked, Whole
<1>4. TypeOK'
  BY <1>1, <1>3 DEF FetchInv, TypeOK
<1>5. StageInv' /\ WireInv' /\ StatusInv'
  BY <1>1, <1>3 DEF FetchInv, SessionInv, StageInv, WireInv, StatusInv
<1>6. BufInv'
  BY <1>1, <1>2, <1>3 DEF FetchInv, SessionInv, BufInv
<1>7. SteadyInv' /\ ExecInv'
  BY <1>1, <1>2, <1>3 DEF FetchInv, SessionInv, SteadyInv, ExecInv
<1>. QED
  BY <1>1, <1>4, <1>5, <1>6, <1>7, NoResultYet DEF SessionInv

\* Who opens a shell hears the banner and the first prompt, and nothing yet.
LEMMA ConnectedKeeps == ASSUME FetchInv, Connected PROVE TypeOK' /\ SessionInv'
<1>1. /\ step = "connect" /\ waited > 0 /\ phaseAt' = waited
      /\ step' = IF kind = "exec" THEN "exec" ELSE "banner"
      /\ wire' \in IF kind = "exec" THEN {Whole, <<"refusal">>} ELSE {<<"login", "prompt">>}
      /\ steady' = (steady /\ wire' # <<"refusal">>)
      /\ kind' = kind /\ pager' = pager /\ attempt' = attempt /\ waited' = waited
      /\ gap' = gap /\ cut' = cut /\ closed' = closed /\ buf' = buf /\ result' = result
      /\ quiet' = quiet /\ elapsed' = elapsed
  BY DEF Connected
<1>2. gap = 0 /\ buf = <<>> /\ ~cut /\ ~closed /\ result = "none"
  BY <1>1 DEF FetchInv, SessionInv, StageInv
<1>3. kind \in {"exec", "shell"} /\ waited \in 0..Timeout
  <2>1. kind \in {"rest", "exec", "shell"} /\ waited \in Nat
    BY KindAssumption DEF FetchInv, TypeOK
  <2>2. kind # "rest" /\ waited <= Timeout
    BY <1>1 DEF FetchInv, TimeInv, ClockOK, InTime
  <2>. QED
    BY <2>1, <2>2, TimeAssumption
<1>4. steady' \in BOOLEAN /\ (steady' => steady) /\ Whole' = Whole
  BY <1>1 DEF Whole
<1>5. quiet < NoGap \/ ~steady
  BY DEF FetchInv, SessionInv, SteadyInv
<1>6. CASE kind = "exec"
  <2>1. /\ wire' \in Seq(Line) /\ step' = "exec"
        /\ steady' => Len(wire') = 3 /\ \A i \in 1..3 : wire'[i] = Whole[i]
    <3>1. /\ step' = "exec" /\ wire' \in {Whole, <<"refusal">>}
          /\ steady' => wire' = Whole
      BY <1>1, <1>6
    <3>2. Whole = <<"header", "body", "body">>
      BY <1>6 DEF Whole
    <3>3. Whole \in Seq(Line) /\ <<"refusal">> \in Seq(Line) /\ Len(Whole) = 3
      BY <3>2 DEF Line
    <3>. QED
      BY <3>1, <3>3
  <2>2. TypeOK'
    BY <1>1, <1>2, <1>3, <1>4, <2>1 DEF FetchInv, TypeOK
  <2>3. ExecInv'
    BY <1>1, <1>2, <1>4, <1>6, <2>1 DEF ExecInv
  <2>4. StageInv' /\ WireInv' /\ BufInv' /\ StatusInv' /\ SteadyInv'
    BY <1>1, <1>2, <1>4, <2>1
       DEF FetchInv, SessionInv, StageInv, WireInv, BufInv, StatusInv, SteadyInv
  <2>. QED
    BY <2>1, <2>2, <2>3, <2>4, NoResultYet DEF SessionInv
<1>7. CASE kind = "shell"
  <2>1. /\ wire' = <<"login", "prompt">> /\ step' = "banner"
        /\ wire' \in Seq(Line) /\ Len(wire') = 2 /\ wire'[1] = "login" /\ wire'[2] = "prompt"
    <3>1. wire' = <<"login", "prompt">> /\ step' = "banner"
      BY <1>1, <1>7
    <3>2. <<"login", "prompt">> \in Seq(Line) /\ Len(<<"login", "prompt">>) = 2
      BY DEF Line
    <3>. QED
      BY <3>1, <3>2
  <2>2. TypeOK'
    BY <1>1, <1>2, <1>3, <1>4, <2>1 DEF FetchInv, TypeOK
  <2>3. WireInv'
    <3>1. Asked(step)' = 2 /\ Sent' = 0 /\ Stream'[1] = "login" /\ Stream'[2] = "prompt"
      BY <2>1 DEF Asked, Sent, Stream
    <3>. QED
      BY <2>1, <3>1 DEF WireInv
  <2>4. StageInv' /\ BufInv' /\ StatusInv' /\ ExecInv'
    BY <1>1, <1>2, <1>3, <1>7, <2>1
       DEF FetchInv, SessionInv, StageInv, BufInv, StatusInv, ExecInv
  <2>5. SteadyInv'
    BY <1>1, <1>2, <1>4, <1>5, <2>1 DEF FetchInv, TypeOK, SessionInv, SteadyInv
  <2>. QED
    BY <2>1, <2>2, <2>3, <2>4, <2>5, NoResultYet DEF SessionInv
<1>. QED
  BY <1>3, <1>6, <1>7

\* What a command makes the device say continues the stream.
LEMMA TypeKeeps ==
    ASSUME FetchInv, NEW phase \in {"pager", "config"}, NEW answer \in Seq(Line),
           step = (IF phase = "pager" THEN "banner" ELSE "pager"), Type(phase, answer),
           Asked(phase) = Asked(step) + Len(answer),
           \A i \in 1..Len(answer) : answer[i] = Stream[Asked(step) + i]
    PROVE  TypeOK' /\ SessionInv'
<1>1. /\ step' = phase /\ wire' = wire \o answer /\ buf' = <<>> /\ gap' = 0
      /\ phaseAt' = waited /\ steady' = (steady /\ ~cut)
      /\ kind' = kind /\ pager' = pager /\ attempt' = attempt /\ waited' = waited
      /\ cut' = cut /\ closed' = closed /\ result' = result /\ quiet' = quiet
      /\ elapsed' = elapsed
  BY DEF Type
<1>2. /\ wire \in Seq(Line) /\ Len(wire) \in Nat /\ Len(answer) \in Nat
      /\ Asked(step) \in Nat /\ Sent \in Int /\ Sent + Len(wire) = Asked(step)
      /\ waited \in 1..Timeout /\ step \in Phase
  <2>1. waited \in Nat /\ waited <= Timeout /\ phaseAt \in 1..waited
    BY DEF FetchInv, TypeOK, TimeInv, InTime, SessionInv, StageInv
  <2>2. /\ wire \in Seq(Line) /\ Len(wire) \in Nat /\ Len(answer) \in Nat
        /\ Asked(step) \in Nat
    BY DEF FetchInv, TypeOK, Asked
  <2>. QED
    BY <2>1, <2>2, TimeAssumption DEF Sent
<1>3. /\ wire' \in Seq(Line) /\ Len(wire') = Len(wire) + Len(answer)
      /\ \A i \in 1..Len(wire) : wire'[i] = wire[i]
      /\ \A i \in 1..Len(answer) : wire'[Len(wire) + i] = answer[i]
  BY <1>1, <1>2, Joined
<1>4. steady' \in BOOLEAN /\ (steady' => steady /\ ~cut)
  BY <1>1
<1>5. TypeOK'
  <2>1. wire # <<>> => wire' # <<>>
    BY <1>2, <1>3
  <2>2. <<>> \in Seq(Line \cup Piece) /\ waited \in 0..Timeout
    BY <1>2
  <2>. QED
    BY <1>1, <1>3, <1>4, <2>1, <2>2 DEF FetchInv, TypeOK
<1>6. Asked(step)' = Asked(phase) /\ Stream' = Stream /\ Sent' = Sent
  <2>1. Asked(step)' = Asked(phase) /\ Stream' = Stream
    BY <1>1 DEF Asked, Stream
  <2>. QED
    BY <1>2, <1>3, <2>1 DEF Sent
<1>7. Len(wire) <= Asked(step) /\ \A i \in 1..Len(wire) : wire[i] = Stream[Sent + i]
  BY <1>2 DEF FetchInv, SessionInv, WireInv
<1>8. WireInv'
  <2>1. ASSUME NEW i \in 1..Len(wire') PROVE wire'[i] = Stream[Sent + i]
    <3>1. CASE i \in 1..Len(wire)
      BY <1>3, <1>7, <3>1
    <3>2. CASE i \notin 1..Len(wire)
      <4>. DEFINE j == i - Len(wire)
      <4>1. j \in 1..Len(answer) /\ Len(wire) + j = i /\ Asked(step) + j = Sent + i
        BY <1>2, <1>3, <3>2
      <4>. HIDE DEF j
      <4>. QED
        BY <1>3, <4>1
    <3>. QED
      BY <3>1, <3>2
  <2>. QED
    BY <1>2, <1>3, <1>6, <1>7, <2>1 DEF WireInv
<1>9. BufInv'
  <2>1. ASSUME phase = "config"
        PROVE  Sent \in 0..4
    BY <1>2, <1>7, <2>1 DEF Asked
  <2>2. Lines' = 0 /\ Earlier' = Sent
    BY <1>1, <1>2, <1>6 DEF Lines, Earlier
  <2>. QED
    BY <1>1, <1>4, <2>1, <2>2 DEF BufInv
<1>10. StageInv' /\ StatusInv' /\ ExecInv'
  BY <1>1, <1>2 DEF FetchInv, SessionInv, StageInv, StatusInv, ExecInv
<1>11. SteadyInv'
  <2>1. wire' = <<>> \/ gap' <= quiet'
    BY <1>1 DEF FetchInv, TypeOK
  <2>. QED
    BY <1>1, <1>2, <1>4, <2>1 DEF FetchInv, SessionInv, SteadyInv
<1>. QED
  BY <1>1, <1>5, <1>8, <1>9, <1>10, <1>11, NoResultYet DEF SessionInv

LEMMA TurnOffPagerKeeps == ASSUME FetchInv, TurnOffPager PROVE TypeOK' /\ SessionInv'
<1>. DEFINE answer == <<"echo", "prompt">>
<1>1. step = "banner" /\ Type("pager", answer)
  BY DEF TurnOffPager
<1>2. answer \in Seq(Line) /\ Len(answer) = 2 /\ Asked("pager") = 4 /\ Asked(step) = 2
  BY <1>1 DEF Line, Asked
<1>3. \A i \in 1..2 : answer[i] = Stream[2 + i]
  <2>1. answer[1] = Stream[2 + 1] /\ answer[2] = Stream[2 + 2]
    BY StreamIs
  <2>. QED
    BY <2>1
<1>. HIDE DEF answer
<1>4. step = (IF "pager" = "pager" THEN "banner" ELSE "pager")
  BY <1>1
<1>5. \A i \in 1..Len(answer) : answer[i] = Stream[Asked(step) + i]
  BY <1>2, <1>3
<1>6. Asked("pager") = Asked(step) + Len(answer)
  BY <1>2
<1>. QED
  BY <1>1, <1>2, <1>4, <1>5, <1>6, TypeKeeps

LEMMA ShowConfigurationKeeps ==
    ASSUME FetchInv, ShowConfiguration PROVE TypeOK' /\ SessionInv'
<1>1. step = "pager"
  BY DEF ShowConfiguration
<1>2. ASSUME pager PROVE TypeOK' /\ SessionInv'
  <2>. DEFINE answer == <<"echo", "running", "header", "more">>
  <2>1. Type("config", answer)
    BY <1>1, <1>2 DEF ShowConfiguration
  <2>2. answer \in Seq(Line) /\ Len(answer) = 4
    BY DEF Line
  <2>3. ASSUME NEW i \in 1..4 PROVE answer[i] = Stream[4 + i]
    <3>1. \/ i = 1 /\ 4 + i = 5
          \/ i = 2 /\ 4 + i = 6
          \/ i = 3 /\ 4 + i = 7
          \/ i = 4 /\ 4 + i = 8
      OBVIOUS
    <3>. QED
      BY <1>2, <3>1, StreamIs
  <2>. HIDE DEF answer
  <2>4. Asked("config") = Asked(step) + Len(answer) /\ Asked(step) = 4
    BY <1>1, <1>2, <2>2 DEF Asked
  <2>5. \A i \in 1..Len(answer) : answer[i] = Stream[Asked(step) + i]
    BY <2>2, <2>3, <2>4
  <2>6. step = (IF "config" = "pager" THEN "banner" ELSE "pager")
    BY <1>1
  <2>. QED
    BY <2>1, <2>2, <2>4, <2>5, <2>6, TypeKeeps
<1>3. ASSUME ~pager PROVE TypeOK' /\ SessionInv'
  <2>. DEFINE answer == <<"echo", "running", "header", "body", "end", "prompt">>
  <2>1. Type("config", answer)
    BY <1>1, <1>3 DEF ShowConfiguration
  <2>2. answer \in Seq(Line) /\ Len(answer) = 6
    BY DEF Line
  <2>3. ASSUME NEW i \in 1..6 PROVE answer[i] = Stream[4 + i]
    <3>1. \/ i = 1 /\ 4 + i = 5
          \/ i = 2 /\ 4 + i = 6
          \/ i = 3 /\ 4 + i = 7
          \/ i = 4 /\ 4 + i = 8
          \/ i = 5 /\ 4 + i = 9
          \/ i = 6 /\ 4 + i = 10
      OBVIOUS
    <3>. QED
      BY <1>3, <3>1, StreamIs
  <2>. HIDE DEF answer
  <2>4. Asked("config") = Asked(step) + Len(answer) /\ Asked(step) = 4
    BY <1>1, <1>3, <2>2 DEF Asked
  <2>5. \A i \in 1..Len(answer) : answer[i] = Stream[Asked(step) + i]
    BY <2>2, <2>3, <2>4
  <2>6. step = (IF "config" = "pager" THEN "banner" ELSE "pager")
    BY <1>1
  <2>. QED
    BY <2>1, <2>2, <2>4, <2>5, <2>6, TypeKeeps
<1>. QED
  BY <1>2, <1>3

LEMMA TickKeeps == ASSUME FetchInv, Tick PROVE TypeOK' /\ SessionInv'
<1>1. /\ step \notin {"begin", "done"} /\ waited' = waited + 1 /\ elapsed' = elapsed + 1
      /\ gap' = IF buf = <<>> \/ step \notin Phase THEN 0 ELSE gap + 1
      /\ quiet' = IF wire = <<>> \/ ~steady THEN 0 ELSE quiet + 1
      /\ steady' = (steady /\ quiet' < NoGap)
      /\ kind' = kind /\ pager' = pager /\ step' = step /\ attempt' = attempt
      /\ phaseAt' = phaseAt /\ wire' = wire /\ cut' = cut /\ closed' = closed
      /\ buf' = buf /\ result' = result
  BY DEF Tick, Due
<1>2. /\ steady' \in BOOLEAN /\ Sent' = Sent /\ Lines' = Lines /\ Earlier' = Earlier
      /\ Stream' = Stream /\ Asked(step)' = Asked(step) /\ Whole' = Whole
  BY <1>1 DEF Sent, Lines, Earlier, Stream, Asked, Whole
<1>3. (steady' => steady /\ quiet' < NoGap) /\ NoGap \in Nat \ {0}
  BY <1>1, TimeAssumption
<1>4. /\ waited \in Nat /\ elapsed \in Nat /\ gap \in Nat /\ quiet \in 0..NoGap
      /\ steady => quiet < NoGap
  BY DEF FetchInv, TypeOK, SessionInv, SteadyInv
<1>5. gap' \in Nat /\ quiet' \in 0..NoGap
  <2>1. gap' \in {0, gap + 1} /\ (quiet' = 0 \/ (steady /\ quiet' = quiet + 1))
    BY <1>1
  <2>. QED
    BY <1>3, <1>4, <2>1
<1>6. TypeOK'
  BY <1>1, <1>2, <1>4, <1>5 DEF FetchInv, TypeOK
<1>7. StageInv'
  BY <1>1, <1>4 DEF FetchInv, TypeOK, SessionInv, StageInv
<1>8. WireInv' /\ StatusInv'
  BY <1>1, <1>2, <1>3 DEF FetchInv, SessionInv, WireInv, StatusInv
<1>9. BufInv'
  BY <1>1, <1>2, <1>3 DEF FetchInv, SessionInv, BufInv
<1>10. ExecInv'
  BY <1>1, <1>2, <1>3 DEF FetchInv, SessionInv, ExecInv
<1>11. SteadyInv'
  <2>1. steady' /\ wire' # <<>> =>
          quiet' = quiet + 1 /\ (step \in Phase => gap' \in {0, gap + 1})
    BY <1>1, <1>3
  <2>. QED
    BY <1>1, <1>3, <1>4, <2>1 DEF FetchInv, SessionInv, SteadyInv
<1>. QED
  BY <1>1, <1>6, <1>7, <1>8, <1>9, <1>10, <1>11, NoResultYet DEF SessionInv

LEMMA FailKeeps ==
    ASSUME FetchInv, step # "done", FailAttempt PROVE TypeOK' /\ SessionInv'
<1>1. /\ attempt \in 0..2 /\ steady \in BOOLEAN /\ result = "none" /\ (steady => ~pager)
      /\ <<>> \in Seq(Line \cup Piece)
  BY DEF FetchInv, TypeOK, SessionInv, StageInv, SteadyInv
<1>2. attempt' = attempt /\ steady' = steady
  BY DEF FailAttempt
<1>3. CASE attempt < 2
  <2>1. Enter("backoff", <<>>) /\ result' = result
    BY <1>3 DEF FailAttempt
  <2>2. step' = "backoff"
    BY <2>1 DEF Enter
  <2>3. StatusInv' /\ ResultInv'
    BY <1>1, <2>1, <2>2 DEF StatusInv, ResultInv, WholeIfSteady, SteadyServed, NothingForeign
  <2>. QED
    BY <1>1, <1>2, <2>1, <2>3, EnterKeeps
<1>4. CASE ~(attempt < 2)
  <2>1. Enter("done", <<>>) /\ result' = "error" /\ attempt' = 2
    BY <1>1, <1>2, <1>4 DEF FailAttempt
  <2>2. step' = "done"
    BY <2>1 DEF Enter
  <2>3. StatusInv' /\ ResultInv'
    BY <2>1, <2>2 DEF StatusInv, ResultInv, WholeIfSteady, SteadyServed, NothingForeign
  <2>. QED
    BY <1>1, <1>2, <2>1, <2>3, EnterKeeps
<1>. QED
  BY <1>3, <1>4

LEMMA StartKeeps ==
    ASSUME FetchInv, step # "done", StartAttempt, attempt' \in 0..2, result' = result
    PROVE  TypeOK' /\ SessionInv'
<1>. DEFINE s == IF kind = "rest" THEN "request" ELSE "connect"
<1>1. /\ s \in {"request", "connect"} /\ Enter(s, <<>>) /\ steady' = ~pager
      /\ result' = "none" /\ <<>> \in Seq(Line \cup Piece)
  BY DEF StartAttempt, FetchInv, SessionInv, StageInv
<1>2. steady' \in BOOLEAN /\ (steady' => ~pager)
  BY <1>1, Zenon
<1>. HIDE DEF s
<1>3. step' = s
  BY <1>1 DEF Enter
<1>4. StatusInv' /\ ResultInv'
  BY <1>1, <1>3 DEF StatusInv, ResultInv, WholeIfSteady, SteadyServed, NothingForeign
<1>. QED
  BY <1>1, <1>2, <1>4, EnterKeeps

LEMMA NoTokenKeeps == ASSUME FetchInv, NoToken PROVE TypeOK' /\ SessionInv'
<1>1. /\ Enter("done", <<>>) /\ result' = "noToken" /\ attempt' = attempt /\ steady' = steady
      /\ <<>> \in Seq(Line \cup Piece)
  BY DEF NoToken
<1>2. /\ attempt \in 0..2 /\ steady \in BOOLEAN /\ (steady => ~pager)
  BY DEF FetchInv, TypeOK, SessionInv, SteadyInv
<1>3. step' = "done"
  BY <1>1 DEF Enter
<1>4. StatusInv' /\ ResultInv'
  BY <1>1, <1>3 DEF StatusInv, ResultInv, WholeIfSteady, SteadyServed, NothingForeign
<1>. QED
  BY <1>1, <1>2, <1>4, EnterKeeps

\* What is accepted is kept until the end.
LEMMA SucceedKeeps ==
    ASSUME FetchInv, NEW content \in Seq(Line \cup Piece), Succeed(content),
           steady => content = Whole,
           kind # "exec" => Head(content) = "sharp" \/ Beginning(content)
    PROVE  TypeOK' /\ SessionInv'
<1>1. /\ Enter("done", content) /\ result' = "ok" /\ attempt' = attempt /\ steady' = steady
  BY DEF Succeed
<1>2. /\ attempt \in 0..2 /\ steady \in BOOLEAN /\ (steady => ~pager)
  BY DEF FetchInv, TypeOK, SessionInv, SteadyInv
<1>3. step' = "done" /\ buf' = content /\ Whole' = Whole /\ kind' = kind
  BY <1>1 DEF Enter, Whole
<1>4. Beginning(content) => Beginning(buf)'
  BY <1>3 DEF Beginning
<1>5. StatusInv' /\ ResultInv'
  BY <1>1, <1>3, <1>4
     DEF StatusInv, ResultInv, WholeIfSteady, SteadyServed, NothingForeign
<1>. QED
  BY <1>1, <1>2, <1>5, EnterKeeps

LEMMA AnswerKeeps ==
    ASSUME FetchInv, NEW body \in {Whole, <<"header", "body">>, <<"refusal">>, <<>>},
           Answer(body)
    PROVE  TypeOK' /\ SessionInv'
<1>1. step = "request" /\ kind = "rest" /\ attempt \in 0..2 /\ result = "none" /\ ~pager
  <2>1. step = "request"
    BY DEF Answer
  <2>. QED
    BY <2>1 DEF FetchInv, TypeOK, TimeInv, ClockOK, SessionInv, StageInv
<1>2. CASE ValidBody(body)
  <2>1. Enter("status", body) /\ steady' = (body = Whole) /\ attempt' = attempt
        /\ result' = result
    BY <1>2 DEF Answer
  <2>2. step' = "status" /\ buf' = body /\ kind' = kind /\ Whole' = Whole
    BY <2>1 DEF Enter, Whole
  <2>3. body \in {Whole, <<"header", "body">>}
    <3>1. ~ValidBody(<<>>) /\ ~ValidBody(<<"refusal">>)
      BY DEF ValidBody
    <3>. QED
      BY <1>2, <3>1
  <2>4. body \in Seq(Line \cup Piece)
    <3>1. Whole = <<"header", "body", "body">>
      BY <1>1 DEF Whole
    <3>2. /\ <<"header", "body", "body">> \in Seq(Line \cup Piece)
          /\ <<"header", "body">> \in Seq(Line \cup Piece)
      BY DEF Line
    <3>. QED
      BY <2>3, <3>1, <3>2
  <2>5. steady' \in BOOLEAN /\ (steady' => body = Whole)
    BY <2>1
  <2>6. StatusInv'
    BY <1>1, <2>2, <2>3, <2>5 DEF StatusInv
  <2>7. ResultInv'
    BY <1>1, <2>1 DEF ResultInv, WholeIfSteady, SteadyServed, NothingForeign
  <2>. QED
    BY <1>1, <2>1, <2>4, <2>5, <2>6, <2>7, EnterKeeps
<1>3. CASE ~ValidBody(body)
  BY <1>1, <1>3, FailKeeps DEF Answer
<1>. QED
  BY <1>2, <1>3

LEMMA StatusDoneKeeps == ASSUME FetchInv, StatusDone PROVE TypeOK' /\ SessionInv'
<1>1. /\ Succeed(buf) /\ kind = "rest" /\ buf \in {Whole, <<"header", "body">>}
      /\ (steady => buf = Whole) /\ buf \in Seq(Line \cup Piece)
  BY DEF StatusDone, FetchInv, TypeOK, SessionInv, StatusInv
<1>2. Whole = <<"header", "body", "body">>
  BY <1>1 DEF Whole
<1>3. Beginning(buf)
  <2>1. CASE buf = Whole
    BY <1>2, <2>1 DEF Beginning
  <2>2. CASE buf = <<"header", "body">>
    <3>1. Len(buf) = 2 /\ buf[1] = Whole[1] /\ buf[2] = Whole[2] /\ Len(Whole) = 3
          /\ DOMAIN buf = 1..2
      BY <1>2, <2>2
    <3>. QED
      BY <3>1 DEF Beginning
  <2>. QED
    BY <1>1, <2>1, <2>2
<1>. QED
  BY <1>1, <1>3, SucceedKeeps

LEMMA ExecDoneKeeps == ASSUME FetchInv, ExecDone PROVE TypeOK' /\ SessionInv'
<1>1. /\ step = "exec" /\ closed /\ Succeed(buf) /\ kind = "exec"
      /\ buf \in Seq(Line \cup Piece)
  BY DEF ExecDone, FetchInv, TypeOK, SessionInv, ExecInv
<1>2. ASSUME steady PROVE buf = Whole
  <2>1. Len(buf) = 3 /\ \A i \in 1..Len(buf) : buf[i] = Whole[i]
    <3>1. /\ Len(buf) + Len(wire) = 3 /\ wire = <<>>
          /\ \A i \in 1..Len(buf) : buf[i] = Whole[i]
      BY <1>1, <1>2 DEF FetchInv, SessionInv, ExecInv
    <3>2. Len(wire) = 0 /\ Len(buf) \in Nat
      BY <1>1, <3>1
    <3>. QED
      BY <3>1, <3>2
  <2>2. Whole \in Seq(Line \cup Piece) /\ Len(Whole) = 3
    <3>1. Whole = <<"header", "body", "body">>
      BY <1>1 DEF Whole
    <3>2. <<"header", "body", "body">> \in Seq(Line \cup Piece)
      BY DEF Line
    <3>. QED
      BY <3>1, <3>2
  <2>. QED
    BY <1>1, <2>1, <2>2, SeqEqual
<1>. QED
  BY <1>1, <1>2, SucceedKeeps

----------------------------------------------------------------------------
(* What is made of the output of a shell *)

LEMMA FirstIs ==
    ASSUME NEW S \in SUBSET Int, NEW m \in S, \A j \in S : m <= j
    PROVE  First(S) = m
<1>1. \A i \in S : (\A j \in S : i <= j) => i = m
  OBVIOUS
<1>. QED
  BY <1>1 DEF First

\* Where there are none of its lines, the pager has nothing to take away.
LEMMA WithoutPagerKeeps ==
    ASSUME NEW lines, \A i \in DOMAIN lines : lines[i] # "more"
    PROVE  WithoutPager(lines) = lines
<1>1. {i \in DOMAIN lines : lines[i] # "more"} = DOMAIN lines
  OBVIOUS
<1>. QED
  BY <1>1 DEF WithoutPager

\* Where only the last line is, that line is what it takes away.
LEMMA WithoutPagerDrops ==
    ASSUME NEW S, NEW lines \in Seq(S), NEW m \in Nat, Len(lines) = m + 1,
           lines[m + 1] = "more", \A i \in 1..m : lines[i] # "more"
    PROVE  /\ WithoutPager(lines) \in Seq(S) /\ Len(WithoutPager(lines)) = m
           /\ \A i \in 1..m : WithoutPager(lines)[i] = lines[i]
<1>. DEFINE Nth(n) == CHOOSE i \in 1..m : Cardinality((1..m) \cap (1..i)) = n
<1>. DEFINE kept == {i \in DOMAIN lines : lines[i] # "more"}
<1>1. kept = 1..m
  <2>1. DOMAIN lines = 1..m + 1
    OBVIOUS
  <2>2. \A i \in 1..m + 1 : i \in 1..m \/ i = m + 1
    OBVIOUS
  <2>3. 1..m \subseteq 1..m + 1
    OBVIOUS
  <2>. QED
    BY <2>1, <2>2, <2>3
<1>2. 1..m # DOMAIN lines /\ Cardinality(1..m) = m
  <2>1. DOMAIN lines = 1..m + 1 /\ m + 1 \in 1..m + 1 /\ m + 1 \notin 1..m
    OBVIOUS
  <2>2. Cardinality(1..m) = IF 1 > m THEN 0 ELSE m - 1 + 1
    BY FS_Interval
  <2>. QED
    BY <2>1, <2>2
<1>3. ASSUME NEW i \in 1..m PROVE Cardinality((1..m) \cap (1..i)) = i
  <2>1. (1..m) \cap (1..i) = 1..i
    OBVIOUS
  <2>2. i \in Int /\ 1 \in Int /\ ~(1 > i) /\ i - 1 + 1 = i
    OBVIOUS
  <2>3. Cardinality(1..i) = IF 1 > i THEN 0 ELSE i - 1 + 1
    BY <2>2, FS_Interval, Zenon
  <2>. QED
    BY <2>1, <2>2, <2>3
<1>4. ASSUME NEW n \in 1..m PROVE Nth(n) = n
  <2>1. \A i \in 1..m : Cardinality((1..m) \cap (1..i)) = n <=> i = n
    BY <1>3
  <2>. QED
    BY <2>1
<1>5. WithoutPager(lines) =
        IF kept = DOMAIN lines THEN lines
        ELSE [n \in 1..Cardinality(kept) |->
                 lines[CHOOSE i \in kept : Cardinality(kept \cap (1..i)) = n]]
  BY DEF WithoutPager
<1>. HIDE DEF kept
<1>8. WithoutPager(lines) = [n \in 1..m |-> lines[Nth(n)]]
  BY <1>1, <1>2, <1>5
<1>. HIDE DEF Nth
<1>6. WithoutPager(lines) = [n \in 1..m |-> lines[n]]
  BY <1>4, <1>8
<1>7. \A i \in 1..m : lines[i] \in S
  OBVIOUS
<1>. QED
  BY <1>6, <1>7

LEMMA CleanNothing ==
    ASSUME NEW raw, \A i \in DOMAIN raw : raw[i] \notin {"running", "header", "sharp"}
    PROVE  Clean(raw) = <<>>
<1>1. {i \in DOMAIN raw : raw[i] \in {"running", "header", "sharp"}} = {}
  OBVIOUS
<1>. QED
  BY <1>1 DEF Clean

\* The output is cleaned from its first anchor on, and up to the first `End` behind.
LEMMA CleanIs ==
    ASSUME NEW raw \in Seq(Line \cup Piece),
           NEW a \in 1..Len(raw), raw[a] \in {"running", "header", "sharp"},
           \A i \in 1..a - 1 : raw[i] \notin {"running", "header", "sharp"},
           NEW f, f = (IF raw[a] = "running" THEN a + 1 ELSE a),
           NEW t \in Int,
           \/ t = Len(raw) /\ \A i \in f..t : raw[i] # "end"
           \/ t \in f..Len(raw) /\ raw[t] = "end" /\ \A i \in f..t - 1 : raw[i] # "end"
    PROVE  Clean(raw) = WithoutPager(SubSeq(raw, f, t))
<1>. DEFINE anchors == {i \in DOMAIN raw : raw[i] \in {"running", "header", "sharp"}}
            from == IF raw[First(anchors)] = "running" THEN First(anchors) + 1 ELSE First(anchors)
            ends == {i \in from..Len(raw) : raw[i] = "end"}
            to == IF ends = {} THEN Len(raw) ELSE First(ends)
<1>1. Clean(raw) = IF anchors = {} THEN <<>> ELSE WithoutPager(SubSeq(raw, from, to))
  BY DEF Clean
<1>2. First(anchors) = a /\ anchors # {}
  <2>1. a \in anchors /\ anchors \in SUBSET Int
    OBVIOUS
  <2>2. \A j \in anchors : a <= j
    OBVIOUS
  <2>. QED
    BY <2>1, <2>2, FirstIs
<1>3. from = f
  BY <1>2
<1>4. to = t
  <2>1. CASE t = Len(raw) /\ \A i \in f..t : raw[i] # "end"
    <3>1. ends = {}
      BY <1>3, <2>1
    <3>. QED
      BY <2>1, <3>1
  <2>2. CASE t \in f..Len(raw) /\ raw[t] = "end" /\ \A i \in f..t - 1 : raw[i] # "end"
    <3>1. t \in ends /\ ends \in SUBSET Int
      BY <1>3, <2>2
    <3>2. \A j \in ends : t <= j
      BY <1>3, <2>2
    <3>. QED
      BY <3>1, <3>2, FirstIs
  <2>. QED
    BY <2>1, <2>2
<1>. HIDE DEF anchors, from, to
<1>. QED
  BY <1>1, <1>2, <1>3, <1>4

\* What the last phase has received, line by line: before the configuration is cleaned,
\* each of its lines is where its position in the stream says.
LEMMA Shape ==
    ASSUME FetchInv, step = "config"
    PROVE  /\ Earlier \in 0..4 /\ Lines \in Nat /\ Sent \in 0..10 /\ Lines = Sent - Earlier
           /\ Len(wire) \in Nat /\ (Len(wire) = 0 <=> Sent = IF pager THEN 8 ELSE 10)
           /\ (pager => Sent <= 8) /\ Len(buf) \in Nat /\ pager \in BOOLEAN
           /\ \/ Len(buf) = Lines
              \/ /\ Len(buf) = Lines + 1 /\ Len(wire) > 0
                 /\ \/ buf[Lines + 1] = "piece"
                    \/ buf[Lines + 1] = "end" /\ ~pager /\ Sent = 7 /\ ~steady
<1>1. /\ Earlier \in 0..4 /\ Len(wire) <= Asked("config") /\ Len(wire) \in Nat
      /\ Len(buf) \in Nat /\ pager \in BOOLEAN /\ (cut => Len(wire) > 0)
      /\ (buf # <<>> => Len(buf) > 0) /\ (wire = <<>> => Len(wire) = 0)
  BY DEF FetchInv, TypeOK, SessionInv, BufInv, WireInv
<1>2. Asked("config") = IF pager THEN 8 ELSE 10
  BY DEF Asked
<1>3. Sent = Asked("config") - Len(wire) /\ Earlier = Sent - Lines
  BY DEF Sent, Earlier
<1>4. Lines \in Nat /\ (Lines = Len(buf) \/ (cut /\ buf # <<>> /\ Len(buf) = Lines + 1))
  <2>1. Lines = Len(buf) \/ (cut /\ buf # <<>> /\ Lines = Len(buf) - 1)
    BY DEF Lines
  <2>. QED
    BY <1>1, <2>1
<1>5. /\ Sent \in 0..10 /\ Lines = Sent - Earlier /\ (pager => Sent <= 8)
      /\ (Len(wire) = 0 <=> Sent = IF pager THEN 8 ELSE 10)
  <2>1. Asked("config") \in {8, 10} /\ (pager => Asked("config") = 8)
    BY <1>2
  <2>4. Sent \in 0..10 /\ Sent <= Asked("config")
    <3>1. CASE Asked("config") = 8
      BY <1>1, <1>3, <3>1
    <3>2. CASE Asked("config") = 10
      BY <1>1, <1>3, <3>2
    <3>. QED
      BY <2>1, <3>1, <3>2
  <2>5. pager => Sent <= 8
    BY <2>1, <2>4
  <2>7. Lines = Sent - Earlier
    <3>1. Sent \in Int /\ Lines \in Int
      BY <1>4, <2>4
    <3>. QED
      BY <1>3, <3>1
  <2>2. Sent \in 0..10 /\ Lines = Sent - Earlier /\ (pager => Sent <= 8)
    BY <2>4, <2>5, <2>7
  <2>3. Len(wire) = 0 <=> Sent = Asked("config")
    BY <1>1, <1>3, <2>1
  <2>. QED
    BY <1>2, <2>2, <2>3
<1>6. ASSUME cut, buf # <<>>, Len(buf) = Lines + 1
      PROVE  \/ buf[Lines + 1] = "piece"
             \/ buf[Lines + 1] = "end" /\ ~pager /\ Sent = 7 /\ ~steady
  <2>1. \/ buf[Len(buf)] = "piece"
        \/ buf[Len(buf)] = "end" /\ Stream[Sent + 1] = "body" /\ ~steady
    BY <1>6 DEF FetchInv, SessionInv, BufInv
  <2>2. Len(wire) > 0
    BY <1>1, <1>6
  <2>3. ASSUME Stream[Sent + 1] = "body"
        PROVE  ~pager /\ Sent = 7
    <3>1. Sent + 1 \in 1..8 \/ (~pager /\ Sent + 1 \in 9..10)
      BY <1>1, <1>5, <2>2
    <3>2. Sent + 1 = 8
      <4>1. \A k \in 1..7 : Stream[k] # "body"
        BY StreamIs
      <4>2. ~pager => \A k \in 9..10 : Stream[k] # "body"
        BY StreamIs
      <4>. QED
        BY <2>3, <3>1, <4>1, <4>2
    <3>. QED
      BY <1>5, <2>3, <3>2, StreamIs
  <2>. QED
    BY <1>6, <2>1, <2>3
<1>. QED
  BY <1>1, <1>4, <1>5, <1>6

\* Of which kind each of its lines is.
LEMMA KindOf ==
    ASSUME FetchInv, step = "config", NEW i \in 1..Lines
    PROVE  /\ \/ buf[i] = Stream[Earlier + i]
              \/ i = 1 /\ ~steady /\ buf[i] \in {"rest", "sharp"}
           /\ Earlier + i \in 1..10
           /\ Earlier + i < 6 => buf[i] \in {"login", "prompt", "echo", "rest", "sharp"}
           /\ buf[i] = "sharp" => i = 1 /\ ~steady
           /\ Earlier + i = 6 => buf[i] = "running"
           /\ Earlier + i = 7 => buf[i] = "header"
           /\ Earlier + i = 8 => buf[i] = IF pager THEN "more" ELSE "body"
           /\ Earlier + i = 9 => buf[i] = "end"
           /\ Earlier + i = 10 => buf[i] = "prompt"
           /\ pager => Earlier + i <= 8
<1>1. /\ Earlier \in 0..4 /\ Lines = Sent - Earlier /\ Sent \in 0..10 /\ (pager => Sent <= 8)
      /\ pager \in BOOLEAN
  BY Shape
<1>2. \/ buf[i] = Stream[Earlier + i]
      \/ i = 1 /\ ~steady /\ buf[i] \in {"rest", "sharp"}
  BY DEF FetchInv, SessionInv, BufInv
<1>. DEFINE k == Earlier + i
<1>3. k \in 1..10 /\ (pager => k <= 8) /\ (i = 1 => k < 6)
  BY <1>1
<1>4. CASE i = 1 /\ ~steady /\ buf[i] \in {"rest", "sharp"}
  BY <1>2, <1>3, <1>4
<1>5. CASE buf[i] = Stream[k]
  <2>1. k \in {1, 2, 3, 4, 5, 6, 7} => buf[i] # "sharp"
    BY <1>5, StreamIs
  <2>2. k \in {8, 9, 10} => buf[i] # "sharp"
    BY <1>3, <1>5, StreamIs
  <2>3. k \in {1, 2, 3, 4, 5, 6, 7} \/ k \in {8, 9, 10}
    BY <1>3
  <2>4. k < 6 => buf[i] \in {"login", "prompt", "echo", "rest", "sharp"}
    BY <1>3, <1>5, StreamIs
  <2>5. /\ k = 6 => buf[i] = "running"
        /\ k = 7 => buf[i] = "header"
        /\ k = 8 => buf[i] = IF pager THEN "more" ELSE "body"
        /\ k = 9 => buf[i] = "end"
        /\ k = 10 => buf[i] = "prompt"
    BY <1>3, <1>5, StreamIs
  <2>. HIDE DEF k
  <2>6. buf[i] # "sharp"
    BY <2>1, <2>2, <2>3
  <2>. QED
    BY <1>2, <1>3, <2>4, <2>5, <2>6 DEF k
<1>. QED
  BY <1>2, <1>4, <1>5

\* The cleaning goes up to the `End` of the configuration, if it has come, and else
\* takes all there is, a piece at the end included; only there can the pager stand.
LEMMA EndAt ==
    ASSUME FetchInv, step = "config",
           NEW t, t = IF Sent >= 9 THEN 9 - Earlier ELSE Len(buf)
    PROVE  /\ t \in 0..Len(buf) /\ (Sent >= 9 => t \in 1..Lines /\ ~pager)
           /\ \/ t = Len(buf) /\ \A i \in 1..t : buf[i] # "end"
              \/ t \in 1..Len(buf) /\ buf[t] = "end" /\ \A i \in 1..t - 1 : buf[i] # "end"
           /\ \A i \in 1..t : buf[i] = "more" => i = t
<1>1. /\ Earlier \in 0..4 /\ Lines \in Nat /\ Sent \in 0..10 /\ Lines = Sent - Earlier
      /\ Len(buf) \in Nat /\ (pager => Sent <= 8) /\ pager \in BOOLEAN
      /\ \/ Len(buf) = Lines
         \/ /\ Len(buf) = Lines + 1 /\ Len(wire) > 0
            /\ buf[Lines + 1] \in {"piece", "end"}
      /\ (Len(wire) = 0 <=> Sent = IF pager THEN 8 ELSE 10)
  BY Shape
<1>2. ASSUME NEW i \in 1..Lines
      PROVE  /\ buf[i] = "end" => Earlier + i = 9
             /\ buf[i] = "more" => pager /\ Earlier + i = 8
             /\ Earlier + i = 9 => buf[i] = "end"
  <2>. DEFINE k == Earlier + i
  <2>1. k \in 1..10 /\ (k < 6 \/ k = 6 \/ k = 7 \/ k = 8 \/ k = 9 \/ k = 10)
    BY <1>1
  <2>2. /\ k < 6 => buf[i] \in {"login", "prompt", "echo", "rest", "sharp"}
        /\ k = 6 => buf[i] = "running"
        /\ k = 7 => buf[i] = "header"
        /\ k = 8 => buf[i] = IF pager THEN "more" ELSE "body"
        /\ k = 9 => buf[i] = "end"
        /\ k = 10 => buf[i] = "prompt"
    BY KindOf
  <2>. HIDE DEF k
  <2>3. /\ buf[i] = "end" => k = 9
        /\ buf[i] = "more" => pager /\ k = 8
        /\ k = 9 => buf[i] = "end"
    BY <2>1, <2>2
  <2>. QED
    BY <2>3 DEF k
<1>3. CASE Sent >= 9
  <2>1. t = 9 - Earlier /\ t \in 1..Lines /\ ~pager /\ t \in 1..Len(buf) /\ Earlier + t = 9
    BY <1>1, <1>3
  <2>2. buf[t] = "end"
    BY <1>2, <2>1
  <2>3. ASSUME NEW i \in 1..t PROVE i \in 1..Lines /\ (i # t => Earlier + i # 9)
    BY <1>1, <2>1
  <2>4. \A i \in 1..t - 1 : buf[i] # "end"
    BY <1>1, <1>2, <2>1, <2>3
  <2>5. \A i \in 1..t : buf[i] # "more"
    BY <1>2, <2>1, <2>3
  <2>. QED
    BY <1>1, <2>1, <2>2, <2>4, <2>5
<1>4. CASE Sent < 9
  <2>1. t = Len(buf) /\ t \in Nat
    BY <1>1, <1>4
  <2>2. \A i \in 1..Lines : buf[i] # "end"
    BY <1>1, <1>2, <1>4
  <2>3. \A i \in 1..Lines : buf[i] = "more" => pager /\ Sent = 8 /\ i = Lines
    BY <1>1, <1>2, <1>4
  <2>4. CASE Len(buf) = Lines
    BY <1>1, <1>4, <2>1, <2>2, <2>3, <2>4
  <2>5. CASE Len(buf) = Lines + 1 /\ Len(wire) > 0 /\ buf[Lines + 1] \in {"piece", "end"}
    <3>1. ~(pager /\ Sent = 8)
      BY <1>1, <2>5
    <3>2. ASSUME NEW i \in 1..t PROVE i \in 1..Lines \/ i = t
      BY <1>1, <2>1, <2>5
    <3>3. \A i \in 1..t : buf[i] = "more" => i = t
      BY <2>3, <3>1, <3>2
    <3>4. \A i \in 1..t - 1 : buf[i] # "end"
      BY <1>1, <2>1, <2>2, <2>5
    <3>5. t \in 1..Len(buf) /\ t \in 0..Len(buf)
      BY <1>1, <2>1, <2>5
    <3>6. buf[t] = "end" \/ \A i \in 1..t : buf[i] # "end"
      BY <2>2, <3>2
    <3>. QED
      BY <1>4, <1>1, <2>1, <3>3, <3>4, <3>5, <3>6
  <2>. QED
    BY <1>1, <2>4, <2>5
<1>. QED
  BY <1>1, <1>3, <1>4

\* What is left of output that begins with a `#` begins with it.
LEMMA CleanSharp ==
    ASSUME FetchInv, step = "config", buf # <<>>, buf[1] = "sharp"
    PROVE  /\ ~steady
           /\ Clean(buf) \in Seq(Line \cup Piece) /\ Head(Clean(buf)) = "sharp"
<1>1. buf \in Seq(Line \cup Piece) /\ Len(buf) \in Nat \ {0}
  BY DEF FetchInv, TypeOK
<1>2. 1 \in 1..Lines
  <2>1. Lines \in Nat /\ (Lines = 0 => Len(buf) = 1 /\ buf[1] \in {"piece", "end"})
    BY <1>1, Shape
  <2>. QED
    BY <2>1
<1>3. ~steady
  BY <1>2, KindOf
<1>. DEFINE t == IF Sent >= 9 THEN 9 - Earlier ELSE Len(buf)
            lines == SubSeq(buf, 1, t)
<1>4. /\ t \in 1..Len(buf)
      /\ \/ t = Len(buf) /\ \A i \in 1..t : buf[i] # "end"
         \/ t \in 1..Len(buf) /\ buf[t] = "end" /\ \A i \in 1..t - 1 : buf[i] # "end"
      /\ \A i \in 1..t : buf[i] = "more" => i = t
  <2>1. Sent >= 9 => t \in 1..Lines
    BY EndAt
  <2>2. ~(Sent >= 9) => t = Len(buf)
    OBVIOUS
  <2>3. t \in 1..Len(buf)
    BY <1>1, <2>1, <2>2, EndAt
  <2>. QED
    BY <2>3, EndAt
<1>. HIDE DEF t
<1>5. /\ lines \in Seq(Line \cup Piece) /\ Len(lines) = t /\ DOMAIN lines = 1..t
      /\ \A i \in 1..t : lines[i] = buf[i]
  BY <1>1, <1>4
<1>6. Clean(buf) = WithoutPager(lines)
  <2>1. /\ 1 \in 1..Len(buf) /\ t \in Int /\ 1 = (IF buf[1] = "running" THEN 1 + 1 ELSE 1)
        /\ buf[1] \in {"running", "header", "sharp"}
        /\ \A i \in 1..1 - 1 : buf[i] \notin {"running", "header", "sharp"}
    BY <1>1, <1>4
  <2>. QED
    BY <1>1, <1>4, <2>1, CleanIs
<1>. HIDE DEF lines
<1>7. CASE \A i \in 1..t : lines[i] # "more"
  <2>1. Clean(buf) = lines
    BY <1>5, <1>6, <1>7, WithoutPagerKeeps
  <2>2. lines[1] = "sharp" /\ Len(lines) > 0
    BY <1>4, <1>5
  <2>. QED
    BY <1>3, <1>5, <2>1, <2>2
<1>8. CASE lines[t] = "more"
  <2>. DEFINE m == t - 1
  <2>1. m \in Nat \ {0} /\ m + 1 = t
    BY <1>4, <1>5, <1>8
  <2>2. \A i \in 1..m : lines[i] # "more"
    BY <1>4, <1>5, <2>1
  <2>. HIDE DEF m
  <2>5. lines \in Seq(Line \cup Piece) /\ m \in Nat /\ Len(lines) = m + 1 /\ lines[m + 1] = "more"
    BY <1>5, <1>8, <2>1
  <2>6. /\ WithoutPager(lines) \in Seq(Line \cup Piece) /\ Len(WithoutPager(lines)) = m
        /\ \A i \in 1..m : WithoutPager(lines)[i] = lines[i]
    BY <2>2, <2>5, WithoutPagerDrops
  <2>3. /\ Clean(buf) \in Seq(Line \cup Piece) /\ Len(Clean(buf)) = m
        /\ \A i \in 1..m : Clean(buf)[i] = lines[i]
    BY <1>6, <2>6
  <2>4. Clean(buf)[1] = "sharp" /\ Len(Clean(buf)) > 0
    BY <1>4, <1>5, <2>1, <2>3
  <2>. QED
    BY <1>3, <2>3, <2>4
<1>. QED
  BY <1>4, <1>5, <1>7, <1>8

\* Before the configuration has begun, nothing that is taken for it is left.
LEMMA CleanTooEarly ==
    ASSUME FetchInv, step = "config", buf # <<>> => buf[1] # "sharp", Sent <= 6
    PROVE  ~HasLine(Clean(buf), "header")
<1>1. /\ Earlier \in 0..4 /\ Lines \in Nat /\ Sent \in 0..10 /\ Lines = Sent - Earlier
      /\ Len(buf) \in Nat /\ buf \in Seq(Line \cup Piece) /\ DOMAIN buf = 1..Len(buf)
      /\ \/ Len(buf) = Lines
         \/ Len(buf) = Lines + 1 /\ buf[Lines + 1] = "piece"
  <2>1. /\ Earlier \in 0..4 /\ Lines \in Nat /\ Sent \in 0..10 /\ Lines = Sent - Earlier
        /\ Len(buf) \in Nat /\ buf \in Seq(Line \cup Piece)
        /\ \/ Len(buf) = Lines
           \/ Len(buf) = Lines + 1 /\ buf[Lines + 1] = "piece"
    BY Shape DEF FetchInv, TypeOK
  <2>. QED
    BY <2>1
<1>2. ASSUME NEW i \in 1..Len(buf), Earlier + i # 6
      PROVE  buf[i] \notin {"running", "header", "sharp"}
  <2>1. CASE i \in 1..Lines
    <3>1. Earlier + i < 6 /\ (i = 1 => buf[i] # "sharp")
      BY <1>1, <1>2, <2>1
    <3>2. /\ buf[i] \in {"login", "prompt", "echo", "rest", "sharp"}
          /\ buf[i] = "sharp" => i = 1
      BY <2>1, <3>1, KindOf
    <3>. QED
      BY <3>1, <3>2
  <2>2. CASE i \notin 1..Lines
    BY <1>1, <2>2
  <2>. QED
    BY <2>1, <2>2
<1>3. CASE Sent < 6
  <2>1. ASSUME NEW i \in DOMAIN buf PROVE buf[i] \notin {"running", "header", "sharp"}
    <3>1. CASE i \in 1..Lines
      BY <1>1, <1>2, <1>3, <3>1
    <3>2. CASE i \notin 1..Lines
      BY <1>1, <3>2
    <3>. QED
      BY <3>1, <3>2
  <2>2. Clean(buf) = <<>>
    BY <2>1, CleanNothing
  <2>. QED
    BY <2>2 DEF HasLine
<1>4. CASE Sent = 6
  <2>. DEFINE a == 6 - Earlier
              lines == SubSeq(buf, a + 1, Len(buf))
  <2>1. a \in 1..Lines /\ a = Lines /\ a \in 1..Len(buf) /\ Earlier + a = 6
    BY <1>1, <1>4
  <2>2. buf[a] = "running"
    BY <2>1, KindOf
  <2>3. \A i \in 1..a - 1 : buf[i] \notin {"running", "header", "sharp"}
    BY <1>1, <1>2, <2>1
  <2>4. \A i \in a + 1..Len(buf) : buf[i] = "piece"
    BY <1>1, <2>1
  <2>5. Clean(buf) = WithoutPager(lines)
    <3>1. /\ a + 1 = (IF buf[a] = "running" THEN a + 1 ELSE a) /\ Len(buf) \in Int
          /\ \A i \in a + 1..Len(buf) : buf[i] # "end"
          /\ buf[a] \in {"running", "header", "sharp"}
      BY <1>1, <2>2, <2>4
    <3>. QED
      BY <1>1, <2>1, <2>3, <3>1, CleanIs
  <2>6. \A i \in DOMAIN lines : lines[i] = "piece"
    <3>1. /\ lines \in Seq(Line \cup Piece) /\ Len(lines) = Len(buf) - a
          /\ \A i \in 1..Len(buf) - a : lines[i] = buf[a + i]
      BY <1>1, <2>1
    <3>2. DOMAIN lines = 1..Len(buf) - a
      BY <3>1
    <3>3. \A i \in 1..Len(buf) - a : a + i \in a + 1..Len(buf)
      BY <1>1, <2>1
    <3>. QED
      BY <2>4, <3>1, <3>2, <3>3
  <2>. HIDE DEF lines
  <2>7. Clean(buf) = lines
    BY <2>5, <2>6, WithoutPagerKeeps
  <2>. QED
    BY <2>6, <2>7 DEF HasLine
<1>. QED
  BY <1>1, <1>3, <1>4

\* What is left once the configuration has begun: its beginning, and all of it once
\* its last line has come.
LEMMA CleanConfiguration ==
    ASSUME FetchInv, step = "config", buf[1] # "sharp", Sent >= 7
    PROVE  /\ Clean(buf) \in Seq(Line \cup Piece) /\ HasLine(Clean(buf), "header")
           /\ Beginning(Clean(buf))
           /\ Sent >= 9 => Clean(buf) = Whole
<1>. DEFINE t == IF Sent >= 9 THEN 9 - Earlier ELSE Len(buf)
            a == 6 - Earlier
            lines == SubSeq(buf, a + 1, t)
<1>1. /\ Earlier \in 0..4 /\ Lines \in Nat /\ Sent \in 7..10 /\ Lines = Sent - Earlier
      /\ Len(buf) \in Nat /\ (pager => Sent <= 8) /\ pager \in BOOLEAN
      /\ Len(wire) \in Nat /\ (Len(wire) = 0 <=> Sent = IF pager THEN 8 ELSE 10)
      /\ \/ Len(buf) = Lines
         \/ /\ Len(buf) = Lines + 1 /\ Len(wire) > 0
            /\ \/ buf[Lines + 1] = "piece"
               \/ buf[Lines + 1] = "end" /\ Sent = 7
      /\ buf \in Seq(Line \cup Piece)
  BY Shape DEF FetchInv, TypeOK
<1>2. Whole = <<"header", "body", "end">>
  BY DEF Whole, FetchInv, SessionInv, StageInv
<1>3. /\ t \in 0..Len(buf) /\ (Sent >= 9 => t \in 1..Lines /\ ~pager)
      /\ \/ t = Len(buf) /\ \A i \in 1..t : buf[i] # "end"
         \/ t \in 1..Len(buf) /\ buf[t] = "end" /\ \A i \in 1..t - 1 : buf[i] # "end"
      /\ \A i \in 1..t : buf[i] = "more" => i = t
  BY EndAt
<1>4. /\ a \in 2..6 /\ a + 1 \in 1..Lines /\ a \in 1..Lines
      /\ Earlier + a = 6 /\ Earlier + (a + 1) = 7 /\ Earlier + (a + 2) = 8
      /\ Earlier + (a + 3) = 9
  BY <1>1
<1>5. /\ buf[a] = "running" /\ buf[a + 1] = "header"
      /\ Sent >= 8 => a + 2 \in 1..Lines /\ buf[a + 2] = (IF pager THEN "more" ELSE "body")
      /\ Sent >= 9 => a + 3 \in 1..Lines /\ buf[a + 3] = "end"
  <2>1. Sent >= 8 => a + 2 \in 1..Lines
    BY <1>1
  <2>2. Sent >= 9 => a + 3 \in 1..Lines
    BY <1>1
  <2>. HIDE DEF a
  <2>. QED
    BY <1>4, <2>1, <2>2, KindOf
<1>6. \A i \in 1..a - 1 : buf[i] \notin {"running", "header", "sharp"}
  <2>1. ASSUME NEW i \in 1..a - 1
        PROVE  buf[i] \notin {"running", "header", "sharp"}
    <3>1. i \in 1..Lines /\ Earlier + i < 6
      BY <1>1, <1>4, <2>1
    <3>2. /\ buf[i] \in {"login", "prompt", "echo", "rest", "sharp"}
          /\ buf[i] = "sharp" => i = 1
      BY <3>1, KindOf
    <3>. QED
      BY <3>2
  <2>. QED
    BY <2>1
<1>7. /\ t \in Nat /\ a + 1 <= t /\ t <= Len(buf)
      /\ Sent >= 9 => t = a + 3
      /\ ~(Sent >= 9) => t = Len(buf)
  BY <1>1, <1>3, <1>4
<1>. HIDE DEF t, a
<1>8. Clean(buf) = WithoutPager(lines)
  <2>1. /\ a \in 1..Len(buf) /\ a + 1 = (IF buf[a] = "running" THEN a + 1 ELSE a)
        /\ t \in Int /\ buf[a] \in {"running", "header", "sharp"}
    <3>1. a \in 1..Len(buf) /\ t \in Int
      BY <1>1, <1>4, <1>7
    <3>. QED
      BY <1>5, <3>1
  <2>2. \/ t = Len(buf) /\ \A i \in a + 1..t : buf[i] # "end"
        \/ t \in a + 1..Len(buf) /\ buf[t] = "end" /\ \A i \in a + 1..t - 1 : buf[i] # "end"
    <3>1. /\ \A i \in a + 1..t : i \in 1..t
          /\ \A i \in a + 1..t - 1 : i \in 1..t - 1
          /\ t \in a + 1..Len(buf)
      BY <1>1, <1>4, <1>7
    <3>. QED
      BY <1>3, <3>1
  <2>. QED
    BY <1>1, <1>6, <2>1, <2>2, CleanIs
<1>9. /\ lines \in Seq(Line \cup Piece) /\ Len(lines) = t - a /\ t - a \in Nat \ {0}
      /\ DOMAIN lines = 1..t - a
      /\ \A i \in 1..t - a : lines[i] = buf[a + i]
  BY <1>1, <1>4, <1>7
<1>10. lines[1] = "header"
  BY <1>5, <1>9
<1>. HIDE DEF lines
<1>11. CASE Sent >= 9
  <2>1. /\ t - a = 3 /\ ~pager /\ lines[2] = "body" /\ lines[3] = "end"
        /\ Len(lines) = 3
    <3>1. t - a = 3 /\ Len(lines) = 3 /\ a \in Nat /\ 2 \in 1..t - a /\ 3 \in 1..t - a
      BY <1>4, <1>7, <1>9, <1>11
    <3>2. ~pager /\ buf[a + 2] = "body" /\ buf[a + 3] = "end"
      BY <1>1, <1>5, <1>11
    <3>. QED
      BY <1>9, <3>1, <3>2
  <2>2. ASSUME NEW i \in DOMAIN lines PROVE lines[i] # "more"
    <3>1. i \in {1, 2, 3}
      BY <1>9, <2>1
    <3>. QED
      BY <1>10, <2>1, <3>1
  <2>3. Clean(buf) = lines
    BY <1>8, <2>2, WithoutPagerKeeps
  <2>4. lines = Whole
    <3>1. Whole \in Seq(Line \cup Piece) /\ Len(Whole) = 3
      BY <1>2 DEF Line
    <3>2. ASSUME NEW i \in 1..3 PROVE lines[i] = Whole[i]
      <4>1. i \in {1, 2, 3}
        OBVIOUS
      <4>. QED
        BY <1>2, <1>10, <2>1, <4>1
    <3>. QED
      BY <1>9, <2>1, <3>1, <3>2, SeqEqual
  <2>5. Beginning(Whole) /\ HasLine(Whole, "header")
    BY <1>2 DEF Beginning, HasLine
  <2>. QED
    BY <1>9, <2>3, <2>4, <2>5
<1>12. CASE Sent = 8 /\ pager
  <2>1. Len(lines) = 2 /\ lines[2] = "more" /\ lines[1] # "more"
    <3>1. Len(wire) = 0 /\ Len(buf) = Lines
      BY <1>1, <1>12
    <3>2. t = a + 2
      BY <1>1, <1>4, <1>7, <1>12, <3>1
    <3>. QED
      BY <1>4, <1>5, <1>9, <1>10, <1>12, <3>2
  <2>2. /\ WithoutPager(lines) \in Seq(Line \cup Piece) /\ Len(WithoutPager(lines)) = 1
        /\ \A i \in 1..1 : WithoutPager(lines)[i] = lines[i]
    <3>1. 1 \in Nat /\ Len(lines) = 1 + 1 /\ lines[1 + 1] = "more"
          /\ \A i \in 1..1 : lines[i] # "more"
      BY <2>1
    <3>. QED
      BY <1>9, <3>1, WithoutPagerDrops
  <2>3. /\ Clean(buf) \in Seq(Line \cup Piece) /\ Len(Clean(buf)) = 1
        /\ Clean(buf)[1] = "header" /\ DOMAIN Clean(buf) = 1..1
    BY <1>8, <1>10, <2>2
  <2>4. Len(Whole) = 3 /\ Whole[1] = "header"
    BY <1>2
  <2>. QED
    BY <1>12, <2>3, <2>4 DEF Beginning, HasLine
<1>13. CASE Sent = 7 \/ (Sent = 8 /\ ~pager)
  <2>1. t - a \in {1, 2, 3} /\ t = Len(buf) /\ t = a + (t - a)
    BY <1>1, <1>4, <1>7, <1>13
  <2>2. ASSUME NEW i \in 1..t - a
        PROVE  \/ lines[i] = Whole[i]
               \/ i = t - a /\ lines[i] \in {"piece", "end"}
    <3>1. CASE a + i \in 1..Lines
      <4>1. i = 1 \/ (i = 2 /\ Sent = 8 /\ ~pager)
        BY <1>1, <1>4, <1>13, <2>1, <3>1
      <4>2. i = 2 => lines[i] = buf[a + 2]
        BY <1>9
      <4>. QED
        BY <1>2, <1>5, <1>10, <4>1, <4>2
    <3>2. CASE a + i \notin 1..Lines
      <4>1. a + i = Lines + 1 /\ i = t - a /\ Len(buf) = Lines + 1
        BY <1>1, <1>4, <1>7, <2>1, <3>2
      <4>. QED
        BY <1>1, <1>9, <4>1
    <3>. QED
      BY <3>1, <3>2
  <2>3. ASSUME NEW i \in DOMAIN lines PROVE lines[i] # "more"
    <3>1. i \in 1..t - a /\ i \in {1, 2, 3}
      BY <1>9, <2>1
    <3>2. Whole[i] \in {"header", "body", "end"}
      BY <1>2, <3>1
    <3>. QED
      BY <2>2, <3>1, <3>2
  <2>4. Clean(buf) = lines
    BY <1>8, <2>3, WithoutPagerKeeps
  <2>5. Len(Whole) = 3 /\ Len(lines) <= 3 /\ 1 \in DOMAIN lines
    BY <1>2, <1>9, <2>1
  <2>6. Beginning(lines) /\ HasLine(lines, "header")
    BY <1>9, <1>10, <2>2, <2>5 DEF Beginning, HasLine
  <2>. QED
    BY <1>9, <1>13, <2>4, <2>6
<1>. QED
  BY <1>1, <1>11, <1>12, <1>13

\* A device that does its part is not cut short in the last phase: neither silence nor
\* the deadline can end it before the configuration is complete.
LEMMA SteadyOver ==
    ASSUME FetchInv, step = "config", steady, PhaseOver
    PROVE  Sent >= 9
<1>1. /\ ~pager /\ quiet < NoGap /\ ~closed /\ (wire # <<>> => gap <= quiet)
      /\ phaseAt \in 1..waited /\ waited <= Timeout /\ waited \in Nat /\ gap \in Nat
      /\ quiet \in Nat
  BY TimeAssumption
     DEF FetchInv, TypeOK, TimeInv, InTime, SessionInv, StageInv, SteadyInv
<1>2. /\ Earlier \in 0..4 /\ Lines \in Nat /\ Sent \in 0..10 /\ Lines = Sent - Earlier
      /\ (Len(wire) = 0 <=> Sent = 10) /\ Len(buf) \in Nat
      /\ \/ Len(buf) = Lines
         \/ Len(buf) = Lines + 1 /\ buf[Lines + 1] = "piece"
  BY <1>1, Shape
<1>3. \/ gap >= Idle["config"]
      \/ waited - phaseAt >= Timeout
      \/ HasLine(buf, "end")
  BY <1>1 DEF PhaseOver, EndSeen
<1>4. ~(waited - phaseAt >= Timeout)
  BY <1>1, TimeAssumption
<1>5. CASE gap >= Idle["config"]
  <2>1. Idle["config"] \in Nat /\ NoGap \in Nat /\ NoGap <= Idle["config"]
    BY TimeAssumption
  <2>2. wire = <<>>
    BY <1>1, <1>5, <2>1
  <2>. QED
    BY <1>2, <2>2
<1>6. CASE HasLine(buf, "end")
  <2>1. PICK i \in 1..Len(buf) : buf[i] = "end"
    <3>1. DOMAIN buf = 1..Len(buf)
      BY DEF FetchInv, TypeOK
    <3>. QED
      BY <1>6, <3>1 DEF HasLine
  <2>2. i \in 1..Lines
    BY <1>2, <2>1
  <2>3. Earlier + i \in 1..10 /\ buf[i] = Stream[Earlier + i]
    BY <2>1, <2>2, KindOf
  <2>4. \A k \in 1..8 : Stream[k] # "end"
    BY <1>1, StreamIs
  <2>5. ~(Earlier + i \in 1..8)
    BY <2>1, <2>3, <2>4
  <2>. QED
    BY <1>2, <2>2, <2>3, <2>5
<1>. QED
  BY <1>3, <1>4, <1>5, <1>6

LEMMA ShellDoneKeeps == ASSUME FetchInv, ShellDone PROVE TypeOK' /\ SessionInv'
<1>1. step = "config" /\ PhaseOver /\ kind = "shell" /\ buf \in Seq(Line \cup Piece)
  BY DEF ShellDone, FetchInv, TypeOK, SessionInv, StageInv
<1>2. CASE HasLine(Clean(buf), "header")
  <2>1. Succeed(Clean(buf))
    BY <1>2 DEF ShellDone
  <2>2. CASE buf # <<>> /\ buf[1] = "sharp"
    BY <1>1, <2>1, <2>2, CleanSharp, SucceedKeeps
  <2>3. CASE ~(buf # <<>> /\ buf[1] = "sharp")
    <3>1. Sent \in 0..10 /\ ~(Sent <= 6)
      BY <1>1, <1>2, <2>3, CleanTooEarly, Shape
    <3>2. Sent >= 7 /\ buf # <<>>
      <4>1. Earlier \in 0..4 /\ Lines = Sent - Earlier /\ Lines \in Nat /\ Len(buf) >= Lines
        BY <1>1, Shape
      <4>2. Len(buf) > 0
        BY <3>1, <4>1
      <4>. QED
        BY <3>1, <4>2
    <3>3. /\ Clean(buf) \in Seq(Line \cup Piece) /\ Beginning(Clean(buf))
          /\ Sent >= 9 => Clean(buf) = Whole
      BY <1>1, <2>3, <3>2, CleanConfiguration
    <3>4. steady => Clean(buf) = Whole
      BY <1>1, <3>3, SteadyOver
    <3>. QED
      BY <2>1, <3>3, <3>4, SucceedKeeps
  <2>. QED
    BY <2>2, <2>3
<1>3. CASE ~HasLine(Clean(buf), "header")
  <2>1. /\ Enter("done", <<>>) /\ result' = "error" /\ attempt' = attempt
        /\ steady' = steady /\ <<>> \in Seq(Line \cup Piece)
    BY <1>3 DEF ShellDone
  <2>2. ~steady
    <3>1. ASSUME steady PROVE FALSE
      <4>1. Sent >= 9 /\ Sent \in 0..10
        BY <1>1, <3>1, SteadyOver, Shape
      <4>2. buf # <<>> => buf[1] # "sharp"
        BY <1>1, <3>1, CleanSharp
      <4>3. buf # <<>>
        <5>1. Earlier \in 0..4 /\ Lines = Sent - Earlier /\ Lines \in Nat /\ Len(buf) >= Lines
          BY <1>1, Shape
        <5>2. Len(buf) > 0
          BY <4>1, <5>1
        <5>. QED
          BY <5>2
      <4>4. HasLine(Clean(buf), "header")
        BY <1>1, <4>1, <4>2, <4>3, CleanConfiguration
      <4>. QED
        BY <1>3, <4>4
    <3>. QED
      BY <3>1
  <2>3. attempt \in 0..2 /\ steady \in BOOLEAN
    BY DEF FetchInv, TypeOK
  <2>4. step' = "done"
    BY <2>1 DEF Enter
  <2>5. StatusInv' /\ ResultInv'
    BY <2>1, <2>2, <2>4
       DEF StatusInv, ResultInv, WholeIfSteady, SteadyServed, NothingForeign
  <2>. QED
    BY <2>1, <2>2, <2>3, <2>5, EnterKeeps
<1>. QED
  BY <1>2, <1>3

----------------------------------------------------------------------------

LEMMA NextFetch == FetchInv /\ [Next]_vars => FetchInv'
<1> SUFFICES ASSUME FetchInv, [Next]_vars PROVE FetchInv'
  OBVIOUS
<1>1. CASE UNCHANGED vars
  <2>1. /\ kind' = kind /\ pager' = pager /\ step' = step /\ attempt' = attempt
        /\ waited' = waited /\ phaseAt' = phaseAt /\ gap' = gap /\ wire' = wire
        /\ cut' = cut /\ closed' = closed /\ buf' = buf /\ result' = result
        /\ quiet' = quiet /\ steady' = steady /\ elapsed' = elapsed
    BY <1>1 DEF vars
  <2>2. /\ Sent' = Sent /\ Lines' = Lines /\ Earlier' = Earlier
        /\ Stream' = Stream /\ Asked(step)' = Asked(step) /\ Whole' = Whole
    BY <2>1 DEF Sent, Lines, Earlier, Stream, Asked, Whole
  <2>3. TypeOK'
    BY <2>1 DEF FetchInv, TypeOK
  <2>4. TimeInv'
    BY <2>1 DEF FetchInv, TimeInv, ClockOK, InTime, Accounted, FetchBounded
  <2>5. StageInv' /\ WireInv' /\ SteadyInv' /\ StatusInv'
    BY <2>1, <2>2 DEF FetchInv, SessionInv, StageInv, WireInv, SteadyInv, StatusInv
  <2>6. BufInv' /\ ExecInv'
    BY <2>1, <2>2 DEF FetchInv, SessionInv, BufInv, ExecInv
  <2>7. ResultInv'
    <3>1. Beginning(buf)' <=> Beginning(buf)
      BY <2>1, <2>2 DEF Beginning
    <3>. QED
      BY <2>1, <2>2, <3>1
         DEF FetchInv, SessionInv, ResultInv, WholeIfSteady, SteadyServed, NothingForeign
  <2>. QED
    BY <2>3, <2>4, <2>5, <2>6, <2>7 DEF FetchInv, SessionInv
<1>2. ASSUME Next PROVE TimeInv'
  BY <1>2, EnvironmentTime, ProceedTime, TickTime DEF Next, FetchInv
<1>3. ASSUME Environment PROVE TypeOK' /\ SessionInv'
  <2>1. CASE Break
    BY <2>1, FailKeeps DEF Break
  <2>2. CASE Connected
    BY <2>2, ConnectedKeeps
  <2>3. CASE Close
    BY <2>3, CloseKeeps
  <2>4. CASE \E body \in {Whole, <<"header", "body">>, <<"refusal">>, <<>>} : Answer(body)
    BY <2>4, AnswerKeeps
  <2>5. CASE \E n \in 1..Len(wire) : Send(n)
    BY <2>5, SendKeeps
  <2>6. CASE \E n \in 0..Len(wire) - 1, piece \in {"piece", "end"} : SendPiece(n, piece)
    BY <2>6, SendPieceKeeps
  <2>. QED
    BY <1>3, <2>1, <2>2, <2>3, <2>4, <2>5, <2>6 DEF Environment
<1>4. ASSUME Proceed PROVE TypeOK' /\ SessionInv'
  <2>1. CASE NoToken
    BY <2>1, NoTokenKeeps
  <2>2. CASE Begin
    <3>1. StartAttempt /\ attempt' \in 0..2 /\ result' = result /\ step # "done"
      BY <2>2 DEF Begin, FetchInv, TypeOK
    <3>. QED
      BY <3>1, StartKeeps
  <2>3. CASE Retry
    <3>1. StartAttempt /\ attempt' = attempt + 1 /\ result' = result /\ step = "backoff"
      BY <2>3 DEF Retry
    <3>2. attempt \in 0..1
      BY <3>1 DEF FetchInv, TimeInv, ClockOK
    <3>. QED
      BY <3>1, <3>2, StartKeeps
  <2>4. CASE Expire
    BY <2>4, FailKeeps DEF Expire
  <2>5. CASE StatusDone
    BY <2>5, StatusDoneKeeps
  <2>6. CASE ExecDone
    BY <2>6, ExecDoneKeeps
  <2>7. CASE TurnOffPager
    BY <2>7, TurnOffPagerKeeps
  <2>8. CASE ShowConfiguration
    BY <2>8, ShowConfigurationKeeps
  <2>9. CASE WriteFails
    BY <2>9, FailKeeps DEF WriteFails
  <2>10. CASE ShellDone
    BY <2>10, ShellDoneKeeps
  <2>. QED
    BY <1>4, <2>1, <2>2, <2>3, <2>4, <2>5, <2>6, <2>7, <2>8, <2>9, <2>10 DEF Proceed
<1>5. ASSUME Tick PROVE TypeOK' /\ SessionInv'
  BY <1>5, TickKeeps
<1>. QED
  BY <1>1, <1>2, <1>3, <1>4, <1>5 DEF Next, FetchInv

\* In every behaviour, whatever the device does and whenever it does it, the wire
\* carries the rest of what was asked for and the last phase a part of the stream
\* without gaps (run_ssh_session, read_until).
THEOREM FetchInvariant == Spec => []FetchInv
  BY InitFetch, NextFetch, PTL DEF Spec

\* The variables of a fetch keep their types.
THEOREM FetchTyped == Spec => []TypeOK
<1>1. FetchInv => TypeOK
  BY DEF FetchInv
<1>. QED
  BY <1>1, FetchInvariant, PTL

\* For every timeout, every silence of the phases and every pause shorter than that of
\* the last, what is accepted from a device that does its part is the whole
\* configuration (run_ssh_session, read_until, clean_hillstone).
THEOREM SteadyWhole == Spec => []WholeIfSteady
<1>1. FetchInv => WholeIfSteady
  BY DEF FetchInv, SessionInv, ResultInv
<1>. QED
  BY <1>1, FetchInvariant, PTL

\* And it is refused only after the last attempt (fetch_config of SshTransport).
THEOREM SteadyKept == Spec => []SteadyServed
<1>1. FetchInv => SteadyServed
  BY DEF FetchInv, SessionInv, ResultInv
<1>. QED
  BY <1>1, FetchInvariant, PTL

\* Whatever the device does, nothing of the session is taken for configuration
\* (clean_hillstone, validate_fortigate_config).
THEOREM OnlyConfiguration == Spec => []NothingForeign
<1>1. FetchInv => NothingForeign
  BY DEF FetchInv, SessionInv, ResultInv
<1>. QED
  BY <1>1, FetchInvariant, PTL
=============================================================================
