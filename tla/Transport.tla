----------------------------- MODULE Transport -----------------------------
(* One call of fetch_config (transport/): the attempts and delays of        *)
(* retry_with_backoff around a REST request, an SSH `exec` (FortiGate), or  *)
(* the interactive shell of StoneOS, which says nothing about where one     *)
(* answer ends and the next begins: read_until goes by silence, by the      *)
(* `End` line and by deadlines.                                             *)
(*                                                                          *)
(* The output of a device is a sequence of lines, of which only the kind    *)
(* matters, and what its pieces read like when a packet ends within it: a   *)
(* line comes in at most two packets.  Time passes in ticks; no timer that is due lets time pass.     *)
EXTENDS Integers, Sequences, FiniteSets

CONSTANTS
    Kinds,     \* of the ways below, those that are used
    Timeout,   \* timeout_secs
    Delay,     \* the two delays between the three attempts
    Idle,      \* Idle[p]: the silence that ends phase p of a shell session
    NoGap      \* a steady device never pauses for so long

Phase == {"banner", "pager", "config"}
Session == {"connect", "exec"} \cup Phase

ASSUME KindAssumption == Kinds \subseteq {"rest", "exec", "shell"}

ASSUME TimeAssumption ==
    /\ Timeout \in Nat
    /\ Delay \in Nat \X Nat
    /\ Idle \in [Phase -> Nat \ {0}]
    /\ NoGap \in Nat \ {0} /\ NoGap <= Idle["config"]

VARIABLES
    kind,    \* how the configuration is fetched
    pager,   \* a StoneOS that ignores `terminal length 0`
    step,
    attempt, \* failed attempts before this one
    waited,  \* time since the request, the session or the delay began
    phaseAt, \* `waited` when the phase began
    gap,     \* time since the phase received something
    wire,    \* what the device has still to send
    cut,     \* its first line has been sent in part
    closed,  \* the channel has been closed
    buf,     \* what the phase has received; in the end, the artifact
    result,
    quiet,   \* history: the device's present pause
    steady,  \* history: in this attempt the device has done its part
    elapsed  \* history: time since the fetch began

vars == <<kind, pager, step, attempt, waited, phaseAt, gap, wire, cut, closed,
          buf, result, quiet, steady, elapsed>>

Line == {"login", "prompt", "echo", "running", "header", "body", "end", "more",
         "refusal"}

\* What a phase has received may end within a line, and begin within one.  The rest
\* of a prompt may be its `#`, with which a comment of a configuration begins.
Piece == {"piece", "rest", "sharp"}
Rests(line) == IF line = "prompt" THEN {"rest", "sharp"} ELSE {"rest"}

\* A complete configuration.  Of the first two only the head is recognized;
\* "running" announces that of StoneOS, whose last line is `End`.
Whole == IF kind = "shell" THEN <<"header", "body", "end">> ELSE <<"header", "body", "body">>

TypeOK ==
    /\ kind \in Kinds /\ pager \in BOOLEAN
    /\ step \in Session \cup {"begin", "request", "status", "backoff", "done"}
    /\ attempt \in 0..2
    /\ waited \in Nat /\ phaseAt \in 0..Timeout /\ gap \in Nat
    /\ wire \in Seq(Line) /\ buf \in Seq(Line \cup Piece)
    /\ cut \in BOOLEAN /\ (cut => wire # <<>>)
    /\ closed \in BOOLEAN
    /\ result \in {"none", "ok", "error", "noToken"}
    /\ quiet \in 0..NoGap /\ steady \in BOOLEAN /\ elapsed \in Nat

Init ==
    /\ kind \in Kinds
    /\ pager \in BOOLEAN /\ (pager => kind = "shell")
    /\ step = "begin" /\ attempt = 0
    /\ waited = 0 /\ phaseAt = 0 /\ gap = 0
    /\ wire = <<>> /\ cut = FALSE /\ closed = FALSE
    /\ buf = <<>> /\ result = "none"
    /\ quiet = 0 /\ steady = ~pager /\ elapsed = 0

----------------------------------------------------------------------------
(* Attempts *)

\* A new attempt, a delay, or the end: nothing is left of the session before.
Enter(s, b) ==
    /\ step' = s /\ buf' = b
    /\ waited' = 0 /\ phaseAt' = 0 /\ gap' = 0
    /\ wire' = <<>> /\ cut' = FALSE /\ closed' = FALSE /\ quiet' = 0
    /\ UNCHANGED <<kind, pager, elapsed>>

StartAttempt ==
    /\ Enter(IF kind = "rest" THEN "request" ELSE "connect", <<>>)
    /\ steady' = ~pager

\* The environment variable with the token is read before any attempt.
NoToken ==
    /\ step = "begin"
    /\ kind = "rest"
    /\ Enter("done", <<>>)
    /\ result' = "noToken"
    /\ UNCHANGED <<attempt, steady>>

Begin ==
    /\ step = "begin"
    /\ StartAttempt
    /\ UNCHANGED <<attempt, result>>

\* Every error of an attempt is retried, whatever it is.
FailAttempt ==
    /\ IF attempt < 2
       THEN Enter("backoff", <<>>) /\ UNCHANGED result
       ELSE Enter("done", <<>>) /\ result' = "error"
    /\ UNCHANGED <<attempt, steady>>

\* Mutant: one delay is always left.
RetryForever ==
    /\ step = "backoff"
    /\ waited = Delay[attempt + 1]
    /\ attempt' = IF attempt + 1 < 2 THEN attempt + 1 ELSE attempt
    /\ StartAttempt
    /\ UNCHANGED result

Retry ==
    /\ step = "backoff"
    /\ waited = Delay[attempt + 1]
    /\ attempt' = attempt + 1
    /\ StartAttempt
    /\ UNCHANGED result

\* The connection is refused or breaks, or the login is rejected.
Break ==
    /\ step \in {"request", "connect"}
    /\ FailAttempt

Succeed(content) ==
    /\ Enter("done", content)
    /\ result' = "ok"
    /\ UNCHANGED <<attempt, steady>>

----------------------------------------------------------------------------
(* REST *)

\* The body must begin like a configuration.
ValidBody(body) == body # <<>> /\ Head(body) = "header"

\* A body arrives, which the device may have left short, or which is not a
\* configuration at all.
Answer(body) ==
    /\ step = "request"
    /\ IF ValidBody(body)
       THEN /\ Enter("status", body)
            /\ steady' = (body = Whole)
            /\ UNCHANGED <<attempt, result>>
       ELSE FailAttempt

\* Whatever becomes of the status request, the body is kept.
StatusDone ==
    /\ step = "status"
    /\ Succeed(buf)

----------------------------------------------------------------------------
(* SSH *)

\* Connected and logged in: the command is executed, or a shell is opened.
Connected ==
    /\ step = "connect"
    /\ waited > 0
    /\ step' = IF kind = "exec" THEN "exec" ELSE "banner"
    /\ wire' \in IF kind = "exec" THEN {Whole, <<"refusal">>} ELSE {<<"login", "prompt">>}
    /\ steady' = (steady /\ wire' # <<"refusal">>)
    /\ phaseAt' = waited
    /\ UNCHANGED <<kind, pager, attempt, waited, gap, cut, closed, buf, result, quiet, elapsed>>

HasLine(s, l) == \E i \in DOMAIN s : s[i] = l

\* The last line of a configuration, or a piece of a longer one that reads the same.
EndSeen == step = "config" /\ HasLine(buf, "end")

\* What the phase has received once the next n lines, n > 0, have arrived: the
\* first completes what the phase has of it, or is what is left of it for the phase.
Received(n) ==
    LET later == SubSeq(wire, 2, n)
    IN  IF ~cut THEN {buf \o SubSeq(wire, 1, n)}
        ELSE IF buf # <<>> THEN {SubSeq(buf, 1, Len(buf) - 1) \o SubSeq(wire, 1, n)}
        ELSE {<<rest>> \o later : rest \in Rests(Head(wire))}

\* The device sends the next n lines in one piece.
Send(n) ==
    /\ step \in Session
    /\ ~closed /\ ~EndSeen
    /\ n \in 1..Len(wire)
    /\ buf' \in Received(n)
    /\ wire' = SubSeq(wire, n + 1, Len(wire))
    /\ cut' = FALSE
    /\ gap' = 0 /\ quiet' = 0
    /\ UNCHANGED <<kind, pager, step, attempt, waited, phaseAt, closed, result,
                   steady, elapsed>>

\* The device sends n lines and a piece of the next one: of a line of the
\* configuration that begins with `End`, perhaps these three letters.
SendPiece(n, piece) ==
    /\ step \in Phase
    /\ ~closed /\ ~EndSeen
    /\ n \in 0..Len(wire) - 1 /\ (n = 0 => ~cut)
    /\ piece = "end" => step = "config" /\ wire[n + 1] = "body"
    /\ \E received \in IF n = 0 THEN {buf} ELSE Received(n) :
          buf' = Append(received, piece)
    /\ wire' = SubSeq(wire, n + 1, Len(wire))
    /\ cut' = TRUE
    /\ gap' = 0 /\ quiet' = 0
    /\ steady' = (steady /\ piece # "end")
    /\ UNCHANGED <<kind, pager, step, attempt, waited, phaseAt, closed, result, elapsed>>

\* The channel ends: as it should after an `exec`, or too early.
Close ==
    /\ step \in Session \ {"connect"}
    /\ ~closed
    /\ closed' = TRUE
    /\ steady' = (steady /\ step = "exec" /\ wire = <<>>)
    /\ UNCHANGED <<kind, pager, step, attempt, waited, phaseAt, gap, wire, cut, buf,
                   result, quiet, elapsed>>

\* read_to_eof takes what there is when the channel ends.
ExecDone ==
    /\ step = "exec"
    /\ closed
    /\ Succeed(buf)

\* Mutant: silence ends the reading of the configuration as it ends the others.
AnySilence ==
    \/ closed
    \/ buf # <<>> /\ gap >= 1
    \/ waited - phaseAt >= Timeout
    \/ EndSeen

\* Mutant: the deadline of a phase leaves the connection a third of the time.
ShortDeadline ==
    \/ closed
    \/ buf # <<>> /\ gap >= Idle[step]
    \/ 3 * (waited - phaseAt) >= Timeout
    \/ EndSeen

\* What ends read_until: the channel, silence after some output, the deadline
\* of the phase, or the last line of the configuration.
PhaseOver ==
    \/ closed
    \/ buf # <<>> /\ gap >= Idle[step]
    \/ waited - phaseAt >= Timeout
    \/ EndSeen

\* The next command is typed; the device answers it after what it had to say.  One
\* that was silent in the middle of a line has not done its part.
Type(phase, answer) ==
    /\ step' = phase
    /\ wire' = wire \o answer
    /\ buf' = <<>> /\ gap' = 0
    /\ phaseAt' = waited
    /\ steady' = (steady /\ ~cut)
    /\ UNCHANGED <<kind, pager, attempt, waited, cut, closed, result, quiet, elapsed>>

TurnOffPager ==
    /\ step = "banner"
    /\ PhaseOver
    /\ Type("pager", <<"echo", "prompt">>)

ShowConfiguration ==
    /\ step = "pager"
    /\ PhaseOver
    /\ Type("config", IF pager THEN <<"echo", "running", "header", "more">>
                      ELSE <<"echo", "running", "header", "body", "end", "prompt">>)

\* Nothing can be typed into a channel that has been closed, if that is noticed.
WriteFails ==
    /\ step \in {"banner", "pager"}
    /\ closed
    /\ FailAttempt

First(S) == CHOOSE i \in S : \A j \in S : i <= j

\* The lines that are not those of the pager, in their order.
WithoutPager(lines) ==
    LET kept == {i \in DOMAIN lines : lines[i] # "more"}
        Nth(n) == CHOOSE i \in kept : Cardinality(kept \cap 1..i) = n
    IN  IF kept = DOMAIN lines THEN lines
        ELSE [n \in 1..Cardinality(kept) |-> lines[Nth(n)]]

\* Mutant: what follows the `End` line is kept.
CleanToTheEnd(raw) ==
    LET anchors == {i \in DOMAIN raw : raw[i] \in {"running", "header", "sharp"}}
        from == IF raw[First(anchors)] = "running" THEN First(anchors) + 1 ELSE First(anchors)
    IN  IF anchors = {} THEN <<>>
        ELSE WithoutPager(SubSeq(raw, from, Len(raw)))

\* clean_hillstone: from the announcement or the first comment line on, up to
\* the first `End`, without the lines of the pager.
Clean(raw) ==
    LET anchors == {i \in DOMAIN raw : raw[i] \in {"running", "header", "sharp"}}
        from == IF raw[First(anchors)] = "running" THEN First(anchors) + 1 ELSE First(anchors)
        ends == {i \in from..Len(raw) : raw[i] = "end"}
        to == IF ends = {} THEN Len(raw) ELSE First(ends)
    IN  IF anchors = {} THEN <<>>
        ELSE WithoutPager(SubSeq(raw, from, to))

\* The output is cleaned and validated after the attempts: no error here is
\* retried.
ShellDone ==
    /\ step = "config"
    /\ PhaseOver
    /\ IF HasLine(Clean(buf), "header")
       THEN Succeed(Clean(buf))
       ELSE /\ Enter("done", <<>>)
            /\ result' = "error"
            /\ UNCHANGED <<attempt, steady>>

----------------------------------------------------------------------------
(* Time *)

\* Mutant: only the requests of REST have a timeout.
RequestExpires ==
    /\ step = "request"
    /\ waited = Timeout
    /\ FailAttempt

\* The timeout of a REST request, and the one around a whole SSH session.
Expire ==
    /\ step \in Session \cup {"request"}
    /\ waited = Timeout
    /\ FailAttempt

\* Mutant: the timeout of a request is all there is, none is around a session.
DueUntimed ==
    \/ step \in {"begin", "done"}
    \/ step \in {"request", "status"} /\ waited = Timeout
    \/ step = "backoff" /\ waited = Delay[attempt + 1]
    \/ step = "exec" /\ closed
    \/ step \in Phase /\ PhaseOver

Due ==
    \/ step \in {"begin", "done"}
    \/ step \in Session \cup {"request", "status"} /\ waited = Timeout
    \/ step = "backoff" /\ waited = Delay[attempt + 1]
    \/ step = "exec" /\ closed
    \/ step \in Phase /\ PhaseOver

Tick ==
    /\ ~Due
    /\ waited' = waited + 1
    /\ elapsed' = elapsed + 1
    /\ gap' = IF buf = <<>> \/ step \notin Phase THEN 0 ELSE gap + 1
    /\ quiet' = IF wire = <<>> \/ ~steady THEN 0 ELSE quiet + 1
    /\ steady' = (steady /\ quiet' < NoGap)
    /\ UNCHANGED <<kind, pager, step, attempt, phaseAt, wire, cut, closed, buf, result>>

----------------------------------------------------------------------------

\* What the device and the network do.
Environment ==
    \/ Break \/ Connected \/ Close
    \/ \E body \in {Whole, <<"header", "body">>, <<"refusal">>, <<>>} : Answer(body)
    \/ \E n \in 1..Len(wire) : Send(n)
    \/ \E n \in 0..Len(wire) - 1, piece \in {"piece", "end"} : SendPiece(n, piece)

\* What fetch_config does by itself.
Proceed ==
    \/ NoToken \/ Begin \/ Retry \/ Expire
    \/ StatusDone \/ ExecDone
    \/ TurnOffPager \/ ShowConfiguration \/ WriteFails \/ ShellDone

Next == Environment \/ Proceed \/ Tick

Spec == Init /\ [][Next]_vars

\* Time passes, and what is due happens.  Nothing is assumed of the device.
Fairness == WF_vars(Tick) /\ WF_vars(Proceed)

FairSpec == Spec /\ Fairness

----------------------------------------------------------------------------
(* What a fetch is worth *)

\* From a device that does its part in the last attempt (it never pauses for
\* NoGap, nor in the middle of a line until a phase ends, honours `terminal length
\* 0`, does not hang up, exports all, and has no line of which the first packet is
\* `End`) whatever is accepted is the whole configuration, however slow the login was and whatever
\* of it came late (run_ssh_session, read_until, clean_hillstone).
WholeIfSteady == result = "ok" /\ steady => buf = Whole

\* Such a device is refused only after the last attempt, never by the validation
\* that has no retry (fetch_config of SshTransport).
SteadyServed == result = "error" /\ steady => attempt = 2

\* The beginning of the configuration, the last line perhaps cut.
Beginning(b) ==
    /\ Len(b) <= Len(Whole)
    /\ \A i \in DOMAIN b : \/ b[i] = Whole[i]
                           \/ i = Len(b) /\ b[i] \in {"piece", "end"}

\* Nothing of the session is taken for configuration, not even from a device that
\* stops half-way: what REST and StoneOS yield is a beginning of the configuration,
\* unless the `#` of a prompt came alone and late, and was taken for a comment
\* (clean_hillstone, validate_fortigate_config).
NothingForeign ==
    result = "ok" /\ kind # "exec" => Head(buf) = "sharp" \/ Beginning(buf)

\* A fetch lasts no longer than three attempts, two delays and one status request
\* may, whatever the device does (retry_with_backoff, tokio::time::timeout).
FetchBounded ==
    elapsed <= (IF kind = "rest" THEN 4 * Timeout ELSE 3 * Timeout) + Delay[1] + Delay[2]

\* Every fetch comes to an end, whatever the device does.
FetchEnds == <>(step = "done")

\* "pulls the full configuration" (README.md): what is accepted is whole.
WholeConfig == result = "ok" => buf = Whole
=============================================================================
