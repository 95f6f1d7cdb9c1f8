----------------------------- MODULE MCStartup -----------------------------
(* Small instances of Startup for TLC: a configuration in which everything  *)
(* is used and in order, and others that differ from it in what a decision  *)
(* of the program looks at.                                                 *)
EXTENDS Startup, TLC

CONSTANTS fw1, fw2, b1, b2

Names == {fw1, fw2}

Api(n) == [name |-> n, vendor |-> "fortigate", method |-> "api", apiToken |-> TRUE,
           sshUser |-> FALSE, sshKey |-> FALSE, sshPassword |-> FALSE, schedule |-> "cron"]
Ssh(n) == [Api(n) EXCEPT !.vendor = "hillstone", !.method = "ssh", !.apiToken = FALSE,
                         !.sshUser = TRUE, !.sshKey = TRUE]

Full == [devices |-> <<Api(fw1), Ssh(fw2)>>,
         notifications |-> [onFailure |-> {"email", "webhook"}, onSuccess |-> {"email"},
                            email |-> "ok", webhook |-> "ok"],
         metrics |-> "ok", s3 |-> b1,
         webui |-> [listen |-> "ok", user |-> TRUE, passwordEnv |-> TRUE],
         watchdog |-> [enabled |-> TRUE, staleAfter |-> "ok", interval |-> "ok"]]

Unwatched == [Full EXCEPT !.watchdog.enabled = FALSE, !.watchdog.staleAfter = "absent",
                          !.s3 = b2, !.metrics = "absent"]
ZeroInterval == [Full EXCEPT !.watchdog.interval = "zero", !.s3 = "absent"]
NotCron == [Full EXCEPT !.devices[2].schedule = "notCron"]
NoAddress == [Full EXCEPT !.metrics = "bad"]
NoUser == [Full EXCEPT !.webui.user = FALSE]
NoWebhook == [Full EXCEPT !.notifications.webhook = "absent"]
OnlyOther == [Full EXCEPT !.notifications.onFailure = {"other"}, !.s3 = "broken"]
Useless == [Full EXCEPT !.notifications.email = "useless", !.webui.listen = "absent"]

\* Not valid for other reasons than NoWebhook.
Twice == [Full EXCEPT !.devices = <<Api(fw1), Ssh(fw1)>>]
NoToken == [Full EXCEPT !.devices[1].apiToken = FALSE]
NoStaleAfter == [Full EXCEPT !.watchdog.staleAfter = "absent"]

Family == {Full, Unwatched, ZeroInterval, NotCron, NoAddress, NoUser, NoWebhook,
           OnlyOther, Useless, Twice, NoToken, NoStaleAfter}

\* A device is added to a service without web UI, its schedule no cron expression.
Addition == {[c EXCEPT !.webui.listen = "absent"] : c \in {Full, NotCron}}
=============================================================================
