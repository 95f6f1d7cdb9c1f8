------------------------------- MODULE Config -------------------------------
(* The configuration (config.rs) as far as a decision depends on it: what   *)
(* parses, what validate() accepts, what a start needs beyond that, and     *)
(* which channels notify::dispatch reaches.  An optional text is "absent",  *)
(* or good for its purpose, or one of the ways in which it is not.          *)
EXTENDS Naturals, Sequences

CONSTANTS
    Name,    \* of devices
    Bucket   \* of S3

ASSUME BucketAssumption == {"absent", "broken"} \cap Bucket = {}

\* A key or a password is given by name; which one does not matter.
Device == [name     : Name,
           vendor   : {"fortigate", "hillstone"},
           method   : {"api", "ssh"},
           apiToken : BOOLEAN, sshUser : BOOLEAN, sshKey : BOOLEAN, sshPassword : BOOLEAN,
           schedule : {"blank", "notCron", "cron"}]

\* humantime reads "0s" as a duration.
WatchdogConfig == [enabled    : BOOLEAN,
                   staleAfter : {"absent", "bad", "ok"},
                   interval   : {"bad", "zero", "ok"}]

Address == {"absent", "bad", "ok"}
WebUiConfig == [listen : Address, user : BOOLEAN, passwordEnv : BOOLEAN]

\* The list of channels is of any words; "other" stands for the unknown ones.  A
\* block is of no use without the SMTP password in the environment, with an address
\* that does not parse, or with a method other than POST and PUT.
Channel == {"email", "webhook"}
NotificationsConfig == [onFailure : SUBSET (Channel \cup {"other"}),
                        onSuccess : SUBSET (Channel \cup {"other"}),
                        email     : {"absent", "useless", "ok"},
                        webhook   : {"absent", "useless", "ok"}]

\* "broken": one of the two names of credentials is missing.
S3Config == Bucket \cup {"absent", "broken"}

Config == [devices : Seq(Device), notifications : NotificationsConfig,
           metrics : Address, s3 : S3Config,
           webui : WebUiConfig, watchdog : WatchdogConfig]

----------------------------------------------------------------------------
(* validate() *)

DeviceValid(d) ==
    /\ d.vendor = "hillstone" => d.method = "ssh"
    /\ d.method = "api" => d.apiToken
    /\ d.method = "ssh" => d.sshUser /\ (d.sshKey \/ d.sshPassword)
    /\ d.schedule # "blank"

NamesDiffer(devices) ==
    \A i, j \in DOMAIN devices : devices[i].name = devices[j].name => i = j

\* Mutant: the block of a webhook is not asked for.
EmailHasBlock(n) == "email" \in n.onFailure => n.email # "absent"

ChannelsHaveBlocks(n) ==
    /\ "email" \in n.onFailure => n.email # "absent"
    /\ "webhook" \in n.onFailure => n.webhook # "absent"

WatchdogValid(c) ==
    c.watchdog.enabled => /\ c.watchdog.staleAfter = "ok"
                          /\ c.watchdog.interval # "bad"
                          /\ c.notifications.onFailure # {}

Valid(c) ==
    /\ NamesDiffer(c.devices)
    /\ \A i \in DOMAIN c.devices : DeviceValid(c.devices[i])
    /\ ChannelsHaveBlocks(c.notifications)
    /\ WatchdogValid(c)

----------------------------------------------------------------------------
(* What validate() does not ask for, and a start does *)

WebUiStarts(w, password) ==
    w.listen # "absent" => /\ w.user /\ w.passwordEnv
                           /\ password = "set"
                           /\ w.listen = "ok"

Scheduled(c) == \A i \in DOMAIN c.devices : c.devices[i].schedule = "cron"

----------------------------------------------------------------------------
(* notify::dispatch *)

Alarming == {"failed", "stale", "recovered"}

\* The channels that an event of this status is sent on, and that take it.
Listed(n, status) == IF status \in Alarming THEN n.onFailure ELSE n.onSuccess

Sends(n, ch) ==
    \/ ch = "email" /\ n.email = "ok"
    \/ ch = "webhook" /\ n.webhook = "ok"

Sent(n, status) == {ch \in Listed(n, status) : Sends(n, ch)}
=============================================================================
