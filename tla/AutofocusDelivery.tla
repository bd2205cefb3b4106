--------------------------- MODULE AutofocusDelivery ---------------------------
(***************************************************************************)
(* How the hub's updater posts the result of an autofocus run to every     *)
(* channel of one telescope once, across retries, restarts and the         *)
(* plugin's replay of a completion it has no acknowledgement for.          *)
(* The updater is one task; a post to Discord is an await, during which    *)
(* the task may be aborted, the process may stop and routes may change.    *)
(* Receipts are rows of the database.  Deadlines and the not-ready window  *)
(* are a choice; attempts are counted.  The plugin side (external) names   *)
(* reports by number, serves only the latest one and sends its completion  *)
(* again, after a reconnect, until it is acknowledged.  An older plugin    *)
(* takes no acknowledgement, and one older still does not say which report *)
(* a completion is of.                                                     *)
(***************************************************************************)
EXTENDS Naturals

CONSTANTS
  Channels,
  MaxReports,   \* bound on autofocus runs
  MaxAttempts,  \* AutofocusRetryPolicy.max_attempts
  MaxDoubts,    \* bound on posts that Discord took and no receipt records
  NoChannel

ASSUME AutofocusAssumption ==
  MaxReports \in Nat /\ MaxAttempts \in Nat \ {0} /\ MaxDoubts \in Nat /\ NoChannel \notin Channels

Reports == 1..MaxReports
NoReport == 0

\* Plugins, by RigCapabilities.autofocus_delivery_ack and by whether their
\* completions hold a report_timestamp.
Dialects == {"receipts", "named", "legacy"}

VARIABLES
  dialect,    \* which of the three plugins this is
  completed,  \* the latest run's report
  readable,   \* the report the rig serves: the latest published one
  acked,      \* reports the plugin holds an acknowledgement for
  routes,     \* telescope_channels
  receipts,   \* autofocus_deliveries: channel and report
  target,     \* chat_target of the updater, read when it was built
  handled,    \* the latest completion this updater was given
  report,     \* the pending delivery's report, NoReport when there is none
  attempts,   \* its attempts
  obtained,   \* its report_obtained
  phase,      \* where the updater's task stands
  left,       \* channels it has yet to post to
  channel,    \* the channel of the post in flight
  failed,     \* a channel refused it
  posts,      \* history: how often Discord took a post of a report to a channel
  doubts      \* history: how many of those no receipt records

TakesReceipts == dialect = "receipts"
NamesReports == dialect # "legacy"

plugin == <<dialect, completed, readable, acked>>
store == <<routes, receipts>>
delivery == <<report, attempts, obtained>>
task == <<phase, left, channel, failed>>
history == <<posts, doubts>>
autofocusVars == <<plugin, store, target, handled, delivery, task, history>>

AutofocusTypeOK ==
  /\ dialect \in Dialects
  /\ completed \in 0..MaxReports /\ readable \in 0..MaxReports /\ acked \in SUBSET Reports
  /\ routes \in SUBSET Channels /\ receipts \in SUBSET (Channels \X Reports)
  /\ target \in SUBSET Channels /\ handled \in 0..MaxReports
  /\ report \in 0..MaxReports /\ attempts \in 0..MaxAttempts /\ obtained \in BOOLEAN
  /\ phase \in {"idle", "report", "notice", "sendingReport", "sendingNotice",
                "tookReport", "tookNotice"}
  /\ left \in SUBSET Channels /\ channel \in Channels \cup {NoChannel} /\ failed \in BOOLEAN
  /\ posts \in [Channels \X Reports -> Nat] /\ doubts \in [Channels \X Reports -> Nat]

AutofocusInit ==
  /\ dialect \in Dialects /\ completed = 0 /\ readable = 0 /\ acked = {}
  /\ routes \in SUBSET Channels /\ receipts = {}
  /\ target = routes /\ handled = 0
  /\ report = NoReport /\ attempts = 0 /\ obtained = FALSE
  /\ phase = "idle" /\ left = {} /\ channel = NoChannel /\ failed = FALSE
  /\ posts = [p \in Channels \X Reports |-> 0] /\ doubts = [p \in Channels \X Reports |-> 0]

---------------------------------------------------------------------------
\* The rig and the owner's routes.

CompleteRun ==
  /\ completed < MaxReports /\ completed' = completed + 1
  /\ UNCHANGED <<dialect, readable, acked, store, target, handled, delivery, task, history>>

PublishReport ==
  /\ readable < completed /\ readable' = completed
  /\ UNCHANGED <<dialect, completed, acked, store, target, handled, delivery, task, history>>

AddRoute(c) ==
  /\ c \notin routes /\ routes' = routes \cup {c}
  /\ UNCHANGED <<plugin, receipts, target, handled, delivery, task, history>>

\* Receipts outlive the route: adding it again posts no old report.
RemoveRoute(c) ==
  /\ c \in routes /\ routes' = routes \ {c}
  /\ UNCHANGED <<plugin, receipts, target, handled, delivery, task, history>>

---------------------------------------------------------------------------
\* Between polls.

\* handle_autofocus_finished: the newest completion supersedes what is
\* pending.  After a rebuild the plugin's replay brings it back; an old one,
\* of a plugin without receipts, is passed over (stale_legacy_autofocus).
HandleAutofocusFinished ==
  /\ phase = "idle" /\ completed > handled /\ completed \notin acked
  /\ handled' = completed
  /\ \/ report' = completed /\ attempts' = 0 /\ obtained' = FALSE
     \/ ~TakesReceipts /\ UNCHANGED delivery
  /\ UNCHANGED <<plugin, store, target, task, history>>

\* A disabled event of the Autofocus scope.
RevokeAutofocus ==
  /\ phase = "idle" /\ report' = NoReport
  /\ UNCHANGED <<plugin, store, target, handled, attempts, obtained, task, history>>

\* Mutant: receipts are not consulted.
EveryTarget(r) == target

\* pending_autofocus_targets
PendingTargets(r) == {c \in target : <<c, r>> \notin receipts}

---------------------------------------------------------------------------
\* poll_autofocus_delivery

\* acknowledge_autofocus, if the plugin takes it: its failure is ignored.
Acknowledge ==
  /\ acked' \in {acked, IF TakesReceipts THEN acked \cup {report} ELSE acked}
  /\ report' = NoReport

Due == phase = "idle" /\ report # NoReport

\* The report this is of has been delivered, if the completion says which it is.
Delivered == NamesReports /\ PendingTargets(report) = {}

SkipDelivered ==
  /\ Due /\ Delivered
  /\ Acknowledge
  /\ UNCHANGED <<dialect, completed, readable, store, target, handled, attempts, obtained, task,
                 history>>

\* deliver_autofocus_report or send_autofocus_unavailable begins to post.
Begin(what) ==
  /\ phase' = what /\ left' = PendingTargets(report')
  /\ channel' = NoChannel /\ failed' = FALSE

\* send_autofocus_unavailable: a delivery that ever had its report ends
\* without a word, another one with a notice to the channels still waiting.  A
\* notice of no report in particular leaves no receipt, and is not modelled.
GiveUp(had) ==
  \/ /\ had \/ ~NamesReports
     /\ report' = NoReport
     /\ phase' = "idle" /\ left' = {} /\ channel' = NoChannel /\ failed' = FALSE
  \/ /\ ~had /\ NamesReports /\ UNCHANGED report
     /\ Begin("notice")

\* retry_autofocus_delivery after one more attempt, its deadline passed or not.
Retry(had) ==
  /\ attempts' = attempts + 1 /\ obtained' = had
  /\ \/ GiveUp(had)
     \/ /\ attempts + 1 < MaxAttempts /\ UNCHANGED report
        /\ phase' = "idle" /\ left' = {} /\ channel' = NoChannel /\ failed' = FALSE

\* The receipts cannot be read: nothing says the report is missing.  Those of
\* a completion that names none are looked up when a report has been read.
LookupFails ==
  /\ Due /\ (NamesReports \/ readable # NoReport)
  /\ Retry(TRUE)
  /\ UNCHANGED <<plugin, store, target, handled, history>>

\* Overall deadline, or the not-ready window, or an outage that outlasts it.
Expire ==
  /\ Due /\ ~Delivered
  /\ GiveUp(obtained)
  /\ UNCHANGED <<plugin, store, target, handled, attempts, obtained, history>>

\* autofocus_report_matches: the latest is taken for one that names none.
ReadReport ==
  /\ Due /\ ~Delivered /\ readable # NoReport /\ (NamesReports => readable = report)
  /\ report' = readable /\ obtained' = TRUE
  /\ Begin("report")
  /\ UNCHANGED <<plugin, store, target, handled, attempts, history>>

\* An error, or another report than the expected one.
ReadFails ==
  /\ Due /\ ~Delivered
  /\ Retry(obtained)
  /\ UNCHANGED <<plugin, store, target, handled, history>>

---------------------------------------------------------------------------
\* deliver_autofocus_message

Posting == phase \in {"report", "notice"}
Sending == phase \in {"sendingReport", "sendingNotice"}
Took == phase \in {"tookReport", "tookNotice"}

Kind == IF phase \in {"report", "sendingReport", "tookReport"} THEN "report" ELSE "notice"

Send(c) ==
  /\ Posting /\ c \in left
  /\ phase' = (IF phase = "report" THEN "sendingReport" ELSE "sendingNotice")
  /\ channel' = c /\ left' = left \ {c}
  /\ UNCHANGED <<plugin, store, target, handled, delivery, failed, history>>

DiscordTakes ==
  /\ Sending
  /\ phase' = (IF phase = "sendingReport" THEN "tookReport" ELSE "tookNotice")
  /\ posts' = [posts EXCEPT ![<<channel, report>>] = @ + 1]
  /\ UNCHANGED <<plugin, store, target, handled, delivery, left, channel, failed, doubts>>

InDoubt ==
  /\ doubts[<<channel, report>>] < MaxDoubts
  /\ doubts' = [doubts EXCEPT ![<<channel, report>>] = @ + 1]

\* record_autofocus_delivery, a no-op once the route is gone.
RecordDelivery ==
  /\ Took
  /\ phase' = Kind /\ channel' = NoChannel
  /\ \/ channel \in routes /\ receipts' = receipts \cup {<<channel, report>>} /\ UNCHANGED doubts
     \/ channel \notin routes /\ InDoubt /\ UNCHANGED receipts
  /\ UNCHANGED <<plugin, routes, target, handled, delivery, left, failed, posts>>

\* The post fails, or its answer is lost; the other channels still get theirs.
SendFails ==
  /\ \/ Sending /\ UNCHANGED doubts
     \/ Took /\ InDoubt
  /\ phase' = Kind /\ channel' = NoChannel /\ failed' = TRUE
  /\ UNCHANGED <<plugin, store, target, handled, delivery, left, posts>>

\* The whole delivery ends with an error: a report is retried, a notice dropped.
EndsWithError ==
  IF Kind = "report" THEN Retry(obtained)
  ELSE /\ report' = NoReport /\ UNCHANGED <<attempts, obtained>>
       /\ phase' = "idle" /\ left' = {} /\ channel' = NoChannel /\ failed' = FALSE

\* The receipt cannot be written: the rest of the channels is left to a retry.
RecordFails ==
  /\ Took /\ InDoubt
  /\ EndsWithError
  /\ UNCHANGED <<plugin, store, target, handled, posts>>

\* Mutant: one channel's success is enough.
SomeAccepted == ~failed \/ PendingTargets(report) # target

\* No channel refused the message.
AllAccepted == ~failed

FinishDelivered ==
  /\ Posting /\ left = {} /\ AllAccepted
  /\ Acknowledge
  /\ phase' = "idle" /\ failed' = FALSE
  /\ UNCHANGED <<dialect, completed, readable, store, target, handled, attempts, obtained, left,
                 channel, history>>

FinishFailed ==
  /\ Posting /\ left = {} /\ ~AllAccepted
  /\ EndsWithError
  /\ UNCHANGED <<plugin, store, target, handled, history>>

---------------------------------------------------------------------------
\* The updater is aborted, or the process stops, and a new one is built.
Rebuild ==
  /\ IF Took THEN InDoubt ELSE UNCHANGED doubts
  /\ target' = routes /\ handled' = 0
  /\ report' = NoReport /\ attempts' = 0 /\ obtained' = FALSE
  /\ phase' = "idle" /\ left' = {} /\ channel' = NoChannel /\ failed' = FALSE
  /\ UNCHANGED <<plugin, store, posts>>

AutofocusNext ==
  \/ CompleteRun
  \/ PublishReport
  \/ \E c \in Channels : AddRoute(c) \/ RemoveRoute(c) \/ Send(c)
  \/ HandleAutofocusFinished
  \/ RevokeAutofocus
  \/ SkipDelivered
  \/ LookupFails
  \/ Expire
  \/ ReadReport
  \/ ReadFails
  \/ DiscordTakes
  \/ RecordDelivery
  \/ SendFails
  \/ RecordFails
  \/ FinishDelivered
  \/ FinishFailed
  \/ Rebuild

AutofocusSpec == AutofocusInit /\ [][AutofocusNext]_autofocusVars

---------------------------------------------------------------------------
\* A channel gets the result of an autofocus run once, however often the
\* delivery is retried and the completion replayed, save for posts in doubt:
\* those the process stopped after, or whose answer or receipt was lost.
ReportedOnce ==
  \A c \in Channels, r \in Reports : posts[<<c, r>>] <= 1 + doubts[<<c, r>>]

\* The plugin's replay is retired only when every channel the updater serves
\* has been given the result: no failed or forgotten channel is left behind.
AcknowledgedWhenDelivered ==
  [][\A r \in acked' \ acked : \A c \in target : posts[<<c, r>>] > 0]_autofocusVars

===========================================================================
