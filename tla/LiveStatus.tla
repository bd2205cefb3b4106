------------------------------- MODULE LiveStatus -------------------------------
(***************************************************************************)
(* The live status: one Discord message per telescope, posted once and     *)
(* edited in place.  At the end of a cycle in which the rig answered, the  *)
(* updater composes the message and pushes it, unless the fingerprint of   *)
(* what it knows is that of its last push; an event applied to the state   *)
(* forgets the fingerprint, and what polls find out is compared through    *)
(* it.  The bot edits the message it has a record of, and posts a new one  *)
(* when there is no record or Discord no longer has the message.  The      *)
(* record is kept in a file, written after the post.  Here a cell of the   *)
(* message has one of two values; the snapshot of the mount, which every   *)
(* push takes afresh, is left out.                                         *)
(***************************************************************************)
EXTENDS Naturals

CONSTANTS
  StatusCells,      \* the cells of the message that are followed
  MaxPosts    \* bound: messages posted, by this process and those before it

NoMessage == 0

\* What the message shows of an operation of the sequence, by kind and field.
OperationCells ==
  {"camera_cooling"} \X {"setpoint", "temperature", "power"}
    \cup {"camera_warming"} \X {"temperature", "minimum"}
    \cup {"time_wait"} \X {"end"}
    \cup {"astronomical_wait"} \X {"target", "current", "comparator", "expected", "name"}
    \cup {"safety_wait"} \X {"is_safe", "interval"}
    \cup {"condition_wait"} \X {"interval"}
    \cup {"mount_slew"} \X {"ra", "dec", "altitude"}
    \cup {"mount_center", "plate_solve"} \X {"coordinates", "success"}

\* What events fill in, and what the target and the flip time add.
EventCells ==
  {"target", "scheduler_wait", "sequence", "sequence_failure", "safety", "focuser", "dome",
   "flat", "weather", "switch", "mount", "guider", "filter"} \X {"value", "detail"}
PolledCells == OperationCells \cup {<<"sequence_target", "name">>, <<"flip", "minutes">>}

ASSUME StatusCellsAssumption == StatusCells \subseteq EventCells \cup PolledCells
ASSUME PostsAssumption == MaxPosts \in Nat \ {0}

VARIABLES
  state,        \* the value of each cell
  fingerprint,  \* last_status_fingerprint: partial, empty when it was forgotten
  at,           \* where the refresh is: "polling", "editing", "posting", "saving"
  discord,      \* the messages of the channel, and what each shows
  posted,       \* how many were posted
  record,       \* status_messages: the message of this telescope and channel
  file,         \* the same, on disk
  orphans,      \* history: messages whose record was lost, or never made
  missed,       \* history: the last push failed, or someone deleted the message since
  settled       \* history: a cycle has ended without a failure, and nothing has changed since

liveStatusVars ==
  <<state, fingerprint, at, discord, posted, record, file, orphans, missed, settled>>

Pictures == [StatusCells -> BOOLEAN]

LiveStatusTypeOK ==
  /\ state \in Pictures
  /\ fingerprint \in UNION {[S -> BOOLEAN] : S \in SUBSET StatusCells}
  /\ at \in {"polling", "editing", "posting", "saving"}
  /\ posted \in 0..MaxPosts
  /\ DOMAIN discord \subseteq 1..posted /\ \A m \in DOMAIN discord : discord[m] \in Pictures
  /\ record \in 0..posted /\ file \in 0..posted /\ orphans \subseteq 1..posted
  /\ missed \in BOOLEAN /\ settled \in BOOLEAN

\* A process starts with no fingerprint and with the record of an earlier one,
\* under the key of this channel or the older one without a channel.
LiveStatusInit ==
  /\ state = [c \in StatusCells |-> FALSE] /\ fingerprint = <<>> /\ at = "polling"
  /\ posted \in {0, 1} /\ discord = [m \in 1..posted |-> state]
  /\ record = posted /\ file = posted
  /\ orphans = {} /\ missed = FALSE /\ settled = FALSE

\* status_fingerprint
Unprinted ==
  {<<"camera_cooling", "setpoint">>, <<"camera_cooling", "power">>, <<"camera_warming", "minimum">>,
   <<"astronomical_wait", "name">>, <<"safety_wait", "interval">>,
   <<"mount_slew", "dec">>, <<"mount_slew", "altitude">>,
   <<"mount_center", "coordinates">>, <<"plate_solve", "coordinates">>,
   <<"target", "detail">>, <<"sequence_failure", "detail">>}

\* What was pushed last is never taken for the empty fingerprint of no push.
ASSUME FingerprintAssumption == StatusCells \ Unprinted # {}

StatusFingerprint == [c \in StatusCells \ Unprinted |-> state[c]]

UpToDate == fingerprint = StatusFingerprint

---------------------------------------------------------------------------
Flip(c) == state' = [state EXCEPT ![c] = ~@] /\ settled' = FALSE

\* apply_event_state, revoke_state_for_disabled_event, a target that expires.
EventChanges(c) ==
  /\ at = "polling" /\ c \in EventCells
  /\ Flip(c) /\ fingerprint' = <<>>
  /\ UNCHANGED <<at, discord, posted, record, file, orphans, missed>>

PollChanges(c) ==
  /\ at = "polling" /\ c \in PolledCells
  /\ Flip(c)
  /\ UNCHANGED <<fingerprint, at, discord, posted, record, file, orphans, missed>>

\* refresh_status_message
NothingToRefresh ==
  /\ at = "polling" /\ UpToDate /\ settled' = TRUE
  /\ UNCHANGED <<state, fingerprint, at, discord, posted, record, file, orphans, missed>>

BeginRefresh ==
  /\ at = "polling" /\ ~UpToDate
  /\ at' = IF record = NoMessage THEN "posting" ELSE "editing"
  /\ UNCHANGED <<state, fingerprint, discord, posted, record, file, orphans, missed, settled>>

\* The push is over.  Its failure is logged, and the fingerprint kept.
EndRefresh(failed) ==
  /\ at' = "polling" /\ fingerprint' = StatusFingerprint
  /\ missed' = failed /\ settled' = ~failed
  /\ UNCHANGED state

Edited(m) == discord' = [discord EXCEPT ![m] = state]
Posted(m) == discord' = [n \in DOMAIN discord \cup {m} |-> IF n = m THEN state ELSE discord[n]]

\* upsert_status_in
EditMessage ==
  /\ at = "editing" /\ record \in DOMAIN discord
  /\ Edited(record) /\ EndRefresh(FALSE)
  /\ UNCHANGED <<posted, record, file, orphans>>

EditFindsNothing ==
  /\ at = "editing" /\ record \notin DOMAIN discord /\ at' = "posting"
  /\ UNCHANGED <<state, fingerprint, discord, posted, record, file, orphans, missed, settled>>

\* Mutant: every failed edit is answered with a new message.
EditFailsAndReposts ==
  /\ at = "editing" /\ at' = "posting"
  /\ UNCHANGED <<state, fingerprint, discord, posted, record, file, orphans, missed, settled>>

\* Any other failure; Discord may have taken the edit.
EditFails ==
  /\ at = "editing"
  /\ discord' = discord \/ (record \in DOMAIN discord /\ Edited(record))
  /\ EndRefresh(TRUE)
  /\ UNCHANGED <<posted, record, file, orphans>>

PostMessage ==
  /\ at = "posting" /\ posted < MaxPosts /\ posted' = posted + 1
  /\ Posted(posted + 1) /\ at' = "saving"
  /\ UNCHANGED <<state, fingerprint, record, file, orphans, missed, settled>>

PostFails ==
  /\ at = "posting" /\ EndRefresh(TRUE)
  /\ UNCHANGED <<discord, posted, record, file, orphans>>

\* Discord took the message and its answer was lost.
PostInDoubt ==
  /\ at = "posting" /\ posted < MaxPosts /\ posted' = posted + 1
  /\ Posted(posted + 1) /\ orphans' = orphans \cup {posted + 1}
  /\ EndRefresh(TRUE)
  /\ UNCHANGED <<record, file>>

\* StatusState::set, then save: the file is replaced whole, or not at all.
SaveRecord ==
  /\ at = "saving" /\ record' = posted /\ file' \in {posted, file}
  /\ EndRefresh(posted \notin DOMAIN discord)
  /\ UNCHANGED <<discord, posted, orphans>>

---------------------------------------------------------------------------
\* Someone deletes the message, or an older one.
DeleteMessage(m) ==
  /\ discord' = [n \in DOMAIN discord \ {m} |-> discord[n]]
  /\ missed' = (missed \/ m = record) /\ settled' = FALSE
  /\ UNCHANGED <<state, fingerprint, at, posted, record, file, orphans>>

\* The process stops at any point and starts again.
RestartProcess ==
  /\ record' = file /\ fingerprint' = <<>> /\ at' = "polling"
  /\ orphans' = orphans \cup (DOMAIN discord \ {file})
  /\ missed' = FALSE /\ settled' = FALSE
  /\ UNCHANGED <<state, discord, posted, file>>

LiveStatusNext ==
  \/ \E c \in StatusCells : EventChanges(c) \/ PollChanges(c)
  \/ NothingToRefresh \/ BeginRefresh
  \/ EditMessage \/ EditFindsNothing \/ EditFails
  \/ PostMessage \/ PostFails \/ PostInDoubt \/ SaveRecord
  \/ \E m \in DOMAIN discord : DeleteMessage(m)
  \/ RestartProcess

LiveStatusSpec == LiveStatusInit /\ [][LiveStatusNext]_liveStatusVars

---------------------------------------------------------------------------
\* "Edit the same message in place rather than spamming the channel with fresh
\* posts" (status_state.rs), and what it shows keeps up with the state: there is
\* one live status message but for those a stop between the post and the file,
\* or a lost answer, made the bot forget; and while the updater holds its
\* fingerprint for the current one, the message it last pushed without a failure
\* shows every cell that events fill in and every polled cell the fingerprint has.
OneFreshStatus ==
  /\ DOMAIN discord \ orphans \subseteq {record} \cup (IF at = "saving" THEN {posted} ELSE {})
  /\ at = "polling" /\ UpToDate /\ ~missed =>
       /\ record \in DOMAIN discord
       /\ \A c \in StatusCells \ (PolledCells \cap Unprinted) : discord[record][c] = state[c]

\* "Edited in place when the telescope's state changes" (chat/mod.rs): once a
\* cycle has gone by in which Discord refused nothing, the message shows what
\* the fingerprint covers of the state.
EditedWhenStateChanges ==
  settled => /\ record \in DOMAIN discord
             /\ \A c \in StatusCells \ Unprinted : discord[record][c] = state[c]

===========================================================================
