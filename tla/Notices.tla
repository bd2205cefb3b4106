-------------------------------- MODULE Notices --------------------------------
(***************************************************************************)
(* What the updater's notices say: the kind, the colour and the fields     *)
(* that each event, operation, image and report is told with, and what of  *)
(* the updater's own state goes into them.  Wording and the texts a plugin *)
(* sends are left out, and with them their lengths.  An optional field is  *)
(* there or not; of all the choices the fullest and the barest are made.   *)
(* An event may also be taken in without a word, in a baseline, when the   *)
(* rate limiter drops it, or when it was elided.                           *)
(***************************************************************************)

CONSTANTS
  FailedItems,
  Unnamed,      \* a failure that only the end of the sequence tells of
  NoFailure

ASSUME NoticesAssumption == NoFailure \notin FailedItems \cup {Unnamed}

VARIABLES
  known,    \* UpdaterState: [failure, target, flip, containers]
  notice,   \* the latest notice
  failures  \* history: the failures shared since the sequence was last started

noticesVars == <<known, notice, failures>>

NoNotice == [kind |-> "none", tone |-> "gray", fields |-> {}, failure |-> NoFailure]

NoticesTypeOK ==
  /\ known \in [failure : FailedItems \cup {Unnamed, NoFailure}, target : BOOLEAN,
                flip : BOOLEAN, containers : BOOLEAN]
  /\ notice.failure \in FailedItems \cup {Unnamed, NoFailure}
  /\ failures \subseteq FailedItems \cup {Unnamed}

NoticesInit ==
  /\ known = [failure |-> NoFailure, target |-> FALSE, flip |-> FALSE, containers |-> FALSE]
  /\ notice = NoNotice /\ failures = {}

Says(kind, tone, fields) ==
  [kind |-> kind, tone |-> tone, fields |-> fields, failure |-> NoFailure]

\* A notice is sent before the next event is taken.
Sent ==
  /\ notice # NoNotice /\ notice' = NoNotice
  /\ UNCHANGED <<known, failures>>

Tells(n) ==
  /\ notice = NoNotice /\ notice' = n
  /\ UNCHANGED <<known, failures>>

\* The barest and the fullest choice of the fields that may be missing.
NoneOrAll(fields) == {{}, fields}

---------------------------------------------------------------------------
\* Fields that several notices have.

TargetField == IF known.target THEN {"Current Target"} ELSE {}
FlipField == IF known.flip THEN {"Meridian Flip In"} ELSE {}

\* add_mount_info, from a query that may fail; a redacted site has no Alt/Az.
MountInfo == {{}, {"Mount Position", "Pier Side", "Tracking"},
              {"Mount Position", "Alt/Az", "Pier Side", "Tracking"}}
MotionFields == {"Motion", "Observed interval", "End detected by", "Capture"}
TargetDetails == {"Project", "Coordinates", "Rotation", "Scheduled End"}

\* chat_fields: all readings in four groups.
Conditions == {"Wind", "Atmosphere", "Sky", "Rain"}

\* add_rotator_end_fields: an event of mechanical motion tells of the
\* mechanical angle what others tell of the logical one.
RotatorReadings ==
  {"from", "to", "position", "mechanical from", "mechanical to", "mechanical position"}
RotatorEnd(mechanical, has) ==
  LET start == ~mechanical /\ "from" \in has
      end == "position" \in has \/ (~mechanical /\ "to" \in has)
      mechStart == "mechanical from" \in has \/ (mechanical /\ "from" \in has)
      mechEnd == {"mechanical to", "mechanical position"} \cap has # {} \/ (mechanical /\ "to" \in has)
  IN  (IF start THEN {"From position"} ELSE {}) \cup (IF end THEN {"To position"} ELSE {})
        \cup (IF start /\ end THEN {"Position change"} ELSE {})
        \cup (IF mechStart THEN {"Mechanical from"} ELSE {})
        \cup (IF mechEnd THEN {"Mechanical to"} ELSE {})
        \cup (IF mechStart /\ mechEnd THEN {"Mechanical change"} ELSE {})

---------------------------------------------------------------------------
\* get_event_color, for the kinds that have a colour of their own.

EventTones ==
  [red |-> {"CAMERA-DOWNLOAD-TIMEOUT", "IMAGE-SAVE-FAILED", "ERROR-AF", "ERROR-PLATESOLVE",
            "DISCONNECTED", "OTHER-ERROR"},
   green |-> {"CONNECTED"},
   blue |-> {"ROTATOR-MOVE-STARTED", "FILTERWHEEL-CONNECTED"},
   yellow |-> {"GUIDER-STOP", "FLAT-LIGHT-TOGGLED", "TS-WAITSTART"},
   orange |-> {"SAFETY-CHANGED", "WEATHER-HIGH-WIND", "OTHER-WARNING"},
   purple |-> {"FOCUSER-MOVED", "AUTOFOCUS-STARTING", "AUTOFOCUS-POINT-ADDED"},
   cyan |-> {"ROTATOR-MOVED", "ROTATOR-MOVED-MECHANICAL", "WEATHER-CHANGED", "DOME-HOMED",
             "DOME-PARKED", "DOME-SLEWED", "DOME-SYNCED", "DOME-SHUTTER-OPENED",
             "DOME-SHUTTER-CLOSED", "FLAT-COVER-OPENED", "FLAT-COVER-CLOSED",
             "FLAT-BRIGHTNESS-CHANGED"}]
EventTone(kind) ==
  IF \E t \in DOMAIN EventTones : kind \in EventTones[t]
  THEN CHOOSE t \in DOMAIN EventTones : kind \in EventTones[t] ELSE "gray"

\* nina_level_color
LevelTone ==
  [error |-> "red", warning |-> "orange", success |-> "green", info |-> "blue",
   debug |-> "gray", other |-> "cyan"]

\* "other" stands for what the updater has no name for.
GenericKinds == (UNION {EventTones[t] : t \in DOMAIN EventTones}) \cup {"other"}

\* The fields a generic notice may have, by event: of what is read, and of
\* what moved or failed.
ReadingFields(kind) ==
  CASE kind = "TS-WAITSTART" -> {"Until", "Countdown"}
    [] kind = "AUTOFOCUS-POINT-ADDED" -> {"Position", "HFR"}
    [] kind = "WEATHER-CHANGED" -> {"Changed", "Summary"} \cup Conditions
    [] kind = "FOCUSER-MOVED" ->
         {"From position", "Position change", "To position", "Temperature", "Observation"}
    [] OTHER -> {}
MovingFields(kind) ==
  CASE kind = "ROTATOR-MOVE-STARTED" -> {"From position", "Mechanical from"} \cup MotionFields
    [] kind = "DOME-SLEWED" -> {"From azimuth", "To azimuth", "Change"}
    [] kind = "IMAGE-SAVE-FAILED" -> {"Stage", "Disk full", "Error"}
    [] kind = "FLAT-BRIGHTNESS-CHANGED" -> {"Previous", "New"}
    [] kind = "FLAT-LIGHT-TOGGLED" -> {"Light"}
    [] OTHER -> {}

---------------------------------------------------------------------------
\* send_generic_event_notification_at

\* A wait's start is the notice's own time, or a field when it does not parse.
TellEvent ==
  \E kind \in GenericKinds :
    \E fields \in NoneOrAll(ReadingFields(kind) \cup MovingFields(kind)),
       time \in IF kind = "TS-WAITSTART" THEN NoneOrAll({"Started"}) ELSE {{"Time"}} :
      Tells(Says(kind, EventTone(kind), time \cup fields))

TellFilter ==
  Tells(Says("FILTERWHEEL-CHANGED", "blue", {"Time", "Filter Change", "Previous", "New"}))

TellRotatorMove ==
  \E mechanical \in BOOLEAN, has \in SUBSET RotatorReadings, motion \in NoneOrAll(MotionFields) :
    Tells(Says("ROTATOR-MOVED", "cyan", {"Time"} \cup RotatorEnd(mechanical, has) \cup motion))

TellSafety ==
  \E safe \in BOOLEAN :
    Tells(Says("SAFETY-CHANGED", IF safe THEN "green" ELSE "red", {"Time", "State"}))

TellWind ==
  \E high \in BOOLEAN, readings \in NoneOrAll(Conditions \cup {"Configured threshold"}) :
    Tells(Says("WEATHER-HIGH-WIND", IF high THEN "red" ELSE "green",
               {"Time", "State"} \cup readings))

TellCommandFailed ==
  Tells(Says("CHATSTRONOMY-COMMAND-FAILED", "red", {"Time", "Command", "Error"}))

TellNotification ==
  \E level \in DOMAIN LevelTone :
    Tells(Says("NINA-NOTIFICATION", LevelTone[level], {"Time", "Level", "Message"}))

TellLog ==
  \E level \in DOMAIN LevelTone :
    Tells(Says("NINA-LOG", LevelTone[level], {"Time", "Level", "Source", "Message"}))

---------------------------------------------------------------------------
\* The other events.

MountTones ==
  [BEFORE_FLIP |-> "orange", AFTER_FLIP |-> "green", PARKED |-> "yellow", UNPARKED |-> "yellow",
   HOMED |-> "cyan", CENTER |-> "cyan", SLEW_STARTED |-> "blue", SLEWED |-> "cyan"]

\* A slew tells where the mount was then, and asks for nothing now.
IsSlew(kind) == kind \in {"SLEW_STARTED", "SLEWED"}

TellMount ==
  \E kind \in DOMAIN MountTones :
    \E info \in IF IsSlew(kind) THEN {{}} ELSE MountInfo,
       slew \in IF IsSlew(kind)
                THEN NoneOrAll({"From position", "Requested destination", "To position"}
                                 \cup MotionFields)
                ELSE {{}} :
      Tells(Says("MOUNT", MountTones[kind],
                 {"Event", "Time"} \cup TargetField \cup slew \cup info))

TellGuider ==
  \E tone \in {"blue", "cyan", "gray"}, info \in NoneOrAll({"State", "Pixel Scale", "RMS Error"}) :
    Tells(Says("GUIDER", tone, {"Event", "Time"} \cup TargetField \cup info))

TellRotatorSynced ==
  \E info \in NoneOrAll({"Position", "Mechanical", "Sync"}) :
    Tells(Says("ROTATOR-SYNCED", "cyan", {"Event", "Time"} \cup info))

TellUserFocused ==
  \E info \in NoneOrAll({"Position", "Temperature", "Temp comp"}) :
    Tells(Says("FOCUSER-USER-FOCUSED", "purple", {"Event", "Time"} \cup info))

\* poll_sequence reads the flip and the containers before it tells of a target.
ReadSequence ==
  /\ notice = NoNotice
  /\ \E flip, containers \in BOOLEAN :
       known' = [known EXCEPT !.flip = flip, !.containers = containers]
  /\ UNCHANGED <<notice, failures>>

\* Of a target, found in the sequence or named by the scheduler.
TellTarget ==
  \E details \in NoneOrAll(TargetDetails), info \in MountInfo :
    /\ notice = NoNotice
    /\ known' = [known EXCEPT !.target = TRUE]
    /\ notice' = Says("target", IF known.target THEN "cyan" ELSE "green",
                      (IF known.target THEN {"Previous Target", "New Target"} ELSE {"Target"})
                        \cup details \cup FlipField \cup info)
    /\ UNCHANGED failures

LoseTarget ==
  /\ notice = NoNotice
  /\ known' = [known EXCEPT !.target = FALSE]
  /\ UNCHANGED <<notice, failures>>

---------------------------------------------------------------------------
\* The sequence: its start, the items that fail, and its end.

SequenceFields(fields) ==
  {"Event", "Time"} \cup fields \cup (IF known.target THEN {"Current Target", "Coordinates"} ELSE {})
    \cup (IF known.containers THEN {"Containers"} ELSE {})

\* What is known is changed whether or not the event is told.
Applied(failure, told, n) ==
  /\ notice = NoNotice
  /\ known' = [known EXCEPT !.failure = failure]
  /\ notice' = IF told THEN n ELSE NoNotice

\* Mutant: a failure of the run before is kept.
FailureKept == known.failure

FailureAtStart == NoFailure

SequenceStarts ==
  \E told \in BOOLEAN :
    /\ Applied(FailureAtStart, told,
               Says("SEQUENCE-STARTING", "cyan", SequenceFields({})))
    /\ failures' = {}

SequenceItemFails ==
  \E item \in FailedItems \cup {Unnamed}, told \in BOOLEAN :
    /\ Applied(item, told,
               Says("SEQUENCE-ENTITY-FAILED", "red",
                    SequenceFields(IF item = Unnamed THEN {} ELSE {"Item", "Type", "Error"})))
    /\ failures' = failures \cup {item}

Outcomes == {"completed", "stopped", "cancelled_or_not_started", "failed", "other", "unsaid"}

\* The colour of the end: by the outcome first, then by the failure known.
EndTone(outcome, hadFailures, failure) ==
  CASE outcome = "completed" /\ ~hadFailures -> "green"
    [] outcome = "stopped" -> "yellow"
    [] outcome = "cancelled_or_not_started" -> "gray"
    [] OTHER -> IF failure # NoFailure THEN "red" ELSE "cyan"

\* "failed" stands for completed_with_failures too.  What the rig reports need
\* not agree with what it told before: a run is called completed, with the
\* failed item beside it, if the rig says so.
SequenceEnds ==
  \E outcome \in Outcomes, hadFailures, told \in BOOLEAN :
    LET failed == hadFailures \/ outcome = "failed"
        failure == IF failed /\ known.failure = NoFailure THEN Unnamed ELSE known.failure
        tone == EndTone(outcome, hadFailures, failure)
        item == IF failure = NoFailure THEN {} ELSE {"Failed Item", "Error"}
        said == IF outcome = "unsaid" THEN {} ELSE {"Outcome", "N.I.N.A. status", "Reported failures"}
    IN  /\ outcome = "unsaid" => ~hadFailures
        /\ Applied(failure, told,
                   [Says("SEQUENCE-FINISHED", tone, SequenceFields(item \cup said))
                      EXCEPT !.failure = failure])
        /\ failures' = failures \cup (IF failed THEN {Unnamed} ELSE {})

\* A Sequence event that is not shared takes the failure back.
SequenceWithheld ==
  /\ notice = NoNotice
  /\ known' = [known EXCEPT !.failure = NoFailure, !.containers = FALSE] /\ failures' = {}
  /\ UNCHANGED notice

---------------------------------------------------------------------------
\* Operations, autofocus reports and images.

\* What is told of each kind of operation: only a solve has an output, and
\* only what has an end in sight makes progress.
OperationKinds ==
  {"cool", "warm", "wait", "astronomical", "safety", "condition", "manual", "slew", "center", "solve"}
Endings == {"finished", "ended", "failed"}
OperationUpdates(kind) ==
  {"started"} \cup Endings \cup (IF kind \in {"cool", "warm", "wait"} THEN {"progress"} ELSE {})
    \cup (IF kind \in {"center", "solve"} THEN {"output"} ELSE {})

OperationFields(kind, update) ==
  CASE kind = "cool" -> {"Target temperature", "Minimum time", "Current temperature", "Cooler power"}
    [] kind = "warm" -> {"Minimum time", "Current temperature"}
    [] kind = "wait" -> IF update \in Endings THEN {"Planned until"} ELSE {"Until", "Countdown"}
    [] kind = "astronomical" -> {"Target altitude", "Current altitude", "Expected"}
    [] kind = "safety" -> {"Safety monitor", "Check interval"}
    [] kind = "condition" -> {"Check interval"}
    [] kind = "manual" -> {}
    [] kind = "slew" -> {"Destination"}
    [] kind = "center" -> {"Target", "Target rotation"}
    [] kind = "solve" -> {"Requested position", "Requested rotation"}
SolveFields ==
  {"Plate solve", "Solved position", "Position angle", "Image scale", "Solve radius",
   "Pointing error", "Axis error", "Pixel error", "Orientation"}

UpdateTone(update, solved) ==
  CASE update = "finished" -> "green" [] update = "ended" -> "gray" [] update = "failed" -> "red"
    [] update = "output" -> IF solved THEN "cyan" ELSE "red"
    [] update \in {"started", "progress"} -> "yellow"

TellOperation ==
  \E kind \in OperationKinds, solved \in BOOLEAN :
    \E update \in OperationUpdates(kind),
       solve \in IF kind \in {"center", "solve"} THEN NoneOrAll(SolveFields) ELSE {{}} :
      \E own \in NoneOrAll(OperationFields(kind, update)) :
        Tells(Says("operation", UpdateTone(update, solved),
                   {"Operation", "Sequence item"} \cup own \cup solve
                     \cup (IF update = "progress" THEN {"Progress"} ELSE {})))

AutofocusFields ==
  {"Filter", "Mode", "Duration", "Temperature", "Focus Position", "Position Change", "Before",
   "After", "Fit", "Measurements"}
AutofocusExtras ==
  {"Accepted stars / point", "Focus precision", "LOO stability", "Reduced chi", "Detection region",
   "Acceptance", "Star detection"}

\* A report may be there and its fit not be good.
TellAutofocus ==
  \E good \in BOOLEAN, extras \in NoneOrAll(AutofocusExtras) :
    Tells(Says("autofocus", IF good THEN "green" ELSE "orange", AutofocusFields \cup extras))

\* send_autofocus_unavailable
TellAutofocusUnavailable ==
  \E fields \in NoneOrAll({"Filter", "Position", "Temperature"}) :
    Tells(Says("autofocus", "orange", {"Time", "Report"} \cup fields))

ImageTones == [LIGHT |-> "green", DARK |-> "gray", FLAT |-> "blue", BIAS |-> "purple", other |-> "cyan"]
ImageFields ==
  {"Camera", "Tracking RMS", "Filter", "Exposure", "Temperature", "Stars", "HFR", "Mean", "Median",
   "StDev"}
CaptureContext ==
  {"Focuser temperature", "Weather temperature", "Dew point", "Focuser position", "Wind"}

\* Of a flip that is near, and of what was skipped.
TellImage ==
  \E type \in DOMAIN ImageTones, skipped, near \in BOOLEAN, context \in NoneOrAll(CaptureContext) :
    Tells(Says("image", ImageTones[type],
               ImageFields \cup (IF known.target THEN {"Target"} ELSE {})
                 \cup (IF skipped THEN {"Images Since Last Post"} ELSE {})
                 \cup (IF type = "LIGHT" THEN context ELSE {})
                 \cup (IF near THEN FlipField ELSE {})))

---------------------------------------------------------------------------
NoticesNext ==
  \/ Sent
  \/ TellEvent \/ TellFilter \/ TellRotatorMove \/ TellSafety \/ TellWind
  \/ TellCommandFailed \/ TellNotification \/ TellLog
  \/ TellMount \/ TellGuider \/ TellRotatorSynced \/ TellUserFocused
  \/ ReadSequence \/ TellTarget \/ LoseTarget
  \/ SequenceStarts \/ SequenceItemFails \/ SequenceEnds \/ SequenceWithheld
  \/ TellOperation \/ TellAutofocus \/ TellAutofocusUnavailable \/ TellImage

NoticesSpec == NoticesInit /\ [][NoticesNext]_noticesVars

---------------------------------------------------------------------------
\* The end of a sequence tells of a failure exactly if one was shared since
\* that sequence was started, and of none but those: a failure of an earlier
\* run is not told again, one that was taken back is not told at all.  Where
\* the rig's own outcome does not name the end, it is red just after a failure.
EndsAreHonest ==
  notice.kind = "SEQUENCE-FINISHED" =>
    /\ IF failures = {} THEN notice.failure = NoFailure ELSE notice.failure \in failures
    /\ notice.tone \in {"red", "cyan"} => (notice.tone = "red" <=> failures # {})

=============================================================================
