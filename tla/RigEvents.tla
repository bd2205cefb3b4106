------------------------------ MODULE RigEvents ------------------------------
(***************************************************************************)
(* The event half of ChatUpdater: how one updater turns the event history  *)
(* of a rig into chat posts and into the status it shows.  The rig keeps a *)
(* bounded history and answers each read with what it has logged since the *)
(* last answer, or with all of it again after a reconnect.  One read of    *)
(* the updater (poll_events, or a baseline) is one step: the updater is a  *)
(* single task and nothing else touches its state while it handles a       *)
(* response.                                                               *)
(* An event is a record; two events with equal fields have the same dedup  *)
(* key.  Times are small numbers, 0 standing for one that does not parse.  *)
(* What a status cell shows is abstracted to the event it came from.       *)
(***************************************************************************)
EXTENDS Naturals, Sequences, SequencesExt, EventScopes

CONSTANTS
  RigMenus,        \* what rigs log: sets of events [kind, time, detail, on]
  MaxLog,          \* bound on the events logged in a behaviour
  EventRetention,  \* how many of them the rig's history keeps
  SeenCapacity,    \* SEEN_SET_CAPACITY
  Nothing          \* an empty status cell

\* The code remembers 20000 keys (SEEN_SET_CAPACITY), more than a rig's history
\* keeps; an event has a name, a time, details and says if it is shared.
ASSUME RigEventsAssumption ==
  /\ MaxLog \in Nat /\ EventRetention \in Nat
  /\ SeenCapacity \in Nat \ {0} /\ EventRetention <= SeenCapacity
  /\ \A m \in RigMenus :
       /\ m \subseteq [kind : STRING, time : Nat, detail : STRING, on : BOOLEAN]
       /\ Nothing \notin m

VARIABLES
  menu,       \* the events this rig can log
  log,        \* every event the rig has logged
  answered,   \* how many of them it has already answered with
  baselined,  \* event_baseline_complete
  updater,    \* UpdaterState, the part that events reach
  announced,  \* history: events announced in chat
  given       \* history: events this updater has been given

rigEventsVars == <<menu, log, answered, baselined, updater, announced, given>>

\* The key a disabled event is remembered by; nothing it says is kept.
Tombstone(e) == <<e.time, Scope(e.kind)>>

DomeCells == {"shutter", "azimuth", "parked", "homed"}
FlatCells == {"cover", "light", "brightness"}

Cells ==
  {"target", "wait", "filter", "focuser", "mount", "center", "guider", "startedAt", "running",
   "failure", "outcome", "safety", "domeConnected", "flatConnected", "weatherConnected",
   "switchConnected", "conditions", "highWind"} \cup DomeCells \cup FlatCells

\* The cells that an event of kind k fills.
Fills(k) ==
  CASE k \in {"MOUNT-PARKED", "MOUNT-UNPARKED", "MOUNT-HOMED", "MOUNT-SLEWED"} -> {"mount"}
    [] k = "MOUNT-CENTER" -> {"mount", "center"}
    [] k \in {"GUIDER-START", "GUIDER-STOP"} -> {"guider"}
    [] k = "SEQUENCE-STARTING" -> {"running", "startedAt"}
    [] k = "SEQUENCE-FINISHED" -> {"outcome"}
    [] k = "SEQUENCE-ENTITY-FAILED" -> {"failure"}
    [] k \in ScopeKinds.Safety -> {"safety"}
    [] k \in {"DOME-CONNECTED", "DOME-DISCONNECTED"} -> {"domeConnected"}
    [] k \in {"DOME-SHUTTER-OPENED", "DOME-SHUTTER-CLOSED"} -> {"shutter"}
    [] k \in {"DOME-HOMED", "DOME-PARKED"} -> {"homed", "parked"}
    [] k = "DOME-SLEWED" -> {"azimuth", "homed", "parked"}
    [] k \in {"FLAT-CONNECTED", "FLAT-DISCONNECTED"} -> {"flatConnected"}
    [] k \in {"FLAT-COVER-OPENED", "FLAT-COVER-CLOSED"} -> {"cover"}
    [] k = "FLAT-LIGHT-TOGGLED" -> {"light"}
    [] k = "FLAT-BRIGHTNESS-CHANGED" -> {"brightness"}
    [] k \in {"WEATHER-CONNECTED", "WEATHER-DISCONNECTED"} -> {"weatherConnected"}
    [] k = "WEATHER-CHANGED" -> {"conditions"}
    [] k = "WEATHER-HIGH-WIND" -> {"highWind"}
    [] k \in {"SWITCH-CONNECTED", "SWITCH-DISCONNECTED"} -> {"switchConnected"}
    [] k = "FOCUSER-MOVED" -> {"focuser"}
    [] OTHER -> {}

\* The cells that an event of kind k empties.
Empties(k) ==
  CASE k = "SEQUENCE-STARTING" -> {"failure", "outcome"}
    [] k = "SEQUENCE-FINISHED" -> {"running"}
    [] k \in {"DOME-CONNECTED", "DOME-DISCONNECTED"} -> DomeCells
    [] k \in {"DOME-HOMED", "DOME-PARKED", "DOME-SYNCED"} -> {"azimuth"}
    [] k \in {"FLAT-CONNECTED", "FLAT-DISCONNECTED"} -> FlatCells
    [] k \in {"WEATHER-CONNECTED", "WEATHER-DISCONNECTED"} -> {"conditions"}
    [] k \in {"FOCUSER-CONNECTED", "FOCUSER-DISCONNECTED"} -> {"focuser"}
    [] OTHER -> {}

\* Mutant: a Sequence tombstone forgets the failure text.
RevokesNoFailure(s) ==
  CASE s = "TargetScheduler" -> {"target", "wait"}
    [] s = "Sequence" -> {"startedAt", "running", "outcome"}
    [] s = "Safety" -> {"safety"}
    [] OTHER -> Cells

\* The cells a disabled event of scope s takes back.
Revokes(s) ==
  CASE s = "TargetScheduler" -> {"target", "wait"}
    [] s = "FilterFocuserRotator" -> {"filter"}
    [] s = "FocuserMotion" -> {"focuser"}
    [] s = "Mount" -> {"mount", "center"}
    [] s = "Guiding" -> {"guider"}
    [] s = "Sequence" -> {"startedAt", "running", "failure", "outcome"}
    [] s = "Safety" -> {"safety"}
    [] s = "WeatherChanges" -> {"conditions"}
    [] s = "HighWindAlerts" -> {"highWind"}
    [] s = "Observatory" -> DomeCells \cup FlatCells
    [] s = "EquipmentConnections" ->
         {"domeConnected", "flatConnected", "weatherConnected", "switchConnected"}
    [] OTHER -> {}

NewUpdater ==
  [status |-> [c \in Cells |-> Nothing], focuserAt |-> 0, waitAt |-> 0,
   seen |-> <<>>, tombstones |-> <<>>]

RigEventsTypeOK ==
  /\ menu \in RigMenus
  /\ log \in Seq(menu) /\ Len(log) <= MaxLog /\ answered \in 0..Len(log)
  /\ baselined \in BOOLEAN
  /\ updater.status \in [Cells -> Range(log) \cup {Nothing} \cup
                           [kind : {"sequence tree"}, detail : {"a", "b"}]]
  /\ Range(updater.seen) \subseteq given /\ Len(updater.seen) <= SeenCapacity
  /\ Range(updater.tombstones) \subseteq {Tombstone(e) : e \in given}
  /\ given \cup Range(announced) \subseteq Range(log)

RigEventsInit ==
  /\ menu \in RigMenus
  /\ log = <<>> /\ answered = 0
  /\ baselined = FALSE
  /\ updater = NewUpdater
  /\ announced = <<>> /\ given = {}

---------------------------------------------------------------------------
\* has_usable_state_event_details: sensor-empty or malformed details.
Usable(e) ==
  e.kind \in {"FOCUSER-MOVED", "WEATHER-CHANGED", "WEATHER-HIGH-WIND"} => e.detail # "empty"

\* A filter change to the filter it was, both sides known.
Redundant(e) == e.kind = "FILTERWHEEL-CHANGED" /\ e.detail = "same"

\* Mutant: the newest key is forgotten instead of the one seen longest ago.
TouchForgetsNewest(seen, e) ==
  LET order == Append(RemoveFirst(seen, e), e)
  IN  IF Len(order) > SeenCapacity THEN Front(order) ELSE order

\* BoundedSeenSet: the keys in the order they were last seen.
Touch(seen, e) ==
  LET order == Append(RemoveFirst(seen, e), e)
  IN  IF Len(order) > SeenCapacity THEN Tail(order) ELSE order

Put(u, cells, value) ==
  [u EXCEPT !.status = [c \in Cells |-> IF c \in cells THEN value ELSE @[c]]]

\* accept_scheduler_transition: delayed history loses to what is newer.
AcceptsTransition(u, time) == u.waitAt = 0 \/ time >= u.waitAt

Later(a, b) == IF a > b THEN a ELSE b

RecordWait(u, e) ==
  Put([u EXCEPT !.waitAt = Later(@, e.time)], {"wait"},
      IF e.detail = "empty" THEN Nothing ELSE e)

ClearWaitsAt(u, time) ==
  IF time = 0 THEN Put(u, {"wait"}, Nothing)
  ELSE IF AcceptsTransition(u, time) THEN Put([u EXCEPT !.waitAt = time], {"wait"}, Nothing)
  ELSE u

EndsWait(k) ==
  k \in {"SEQUENCE-STARTING", "SEQUENCE-FINISHED", "TS-TARGETSTART", "TS-NEWTARGETSTART"}

IsFocuser(k) == k \in {"FOCUSER-CONNECTED", "FOCUSER-DISCONNECTED", "FOCUSER-MOVED"}

\* apply_event_state returns false and changes nothing.
Refuses(u, e) ==
  \/ ~Usable(e)
  \/ e.kind = "TS-WAITSTART" /\ ~AcceptsTransition(u, e.time)
  \/ IsFocuser(e.kind) /\ e.time < u.focuserAt

\* A connection epoch keeps only a high-wind alert that has not recovered.
KeepsAlert(u) == u.status["highWind"] # Nothing /\ u.status["highWind"].detail = "a"

Emptied(u, e) ==
  Empties(e.kind)
    \cup (IF e.kind \in {"WEATHER-CONNECTED", "WEATHER-DISCONNECTED"} /\ ~KeepsAlert(u)
          THEN {"highWind"} ELSE {})
    \cup (IF e.kind = "SEQUENCE-FINISHED" /\ e.detail = "empty" THEN {"outcome"} ELSE {})

\* A finished sequence that had failures keeps a failure it already knows.
Filled(u, e) ==
  (IF e.kind = "SEQUENCE-FINISHED" /\ e.detail = "a" /\ u.status["failure"] = Nothing
   THEN {"failure"} ELSE {})
  \cup {c \in Fills(e.kind) : ~(c = "outcome" /\ e.detail = "empty")}

ApplyEvent(u, e) ==
  LET base == Put(Put(u, Emptied(u, e), Nothing), Filled(u, e), e)
  IN  IF Refuses(u, e) THEN u
      ELSE IF e.kind = "TS-WAITSTART" THEN RecordWait(base, e)
      ELSE IF EndsWait(e.kind) THEN ClearWaitsAt(base, e.time)
      ELSE IF IsFocuser(e.kind) THEN [base EXCEPT !.focuserAt = e.time]
      ELSE base

\* Takes back what events of the disabled event's scope have filled; the
\* watermarks keep history of before it from coming back late.
Revoke(u, e) ==
  LET s == Scope(e.kind)
      gone == Put(u, Revokes(s), Nothing)
  IN  IF s = "TargetScheduler" THEN [gone EXCEPT !.waitAt = Later(@, e.time)]
      ELSE IF s = "FocuserMotion" THEN [gone EXCEPT !.focuserAt = e.time]
      ELSE gone

\* The event is followed, in the same response, by a disabled one of its scope.
BeforeBoundary(response, i) ==
  \E j \in (i + 1)..Len(response) :
    ~response[j].on /\ Scope(response[j].kind) = Scope(response[i].kind)

---------------------------------------------------------------------------
\* Live events.

NamesTarget(e) == e.kind \in {"TS-TARGETSTART", "TS-NEWTARGETSTART"} /\ e.detail \in {"a", "b"}

\* handle_ts_targetstart and handle_filterwheel_changed, after ApplyEvent.
Remember(u, e) ==
  IF NamesTarget(e) THEN Put(u, {"target"}, e)
  ELSE IF e.kind = "FILTERWHEEL-CHANGED" /\ e.detail # "empty" THEN Put(u, {"filter"}, e)
  ELSE u

SameTarget(u, e) == u.status["target"] # Nothing /\ u.status["target"].detail = e.detail

\* Is the event posted?  A refreshed high-wind threshold is not a second
\* alert, and a target that is already current is not announced again.
Announces(u, e) ==
  /\ ~Refuses(u, e)
  /\ e.kind = "WEATHER-HIGH-WIND" => ~(e.detail = "a" /\ KeepsAlert(u))
  /\ e.kind \in {"TS-TARGETSTART", "TS-NEWTARGETSTART"} => NamesTarget(e) /\ ~SameTarget(u, e)
  /\ e.kind = "FILTERWHEEL-CHANGED" =>
       ~(e.detail # "empty" /\ u.status["filter"] # Nothing
           /\ u.status["filter"].detail = e.detail)

Diagnostic(e) == e.kind = "SEQUENCE-ENTITY-FAILED"

\* One event of process_live_events; dropped are those the rate limiter refuses.
LiveEvent(p, response, i, dropped) ==
  LET e == response[i]
      u == p.updater
      seen == [u EXCEPT !.seen = Touch(@, e)]
  IN  IF e.on /\ BeforeBoundary(response, i) THEN p
      ELSE IF ~e.on
           THEN [p EXCEPT !.updater =
                   LET noted == [u EXCEPT !.tombstones = Touch(@, Tombstone(e))]
                   IN  IF Contains(u.tombstones, Tombstone(e)) THEN noted ELSE Revoke(noted, e)]
      ELSE IF ~Usable(e) \/ Redundant(e) THEN p
      ELSE IF Contains(u.seen, e) THEN [p EXCEPT !.updater = seen]
      ELSE IF e \in dropped THEN [p EXCEPT !.updater = ApplyEvent(seen, e)]
      ELSE [updater |-> IF Refuses(u, e) THEN seen ELSE Remember(ApplyEvent(seen, e), e),
            announced |-> IF Announces(u, e) THEN Append(p.announced, e) ELSE p.announced]

Live(p, response, dropped) ==
  LET after[i \in 0..Len(response)] ==
        IF i = 0 THEN p ELSE LiveEvent(after[i - 1], response, i, dropped)
  IN  after[Len(response)]

---------------------------------------------------------------------------
\* The first response is the baseline: nothing is announced, every usable
\* record is remembered as seen, and the newest target start is current.

NewerTarget(e, latest) ==
  latest = Nothing \/ e.time > latest.time \/ (e.time = 0 /\ latest.time = 0)

BaselineEvent(p, response, i) ==
  LET e == response[i]
      u == p.updater
      known == IF e.kind = "FILTERWHEEL-CHANGED" /\ e.detail # "empty"
               THEN Put(u, {"filter"}, e) ELSE u
  IN  IF e.on /\ BeforeBoundary(response, i) THEN p
      ELSE IF ~e.on
           THEN [updater |-> Revoke([u EXCEPT !.tombstones = Touch(@, Tombstone(e))], e),
                 latest |-> IF Scope(e.kind) = "TargetScheduler" THEN Nothing ELSE p.latest]
      ELSE IF Redundant(e) THEN p
      ELSE [updater |-> [ApplyEvent(known, e) EXCEPT !.seen = Touch(@, e)],
            latest |-> IF NamesTarget(e) /\ NewerTarget(e, p.latest) THEN e ELSE p.latest]

Baseline(u, response) ==
  LET after[i \in 0..Len(response)] ==
        IF i = 0 THEN [updater |-> u, latest |-> Nothing]
        ELSE BaselineEvent(after[i - 1], response, i)
      p == after[Len(response)]
  IN  IF p.latest = Nothing THEN p.updater ELSE Put(p.updater, {"target"}, p.latest)

---------------------------------------------------------------------------
\* The rig.

LogEvent(e) ==
  /\ Len(log) < MaxLog /\ ~Contains(log, e)
  /\ log' = Append(log, e)
  /\ UNCHANGED <<menu, answered, baselined, updater, announced, given>>

\* A reconnect, or the answer to an earlier read was lost: all of it again.
Replay ==
  /\ answered > 0 /\ answered' = 0
  /\ UNCHANGED <<menu, log, baselined, updater, announced, given>>

EventResponse ==
  SubSeq(log, 1 + Later(answered, IF Len(log) > EventRetention THEN Len(log) - EventRetention ELSE 0), Len(log))

---------------------------------------------------------------------------
\* The updater's task.

IsScheduled(u) ==
  u.status["target"] # Nothing /\ u.status["target"].kind \in ScopeKinds.TargetScheduler

\* expire_target_scheduler_target, with the target's end in the past or not.
ExpireTarget(u, ended) == IF ended /\ IsScheduled(u) THEN Put(u, {"target"}, Nothing) ELSE u

BaselineEvents ==
  /\ ~baselined /\ baselined' = TRUE
  /\ \E ended \in BOOLEAN : updater' = ExpireTarget(Baseline(updater, EventResponse), ended)
  /\ answered' = Len(log) /\ given' = given \cup Range(EventResponse)
  /\ UNCHANGED <<menu, log, announced>>

PollEvents ==
  /\ baselined /\ EventResponse # <<>>
  /\ \E dropped \in SUBSET {e \in Range(EventResponse) : Diagnostic(e)}, ended \in BOOLEAN :
       LET p == Live([updater |-> updater, announced |-> announced], EventResponse, dropped)
       IN  updater' = ExpireTarget(p.updater, ended) /\ announced' = p.announced
  /\ answered' = Len(log) /\ given' = given \cup Range(EventResponse)
  /\ UNCHANGED <<menu, log, baselined>>

\* reconcile_sequence_target: the target named by the sequence tree, if it
\* names one and the owner shares it.
PollSequenceTarget(name, enabled) ==
  /\ baselined
  /\ \E ended \in BOOLEAN :
       LET u == ExpireTarget(updater, ended) IN
       updater' = IF ~enabled THEN Put(u, {"target"}, Nothing)
                  ELSE IF IsScheduled(u) THEN u
                  ELSE Put(u, {"target"}, [kind |-> "sequence tree", detail |-> name])
  /\ UNCHANGED <<menu, log, answered, baselined, announced, given>>

\* The updater is rebuilt; the rig is made to replay for the next one.
RebuildUpdater ==
  /\ updater' = NewUpdater /\ baselined' = FALSE
  /\ answered' = 0 /\ given' = {}
  /\ UNCHANGED <<menu, log, announced>>

RigEventsNext ==
  \/ \E e \in menu : LogEvent(e)
  \/ Replay
  \/ BaselineEvents
  \/ PollEvents
  \/ \E name \in {"a", "b"}, enabled \in BOOLEAN : PollSequenceTarget(name, enabled)
  \/ RebuildUpdater

RigEventsSpec == RigEventsInit /\ [][RigEventsNext]_rigEventsVars

---------------------------------------------------------------------------
\* An event is announced at most once, however often the rig replays its
\* history and whichever updater reads it: the seen set is large enough for
\* everything the history still holds, and a baseline announces nothing.
AnnouncedOnce == IsInjective(announced)

Position(e) == CHOOSE i \in 1..Len(log) : log[i] = e

\* Once an updater has been given a disabled event, nothing it shows comes
\* from an event of that scope logged before it, in whatever order history
\* was read, replayed, or applied late.
RevokedStateIsGone ==
  \A c \in Cells, d \in given :
    LET e == updater.status[c] IN
    ~d.on /\ e \in Range(log) /\ Scope(e.kind) = Scope(d.kind) => Position(e) > Position(d)

===========================================================================
