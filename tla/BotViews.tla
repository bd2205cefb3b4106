-------------------------------- MODULE BotViews --------------------------------
(***************************************************************************)
(* The commands of the Discord bot that only read: status, sequence,       *)
(* target, mount, filter, focus, guider, events and last-image.  A command *)
(* asks the rig one thing after the other and replies with what it was     *)
(* told.  Between two answers the rig goes on, and its owner may withhold  *)
(* what was shared.  A plugin of an older version keeps what is withheld   *)
(* in its answers and only marks it, so that it is for the command to      *)
(* leave it out.  What a reply shows is a set of facts.                    *)
(***************************************************************************)
EXTENDS SequenceTree, EventScopes, FiniteSets

CONSTANTS
  ViewTrees,   \* the sequences the rig may load
  ViewEvents,  \* the events it may log: [kind, target, on]
  MaxChanges,  \* bound: changes at the rig
  MaxShown     \* the limit of /events

VARIABLES
  nina,      \* what the rig would answer: [tree, log, frames, redacted]
  changes,
  query,     \* the command being run
  withheld   \* history: by each switch, facts withheld ever since the command was invoked

botViewsVars == <<nina, changes, query, withheld>>

\* What each command asks for, in order.
Asks ==
  [status |-> <<"mount", "sequence", "camera", "wheel">>,
   sequence |-> <<"sequence", "camera">>,
   target |-> <<"sequence", "events">>,
   mount |-> <<"mount">>,
   filter |-> <<"wheel">>,
   focus |-> <<"autofocus">>,
   guider |-> <<"guider", "graph">>,
   events |-> <<"events">>,
   lastImage |-> <<"images", "thumbnail", "graph">>]

\* Without its first answer a command fails; /status shows what it can get.
Needs(name, step) == step = 1 /\ name # "status"

NoQuery ==
  [name |-> "none", step |-> 1, tree |-> Tree(<<>>), frame |-> 0, shown |-> {}]

Fact(of, what) == <<of, what>>

\* What an owner switches off.
Switches == {"sequence", "events", "images", "location"}

\* What gives the site away: the position and the times of the mount.
SiteFacts == {Fact("site", s) : s \in {"alt-az", "sidereal time", "time to flip"}}

BotViewsTypeOK ==
  /\ nina.tree \in ViewTrees \cup {Tree(<<>>)} /\ nina.redacted \in BOOLEAN
  /\ Range(nina.log) \subseteq ViewEvents /\ changes \in 0..MaxChanges
  /\ query.name \in DOMAIN Asks \cup {"none", "replied", "failed"}
  /\ query.frame \in 0..MaxChanges

BotViewsInit ==
  /\ nina = [tree |-> Tree(<<>>), log |-> <<>>, frames |-> <<>>, redacted |-> FALSE]
  /\ changes = 0 /\ query = NoQuery /\ withheld = [by \in Switches |-> {}]

---------------------------------------------------------------------------
\* What the replies are made of.

\* active_chat_operations
ActiveOperations(tree) == {k \in DOMAIN Operations(tree) : Operations(tree)[k].status = "active"}
CoolsOrWarms(tree) == \E k \in ActiveOperations(tree) : Operations(tree)[k].kind \in {"cool", "warm"}

\* sequence_operation_summary: all that the node has to say.
OperationFacts(tree) == {Fact("node", Operations(tree)[k].name) : k \in ActiveOperations(tree)}

\* Of the containers /status says how many there are, and /sequence their names.
SequenceFacts(tree, name) ==
  {Fact("target", t) : t \in {CurrentTarget(tree)} \ {NoTarget}} \cup OperationFacts(tree)
    \cup (IF name = "status" THEN {}
          ELSE {Fact("node", NodeAt(tree, k).name) : k \in Containers(tree)})
    \cup (IF name = "sequence" /\ ShowsFlip(tree) THEN {Fact("flip", "time")} ELSE {})

\* Mutant: an event that is not shared is left out, and nothing else is.
SharedOnes(log) == {i \in DOMAIN log : log[i].on}

\* chat_enabled_events, by their places in the log: an event that is not shared
\* drops what is kept of its scope so far.
ChatEnabledEvents(log) ==
  LET visible[i \in 0..Len(log)] ==
        IF i = 0 THEN {}
        ELSE IF log[i].on THEN visible[i - 1] \cup {i}
        ELSE {k \in visible[i - 1] : Scope(log[k].kind) # Scope(log[i].kind)}
  IN  visible[Len(log)]

\* latest_target_event
TargetStarts(log) ==
  {i \in ChatEnabledEvents(log) :
     log[i].kind \in {"TS-TARGETSTART", "TS-NEWTARGETSTART"} /\ log[i].target # NoTarget}
LatestTarget(log) == {i \in TargetStarts(log) : \A j \in TargetStarts(log) : j <= i}

\* A target that the sequence withholds is not replaced by the log's.
HistoryAllowed(tree) == Projection(tree).on

TargetFacts(tree, log) ==
  IF HistoryAllowed(tree) /\ TargetStarts(log) # {}
  THEN {Fact("target", log[i].target) : i \in LatestTarget(log)}
  ELSE {Fact("target", t) : t \in {CurrentTarget(tree)} \ {NoTarget}}

\* The last of them, as many as /events shows.
EventFacts(log) ==
  LET shared == ChatEnabledEvents(log) IN
  {Fact("event", i) : i \in {i \in shared : Cardinality({j \in shared : j >= i}) <= MaxShown}}

\* get_alt_az, get_time_to_meridian_flip_string, location_redacted
MountFacts(redacted, name) ==
  CASE redacted -> {}
    [] ~redacted /\ name = "mount" -> SiteFacts
    [] OTHER -> {Fact("site", "alt-az")}

\* An image that is not shared withholds those before it.
HasImage(frames) == frames # <<>> /\ Last(frames)

---------------------------------------------------------------------------
\* What the owner withholds at this moment, whatever commands make of it.

NamesOf(tree, keys) == {NodeAt(tree, k).name : k \in keys}
TreeNames == UNION {NamesOf(tree, KeysOf(tree)) : tree \in ViewTrees}
EventTargets == {e.target : e \in ViewEvents} \ {NoTarget}

\* Logged before its scope was switched off.
SwitchedOff(events, i) ==
  \E j \in i..Len(events) : ~events[j].on /\ Scope(events[j].kind) = Scope(events[i].kind)

\* Nodes are known by their names: one that is shared names them all.
NodesWithheld(tree) ==
  {Fact("node", name) : name \in NamesOf(tree, SuppressedKeys(tree))
                                   \ NamesOf(tree, KeysOf(tree) \ SuppressedKeys(tree))}
    \cup (IF tree.triggers # <<>> /\ ~ShowsFlip(tree) THEN {Fact("flip", "time")} ELSE {})

\* A target that the sequence withholds.
TargetsWithheld(tree) ==
  {Fact("target", t) : t \in IF Projection(tree).on THEN {} ELSE EventTargets \cup TreeNames}

\* A target that only revoked events name.
TargetsRevoked(tree, events) ==
  {Fact("target", t) : t \in
     {t \in EventTargets \ {CurrentTarget(tree)} :
        LET naming == {i \in DOMAIN events : events[i].target = t}
        IN  naming # {} /\ \A i \in naming : SwitchedOff(events, i)}}

\* By the switch that withholds it.
WithheldNow(rig) ==
  [sequence |-> NodesWithheld(rig.tree) \cup TargetsWithheld(rig.tree),
   events |-> TargetsRevoked(rig.tree, rig.log)
                \cup {Fact("event", i) : i \in {i \in DOMAIN rig.log : SwitchedOff(rig.log, i)}},
   images |-> {Fact("frame", i) : i \in {i \in DOMAIN rig.frames :
                 \E j \in i..Len(rig.frames) : ~rig.frames[j]}},
   location |-> IF rig.redacted THEN SiteFacts ELSE {}]

\* The rig goes on: `withheld` keeps what is still withheld.
Becomes(rig) ==
  /\ changes < MaxChanges /\ changes' = changes + 1
  /\ nina' = rig
  /\ withheld' = [by \in Switches |-> withheld[by] \cap WithheldNow(rig)[by]]
  /\ UNCHANGED query

LoadSequence == \E t \in ViewTrees \ {nina.tree} : Becomes([nina EXCEPT !.tree = t])
RecordEvent == \E e \in ViewEvents : Becomes([nina EXCEPT !.log = Append(@, e)])
TakeFrame == \E on \in BOOLEAN : Becomes([nina EXCEPT !.frames = Append(@, on)])
RedactLocation == Becomes([nina EXCEPT !.redacted = ~@])

---------------------------------------------------------------------------
\* A command.

\* resolve_or_reply, for a telescope that is connected.
InvokeView(name) ==
  /\ query.name = "none" /\ query' = [NoQuery EXCEPT !.name = name]
  /\ withheld' = WithheldNow(nina)
  /\ UNCHANGED <<nina, changes>>

Asking(q) ==
  /\ query.name \in DOMAIN Asks /\ query.step <= Len(Asks[query.name])
  /\ Asks[query.name][query.step] = q

Told(facts) == query' = [query EXCEPT !.step = @ + 1, !.shown = @ \cup facts]

HearSequence ==
  /\ Asking("sequence")
  /\ query' = [query EXCEPT !.step = @ + 1, !.tree = nina.tree,
                            !.shown = IF query.name = "target" THEN @
                                      ELSE @ \cup SequenceFacts(nina.tree, query.name)]

HearMount == Asking("mount") /\ Told(MountFacts(nina.redacted, query.name))
HearEvents ==
  Asking("events") /\ Told(IF query.name = "target" THEN TargetFacts(query.tree, nina.log)
                           ELSE EventFacts(nina.log))

\* Asked for when a cooling or a warming is shown, and when the plugin has it.
HearCamera == Asking("camera") /\ CoolsOrWarms(query.tree) /\ Told({})
SkipCamera == Asking("camera") /\ ~CoolsOrWarms(query.tree) /\ Told({})
HearGraph == Asking("graph") /\ Told({})

\* A report that is not ready is asked for again; nothing of it is withheld.
HearEquipment == (Asking("wheel") \/ Asking("autofocus") \/ Asking("guider")) /\ Told({})

HearImages ==
  /\ Asking("images")
  /\ query' = IF HasImage(nina.frames)
              THEN [query EXCEPT !.step = @ + 1, !.frame = Len(nina.frames),
                                 !.shown = @ \cup {Fact("frame", Len(nina.frames))}]
              ELSE [query EXCEPT !.name = "replied"]

\* get_thumbnail, by the index in the history that was read.
HearThumbnail == Asking("thumbnail") /\ Told({Fact("frame", query.frame)})

\* No answer, or none that can be read.
HearNothing ==
  /\ \E q \in {"sequence", "mount", "events", "camera", "graph", "wheel", "autofocus", "guider",
               "images", "thumbnail"} : Asking(q)
  /\ query' = IF Needs(query.name, query.step) THEN [query EXCEPT !.name = "failed", !.shown = {}]
              ELSE [query EXCEPT !.step = @ + 1,
                                 !.shown = IF Asking("events")
                                           THEN TargetFacts(query.tree, <<>>) ELSE @]

Reply ==
  /\ query.name \in DOMAIN Asks /\ query.step > Len(Asks[query.name])
  /\ query' = [query EXCEPT !.name = "replied"]

RigMoves == LoadSequence \/ RecordEvent \/ TakeFrame \/ RedactLocation

CommandMoves ==
  \/ HearSequence \/ HearMount \/ HearEvents
  \/ HearCamera \/ SkipCamera \/ HearGraph \/ HearEquipment
  \/ HearImages \/ HearThumbnail
  \/ HearNothing \/ Reply

BotViewsNext ==
  \/ RigMoves
  \/ \E name \in DOMAIN Asks : InvokeView(name)
  \/ CommandMoves /\ UNCHANGED <<nina, changes, withheld>>

BotViewsSpec == BotViewsInit /\ [][BotViewsNext]_botViewsVars

---------------------------------------------------------------------------
\* "So commands cannot walk backwards to data shared before that switch was
\* disabled" (discord_bot.rs): a reply shows nothing that one of the owner's
\* switches had withheld when the command was invoked and has withheld ever
\* since, whichever answers came, in whatever state of the rig each was given.
NothingWithheldIsShown == \A by \in Switches : query.shown \cap withheld[by] = {}

=============================================================================
