------------------------------- MODULE Presence -------------------------------
(***************************************************************************)
(* What the channels of one telescope hear of its connection: every pass   *)
(* of the updater manager's loop compares what it observes with what chat  *)
(* was told last (UpdaterManager::presence_events), and announces the      *)
(* difference.  The passes are seconds apart, so a rig may come and go     *)
(* between two of them; and the hub may restart, which forgets what it     *)
(* told.  Every telescope has an entry of its own: one stands for all.     *)
(***************************************************************************)
EXTENDS Naturals

CONSTANTS Grace,       \* PRESENCE_OFFLINE_GRACE, in passes of the clock
          MaxClock     \* bound: how long a behaviour lasts

ASSUME PresenceAssumption == Grace \in Nat \ {0} /\ MaxClock \in Nat

VARIABLES
  clock,
  rigUp,       \* a connection of the telescope is in the table
  audience,    \* the telescope exists and has destinations
  presence,    \* its entry, or Unseen
  news,        \* what the last step told the channels
  seenUp,      \* history: when this process last observed the rig, or Never
  told         \* history: an outage was announced since then

presenceVars == <<clock, rigUp, audience, presence, news, seenUp, told>>

Unseen == [announced |-> "nothing", current |-> FALSE, since |-> MaxClock + 1]
Never == MaxClock + 1

PresenceTypeOK ==
  /\ clock \in 0..MaxClock
  /\ rigUp \in BOOLEAN /\ audience \in BOOLEAN /\ told \in BOOLEAN
  /\ presence \in [announced : {"nothing", "online", "offline"}, current : BOOLEAN,
                   since : 0..Never]
  /\ news \in {"none", "online", "offline"} /\ seenUp \in 0..Never

PresenceInit ==
  /\ clock = 0 /\ rigUp = FALSE /\ audience = TRUE
  /\ presence = Unseen /\ news = "none" /\ seenUp = Never /\ told = FALSE

---------------------------------------------------------------------------
\* presence_events.

\* Mutant of Observed: the grace keeps running across a reconnect.
ObservedSinceEver ==
  IF presence = Unseen THEN [announced |-> "nothing", current |-> rigUp, since |-> clock]
  ELSE [presence EXCEPT !.current = rigUp]

Observed ==
  IF presence = Unseen THEN [announced |-> "nothing", current |-> rigUp, since |-> clock]
  ELSE IF presence.current = rigUp THEN presence
  ELSE [presence EXCEPT !.current = rigUp, !.since = clock]

DarkForGrace(e) == ~e.current /\ clock - e.since >= Grace

Adopts(e) == e.announced = "nothing" /\ (e.current \/ DarkForGrace(e))
LosesRig(e) == e.announced = "online" /\ DarkForGrace(e)
FindsRig(e) == e.announced = "offline" /\ e.current

Announced(e) ==
  IF Adopts(e) \/ LosesRig(e) \/ FindsRig(e)
  THEN [e EXCEPT !.announced = IF e.current THEN "online" ELSE "offline"]
  ELSE e

\* Adoption is silent, and announce skips a telescope without destinations.
PresenceNews(e) ==
  CASE audience /\ LosesRig(e) -> "offline"
    [] audience /\ FindsRig(e) -> "online"
    [] OTHER -> "none"

\* Only telescopes that are connected or have an entry are looked at.
Pass ==
  /\ rigUp \/ presence # Unseen
  /\ presence' = Announced(Observed)
  /\ news' = PresenceNews(Observed)
  /\ seenUp' = IF rigUp THEN clock ELSE seenUp
  /\ told' = (~rigUp /\ (told \/ news' = "offline"))
  /\ UNCHANGED <<clock, rigUp, audience>>

---------------------------------------------------------------------------
\* Around it: time, the rig, the destinations, the hub.

Elapse ==
  /\ clock < MaxClock /\ clock' = clock + 1 /\ news' = "none"
  /\ UNCHANGED <<rigUp, audience, presence, seenUp, told>>

RigComesOrGoes ==
  /\ rigUp' = ~rigUp /\ news' = "none"
  /\ UNCHANGED <<clock, audience, presence, seenUp, told>>

AudienceChanges ==
  /\ audience' = ~audience /\ news' = "none"
  /\ UNCHANGED <<clock, rigUp, presence, seenUp, told>>

HubRestarts ==
  /\ rigUp' = FALSE /\ presence' = Unseen /\ news' = "none"
  /\ seenUp' = Never /\ told' = FALSE
  /\ UNCHANGED <<clock, audience>>

PresenceNext == Pass \/ Elapse \/ RigComesOrGoes \/ AudienceChanges \/ HubRestarts

PresenceSpec == PresenceInit /\ [][PresenceNext]_presenceVars

---------------------------------------------------------------------------
\* The channels hear of an outage, or of its end, only when the rig was not
\* observed for the whole grace - however it flapped between two passes and
\* whenever the hub restarted - and of each outage at most once
\* (presence_events).
AnnouncementsAreEarned ==
  [][/\ news' # "none" => seenUp # Never /\ clock - seenUp >= Grace
     /\ news' = "offline" => ~told]_presenceVars

===========================================================================
