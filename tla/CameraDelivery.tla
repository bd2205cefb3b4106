--------------------------- MODULE CameraDelivery ---------------------------
(***************************************************************************)
(* How the hub posts one camera's images: deliver_media with the tables    *)
(* device_channels (routes), device_events (reservations) and              *)
(* device_event_targets (receipts), the cooldown with its elision notice,  *)
(* and the interruptions an attempt survives: a timeout, a closed          *)
(* connection, a failing receipt, a crash.                                 *)
(* Two tasks deliver: the camera's WebSocket session and the HTTP upload   *)
(* of a timelapse.  The camera may offer anything at any time, retries and *)
(* reused event ids included.  An image is an event id with a payload;     *)
(* captured_at is part of the payload, which the stored hash identifies,   *)
(* and Fresh includes what a camera's clock may be ahead.  unix_now() does *)
(* not go back.                                                            *)
(* A database call is one step.  Discord's backoff, the membership checks  *)
(* and the upload's lease only refuse a route, which may always happen.    *)
(***************************************************************************)
EXTENDS Naturals, FiniteSets

CONSTANTS Events,        \* event ids the camera uses
          Payloads,      \* distinct contents
          Requested,     \* those that answer a snapshot request
          Movies,        \* those that are timelapses, sent over HTTP
          Channels,
          MaxRoutes,     \* bound: routes ever created
          Cooldown,      \* COOLDOWN
          Fresh,         \* the oldest capture that is accepted
          Lifetime,      \* Fresh and the time limit of an attempt
          Retention,     \* how long reservations are kept
          MaxTime,       \* bound: the clock
          MaxSwallowed,  \* bound: the elision counter
          None

Routes == 1..MaxRoutes
Time == 0..MaxTime
Posts == Events \X Payloads \X Routes
Tasks == {"socket", "upload"}

ASSUME DeliveryConstants ==
  /\ Requested \subseteq Payloads /\ Movies \subseteq Payloads
  /\ MaxRoutes \in Nat /\ MaxTime \in Nat /\ MaxSwallowed \in Nat
  /\ {Cooldown, Fresh, Lifetime, Retention} \subseteq Nat
  /\ Cooldown <= Retention /\ Fresh <= Lifetime /\ Lifetime <= Retention
  /\ None \notin Channels \cup Payloads \cup Events \cup Time

VARIABLES
  now,        \* unix_now()
  captured,   \* when each payload was captured
  nextRoute,  \* AUTOINCREMENT of device_channels
  routeAt,    \* the channel of each route in device_channels
  hash,       \* device_events: the payload reserved for an event id
  received,   \* its received_at
  target,     \* device_event_targets: none, pending or delivered
  event,      \* the image each task is delivering: its event id ...
  payload,    \* ... and its payload
  phase,      \* how far deliver_media is
  stage,      \* where each of its routes is
  swallowed,  \* DeviceConnections.2: images elided since the last notice
  notice,     \* a task will post the notice
  posts,      \* history: images Discord accepted, by route
  doubt,      \* history: posts whose outcome the hub did not record
  audience,   \* history: the routes that existed when an image was reserved
  admitted,   \* history: when an image was reserved
  delivered   \* history: images acknowledged as delivered

clock == <<now, captured>>
routes == <<nextRoute, routeAt>>
events == <<hash, received>>
job == <<event, payload>>
work == <<job, phase, stage>>
elision == <<swallowed, notice>>
history == <<posts, doubt, audience, admitted, delivered>>
vars == <<clock, routes, events, target, work, elision, history>>

Live == {r \in Routes : routeAt[r] # None}
Stages == {"none", "ready", "flight", "answered", "ok", "failed"}

Types ==
  /\ now \in Time /\ captured \in [Payloads -> Time \cup {None}]
  /\ nextRoute \in 1..(MaxRoutes + 1)
  /\ routeAt \in [Routes -> Channels \cup {None}]
  /\ hash \in [Events -> Payloads \cup {None}]
  /\ received \in [Events -> Time \cup {None}]
  /\ target \in [Events -> [Routes -> {"none", "pending", "delivered"}]]
  /\ event \in [Tasks -> Events \cup {None}]
  /\ payload \in [Tasks -> Payloads \cup {None}]
  /\ \A t \in Tasks : event[t] = None <=> payload[t] = None
  /\ phase \in [Tasks -> {"reserved", "listed", "counted"}]
  /\ stage \in [Tasks -> [Routes -> Stages]]
  /\ swallowed \in 0..MaxSwallowed /\ notice \in {"none", "due"}
  /\ posts \subseteq Posts /\ doubt \subseteq Posts
  /\ audience \in [Events -> [Payloads -> SUBSET Routes]]
  /\ admitted \in [Events -> [Payloads -> Time \cup {None}]]
  /\ delivered \subseteq Events \X Payloads

ForeignKeys ==
  \A e \in Events, r \in Routes :
    target[e][r] # "none" => r \in Live /\ hash[e] # None

TypeOK == Types /\ ForeignKeys

Unlisted == [r \in Routes |-> "none"]

Init ==
  /\ now = 0 /\ captured = [p \in Payloads |-> None]
  /\ nextRoute = 1 /\ routeAt = [r \in Routes |-> None]
  /\ hash = [e \in Events |-> None] /\ received = [e \in Events |-> None]
  /\ target = [e \in Events |-> [r \in Routes |-> "none"]]
  /\ event = [t \in Tasks |-> None] /\ payload = [t \in Tasks |-> None]
  /\ phase = [t \in Tasks |-> "reserved"]
  /\ stage = [t \in Tasks |-> Unlisted]
  /\ swallowed = 0 /\ notice = "none"
  /\ posts = {} /\ doubt = {} /\ delivered = {}
  /\ audience = [e \in Events |-> [p \in Payloads |-> {}]]
  /\ admitted = [e \in Events |-> [p \in Payloads |-> None]]

---------------------------------------------------------------------------
\* Time passes, the camera captures, and the owner edits the routes.

\* An attempt does not outlast its time limit: 30 seconds, 360 for a movie.
Tick ==
  /\ now < MaxTime /\ now' = now + 1
  /\ \A t \in Tasks : event[t] # None => now < captured[payload[t]] + Lifetime
  /\ UNCHANGED <<captured, routes, events, target, work, elision, history>>

Capture(p) ==
  /\ captured[p] = None /\ captured' = [captured EXCEPT ![p] = now]
  /\ UNCHANGED <<now, routes, events, target, work, elision, history>>

\* UNIQUE(device_id, channel_id), and an id that was used is not used again.
AddRoute(c) ==
  /\ nextRoute <= MaxRoutes
  /\ \A r \in Routes : routeAt[r] # c
  /\ routeAt' = [routeAt EXCEPT ![nextRoute] = c]
  /\ nextRoute' = nextRoute + 1
  /\ UNCHANGED <<clock, events, target, work, elision, history>>

\* The receipts of the route go with it (ON DELETE CASCADE).
RemoveRoute(r) ==
  /\ r \in Live
  /\ routeAt' = [routeAt EXCEPT ![r] = None]
  /\ target' = [e \in Events |-> [target[e] EXCEPT ![r] = "none"]]
  /\ UNCHANGED <<clock, nextRoute, events, work, elision, history>>

---------------------------------------------------------------------------
\* reserve_device_media, with the checks of the image before it.

Offer(t, e, p) ==
  /\ event[t] = None
  /\ (t = "upload") <=> (p \in Movies)
  /\ captured[p] # None /\ now - captured[p] <= Fresh

\* Reservations that the pruning deletes.
Pruned(e) == received[e] # None /\ received[e] + Retention < now

\* Mutant: the window is one unit short.
WithinShorterCooldown ==
  \E e \in Events : ~Pruned(e) /\ received[e] # None /\ now + 1 < received[e] + Cooldown

\* MAX(received_at) is read after the pruning in the same transaction.
WithinCooldown ==
  \E e \in Events : ~Pruned(e) /\ received[e] # None /\ now < received[e] + Cooldown

\* The transaction sees no row for the id it has just pruned.
Known(e) == hash[e] # None /\ ~Pruned(e)

\* Mutant: only the id is compared, not the hash.
SameId(e, p) == Known(e)

SamePayload(e, p) == Known(e) /\ hash[e] = p

\* Mutant: delivered_at is not looked at.
AnyTarget(e, r) == r \in Live /\ target[e][r] # "none"

\* pending_device_targets: JOIN with device_channels, delivered_at IS NULL.
PendingTarget(e, r) == r \in Live /\ target[e][r] = "pending"

Start(t, e, p) ==
  /\ event' = [event EXCEPT ![t] = e] /\ payload' = [payload EXCEPT ![t] = p]
  /\ UNCHANGED <<phase, stage>>

\* A retry of an event that is already reserved.
Resume(t, e, p) ==
  /\ Offer(t, e, p) /\ SamePayload(e, p)
  /\ Start(t, e, p)
  /\ UNCHANGED <<clock, routes, events, target, elision, history>>

\* event_conflict: the id was reserved for another payload.
Conflict(t, e, p) ==
  /\ Offer(t, e, p) /\ Known(e) /\ ~SamePayload(e, p)
  /\ UNCHANGED vars

\* Another camera's image is accepted: the pruning spans the whole table.
PruneElsewhere ==
  /\ hash' = [e \in Events |-> IF Pruned(e) THEN None ELSE hash[e]]
  /\ received' = [e \in Events |-> IF Pruned(e) THEN None ELSE received[e]]
  /\ target' = [e \in Events |->
       IF Pruned(e) THEN [r \in Routes |-> "none"] ELSE target[e]]
  /\ UNCHANGED <<clock, routes, work, elision, history>>

\* A new event: prune, reserve, and fix its targets, in one transaction.
Reserve(t, e, p) ==
  /\ Offer(t, e, p) /\ ~Known(e) /\ ~WithinCooldown
  /\ hash' = [f \in Events |-> IF f = e THEN p ELSE IF Pruned(f) THEN None ELSE hash[f]]
  /\ received' = [f \in Events |-> IF f = e THEN now
                                   ELSE IF Pruned(f) THEN None ELSE received[f]]
  /\ target' = [f \in Events |->
       IF f = e THEN [r \in Routes |-> IF r \in Live THEN "pending" ELSE "none"]
       ELSE IF Pruned(f) THEN [r \in Routes |-> "none"] ELSE target[f]]
  /\ Start(t, e, p)
  /\ audience' = [audience EXCEPT ![e][p] = Live]
  /\ admitted' = [admitted EXCEPT ![e][p] = now]
  /\ UNCHANGED <<clock, routes, elision, posts, doubt, delivered>>

\* Mutant: only an image after the first one of a window schedules the notice.
SwallowLate ==
  /\ swallowed < MaxSwallowed /\ swallowed' = swallowed + 1
  /\ notice' = IF swallowed = 1 THEN "due" ELSE notice

\* count_elided: the first image of a window schedules the notice.
Swallow ==
  /\ swallowed < MaxSwallowed /\ swallowed' = swallowed + 1
  /\ notice' = IF swallowed = 0 THEN "due" ELSE notice

\* Inside the cooldown the transaction is dropped, its pruning included.  A
\* movie is retried; a requested snapshot is refused; anything else is counted.
Elide(t, e, p) ==
  /\ Offer(t, e, p) /\ ~Known(e) /\ WithinCooldown
  /\ IF p \in Movies \cup Requested THEN UNCHANGED elision ELSE Swallow
  /\ UNCHANGED <<clock, routes, events, target, work, history>>

\* take_elided and the notice: one text per route, best effort.
PostNotice ==
  /\ notice = "due" /\ notice' = "none" /\ swallowed' = 0
  /\ UNCHANGED <<clock, routes, events, target, work, history>>

---------------------------------------------------------------------------
\* deliver_media after its reservation.

Busy(t) == event[t] # None
Post(t, r) == <<event[t], payload[t], r>>

\* The pending targets are read once, and delivered to concurrently.
ListTargets(t) ==
  /\ Busy(t) /\ phase[t] = "reserved"
  /\ phase' = [phase EXCEPT ![t] = "listed"]
  /\ stage' = [stage EXCEPT ![t] = [r \in Routes |->
       IF PendingTarget(event[t], r) THEN "ready" ELSE "none"]]
  /\ UNCHANGED <<clock, routes, events, target, job, elision, history>>

Advance(t, r, to) == stage' = [stage EXCEPT ![t][r] = to]

Total(e) == Cardinality({r \in Routes : target[e][r] # "none"})

\* The targets of the event are counted, delivered ones included.
CountTargets(t) ==
  /\ phase[t] = "listed" /\ Total(event[t]) > 0
  /\ phase' = [phase EXCEPT ![t] = "counted"]
  /\ UNCHANGED <<clock, routes, events, target, job, stage, elision, history>>

Clear(t) ==
  /\ event' = [event EXCEPT ![t] = None] /\ payload' = [payload EXCEPT ![t] = None]
  /\ phase' = [phase EXCEPT ![t] = "reserved"]
  /\ stage' = [stage EXCEPT ![t] = Unlisted]

\* no_destinations
NoDestinations(t) ==
  /\ phase[t] = "listed" /\ Total(event[t]) = 0
  /\ Clear(t)
  /\ UNCHANGED <<clock, routes, events, target, elision, history>>

Ready(t, r) == phase[t] = "counted" /\ stage[t][r] = "ready"

\* The backoff, a membership check or the upload's lease refuses, or the
\* movie's file cannot be opened.
Refuse(t, r) ==
  /\ Ready(t, r) /\ Advance(t, r, "failed")
  /\ UNCHANGED <<clock, routes, events, target, job, phase, elision, history>>

\* Mutant: the targets are not read again before the post.
SendUnchecked(t, r) ==
  /\ Ready(t, r) /\ Advance(t, r, "flight")
  /\ UNCHANGED <<clock, routes, events, target, job, phase, elision, history>>

\* The pending targets are read again immediately before the request is sent.
Send(t, r) ==
  /\ Ready(t, r)
  /\ Advance(t, r, IF PendingTarget(event[t], r) THEN "flight" ELSE "failed")
  /\ UNCHANGED <<clock, routes, events, target, job, phase, elision, history>>

DiscordAccepts(t, r) ==
  /\ stage[t][r] = "flight" /\ Advance(t, r, "answered")
  /\ posts' = posts \cup {Post(t, r)}
  /\ UNCHANGED <<clock, routes, events, target, job, phase, elision,
                 doubt, audience, admitted, delivered>>

DiscordRefuses(t, r) ==
  /\ stage[t][r] = "flight" /\ Advance(t, r, "failed")
  /\ UNCHANGED <<clock, routes, events, target, job, phase, elision, history>>

\* The request fails without an answer; Discord may have the post.
LoseAnswer(t, r) ==
  /\ stage[t][r] = "flight" /\ Advance(t, r, "failed")
  /\ \/ posts' = posts \cup {Post(t, r)}
     \/ UNCHANGED posts
  /\ doubt' = doubt \cup {Post(t, r)}
  /\ UNCHANGED <<clock, routes, events, target, job, phase, elision,
                 audience, admitted, delivered>>

\* device_delivered: an UPDATE that finds no row succeeds too.
Record(t, r) ==
  /\ stage[t][r] = "answered" /\ Advance(t, r, "ok")
  /\ IF target[event[t]][r] = "none" THEN UNCHANGED target
     ELSE target' = [target EXCEPT ![event[t]][r] = "delivered"]
  /\ UNCHANGED <<clock, routes, events, job, phase, elision, history>>

\* The receipt cannot be written.
RecordFails(t, r) ==
  /\ stage[t][r] = "answered" /\ Advance(t, r, "failed")
  /\ doubt' = doubt \cup {Post(t, r)}
  /\ UNCHANGED <<clock, routes, events, target, job, phase, elision,
                 posts, audience, admitted, delivered>>

\* Mutant: one delivered route is enough.
AnyDelivered(t) == \A r \in Routes : stage[t][r] \in {"none", "ok", "failed"}

\* outcomes.iter().all(|ok| *ok)
AllDelivered(t) == \A r \in Routes : stage[t][r] \in {"none", "ok"}

\* Every route has its outcome: delivered, or retry (media_rejected for a
\* movie that Discord will not take, which ends the attempt alike).
Finish(t) ==
  /\ phase[t] = "counted"
  /\ \A r \in Routes : stage[t][r] \in {"none", "ok", "failed"}
  /\ delivered' = delivered \cup {i \in {<<event[t], payload[t]>>} : AllDelivered(t)}
  /\ Clear(t)
  /\ UNCHANGED <<clock, routes, events, target, elision, posts, doubt, audience, admitted>>

\* What a task leaves behind when it is dropped half-way.
Open(t) == {r \in Routes : stage[t][r] \in {"flight", "answered"}}
InFlight(t) == {r \in Routes : stage[t][r] = "flight"}

\* The attempt times out, or its connection closes or loses its authority.
Cut(t) ==
  /\ Busy(t) /\ Clear(t)
  /\ doubt' = doubt \cup {Post(t, r) : r \in Open(t)}
  /\ \E arrived \in SUBSET InFlight(t) : posts' = posts \cup {Post(t, r) : r \in arrived}
  /\ UNCHANGED <<clock, routes, events, target, elision, audience, admitted, delivered>>

\* The process stops; the rows stay, the tasks and the counter do not.
Crash ==
  /\ event' = [t \in Tasks |-> None] /\ payload' = [t \in Tasks |-> None]
  /\ phase' = [t \in Tasks |-> "reserved"]
  /\ stage' = [t \in Tasks |-> Unlisted]
  /\ swallowed' = 0 /\ notice' = "none"
  /\ doubt' = doubt \cup UNION {{Post(t, r) : r \in Open(t)} : t \in Tasks}
  /\ \E arrived \in SUBSET UNION {{Post(t, r) : r \in InFlight(t)} : t \in Tasks} :
       posts' = posts \cup arrived
  /\ UNCHANGED <<clock, routes, events, target, audience, admitted, delivered>>

---------------------------------------------------------------------------
Accept(t, e, p) ==
  Resume(t, e, p) \/ Conflict(t, e, p) \/ Reserve(t, e, p) \/ Elide(t, e, p)

Deliver(t, r) ==
  \/ Refuse(t, r) \/ Send(t, r)
  \/ DiscordAccepts(t, r) \/ DiscordRefuses(t, r) \/ LoseAnswer(t, r)
  \/ Record(t, r) \/ RecordFails(t, r)

Next ==
  \/ Tick \/ PruneElsewhere \/ PostNotice \/ Crash
  \/ \E p \in Payloads : Capture(p)
  \/ \E c \in Channels : AddRoute(c)
  \/ \E r \in Routes : RemoveRoute(r)
  \/ \E t \in Tasks : \/ ListTargets(t) \/ CountTargets(t) \/ NoDestinations(t)
                      \/ Finish(t) \/ Cut(t)
                      \/ \E e \in Events, p \in Payloads : Accept(t, e, p)
                      \/ \E r \in Routes : Deliver(t, r)

Spec == Init /\ [][Next]_vars

---------------------------------------------------------------------------
\* Properties

\* A post of t to r begins in this step.
Begins(t, r) == stage[t][r] # "flight" /\ stage'[t][r] = "flight"

\* A post begins only to a route that is still there and that existed when
\* the image was reserved: nothing is backfilled into a channel added later,
\* removed and added again, or removed while the image was being prepared
\* (docs/DEVICE_PROTOCOL.md, "Events and receipts").
NoBackfill ==
  [][\A t \in Tasks, r \in Routes :
       Begins(t, r) => r \in Live /\ r \in audience[event[t]][payload[t]]]_vars

\* At least once, and twice only in doubt: an image that Discord already has
\* on a route is posted there again only if the hub never recorded the
\* outcome of the earlier post (a lost answer, a failing receipt, a timeout,
\* a closed connection or a crash).
RepostOnlyInDoubt ==
  [][\A t \in Tasks, r \in Routes :
       Begins(t, r) /\ Post(t, r) \in posts => Post(t, r) \in doubt]_vars

\* A receipt stands for a post of the very payload the id was reserved for.
ReceiptsAreTrue ==
  \A e \in Events, r \in Routes :
    target[e][r] = "delivered" => <<e, hash[e], r>> \in posts

\* An image acknowledged as delivered is on every route it was reserved for,
\* except the routes that were removed: the camera drops it for good.
DeliveredIsDelivered ==
  \A e \in Events, p \in Payloads : <<e, p>> \in delivered =>
    \A r \in audience[e][p] : r \in Live => <<e, p, r>> \in posts

\* Two images of the camera are never accepted within one cooldown, whatever
\* is pruned, retried, or sent over the other transport meanwhile.
OneImagePerCooldown ==
  \A e, f \in Events, p, q \in Payloads :
    /\ <<e, p>> # <<f, q>>
    /\ admitted[e][p] # None /\ admitted[f][q] # None
    /\ admitted[e][p] <= admitted[f][q]
    => admitted[e][p] + Cooldown <= admitted[f][q]

\* Swallowed images are reported: while any is counted, one task is on its
\* way to say so, and none is when there is nothing to say.
NoticeIsOwed == notice = "due" <=> swallowed > 0

=============================================================================
