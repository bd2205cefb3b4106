---------------------------- MODULE Cameras_proofs ----------------------------
(***************************************************************************)
(* Proofs about a pier camera: the images it sends and their way to the    *)
(* channels (CameraDelivery), for any events, payloads, channels and       *)
(* bounds; its sessions, their authority and the answers to its callers    *)
(* (CameraSession), and the slots of its time-lapse uploads                *)
(* (TimelapseUploads), for any numbers of sockets, calls, cameras, uploads *)
(* and slots. Each part is by itself.                                      *)
(***************************************************************************)
EXTENDS CameraDelivery, CameraSession, TimelapseUploads, FiniteSetTheorems, SequenceTheorems, TLAPS

---------------------------------------------------------------------------
(***************************************************************************)
(* CameraDelivery. The ledger says when an image was reserved and until    *)
(* when its row is kept; the tasks hold only images whose row is there; a  *)
(* post is in doubt, has its receipt, or is about to get it.               *)
(***************************************************************************)

(***************************************************************************)
(* The ledger: what the tables say of images, routes and time.             *)
(***************************************************************************)
ledger == <<clock, routes, events, audience, admitted>>

CaptureInv == \A p \in Payloads : captured[p] # None => captured[p] <= now

RowInv ==
  \A e \in Events :
    /\ hash[e] = None <=> received[e] = None
    /\ hash[e] # None =>
         /\ captured[hash[e]] # None /\ captured[hash[e]] <= received[e]
         /\ received[e] <= now
         /\ admitted[e][hash[e]] = received[e]

\* An image whose row is gone was reserved too long ago to be offered again.
AdmittedInv ==
  \A e \in Events, p \in Payloads :
    admitted[e][p] # None =>
      /\ captured[p] # None /\ captured[p] <= admitted[e][p]
      /\ admitted[e][p] <= now
      /\ hash[e] = p \/ admitted[e][p] + Retention < now

RouteInv ==
  /\ \A r \in Live : r < nextRoute
  /\ \A e \in Events, p \in Payloads : \A r \in audience[e][p] : r < nextRoute

LedgerInv == CaptureInv /\ RowInv /\ AdmittedInv /\ RouteInv

\* The targets of a reserved image are the routes of its audience that are left.
TargetInv ==
  \A e \in Events, r \in Routes :
    target[e][r] # "none" <=>
      hash[e] # None /\ r \in Live /\ r \in audience[e][hash[e]]

(***************************************************************************)
(* The tasks.                                                              *)
(***************************************************************************)
JobInv ==
  \A t \in Tasks :
    /\ Busy(t) =>
         /\ hash[event[t]] = payload[t]
         /\ now <= captured[payload[t]] + Lifetime
         /\ t = "upload" <=> payload[t] \in Movies
    /\ ~Busy(t) => phase[t] = "reserved"
    /\ phase[t] = "reserved" => stage[t] = Unlisted
    /\ phase[t] = "listed" => \A r \in Routes : stage[t][r] \in {"none", "ready"}

InAudience(t, r) == r \in audience[event[t]][payload[t]]

StageInv ==
  \A t \in Tasks, r \in Routes :
    /\ stage[t][r] # "none" => InAudience(t, r)
    /\ stage[t][r] \in {"answered", "ok"} => Post(t, r) \in posts
    /\ phase[t] # "reserved" /\ stage[t][r] = "none" /\ r \in Live /\ InAudience(t, r)
         => target[event[t]][r] = "delivered"

\* Where the receipt of a post is, unless the post is in doubt.
Answered(e, p, r) ==
  \E t \in Tasks : event[t] = e /\ payload[t] = p /\ stage[t][r] = "answered"

PostInv ==
  \A e \in Events, p \in Payloads, r \in Routes :
    <<e, p, r>> \in posts =>
      /\ admitted[e][p] # None /\ r \in audience[e][p]
      /\ \/ <<e, p, r>> \in doubt
         \/ r \notin Live
         \/ hash[e] # p
         \/ target[e][r] = "delivered"
         \/ Answered(e, p, r)

DeliveredInv ==
  \A e \in Events, p \in Payloads :
    <<e, p>> \in delivered =>
      /\ admitted[e][p] # None
      /\ \A r \in audience[e][p] : r \in Live => <<e, p, r>> \in posts

IInv == /\ Types /\ LedgerInv /\ TargetInv /\ JobInv /\ StageInv
        /\ PostInv /\ ReceiptsAreTrue /\ DeliveredInv
        /\ OneImagePerCooldown /\ NoticeIsOwed

USE DeliveryConstants DEF Live, Busy

\* Writing one cell of a table of two keys.
LEMMA CellUpdate ==
  ASSUME NEW A, NEW B, NEW S, NEW f \in [A -> [B -> S]], NEW a \in A, NEW b \in B, NEW v \in S
  PROVE  /\ [f EXCEPT ![a][b] = v] \in [A -> [B -> S]]
         /\ \A x \in A, y \in B :
              [f EXCEPT ![a][b] = v][x][y] = IF x = a /\ y = b THEN v ELSE f[x][y]
OBVIOUS

(***************************************************************************)
(* Type correctness.                                                       *)
(***************************************************************************)
LEMMA TypeInit == Init => Types
BY DEF Init, Types, Stages, Time, Routes, Unlisted

LEMMA TypeStep == Types /\ JobInv /\ [Next]_vars => Types'
<1> SUFFICES ASSUME Types, JobInv, [Next]_vars PROVE Types'
  OBVIOUS
<1> USE DEF Types, Stages, clock, routes, events, job, work, elision, history
<1>1. CASE Tick
  BY <1>1 DEF Tick, Time
<1>2. ASSUME NEW p \in Payloads, Capture(p) PROVE Types'
  BY <1>2 DEF Capture
<1>3. ASSUME NEW c \in Channels, AddRoute(c) PROVE Types'
  BY <1>3 DEF AddRoute, Routes
<1>4. ASSUME NEW r \in Routes, RemoveRoute(r) PROVE Types'
  BY <1>4 DEF RemoveRoute
<1>5. CASE PostNotice
  BY <1>5 DEF PostNotice
<1>6. ASSUME NEW t \in Tasks, NEW e \in Events, NEW p \in Payloads, Accept(t, e, p)
      PROVE  Types'
  <2>1. CASE Resume(t, e, p)
    BY <2>1 DEF Resume, Offer, Start
  <2>2. CASE Conflict(t, e, p)
    BY <2>2 DEF Conflict, vars
  <2>3. CASE Reserve(t, e, p)
    BY <2>3 DEF Reserve, Offer, Start
  <2>4. CASE Elide(t, e, p)
    BY <2>4 DEF Elide, Swallow
  <2> QED BY <1>6, <2>1, <2>2, <2>3, <2>4 DEF Accept
<1>7. ASSUME NEW t \in Tasks, ListTargets(t) \/ CountTargets(t) \/ NoDestinations(t)
      PROVE  Types'
  <2>1. CASE ListTargets(t)
    BY <2>1 DEF ListTargets
  <2>2. CASE CountTargets(t)
    BY <2>2 DEF CountTargets
  <2>3. CASE NoDestinations(t)
    BY <2>3 DEF NoDestinations, Clear, Unlisted
  <2> QED BY <1>7, <2>1, <2>2, <2>3
<1>8. ASSUME NEW t \in Tasks, Finish(t) PROVE Types'
  <2>1. Busy(t)
    BY <1>8 DEF Finish, JobInv
  <2> QED BY <1>8, <2>1 DEF Finish, Clear, Unlisted
<1>9. ASSUME NEW t \in Tasks, Cut(t) PROVE Types'
  <2>1. \A r \in Routes : Post(t, r) \in Posts
    BY <1>9 DEF Cut, Post, Posts
  <2> QED BY <1>9, <2>1 DEF Cut, Clear, Open, InFlight, Unlisted
<1>10. CASE Crash
  <2>1. \A t \in Tasks : \A r \in Open(t) : Post(t, r) \in Posts
    BY DEF Open, Post, Posts, JobInv, Unlisted
  <2>2. \A t \in Tasks : InFlight(t) \subseteq Open(t)
    BY DEF Open, InFlight
  <2>3. UNION {{Post(t, r) : r \in Open(t)} : t \in Tasks} \subseteq Posts
    BY <2>1
  <2>4. UNION {{Post(t, r) : r \in InFlight(t)} : t \in Tasks} \subseteq Posts
    BY <2>1, <2>2
  <2> QED BY <1>10, <2>3, <2>4 DEF Crash, Unlisted
<1>11. ASSUME NEW t \in Tasks, NEW r \in Routes, Deliver(t, r) PROVE Types'
  <2>0. event[t] \in Events /\ payload[t] \in Payloads
    BY <1>11 DEF Deliver, Refuse, Send, DiscordAccepts, DiscordRefuses, LoseAnswer,
                 Record, RecordFails, Ready, JobInv, Unlisted
  <2>1. Post(t, r) \in Posts
    BY <2>0 DEF Post, Posts
  <2>2. ASSUME NEW to \in Stages, Advance(t, r, to)
        PROVE  stage' \in [Tasks -> [Routes -> Stages]]
    BY <2>2 DEF Advance
  <2>3. stage' \in [Tasks -> [Routes -> Stages]]
    BY <1>11, <2>2 DEF Deliver, Refuse, Send, DiscordAccepts, DiscordRefuses, LoseAnswer,
                       Record, RecordFails
  <2>4. posts' \subseteq Posts /\ doubt' \subseteq Posts
    BY <1>11, <2>1 DEF Deliver, Refuse, Send, DiscordAccepts, DiscordRefuses, LoseAnswer,
                       Record, RecordFails
  <2>5. target' \in [Events -> [Routes -> {"none", "pending", "delivered"}]]
    <3>1. CASE Record(t, r)
      <4>1. [target EXCEPT ![event[t]][r] = "delivered"]
              \in [Events -> [Routes -> {"none", "pending", "delivered"}]]
        BY <2>0, CellUpdate
      <4> QED BY <3>1, <4>1 DEF Record
    <3>2. CASE ~Record(t, r)
      BY <1>11, <3>2 DEF Deliver, Refuse, Send, DiscordAccepts, DiscordRefuses, LoseAnswer,
                         RecordFails
    <3> QED BY <3>1, <3>2
  <2>6. UNCHANGED <<clock, routes, events, job, phase, elision, audience, admitted, delivered>>
    BY <1>11 DEF Deliver, Refuse, Send, DiscordAccepts, DiscordRefuses, LoseAnswer,
                 Record, RecordFails
  <2> QED BY <2>3, <2>4, <2>5, <2>6
<1>12. CASE PruneElsewhere
  BY <1>12 DEF PruneElsewhere
<1>13. CASE UNCHANGED vars
  BY <1>13 DEF vars
<1> QED BY <1>1, <1>2, <1>3, <1>4, <1>5, <1>6, <1>7, <1>8, <1>9, <1>10, <1>11, <1>12, <1>13
        DEF Next

(***************************************************************************)
(* The ledger.                                                             *)
(***************************************************************************)
LEMMA LedgerSteps ==
  ASSUME [Next]_vars
  PROVE  \/ Tick
         \/ \E p \in Payloads : Capture(p)
         \/ \E c \in Channels : AddRoute(c)
         \/ \E r \in Routes : RemoveRoute(r)
         \/ \E t \in Tasks, e \in Events, p \in Payloads : Reserve(t, e, p)
         \/ PruneElsewhere
         \/ UNCHANGED ledger
<1> USE DEF ledger, clock, routes, events, history
<1>1. ASSUME NEW t \in Tasks, NEW e \in Events, NEW p \in Payloads,
             Accept(t, e, p), ~Reserve(t, e, p)
      PROVE  UNCHANGED ledger
  BY <1>1 DEF Accept, Resume, Conflict, Elide, vars
<1>2. ASSUME NEW t \in Tasks, NEW r \in Routes, Deliver(t, r) PROVE UNCHANGED ledger
  BY <1>2 DEF Deliver, Refuse, Send, DiscordAccepts, DiscordRefuses, LoseAnswer,
              Record, RecordFails
<1>3. ASSUME NEW t \in Tasks,
             ListTargets(t) \/ CountTargets(t) \/ NoDestinations(t) \/ Finish(t) \/ Cut(t)
      PROVE  UNCHANGED ledger
  BY <1>3 DEF ListTargets, CountTargets, NoDestinations, Finish, Cut
<1>4. PostNotice \/ Crash \/ UNCHANGED vars => UNCHANGED ledger
  BY DEF PostNotice, Crash, vars
<1> QED BY <1>1, <1>2, <1>3, <1>4 DEF Next

LEMMA LedgerInit == Init => LedgerInv /\ TargetInv
BY DEF Init, LedgerInv, CaptureInv, RowInv, AdmittedInv, RouteInv, TargetInv

\* An image that was ever reserved and may be offered still has its row.
LEMMA OfferedIsKnown ==
  ASSUME Types, LedgerInv, NEW t \in Tasks, NEW e \in Events, NEW p \in Payloads,
         Offer(t, e, p), admitted[e][p] # None
  PROVE  hash[e] = p /\ ~Pruned(e)
<1>1. /\ now \in Nat /\ captured[p] \in Nat /\ admitted[e][p] \in Nat
      /\ captured[p] <= admitted[e][p] /\ now - captured[p] <= Fresh
  BY DEF Types, Time, Offer, LedgerInv, AdmittedInv
<1>2. now <= admitted[e][p] + Retention
  BY <1>1
<1>3. hash[e] = p
  BY <1>1, <1>2 DEF LedgerInv, AdmittedInv
<1>4. admitted[e][p] = received[e]
  BY <1>3 DEF LedgerInv, RowInv, Types, Time
<1> QED BY <1>1, <1>2, <1>3, <1>4 DEF Pruned

LEMMA LedgerStep == Types /\ Types' /\ LedgerInv /\ [Next]_vars => LedgerInv'
<1> SUFFICES ASSUME Types, Types', LedgerInv, [Next]_vars PROVE LedgerInv'
  OBVIOUS
<1> USE DEF LedgerInv, clock, routes, events, work, elision, history
<1>1. CASE Tick
  <2> USE <1>1 DEF Tick
  <2>1. CaptureInv'
    BY DEF CaptureInv, Types, Time
  <2>2. RowInv'
    BY DEF RowInv, Types, Time
  <2>3. AdmittedInv'
    BY DEF AdmittedInv, Types, Time
  <2>4. RouteInv'
    BY DEF RouteInv
  <2> QED BY <2>1, <2>2, <2>3, <2>4
<1>2. ASSUME NEW p \in Payloads, Capture(p) PROVE LedgerInv'
  <2> USE <1>2 DEF Capture
  <2>1. CaptureInv'
    BY DEF CaptureInv, Types, Time
  <2>2. RowInv'
    BY DEF RowInv, Types, Time
  <2>3. AdmittedInv'
    BY DEF AdmittedInv, Types, Time
  <2>4. RouteInv'
    BY DEF RouteInv
  <2> QED BY <2>1, <2>2, <2>3, <2>4
<1>3. ASSUME NEW c \in Channels, AddRoute(c) PROVE LedgerInv'
  BY <1>3 DEF AddRoute, CaptureInv, RowInv, AdmittedInv, RouteInv, Types, Routes
<1>4. ASSUME NEW r \in Routes, RemoveRoute(r) PROVE LedgerInv'
  BY <1>4 DEF RemoveRoute, CaptureInv, RowInv, AdmittedInv, RouteInv, Types, Routes
<1>5. ASSUME NEW t \in Tasks, NEW e \in Events, NEW p \in Payloads, Reserve(t, e, p)
      PROVE  LedgerInv'
  <2> USE <1>5 DEF Reserve
  <2>1. CaptureInv'
    BY DEF CaptureInv
  <2>2. captured[p] # None /\ captured[p] <= now
    BY DEF Offer, CaptureInv
  <2>3. RowInv'
    BY <2>2 DEF RowInv, Types, Time
  <2>4. ASSUME NEW f \in Events, NEW q \in Payloads, admitted'[f][q] # None
        PROVE  /\ captured[q] # None /\ captured[q] <= admitted'[f][q]
               /\ admitted'[f][q] <= now
               /\ hash'[f] = q \/ admitted'[f][q] + Retention < now
    <3>1. CASE f = e /\ q = p
      BY <2>2, <3>1 DEF Types, Time
    <3>2. CASE ~(f = e /\ q = p)
      <4>1. admitted'[f][q] = admitted[f][q]
        BY <3>2 DEF Types
      <4>2. CASE hash[f] = q
        <5>1. received[f] = admitted[f][q] /\ received[f] \in Nat /\ hash[f] # None
          BY <2>4, <4>1, <4>2 DEF RowInv, Types, Time
        <5>2. Pruned(f) => admitted[f][q] + Retention < now
          BY <5>1 DEF Pruned
        <5>3. f = e => Pruned(f)
          BY <5>1 DEF Known
        <5>4. f # e /\ ~Pruned(f) => hash'[f] = hash[f]
          BY DEF Types
        <5> QED BY <2>4, <4>1, <4>2, <5>2, <5>3, <5>4 DEF AdmittedInv
      <4>3. CASE hash[f] # q
        BY <2>4, <4>1, <4>3 DEF AdmittedInv
      <4> QED BY <4>2, <4>3
    <3> QED BY <3>1, <3>2
  <2>5. AdmittedInv'
    BY <2>4 DEF AdmittedInv
  <2>6. RouteInv'
    BY DEF RouteInv, Types, Routes
  <2> QED BY <2>1, <2>3, <2>5, <2>6
<1>6. CASE PruneElsewhere
  <2> USE <1>6 DEF PruneElsewhere
  <2>1. CaptureInv' /\ RouteInv'
    BY DEF CaptureInv, RouteInv
  <2>2. RowInv'
    BY DEF RowInv, Types
  <2>3. ASSUME NEW e \in Events, NEW p \in Payloads, admitted[e][p] # None, Pruned(e)
        PROVE  admitted[e][p] + Retention < now
    BY <2>3 DEF Pruned, RowInv, AdmittedInv, Types, Time
  <2>4. AdmittedInv'
    BY <2>3 DEF AdmittedInv, Types
  <2> QED BY <2>1, <2>2, <2>4
<1>7. CASE UNCHANGED ledger
  BY <1>7 DEF ledger, CaptureInv, RowInv, AdmittedInv, RouteInv
<1> QED BY <1>1, <1>2, <1>3, <1>4, <1>5, <1>6, <1>7, LedgerSteps

(***************************************************************************)
(* The targets, and the images the tasks hold.                             *)
(***************************************************************************)
LEMMA TargetSteps ==
  ASSUME [Next]_vars
  PROVE  \/ \E c \in Channels : AddRoute(c)
         \/ \E r \in Routes : RemoveRoute(r)
         \/ \E t \in Tasks, e \in Events, p \in Payloads : Reserve(t, e, p)
         \/ PruneElsewhere
         \/ \E t \in Tasks, r \in Routes : Record(t, r)
         \/ UNCHANGED <<routes, events, audience, target>>
<1> USE DEF clock, routes, events, history
<1>1. ASSUME NEW t \in Tasks, NEW e \in Events, NEW p \in Payloads,
             Accept(t, e, p), ~Reserve(t, e, p)
      PROVE  UNCHANGED <<routes, events, audience, target>>
  BY <1>1 DEF Accept, Resume, Conflict, Elide, vars
<1>2. ASSUME NEW t \in Tasks, NEW r \in Routes, Deliver(t, r), ~Record(t, r)
      PROVE  UNCHANGED <<routes, events, audience, target>>
  BY <1>2 DEF Deliver, Refuse, Send, DiscordAccepts, DiscordRefuses, LoseAnswer, RecordFails
<1>3. ASSUME NEW t \in Tasks,
             ListTargets(t) \/ CountTargets(t) \/ NoDestinations(t) \/ Finish(t) \/ Cut(t)
      PROVE  UNCHANGED <<routes, events, audience, target>>
  BY <1>3 DEF ListTargets, CountTargets, NoDestinations, Finish, Cut
<1>4. (\E p \in Payloads : Capture(p)) \/ Tick \/ PostNotice \/ Crash \/ UNCHANGED vars
        => UNCHANGED <<routes, events, audience, target>>
  BY DEF Capture, Tick, PostNotice, Crash, vars
<1> QED BY <1>1, <1>2, <1>3, <1>4 DEF Next

LEMMA TargetStep == Types /\ LedgerInv /\ TargetInv /\ JobInv /\ [Next]_vars => TargetInv'
<1> SUFFICES ASSUME Types, LedgerInv, TargetInv, JobInv, [Next]_vars PROVE TargetInv'
  OBVIOUS
<1> USE DEF routes, events, history
<1>1. ASSUME NEW c \in Channels, AddRoute(c) PROVE TargetInv'
  <2>1. ASSUME NEW e \in Events, NEW r \in Routes, r = nextRoute
        PROVE  /\ target[e][r] = "none"
               /\ hash[e] # None => r \notin audience[e][hash[e]]
    BY <2>1 DEF TargetInv, LedgerInv, RouteInv, Types, Routes
  <2>2. \A r \in Routes : r # nextRoute => (r \in Live' <=> r \in Live)
    BY <1>1 DEF AddRoute, Types
  <2> QED BY <1>1, <2>1, <2>2 DEF AddRoute, TargetInv
<1>2. ASSUME NEW r \in Routes, RemoveRoute(r) PROVE TargetInv'
  BY <1>2 DEF RemoveRoute, TargetInv, Types
<1>3. ASSUME NEW t \in Tasks, NEW e \in Events, NEW p \in Payloads, Reserve(t, e, p)
      PROVE  TargetInv'
  <2>1. UNCHANGED Live
    BY <1>3 DEF Reserve
  <2> SUFFICES ASSUME NEW f \in Events, NEW r \in Routes
               PROVE  target'[f][r] # "none" <=>
                        hash'[f] # None /\ r \in Live /\ r \in audience'[f][hash'[f]]
    BY <2>1 DEF TargetInv
  <2>2. CASE f = e
    BY <1>3, <2>2 DEF Reserve, Types
  <2>3. CASE f # e /\ Pruned(f)
    BY <1>3, <2>3 DEF Reserve
  <2>4. CASE f # e /\ ~Pruned(f)
    <3>1. target'[f] = target[f] /\ hash'[f] = hash[f] /\ audience'[f] = audience[f]
      BY <1>3, <2>4 DEF Reserve, Types
    <3> QED BY <3>1 DEF TargetInv
  <2> QED BY <2>2, <2>3, <2>4
<1>4. ASSUME NEW t \in Tasks, NEW r \in Routes, Record(t, r) PROVE TargetInv'
  <2>1. event[t] \in Events
    BY <1>4 DEF Record, JobInv, Types, Unlisted
  <2>2. \A e \in Events, x \in Routes : target'[e][x] = "none" <=> target[e][x] = "none"
    <3>1. CASE target[event[t]][r] = "none"
      BY <1>4, <3>1 DEF Record
    <3>2. CASE target[event[t]][r] # "none"
      <4>1. target' = [target EXCEPT ![event[t]][r] = "delivered"]
        BY <1>4, <3>2 DEF Record
      <4>2. target \in [Events -> [Routes -> {"none", "pending", "delivered"}]]
        BY DEF Types
      <4>3. \A e \in Events, x \in Routes :
              target'[e][x] = IF e = event[t] /\ x = r THEN "delivered" ELSE target[e][x]
        BY <2>1, <4>1, <4>2, CellUpdate
      <4> QED BY <3>2, <4>3
    <3> QED BY <3>1, <3>2
  <2> QED BY <1>4, <2>2 DEF Record, TargetInv
<1>5. CASE PruneElsewhere
  BY <1>5 DEF PruneElsewhere, TargetInv
<1>6. CASE UNCHANGED <<routes, events, audience, target>>
  BY <1>6 DEF TargetInv
<1> QED BY <1>1, <1>2, <1>3, <1>4, <1>5, <1>6, TargetSteps

\* The row of an image that is being delivered is not pruned.
LEMMA BusyIsKept ==
  ASSUME Types, LedgerInv, JobInv, NEW t \in Tasks, Busy(t)
  PROVE  /\ event[t] \in Events /\ payload[t] \in Payloads
         /\ Known(event[t]) /\ captured[payload[t]] # None
<1>1. event[t] \in Events /\ payload[t] \in Payloads /\ hash[event[t]] = payload[t]
  BY DEF Types, JobInv
<1>2. payload[t] # None
  BY <1>1
<1>3. /\ captured[payload[t]] # None /\ captured[payload[t]] <= received[event[t]]
      /\ received[event[t]] # None
  BY <1>1, <1>2 DEF LedgerInv, RowInv
<1>4. now <= captured[payload[t]] + Lifetime
  BY DEF JobInv
<1>5. captured[payload[t]] \in Nat /\ received[event[t]] \in Nat /\ now \in Nat
  BY <1>1, <1>3 DEF Types, Time
<1> QED BY <1>1, <1>2, <1>3, <1>4, <1>5 DEF Known, Pruned

\* Reserving one image leaves those that are being delivered alone.
LEMMA ReserveKeeps ==
  ASSUME Types, LedgerInv, JobInv, NEW t \in Tasks, NEW e \in Events, NEW p \in Payloads,
         Reserve(t, e, p), NEW u \in Tasks, Busy(u)
  PROVE  /\ u # t /\ event[u] # e
         /\ event'[u] = event[u] /\ payload'[u] = payload[u]
         /\ hash'[event[u]] = hash[event[u]]
         /\ target'[event[u]] = target[event[u]]
         /\ audience'[event[u]] = audience[event[u]]
<1>1. u # t
  BY DEF Reserve, Offer
<1>2. event[u] \in Events /\ Known(event[u])
  BY BusyIsKept
<1>3. event[u] # e
  BY <1>2 DEF Reserve
<1>4. ~Pruned(event[u])
  BY <1>2 DEF Known
<1> QED BY <1>1, <1>2, <1>3, <1>4 DEF Reserve, Start, Types

\* So does pruning.
LEMMA PruneKeeps ==
  ASSUME Types, LedgerInv, JobInv, PruneElsewhere, NEW u \in Tasks, Busy(u)
  PROVE  hash'[event[u]] = hash[event[u]] /\ target'[event[u]] = target[event[u]]
<1>1. event[u] \in Events /\ Known(event[u])
  BY BusyIsKept
<1> QED BY <1>1 DEF PruneElsewhere, Known

LEMMA JobStep == Types /\ LedgerInv /\ JobInv /\ [Next]_vars => JobInv'
<1> SUFFICES ASSUME Types, LedgerInv, JobInv, [Next]_vars PROVE JobInv'
  OBVIOUS
<1> USE DEF clock, routes, events, job, work, elision, history
<1>1. CASE Tick
  <2>1. ASSUME NEW t \in Tasks, Busy(t) PROVE now' <= captured[payload[t]] + Lifetime
    <3>1. captured[payload[t]] \in Nat /\ now \in Nat
      BY <2>1, BusyIsKept DEF Types, Time
    <3> QED BY <1>1, <2>1, <3>1 DEF Tick
  <2> QED BY <1>1, <2>1 DEF Tick, JobInv
<1>2. ASSUME NEW p \in Payloads, Capture(p) PROVE JobInv'
  <2>1. \A t \in Tasks : Busy(t) => captured'[payload[t]] = captured[payload[t]]
    BY <1>2, BusyIsKept DEF Capture, Types
  <2> QED BY <1>2, <2>1 DEF Capture, JobInv
<1>3. CASE \/ PostNotice \/ UNCHANGED vars
           \/ \E c \in Channels : AddRoute(c)
           \/ \E r \in Routes : RemoveRoute(r)
  BY <1>3 DEF PostNotice, AddRoute, RemoveRoute, vars, JobInv
<1>4. CASE Crash
  BY <1>4 DEF Crash, JobInv, Unlisted
<1>5. ASSUME NEW t \in Tasks, NoDestinations(t) \/ Finish(t) \/ Cut(t) PROVE JobInv'
  <2>1. Clear(t) /\ UNCHANGED <<clock, events>>
    BY <1>5 DEF NoDestinations, Finish, Cut
  <2> QED BY <2>1 DEF Clear, JobInv, Types
<1>6. ASSUME NEW t \in Tasks, ListTargets(t) PROVE JobInv'
  BY <1>6 DEF ListTargets, JobInv, Types
<1>7. ASSUME NEW t \in Tasks, CountTargets(t) PROVE JobInv'
  BY <1>7 DEF CountTargets, JobInv, Types
<1>8. ASSUME NEW t \in Tasks, NEW e \in Events, NEW p \in Payloads, Accept(t, e, p)
      PROVE  JobInv'
  <2>1. ASSUME Start(t, e, p), Offer(t, e, p), hash'[e] = p, UNCHANGED clock,
               \A u \in Tasks : Busy(u) => hash'[event[u]] = payload[u]
        PROVE  JobInv'
    <3>1. now <= captured[p] + Lifetime
      <4>1. captured[p] \in Nat /\ now \in Nat /\ now - captured[p] <= Fresh
        BY <2>1 DEF Offer, Types, Time
      <4> QED BY <4>1
    <3>2. ASSUME NEW u \in Tasks PROVE phase[t] = "reserved" /\ (u # t => event'[u] = event[u])
      BY <2>1 DEF Offer, Start, JobInv, Types
    <3> QED BY <2>1, <3>1, <3>2 DEF Offer, Start, JobInv, Types
  <2>2. CASE Resume(t, e, p)
    BY <2>1, <2>2 DEF Resume, JobInv, SamePayload
  <2>3. CASE Reserve(t, e, p)
    <3>1. \A u \in Tasks : Busy(u) => hash'[event[u]] = payload[u]
      BY <2>3, ReserveKeeps DEF JobInv
    <3> QED BY <2>1, <2>3, <3>1 DEF Reserve
  <2>4. CASE Conflict(t, e, p) \/ Elide(t, e, p)
    BY <2>4 DEF Conflict, Elide, vars, JobInv
  <2> QED BY <1>8, <2>2, <2>3, <2>4 DEF Accept
<1>9. ASSUME NEW t \in Tasks, NEW r \in Routes, Deliver(t, r) PROVE JobInv'
  <2>1. phase[t] = "counted" /\ UNCHANGED <<clock, events, job, phase>>
    BY <1>9 DEF Deliver, Refuse, Send, DiscordAccepts, DiscordRefuses, LoseAnswer,
                Record, RecordFails, Ready, JobInv, Types, Unlisted
  <2>2. \A u \in Tasks : u # t => stage'[u] = stage[u]
    BY <1>9 DEF Deliver, Refuse, Send, DiscordAccepts, DiscordRefuses, LoseAnswer,
                Record, RecordFails, Advance, Types
  <2> QED BY <2>1, <2>2 DEF JobInv
<1>10. CASE PruneElsewhere
  BY <1>10, PruneKeeps DEF PruneElsewhere, JobInv
<1> QED BY <1>1, <1>2, <1>3, <1>4, <1>5, <1>6, <1>7, <1>8, <1>9, <1>10 DEF Next

(***************************************************************************)
(* Where each route of an attempt is.                                      *)
(***************************************************************************)
StageTail == <<routes, event, payload, audience, phase>>

\* What the step of one route leaves alone, and who has which post afterwards.
LEMMA DeliverShape ==
  ASSUME Types, JobInv, NEW t \in Tasks, NEW r \in Routes, Deliver(t, r)
  PROVE  /\ UNCHANGED <<clock, routes, events, job, phase, audience, admitted, delivered>>
         /\ Busy(t) /\ stage[t][r] # "none" /\ stage'[t][r] # "none"
         /\ \A u \in Tasks, x \in Routes : u # t \/ x # r => stage'[u][x] = stage[u][x]
         /\ posts \subseteq posts' /\ doubt \subseteq doubt'
         /\ posts' \subseteq posts \cup {Post(t, r)}
<1> USE DEF Deliver, Refuse, Send, DiscordAccepts, DiscordRefuses, LoseAnswer,
            Record, RecordFails
<1>1. /\ UNCHANGED <<clock, routes, events, job, phase, audience, admitted, delivered>>
      /\ stage[t][r] # "none"
      /\ posts \subseteq posts' /\ doubt \subseteq doubt'
      /\ posts' \subseteq posts \cup {Post(t, r)}
  BY DEF Ready, history, job
<1>2. Busy(t)
  BY <1>1 DEF JobInv, Unlisted
<1>3. \E to \in Stages \ {"none"} : Advance(t, r, to)
  BY DEF Stages
<1>4. stage \in [Tasks -> [Routes -> Stages]]
  BY DEF Types
<1>5. /\ stage'[t][r] # "none"
      /\ \A u \in Tasks, x \in Routes : u # t \/ x # r => stage'[u][x] = stage[u][x]
  BY <1>3, <1>4, CellUpdate DEF Advance, Stages
<1> QED BY <1>1, <1>2, <1>5

\* Ending an attempt forgets its routes and nothing else of the other task.
LEMMA ClearShape ==
  ASSUME Types, NEW t \in Tasks, Clear(t)
  PROVE  /\ event'[t] = None /\ stage'[t] = Unlisted /\ phase'[t] = "reserved"
         /\ \A u \in Tasks : u # t =>
              /\ event'[u] = event[u] /\ payload'[u] = payload[u]
              /\ stage'[u] = stage[u] /\ phase'[u] = phase[u]
BY DEF Clear, Types

LEMMA StageStep ==
  Types /\ LedgerInv /\ TargetInv /\ JobInv /\ StageInv /\ [Next]_vars => StageInv'
<1> SUFFICES ASSUME Types, LedgerInv, TargetInv, JobInv, StageInv, [Next]_vars
             PROVE  StageInv'
  OBVIOUS
<1> USE DEF clock, routes, events, job, work, elision, history
<1>1. CASE \/ Tick \/ PostNotice \/ UNCHANGED vars
           \/ \E p \in Payloads : Capture(p)
  BY <1>1 DEF Tick, PostNotice, Capture, vars, StageInv, InAudience, Post
<1>2. ASSUME NEW c \in Channels, AddRoute(c) PROVE StageInv'
  <2>1. \A t \in Tasks : Busy(t) => nextRoute \notin audience[event[t]][payload[t]]
    BY BusyIsKept DEF LedgerInv, RouteInv, Types, Routes
  <2>2. \A r \in Routes : r # nextRoute => (r \in Live' <=> r \in Live)
    BY <1>2 DEF AddRoute, Types
  <2> QED BY <1>2, <2>1, <2>2 DEF AddRoute, StageInv, InAudience, Post, JobInv
<1>3. ASSUME NEW r \in Routes, RemoveRoute(r) PROVE StageInv'
  <2>1. Live' = Live \ {r}
    BY <1>3 DEF RemoveRoute, Types
  <2>2. \A t \in Tasks, x \in Routes :
          Busy(t) /\ x # r => target'[event[t]][x] = target[event[t]][x]
    BY <1>3, BusyIsKept DEF RemoveRoute, Types
  <2> QED BY <1>3, <2>1, <2>2 DEF RemoveRoute, StageInv, InAudience, Post, JobInv
<1>4. CASE Crash
  BY <1>4 DEF Crash, StageInv, Unlisted
<1>5. ASSUME NEW t \in Tasks, NoDestinations(t) \/ Finish(t) \/ Cut(t) PROVE StageInv'
  <2>1. Clear(t) /\ UNCHANGED <<routes, target, audience>> /\ posts \subseteq posts'
    BY <1>5 DEF NoDestinations, Finish, Cut
  <2> QED BY <2>1, ClearShape DEF StageInv, InAudience, Post, Unlisted
<1>6. ASSUME NEW t \in Tasks, ListTargets(t) PROVE StageInv'
  <2>1. Busy(t) /\ hash[event[t]] = payload[t] /\ event[t] \in Events /\ payload[t] # None
    BY <1>6, BusyIsKept DEF ListTargets, JobInv
  <2>2. ASSUME NEW r \in Routes
        PROVE  /\ target[event[t]][r] # "none" <=> r \in Live /\ InAudience(t, r)
               /\ stage'[t][r] = IF PendingTarget(event[t], r) THEN "ready" ELSE "none"
               /\ target[event[t]][r] \in {"none", "pending", "delivered"}
    BY <1>6, <2>1 DEF ListTargets, TargetInv, InAudience, Types
  <2>3. \A u \in Tasks : u # t => stage'[u] = stage[u] /\ phase'[u] = phase[u]
    BY <1>6 DEF ListTargets, Types
  <2> QED BY <1>6, <2>2, <2>3 DEF ListTargets, StageInv, InAudience, Post, PendingTarget
<1>7. ASSUME NEW t \in Tasks, CountTargets(t) PROVE StageInv'
  BY <1>7 DEF CountTargets, StageInv, InAudience, Post, Types
<1>8. ASSUME NEW t \in Tasks, NEW e \in Events, NEW p \in Payloads, Accept(t, e, p)
      PROVE  StageInv'
  <2>1. ASSUME Start(t, e, p), ~Busy(t), UNCHANGED <<routes, posts>>,
               \A u \in Tasks : Busy(u) => /\ target'[event[u]] = target[event[u]]
                                           /\ audience'[event[u]] = audience[event[u]]
        PROVE  StageInv'
    <3>1. phase[t] = "reserved" /\ stage[t] = Unlisted
      BY <2>1 DEF JobInv
    <3>2. \A u \in Tasks : u # t => event'[u] = event[u] /\ payload'[u] = payload[u]
      BY <2>1 DEF Start, Types
    <3> QED BY <2>1, <3>1, <3>2 DEF Start, StageInv, InAudience, Post, JobInv, Unlisted
  <2>2. CASE Resume(t, e, p)
    BY <2>1, <2>2 DEF Resume, Offer
  <2>3. CASE Reserve(t, e, p)
    BY <2>1, <2>3, ReserveKeeps DEF Reserve, Offer
  <2>4. CASE Conflict(t, e, p) \/ Elide(t, e, p)
    BY <2>4 DEF Conflict, Elide, vars, StageInv, InAudience, Post
  <2> QED BY <1>8, <2>2, <2>3, <2>4 DEF Accept
<1>9. ASSUME NEW t \in Tasks, NEW r \in Routes, Deliver(t, r) PROVE StageInv'
  <2>1. /\ UNCHANGED StageTail /\ posts \subseteq posts'
        /\ stage[t][r] # "none" /\ stage'[t][r] # "none"
        /\ \A u \in Tasks, x \in Routes : u # t \/ x # r => stage'[u][x] = stage[u][x]
    BY <1>9, DeliverShape DEF StageTail
  <2>2. stage'[t][r] \in {"answered", "ok"} => Post(t, r) \in posts'
    BY <1>9 DEF Deliver, Refuse, Send, DiscordAccepts, DiscordRefuses, LoseAnswer,
                Record, RecordFails, Advance, Types, StageInv
  <2>3. ASSUME NEW u \in Tasks, NEW x \in Routes, Busy(u), target[event[u]][x] = "delivered"
        PROVE  target'[event[u]][x] = "delivered"
    <3>1. CASE UNCHANGED target
      BY <2>3, <3>1
    <3>2. CASE ~UNCHANGED target
      <4>1. target' = [target EXCEPT ![event[t]][r] = "delivered"]
        BY <1>9, <3>2 DEF Deliver, Refuse, Send, DiscordAccepts, DiscordRefuses,
                          LoseAnswer, Record, RecordFails
      <4>2. event[t] \in Events /\ event[u] \in Events
        BY <1>9, <2>3, DeliverShape, BusyIsKept
      <4>3. target \in [Events -> [Routes -> {"none", "pending", "delivered"}]]
        BY DEF Types
      <4> QED BY <2>3, <4>1, <4>2, <4>3, CellUpdate
    <3> QED BY <3>1, <3>2
  <2> QED BY <2>1, <2>2, <2>3 DEF StageTail, StageInv, InAudience, Post, JobInv
<1>10. CASE PruneElsewhere
  <2>1. \A t \in Tasks : Busy(t) => target'[event[t]] = target[event[t]]
    BY <1>10, PruneKeeps
  <2> QED BY <1>10, <2>1 DEF PruneElsewhere, StageInv, InAudience, Post, JobInv
<1> QED BY <1>1, <1>2, <1>3, <1>4, <1>5, <1>6, <1>7, <1>8, <1>9, <1>10 DEF Next

(***************************************************************************)
(* Posts, receipts and acknowledgements.                                   *)
(***************************************************************************)

\* An image that has been reserved is never reserved again.
LEMMA ReservedOnce ==
  ASSUME Types, LedgerInv, NEW t \in Tasks, NEW e \in Events, NEW p \in Payloads,
         Reserve(t, e, p)
  PROVE  admitted[e][p] = None
<1>1. Offer(t, e, p) /\ ~Known(e)
  BY DEF Reserve
<1>2. admitted[e][p] # None => hash[e] = p /\ ~Pruned(e)
  BY <1>1, OfferedIsKnown
<1> QED BY <1>1, <1>2 DEF Known

LEMMA ReserveHistory ==
  ASSUME Types, LedgerInv, NEW t \in Tasks, NEW e \in Events, NEW p \in Payloads,
         Reserve(t, e, p), NEW f \in Events, NEW q \in Payloads, admitted[f][q] # None
  PROVE  /\ admitted'[f][q] = admitted[f][q] /\ audience'[f][q] = audience[f][q]
         /\ hash'[f] = q => f # e /\ hash[f] = q /\ target'[f] = target[f]
<1>1. ~(f = e /\ q = p)
  BY ReservedOnce
<1>2. admitted'[f][q] = admitted[f][q] /\ audience'[f][q] = audience[f][q]
  BY <1>1 DEF Reserve, Types
<1>3. ASSUME hash'[f] = q PROVE f # e /\ hash[f] = q /\ target'[f] = target[f]
  <2>1. f # e
    BY <1>1, <1>3 DEF Reserve
  <2>2. ~Pruned(f)
    BY <1>3, <2>1 DEF Reserve
  <2> QED BY <1>3, <2>1, <2>2 DEF Reserve, Types
<1> QED BY <1>2, <1>3

\* An attempt that is dropped leaves every post it was waiting for in doubt.
LEMMA CutShape ==
  ASSUME Types, JobInv, StageInv, NEW t \in Tasks, Cut(t)
  PROVE  /\ posts \subseteq posts' /\ doubt \subseteq doubt'
         /\ \A x \in posts' : x \notin posts =>
              x \in doubt' /\ (\E r \in Open(t) : x = Post(t, r))
         /\ \A r \in Open(t) : Post(t, r) \in doubt'
<1>1. doubt' = doubt \cup {Post(t, r) : r \in Open(t)}
  BY DEF Cut
<1>2. PICK arrived \in SUBSET InFlight(t) :
        posts' = posts \cup {Post(t, r) : r \in arrived}
  BY DEF Cut
<1>3. arrived \subseteq Open(t)
  BY DEF InFlight, Open
<1>4. \A r \in Open(t) : Post(t, r) \in doubt'
  BY <1>1
<1>5. ASSUME NEW x \in posts', x \notin posts
      PROVE  x \in doubt' /\ \E r \in Open(t) : x = Post(t, r)
  <2>1. PICK r \in arrived : x = Post(t, r)
    BY <1>2, <1>5
  <2> QED BY <1>3, <1>4, <2>1
<1>6. posts \subseteq posts' /\ doubt \subseteq doubt'
  BY <1>1, <1>2
<1> QED BY <1>4, <1>5, <1>6

LEMMA CrashShape ==
  ASSUME Types, Crash
  PROVE  /\ posts \subseteq posts' /\ doubt \subseteq doubt'
         /\ \A x \in posts' :
              x \notin posts =>
                x \in doubt' /\ (\E t \in Tasks : \E r \in Open(t) : x = Post(t, r))
         /\ \A t \in Tasks : \A r \in Open(t) : Post(t, r) \in doubt'
<1>1. doubt' = doubt \cup UNION {{Post(t, r) : r \in Open(t)} : t \in Tasks}
  BY DEF Crash
<1>2. PICK arrived \in SUBSET UNION {{Post(t, r) : r \in InFlight(t)} : t \in Tasks} :
        posts' = posts \cup arrived
  BY DEF Crash
<1>3. ASSUME NEW x \in arrived PROVE \E t \in Tasks : \E r \in Open(t) : x = Post(t, r)
  <2>1. PICK t \in Tasks : x \in {Post(t, r) : r \in InFlight(t)}
    BY <1>2
  <2>2. InFlight(t) \subseteq Open(t)
    BY DEF InFlight, Open
  <2> QED BY <2>1, <2>2
<1>4. ASSUME NEW t \in Tasks, NEW r \in Open(t) PROVE Post(t, r) \in doubt'
  BY <1>1
<1>5. ASSUME NEW x \in posts', x \notin posts
      PROVE  x \in doubt' /\ \E t \in Tasks : \E r \in Open(t) : x = Post(t, r)
  BY <1>2, <1>3, <1>4, <1>5
<1>6. posts \subseteq posts' /\ doubt \subseteq doubt'
  BY <1>1, <1>2
<1> QED BY <1>4, <1>5, <1>6

\* What a task has under way was reserved for the route.
LEMMA OpenIsReserved ==
  ASSUME Types, LedgerInv, JobInv, StageInv, NEW t \in Tasks, NEW r \in Routes,
         stage[t][r] # "none"
  PROVE  /\ event[t] \in Events /\ payload[t] \in Payloads
         /\ admitted[event[t]][payload[t]] # None /\ r \in audience[event[t]][payload[t]]
<1>1. Busy(t)
  BY DEF JobInv, Unlisted
<1>2. event[t] \in Events /\ payload[t] \in Payloads /\ hash[event[t]] = payload[t]
  BY <1>1, BusyIsKept DEF JobInv
<1>3. received[event[t]] # None /\ admitted[event[t]][payload[t]] = received[event[t]]
  BY <1>2 DEF LedgerInv, RowInv
<1>4. r \in audience[event[t]][payload[t]]
  BY DEF StageInv, InAudience
<1> QED BY <1>2, <1>3, <1>4

Settled(e, p, r) ==
  \/ <<e, p, r>> \in doubt
  \/ r \notin Live
  \/ hash[e] # p
  \/ target[e][r] = "delivered"
  \/ Answered(e, p, r)

LEMMA PostStep ==
  Types /\ LedgerInv /\ TargetInv /\ JobInv /\ StageInv /\ PostInv /\ [Next]_vars => PostInv'
<1> SUFFICES ASSUME Types, LedgerInv, TargetInv, JobInv, StageInv, PostInv, [Next]_vars,
                    NEW e \in Events, NEW p \in Payloads, NEW r \in Routes,
                    <<e, p, r>> \in posts'
             PROVE  admitted'[e][p] # None /\ r \in audience'[e][p] /\ Settled(e, p, r)'
  BY DEF PostInv, Settled
<1>a. <<e, p, r>> \in posts =>
        admitted[e][p] # None /\ r \in audience[e][p] /\ Settled(e, p, r)
  BY DEF PostInv, Settled
<1> USE DEF clock, routes, events, job, work, elision, history
<1>1. CASE Tick \/ PostNotice \/ UNCHANGED vars \/ \E q \in Payloads : Capture(q)
  BY <1>a, <1>1 DEF Tick, PostNotice, Capture, vars, Settled, Answered
<1>2. ASSUME NEW c \in Channels, AddRoute(c)
      PROVE  admitted'[e][p] # None /\ r \in audience'[e][p] /\ Settled(e, p, r)'
  <2>1. r # nextRoute
    BY <1>a, <1>2 DEF AddRoute, LedgerInv, RouteInv, Types, Routes
  <2>2. r \in Live' <=> r \in Live
    BY <1>2, <2>1 DEF AddRoute, Types
  <2> QED BY <1>a, <1>2, <2>2 DEF AddRoute, Settled, Answered
<1>3. ASSUME NEW x \in Routes, RemoveRoute(x)
      PROVE  admitted'[e][p] # None /\ r \in audience'[e][p] /\ Settled(e, p, r)'
  <2>1. x = r => r \notin Live'
    BY <1>3 DEF RemoveRoute, Types
  <2>2. x # r => (r \in Live' <=> r \in Live) /\ target'[e][r] = target[e][r]
    BY <1>3 DEF RemoveRoute, Types
  <2> QED BY <1>a, <1>3, <2>1, <2>2 DEF RemoveRoute, Settled, Answered
<1>4. CASE Crash
  <2>1. CASE <<e, p, r>> \in posts
    <3>1. Answered(e, p, r) => <<e, p, r>> \in doubt'
      BY <1>4, CrashShape DEF Answered, Open, Post
    <3> QED BY <1>a, <1>4, <2>1, <3>1, CrashShape DEF Crash, Settled
  <2>2. CASE <<e, p, r>> \notin posts
    <3>1. PICK t \in Tasks : \E x \in Open(t) : <<e, p, r>> = Post(t, x)
      BY <1>4, <2>2, CrashShape
    <3>2. stage[t][r] # "none" /\ event[t] = e /\ payload[t] = p
      BY <3>1 DEF Open, Post
    <3> QED BY <1>4, <2>2, <3>2, OpenIsReserved, CrashShape DEF Crash, Settled
  <2> QED BY <2>1, <2>2
<1>5. ASSUME NEW t \in Tasks, Cut(t)
      PROVE  admitted'[e][p] # None /\ r \in audience'[e][p] /\ Settled(e, p, r)'
  <2>0. Clear(t) /\ UNCHANGED <<routes, events, target, audience, admitted>>
    BY <1>5 DEF Cut
  <2>1. CASE <<e, p, r>> \in posts
    <3>1. Answered(e, p, r) => <<e, p, r>> \in doubt' \/ Answered(e, p, r)'
      BY <1>5, <2>0, CutShape, ClearShape DEF Answered, Open, Post
    <3> QED BY <1>a, <1>5, <2>0, <2>1, <3>1, CutShape DEF Settled
  <2>2. CASE <<e, p, r>> \notin posts
    <3>1. PICK x \in Open(t) : <<e, p, r>> = Post(t, x)
      BY <1>5, <2>2, CutShape
    <3>2. stage[t][r] # "none" /\ event[t] = e /\ payload[t] = p
      BY <3>1 DEF Open, Post
    <3> QED BY <1>5, <2>0, <2>2, <3>2, OpenIsReserved, CutShape DEF Settled
  <2> QED BY <2>1, <2>2
<1>6. ASSUME NEW t \in Tasks, NoDestinations(t) \/ Finish(t)
      PROVE  admitted'[e][p] # None /\ r \in audience'[e][p] /\ Settled(e, p, r)'
  <2>1. /\ Clear(t) /\ UNCHANGED <<routes, events, target, audience, admitted, posts, doubt>>
        /\ stage[t][r] # "answered"
    BY <1>6 DEF NoDestinations, Finish, JobInv
  <2>2. Answered(e, p, r) => Answered(e, p, r)'
    BY <2>1, ClearShape DEF Answered
  <2> QED BY <1>a, <2>1, <2>2 DEF Settled
<1>7. ASSUME NEW t \in Tasks, ListTargets(t) \/ CountTargets(t)
      PROVE  admitted'[e][p] # None /\ r \in audience'[e][p] /\ Settled(e, p, r)'
  <2>1. UNCHANGED <<routes, events, target, audience, admitted, posts, doubt, job>>
    BY <1>7 DEF ListTargets, CountTargets
  <2>2. \A u \in Tasks : stage[u][r] = "answered" => stage'[u][r] = "answered"
    <3>1. CASE ListTargets(t)
      <4>1. stage[t][r] = "none" /\ \A u \in Tasks : u # t => stage'[u] = stage[u]
        BY <3>1 DEF ListTargets, JobInv, Types, Unlisted
      <4> QED BY <4>1
    <3> QED BY <1>7, <3>1 DEF CountTargets
  <2>3. Answered(e, p, r) => Answered(e, p, r)'
    BY <2>1, <2>2 DEF Answered
  <2> QED BY <1>a, <2>1, <2>3 DEF Settled
<1>8. ASSUME NEW t \in Tasks, NEW f \in Events, NEW q \in Payloads, Accept(t, f, q)
      PROVE  admitted'[e][p] # None /\ r \in audience'[e][p] /\ Settled(e, p, r)'
  <2>1. CASE Reserve(t, f, q)
    <3>1. <<e, p, r>> \in posts /\ UNCHANGED <<Live, doubt>>
      BY <2>1 DEF Reserve
    <3>2. /\ admitted'[e][p] = admitted[e][p] /\ audience'[e][p] = audience[e][p]
          /\ hash'[e] = p => hash[e] = p /\ target'[e] = target[e]
      BY <1>a, <2>1, <3>1, ReserveHistory
    <3>3. Answered(e, p, r) => Answered(e, p, r)'
      BY <2>1 DEF Reserve, Start, Offer, Answered, Types
    <3> QED BY <1>a, <3>1, <3>2, <3>3 DEF Settled
  <2>2. CASE Resume(t, f, q)
    <3>1. Answered(e, p, r) => Answered(e, p, r)'
      BY <2>2 DEF Resume, Start, Offer, Answered, Types
    <3> QED BY <1>a, <2>2, <3>1 DEF Resume, Settled
  <2>3. CASE Conflict(t, f, q) \/ Elide(t, f, q)
    BY <1>a, <2>3 DEF Conflict, Elide, vars, Settled, Answered
  <2> QED BY <1>8, <2>1, <2>2, <2>3 DEF Accept
<1>9. ASSUME NEW t \in Tasks, NEW x \in Routes, Deliver(t, x)
      PROVE  admitted'[e][p] # None /\ r \in audience'[e][p] /\ Settled(e, p, r)'
  <2>1. /\ UNCHANGED <<routes, events, job, audience, admitted>>
        /\ Busy(t) /\ stage[t][x] # "none" /\ doubt \subseteq doubt'
        /\ \A u \in Tasks, y \in Routes : u # t \/ y # x => stage'[u][y] = stage[u][y]
        /\ <<e, p, r>> \notin posts => <<e, p, r>> = Post(t, x)
    BY <1>9, DeliverShape
  <2>2. event[t] \in Events /\ payload[t] \in Payloads /\ hash[event[t]] = payload[t]
    BY <2>1, BusyIsKept DEF JobInv
  <2>3. target'[e][r] = target[e][r] \/ target'[e][r] = "delivered"
    <3>1. CASE ~UNCHANGED target
      <4>1. target' = [target EXCEPT ![event[t]][x] = "delivered"]
        BY <1>9, <3>1 DEF Deliver, Refuse, Send, DiscordAccepts, DiscordRefuses,
                          LoseAnswer, Record, RecordFails
      <4>2. target \in [Events -> [Routes -> {"none", "pending", "delivered"}]]
        BY DEF Types
      <4> QED BY <2>2, <4>1, <4>2, CellUpdate
    <3> QED BY <3>1
  <2>4. CASE ~(event[t] = e /\ payload[t] = p /\ x = r)
    <3>1. Answered(e, p, r) => Answered(e, p, r)'
      BY <2>1, <2>4 DEF Answered
    <3>2. <<e, p, r>> \in posts
      BY <2>1, <2>4 DEF Post
    <3> QED BY <1>a, <2>1, <2>3, <3>1, <3>2 DEF Settled
  <2>5. CASE event[t] = e /\ payload[t] = p /\ x = r
    <3>1. admitted'[e][p] # None /\ r \in audience'[e][p]
      BY <2>1, <2>5, OpenIsReserved
    <3>2. CASE Refuse(t, x) \/ Send(t, x) \/ DiscordRefuses(t, x)
      <4>1. stage[t][r] # "answered" /\ UNCHANGED posts
        BY <2>5, <3>2 DEF Refuse, Send, DiscordRefuses, Ready
      <4>2. Answered(e, p, r) => Answered(e, p, r)'
        BY <2>1, <2>5, <4>1 DEF Answered
      <4> QED BY <1>a, <2>1, <2>3, <3>1, <4>1, <4>2 DEF Settled
    <3>3. CASE DiscordAccepts(t, x)
      <4>1. stage'[t][r] = "answered"
        BY <2>5, <3>3 DEF DiscordAccepts, Advance, Types
      <4> QED BY <2>1, <2>5, <3>1, <4>1 DEF Settled, Answered
    <3>4. CASE LoseAnswer(t, x) \/ RecordFails(t, x)
      BY <2>5, <3>1, <3>4 DEF LoseAnswer, RecordFails, Settled, Post
    <3>5. CASE Record(t, x)
      <4>1. CASE target[event[t]][x] # "none"
        <5>1. target'[e][r] = "delivered"
          BY <2>2, <2>5, <3>5, <4>1 DEF Record, Types
        <5> QED BY <3>1, <5>1 DEF Settled
      <4>2. CASE target[event[t]][x] = "none"
        <5>1. r \notin Live
          BY <2>1, <2>2, <2>5, <4>2, OpenIsReserved DEF TargetInv
        <5> QED BY <2>1, <3>1, <5>1 DEF Settled
      <4> QED BY <4>1, <4>2
    <3> QED BY <1>9, <3>2, <3>3, <3>4, <3>5 DEF Deliver
  <2> QED BY <2>4, <2>5
<1>10. CASE PruneElsewhere
  <2>1. <<e, p, r>> \in posts /\ UNCHANGED <<doubt, Live>>
    BY <1>10 DEF PruneElsewhere
  <2>2. Answered(e, p, r) => Answered(e, p, r)'
    BY <1>10 DEF PruneElsewhere, Answered
  <2>3. CASE Pruned(e)
    BY <1>a, <1>10, <2>1, <2>3 DEF PruneElsewhere, Settled
  <2>4. CASE ~Pruned(e)
    BY <1>a, <1>10, <2>1, <2>2, <2>4 DEF PruneElsewhere, Settled
  <2> QED BY <2>3, <2>4
<1> QED BY <1>1, <1>2, <1>3, <1>4, <1>5, <1>6, <1>7, <1>8, <1>9, <1>10 DEF Next

\* Only Send begins a post.
LEMMA BeginsBySending ==
  ASSUME Types, JobInv, [Next]_vars, NEW t \in Tasks, NEW r \in Routes, Begins(t, r)
  PROVE  Ready(t, r) /\ PendingTarget(event[t], r)
<1> USE DEF Begins
<1>1. ASSUME NEW u \in Tasks, NEW x \in Routes, Deliver(u, x)
      PROVE  Ready(t, r) /\ PendingTarget(event[t], r)
  <2>1. u = t /\ x = r
    BY <1>1, DeliverShape
  <2>2. Send(t, r)
    BY <1>1, <2>1 DEF Deliver, Refuse, Send, DiscordAccepts, DiscordRefuses, LoseAnswer,
                      Record, RecordFails, Advance, Types
  <2> QED BY <2>2 DEF Send, Advance, Types
<1>2. ASSUME NEW u \in Tasks, NoDestinations(u) \/ Finish(u) \/ Cut(u) PROVE FALSE
  <2>1. Clear(u)
    BY <1>2 DEF NoDestinations, Finish, Cut
  <2> QED BY <2>1, ClearShape DEF Unlisted
<1>3. ASSUME NEW u \in Tasks, ListTargets(u) PROVE FALSE
  BY <1>3 DEF ListTargets, Types
<1>4. CASE Crash
  BY <1>4 DEF Crash, Unlisted
<1>5. ASSUME NEW u \in Tasks, NEW e \in Events, NEW p \in Payloads, Accept(u, e, p) PROVE FALSE
  BY <1>5 DEF Accept, Resume, Conflict, Reserve, Elide, Start, vars, work
<1>6. ASSUME \/ Tick \/ PruneElsewhere \/ PostNotice \/ UNCHANGED vars
             \/ \E p \in Payloads : Capture(p)
             \/ \E c \in Channels : AddRoute(c)
             \/ \E x \in Routes : RemoveRoute(x)
             \/ \E u \in Tasks : CountTargets(u)
      PROVE  FALSE
  BY <1>6 DEF Tick, PruneElsewhere, PostNotice, Capture, AddRoute, RemoveRoute, CountTargets, vars, work
<1> QED BY <1>1, <1>2, <1>3, <1>4, <1>5, <1>6 DEF Next

\* A reservation comes at least one cooldown after every earlier one.
LEMMA ReservedLater ==
  ASSUME Types, LedgerInv, NEW t \in Tasks, NEW e \in Events, NEW p \in Payloads,
         Reserve(t, e, p), NEW f \in Events, NEW q \in Payloads, admitted[f][q] # None
  PROVE  admitted[f][q] + Cooldown <= now
<1>1. admitted[f][q] \in Nat /\ now \in Nat
  BY DEF Types, Time
<1>2. CASE hash[f] = q
  <2>1. received[f] = admitted[f][q]
    BY <1>2 DEF LedgerInv, RowInv
  <2>2. CASE Pruned(f)
    BY <1>1, <2>1, <2>2 DEF Pruned
  <2>3. CASE ~Pruned(f)
    BY <1>1, <2>1, <2>3 DEF Reserve, WithinCooldown
  <2> QED BY <2>2, <2>3
<1>3. CASE hash[f] # q
  <2>1. admitted[f][q] + Retention < now
    BY <1>3 DEF LedgerInv, AdmittedInv
  <2> QED BY <1>1, <2>1
<1> QED BY <1>2, <1>3

LEMMA CooldownStep ==
  Types /\ LedgerInv /\ OneImagePerCooldown /\ [Next]_vars => OneImagePerCooldown'
<1> SUFFICES ASSUME Types, LedgerInv, OneImagePerCooldown, [Next]_vars
             PROVE  OneImagePerCooldown'
  OBVIOUS
<1>1. CASE UNCHANGED admitted
  BY <1>1 DEF OneImagePerCooldown
<1>2. ASSUME NEW t \in Tasks, NEW x \in Events, NEW y \in Payloads, Reserve(t, x, y)
      PROVE  OneImagePerCooldown'
  <2> SUFFICES ASSUME NEW e \in Events, NEW f \in Events, NEW p \in Payloads,
                      NEW q \in Payloads, <<e, p>> # <<f, q>>,
                      admitted'[e][p] # None, admitted'[f][q] # None,
                      admitted'[e][p] <= admitted'[f][q]
               PROVE  admitted'[e][p] + Cooldown <= admitted'[f][q]
    BY DEF OneImagePerCooldown
  <2>1. now \in Nat /\ admitted \in [Events -> [Payloads -> Time \cup {None}]] /\ now \in Time
    BY DEF Types, Time
  <2>2. admitted' = [admitted EXCEPT ![x][y] = now]
    BY <1>2 DEF Reserve
  <2>3. \A g \in Events, r \in Payloads :
          admitted'[g][r] = IF g = x /\ r = y THEN now ELSE admitted[g][r]
    BY <2>1, <2>2, CellUpdate
  <2>4. CASE <<e, p>> # <<x, y>> /\ <<f, q>> # <<x, y>>
    BY <2>3, <2>4 DEF OneImagePerCooldown
  <2>5. CASE <<f, q>> = <<x, y>>
    <3>1. admitted[e][p] # None /\ admitted'[e][p] = admitted[e][p] /\ admitted'[f][q] = now
      BY <2>3, <2>5
    <3> QED BY <1>2, <3>1, ReservedLater
  <2>6. CASE <<e, p>> = <<x, y>>
    <3>1. admitted[f][q] # None /\ admitted'[f][q] = admitted[f][q] /\ admitted'[e][p] = now
      BY <2>3, <2>6
    <3>2. admitted[f][q] + Cooldown <= now
      BY <1>2, <3>1, ReservedLater
    <3>3. admitted[f][q] \in Nat
      BY <2>1, <3>1 DEF Time
    <3> QED BY <2>1, <3>1, <3>2, <3>3
  <2> QED BY <2>4, <2>5, <2>6
<1>3. CASE Tick \/ \E p \in Payloads : Capture(p)
  BY <1>1, <1>3 DEF Tick, Capture, history
<1>4. CASE (\E c \in Channels : AddRoute(c)) \/ (\E r \in Routes : RemoveRoute(r))
  BY <1>1, <1>4 DEF AddRoute, RemoveRoute, history
<1>5. CASE PruneElsewhere
  BY <1>1, <1>5 DEF PruneElsewhere, history
<1> QED BY <1>1, <1>2, <1>3, <1>4, <1>5, LedgerSteps DEF ledger

LEMMA NoticeStep == Types /\ NoticeIsOwed /\ [Next]_vars => NoticeIsOwed'
<1> SUFFICES ASSUME Types, NoticeIsOwed, [Next]_vars PROVE NoticeIsOwed'
  OBVIOUS
<1>1. CASE UNCHANGED elision
  BY <1>1 DEF NoticeIsOwed, elision
<1>2. CASE PostNotice \/ Crash
  BY <1>2 DEF PostNotice, Crash, NoticeIsOwed
<1>3. ASSUME NEW t \in Tasks, NEW e \in Events, NEW p \in Payloads, Accept(t, e, p)
      PROVE  NoticeIsOwed'
  <2>1. CASE Swallow
    BY <2>1 DEF Swallow, NoticeIsOwed, Types
  <2>2. CASE ~Swallow
    <3>1. UNCHANGED elision
      BY <1>3, <2>2 DEF Accept, Resume, Conflict, Reserve, Elide, vars
    <3> QED BY <1>1, <3>1
  <2> QED BY <2>1, <2>2
<1>4. ASSUME NEW t \in Tasks, NEW r \in Routes, Deliver(t, r) PROVE UNCHANGED elision
  BY <1>4, DeliverShape DEF Deliver, Refuse, Send, DiscordAccepts, DiscordRefuses,
                            LoseAnswer, Record, RecordFails
<1>5. ASSUME NEW t \in Tasks,
             ListTargets(t) \/ CountTargets(t) \/ NoDestinations(t) \/ Finish(t) \/ Cut(t)
      PROVE  UNCHANGED elision
  BY <1>5 DEF ListTargets, CountTargets, NoDestinations, Finish, Cut
<1>6. CASE \/ Tick \/ PruneElsewhere \/ UNCHANGED vars \/ \E p \in Payloads : Capture(p)
           \/ (\E c \in Channels : AddRoute(c)) \/ (\E r \in Routes : RemoveRoute(r))
  BY <1>1, <1>6 DEF Tick, PruneElsewhere, Capture, AddRoute, RemoveRoute, vars
<1> QED BY <1>1, <1>2, <1>3, <1>4, <1>5, <1>6 DEF Next

LEMMA ReceiptStep ==
  Types /\ LedgerInv /\ JobInv /\ StageInv /\ ReceiptsAreTrue /\ [Next]_vars
    => ReceiptsAreTrue'
<1> SUFFICES ASSUME Types, LedgerInv, JobInv, StageInv, ReceiptsAreTrue, [Next]_vars,
                    NEW e \in Events, NEW r \in Routes, target'[e][r] = "delivered"
             PROVE  <<e, hash'[e], r>> \in posts'
  BY DEF ReceiptsAreTrue
<1> USE DEF routes, events
<1>1. posts \subseteq posts'
  <2>1. ASSUME NEW t \in Tasks, NEW x \in Routes, Deliver(t, x) PROVE posts \subseteq posts'
    BY <2>1, DeliverShape
  <2>2. ASSUME NEW t \in Tasks, NEW f \in Events, NEW p \in Payloads, Accept(t, f, p)
        PROVE  posts \subseteq posts'
    BY <2>2 DEF Accept, Resume, Conflict, Reserve, Elide, vars, history
  <2>3. ASSUME NEW t \in Tasks,
               ListTargets(t) \/ CountTargets(t) \/ NoDestinations(t) \/ Finish(t) \/ Cut(t)
        PROVE  posts \subseteq posts'
    BY <2>3 DEF ListTargets, CountTargets, NoDestinations, Finish, Cut, history
  <2>4. \/ Tick \/ PruneElsewhere \/ PostNotice \/ Crash \/ UNCHANGED vars
        \/ \E p \in Payloads : Capture(p)
        \/ \E c \in Channels : AddRoute(c)
        \/ \E x \in Routes : RemoveRoute(x)
        => posts \subseteq posts'
    BY DEF Tick, PruneElsewhere, PostNotice, Crash, Capture, AddRoute, RemoveRoute, vars,
           history
  <2> QED BY <2>1, <2>2, <2>3, <2>4 DEF Next
<1>2. target[e][r] = "delivered" => <<e, hash[e], r>> \in posts
  BY DEF ReceiptsAreTrue
<1>3. ASSUME NEW c \in Channels, AddRoute(c) PROVE <<e, hash'[e], r>> \in posts'
  BY <1>1, <1>2, <1>3 DEF AddRoute
<1>4. ASSUME NEW x \in Routes, RemoveRoute(x) PROVE <<e, hash'[e], r>> \in posts'
  BY <1>1, <1>2, <1>4 DEF RemoveRoute, Types
<1>5. ASSUME NEW t \in Tasks, NEW f \in Events, NEW p \in Payloads, Reserve(t, f, p)
      PROVE  <<e, hash'[e], r>> \in posts'
  <2>1. e # f /\ ~Pruned(e)
    BY <1>5 DEF Reserve
  <2> QED BY <1>1, <1>2, <1>5, <2>1 DEF Reserve
<1>6. ASSUME NEW t \in Tasks, NEW x \in Routes, Record(t, x)
      PROVE  <<e, hash'[e], r>> \in posts'
  <2>1. stage[t][x] = "answered" /\ UNCHANGED hash
    BY <1>6 DEF Record
  <2>2. Busy(t) /\ Post(t, x) \in posts
    BY <2>1 DEF StageInv, JobInv, Unlisted
  <2>3. event[t] \in Events /\ hash[event[t]] = payload[t]
    BY <2>2, BusyIsKept DEF JobInv
  <2>4. CASE target[event[t]][x] = "none"
    BY <1>1, <1>2, <1>6, <2>1, <2>4 DEF Record
  <2>5. CASE target[event[t]][x] # "none"
    <3>1. target' = [target EXCEPT ![event[t]][x] = "delivered"]
      BY <1>6, <2>5 DEF Record
    <3>2. target \in [Events -> [Routes -> {"none", "pending", "delivered"}]]
      BY DEF Types
    <3>3. (e = event[t] /\ r = x) \/ target[e][r] = "delivered"
      BY <2>3, <3>1, <3>2, CellUpdate
    <3> QED BY <1>1, <1>2, <2>1, <2>2, <2>3, <3>3 DEF Post
  <2> QED BY <2>4, <2>5
<1>7. CASE UNCHANGED <<routes, events, audience, target>>
  BY <1>1, <1>2, <1>7
<1>8. CASE PruneElsewhere
  BY <1>1, <1>2, <1>8 DEF PruneElsewhere
<1> QED BY <1>3, <1>4, <1>5, <1>6, <1>7, <1>8, TargetSteps

LEMMA DeliveredStep ==
  /\ Types /\ LedgerInv /\ TargetInv /\ JobInv /\ StageInv /\ ReceiptsAreTrue
  /\ DeliveredInv /\ [Next]_vars
  => DeliveredInv'
<1> SUFFICES ASSUME Types, LedgerInv, TargetInv, JobInv, StageInv, ReceiptsAreTrue,
                    DeliveredInv, [Next]_vars,
                    NEW e \in Events, NEW p \in Payloads, <<e, p>> \in delivered'
             PROVE  /\ admitted'[e][p] # None
                    /\ \A r \in audience'[e][p] : r \in Live' => <<e, p, r>> \in posts'
  BY DEF DeliveredInv
<1>a. <<e, p>> \in delivered =>
        /\ admitted[e][p] # None
        /\ \A r \in audience[e][p] : r \in Live => <<e, p, r>> \in posts
  BY DEF DeliveredInv
<1> USE DEF clock, routes, events, job, work, elision, history
<1>1. CASE \/ Tick \/ PruneElsewhere \/ PostNotice \/ UNCHANGED vars \/ Crash
           \/ \E q \in Payloads : Capture(q)
  BY <1>a, <1>1 DEF Tick, PruneElsewhere, PostNotice, Crash, Capture, vars
<1>2. ASSUME NEW c \in Channels, AddRoute(c)
      PROVE  /\ admitted'[e][p] # None
             /\ \A r \in audience'[e][p] : r \in Live' => <<e, p, r>> \in posts'
  <2>1. \A r \in audience[e][p] : r # nextRoute /\ (r \in Live' => r \in Live)
    BY <1>2 DEF AddRoute, LedgerInv, RouteInv, Types, Routes
  <2> QED BY <1>a, <1>2, <2>1 DEF AddRoute
<1>3. ASSUME NEW x \in Routes, RemoveRoute(x)
      PROVE  /\ admitted'[e][p] # None
             /\ \A r \in audience'[e][p] : r \in Live' => <<e, p, r>> \in posts'
  <2>1. Live' \subseteq Live
    BY <1>3 DEF RemoveRoute, Types
  <2> QED BY <1>a, <1>3, <2>1 DEF RemoveRoute
<1>4. ASSUME NEW t \in Tasks, ListTargets(t) \/ CountTargets(t) \/ NoDestinations(t) \/ Cut(t)
      PROVE  /\ admitted'[e][p] # None
             /\ \A r \in audience'[e][p] : r \in Live' => <<e, p, r>> \in posts'
  BY <1>a, <1>4 DEF ListTargets, CountTargets, NoDestinations, Cut
<1>5. ASSUME NEW t \in Tasks, Finish(t)
      PROVE  /\ admitted'[e][p] # None
             /\ \A r \in audience'[e][p] : r \in Live' => <<e, p, r>> \in posts'
  <2>0. UNCHANGED <<routes, audience, admitted, posts>>
    BY <1>5 DEF Finish
  <2>1. CASE <<e, p>> \in delivered
    BY <1>a, <2>0, <2>1
  <2>2. CASE <<e, p>> \notin delivered
    <3>1. event[t] = e /\ payload[t] = p /\ AllDelivered(t) /\ phase[t] = "counted"
      BY <1>5, <2>2 DEF Finish
    <3>2. hash[e] = p /\ p # None
      BY <3>1 DEF JobInv
    <3>3. admitted[e][p] # None
      BY <3>2 DEF LedgerInv, RowInv
    <3>4. ASSUME NEW r \in audience[e][p], r \in Live PROVE <<e, p, r>> \in posts
      <4>1. CASE stage[t][r] = "ok"
        BY <3>1, <3>4, <4>1 DEF StageInv, Post
      <4>2. CASE stage[t][r] = "none"
        <5>1. target[e][r] = "delivered"
          BY <3>1, <3>4, <4>2 DEF StageInv, InAudience
        <5> QED BY <3>2, <3>4, <5>1 DEF ReceiptsAreTrue
      <4> QED BY <3>1, <3>4, <4>1, <4>2 DEF AllDelivered
    <3> QED BY <2>0, <3>3, <3>4
  <2> QED BY <2>1, <2>2
<1>6. ASSUME NEW t \in Tasks, NEW f \in Events, NEW q \in Payloads, Accept(t, f, q)
      PROVE  /\ admitted'[e][p] # None
             /\ \A r \in audience'[e][p] : r \in Live' => <<e, p, r>> \in posts'
  <2>1. CASE Reserve(t, f, q)
    <3>1. admitted[e][p] # None /\ UNCHANGED <<Live, posts>>
      BY <1>a, <2>1 DEF Reserve
    <3>2. admitted'[e][p] = admitted[e][p] /\ audience'[e][p] = audience[e][p]
      BY <2>1, <3>1, ReserveHistory
    <3>3. <<e, p>> \in delivered
      BY <2>1 DEF Reserve
    <3> QED BY <1>a, <3>1, <3>2, <3>3
  <2>2. CASE Resume(t, f, q) \/ Conflict(t, f, q) \/ Elide(t, f, q)
    BY <1>a, <2>2 DEF Resume, Conflict, Elide, vars
  <2> QED BY <1>6, <2>1, <2>2 DEF Accept
<1>7. ASSUME NEW t \in Tasks, NEW x \in Routes, Deliver(t, x)
      PROVE  /\ admitted'[e][p] # None
             /\ \A r \in audience'[e][p] : r \in Live' => <<e, p, r>> \in posts'
  BY <1>a, <1>7, DeliverShape
<1> QED BY <1>1, <1>2, <1>3, <1>4, <1>5, <1>6, <1>7 DEF Next

(***************************************************************************)
(* Theorems.                                                               *)
(***************************************************************************)
LEMMA InvInit == Init => IInv
<1> SUFFICES ASSUME Init PROVE IInv
  OBVIOUS
<1>1. Types /\ LedgerInv /\ TargetInv
  BY TypeInit, LedgerInit
<1>2. JobInv /\ StageInv
  BY DEF Init, JobInv, StageInv, Unlisted
<1>3. PostInv /\ ReceiptsAreTrue /\ DeliveredInv
  BY DEF Init, PostInv, ReceiptsAreTrue, DeliveredInv
<1>4. OneImagePerCooldown /\ NoticeIsOwed
  BY DEF Init, OneImagePerCooldown, NoticeIsOwed
<1> QED BY <1>1, <1>2, <1>3, <1>4 DEF IInv

LEMMA InvStep == IInv /\ [Next]_vars => IInv'
BY TypeStep, LedgerStep, TargetStep, JobStep, StageStep, PostStep, ReceiptStep,
   DeliveredStep, CooldownStep, NoticeStep DEF IInv

LEMMA Invariance == Spec => []IInv
BY InvInit, InvStep, PTL DEF Spec

\* Every variable keeps its type, and the foreign keys hold.
THEOREM TypeCorrect == Spec => []TypeOK
<1>1. IInv => TypeOK
  BY DEF IInv, TypeOK, ForeignKeys, TargetInv
<1> QED BY <1>1, Invariance, PTL

\* A receipt stands for a post of the payload its event was reserved for.
THEOREM ReceiptsHold == Spec => []ReceiptsAreTrue
<1>1. IInv => ReceiptsAreTrue
  BY DEF IInv
<1> QED BY <1>1, Invariance, PTL

\* An image acknowledged as delivered is on every route it was meant for that
\* is still there.
THEOREM DeliveredHolds == Spec => []DeliveredIsDelivered
<1>1. IInv => DeliveredIsDelivered
  BY DEF IInv, DeliveredInv, DeliveredIsDelivered
<1> QED BY <1>1, Invariance, PTL

\* Two images of the camera are at least one cooldown apart.
THEOREM CooldownHolds == Spec => []OneImagePerCooldown
<1>1. IInv => OneImagePerCooldown
  BY DEF IInv
<1> QED BY <1>1, Invariance, PTL

\* While swallowed images are counted, one task is on its way to report them.
THEOREM NoticeHolds == Spec => []NoticeIsOwed
<1>1. IInv => NoticeIsOwed
  BY DEF IInv
<1> QED BY <1>1, Invariance, PTL

\* A post begins only to a route that is there and was there at the reservation.
THEOREM NothingBackfilled == Spec => NoBackfill
<1>1. IInv /\ [Next]_vars =>
        [\A t \in Tasks, r \in Routes :
           Begins(t, r) => r \in Live /\ r \in audience[event[t]][payload[t]]]_vars
  <2> SUFFICES ASSUME IInv, [Next]_vars, NEW t \in Tasks, NEW r \in Routes, Begins(t, r)
               PROVE  r \in Live /\ r \in audience[event[t]][payload[t]]
    OBVIOUS
  <2>1. Ready(t, r) /\ PendingTarget(event[t], r)
    BY BeginsBySending DEF IInv
  <2> QED BY <2>1 DEF IInv, Ready, PendingTarget, StageInv, InAudience
<1> QED BY <1>1, Invariance, PTL DEF Spec, NoBackfill

\* An image is posted to a route again only if the earlier post is in doubt.
THEOREM RepostedOnlyInDoubt == Spec => RepostOnlyInDoubt
<1>1. IInv /\ [Next]_vars =>
        [\A t \in Tasks, r \in Routes :
           Begins(t, r) /\ Post(t, r) \in posts => Post(t, r) \in doubt]_vars
  <2> SUFFICES ASSUME IInv, [Next]_vars, NEW t \in Tasks, NEW r \in Routes, Begins(t, r),
                      Post(t, r) \in posts
               PROVE  Post(t, r) \in doubt
    OBVIOUS
  <2>1. Ready(t, r) /\ PendingTarget(event[t], r)
    BY BeginsBySending DEF IInv
  <2>2. Busy(t)
    BY <2>1 DEF IInv, JobInv, Ready, Unlisted
  <2>3. event[t] \in Events /\ payload[t] \in Payloads /\ hash[event[t]] = payload[t]
    BY <2>2, BusyIsKept DEF IInv, JobInv
  <2>4. ~Answered(event[t], payload[t], r)
    <3>1. ASSUME NEW u \in Tasks, payload[u] = payload[t], event[u] = event[t] PROVE u = t
      BY <2>2, <3>1 DEF IInv, JobInv, Tasks
    <3> QED BY <2>1, <3>1 DEF Answered, Ready
  <2> QED BY <2>1, <2>3, <2>4 DEF IInv, PostInv, PendingTarget, Post
<1> QED BY <1>1, Invariance, PTL DEF Spec, RepostOnlyInDoubt

---------------------------------------------------------------------------
(***************************************************************************)
(* CameraSession. A credential that has gone never comes back, so a        *)
(* session that holds it fails the check with which its next turn begins   *)
(* (AuthorityInv); what is being delivered is what the camera was asked    *)
(* for (DeliveryAwaited).                                                  *)
(***************************************************************************)

USE CameraSessionAssumption

\* A session of a socket.
SessionType == [at : {"idle", "authenticated"} \cup Serving, credential : 0..issued, closing : BOOLEAN]
\* What the owner and the telescope put in the camera's queue.
ControlType == [what : {"configure"}, of : Settings] \cup [what : {"event"}, of : {NoAsk}]

\* A credential that has gone never comes back, so a session that holds it fails
\* the check with which its next turn begins.
AuthorityInv ==
  /\ issued \in 0..MaxCredentials /\ credential \in {0, issued}
  /\ slot \in Sockets \cup {NoSocket}
  /\ session \in [Sockets -> SessionType]
  /\ \A s \in Sockets : session[s].at # "idle" => session[s].credential # 0
  /\ \A s \in Sockets : session[s].at \in Serving <=> slot = s
  /\ served \in {0, 1}
  /\ served = 1 => /\ slot \in Sockets /\ session[slot].credential # credential
                   /\ session[slot].at \in {"top", "delivering"}

\* The types of the queues, of what is pending and of the answers.
QueuesTyped ==
  /\ handlers \subseteq Handlers
  /\ consent \subseteq {"events", "configuration"}
  /\ requests \in Seq(Asks) /\ Len(requests) <= 1
  /\ controls \in Seq(ControlType) /\ Len(controls) <= MaxControls
  /\ pending \in Asks \cup {NoAsk} /\ setting \in Settings \cup {NoAsk}
  /\ answer \in [Calls -> {"open", "late", "gone", "ok", "no"}]
  /\ delivering \in Asks \cup {NoAsk} /\ done \subseteq Calls

\* What is being delivered is what the camera was asked for.
DeliveryAwaited ==
  delivering # NoAsk =>
    slot \in Sockets /\ session[slot].at = "delivering" /\ pending = delivering

\* Why an answer is true.
AnswersInv == QueuesTyped /\ DeliveryAwaited /\ AnswersAreTrue

\* Both together.
SessionInv == AuthorityInv /\ AnswersInv

---------------------------------------------------------------------------
\* One socket serves.
LEMMA OneServing ==
  ASSUME AuthorityInv, NEW s \in Sockets, session[s].at \in Serving
  PROVE  slot = s
BY DEF AuthorityInv

\* disconnect tells a session to close, and changes nothing else of it.
LEMMA Disconnects ==
  ASSUME AuthorityInv, Disconnect
  PROVE  /\ session' \in [Sockets -> SessionType]
         /\ \A s \in Sockets : /\ session'[s].at = session[s].at
                               /\ session'[s].credential = session[s].credential
<1>1. CASE slot = NoSocket
  BY <1>1 DEF Disconnect, AuthorityInv
<1>2. CASE slot # NoSocket
  <2>1. session' = [session EXCEPT ![slot].closing = TRUE] /\ slot \in Sockets
    BY <1>2 DEF Disconnect, AuthorityInv
  <2> QED BY <2>1 DEF AuthorityInv, SessionType
<1> QED BY <1>1, <1>2

\* The owner's handlers: what they do to authority and to the sessions.
LEMMA OwnerStep ==
  ASSUME SessionInv,
         Pair \/ CloseAfterPairing \/ CloseBeforeRevoking \/ RevokeDevice \/ CloseForRoutes
  PROVE  SessionInv'
<1>0. AuthorityInv /\ AnswersInv
  BY DEF SessionInv
<1>1. UNCHANGED sessionState /\ handlers' \subseteq Handlers
  BY <1>0 DEF AnswersInv, QueuesTyped, Pair, CloseAfterPairing, CloseBeforeRevoking, RevokeDevice,
     CloseForRoutes, Begin, Handlers
<1>2. CASE Pair
  <2>1. /\ issued' = issued + 1 /\ credential' = issued' /\ issued' \in 0..MaxCredentials
        /\ session' = session /\ issued \in Nat
    BY <1>0, <1>2 DEF Pair, AuthorityInv
  <2>2. session' \in [Sockets -> SessionType'] /\ \A s \in Sockets : session[s].credential # credential'
    BY <1>0, <2>1 DEF AuthorityInv, SessionType
  <2> QED BY <1>0, <1>1, <2>1, <2>2
      DEF SessionInv, AuthorityInv, AnswersInv, QueuesTyped, DeliveryAwaited, AnswersAreTrue,
          sessionState, queues
<1>3. CASE RevokeDevice
  <2>1. credential' = 0 /\ issued' = issued /\ session' = session
    BY <1>3 DEF RevokeDevice
  <2>2. \A s \in Sockets : session[s].at \in Serving => session[s].credential # 0
    BY <1>0 DEF AuthorityInv, Serving
  <2> QED BY <1>0, <1>1, <2>1, <2>2
      DEF SessionInv, AuthorityInv, SessionType, AnswersInv, QueuesTyped, DeliveryAwaited,
          AnswersAreTrue, sessionState, queues, Serving
<1>4. CASE CloseAfterPairing \/ CloseBeforeRevoking \/ CloseForRoutes
  <2>1. UNCHANGED authority /\ Disconnect
    BY <1>4 DEF CloseAfterPairing, CloseBeforeRevoking, CloseForRoutes
  <2> QED BY <1>0, <1>1, <2>1, Disconnects
      DEF SessionInv, AuthorityInv, SessionType, AnswersInv, QueuesTyped, DeliveryAwaited,
          AnswersAreTrue, sessionState, queues, authority
<1> QED BY <1>2, <1>3, <1>4

\* A step that leaves authority, the slot and the sessions alone.
LEMMA CallStep ==
  ASSUME SessionInv, NEW a,
         \/ a \in Calls /\ (Ask(a) \/ DeadlinePasses(a) \/ GiveUp(a))
         \/ TelescopeEvent
  PROVE  SessionInv'
<1>0. AuthorityInv /\ AnswersInv
  BY DEF SessionInv
<1>1. UNCHANGED <<authority, handlers, slot, session, consent, pending, setting, delivering, served>>
  BY DEF Ask, DeadlinePasses, GiveUp, TelescopeEvent, queues
<1>2. AuthorityInv' /\ DeliveryAwaited'
  BY <1>0, <1>1 DEF AuthorityInv, SessionType, AnswersInv, DeliveryAwaited, authority
<1>3. CASE a \in Calls /\ Ask(a)
  <2>1. answer' = [answer EXCEPT ![a] = "open"] /\ done' = done \ {a}
    BY <1>3 DEF Ask
  <2>2. /\ requests' \in Seq(Asks) /\ Len(requests') <= 1
        /\ controls' \in Seq(ControlType) /\ Len(controls') <= MaxControls
    <3>1. CASE a \in Asks /\ RequestRoom /\ requests' = Append(requests, a) /\ UNCHANGED controls
      BY <1>0, <3>1, AppendProperties, EmptySeq DEF RequestRoom, AnswersInv, QueuesTyped
    <3>2. CASE /\ a \in Settings /\ Len(controls) < MaxControls
               /\ controls' = Append(controls, [what |-> "configure", of |-> a])
               /\ UNCHANGED requests
      <4>1. [what |-> "configure", of |-> a] \in ControlType
        BY <3>2 DEF ControlType
      <4> QED BY <1>0, <3>2, <4>1, AppendProperties DEF AnswersInv, QueuesTyped
    <3> QED BY <1>3, <3>1, <3>2 DEF Ask
  <2>3. QueuesTyped'
    BY <1>0, <1>1, <2>1, <2>2 DEF AnswersInv, QueuesTyped
  <2>4. AnswersAreTrue'
    BY <1>0, <2>1 DEF AnswersInv, QueuesTyped, AnswersAreTrue
  <2> QED BY <1>2, <2>3, <2>4 DEF SessionInv, AnswersInv
<1>4. CASE a \in Calls /\ (DeadlinePasses(a) \/ GiveUp(a))
  <2>1. \E to \in {"late", "gone"} : answer' = [answer EXCEPT ![a] = to]
    BY <1>4 DEF DeadlinePasses, GiveUp
  <2>2. UNCHANGED <<requests, controls, done>>
    BY <1>4 DEF DeadlinePasses, GiveUp, queues
  <2> QED BY <1>0, <1>1, <1>2, <2>1, <2>2 DEF SessionInv, AnswersInv, QueuesTyped, AnswersAreTrue
<1>5. CASE TelescopeEvent
  <2>1. /\ controls' = Append(controls, [what |-> "event", of |-> NoAsk])
        /\ Len(controls) < MaxControls /\ UNCHANGED <<requests, answer, done>>
    BY <1>5 DEF TelescopeEvent
  <2>2. [what |-> "event", of |-> NoAsk] \in ControlType
    BY DEF ControlType
  <2>3. controls' \in Seq(ControlType) /\ Len(controls') <= MaxControls
    BY <1>0, <2>1, <2>2, AppendProperties DEF AnswersInv, QueuesTyped
  <2> QED BY <1>0, <1>1, <1>2, <2>1, <2>3 DEF SessionInv, AnswersInv, QueuesTyped, AnswersAreTrue
<1> QED BY <1>3, <1>4, <1>5

\* What is asked of one session's step.
LEMMA SessionMoves ==
  ASSUME AuthorityInv, NEW s \in Sockets, NEW to \in {"top", "waiting", "delivering"},
         session' = [session EXCEPT ![s].at = to], session[s].at \in Serving
  PROVE  /\ session' \in [Sockets -> SessionType]
         /\ slot = s /\ session'[s].at = to /\ session'[s].credential = session[s].credential
         /\ \A u \in Sockets \ {s} : session'[u] = session[u]
         /\ \A u \in Sockets : session'[u].at # "idle" => session'[u].credential # 0
         /\ \A u \in Sockets : session'[u].at \in Serving <=> slot = u
<1>1. slot = s
  BY OneServing
<1>2. /\ session'[s].at = to /\ session'[s].credential = session[s].credential
      /\ \A u \in Sockets \ {s} : session'[u] = session[u]
      /\ session' \in [Sockets -> SessionType]
  BY DEF AuthorityInv, SessionType, Serving
<1> QED BY <1>1, <1>2 DEF AuthorityInv, Serving

\* What answering a call does to the others.
LEMMA QueueAnswered ==
  ASSUME QueuesTyped, NEW a, NEW what \in {"ok", "no"}, Answer(a, what)
  PROVE  /\ answer' \in [Calls -> {"open", "late", "gone", "ok", "no"}]
         /\ \A c \in Calls : answer'[c] = "ok" => answer[c] = "ok" \/ (c = a /\ what = "ok")
BY DEF Answer, QueuesTyped

\* A session that ends leaves the slot, and what it owes is not answered with ok.
LEMMA EndStep ==
  ASSUME SessionInv, NEW s \in Sockets, session[s].at \in Serving, EndSession(s)
  PROVE  SessionInv'
<1>0. AuthorityInv /\ AnswersInv /\ slot = s
  BY OneServing DEF SessionInv
<1>1. /\ session' = [session EXCEPT ![s] = NoSession] /\ slot' = NoSocket /\ served' = 0
      /\ consent' = {} /\ requests' = <<>> /\ pending' = NoAsk /\ controls' = <<>>
      /\ setting' = NoAsk /\ delivering' = NoAsk
      /\ answer' = [a \in Calls |-> IF answer[a] \in Held THEN "no" ELSE answer[a]]
      /\ done' = {a \in done : answer[a] = "ok"} /\ UNCHANGED <<credential, issued, handlers>>
  BY DEF EndSession, authority
<1>2. /\ session' \in [Sockets -> SessionType] /\ session'[s].at = "idle"
      /\ \A u \in Sockets \ {s} : session'[u] = session[u]
  <2>1. NoSession \in SessionType
    BY <1>0 DEF NoSession, SessionType, AuthorityInv
  <2> QED BY <1>0, <1>1, <2>1 DEF AuthorityInv, NoSession
<1>3. AuthorityInv'
  <2>1. \A u \in Sockets : session'[u].at \notin Serving /\ slot' # u
    BY <1>0, <1>1, <1>2 DEF AuthorityInv, Serving
  <2> QED BY <1>0, <1>1, <1>2, <2>1 DEF AuthorityInv, SessionType
<1>4. <<>> \in Seq(Asks) /\ <<>> \in Seq(ControlType) /\ Len(<<>>) = 0
  BY EmptySeq
<1>5. QueuesTyped'
  BY <1>0, <1>1, <1>4 DEF AnswersInv, QueuesTyped
<1>6. AnswersAreTrue' /\ DeliveryAwaited'
  BY <1>0, <1>1 DEF AnswersInv, QueuesTyped, AnswersAreTrue, DeliveryAwaited
<1> QED BY <1>3, <1>5, <1>6 DEF SessionInv, AnswersInv

\* Connecting, and the check with which a turn begins.
LEMMA ConnectStep ==
  ASSUME SessionInv, NEW s \in Sockets,
         Authenticate(s) \/ Register(s) \/ CloseSeen(s) \/ SocketEnds(s) \/ Recheck(s)
  PROVE  SessionInv'
<1>0. AuthorityInv /\ AnswersInv
  BY DEF SessionInv
<1>1. CASE Authenticate(s)
  <2>1. /\ session[s].at = "idle" /\ credential # 0 /\ UNCHANGED <<authority, handlers, sessionState>>
        /\ session' = [session EXCEPT ![s] =
             [at |-> "authenticated", credential |-> credential, closing |-> session[s].closing]]
    BY <1>0, <1>1 DEF Authenticate, AuthorityInv
  <2>2. [at |-> "authenticated", credential |-> credential, closing |-> session[s].closing]
           \in SessionType
    BY <1>0 DEF AuthorityInv, SessionType
  <2>3. /\ session' \in [Sockets -> SessionType]
        /\ session'[s].at = "authenticated" /\ session'[s].credential = credential
        /\ \A u \in Sockets \ {s} : session'[u] = session[u]
    BY <1>0, <2>1, <2>2 DEF AuthorityInv
  <2>4. slot # s
    BY <1>0, <2>1 DEF AuthorityInv, Serving
  <2> QED BY <1>0, <2>1, <2>3, <2>4
      DEF SessionInv, AuthorityInv, SessionType, AnswersInv, QueuesTyped, DeliveryAwaited,
          AnswersAreTrue, sessionState, queues, authority, Serving
<1>2. CASE Register(s)
  <2>0. session[s].at = "authenticated" /\ slot # s
    BY <1>0, <1>2 DEF Register, AuthorityInv, Serving
  <2>1. UNCHANGED <<authority, handlers, queues, answer, delivering, done, served>>
    BY <1>2 DEF Register
  <2>2. CASE slot = NoSocket
    <3>1. slot' = s /\ session' = [session EXCEPT ![s].at = "top"]
      BY <1>2, <2>2 DEF Register, Vacant
    <3>2. /\ session' \in [Sockets -> SessionType]
          /\ session'[s].at = "top" /\ session'[s].credential = session[s].credential
          /\ \A u \in Sockets \ {s} : session'[u] = session[u]
      BY <1>0, <3>1 DEF AuthorityInv, SessionType, Serving
    <3>3. served = 0 /\ delivering = NoAsk
      BY <1>0, <2>2 DEF AuthorityInv, AnswersInv, DeliveryAwaited
    <3> QED BY <1>0, <2>0, <2>1, <2>2, <3>1, <3>2, <3>3
        DEF SessionInv, AuthorityInv, SessionType, AnswersInv, QueuesTyped, DeliveryAwaited,
            AnswersAreTrue, queues, authority, Serving
  <2>3. CASE slot # NoSocket
    <3>1. slot' = slot /\ session' = [session EXCEPT ![s] = NoSession]
      BY <1>2, <2>3 DEF Register, Vacant
    <3>2. NoSession \in SessionType /\ NoSession.at = "idle"
      BY <1>0 DEF NoSession, SessionType, AuthorityInv
    <3>3. /\ session' \in [Sockets -> SessionType] /\ session'[s].at = "idle"
          /\ \A u \in Sockets \ {s} : session'[u] = session[u]
      BY <1>0, <3>1, <3>2 DEF AuthorityInv
    <3> QED BY <1>0, <2>0, <2>1, <3>1, <3>3
        DEF SessionInv, AuthorityInv, SessionType, AnswersInv, QueuesTyped, DeliveryAwaited,
            AnswersAreTrue, queues, authority, Serving
  <2> QED BY <2>2, <2>3
<1>3. CASE CloseSeen(s) \/ SocketEnds(s)
  BY <1>3, EndStep DEF CloseSeen, SocketEnds, Serving
<1>4. CASE Recheck(s)
  <2>1. session[s].at = "top"
    BY <1>4 DEF Recheck
  <2>2. CASE Rechecked(s)
    <3>1. /\ session' = [session EXCEPT ![s].at = "waiting"]
          /\ UNCHANGED <<authority, handlers, sessionState>> /\ credential = session[s].credential
      BY <1>4, <2>2 DEF Recheck, Rechecked, StillAuthorized
    <3>2. /\ session' \in [Sockets -> SessionType]
          /\ slot = s /\ session'[s].at = "waiting" /\ session'[s].credential = session[s].credential
          /\ \A u \in Sockets : session'[u].at # "idle" => session'[u].credential # 0
          /\ \A u \in Sockets : session'[u].at \in Serving <=> slot = u
      BY <1>0, <2>1, <3>1, SessionMoves DEF Serving
    <3>3. served = 0 /\ delivering = NoAsk
      BY <1>0, <2>1, <3>1, <3>2 DEF AuthorityInv, AnswersInv, DeliveryAwaited
    <3> QED BY <1>0, <3>1, <3>2, <3>3
        DEF SessionInv, AuthorityInv, SessionType, AnswersInv, QueuesTyped, DeliveryAwaited,
            AnswersAreTrue, sessionState, queues, authority, Serving
  <2>3. CASE ~Rechecked(s)
    BY <1>4, <2>1, <2>3, EndStep DEF Recheck, Serving
  <2> QED BY <2>2, <2>3
<1> QED BY <1>1, <1>2, <1>3, <1>4

\* One turn of the loop: the first without authority is the only one.
LEMMA TurnStep ==
  ASSUME SessionInv, NEW s \in Sockets, NEW to \in {"top", "delivering"}, Turn(s, to)
  PROVE  /\ AuthorityInv' /\ slot = s /\ slot' = s /\ session'[s].at = to
         /\ delivering = NoAsk /\ handlers' = handlers
<1>0. AuthorityInv /\ AnswersInv
  BY DEF SessionInv
<1>1. /\ session[s].at = "waiting" /\ session' = [session EXCEPT ![s].at = to]
      /\ served' = IF StillAuthorized(s) THEN served ELSE served + 1
      /\ UNCHANGED <<credential, issued, handlers, slot>>
  BY DEF Turn, authority
<1>2. /\ session' \in [Sockets -> SessionType]
      /\ slot = s /\ session'[s].at = to /\ session'[s].credential = session[s].credential
      /\ \A u \in Sockets : session'[u].at # "idle" => session'[u].credential # 0
      /\ \A u \in Sockets : session'[u].at \in Serving <=> slot = u
  BY <1>0, <1>1, SessionMoves DEF Serving
<1>3. served = 0 /\ delivering = NoAsk
  BY <1>0, <1>1, <1>2 DEF AuthorityInv, AnswersInv, DeliveryAwaited
<1>4. served' \in {0, 1} /\ (served' = 1 => session[s].credential # credential)
  BY <1>1, <1>3 DEF StillAuthorized
<1>5. AuthorityInv'
  BY <1>0, <1>1, <1>2, <1>4 DEF AuthorityInv, SessionType
<1> QED BY <1>1, <1>2, <1>3, <1>5

\* The branches of the loop but for a delivery.
LEMMA LoopStep ==
  ASSUME SessionInv, NEW s \in Sockets,
         \/ TakeRequest(s) \/ TakeControl(s) \/ Heartbeat(s)
         \/ \E allowed \in {{}, {"events", "configuration"}} : TriggerCapabilities(s, allowed)
         \/ \E a \in Settings, accepted \in BOOLEAN : TriggerConfigurationResult(s, a, accepted)
         \/ \E a \in Asks : SnapshotUnavailable(s, a)
         \/ \E a \in Asks \cup {NoAsk} : RefuseEvent(s, a)
  PROVE  SessionInv'
<1>0. AuthorityInv /\ QueuesTyped /\ DeliveryAwaited /\ AnswersAreTrue
  BY DEF SessionInv, AnswersInv
<1>1. Turn(s, "top") /\ delivering' = delivering
  BY DEF TakeRequest, TakeControl, Heartbeat, TriggerCapabilities, TriggerConfigurationResult,
     SnapshotUnavailable, RefuseEvent
<1>2. AuthorityInv' /\ delivering' = NoAsk /\ handlers' = handlers
  BY <1>1, TurnStep
<1>3. SUFFICES QueuesTyped' /\ AnswersAreTrue'
  BY <1>2 DEF SessionInv, AnswersInv, DeliveryAwaited
<1>4. CASE TakeRequest(s)
  <2>1. Head(requests) \in Asks
    BY <1>0, <1>4, HeadTailProperties DEF TakeRequest, QueuesTyped
  <2>2. requests' = <<>> /\ UNCHANGED <<consent, controls, setting, done>>
    BY <1>4 DEF TakeRequest
  <2>3. pending' \in Asks \cup {NoAsk} /\ (Answer(Head(requests), "no") \/ UNCHANGED answer)
    BY <1>0, <1>4, <2>1 DEF TakeRequest, QueuesTyped
  <2>4. answer' \in [Calls -> {"open", "late", "gone", "ok", "no"}]
        /\ \A c \in Calls : answer'[c] = "ok" => answer[c] = "ok"
    BY <1>0, <2>3, QueueAnswered DEF QueuesTyped
  <2>5. <<>> \in Seq(Asks) /\ Len(<<>>) = 0
    BY EmptySeq
  <2> QED BY <1>0, <1>2, <2>2, <2>3, <2>4, <2>5 DEF QueuesTyped, AnswersAreTrue
<1>5. CASE TakeControl(s)
  <2> DEFINE c == Head(controls)
             held == IF Awaited(setting) THEN setting ELSE NoAsk
  <2>1. c \in ControlType /\ Tail(controls) \in Seq(ControlType) /\ Len(Tail(controls)) <= MaxControls
    BY <1>0, <1>5, HeadTailProperties DEF TakeControl, QueuesTyped
  <2>2. controls' = Tail(controls) /\ UNCHANGED <<consent, requests, pending, done>>
    BY <1>5 DEF TakeControl
  <2>3. \/ c.what = "event" /\ UNCHANGED <<setting, answer>>
        \/ c.what = "configure" /\ Answer(c.of, "no") /\ setting' = held
        \/ /\ c.what = "configure" /\ setting' = (IF Awaited(c.of) THEN c.of ELSE NoAsk)
           /\ answer' = [a \in Calls |->
                IF a \in {setting, c.of} \ {setting'} THEN "no" ELSE answer[a]]
    BY <1>5 DEF TakeControl
  <2>4. c.what = "configure" => c.of \in Settings
    BY <2>1 DEF ControlType
  <2>5. setting' \in Settings \cup {NoAsk}
    BY <1>0, <2>3, <2>4 DEF QueuesTyped
  <2>6. answer' \in [Calls -> {"open", "late", "gone", "ok", "no"}]
        /\ \A a \in Calls : answer'[a] = "ok" => answer[a] = "ok"
    BY <1>0, <2>3, QueueAnswered DEF QueuesTyped
  <2> QED BY <1>0, <1>2, <2>1, <2>2, <2>5, <2>6 DEF QueuesTyped, AnswersAreTrue
<1>6. CASE Heartbeat(s)
  <2>1. /\ pending' \in {pending, NoAsk} /\ (Answer(pending, "no") \/ UNCHANGED answer)
        /\ UNCHANGED <<consent, requests, controls, setting, done>>
    BY <1>6 DEF Heartbeat
  <2>2. answer' \in [Calls -> {"open", "late", "gone", "ok", "no"}]
        /\ \A a \in Calls : answer'[a] = "ok" => answer[a] = "ok"
    BY <1>0, <2>1, QueueAnswered DEF QueuesTyped
  <2> QED BY <1>0, <1>2, <2>1, <2>2 DEF QueuesTyped, AnswersAreTrue
<1>7. CASE \E allowed \in {{}, {"events", "configuration"}} : TriggerCapabilities(s, allowed)
  <2>1. /\ consent' \subseteq {"events", "configuration"}
        /\ UNCHANGED <<requests, pending, controls, setting, answer, done>>
    BY <1>7 DEF TriggerCapabilities
  <2> QED BY <1>0, <1>2, <2>1 DEF QueuesTyped, AnswersAreTrue
<1>8. ASSUME NEW a \in Settings, NEW accepted \in BOOLEAN, TriggerConfigurationResult(s, a, accepted)
      PROVE  QueuesTyped' /\ AnswersAreTrue'
  <2>1. UNCHANGED <<consent, requests, pending, controls>> /\ setting' \in {setting, NoAsk}
    BY <1>8 DEF TriggerConfigurationResult
  <2>2. CASE a # setting
    <3>1. UNCHANGED <<answer, done>>
      BY <1>8, <2>2 DEF TriggerConfigurationResult
    <3> QED BY <1>0, <1>2, <2>1, <3>1 DEF QueuesTyped, AnswersAreTrue
  <2>3. CASE a = setting /\ ~accepted
    <3>1. Answer(a, "no") /\ done' = done
      BY <1>8, <2>3 DEF TriggerConfigurationResult
    <3>2. answer' \in [Calls -> {"open", "late", "gone", "ok", "no"}]
          /\ \A c \in Calls : answer'[c] = "ok" => answer[c] = "ok"
      BY <1>0, <3>1, QueueAnswered
    <3> QED BY <1>0, <1>2, <2>1, <3>1, <3>2 DEF QueuesTyped, AnswersAreTrue
  <2>4. CASE a = setting /\ accepted
    <3>1. (Answer(a, "no") \/ Answer(a, "ok")) /\ done' = done \cup {a} /\ a \in Calls
      BY <1>8, <2>4 DEF TriggerConfigurationResult, Calls
    <3>2. answer' \in [Calls -> {"open", "late", "gone", "ok", "no"}]
          /\ \A c \in Calls : answer'[c] = "ok" => answer[c] = "ok" \/ c = a
      BY <1>0, <3>1, QueueAnswered
    <3> QED BY <1>0, <1>2, <2>1, <3>1, <3>2 DEF QueuesTyped, AnswersAreTrue
  <2> QED BY <2>2, <2>3, <2>4
<1>9. ASSUME NEW a \in Asks \cup {NoAsk}, SnapshotUnavailable(s, a) \/ RefuseEvent(s, a)
      PROVE  QueuesTyped' /\ AnswersAreTrue'
  <2>1. /\ pending' \in {pending, NoAsk}
        /\ (Answer(pending, "no") \/ Answer(a, "no") \/ UNCHANGED answer)
        /\ UNCHANGED <<consent, requests, controls, setting, done>>
    BY <1>9 DEF SnapshotUnavailable, RefuseEvent
  <2>2. answer' \in [Calls -> {"open", "late", "gone", "ok", "no"}]
        /\ \A c \in Calls : answer'[c] = "ok" => answer[c] = "ok"
    BY <1>0, <2>1, QueueAnswered DEF QueuesTyped
  <2> QED BY <1>0, <1>2, <2>1, <2>2 DEF QueuesTyped, AnswersAreTrue
<1> QED BY <1>4, <1>5, <1>6, <1>7, <1>8, <1>9

\* A delivery, and how it ends.
LEMMA DeliveryStep ==
  ASSUME SessionInv, NEW s \in Sockets,
         \/ \E a \in Asks \cup {NoAsk} : ReceiveEvent(s, a)
         \/ PostSnapshot(s)
         \/ \E status \in {"delivered", "retry", "elided"} : FinishDelivery(s, status)
  PROVE  SessionInv'
<1>0. AuthorityInv /\ QueuesTyped /\ DeliveryAwaited /\ AnswersAreTrue
  BY DEF SessionInv, AnswersInv
<1>1. ASSUME NEW a \in Asks \cup {NoAsk}, ReceiveEvent(s, a) PROVE SessionInv'
  <2>1. /\ Turn(s, "delivering") /\ delivering' = a /\ (a = NoAsk \/ a = pending)
        /\ UNCHANGED <<consent, requests, pending, controls, setting, answer, done>>
    BY <1>1 DEF ReceiveEvent, Authorized
  <2>2. AuthorityInv' /\ slot' = s /\ session'[s].at = "delivering" /\ handlers' = handlers
    BY <2>1, TurnStep
  <2> QED BY <1>0, <2>1, <2>2 DEF SessionInv, AnswersInv, QueuesTyped, DeliveryAwaited, AnswersAreTrue
<1>2. CASE PostSnapshot(s)
  <2>1. /\ done' = done \cup {delivering} /\ delivering # NoAsk
        /\ UNCHANGED <<authority, handlers, slot, session, queues, answer, delivering, served>>
    BY <1>2 DEF PostSnapshot
  <2>2. delivering \in Calls
    BY <1>0, <2>1 DEF QueuesTyped, Calls
  <2> QED BY <1>0, <2>1, <2>2
      DEF SessionInv, AuthorityInv, SessionType, AnswersInv, QueuesTyped, DeliveryAwaited,
          AnswersAreTrue, authority, queues
<1>3. ASSUME NEW status \in {"delivered", "retry", "elided"}, FinishDelivery(s, status)
      PROVE  SessionInv'
  <2>1. /\ session[s].at = "delivering" /\ session' = [session EXCEPT ![s].at = "top"]
        /\ delivering' = NoAsk
        /\ UNCHANGED <<authority, handlers, slot, consent, requests, controls, setting, done, served>>
    BY <1>3 DEF FinishDelivery
  <2>2. /\ session' \in [Sockets -> SessionType]
        /\ slot = s /\ session'[s].at = "top" /\ session'[s].credential = session[s].credential
        /\ \A u \in Sockets : session'[u].at # "idle" => session'[u].credential # 0
        /\ \A u \in Sockets : session'[u].at \in Serving <=> slot = u
    BY <1>0, <2>1, SessionMoves DEF Serving
  <2>3. AuthorityInv'
    BY <1>0, <2>1, <2>2 DEF AuthorityInv, SessionType, authority
  <2>4. QueuesTyped' /\ AnswersAreTrue'
    <3>1. CASE delivering = NoAsk \/ status = "retry"
      <4>1. UNCHANGED <<answer, pending>>
        BY <1>3, <3>1 DEF FinishDelivery
      <4> QED BY <1>0, <2>1, <4>1 DEF QueuesTyped, AnswersAreTrue
    <3>2. CASE delivering # NoAsk /\ status = "elided"
      <4>1. Answer(pending, "no") /\ pending' = NoAsk
        BY <1>3, <3>2 DEF FinishDelivery
      <4>2. answer' \in [Calls -> {"open", "late", "gone", "ok", "no"}]
            /\ \A c \in Calls : answer'[c] = "ok" => answer[c] = "ok"
        BY <1>0, <4>1, QueueAnswered
      <4> QED BY <1>0, <2>1, <4>1, <4>2 DEF QueuesTyped, AnswersAreTrue
    <3>3. CASE delivering # NoAsk /\ status = "delivered"
      <4>1. Answer(pending, "ok") /\ pending' = NoAsk /\ delivering \in done
        BY <1>3, <3>3 DEF FinishDelivery
      <4>2. pending \in done
        BY <1>0, <3>3, <4>1 DEF DeliveryAwaited
      <4>3. answer' \in [Calls -> {"open", "late", "gone", "ok", "no"}]
            /\ \A c \in Calls : answer'[c] = "ok" => answer[c] = "ok" \/ c = pending
        BY <1>0, <4>1, QueueAnswered
      <4> QED BY <1>0, <2>1, <4>1, <4>2, <4>3 DEF QueuesTyped, AnswersAreTrue
    <3> QED BY <3>1, <3>2, <3>3
  <2> QED BY <2>1, <2>3, <2>4 DEF SessionInv, AnswersInv, DeliveryAwaited
<1> QED BY <1>1, <1>2, <1>3

\* The invariant holds from the start.
LEMMA SessionInvariant == CameraSessionSpec => []SessionInv
<1>1. CameraSessionInit => SessionInv
  <2> SUFFICES ASSUME CameraSessionInit PROVE SessionInv
    OBVIOUS
  <2>1. NoSession \in SessionType /\ NoSession.at = "idle"
    BY DEF CameraSessionInit, NoSession, SessionType
  <2>2. AuthorityInv
    BY <2>1 DEF CameraSessionInit, AuthorityInv, Serving
  <2>3. <<>> \in Seq(Asks) /\ <<>> \in Seq(ControlType) /\ Len(<<>>) = 0
    BY EmptySeq
  <2>4. QueuesTyped
    BY <2>3 DEF CameraSessionInit, QueuesTyped
  <2> QED BY <2>2, <2>4 DEF CameraSessionInit, SessionInv, AnswersInv, DeliveryAwaited, AnswersAreTrue
<1>2. SessionInv /\ [CameraSessionNext]_cameraSessionVars => SessionInv'
  <2> SUFFICES ASSUME SessionInv, [CameraSessionNext]_cameraSessionVars PROVE SessionInv'
    OBVIOUS
  <2>1. CASE UNCHANGED cameraSessionVars
    BY <2>1 DEF cameraSessionVars, authority, queues, SessionInv, AuthorityInv, SessionType, AnswersInv,
       QueuesTyped, DeliveryAwaited, AnswersAreTrue
  <2>2. CASE TelescopeEvent \/ \E a \in Calls : Ask(a) \/ DeadlinePasses(a) \/ GiveUp(a)
    <3>1. CASE TelescopeEvent
      BY <3>1, CallStep
    <3>2. CASE \E a \in Calls : Ask(a) \/ DeadlinePasses(a) \/ GiveUp(a)
      BY <3>2, CallStep
    <3> QED BY <2>2, <3>1, <3>2
  <2> QED BY <2>1, <2>2, OwnerStep, ConnectStep, LoopStep, DeliveryStep DEF CameraSessionNext
<1> QED BY <1>1, <1>2, PTL DEF CameraSessionSpec

\* The types of a camera's sockets, its queues and its calls (device_transport.rs).
THEOREM SessionTyped == CameraSessionSpec => []CameraSessionTypeOK
<1>1. SessionInv => CameraSessionTypeOK
  <2> SUFFICES ASSUME SessionInv PROVE CameraSessionTypeOK
    OBVIOUS
  <2>1. \A s \in Sockets : session[s].at \in {"idle", "authenticated"} \cup Serving
                          /\ session[s].credential \in 0..issued
    BY DEF SessionInv, AuthorityInv, SessionType
  <2> QED BY <2>1 DEF SessionInv, AuthorityInv, AnswersInv, QueuesTyped, CameraSessionTypeOK
<1> QED BY <1>1, SessionInvariant, PTL

\* For any sockets, calls and credentials: a camera whose credential is gone is served
\* at most one more turn of its loop, and only on the connection in the table (the
\* recheck at the top of the loop in device_transport.rs).
THEOREM StaleOnce == CameraSessionSpec => []StaleSessionServedOnce
<1>1. SessionInv => StaleSessionServedOnce
  BY DEF SessionInv, AuthorityInv, StaleSessionServedOnce
<1> QED BY <1>1, SessionInvariant, PTL

\* An owner is told of success only for the very request that was carried out: what a
\* session that ended or lost its authority still owed, and what comes late, is not
\* answered with ok (the snapshot and rules handlers of device_transport.rs).
THEOREM TrueAnswers == CameraSessionSpec => []AnswersAreTrue
<1>1. SessionInv => AnswersAreTrue
  BY DEF SessionInv, AnswersInv
<1> QED BY <1>1, SessionInvariant, PTL

---------------------------------------------------------------------------
(***************************************************************************)
(* TimelapseUploads. UploadSlotsHeld is inductive once the set of slots is *)
(* known to be finite.                                                     *)
(***************************************************************************)

\* Connections are counted up to the bound.
LEMMA NextGeneration ==
  ASSUME NEW g \in 0..MaxConnections, g < MaxConnections
  PROVE  g + 1 \in 0..MaxConnections
BY UploadConstants

\* The states of a request and of a connection never leave their types.
THEOREM UploadTypes == UploadsSpec => []UploadsTypeOK
<1>1. UploadsInit => UploadsTypeOK
  BY UploadConstants DEF UploadsInit, UploadsTypeOK, Offline, Connection, NoUpload, Running
<1>2. UploadsTypeOK /\ [UploadsNext]_uploadVars => UploadsTypeOK'
  <2> SUFFICES ASSUME UploadsTypeOK, [UploadsNext]_uploadVars PROVE UploadsTypeOK'
    OBVIOUS
  <2>1. ASSUME NEW c \in Cameras, Reconnect(c) PROVE UploadsTypeOK'
    <3> USE DEF UploadsTypeOK
    <3>0. /\ generations' = generations + 1 /\ generations < MaxConnections
          /\ generations \in 0..MaxConnections
      BY <2>1 DEF Reconnect
    <3>1. generations' \in 0..MaxConnections
      <4> HIDE DEF UploadsTypeOK
      <4> QED BY <3>0, NextGeneration
    <3>2. connections' \in [Cameras -> [generation : 0..MaxConnections, closing : BOOLEAN,
                                        timelapses : BOOLEAN]]
      BY <2>1, <3>1 DEF Reconnect, Connection
    <3> QED BY <2>1, <3>1, <3>2 DEF Reconnect
  <2> USE UploadConstants DEF UploadsTypeOK, Running
  <2>2. ASSUME NEW c \in Cameras, Disconnected(c) PROVE UploadsTypeOK'
    BY <2>2 DEF Disconnected, Offline, Connection
  <2>3. ASSUME NEW c \in Cameras, OrderClose(c) PROVE UploadsTypeOK'
    BY <2>3 DEF OrderClose
  <2>4. ASSUME NEW c \in Cameras, RevokeCamera(c) PROVE UploadsTypeOK'
    BY <2>4 DEF RevokeCamera
  <2>5. ASSUME NEW c \in Cameras, OfferTimelapses(c) PROVE UploadsTypeOK'
    BY <2>5 DEF OfferTimelapses
  <2>6. ASSUME NEW u \in Uploads, NEW c \in Cameras, AuthenticateUpload(u, c)
        PROVE UploadsTypeOK'
    BY <2>6 DEF AuthenticateUpload
  <2>7. ASSUME NEW u \in Uploads, TakeSlot(u) PROVE UploadsTypeOK'
    BY <2>7 DEF TakeSlot, NoUpload
  <2>8. ASSUME NEW u \in Uploads, EndUpload(u) PROVE UploadsTypeOK'
    BY <2>8 DEF EndUpload, Released, NoUpload
  <2>9. ASSUME NEW u \in Uploads, NEW from \in Running, NEW to \in Running, Proceed(u, from, to)
        PROVE UploadsTypeOK'
    BY <2>8, <2>9 DEF Proceed
  <2>10. CASE UNCHANGED uploadVars
    BY <2>10 DEF uploadVars
  <2> QED
    BY <2>1, <2>2, <2>3, <2>4, <2>5, <2>6, <2>7, <2>8, <2>9, <2>10
    DEF UploadsNext, UploadCancelled, UploadFails, BodyReceived, PrepareMovie, PostMovie
<1> QED BY <1>1, <1>2, PTL DEF UploadsSpec

---------------------------------------------------------------------------
Ongoing == {u \in Uploads : upload[u].at \in Running}

\* A request that runs holds a slot of its own, and finitely many are taken.
Slotted ==
  /\ active = {upload[u].camera : u \in Ongoing}
  /\ \A u, v \in Ongoing : upload[u].camera = upload[v].camera => u = v
  /\ IsFiniteSet(active) /\ Cardinality(active) <= Slots

\* A request that moves on, without taking or freeing a slot.
LEMMA SlotKept ==
  ASSUME UploadsTypeOK, Slotted, active' = active, NEW u \in Uploads,
         upload' \in [Uploads -> [at : Running \cup {"idle", "authenticated"},
                             camera : Cameras \cup {NoCamera}, generation : 0..MaxConnections]],
         \A v \in Uploads : v # u => upload'[v] = upload[v],
         upload'[u].at \in Running <=> upload[u].at \in Running,
         upload[u].at \in Running => upload'[u].camera = upload[u].camera
  PROVE  Slotted'
<1>1. Ongoing' = Ongoing
  BY DEF Ongoing
<1>2. \A v \in Ongoing : upload'[v].camera = upload[v].camera
  BY DEF Ongoing
<1> QED BY <1>1, <1>2 DEF Slotted

\* A slot is taken by a camera that has none.
LEMMA SlotTaken ==
  ASSUME UploadsTypeOK, Slotted, NEW u \in Uploads, TakeSlot(u)
  PROVE  Slotted'
<1> DEFINE c == upload[u].camera
<1>1. u \notin Ongoing
  BY DEF TakeSlot, Ongoing, Running
<1>2. \A v \in Uploads : v # u => upload'[v] = upload[v]
  BY DEF TakeSlot, UploadsTypeOK
<1>3. CASE connections[c].timelapses /\ ~connections[c].closing /\ SlotFree(c)
  <2>1. active' = active \cup {c} /\ c \notin active
    BY <1>3 DEF TakeSlot, SlotFree
  <2>2. upload'[u].at = "receiving" /\ upload'[u].camera = c
    BY <1>3 DEF TakeSlot, UploadsTypeOK
  <2>3. Ongoing' = Ongoing \cup {u}
    BY <1>2, <2>2 DEF Ongoing, Running
  <2>4. \A v \in Ongoing : v # u /\ upload'[v] = upload[v]
    BY <1>1, <1>2 DEF Ongoing
  <2>5. IsFiniteSet(active') /\ Cardinality(active') = Cardinality(active) + 1
    BY <2>1, FS_AddElement DEF Slotted
  <2>6. Cardinality(active) \in Nat /\ Cardinality(active) < Slots
    BY <1>3, FS_CardinalityType DEF SlotFree, Slotted
  <2>7. Cardinality(active') <= Slots
    BY <2>5, <2>6, UploadConstants
  <2>8. active' = {upload'[v].camera : v \in Ongoing'}
    BY <2>1, <2>2, <2>3, <2>4 DEF Slotted
  <2>9. \A v, w \in Ongoing' : upload'[v].camera = upload'[w].camera => v = w
    BY <2>1, <2>2, <2>3, <2>4 DEF Slotted
  <2> QED BY <2>5, <2>7, <2>8, <2>9 DEF Slotted
<1>4. CASE ~(connections[c].timelapses /\ ~connections[c].closing /\ SlotFree(c))
  <2>1. active' = active /\ upload' = [upload EXCEPT ![u] = NoUpload]
    BY <1>4 DEF TakeSlot
  <2>2. Ongoing' = Ongoing
    BY <1>1, <1>2, <2>1 DEF Ongoing, NoUpload, Running, UploadsTypeOK
  <2>3. \A v \in Ongoing : upload'[v] = upload[v]
    BY <1>1, <1>2 DEF Ongoing
  <2> QED BY <2>1, <2>2, <2>3 DEF Slotted
<1> QED BY <1>3, <1>4

\* The slot that is freed is that of the request that ends, and of no other.
LEMMA SlotFreed ==
  ASSUME UploadsTypeOK, Slotted, NEW u \in Uploads, upload[u].at \in Running, EndUpload(u)
  PROVE  Slotted'
<1>1. u \in Ongoing
  BY DEF Ongoing
<1>2. Ongoing' = Ongoing \ {u}
  BY DEF EndUpload, Ongoing, NoUpload, Running, UploadsTypeOK
<1>3. \A v \in Ongoing' : v \in Ongoing /\ v # u /\ upload'[v] = upload[v]
  BY <1>2 DEF EndUpload, Ongoing, UploadsTypeOK
<1>4. active' = active \ {upload[u].camera} /\ upload[u].camera \in active
  BY <1>1 DEF EndUpload, Released, Slotted
<1>5. active' = {upload'[v].camera : v \in Ongoing'}
  <2>1. ASSUME NEW x \in active' PROVE \E v \in Ongoing' : x = upload'[v].camera
    <3>1. PICK v \in Ongoing : x = upload[v].camera
      BY <1>4, <2>1 DEF Slotted
    <3>2. v # u
      BY <1>4, <2>1, <3>1
    <3> QED BY <1>2, <1>3, <3>1, <3>2
  <2>2. ASSUME NEW v \in Ongoing' PROVE upload'[v].camera \in active'
    <3>1. upload[v].camera \in active /\ upload[v].camera # upload[u].camera
      BY <1>1, <1>3, <2>2 DEF Slotted
    <3> QED BY <1>3, <1>4, <2>2, <3>1
  <2> QED BY <2>1, <2>2
<1>6. \A v, w \in Ongoing' : upload'[v].camera = upload'[w].camera => v = w
  BY <1>3 DEF Slotted
<1>7. IsFiniteSet(active') /\ Cardinality(active') = Cardinality(active) - 1
  BY <1>4, FS_RemoveElement DEF Slotted
<1>8. Cardinality(active') <= Slots
  BY <1>7, FS_CardinalityType, UploadConstants DEF Slotted
<1> QED BY <1>5, <1>6, <1>7, <1>8 DEF Slotted

\* A step of a request that runs: on, or to its end.
LEMMA SlotProceeds ==
  ASSUME UploadsTypeOK, Slotted, UploadsTypeOK', NEW u \in Uploads,
         NEW from \in Running, NEW to \in Running, Proceed(u, from, to)
  PROVE  Slotted'
<1>1. upload[u].at \in Running
  BY DEF Proceed
<1>2. CASE EndUpload(u)
  BY <1>1, <1>2, SlotFreed
<1>3. CASE upload' = [upload EXCEPT ![u].at = to] /\ active' = active
  <2>1. /\ \A v \in Uploads : v # u => upload'[v] = upload[v]
        /\ upload'[u].at = to /\ upload'[u].camera = upload[u].camera
    BY <1>3 DEF UploadsTypeOK
  <2> QED BY <1>1, <1>3, <2>1, SlotKept DEF UploadsTypeOK
<1> QED BY <1>2, <1>3 DEF Proceed

---------------------------------------------------------------------------
\* For every number of cameras, requests and slots, the slots are exactly the
\* uploads that run, one per camera and never more than the limit
\* (timelapse_upload and TimelapseLease::drop).
THEOREM UploadSlotsAreHeld == UploadsSpec => []UploadSlotsHeld
<1>1. UploadsInit => Slotted
  <2> SUFFICES ASSUME UploadsInit PROVE Slotted
    OBVIOUS
  <2>1. Ongoing = {} /\ active = {}
    BY DEF UploadsInit, Ongoing, NoUpload, Running
  <2> QED BY <2>1, FS_EmptySet, UploadConstants DEF Slotted
<1>2. UploadsTypeOK /\ UploadsTypeOK' /\ Slotted /\ [UploadsNext]_uploadVars => Slotted'
  <2> SUFFICES ASSUME UploadsTypeOK, UploadsTypeOK', Slotted, [UploadsNext]_uploadVars
               PROVE Slotted'
    OBVIOUS
  <2>1. CASE UNCHANGED <<active, upload>>
    BY <2>1 DEF Slotted, Ongoing
  <2>2. ASSUME NEW u \in Uploads, NEW c \in Cameras, AuthenticateUpload(u, c) PROVE Slotted'
    <3>1. /\ active' = active
          /\ \A v \in Uploads : v # u => upload'[v] = upload[v]
          /\ upload[u].at = "idle" /\ upload'[u].at = "authenticated"
      BY <2>2 DEF AuthenticateUpload, UploadsTypeOK
    <3> QED BY <3>1, SlotKept DEF UploadsTypeOK, Running
  <2>3. ASSUME NEW u \in Uploads, TakeSlot(u) PROVE Slotted'
    BY <2>3, SlotTaken
  <2>4. ASSUME NEW u \in Uploads, UploadCancelled(u) \/ UploadFails(u) PROVE Slotted'
    BY <2>4, SlotFreed DEF UploadCancelled, UploadFails
  <2>5. ASSUME NEW u \in Uploads, BodyReceived(u) \/ PrepareMovie(u) \/ PostMovie(u)
        PROVE Slotted'
    BY <2>5, SlotProceeds DEF BodyReceived, PrepareMovie, PostMovie, Running
  <2> QED
    BY <2>1, <2>2, <2>3, <2>4, <2>5
    DEF UploadsNext, uploadVars, Reconnect, Disconnected, OrderClose, RevokeCamera,
        OfferTimelapses
<1>3. Slotted => UploadSlotsHeld
  BY DEF Slotted, Ongoing, UploadSlotsHeld
<1> QED BY <1>1, <1>2, <1>3, UploadTypes, PTL DEF UploadsSpec

===============================================================================
