----------------------------- MODULE CameraSession -----------------------------
(***************************************************************************)
(* One pier camera's WebSocket: session() and run() of device_transport.rs *)
(* and the handlers of device_api.rs that take its authority away.  A      *)
(* connection is authenticated, entered into the connection table if it is *)
(* the only one, and then serves one message, request, control or          *)
(* heartbeat per turn of its loop; each turn begins by checking the        *)
(* credential again and ends at once when the connection has been told to  *)
(* close.  The owner's handlers close the connection and change the        *)
(* database in two steps, in an order of their own.  What a delivery does  *)
(* is the subject of CameraDelivery; here it may reach Discord and ends    *)
(* with a status.  The camera's channels are in CameraDelivery; media      *)
(* capabilities are in TimelapseUploads; observations are left out.        *)
(***************************************************************************)
EXTENDS Naturals, Sequences, FiniteSets

CONSTANTS
  Sockets,         \* connections and attempts at once
  Asks,            \* the owner's snapshot requests
  Settings,        \* the owner's configuration requests
  MaxCredentials,  \* bound on pairings
  MaxControls,     \* capacity of the control channel
  MaxHandlers,     \* bound on the owner's handlers at work together
  MaxCalls,        \* bound on the owner's requests
  NoSocket, NoAsk

ASSUME CameraSessionAssumption ==
  /\ NoSocket \notin Sockets /\ NoAsk \notin Asks \cup Settings
  /\ MaxCredentials \in Nat /\ MaxControls \in Nat

VARIABLES
  credential,  \* device_credentials: the number of the one in force, 0 for none
  issued,      \* how many were ever issued
  handlers,    \* owner handlers between their two steps
  slot,        \* DeviceConnections: the camera's connection
  session,     \* Sockets -> [at, credential, closing]
  consent,     \* what the camera allows: "events", "configuration"
  requests,    \* the connection's queued snapshot request
  pending,     \* the snapshot request the camera was sent
  controls,    \* the connection's queued controls
  setting,     \* pending_configuration
  answer,      \* Asks and Settings -> what their caller has been told; "late"
               \* when the deadline has passed, "gone" when the caller has left;
               \* a settled call is asked again as a new one
  delivering,  \* the snapshot request being delivered, NoAsk for another event
  done,        \* history: calls whose picture Discord has, or whose rules were accepted
  served       \* history: turns the connection took after its credential had gone

authority == <<credential, issued>>
queues == <<consent, requests, pending, controls, setting>>
cameraSessionVars ==
  <<authority, handlers, slot, session, queues, answer, delivering, done, served>>

Calls == Asks \cup Settings
Handlers == {"pair", "revoke"}
Serving == {"top", "waiting", "delivering"}
NoSession == [at |-> "idle", credential |-> 0, closing |-> FALSE]
Waiting == {"open", "late"}
Held == Waiting \cup {"gone"}

CameraSessionTypeOK ==
  /\ credential \in 0..issued /\ issued \in 0..MaxCredentials
  /\ handlers \subseteq Handlers
  /\ slot \in Sockets \cup {NoSocket}
  /\ \A s \in Sockets : /\ session[s].at \in {"idle", "authenticated"} \cup Serving
                        /\ session[s].credential \in 0..issued
  /\ consent \subseteq {"events", "configuration"}
  /\ Len(requests) <= 1 /\ pending \in Asks \cup {NoAsk}
  /\ Len(controls) <= MaxControls /\ setting \in Settings \cup {NoAsk}
  /\ answer \in [Calls -> {"open", "late", "gone", "ok", "no"}]
  /\ delivering \in Asks \cup {NoAsk} /\ done \subseteq Calls
  /\ served \in Nat

CameraSessionInit ==
  /\ credential = 0 /\ issued = 0 /\ handlers = {}
  /\ slot = NoSocket
  /\ session = [s \in Sockets |-> NoSession]
  /\ consent = {} /\ requests = <<>> /\ pending = NoAsk /\ controls = <<>> /\ setting = NoAsk
  /\ answer = [a \in Calls |-> "no"]
  /\ delivering = NoAsk /\ done = {} /\ served = 0

---------------------------------------------------------------------------
\* The owner: device_api.rs and devices.rs.

\* disconnect: the session will see it when it next yields.
Disconnect ==
  session' = IF slot = NoSocket THEN session ELSE [session EXCEPT ![slot].closing = TRUE]

sessionState == <<slot, queues, answer, delivering, done, served>>

Begin(h) ==
  /\ h \notin handlers /\ Cardinality(handlers) < MaxHandlers
  /\ handlers' = handlers \cup {h}

\* pair_device, with a code as in DirectHub; then the old connection is closed.
Pair ==
  /\ issued < MaxCredentials
  /\ issued' = issued + 1 /\ credential' = issued'
  /\ Begin("pair")
  /\ UNCHANGED <<session, sessionState>>

CloseAfterPairing ==
  /\ "pair" \in handlers /\ handlers' = handlers \ {"pair"}
  /\ Disconnect
  /\ UNCHANGED <<authority, sessionState>>

\* revoke and remove close the connection first; then revoke_device, or
\* delete_device with all that refers to it.
CloseBeforeRevoking ==
  /\ Begin("revoke")
  /\ Disconnect
  /\ UNCHANGED <<authority, sessionState>>

RevokeDevice ==
  /\ "revoke" \in handlers /\ handlers' = handlers \ {"revoke"}
  /\ credential' = 0
  /\ UNCHANGED <<issued, session, sessionState>>

\* detach and remove_channel close it too; the routes are CameraDelivery's.
CloseForRoutes ==
  /\ Disconnect
  /\ UNCHANGED <<authority, handlers, sessionState>>

RequestRoom == requests = <<>>

\* DeviceConnections::snapshot and ::configure: try_send, then wait.
Ask(a) ==
  /\ answer[a] \notin Held /\ slot # NoSocket
  /\ Cardinality({c \in Calls : answer[c] \in Held}) < MaxCalls
  /\ \/ a \in Asks /\ RequestRoom /\ requests' = Append(requests, a) /\ UNCHANGED controls
     \/ /\ a \in Settings /\ "configuration" \in consent /\ Len(controls) < MaxControls
        /\ controls' = Append(controls, [what |-> "configure", of |-> a])
        /\ UNCHANGED requests
  /\ answer' = [answer EXCEPT ![a] = "open"] /\ done' = done \ {a}
  /\ UNCHANGED <<authority, handlers, slot, session, consent, pending, setting, delivering,
                 served>>

DeadlinePasses(a) ==
  /\ answer[a] = "open" /\ answer' = [answer EXCEPT ![a] = "late"]
  /\ UNCHANGED <<authority, handlers, slot, session, queues, delivering, done, served>>

\* The caller's own, later timeout, or the caller is gone.
GiveUp(a) ==
  /\ answer[a] \in Waiting /\ answer' = [answer EXCEPT ![a] = "gone"]
  /\ UNCHANGED <<authority, handlers, slot, session, queues, delivering, done, served>>

\* notify_telescope_event: dropped when the queue is full.
TelescopeEvent ==
  /\ slot # NoSocket /\ "events" \in consent
  /\ Len(controls) < MaxControls
  /\ controls' = Append(controls, [what |-> "event", of |-> NoAsk])
  /\ UNCHANGED <<authority, handlers, slot, session, consent, requests, pending, setting,
                 answer, delivering, done, served>>

---------------------------------------------------------------------------
\* session()

Authenticate(s) ==
  /\ session[s].at = "idle" /\ credential # 0
  /\ session' = [session EXCEPT ![s] =
       [at |-> "authenticated", credential |-> credential, closing |-> @.closing]]
  /\ UNCHANGED <<authority, handlers, sessionState>>

Vacant == slot = NoSocket

Register(s) ==
  /\ session[s].at = "authenticated"
  /\ IF Vacant
     THEN /\ slot' = s /\ session' = [session EXCEPT ![s].at = "top"]
     ELSE /\ session' = [session EXCEPT ![s] = NoSession] /\ UNCHANGED slot
  /\ UNCHANGED <<authority, handlers, queues, answer, delivering, done, served>>

\* The future is dropped, and with it every request the connection holds.
EndSession(s) ==
  /\ session' = [session EXCEPT ![s] = NoSession]
  /\ slot' = NoSocket /\ consent' = {} /\ requests' = <<>> /\ pending' = NoAsk
  /\ controls' = <<>> /\ setting' = NoAsk /\ delivering' = NoAsk
  /\ answer' = [a \in Calls |-> IF answer[a] \in Held THEN "no" ELSE answer[a]]
  /\ done' = {a \in done : answer[a] = "ok"} /\ served' = 0
  /\ UNCHANGED <<authority, handlers>>

\* The select is biased to the close signal.
CloseSeen(s) ==
  /\ session[s].at \in Serving /\ session[s].closing
  /\ EndSession(s)

\* The socket fails, is silent for too long, or breaks the protocol.
SocketEnds(s) ==
  /\ session[s].at \in {"waiting", "delivering"}
  /\ EndSession(s)

---------------------------------------------------------------------------
\* run()

StillAuthorized(s) == credential = session[s].credential

\* Mutant: authority is checked at the handshake alone.
NeverRechecked(s) == TRUE

Rechecked(s) == StillAuthorized(s)

Recheck(s) ==
  /\ session[s].at = "top"
  /\ IF Rechecked(s)
     THEN /\ session' = [session EXCEPT ![s].at = "waiting"]
          /\ UNCHANGED <<authority, handlers, sessionState>>
     ELSE EndSession(s)

\* One turn of the loop; every arm but a delivery is done in one step.
Turn(s, to) ==
  /\ session[s].at = "waiting" /\ session' = [session EXCEPT ![s].at = to]
  /\ served' = IF StillAuthorized(s) THEN served ELSE served + 1
  /\ UNCHANGED <<authority, handlers, slot>>

Answer(a, what) ==
  answer' = [c \in Calls |-> IF c # a THEN answer[c]
                             ELSE IF answer[c] = "gone" THEN "no" ELSE what]

Awaited(a) == a \in Calls /\ answer[a] = "open"

TakeRequest(s) ==
  /\ requests # <<>> /\ requests' = <<>>
  /\ Turn(s, "top")
  /\ LET a == Head(requests) IN
     \/ pending # NoAsk /\ Answer(a, "no") /\ UNCHANGED pending
     \/ pending = NoAsk /\ ~Awaited(a) /\ Answer(a, "no") /\ UNCHANGED pending
     \/ pending = NoAsk /\ Awaited(a) /\ pending' = a /\ UNCHANGED answer
  /\ UNCHANGED <<consent, controls, setting, delivering, done>>

\* A queued event is sent only if the camera and the routes still allow it.
TakeControl(s) ==
  /\ controls # <<>> /\ controls' = Tail(controls)
  /\ Turn(s, "top")
  /\ LET c == Head(controls)
         held == IF Awaited(setting) THEN setting ELSE NoAsk IN
     \/ c.what = "event" /\ UNCHANGED <<setting, answer>>
     \/ /\ c.what = "configure" /\ held # NoAsk
        /\ Answer(c.of, "no") /\ setting' = held
     \/ /\ c.what = "configure" /\ held = NoAsk
        /\ setting' = (IF Awaited(c.of) THEN c.of ELSE NoAsk)
        /\ answer' = [a \in Calls |->
             IF a \in {setting, c.of} \ {setting'} THEN "no" ELSE answer[a]]
  /\ UNCHANGED <<consent, requests, pending, delivering, done>>

\* A request that is over is taken back, so the next one can be sent.
Heartbeat(s) ==
  /\ Turn(s, "top")
  /\ IF pending # NoAsk /\ ~Awaited(pending)
     THEN Answer(pending, "no") /\ pending' = NoAsk
     ELSE UNCHANGED <<answer, pending>>
  /\ UNCHANGED <<consent, requests, controls, setting, delivering, done>>

TriggerCapabilities(s, allowed) ==
  /\ Turn(s, "top")
  /\ consent' = allowed
  /\ UNCHANGED <<requests, pending, controls, setting, answer, delivering, done>>

TriggerConfigurationResult(s, a, accepted) ==
  /\ Turn(s, "top")
  /\ IF a = setting
     THEN /\ setting' = NoAsk
          /\ Answer(a, IF accepted /\ Awaited(a) THEN "ok" ELSE "no")
          /\ done' = IF accepted THEN done \cup {a} ELSE done
     ELSE UNCHANGED <<setting, answer, done>>
  /\ UNCHANGED <<consent, requests, pending, controls, delivering>>

SnapshotUnavailable(s, a) ==
  /\ Turn(s, "top")
  /\ IF a = pending THEN pending' = NoAsk /\ Answer(a, "no") ELSE UNCHANGED <<pending, answer>>
  /\ UNCHANGED <<consent, requests, controls, setting, delivering, done>>

\* Mutant: any snapshot will do for the request that is waiting.
AnySnapshot(a) == a = NoAsk \/ Awaited(pending)

\* An observation of the camera's own, or the snapshot that is waited for.
Authorized(a) == a = NoAsk \/ (a = pending /\ Awaited(a))

ReceiveEvent(s, a) ==
  /\ Authorized(a)
  /\ Turn(s, "delivering") /\ delivering' = a
  /\ UNCHANGED <<consent, requests, pending, controls, setting, answer, done>>

\* Over the rate limit, or not authorized; the camera may send it again.
RefuseEvent(s, a) ==
  /\ Turn(s, "top")
  /\ IF a # NoAsk /\ Authorized(a)
     THEN Answer(pending, "no") /\ pending' = NoAsk
     ELSE UNCHANGED <<answer, pending>>
  /\ UNCHANGED <<consent, requests, controls, setting, delivering, done>>

\* Discord has the picture.
PostSnapshot(s) ==
  /\ session[s].at = "delivering" /\ delivering # NoAsk
  /\ done' = done \cup {delivering}
  /\ UNCHANGED <<authority, handlers, slot, session, queues, answer, delivering, served>>

\* deliver returns a status, which the camera is sent; "retry" keeps the
\* request waiting for the camera's next attempt.
FinishDelivery(s, status) ==
  /\ session[s].at = "delivering"
  /\ session' = [session EXCEPT ![s].at = "top"] /\ delivering' = NoAsk
  /\ status = "delivered" => delivering \in done \cup {NoAsk}
  /\ IF delivering = NoAsk \/ status = "retry" THEN UNCHANGED <<answer, pending>>
     ELSE /\ Answer(pending, IF status = "delivered" THEN "ok" ELSE "no")
          /\ pending' = NoAsk
  /\ UNCHANGED <<authority, handlers, slot, consent, requests, controls, setting, done,
                 served>>

CameraSessionNext ==
  \/ Pair \/ CloseAfterPairing \/ CloseBeforeRevoking \/ RevokeDevice \/ CloseForRoutes
  \/ TelescopeEvent
  \/ \E a \in Calls : Ask(a) \/ DeadlinePasses(a) \/ GiveUp(a)
  \/ \E s \in Sockets :
       \/ Authenticate(s) \/ Register(s) \/ CloseSeen(s) \/ SocketEnds(s)
       \/ Recheck(s) \/ TakeRequest(s) \/ TakeControl(s) \/ Heartbeat(s)
       \/ \E allowed \in {{}, {"events", "configuration"}} :
            TriggerCapabilities(s, allowed)
       \/ \E a \in Settings, accepted \in BOOLEAN : TriggerConfigurationResult(s, a, accepted)
       \/ \E a \in Asks : SnapshotUnavailable(s, a)
       \/ \E a \in Asks \cup {NoAsk} : ReceiveEvent(s, a) \/ RefuseEvent(s, a)
       \/ PostSnapshot(s)
       \/ \E status \in {"delivered", "retry", "elided"} : FinishDelivery(s, status)

CameraSessionSpec == CameraSessionInit /\ [][CameraSessionNext]_cameraSessionVars

---------------------------------------------------------------------------
\* A camera whose credential is gone is served at most one more turn, on one
\* connection at a time, even where no owner handler closed that connection:
\* every turn begins with durable authority, and only the connection in the
\* table is ever served.
StaleSessionServedOnce ==
  served <= 1 /\ \A s \in Sockets : session[s].at \in Serving <=> slot = s

\* An owner who asked for a snapshot, or sent rules, is told of success only
\* for that very request: the picture was posted, the camera accepted these
\* rules.  A late answer to an earlier request never counts for a later one.
AnswersAreTrue == \A a \in Calls : answer[a] = "ok" => a \in done

===========================================================================
