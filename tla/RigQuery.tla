------------------------------ MODULE RigQuery ------------------------------
(***************************************************************************)
(* One RigConnection: the calls of RigConnection::query made by an updater *)
(* and by commands, the bounded outgoing queue, the pending map, the       *)
(* connection task that drains the one and resolves the other, and the rig *)
(* at the far end, which advances its private history cursor when it       *)
(* writes a result.  Each critical section of the pending mutex, each      *)
(* channel operation and each turn of the select loop is one step.         *)
(* A call is a query id; payloads and deadlines are left out: the rig may  *)
(* answer any query it was sent, in any order, or never.                   *)
(***************************************************************************)
EXTENDS Naturals, Sequences, FiniteSets

CONSTANTS Queries,      \* calls of query(), one id each
          Observing,    \* those of kind ObservationState: no history cursor
          MaxPending    \* MAX_PENDING_QUERIES, also the queue's capacity

ASSUME QueryConstants == Observing \subseteq Queries /\ MaxPending \in Nat \ {0}

VARIABLES
  pc,        \* the next step of each call
  sent,      \* PendingQueryGuard.sent
  pending,   \* ids in the pending map
  reply,     \* the oneshot of each call: open, value or dropped
  queue,     \* the outgoing mpsc channel
  queueOpen, \* its receiver is alive
  closing,   \* a CloseRequest is set
  hub,       \* the connection task
  wire,      \* queries the rig was sent and has not answered
  answers,   \* results on their way to the hub
  advanced   \* history: queries for which the rig wrote a result

call == <<pc, sent>>
channel == <<queue, queueOpen>>
rig == <<wire, answers, advanced>>
vars == <<call, pending, reply, channel, closing, hub, rig>>

Returned == {"ok", "failed"}

TypeOK ==
  /\ pc \in [Queries -> {"idle", "register", "send", "wait", "unregister", "replay"} \cup Returned]
  /\ sent \in [Queries -> BOOLEAN]
  /\ pending \subseteq Queries
  /\ reply \in [Queries -> {"open", "value", "dropped"}]
  /\ queue \in Seq(Queries) /\ Len(queue) <= MaxPending
  /\ queueOpen \in BOOLEAN
  /\ closing \in BOOLEAN
  /\ hub \in {"live", "dropQueue", "clearPending", "closed"}
  /\ wire \subseteq Queries /\ answers \subseteq Queries /\ advanced \subseteq Queries

Init ==
  /\ pc = [q \in Queries |-> "idle"]
  /\ sent = [q \in Queries |-> FALSE]
  /\ pending = {}
  /\ reply = [q \in Queries |-> "open"]
  /\ queue = <<>> /\ queueOpen = TRUE
  /\ closing = FALSE
  /\ hub = "live"
  /\ wire = {} /\ answers = {} /\ advanced = {}

Goto(q, step) == pc' = [pc EXCEPT ![q] = step]

---------------------------------------------------------------------------
\* query(), step by step.

\* is_retiring() is read before anything is registered.
Start(q) ==
  /\ pc[q] = "idle"
  /\ Goto(q, IF closing THEN "failed" ELSE "register")
  /\ UNCHANGED <<sent, pending, reply, channel, closing, hub, rig>>

Register(q) ==
  /\ pc[q] = "register"
  /\ IF Cardinality(pending) >= MaxPending
     THEN Goto(q, "failed") /\ UNCHANGED pending
     ELSE Goto(q, "send") /\ pending' = pending \cup {q}
  /\ UNCHANGED <<sent, reply, channel, closing, hub, rig>>

\* try_send: a full or closed channel fails the call at once.
TrySend(q) ==
  /\ pc[q] = "send"
  /\ IF queueOpen /\ Len(queue) < MaxPending
     THEN /\ queue' = Append(queue, q)
          /\ sent' = [sent EXCEPT ![q] = TRUE]
          /\ Goto(q, "wait")
     ELSE Goto(q, "unregister") /\ UNCHANGED <<queue, sent>>
  /\ UNCHANGED <<pending, reply, queueOpen, closing, hub, rig>>

\* The result arrives while the call still waits.
Complete(q) ==
  /\ pc[q] = "wait" /\ reply[q] = "value"
  /\ Goto(q, "ok")
  /\ UNCHANGED <<sent, pending, reply, channel, closing, hub, rig>>

\* The connection task dropped the sender of this call.
Disconnected(q) ==
  /\ pc[q] = "wait" /\ reply[q] = "dropped"
  /\ Goto(q, "unregister")
  /\ UNCHANGED <<sent, pending, reply, channel, closing, hub, rig>>

\* QUERY_TIMEOUT elapses with no result.
TimeOut(q) ==
  /\ pc[q] = "wait" /\ reply[q] # "value"
  /\ Goto(q, "unregister")
  /\ UNCHANGED <<sent, pending, reply, channel, closing, hub, rig>>

\* The caller is cancelled at the await (an updater is aborted), even when a
\* result is already in the channel.
Cancel(q) ==
  /\ pc[q] = "wait"
  /\ Goto(q, "unregister")
  /\ UNCHANGED <<sent, pending, reply, channel, closing, hub, rig>>

\* PendingQueryGuard::drop: remove_pending, then perhaps request_close.

\* Mutant: only a query that was sent is taken out of the pending map.
UnregisterSent(q) ==
  /\ pc[q] = "unregister"
  /\ pending' = IF sent[q] THEN pending \ {q} ELSE pending
  /\ Goto(q, IF sent[q] /\ q \notin Observing THEN "replay" ELSE "failed")
  /\ UNCHANGED <<sent, reply, channel, closing, hub, rig>>

\* Mutant: a timed-out or cancelled query never asks for a replay.
UnregisterOnly(q) ==
  /\ pc[q] = "unregister"
  /\ pending' = pending \ {q}
  /\ Goto(q, "failed")
  /\ UNCHANGED <<sent, reply, channel, closing, hub, rig>>

Unregister(q) ==
  /\ pc[q] = "unregister"
  /\ pending' = pending \ {q}
  /\ Goto(q, IF sent[q] /\ q \notin Observing THEN "replay" ELSE "failed")
  /\ UNCHANGED <<sent, reply, channel, closing, hub, rig>>

RequestReplay(q) ==
  /\ pc[q] = "replay"
  /\ closing' = TRUE
  /\ Goto(q, "failed")
  /\ UNCHANGED <<sent, pending, reply, channel, hub, rig>>

---------------------------------------------------------------------------
\* The connection task's loop and its teardown.

\* The next message is taken and, if its caller still waits (should_send),
\* written; a write that fails may or may not have reached the rig.
Dispatch ==
  /\ hub = "live" /\ queue # <<>>
  /\ queue' = Tail(queue)
  /\ IF Head(queue) \in pending
     THEN \/ wire' = wire \cup {Head(queue)} /\ UNCHANGED hub
          \/ wire' \in {wire, wire \cup {Head(queue)}} /\ hub' = "dropQueue"
     ELSE UNCHANGED <<wire, hub>>
  /\ UNCHANGED <<call, pending, reply, queueOpen, closing, answers, advanced>>

\* resolve(): a result whose call is gone is dropped.
Resolve(q) ==
  /\ hub = "live" /\ q \in answers
  /\ answers' = answers \ {q}
  /\ pending' = pending \ {q}
  /\ reply' = IF q \in pending THEN [reply EXCEPT ![q] = "value"] ELSE reply
  /\ UNCHANGED <<call, channel, closing, hub, wire, advanced>>

\* The close request is served, or someone outside asked for it (a newer
\* connection, a revocation, a refresh).
ObserveClose ==
  /\ hub = "live" /\ closing
  /\ hub' = "dropQueue"
  /\ UNCHANGED <<call, pending, reply, channel, closing, rig>>

AskedToClose ==
  /\ ~closing
  /\ closing' = TRUE
  /\ UNCHANGED <<call, pending, reply, channel, hub, rig>>

\* The peer closes or falls silent.
LoseSocket ==
  /\ hub = "live"
  /\ hub' = "dropQueue"
  /\ UNCHANGED <<call, pending, reply, channel, closing, rig>>

DropQueue ==
  /\ hub = "dropQueue"
  /\ queue' = <<>> /\ queueOpen' = FALSE
  /\ hub' = "clearPending"
  /\ UNCHANGED <<call, pending, reply, closing, rig>>

\* pending.clear() drops the sender of every call that still waits.
ClearPending ==
  /\ hub = "clearPending"
  /\ pending' = {}
  /\ reply' = [q \in Queries |-> IF q \in pending THEN "dropped" ELSE reply[q]]
  /\ hub' = "closed"
  /\ UNCHANGED <<call, channel, closing, rig>>

---------------------------------------------------------------------------
\* The plugin: writing a result moves its history cursor.
RigAnswers(q) ==
  /\ q \in wire
  /\ wire' = wire \ {q}
  /\ answers' = answers \cup {q}
  /\ advanced' = advanced \cup {q}
  /\ UNCHANGED <<call, pending, reply, channel, closing, hub>>

CallStep(q) ==
  \/ Register(q) \/ TrySend(q) \/ Complete(q) \/ Disconnected(q) \/ TimeOut(q)
  \/ Unregister(q) \/ RequestReplay(q)

HubStep == Dispatch \/ ObserveClose \/ DropQueue \/ ClearPending

Next ==
  \/ \E q \in Queries : Start(q) \/ Cancel(q) \/ CallStep(q) \/ Resolve(q) \/ RigAnswers(q)
  \/ HubStep \/ AskedToClose \/ LoseSocket

Spec == Init /\ [][Next]_vars

\* A started call runs to its end (its only await has a timeout), and the
\* connection task serves a close request: the select is biased to it and
\* every write is bounded by SOCKET_WRITE_TIMEOUT.  Nothing is assumed of
\* the rig, nor of which ready message the loop takes.
Fairness ==
  /\ \A q \in Queries : WF_vars(CallStep(q))
  /\ WF_vars(ObserveClose) /\ WF_vars(DropQueue) /\ WF_vars(ClearPending)

FairSpec == Spec /\ Fairness

---------------------------------------------------------------------------
\* No more than MAX_PENDING_QUERIES calls wait on one rig, whatever order
\* calls, results and cancellations come in.
PendingBounded == Cardinality(pending) <= MaxPending

\* An entry of the pending map belongs to a call that is still running, so
\* cancelled and refused calls do not use the limit up for good.
NoLeakedEntry ==
  \A q \in pending : pc[q] \in {"send", "wait", "unregister"}

\* A history delta the rig has moved past is not lost: if the call it was
\* written for has returned without it, the connection is being replaced,
\* which rewinds the rig's cursor.
NoLostDelta ==
  \A q \in advanced \ Observing : pc[q] = "failed" => closing \/ hub # "live"

\* Once the connection task has ended, no call waits for a result that can
\* only time out, not even one that registered during the teardown.
NoCallStranded ==
  hub = "closed" => \A q \in Queries : pc[q] = "wait" => reply[q] # "open"

\* Neither side of a call outlives the other: no entry uses the limit up for
\* good, and nobody waits on a connection that has ended.
NothingLeftBehind == NoLeakedEntry /\ NoCallStranded

\* A query whose caller has stopped waiting while it was queued is never
\* put on the wire: a command is not executed after the hub gave it up.
OnlyAwaitedQueriesSent ==
  [][\A q \in wire' \ wire : pc[q] \notin Returned]_vars

\* Every history result the rig writes is in the end consumed by its caller,
\* or the connection has been closed for a replay.
DeltaConsumedOrReplayed ==
  \A q \in Queries \ Observing : (q \in advanced) ~> (pc[q] = "ok" \/ hub = "closed")

===========================================================================
