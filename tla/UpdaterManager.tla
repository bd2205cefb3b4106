--------------------------- MODULE UpdaterManager ---------------------------
(***************************************************************************)
(* UpdaterManager for one telescope: the chat updater task that serves the *)
(* connected rig, and everyone who may retire or start it under            *)
(* reconcile_gate: the periodic loop, the requests that change routes or   *)
(* trust (refresh_updater) and the sockets that connect (pairing refreshes *)
(* first, every connection is adopted last).                               *)
(*                                                                         *)
(* Abstracted: the slot of DirectHub is one connection or none, and its    *)
(* credentials a flag (some credential is active); the image cooldown      *)
(* restarts an updater exactly as a route change does; database reads      *)
(* succeed.  An HTTP handler's future is dropped when its client goes away *)
(* (CanDisconnect); socket tasks and the loop are spawned and are not.     *)
(***************************************************************************)
EXTENDS Naturals, FiniteSets

CONSTANTS Handlers,       \* owner and manager requests
          Conns,          \* rig WebSocket connections
          Sessions,       \* (session_id, profile_id) identities
          Channels,       \* chat channels a route may name
          Updaters,       \* updater tasks; an ended one's name is used again
          CanDisconnect,  \* may a client drop its request?
          Loop, Nobody    \* the periodic task; no task, connection or updater

Tasks == Handlers \cup Conns \cup {Loop}

ASSUME ManagerConstants ==
  /\ Handlers \cap Conns = {} /\ Loop \notin Handlers \cup Conns
  /\ Nobody \notin Tasks \cup Updaters
  /\ CanDisconnect \in BOOLEAN

VARIABLES
  routes,      \* telescope_channels rows
  removedBy,   \* history: the request that last removed each channel
  trusted,     \* some credential of the telescope is active
  generation, slot,   \* RigConnections
  session,     \* the identity each connection authenticated with
  epoch,       \* authenticated_generation of a pairing
  gate,        \* the owner of reconcile_gate
  pc,          \* the next step of each task
  running,     \* the RunningUpdater entry: an updater, or Nobody
  recorded,    \* RunningUpdater.lifecycle_generation
  updater,     \* per task: state, channels, and the identity of its source
  abandoned,   \* history: aborted updaters that nobody awaits any more
  picked, snapshot,   \* the gate owner's locals: connection, then routes
  consumer     \* who took a history delta off a connection: Nobody, an
               \* updater, or "retired" once that updater is gone

config == <<routes, removedBy>>
trust == <<trusted, generation, slot, session, epoch>>
tasks == <<gate, pc>>
table == <<running, recorded, updater, abandoned>>
work == <<picked, snapshot>>
vars == <<config, trust, tasks, table, work, consumer>>

Critical == {"compare", "retire", "join", "pick", "routes", "source", "start"}
Steps == Critical \cup {"idle", "evict", "sample", "replay", "gate", "insert",
                        "adopt", "live", "closed", "returned", "cancelled"}

Updater == [state : {"none", "live", "aborted"}, channels : SUBSET Channels,
            session : Sessions \cup {Nobody}, generation : Nat]

TypeOK ==
  /\ routes \subseteq Channels
  /\ removedBy \in [Channels -> Handlers \cup {Nobody}]
  /\ trusted \in BOOLEAN
  /\ generation \in Nat
  /\ slot \in Conns \cup {Nobody}
  /\ session \in [Conns -> Sessions \cup {Nobody}]
  /\ epoch \in [Conns -> Nat]
  /\ gate \in Tasks \cup {Nobody}
  /\ pc \in [Tasks -> Steps]
  /\ running \in Updaters \cup {Nobody}
  /\ recorded \in Nat
  /\ updater \in [Updaters -> Updater]
  /\ abandoned \subseteq Updaters
  /\ picked \in Conns \cup Updaters \cup {Nobody}
  /\ snapshot \in [channels : SUBSET Channels, generation : Nat]
  /\ consumer \in [Conns -> Updaters \cup {Nobody, "retired"}]
  /\ \A p \in Tasks : pc[p] \in Critical <=> gate = p
  /\ \A p \in Tasks : pc[p] \in {"routes", "source", "start"} => picked \in Conns
  /\ \A p \in Tasks : pc[p] = "join" => picked \in Updaters

NoSnapshot == [channels |-> {}, generation |-> 0]

Init ==
  /\ routes = Channels
  /\ removedBy = [ch \in Channels |-> Nobody]
  /\ trusted = TRUE
  /\ generation = 0
  /\ slot = Nobody
  /\ session = [c \in Conns |-> Nobody]
  /\ epoch = [c \in Conns |-> 0]
  /\ gate = Nobody
  /\ pc = [p \in Tasks |-> "idle"]
  /\ running = Nobody
  /\ recorded = 0
  /\ updater = [u \in Updaters |-> [state |-> "none", channels |-> {},
                                    session |-> Nobody, generation |-> 0]]
  /\ abandoned = {}
  /\ picked = Nobody
  /\ snapshot = NoSnapshot
  /\ consumer = [c \in Conns |-> Nobody]

Goto(p, step) == pc' = [pc EXCEPT ![p] = step]

---------------------------------------------------------------------------
\* Requests: the committed change, then refresh_updater.

RemoveRoute(h, ch) ==
  /\ pc[h] = "idle" /\ ch \in routes
  /\ routes' = routes \ {ch}
  /\ removedBy' = [removedBy EXCEPT ![ch] = h]
  /\ Goto(h, "replay")
  /\ UNCHANGED <<trust, gate, table, work, consumer>>

AddRoute(h, ch) ==
  /\ pc[h] = "idle" /\ ch \notin routes
  /\ routes' = routes \cup {ch}
  /\ Goto(h, "replay")
  /\ UNCHANGED <<removedBy, trust, gate, table, work, consumer>>

\* revoke_rig_credentials and the first half of RigConnections::revoke.
RevokeTrust(h) ==
  /\ pc[h] = "idle"
  /\ trusted' = FALSE
  /\ generation' = generation + 1
  /\ Goto(h, "evict")
  /\ UNCHANGED <<config, slot, session, epoch, gate, table, work, consumer>>

\* A pairing has rotated the credential and revokes the old connection.
Pair(c) ==
  /\ pc[c] = "idle"
  /\ trusted' = TRUE
  /\ generation' = generation + 1
  /\ Goto(c, "evict")
  /\ UNCHANGED <<config, slot, session, epoch, gate, table, work, consumer>>

Evict(p) ==
  /\ pc[p] = "evict"
  /\ slot' = Nobody
  /\ Goto(p, IF p \in Conns THEN "sample" ELSE "replay")
  /\ UNCHANGED <<config, trusted, generation, session, epoch, gate, table, work, consumer>>

Sample(c) ==
  /\ pc[c] = "sample"
  /\ epoch' = [epoch EXCEPT ![c] = generation]
  /\ Goto(c, "replay")
  /\ UNCHANGED <<config, trusted, generation, slot, session, gate, table, work, consumer>>

\* disconnect_for_replay; refresh_telescope then waits for the gate.
Replay(p) ==
  /\ pc[p] = "replay"
  /\ slot' = Nobody
  /\ Goto(p, "gate")
  /\ UNCHANGED <<config, trusted, generation, session, epoch, gate, table, work, consumer>>

\* insert_if_generation after a valid lookup; the updater is adopted next.
InsertPaired(c, s) ==
  /\ pc[c] = "insert"
  /\ IF trusted /\ epoch[c] = generation
     THEN slot' = c /\ session' = [session EXCEPT ![c] = s] /\ Goto(c, "adopt")
     ELSE Goto(c, "closed") /\ UNCHANGED <<slot, session>>
  /\ UNCHANGED <<config, trusted, generation, epoch, gate, table, work, consumer>>

Authenticate(c, s) ==
  /\ pc[c] = "idle" /\ trusted
  /\ slot' = c /\ session' = [session EXCEPT ![c] = s]
  /\ epoch' = [epoch EXCEPT ![c] = generation]
  /\ Goto(c, "adopt")
  /\ UNCHANGED <<config, trusted, generation, gate, table, work, consumer>>

LoseConnection(c) ==
  /\ slot = c
  /\ slot' = Nobody
  /\ UNCHANGED <<config, trusted, generation, session, epoch, tasks, table, work, consumer>>

---------------------------------------------------------------------------
\* reconcile_gate and reconcile_under_gate.

\* The loop wakes up every RECONCILE_INTERVAL.
Wake ==
  /\ pc[Loop] = "idle"
  /\ Goto(Loop, "gate")
  /\ UNCHANGED <<config, trust, gate, table, work, consumer>>

Enter(p) ==
  /\ pc[p] \in {"gate", "adopt"} /\ gate = Nobody
  /\ gate' = p
  /\ Goto(p, IF pc[p] = "adopt" THEN "compare" ELSE "retire")
  /\ UNCHANGED <<config, trust, table, work, consumer>>

\* A task leaves with the gate released and its locals gone: a socket that
\* has refreshed inserts next, one that has been adopted runs its loop.
AfterReconcile(p) ==
  IF p = Loop THEN "idle"
  ELSE IF p \in Handlers THEN "returned"
  ELSE IF session[p] = Nobody THEN "insert" ELSE "live"

Leave(p) ==
  /\ gate' = Nobody
  /\ Goto(p, AfterReconcile(p))
  /\ picked' = Nobody /\ snapshot' = NoSnapshot

\* Mutant: any running updater is adopted, whatever identity it follows.
CompareNothing(c) ==
  /\ pc[c] = "compare"
  /\ IF running # Nobody
     THEN Leave(c)
     ELSE Goto(c, "retire") /\ UNCHANGED <<gate, work>>
  /\ UNCHANGED <<config, trust, table, consumer>>

\* adopt_connection_identity: keep an updater of the same identity and trust
\* generation, replace any other, start one if there is none.
Compare(c) ==
  /\ pc[c] = "compare"
  /\ IF running # Nobody /\ updater[running].session = session[c] /\ recorded = epoch[c]
     THEN Leave(c)
     ELSE Goto(c, "retire") /\ UNCHANGED <<gate, work>>
  /\ UNCHANGED <<config, trust, table, consumer>>

SessionCurrent == slot # Nobody => session[slot] = updater[running].session

\* Mutant: a changed route set does not make the updater stale.
KeepAnyRoutes(p) == p = Loop /\ SessionCurrent /\ recorded = generation

\* Only the periodic loop may find an updater to keep: the others force its
\* retirement, or come here because there is none or another's.
Keep(p) ==
  /\ p = Loop
  /\ updater[running].channels = routes
  /\ SessionCurrent
  /\ recorded = generation

\* What a retired task took off a connection it did not finish delivering.
Retired(u) == [c \in Conns |-> IF consumer[c] = u THEN "retired" ELSE consumer[c]]

\* Mutant: the retired task is not awaited.
RetireOnly(p) ==
  /\ pc[p] = "retire"
  /\ IF running = Nobody \/ Keep(p)
     THEN UNCHANGED <<running, updater, picked, consumer>>
     ELSE /\ updater' = [updater EXCEPT ![running].state = "aborted"]
          /\ consumer' = Retired(running)
          /\ running' = Nobody /\ picked' = running
  /\ Goto(p, "pick")
  /\ UNCHANGED <<config, trust, gate, recorded, abandoned, snapshot>>

\* Mutant: the entry is removed, its task is not aborted.
RetireUnaborted(p) ==
  /\ pc[p] = "retire"
  /\ IF running = Nobody \/ Keep(p)
     THEN UNCHANGED <<running, updater, picked, consumer>>
     ELSE running' = Nobody /\ UNCHANGED <<updater, picked, consumer>>
  /\ Goto(p, "pick")
  /\ UNCHANGED <<config, trust, gate, recorded, abandoned, snapshot>>

\* The stale updater is removed and aborted.
Retire(p) ==
  /\ pc[p] = "retire"
  /\ IF running = Nobody \/ Keep(p)
     THEN Goto(p, "pick") /\ UNCHANGED <<running, updater, picked, consumer>>
     ELSE /\ updater' = [updater EXCEPT ![running].state = "aborted"]
          /\ consumer' = Retired(running)
          /\ running' = Nobody /\ picked' = running
          /\ Goto(p, "join")
  /\ UNCHANGED <<config, trust, gate, recorded, abandoned, snapshot>>

\* handle.await: the task's last poll is over.
Join(p) ==
  /\ pc[p] = "join" /\ updater[picked].state = "none"
  /\ Goto(p, "pick")
  /\ UNCHANGED <<config, trust, gate, table, work, consumer>>

Pick(p) ==
  /\ pc[p] = "pick"
  /\ IF running # Nobody \/ slot = Nobody
     THEN Leave(p)
     ELSE Goto(p, "routes") /\ picked' = slot /\ UNCHANGED <<gate, snapshot>>
  /\ UNCHANGED <<config, trust, table, consumer>>

ReadRoutes(p) ==
  /\ pc[p] = "routes"
  /\ IF routes = {}
     THEN Leave(p)
     ELSE /\ snapshot' = [snapshot EXCEPT !.channels = routes]
          /\ Goto(p, "source") /\ UNCHANGED <<gate, picked>>
  /\ UNCHANGED <<config, trust, table, consumer>>

\* DirectRigSource::current reads the generation it will follow.
MakeSource(p) ==
  /\ pc[p] = "source"
  /\ snapshot' = [snapshot EXCEPT !.generation = generation]
  /\ Goto(p, "start")
  /\ UNCHANGED <<config, trust, gate, table, picked, consumer>>

\* The task is spawned and recorded; the generation is read once more.
Start(p) ==
  /\ pc[p] = "start"
  /\ \E u \in Updaters :
       /\ updater[u].state = "none"
       /\ updater' = [updater EXCEPT ![u] =
            [state |-> "live", channels |-> snapshot.channels,
             session |-> session[picked], generation |-> snapshot.generation]]
       /\ running' = u
  /\ recorded' = generation
  /\ Leave(p)
  /\ UNCHANGED <<config, trust, abandoned, consumer>>

---------------------------------------------------------------------------
\* Updater tasks.

Serves(u, c) == slot = c /\ updater[u].generation = generation /\ updater[u].session = session[c]

\* A poll resolves the current connection (get_if_generation) and consumes a
\* history delta from it.
Poll(u) ==
  /\ updater[u].state = "live"
  /\ \E c \in Conns : /\ Serves(u, c) /\ consumer[c] = Nobody
                      /\ consumer' = [consumer EXCEPT ![c] = u]
  /\ UNCHANGED <<config, trust, tasks, table, work>>

\* An aborted task runs to its next await, then is gone.
Ends(u) ==
  /\ updater[u].state = "aborted"
  /\ updater' = [updater EXCEPT ![u] = [state |-> "none", channels |-> {},
                                        session |-> Nobody, generation |-> 0]]
  /\ abandoned' = abandoned \ {u}
  /\ UNCHANGED <<config, trust, tasks, running, recorded, work, consumer>>

\* The client of a request goes away: its handler is dropped at an await, and
\* with it the handle of the task it was tearing down.
Disconnect(h) ==
  /\ CanDisconnect /\ pc[h] \in {"gate", "join"}
  /\ abandoned' = IF pc[h] = "join" /\ updater[picked].state = "aborted"
                  THEN abandoned \cup {picked} ELSE abandoned
  /\ gate' = IF gate = h THEN Nobody ELSE gate
  /\ Goto(h, "cancelled")
  /\ picked' = IF gate = h THEN Nobody ELSE picked
  /\ UNCHANGED <<config, trust, running, recorded, updater, snapshot, consumer>>

TaskStep(p) ==
  \/ Evict(p) \/ Replay(p) \/ Enter(p) \/ Retire(p) \/ Join(p) \/ Pick(p)
  \/ ReadRoutes(p) \/ MakeSource(p) \/ Start(p)

SocketStep(c) == Sample(c) \/ Compare(c) \/ \E s \in Sessions : InsertPaired(c, s)

Next ==
  \/ \E p \in Tasks : TaskStep(p)
  \/ \E c \in Conns : SocketStep(c) \/ Pair(c) \/ LoseConnection(c)
                        \/ \E s \in Sessions : Authenticate(c, s)
  \/ \E h \in Handlers : RevokeTrust(h) \/ Disconnect(h)
                        \/ \E ch \in Channels : RemoveRoute(h, ch) \/ AddRoute(h, ch)
  \/ \E u \in Updaters : Poll(u) \/ Ends(u)
  \/ Wake

Spec == Init /\ [][Next]_vars

\* Every task that runs keeps running, the loop wakes up again and again, and
\* tokio's Mutex hands the gate over in the order it was asked for, so each
\* task that keeps asking gets it.  Nothing is assumed of rigs and clients.
Fairness ==
  /\ \A p \in Tasks : WF_vars(TaskStep(p)) /\ SF_vars(Enter(p))
  /\ \A c \in Conns : WF_vars(SocketStep(c))
  /\ \A u \in Updaters : WF_vars(Ends(u))
  /\ WF_vars(Wake)

FairSpec == Spec /\ Fairness

---------------------------------------------------------------------------
\* A request that removed a channel has returned: from then on no updater
\* task, not even one being torn down, can still post there.
RemovalIsABarrier ==
  \A ch \in Channels \ routes :
    removedBy[ch] # Nobody /\ pc[removedBy[ch]] = "returned"
      => \A u \in Updaters : ch \notin updater[u].channels

\* What is left of it when clients may drop requests (the handle awaited in
\* reconcile_under_gate goes with the handler): a removal that has returned
\* still means that no task of the removed channel keeps running.  The only
\* one that can post there once more has been aborted, and was being awaited
\* by a request that was dropped.
RemovalStopsPosting ==
  \A ch \in Channels \ routes :
    removedBy[ch] # Nobody /\ pc[removedBy[ch]] = "returned"
      => \A u \in Updaters :
           ch \in updater[u].channels => u \in abandoned /\ updater[u].state = "aborted"

\* A telescope never has two updaters posting its feed: a task that has not
\* been aborted is the one in the table.
OneUpdaterPosts ==
  \A u \in Updaters : updater[u].state = "live" => running = u

\* Nothing is under way: no request, no handshake, no reconcile.
Quiet == \A p \in Tasks : pc[p] \in {"idle", "live", "closed", "returned"}

\* When nothing is under way, a connected rig with routes is served by an
\* updater built for exactly its identity, its trust generation and the
\* present routes: no reconnect, re-pairing or route change leaves behind an
\* updater that can no longer reach the rig, even without the periodic loop.
ConnectedRigIsServed ==
  Quiet /\ slot # Nobody /\ routes # {}
    => /\ running # Nobody
       /\ Serves(running, slot)
       /\ updater[running].channels = routes

\* Even if the request that removed a channel is dropped half-way, its
\* updater stops in the end (the periodic loop).
StaleUpdaterStops ==
  \A ch \in Channels :
    (ch \notin routes) ~> (ch \in routes \/ \A u \in Updaters : ch \notin updater[u].channels)

\* What the comment in refresh_updater says ("Remove the physical socket
\* first so the N.I.N.A. plugin replays its last Direct delta instead of
\* advancing past a response consumed by the retiring task"): when nothing is
\* under way, no delta of the connection in the slot went to a retired task.
RebuiltUpdaterGetsReplay ==
  Quiet /\ slot # Nobody => consumer[slot] # "retired"

===========================================================================
