---------------------------- MODULE Servers_proofs ----------------------------
(***************************************************************************)
(* Proofs about the two parts of the hub that serve its owners' requests.  *)
(* UpdaterManager, for any sets of requests, connections, identities,      *)
(* channels and updaters, dropped requests included: RemovalStopsPosting   *)
(* needs to know who still carries a removed channel: while any task or    *)
(* snapshot does, the request that removed it last has yet to retire that  *)
(* task or was dropped (Carried), and a task that was aborted is awaited   *)
(* by the gate's owner or was abandoned by one that was dropped (Joined).  *)
(* ConnectedRigIsServed needs to know who will still put right what is     *)
(* stale (ServedInv).                                                      *)
(* SignIn, for any number of users, servers, logins and requests:          *)
(* ManagersAreCurrent needs to know that a cached answer is at most        *)
(* Latency younger than the rights it speaks of, and so is an answer that  *)
(* has not been heard yet.                                                 *)
(***************************************************************************)
EXTENDS UpdaterManager, SignIn, TLAPS

---------------------------------------------------------------------------
\* The updater manager.

\* The table names a live task, and no other task is live.
TableInv ==
  /\ OneUpdaterPosts
  /\ running # Nobody => updater[running].state = "live"
  /\ \A p \in Tasks : pc[p] \in Critical \ {"compare", "retire", "pick"} => running = Nobody

\* An aborted task is the one the gate's owner waits for, or one that nobody
\* waits for since the request that did was dropped.
Joined ==
  /\ \A u \in abandoned : updater[u].state = "aborted"
  /\ \A u \in Updaters :
       updater[u].state = "aborted" =>
         u \in abandoned \/ (gate # Nobody /\ pc[gate] = "join" /\ picked = u)

\* The request that removed a channel last has not yet retired its updater, or
\* will not: its client dropped it.
Pending(ch) ==
  removedBy[ch] # Nobody /\ pc[removedBy[ch]] \in {"replay", "gate", "retire", "cancelled"}

\* A removed channel is still carried only while its removal is pending or
\* being joined, or by an abandoned task, and a removed channel was removed by
\* somebody.
Carried ==
  /\ \A ch \in Channels \ routes : removedBy[ch] # Nobody
  /\ \A u \in Updaters : updater[u].state = "none" => updater[u].channels = {}
  /\ \A u \in Updaters : \A ch \in updater[u].channels \ routes :
       updater[u].state = "live" => Pending(ch)
  /\ \A u \in Updaters : \A ch \in updater[u].channels \ routes :
       updater[u].state = "aborted" => Pending(ch) \/ removedBy[ch] = gate \/ u \in abandoned
  /\ \A p \in Tasks : pc[p] \in {"source", "start"} =>
       \A ch \in snapshot.channels \ routes : Pending(ch)

BarrierInv == Joined /\ Carried

\* A task that must retire the updater before it is done: a change of routes or
\* of trust made it start, or a connection found an updater of another identity.
\* A request that its client dropped is the periodic loop's to make good.
Forced ==
  \E p \in Tasks \ {Loop} :
    pc[p] \in {"evict", "sample", "replay", "gate", "retire", "cancelled"}

\* An updater of old routes or old trust is about to be retired, even one that
\* is only being built.
UpdaterCurrent ==
  /\ running # Nobody /\ updater[running].channels # routes => Forced
  /\ running # Nobody /\ updater[running].generation # generation => Forced
SnapshotCurrent ==
  /\ \A p \in Tasks : pc[p] \in {"source", "start"} /\ snapshot.channels # routes => Forced
  /\ \A p \in Tasks : pc[p] = "start" /\ snapshot.generation # generation => Forced

\* A connection that came after the one picked waits to be adopted, and so does
\* one that the updater does not follow.
PickedCurrent ==
  \A p \in Tasks :
    pc[p] \in {"routes", "source", "start"} /\ slot \notin {Nobody, picked} => pc[slot] = "adopt"
SessionFollowed ==
  slot # Nobody /\ running # Nobody /\ updater[running].session # session[slot]
    => Forced \/ pc[slot] \in {"adopt", "compare"}

\* While there is no updater, somebody is about to start one.
StartPending ==
  slot # Nobody /\ running = Nobody /\ routes # {} =>
    \E p \in Tasks : pc[p] \in Critical \cup {"replay", "gate", "adopt", "cancelled"}

ServedInv ==
  UpdaterCurrent /\ SnapshotCurrent /\ PickedCurrent /\ SessionFollowed /\ StartPending

---------------------------------------------------------------------------
\* No step breaks TypeOK; in particular reconcile_gate excludes.
LEMMA TypeStep == TypeOK /\ [Next]_vars => TypeOK'
<1> SUFFICES ASSUME TypeOK, [Next]_vars PROVE TypeOK'
  OBVIOUS
<1> USE ManagerConstants
<1> USE DEF Tasks, TypeOK, Steps, Critical, Updater, Goto, NoSnapshot, config, trust, tasks, table, work
<1>1. ASSUME NEW p \in Tasks, TaskStep(p) PROVE TypeOK'
  <2>1. CASE Evict(p)
    BY <2>1 DEF Evict
  <2>2. CASE Replay(p)
    BY <2>2 DEF Replay
  <2>3. CASE Enter(p)
    BY <2>3 DEF Enter
  <2>4. CASE Retire(p)
    BY <2>4 DEF Retire, Retired
  <2>5. CASE Join(p)
    BY <2>5 DEF Join
  <2>6. CASE Pick(p)
    BY <2>6 DEF Pick, Leave, AfterReconcile
  <2>7. CASE ReadRoutes(p)
    BY <2>7 DEF ReadRoutes, Leave, AfterReconcile
  <2>8. CASE MakeSource(p)
    BY <2>8 DEF MakeSource
  <2>9. CASE Start(p)
    <3>1. updater' \in [Updaters -> Updater] /\ running' \in Updaters
      <4>1. PICK u \in Updaters :
              /\ updater' = [updater EXCEPT ![u] =
                   [state |-> "live", channels |-> snapshot.channels,
                    session |-> session[picked], generation |-> snapshot.generation]]
              /\ running' = u
        BY <2>9 DEF Start
      <4>2. session[picked] \in Sessions \cup {Nobody}
        BY <2>9 DEF Start
      <4> QED BY <4>1, <4>2
    <3>2. /\ pc' \in [Tasks -> Steps] /\ gate' \in Tasks \cup {Nobody}
          /\ picked' \in Conns \cup Updaters \cup {Nobody}
          /\ snapshot' \in [channels : SUBSET Channels, generation : Nat]
          /\ \A q \in Tasks : pc'[q] \in Critical <=> gate' = q
          /\ \A q \in Tasks : pc'[q] \notin {"routes", "source", "start", "join"}
      BY <2>9 DEF Start, Leave, AfterReconcile
    <3>3. UNCHANGED <<config, trust, abandoned, consumer>> /\ recorded' = generation
      BY <2>9 DEF Start
    <3> QED BY <3>1, <3>2, <3>3
  <2> QED BY <1>1, <2>1, <2>2, <2>3, <2>4, <2>5, <2>6, <2>7, <2>8, <2>9 DEF TaskStep
<1>2. ASSUME NEW c \in Conns, SocketStep(c) \/ Pair(c) \/ LoseConnection(c) \/ \E s \in Sessions : Authenticate(c, s)
      PROVE TypeOK'
  <2>1. CASE Sample(c)
    BY <2>1 DEF Sample
  <2>2. CASE Compare(c)
    BY <2>2 DEF Compare, Leave, AfterReconcile
  <2>3. ASSUME NEW s \in Sessions, InsertPaired(c, s) PROVE TypeOK'
    BY <2>3 DEF InsertPaired
  <2>4. CASE Pair(c)
    BY <2>4 DEF Pair
  <2>5. CASE LoseConnection(c)
    BY <2>5 DEF LoseConnection
  <2>6. ASSUME NEW s \in Sessions, Authenticate(c, s) PROVE TypeOK'
    BY <2>6 DEF Authenticate
  <2> QED BY <1>2, <2>1, <2>2, <2>3, <2>4, <2>5, <2>6 DEF SocketStep
<1>3. ASSUME NEW h \in Handlers, RevokeTrust(h) \/ Disconnect(h) \/ \E ch \in Channels : RemoveRoute(h, ch) \/ AddRoute(h, ch)
      PROVE TypeOK'
  <2>1. CASE RevokeTrust(h)
    <3>1. generation' \in Nat
      BY <2>1 DEF RevokeTrust
    <3>2. pc' = [pc EXCEPT ![h] = "evict"] /\ pc[h] = "idle" /\ trusted' \in BOOLEAN
      BY <2>1 DEF RevokeTrust
    <3> QED BY <2>1, <3>1, <3>2 DEF RevokeTrust
  <2>2. CASE Disconnect(h)
    <3>1. /\ pc' = [pc EXCEPT ![h] = "cancelled"]
          /\ gate' = IF gate = h THEN Nobody ELSE gate
          /\ picked' = IF gate = h THEN Nobody ELSE picked
          /\ abandoned' = IF pc[h] = "join" /\ updater[picked].state = "aborted"
                          THEN abandoned \cup {picked} ELSE abandoned
          /\ UNCHANGED <<config, trust, running, recorded, updater, snapshot, consumer>>
      BY <2>2 DEF Disconnect
    <3>2. abandoned' \subseteq Updaters
      BY <2>2, <3>1 DEF Disconnect
    <3> QED BY <3>1, <3>2
  <2>3. ASSUME NEW ch \in Channels, RemoveRoute(h, ch) PROVE TypeOK'
    BY <2>3 DEF RemoveRoute
  <2>4. ASSUME NEW ch \in Channels, AddRoute(h, ch) PROVE TypeOK'
    BY <2>4 DEF AddRoute
  <2> QED BY <1>3, <2>1, <2>2, <2>3, <2>4
<1>4. ASSUME NEW u \in Updaters, Poll(u) \/ Ends(u)
      PROVE TypeOK'
  <2>1. CASE Poll(u)
    BY <2>1 DEF Poll
  <2>2. CASE Ends(u)
    BY <2>2 DEF Ends
  <2> QED BY <1>4, <2>1, <2>2
<1>5. CASE Wake
  BY <1>5 DEF Wake
<1>6. CASE UNCHANGED vars
  BY <1>6 DEF vars
<1> QED BY <1>1, <1>2, <1>3, <1>4, <1>5, <1>6 DEF Next

\* No step breaks TableInv.
LEMMA TableStep == TypeOK /\ TypeOK' /\ TableInv /\ [Next]_vars => TableInv'
<1> SUFFICES ASSUME TypeOK, TypeOK', TableInv, [Next]_vars PROVE TableInv'
  OBVIOUS
<1> USE ManagerConstants
<1> USE DEF Tasks, TypeOK, Steps, Critical, Updater, Goto, NoSnapshot, config, trust, tasks, table, work,
           TableInv, OneUpdaterPosts
<1>1. ASSUME NEW p \in Tasks, TaskStep(p) PROVE TableInv'
  <2>1. CASE Evict(p)
    BY <2>1 DEF Evict
  <2>2. CASE Replay(p)
    BY <2>2 DEF Replay
  <2>3. CASE Enter(p)
    BY <2>3 DEF Enter
  <2>4. CASE Retire(p)
    BY <2>4 DEF Retire, Retired
  <2>5. CASE Join(p)
    BY <2>5 DEF Join
  <2>6. CASE Pick(p)
    BY <2>6 DEF Pick, Leave, AfterReconcile
  <2>7. CASE ReadRoutes(p)
    BY <2>7 DEF ReadRoutes, Leave, AfterReconcile
  <2>8. CASE MakeSource(p)
    BY <2>8 DEF MakeSource
  <2>9. CASE Start(p)
    BY <2>9 DEF Start, Leave, AfterReconcile
  <2> QED BY <1>1, <2>1, <2>2, <2>3, <2>4, <2>5, <2>6, <2>7, <2>8, <2>9 DEF TaskStep
<1>2. ASSUME NEW c \in Conns, SocketStep(c) \/ Pair(c) \/ LoseConnection(c) \/ \E s \in Sessions : Authenticate(c, s)
      PROVE TableInv'
  <2>1. CASE Sample(c)
    BY <2>1 DEF Sample
  <2>2. CASE Compare(c)
    BY <2>2 DEF Compare, Leave, AfterReconcile
  <2>3. ASSUME NEW s \in Sessions, InsertPaired(c, s) PROVE TableInv'
    BY <2>3 DEF InsertPaired
  <2>4. CASE Pair(c)
    BY <2>4 DEF Pair
  <2>5. CASE LoseConnection(c)
    BY <2>5 DEF LoseConnection
  <2>6. ASSUME NEW s \in Sessions, Authenticate(c, s) PROVE TableInv'
    BY <2>6 DEF Authenticate
  <2> QED BY <1>2, <2>1, <2>2, <2>3, <2>4, <2>5, <2>6 DEF SocketStep
<1>3. ASSUME NEW h \in Handlers, RevokeTrust(h) \/ Disconnect(h) \/ \E ch \in Channels : RemoveRoute(h, ch) \/ AddRoute(h, ch)
      PROVE TableInv'
  <2>1. CASE RevokeTrust(h)
    BY <2>1 DEF RevokeTrust
  <2>2. CASE Disconnect(h)
    BY <2>2 DEF Disconnect
  <2>3. ASSUME NEW ch \in Channels, RemoveRoute(h, ch) PROVE TableInv'
    BY <2>3 DEF RemoveRoute
  <2>4. ASSUME NEW ch \in Channels, AddRoute(h, ch) PROVE TableInv'
    BY <2>4 DEF AddRoute
  <2> QED BY <1>3, <2>1, <2>2, <2>3, <2>4
<1>4. ASSUME NEW u \in Updaters, Poll(u) \/ Ends(u)
      PROVE TableInv'
  <2>1. CASE Poll(u)
    BY <2>1 DEF Poll
  <2>2. CASE Ends(u)
    BY <2>2 DEF Ends
  <2> QED BY <1>4, <2>1, <2>2
<1>5. CASE Wake
  BY <1>5 DEF Wake
<1>6. CASE UNCHANGED vars
  BY <1>6 DEF vars
<1> QED BY <1>1, <1>2, <1>3, <1>4, <1>5, <1>6 DEF Next

\* No step breaks BarrierInv, dropped requests or not.
LEMMA BarrierStep == TypeOK /\ TypeOK' /\ TableInv /\ BarrierInv /\ [Next]_vars => BarrierInv'
<1> SUFFICES ASSUME TypeOK, TypeOK', TableInv, BarrierInv, [Next]_vars PROVE BarrierInv'
  OBVIOUS
<1> USE ManagerConstants
<1> USE DEF Tasks, TypeOK, Steps, Critical, Updater, Goto, NoSnapshot, config, trust, tasks, table, work,
           TableInv, OneUpdaterPosts, BarrierInv, Joined, Carried, Pending, Keep
<1>1. ASSUME NEW p \in Tasks, TaskStep(p) PROVE BarrierInv'
  <2>1. CASE Evict(p)
    BY <2>1 DEF Evict
  <2>2. CASE Replay(p)
    BY <2>2 DEF Replay
  <2>3. CASE Enter(p)
    BY <2>3 DEF Enter
  <2>4. CASE Retire(p)
    <3>1. CASE running = Nobody \/ Keep(p)
      BY <2>4, <3>1 DEF Retire
    <3>2. CASE ~(running = Nobody \/ Keep(p))
      <4>1. /\ pc[p] = "retire" /\ gate = p /\ running \in Updaters
            /\ updater' = [updater EXCEPT ![running].state = "aborted"]
            /\ pc' = [pc EXCEPT ![p] = "join"] /\ picked' = running
            /\ UNCHANGED <<routes, removedBy, gate, abandoned, snapshot>>
        BY <2>4, <3>2 DEF Retire
      <4>2. \A u \in Updaters : /\ updater'[u].channels = updater[u].channels
                               /\ u # running => updater'[u] = updater[u]
        BY <4>1
      <4>3. updater[running].state = "live" /\ updater'[running].state = "aborted"
        BY <4>1
      <4>4. \A u \in Updaters :
              u # running => updater[u].state = "none" \/ u \in abandoned
        BY <4>1
      <4>5. \A ch \in Channels : Pending(ch) => (Pending(ch)' \/ removedBy[ch] = gate)
        BY <4>1
      <4>6. Joined'
        BY <4>1, <4>2, <4>3, <4>4
      <4>7. Carried'
        BY <4>1, <4>2, <4>3, <4>4, <4>5
      <4> QED BY <4>6, <4>7
    <3> QED BY <3>1, <3>2
  <2>5. CASE Join(p)
    BY <2>5 DEF Join
  <2>6. CASE Pick(p)
    BY <2>6 DEF Pick, Leave, AfterReconcile
  <2>7. CASE ReadRoutes(p)
    BY <2>7 DEF ReadRoutes, Leave, AfterReconcile
  <2>8. CASE MakeSource(p)
    BY <2>8 DEF MakeSource
  <2>9. CASE Start(p)
    BY <2>9 DEF Start, Leave, AfterReconcile
  <2> QED BY <1>1, <2>1, <2>2, <2>3, <2>4, <2>5, <2>6, <2>7, <2>8, <2>9 DEF TaskStep
<1>2. ASSUME NEW c \in Conns, SocketStep(c) \/ Pair(c) \/ LoseConnection(c) \/ \E s \in Sessions : Authenticate(c, s)
      PROVE BarrierInv'
  <2>1. CASE Sample(c)
    BY <2>1 DEF Sample
  <2>2. CASE Compare(c)
    BY <2>2 DEF Compare, Leave, AfterReconcile
  <2>3. ASSUME NEW s \in Sessions, InsertPaired(c, s) PROVE BarrierInv'
    BY <2>3 DEF InsertPaired
  <2>4. CASE Pair(c)
    BY <2>4 DEF Pair
  <2>5. CASE LoseConnection(c)
    BY <2>5 DEF LoseConnection
  <2>6. ASSUME NEW s \in Sessions, Authenticate(c, s) PROVE BarrierInv'
    BY <2>6 DEF Authenticate
  <2> QED BY <1>2, <2>1, <2>2, <2>3, <2>4, <2>5, <2>6 DEF SocketStep
<1>3. ASSUME NEW h \in Handlers, RevokeTrust(h) \/ Disconnect(h) \/ \E ch \in Channels : RemoveRoute(h, ch) \/ AddRoute(h, ch)
      PROVE BarrierInv'
  <2>1. CASE RevokeTrust(h)
    BY <2>1 DEF RevokeTrust
  <2>2. CASE Disconnect(h)
    <3>1. /\ pc[h] \in {"gate", "join"} /\ pc' = [pc EXCEPT ![h] = "cancelled"]
          /\ gate' = IF gate = h THEN Nobody ELSE gate
          /\ picked' = IF gate = h THEN Nobody ELSE picked
          /\ abandoned' = IF pc[h] = "join" /\ updater[picked].state = "aborted"
                          THEN abandoned \cup {picked} ELSE abandoned
          /\ UNCHANGED <<routes, removedBy, updater, snapshot>>
      BY <2>2 DEF Disconnect
    <3>2. /\ pc[h] = "join" <=> gate = h
          /\ gate # Nobody /\ gate # h => pc'[gate] = pc[gate]
      BY <3>1
    <3>3. \A ch \in Channels : /\ Pending(ch) => Pending(ch)'
                             /\ removedBy[ch] = h => Pending(ch)'
      BY <3>1
    <3>4. abandoned \subseteq abandoned'
      BY <3>1
    <3>5. Joined'
      <4>1. CASE gate = h
        BY <3>1, <3>2, <4>1
      <4>2. CASE gate # h
        BY <3>1, <3>2, <4>2
      <4> QED BY <4>1, <4>2
    <3>6. \A u \in Updaters : \A ch \in updater[u].channels \ routes :
            updater[u].state = "aborted" => Pending(ch)' \/ removedBy[ch] = gate' \/ u \in abandoned'
      <4> SUFFICES ASSUME NEW u \in Updaters, NEW ch \in updater[u].channels \ routes,
                          updater[u].state = "aborted"
                   PROVE  Pending(ch)' \/ removedBy[ch] = gate' \/ u \in abandoned'
        OBVIOUS
      <4>1. ch \in Channels
        OBVIOUS
      <4>2. Pending(ch) \/ removedBy[ch] = gate \/ u \in abandoned
        OBVIOUS
      <4> QED BY <3>1, <3>3, <3>4, <4>1, <4>2
    <3>7. /\ \A u \in Updaters : \A ch \in updater[u].channels \ routes :
               updater[u].state = "live" => Pending(ch)'
          /\ \A q \in Tasks : pc'[q] \in {"source", "start"} =>
               \A ch \in snapshot.channels \ routes : Pending(ch)'
      BY <3>1, <3>3
    <3>8. Carried'
      BY <3>1, <3>6, <3>7
    <3> QED BY <3>5, <3>8
  <2>3. ASSUME NEW ch \in Channels, RemoveRoute(h, ch) PROVE BarrierInv'
    BY <2>3 DEF RemoveRoute
  <2>4. ASSUME NEW ch \in Channels, AddRoute(h, ch) PROVE BarrierInv'
    BY <2>4 DEF AddRoute
  <2> QED BY <1>3, <2>1, <2>2, <2>3, <2>4
<1>4. ASSUME NEW u \in Updaters, Poll(u) \/ Ends(u)
      PROVE BarrierInv'
  <2>1. CASE Poll(u)
    BY <2>1 DEF Poll
  <2>2. CASE Ends(u)
    BY <2>2 DEF Ends
  <2> QED BY <1>4, <2>1, <2>2
<1>5. CASE Wake
  BY <1>5 DEF Wake
<1>6. CASE UNCHANGED vars
  BY <1>6 DEF vars
<1> QED BY <1>1, <1>2, <1>3, <1>4, <1>5, <1>6 DEF Next

\* No step breaks ServedInv, dropped requests or not.
LEMMA ServedStep == TypeOK /\ TypeOK' /\ TableInv /\ ServedInv /\ [Next]_vars => ServedInv'
<1> SUFFICES ASSUME TypeOK, TypeOK', TableInv, ServedInv, [Next]_vars PROVE ServedInv'
  OBVIOUS
<1> USE ManagerConstants
<1> USE DEF Tasks, TypeOK, Steps, Critical, Updater, Goto, NoSnapshot, config, trust, tasks, table, work,
           TableInv, OneUpdaterPosts, ServedInv, UpdaterCurrent, SnapshotCurrent,
           PickedCurrent, SessionFollowed, StartPending, Forced, Keep
<1>1. ASSUME NEW p \in Tasks, TaskStep(p) PROVE ServedInv'
  <2>1. CASE Evict(p)
    BY <2>1 DEF Evict
  <2>2. CASE Replay(p)
    BY <2>2 DEF Replay
  <2>3. CASE Enter(p)
    BY <2>3 DEF Enter
  <2>4. CASE Retire(p)
    BY <2>4 DEF Retire, Retired, SessionCurrent
  <2>5. CASE Join(p)
    BY <2>5 DEF Join
  <2>6. CASE Pick(p)
    BY <2>6 DEF Pick, Leave, AfterReconcile
  <2>7. CASE ReadRoutes(p)
    BY <2>7 DEF ReadRoutes, Leave, AfterReconcile
  <2>8. CASE MakeSource(p)
    BY <2>8 DEF MakeSource
  <2>9. CASE Start(p)
    BY <2>9 DEF Start, Leave, AfterReconcile
  <2> QED BY <1>1, <2>1, <2>2, <2>3, <2>4, <2>5, <2>6, <2>7, <2>8, <2>9 DEF TaskStep
<1>2. ASSUME NEW c \in Conns, SocketStep(c) \/ Pair(c) \/ LoseConnection(c) \/ \E s \in Sessions : Authenticate(c, s)
      PROVE ServedInv'
  <2>1. CASE Sample(c)
    BY <2>1 DEF Sample
  <2>2. CASE Compare(c)
    BY <2>2 DEF Compare, Leave, AfterReconcile
  <2>3. ASSUME NEW s \in Sessions, InsertPaired(c, s) PROVE ServedInv'
    BY <2>3 DEF InsertPaired
  <2>4. CASE Pair(c)
    BY <2>4 DEF Pair
  <2>5. CASE LoseConnection(c)
    BY <2>5 DEF LoseConnection
  <2>6. ASSUME NEW s \in Sessions, Authenticate(c, s) PROVE ServedInv'
    BY <2>6 DEF Authenticate
  <2> QED BY <1>2, <2>1, <2>2, <2>3, <2>4, <2>5, <2>6 DEF SocketStep
<1>3. ASSUME NEW h \in Handlers, RevokeTrust(h) \/ Disconnect(h) \/ \E ch \in Channels : RemoveRoute(h, ch) \/ AddRoute(h, ch)
      PROVE ServedInv'
  <2>1. CASE RevokeTrust(h)
    BY <2>1 DEF RevokeTrust
  <2>2. CASE Disconnect(h)
    BY <2>2 DEF Disconnect
  <2>3. ASSUME NEW ch \in Channels, RemoveRoute(h, ch) PROVE ServedInv'
    BY <2>3 DEF RemoveRoute
  <2>4. ASSUME NEW ch \in Channels, AddRoute(h, ch) PROVE ServedInv'
    BY <2>4 DEF AddRoute
  <2> QED BY <1>3, <2>1, <2>2, <2>3, <2>4
<1>4. ASSUME NEW u \in Updaters, Poll(u) \/ Ends(u)
      PROVE ServedInv'
  <2>1. CASE Poll(u)
    BY <2>1 DEF Poll
  <2>2. CASE Ends(u)
    BY <2>2 DEF Ends
  <2> QED BY <1>4, <2>1, <2>2
<1>5. CASE Wake
  BY <1>5 DEF Wake
<1>6. CASE UNCHANGED vars
  BY <1>6 DEF vars
<1> QED BY <1>1, <1>2, <1>3, <1>4, <1>5, <1>6 DEF Next

---------------------------------------------------------------------------
\* Every variable keeps its type, and the reconcile steps exclude each other.
THEOREM TypeCorrect == Spec => []TypeOK
<1>1. Init => TypeOK
  BY ManagerConstants DEF Init, TypeOK, Tasks, Steps, Critical, Updater, NoSnapshot
<1> QED BY <1>1, TypeStep, PTL DEF Spec

\* The table and the tasks agree.
LEMMA TableInvariant == Spec => []TableInv
<1>1. Init => TableInv
  BY ManagerConstants DEF Init, TableInv, OneUpdaterPosts, Tasks, Critical
<1> QED BY <1>1, TypeCorrect, TableStep, PTL DEF Spec

\* Whatever reconciles, requests and sockets do, a telescope has at most one
\* updater that has not been aborted.
THEOREM OnlyOneUpdaterPosts == Spec => []OneUpdaterPosts
<1>1. TableInv => OneUpdaterPosts
  BY DEF TableInv
<1> QED BY <1>1, TableInvariant, PTL

\* The return of a request that removed a channel means that every updater
\* task which could post there has been stopped, and is gone unless the client
\* of the request that awaited it went away; if no task was abandoned that way,
\* none at all can post there.
THEOREM RemovalHolds ==
  Spec => [](RemovalStopsPosting /\ (abandoned = {} => RemovalIsABarrier))
<1>1. Init => BarrierInv
  BY ManagerConstants DEF Init, BarrierInv, Joined, Carried, Tasks
<1>2. TypeOK /\ BarrierInv => RemovalStopsPosting
  <2> SUFFICES ASSUME TypeOK, BarrierInv, NEW ch \in Channels \ routes,
                      removedBy[ch] # Nobody, pc[removedBy[ch]] = "returned",
                      NEW u \in Updaters, ch \in updater[u].channels
               PROVE  u \in abandoned /\ updater[u].state = "aborted"
    BY DEF RemovalStopsPosting
  <2>1. updater[u].state \in {"live", "aborted"}
    BY DEF TypeOK, Updater, BarrierInv, Carried
  <2>2. ~Pending(ch)
    BY DEF Pending
  <2>3. updater[u].state = "aborted" /\ (removedBy[ch] = gate \/ u \in abandoned)
    BY <2>1, <2>2 DEF BarrierInv, Carried
  <2>4. gate # removedBy[ch] \/ u \in abandoned
    BY <2>3 DEF BarrierInv, Joined
  <2> QED BY <2>3, <2>4
<1>3. RemovalStopsPosting /\ abandoned = {} => RemovalIsABarrier
  BY DEF RemovalStopsPosting, RemovalIsABarrier
<1> QED BY <1>1, <1>2, <1>3, TypeCorrect, TableInvariant, BarrierStep, PTL DEF Spec

\* Once nothing is under way, a connected rig with routes is served by an
\* updater of its identity, its trust and the present routes, whatever the
\* order of reconnects, re-pairings, route changes and dropped requests.
THEOREM ServedHolds == Spec => []ConnectedRigIsServed
<1>1. Init => ServedInv
  BY ManagerConstants DEF Init, ServedInv, UpdaterCurrent, SnapshotCurrent, PickedCurrent,
     SessionFollowed, StartPending, Tasks
<1>2. TypeOK /\ ServedInv => ConnectedRigIsServed
  <2> SUFFICES ASSUME TypeOK, ServedInv, Quiet, slot # Nobody, routes # {}
               PROVE  /\ running # Nobody
                      /\ Serves(running, slot)
                      /\ updater[running].channels = routes
    BY DEF ConnectedRigIsServed
  <2>1. ~Forced /\ slot \in Tasks
    BY DEF Quiet, Forced, TypeOK, Tasks
  <2>2. running # Nobody
    BY DEF ServedInv, StartPending, Quiet, Critical
  <2>3. updater[running].channels = routes /\ updater[running].generation = generation
    BY <2>1, <2>2 DEF ServedInv, UpdaterCurrent
  <2>4. updater[running].session = session[slot]
    BY <2>1, <2>2 DEF ServedInv, SessionFollowed, Quiet
  <2> QED BY <2>2, <2>3, <2>4 DEF Serves
<1> QED BY <1>1, <1>2, TypeCorrect, TableInvariant, ServedStep, PTL DEF Spec

---------------------------------------------------------------------------
\* Who a callback, a session and a request are of is known once it matters.
CallersKnown ==
  \A c \in Callbacks :
    callback[c].at \in {"exchanging", "fetched", "stored"} => callback[c].user \in Users

OwnersKnown == \A c \in Callbacks : sessions[c] # NoSession => sessions[c].user \in Users

UnderWay(at) == at \notin {"new", "done", "refused"}
Known(r) == UnderWay(r.at) => r.user \in Users /\ r.server \in Servers
VisitorsKnown == \A v \in Visits : Known(visit[v])

Identified == SignInTypeOK /\ CallersKnown /\ OwnersKnown /\ VisitorsKnown

CallbackType == [at : CallbackStages, user : Users \cup {NoUser}, seen : SUBSET Servers]
VisitType ==
  [at : VisitStages, question : {"manage", "bot"},
   user : Users \cup {NoUser}, server : Servers \cup {NoUser},
   since : 0..LastInstant, asked : 0..LastInstant, verdict : BOOLEAN]
CallbacksTyped == callback \in [Callbacks -> CallbackType] /\ CallersKnown
VisitsTyped == visit \in [Visits -> VisitType] /\ VisitorsKnown

LEMMA IdentifiedParts == Identified => CallbacksTyped /\ VisitsTyped
BY DEF Identified, SignInTypeOK, CallbacksTyped, CallbackType, VisitsTyped, VisitType

LEMMA AnInstant == instant \in 1..LastInstant => instant \in 0..LastInstant /\ instant \in Nat
BY SignInConstants

\* A request that is replaced by a known one leaves all of them known.
LEMMA VisitReplaced ==
  ASSUME VisitsTyped, NEW v \in Visits, NEW r \in VisitType, Known(r),
         visit' = [visit EXCEPT ![v] = r]
  PROVE  VisitsTyped'
BY DEF VisitsTyped, VisitorsKnown

LEMMA RequestTyped ==
  ASSUME NEW at \in VisitStages, NEW q \in {"manage", "bot"}, NEW u \in Users \cup {NoUser},
         NEW g \in Servers \cup {NoUser}, NEW t \in 0..LastInstant
  PROVE  Request(at, q, u, g, t) \in VisitType
BY SignInConstants DEF Request, VisitType

LEMMA EmptyTyped ==
  \A at \in VisitStages : Empty(at) \in VisitType /\ (Over(at) => Known(Empty(at)))
<1>1. 0 \in 0..LastInstant
  BY SignInConstants
<1>2. \A at \in VisitStages : Empty(at) \in VisitType
  BY <1>1, RequestTyped DEF Empty
<1> QED BY <1>2 DEF Known, UnderWay, Over, Empty, Request

LEMMA GoToTyped ==
  ASSUME VisitsTyped, NEW v \in Visits, UnderWay(visit[v].at), NEW at \in VisitStages,
         GoTo(v, at)
  PROVE  VisitsTyped'
<1>1. CASE Over(at)
  BY <1>1, EmptyTyped, VisitReplaced DEF GoTo, StepVisit
<1>2. CASE ~Over(at)
  <2>1. [visit[v] EXCEPT !.at = at] \in VisitType /\ Known([visit[v] EXCEPT !.at = at])
    BY DEF VisitsTyped, VisitorsKnown, VisitType, Known
  <2> QED BY <1>2, <2>1, VisitReplaced DEF GoTo, StepVisit
<1> QED BY <1>1, <1>2

\* What is asked next is asked about the same server, for the same user.
LEMMA PassesTyped ==
  ASSUME VisitsTyped, NEW v \in Visits, UnderWay(visit[v].at), registered \subseteq Servers,
         Passes(v)
  PROVE  VisitsTyped' /\ registered' \subseteq Servers
<1>0. visit[v].user \in Users /\ visit[v].server \in Servers
  BY DEF VisitsTyped, VisitorsKnown, Known
<1>1. CASE visit[v].question = "manage"
  <2> DEFINE next == Request("check", "bot", visit[v].user, visit[v].server, 0)
  <2>1. next \in VisitType
    BY <1>0, RequestTyped, SignInConstants DEF VisitStages
  <2>2. Known(next)
    BY <1>0 DEF Request, Known
  <2>3. visit' = [visit EXCEPT ![v] = next] /\ UNCHANGED registered
    BY <1>1 DEF Passes, StepVisit
  <2> QED BY <2>1, <2>2, <2>3, VisitReplaced
<1>2. CASE visit[v].question # "manage"
  <2>1. GoTo(v, "done") /\ registered' = registered \cup {visit[v].server}
    BY <1>2 DEF Passes, Register
  <2> QED BY <1>0, <2>1, GoToTyped DEF VisitStages
<1> QED BY <1>1, <1>2

LEMMA AwaitingTyped ==
  ASSUME VisitsTyped, NEW v \in Visits, UnderWay(visit[v].at), NEW at \in {"asking", "answered"},
         NEW since \in 0..LastInstant, NEW verdict \in BOOLEAN,
         StepVisit(v, Awaiting(visit[v], at, since, verdict))
  PROVE  VisitsTyped'
<1> DEFINE r == Awaiting(visit[v], at, since, verdict)
<1>1. visit[v] \in VisitType /\ Known(visit[v])
  BY DEF VisitsTyped, VisitorsKnown
<1>2. r \in VisitType
  BY <1>1 DEF Awaiting, VisitType, VisitStages
<1>3. Known(r)
  BY <1>1 DEF Awaiting, Known
<1> QED BY <1>2, <1>3, VisitReplaced DEF StepVisit

\* The same of callbacks.
LEMMA CallbackReplaced ==
  ASSUME CallbacksTyped, NEW c \in Callbacks, NEW r \in CallbackType,
         r.at \in {"exchanging", "fetched", "stored"} => r.user \in Users,
         callback' = [callback EXCEPT ![c] = r]
  PROVE  CallbacksTyped'
BY DEF CallbacksTyped, CallersKnown

LEMMA StepCallbackTyped ==
  ASSUME CallbacksTyped, NEW c \in Callbacks, NEW from \in {"exchanging", "fetched", "stored"},
         NEW to \in CallbackStages, StepCallback(c, from, to)
  PROVE  CallbacksTyped' /\ callback[c].user \in Users /\ callback[c].seen \subseteq Servers
<1>1. callback[c] \in CallbackType /\ callback[c].user \in Users
  BY DEF CallbacksTyped, CallersKnown, StepCallback
<1>2. NewCallback \in CallbackType
  BY DEF NewCallback, CallbackType, CallbackStages
<1>3. CASE Over(to)
  <2>1. [NewCallback EXCEPT !.at = to] \in CallbackType
    BY <1>2 DEF CallbackType
  <2>2. [NewCallback EXCEPT !.at = to].at \notin {"exchanging", "fetched", "stored"}
    BY <1>3 DEF Over, NewCallback
  <2> QED BY <1>1, <1>3, <2>1, <2>2, CallbackReplaced DEF StepCallback, CallbackType
<1>4. CASE ~Over(to)
  <2>1. /\ [callback[c] EXCEPT !.at = to] \in CallbackType
        /\ [callback[c] EXCEPT !.at = to].user \in Users
    BY <1>1 DEF CallbackType
  <2> QED BY <1>1, <1>4, <2>1, CallbackReplaced DEF StepCallback, CallbackType
<1> QED BY <1>3, <1>4

---------------------------------------------------------------------------
\* The other variables.
RightsTyped ==
  /\ instant \in 1..LastInstant /\ manages \subseteq Users \X Servers /\ bots \subseteq Servers
  /\ held \in [Users \X Servers -> 0..LastInstant] /\ checker \in BOOLEAN
LoginsTyped ==
  /\ logins \in [since : 0..LastInstant, count : 0..MaxLogins]
  /\ oauth \in [States -> [at : {"new", "issued", "consumed", "gone"}, issued : 0..LastInstant]]
StoredTyped ==
  /\ sessions \in [Callbacks -> [user : Users \cup {NoUser}, expires : Nat]] /\ OwnersKnown
  /\ userGuilds \in [Users -> SUBSET Servers]
AskedTyped ==
  cache \subseteq [key : CacheKeys, at : 1..LastInstant] /\ registered \subseteq Servers

LEMMA Parted ==
  Identified <=> /\ RightsTyped /\ LoginsTyped /\ StoredTyped /\ AskedTyped
                 /\ CallbacksTyped /\ VisitsTyped
BY DEF Identified, SignInTypeOK, RightsTyped, LoginsTyped, StoredTyped, AskedTyped,
       CallbacksTyped, CallbackType, VisitsTyped, VisitType

LEMMA PartedNext ==
  Identified' <=> /\ RightsTyped' /\ LoginsTyped' /\ StoredTyped' /\ AskedTyped'
                  /\ CallbacksTyped' /\ VisitsTyped'
BY DEF Identified, SignInTypeOK, RightsTyped, LoginsTyped, StoredTyped, AskedTyped,
       CallbacksTyped, CallbackType, VisitsTyped, VisitType

LEMMA Kept ==
  /\ RightsTyped /\ UNCHANGED <<discord, clocked, checker>> => RightsTyped'
  /\ LoginsTyped /\ UNCHANGED <<logins, oauth>> => LoginsTyped'
  /\ StoredTyped /\ UNCHANGED <<sessions, userGuilds>> => StoredTyped'
  /\ AskedTyped /\ UNCHANGED <<cache, registered>> => AskedTyped'
  /\ CallbacksTyped /\ UNCHANGED callback => CallbacksTyped'
  /\ VisitsTyped /\ UNCHANGED visit => VisitsTyped'
BY DEF discord, clocked, RightsTyped, LoginsTyped, StoredTyped, OwnersKnown, AskedTyped,
       CallbacksTyped, CallersKnown, VisitsTyped, VisitorsKnown

LEMMA InitIdentified == SignInInit => Identified
<1> SUFFICES ASSUME SignInInit PROVE Identified
  OBVIOUS
<1>1. RightsTyped
  BY SignInConstants DEF SignInInit, RightsTyped
<1>2. LoginsTyped
  BY SignInConstants DEF SignInInit, LoginsTyped
<1>3. StoredTyped
  BY DEF SignInInit, StoredTyped, OwnersKnown, NoSession
<1>4. AskedTyped
  BY DEF SignInInit, AskedTyped
<1>5. CallbacksTyped
  BY DEF SignInInit, CallbacksTyped, CallersKnown, CallbackType, NewCallback, CallbackStages
<1>6. VisitsTyped
  <2>1. Empty("new") \in VisitType
    BY EmptyTyped DEF VisitStages
  <2>2. Known(Empty("new"))
    BY DEF Known, UnderWay, Empty, Request
  <2> QED BY <2>1, <2>2 DEF SignInInit, VisitsTyped, VisitorsKnown
<1> QED BY <1>1, <1>2, <1>3, <1>4, <1>5, <1>6, Parted

---------------------------------------------------------------------------
\* One step: what Discord and time do, what a login does, what a request does.
LEMMA WorldIdentified ==
  ASSUME Identified,
         \/ Tick \/ \E u \in Users, g \in Servers : Promote(u, g) \/ Demote(u, g)
         \/ \E g \in Servers : RemoveBot(g)
  PROVE  Identified'
<1>1. /\ UNCHANGED <<logins, oauth, callback, sessions, userGuilds, cache, visit, registered>>
      /\ RightsTyped'
  <2>1. CASE Tick
    BY <2>1, Parted, SignInConstants
    DEF Tick, RightsTyped, discord, loginVars, visitVars
  <2>2. ASSUME NEW u \in Users, NEW g \in Servers, Promote(u, g) PROVE <1>1!:
    BY <2>2, Parted, AnInstant DEF Promote, RightsTyped, loginVars, visitVars
  <2>3. ASSUME NEW u \in Users, NEW g \in Servers, Demote(u, g) PROVE <1>1!:
    BY <2>3, Parted DEF Demote, RightsTyped, clocked, loginVars, visitVars
  <2>4. ASSUME NEW g \in Servers, RemoveBot(g) PROVE <1>1!:
    BY <2>4, Parted DEF RemoveBot, RightsTyped, clocked, loginVars, visitVars
  <2> QED BY <2>1, <2>2, <2>3, <2>4
<1> QED BY <1>1, Parted, PartedNext, Kept

LEMMA LoginIdentified ==
  ASSUME Identified, NEW n \in States, Login(n)
  PROVE  Identified'
<1>1. LoginsTyped'
  <2>1. instant \in 0..LastInstant
    BY Parted, AnInstant DEF RightsTyped
  <2>2. logins' \in [since : 0..LastInstant, count : 0..MaxLogins]
    <3>1. logins \in [since : 0..LastInstant, count : 0..MaxLogins]
      BY Parted DEF LoginsTyped
    <3> QED BY <2>1, <3>1, SignInConstants DEF Login, WithinLimit, WindowOver
  <2> QED BY <2>1, <2>2, Parted DEF Login, LoginsTyped
<1> QED BY <1>1, Parted, PartedNext, Kept DEF Login, visitVars

LEMMA ConsumeIdentified ==
  ASSUME Identified, NEW c \in Callbacks, NEW n \in States, NEW u \in Users,
         ConsumeState(c, n, u)
  PROVE  Identified'
<1>1. LoginsTyped' /\ CallbacksTyped'
  <2>1. CASE Consumable(n)
    <3> DEFINE r == [at |-> "exchanging", user |-> u, seen |-> {}]
    <3>1. r \in CallbackType /\ r.user \in Users
      BY DEF CallbackType, CallbackStages
    <3>2. callback' = [callback EXCEPT ![c] = r] /\ UNCHANGED logins
      BY <2>1 DEF ConsumeState
    <3>3. CallbacksTyped'
      BY <3>1, <3>2, Parted, CallbackReplaced
    <3> QED BY <2>1, <3>3, Parted DEF ConsumeState, LoginsTyped
  <2>2. CASE ~Consumable(n)
    <3> DEFINE r == [callback[c] EXCEPT !.at = "refused"]
    <3>1. r \in CallbackType /\ r.at = "refused"
      BY Parted DEF CallbacksTyped, CallbackType, CallbackStages
    <3>2. callback' = [callback EXCEPT ![c] = r] /\ UNCHANGED <<logins, oauth>>
      BY <2>2 DEF ConsumeState
    <3>3. CallbacksTyped'
      BY <3>1, <3>2, Parted, CallbackReplaced
    <3> QED BY <3>2, <3>3, Parted, Kept
  <2> QED BY <2>1, <2>2
<1> QED BY <1>1, Parted, PartedNext, Kept DEF ConsumeState, visitVars

LEMMA CallbackIdentified ==
  ASSUME Identified, NEW c \in Callbacks,
         FetchGuilds(c) \/ CallbackFails(c) \/ StoreUser(c) \/ CreateSession(c)
  PROVE  Identified'
<1>1. UNCHANGED <<discord, clocked, checker, logins, oauth, cache, visit, registered>>
  BY DEF FetchGuilds, CallbackFails, StoreUser, CreateSession, StepCallback, visitVars
<1>2. CallbacksTyped' /\ StoredTyped'
  <2>1. CASE FetchGuilds(c)
    <3> DEFINE seen == {g \in Servers : <<callback[c].user, g>> \in manages}
               r == [at |-> "fetched", user |-> callback[c].user, seen |-> seen]
    <3>1. r \in CallbackType /\ r.user \in Users
      BY <2>1, Parted DEF FetchGuilds, CallbacksTyped, CallersKnown, CallbackType, CallbackStages
    <3>2. callback' = [callback EXCEPT ![c] = r] /\ UNCHANGED <<sessions, userGuilds>>
      BY <2>1, Parted DEF FetchGuilds, CallbacksTyped
    <3> QED BY <3>1, <3>2, Parted, CallbackReplaced, Kept
  <2>2. CASE CallbackFails(c)
    <3>1. PICK at \in {"exchanging", "fetched", "stored"} : StepCallback(c, at, "refused")
      BY <2>2 DEF CallbackFails
    <3>2. CallbacksTyped'
      BY <3>1, Parted, StepCallbackTyped DEF CallbackStages
    <3> QED BY <2>2, <3>2, Parted, Kept DEF CallbackFails
  <2>3. CASE StoreUser(c)
    <3>1. StepCallback(c, "fetched", "stored")
      BY <2>3 DEF StoreUser
    <3>2. CallbacksTyped' /\ callback[c].user \in Users /\ callback[c].seen \subseteq Servers
      BY <3>1, Parted, StepCallbackTyped DEF CallbackStages
    <3> QED BY <2>3, <3>2, Parted DEF StoreUser, StoredTyped, OwnersKnown
  <2>4. CASE CreateSession(c)
    <3>1. StepCallback(c, "stored", "done")
      BY <2>4 DEF CreateSession
    <3>2. CallbacksTyped' /\ callback[c].user \in Users
      BY <3>1, Parted, StepCallbackTyped DEF CallbackStages
    <3>3. instant + SessionLifetime \in Nat
      BY Parted, AnInstant, SignInConstants DEF RightsTyped
    <3> QED BY <2>4, <3>2, <3>3, Parted DEF CreateSession, StoredTyped, OwnersKnown
  <2> QED BY <2>1, <2>2, <2>3, <2>4
<1> QED BY <1>1, <1>2, Parted, PartedNext, Kept

LEMMA SessionsEndIdentified ==
  ASSUME Identified, Sweep \/ SignInRestarts \/ \E c \in Callbacks : Logout(c)
  PROVE  Identified'
<1>1. CASE Sweep
  <2>1. StoredTyped'
    BY <1>1, Parted DEF Sweep, StoredTyped, OwnersKnown, NoSession
  <2>2. LoginsTyped'
    BY <1>1, Parted, SignInConstants DEF Sweep, LoginsTyped
  <2> QED BY <1>1, <2>1, <2>2, Parted, PartedNext, Kept DEF Sweep, visitVars
<1>2. CASE SignInRestarts
  <2>1. CallbacksTyped'
    <3> DEFINE r == [NewCallback EXCEPT !.at = "refused"]
    <3>1. r \in CallbackType /\ r.at = "refused"
      BY DEF NewCallback, CallbackType, CallbackStages
    <3>2. callback' = [c \in Callbacks |->
                         IF callback[c].at \in {"new", "done"} THEN callback[c] ELSE r]
      BY <1>2 DEF SignInRestarts
    <3> QED BY <3>1, <3>2, Parted DEF CallbacksTyped, CallersKnown
  <2>2. VisitsTyped'
    <3>1. Empty("refused") \in VisitType /\ Known(Empty("refused"))
      BY EmptyTyped DEF VisitStages, Over
    <3> QED BY <1>2, <3>1, Parted DEF SignInRestarts, VisitsTyped, VisitorsKnown
  <2>3. LoginsTyped' /\ AskedTyped'
    BY <1>2, Parted, SignInConstants DEF SignInRestarts, LoginsTyped, AskedTyped
  <2> QED BY <1>2, <2>1, <2>2, <2>3, Parted, PartedNext, Kept DEF SignInRestarts
<1>3. ASSUME NEW c \in Callbacks, Logout(c) PROVE Identified'
  <2>1. StoredTyped'
    BY <1>3, Parted DEF Logout, StoredTyped, OwnersKnown, NoSession
  <2> QED BY <1>3, <2>1, Parted, PartedNext, Kept DEF Logout, loginVars, visitVars
<1> QED BY <1>1, <1>2, <1>3

\* Every step of a request leaves alone what is stored of people and logins.
VisitKeeps ==
  UNCHANGED <<discord, clocked, checker, logins, oauth, callback, userGuilds>>

LEMMA VisitStep ==
  ASSUME Identified, VisitKeeps, StoredTyped', AskedTyped', VisitsTyped'
  PROVE  Identified'
BY Parted, PartedNext, Kept DEF VisitKeeps

LEMMA LoadIdentified ==
  ASSUME Identified, NEW v \in Visits, NEW c \in Callbacks, NEW g \in Servers,
         LoadSession(v, c, g)
  PROVE  Identified'
<1>1. sessions[c].user \in Users
  BY Parted DEF StoredTyped, OwnersKnown, LoadSession
<1>2. CASE Expired(c)
  <2>1. visit' = [visit EXCEPT ![v] = Empty("refused")] /\ VisitKeeps
    BY <1>2 DEF LoadSession, GoTo, StepVisit, Over, VisitKeeps, loginVars
  <2>2. VisitsTyped'
    BY <2>1, Parted, EmptyTyped, VisitReplaced DEF VisitStages, Over
  <2>3. StoredTyped'
    BY <1>2, <2>1, Parted DEF LoadSession, StoredTyped, OwnersKnown, NoSession, VisitKeeps
  <2>4. AskedTyped'
    BY Parted, Kept DEF LoadSession
  <2> QED BY <2>1, <2>2, <2>3, <2>4, VisitStep
<1>3. CASE ~Expired(c)
  <2> DEFINE r == Request("known", "manage", sessions[c].user, g, instant)
  <2>1. instant \in 0..LastInstant
    BY Parted, AnInstant DEF RightsTyped
  <2>2. r \in VisitType
    BY <1>1, <2>1, RequestTyped DEF VisitStages
  <2>3. Known(r)
    BY <1>1 DEF Request, Known
  <2>4. visit' = [visit EXCEPT ![v] = r] /\ VisitKeeps /\ UNCHANGED <<sessions, cache, registered>>
    BY <1>3 DEF LoadSession, StepVisit, VisitKeeps, loginVars
  <2>5. VisitsTyped'
    BY <2>2, <2>3, <2>4, Parted, VisitReplaced
  <2> QED BY <2>4, <2>5, Parted, Kept, VisitStep DEF VisitKeeps
<1> QED BY <1>2, <1>3

\* The steps that leave the session, the cache and the registrations alone.
LEMMA ReadIdentified ==
  ASSUME Identified, NEW v \in Visits,
         ReadSnapshot(v) \/ DiscordAnswers(v) \/ VisitFails(v)
  PROVE  Identified'
<1>1. VisitKeeps /\ UNCHANGED <<sessions, cache, registered>>
  BY DEF ReadSnapshot, DiscordAnswers, VisitFails, GoTo, StepVisit, VisitKeeps, loginVars
<1>2. VisitsTyped'
  <2>1. CASE ReadSnapshot(v)
    <3>1. PICK at \in {"check", "refused"} : GoTo(v, at)
      BY <2>1 DEF ReadSnapshot
    <3> QED BY <2>1, <3>1, Parted, GoToTyped DEF ReadSnapshot, UnderWay, VisitStages
  <2>2. CASE DiscordAnswers(v)
    <3>1. Truth(v) \in BOOLEAN
      BY Zenon DEF Truth
    <3>2. visit[v].since \in 0..LastInstant
      BY Parted DEF VisitsTyped, VisitType
    <3> QED BY <2>2, <3>1, <3>2, Parted, AwaitingTyped DEF DiscordAnswers, UnderWay
  <2>3. CASE VisitFails(v)
    BY <2>3, Parted, GoToTyped DEF VisitFails, UnderWay, VisitStages
  <2> QED BY <1>1, <2>1, <2>2, <2>3
<1> QED BY <1>1, <1>2, Parted, Kept, VisitStep DEF VisitKeeps

LEMMA CheckIdentified ==
  ASSUME Identified, NEW v \in Visits, CheckCache(v)
  PROVE  Identified'
<1>1. VisitKeeps /\ UNCHANGED sessions
  BY DEF CheckCache, Passes, GoTo, StepVisit, VisitKeeps, loginVars
<1>2. UnderWay(visit[v].at)
  BY DEF CheckCache, UnderWay
<1>3. VisitsTyped' /\ registered' \subseteq Servers
  <2>1. CASE Passes(v)
    BY <1>2, <2>1, Parted, PassesTyped DEF AskedTyped
  <2>2. CASE StepVisit(v, Awaiting(visit[v], "asking", instant, FALSE)) /\ UNCHANGED registered
    <3>1. instant \in 0..LastInstant
      BY Parted, AnInstant DEF RightsTyped
    <3> QED BY <1>2, <2>2, <3>1, Parted, AwaitingTyped DEF AskedTyped
  <2> QED BY <2>1, <2>2 DEF CheckCache
<1>4. cache' \subseteq cache
  BY DEF CheckCache, Fresh
<1> QED BY <1>1, <1>3, <1>4, Parted, Kept, VisitStep DEF AskedTyped, VisitKeeps

LEMMA HearIdentified ==
  ASSUME Identified, NEW v \in Visits, Hear(v)
  PROVE  Identified'
<1>1. VisitKeeps /\ UNCHANGED sessions
  BY DEF Hear, Passes, GoTo, StepVisit, VisitKeeps, loginVars
<1>2. UnderWay(visit[v].at)
  BY DEF Hear, UnderWay
<1>3. CASE visit[v].verdict
  <2>1. VisitsTyped' /\ registered' \subseteq Servers
    BY <1>2, <1>3, Parted, PassesTyped DEF Hear, AskedTyped
  <2>2. Key(v) \in CacheKeys
    BY <1>2, Parted DEF VisitsTyped, VisitorsKnown, Known, Key, CacheKeys
  <2>3. cache' = Remembers(Key(v)) /\ instant \in 1..LastInstant
    BY <1>3, Parted DEF Hear, RightsTyped
  <2>4. [key |-> Key(v), at |-> instant] \in [key : CacheKeys, at : 1..LastInstant]
    BY <2>2, <2>3
  <2>5. cache' \subseteq [key : CacheKeys, at : 1..LastInstant]
    BY <2>3, <2>4, Parted DEF AskedTyped, Remembers
  <2> QED BY <1>1, <2>1, <2>5, Parted, Kept, VisitStep DEF AskedTyped, VisitKeeps
<1>4. CASE ~visit[v].verdict
  <2>1. VisitsTyped' /\ UNCHANGED <<cache, registered>>
    BY <1>2, <1>4, Parted, GoToTyped DEF Hear, VisitStages
  <2> QED BY <1>1, <2>1, Parted, Kept, VisitStep DEF VisitKeeps
<1> QED BY <1>3, <1>4

\* Who a request is of is known while it is under way: a session that is used
\* belongs to a user, whoever logs in or out, and after any restart.
THEOREM RequestsAreIdentified == SignInSpec => []Identified
<1>1. Identified /\ [SignInNext]_signInVars => Identified'
  <2> SUFFICES ASSUME Identified, [SignInNext]_signInVars PROVE Identified'
    OBVIOUS
  <2>1. CASE SignInNext
    BY <2>1, WorldIdentified, SessionsEndIdentified, LoginIdentified, ConsumeIdentified,
       CallbackIdentified, LoadIdentified, ReadIdentified, CheckIdentified, HearIdentified
    DEF SignInNext
  <2>2. CASE UNCHANGED signInVars
    BY <2>2, Parted, PartedNext, Kept DEF signInVars, loginVars, visitVars
  <2> QED BY <2>1, <2>2
<1> QED BY <1>1, InitIdentified, PTL DEF SignInSpec

COROLLARY SignInTyped == SignInSpec => []SignInTypeOK
BY RequestsAreIdentified, PTL DEF Identified

---------------------------------------------------------------------------
\* Rights, and what is known of them.

Asked(r) == <<r.user, r.server>>

\* A manager manages now, and nobody later than now.
Managing ==
  \A x \in Users \X Servers : held[x] <= instant /\ (x \in manages => held[x] = instant)

\* A cached answer is at most Latency younger than the rights it speaks of.
CachedRights ==
  \A e \in cache : e.key \in Users \X Servers => held[e.key] > 0 /\ e.at <= held[e.key] + Latency

\* Discord answers in time, and a good answer tells of rights held since it was asked.
Timely(r) == r.since <= instant /\ instant <= r.since + Latency
Truthful(r) ==
  r.at = "answered" /\ r.question = "manage" /\ r.verdict =>
    held[Asked(r)] > 0 /\ held[Asked(r)] >= r.since
PendingVisit(r) == r.at \in {"asking", "answered"} => Timely(r) /\ Truthful(r)
PendingRights == \A v \in Visits : PendingVisit(visit[v])

RightsInv == Managing /\ CachedRights /\ PendingRights

\* What is kept of the types.
LEMMA Numbers ==
  ASSUME Identified
  PROVE  /\ instant \in Nat /\ instant > 0 /\ Latency \in Nat /\ CacheTtl \in Nat /\ CacheTtl > 0
         /\ \A x \in Users \X Servers : held[x] \in Nat
         /\ \A e \in cache : e.at \in Nat
         /\ \A v \in Visits : visit[v] \in VisitType /\ Known(visit[v]) /\ visit[v].since \in Nat
<1>1. instant \in Nat /\ instant > 0 /\ \A x \in Users \X Servers : held[x] \in Nat
  BY Parted, SignInConstants DEF RightsTyped
<1>2. \A e \in cache : e.at \in Nat
  BY Parted, SignInConstants DEF AskedTyped
<1>3. \A v \in Visits : visit[v] \in VisitType /\ Known(visit[v])
  BY Parted DEF VisitsTyped, VisitorsKnown
<1>4. \A v \in Visits : visit[v].since \in Nat
  BY <1>3, SignInConstants DEF VisitType
<1> QED BY <1>1, <1>2, <1>3, <1>4, SignInConstants

\* Rights that only grow do not harm what is known of them.
LEMMA Growing ==
  ASSUME Identified, Identified', RightsInv, Managing', cache' = cache, visit' = visit,
         \A x \in Users \X Servers : held[x] <= held'[x],
         \A v \in Visits : Waits(v) => Timely(visit[v])'
  PROVE  RightsInv'
<1>1. CachedRights'
  <2> SUFFICES ASSUME NEW e \in cache, e.key \in Users \X Servers
               PROVE  held'[e.key] > 0 /\ e.at <= held'[e.key] + Latency
    BY DEF CachedRights
  <2>1. held[e.key] > 0 /\ e.at <= held[e.key] + Latency /\ held[e.key] <= held'[e.key]
    BY DEF RightsInv, CachedRights
  <2>2. held[e.key] \in Nat /\ held'[e.key] \in Nat /\ e.at \in Nat /\ Latency \in Nat
    BY Numbers, Parted, PartedNext, SignInConstants DEF RightsTyped
  <2> QED BY <2>1, <2>2
<1>2. PendingRights'
  <2> SUFFICES ASSUME NEW v \in Visits, Waits(v) PROVE Truthful(visit[v])'
    BY DEF PendingRights, PendingVisit, Waits
  <2> SUFFICES ASSUME visit[v].at = "answered", visit[v].question = "manage", visit[v].verdict
               PROVE  held'[Asked(visit[v])] > 0 /\ held'[Asked(visit[v])] >= visit[v].since
    BY DEF Truthful, Asked
  <2>1. Asked(visit[v]) \in Users \X Servers
    BY Numbers DEF Known, UnderWay, Asked
  <2>2. held[Asked(visit[v])] > 0 /\ held[Asked(visit[v])] >= visit[v].since
    BY DEF RightsInv, PendingRights, PendingVisit, Truthful
  <2>3. held[Asked(visit[v])] \in Nat /\ held'[Asked(visit[v])] \in Nat /\ visit[v].since \in Nat
    BY <2>1, Numbers, PartedNext, SignInConstants DEF RightsTyped
  <2> QED BY <2>1, <2>2, <2>3
<1> QED BY <1>1, <1>2 DEF RightsInv

LEMMA WorldRights ==
  ASSUME Identified, Identified', RightsInv,
         \/ Tick \/ \E u \in Users, g \in Servers : Promote(u, g) \/ Demote(u, g)
         \/ \E g \in Servers : RemoveBot(g)
  PROVE  RightsInv'
<1>1. cache' = cache /\ visit' = visit
  BY DEF Tick, Promote, Demote, RemoveBot, visitVars
<1>2. held \in [Users \X Servers -> 0..LastInstant]
  BY Parted DEF RightsTyped
<1>3. CASE Tick
  <2>1. instant' = instant + 1 /\ manages' = manages
    BY <1>3 DEF Tick, discord
  <2>2. held' = [x \in Users \X Servers |-> IF x \in manages THEN instant + 1 ELSE held[x]]
    BY <1>3 DEF Tick
  <2>3. Managing' /\ \A x \in Users \X Servers : held[x] <= held'[x]
    BY <2>1, <2>2, Numbers DEF RightsInv, Managing
  <2>4. ASSUME NEW v \in Visits, Waits(v) PROVE Timely(visit[v])'
    <3>1. instant - visit[v].since < Latency /\ visit[v].since <= instant
      BY <1>3, <2>4 DEF Tick, RightsInv, PendingRights, PendingVisit, Timely, Waits
    <3> QED BY <1>1, <2>1, <3>1, Numbers DEF Timely
  <2> QED BY <1>1, <2>3, <2>4, Growing
<1>4. ASSUME NEW u \in Users, NEW g \in Servers, Promote(u, g) PROVE RightsInv'
  <2>1. /\ instant' = instant /\ manages' = manages \cup {<<u, g>>}
        /\ held' = [held EXCEPT ![<<u, g>>] = instant]
    BY <1>4 DEF Promote
  <2>2. Managing' /\ \A x \in Users \X Servers : held[x] <= held'[x]
    BY <1>2, <2>1, Numbers DEF RightsInv, Managing
  <2>3. ASSUME NEW v \in Visits, Waits(v) PROVE Timely(visit[v])'
    BY <1>1, <2>1, <2>3 DEF RightsInv, PendingRights, PendingVisit, Timely, Waits
  <2> QED BY <1>1, <2>2, <2>3, Growing
<1>5. ASSUME UNCHANGED <<instant, held>>, manages' \subseteq manages PROVE RightsInv'
  <2>1. Managing' /\ \A x \in Users \X Servers : held[x] <= held'[x]
    BY <1>5, Numbers DEF RightsInv, Managing
  <2>2. ASSUME NEW v \in Visits, Waits(v) PROVE Timely(visit[v])'
    BY <1>1, <1>5, <2>2 DEF RightsInv, PendingRights, PendingVisit, Timely, Waits
  <2> QED BY <1>1, <2>1, <2>2, Growing
<1>6. ASSUME NEW u \in Users, NEW g \in Servers, Demote(u, g) PROVE RightsInv'
  BY <1>5, <1>6 DEF Demote, clocked
<1>7. ASSUME NEW g \in Servers, RemoveBot(g) PROVE RightsInv'
  BY <1>5, <1>7 DEF RemoveBot, clocked
<1> QED BY <1>3, <1>4, <1>6, <1>7

\* A request that is not waiting harms nothing; one that is must be right.
LEMMA VisitRights ==
  ASSUME Identified, RightsInv, UNCHANGED <<instant, manages, held>>, cache' \subseteq cache,
         NEW v \in Visits, NEW r, PendingVisit(r), visit' = [visit EXCEPT ![v] = r]
  PROVE  RightsInv'
<1>1. Managing' /\ CachedRights'
  BY DEF RightsInv, Managing, CachedRights
<1>2. ASSUME NEW w \in Visits PROVE PendingVisit(visit[w])'
  <2>1. visit'[w] = r \/ visit'[w] = visit[w]
    BY Parted DEF VisitsTyped
  <2>2. PendingVisit(visit'[w])
    BY <2>1 DEF RightsInv, PendingRights
  <2> QED BY <2>2 DEF PendingVisit, Timely, Truthful, Asked
<1> QED BY <1>1, <1>2 DEF RightsInv, PendingRights

LEMMA GoToRights ==
  ASSUME Identified, RightsInv, UNCHANGED <<instant, manages, held>>, cache' \subseteq cache,
         NEW v \in Visits, NEW at \in {"check", "done", "refused"}, GoTo(v, at)
  PROVE  RightsInv'
<1>1. PendingVisit(Empty(at))
  BY DEF PendingVisit, Empty, Request
<1>2. [visit[v] EXCEPT !.at = at].at = at
  BY Numbers DEF VisitType
<1>3. PendingVisit([visit[v] EXCEPT !.at = at])
  BY <1>2 DEF PendingVisit
<1> QED BY <1>1, <1>3, VisitRights DEF GoTo, StepVisit

\* What a request becomes when it passes: it waits for nothing.
LEMMA PassesTo ==
  ASSUME NEW v \in Visits, Passes(v)
  PROVE  \E r : PendingVisit(r) /\ visit' = [visit EXCEPT ![v] = r]
<1>1. CASE visit[v].question = "manage"
  <2> DEFINE r == Request("check", "bot", visit[v].user, visit[v].server, 0)
  <2>1. PendingVisit(r)
    BY DEF PendingVisit, Request
  <2> QED BY <1>1, <2>1 DEF Passes, StepVisit
<1>2. CASE visit[v].question # "manage"
  <2>1. PendingVisit(Empty("done"))
    BY DEF PendingVisit, Empty, Request
  <2> QED BY <1>2, <2>1 DEF Passes, GoTo, StepVisit, Over
<1> QED BY <1>1, <1>2

LEMMA PassesRights ==
  ASSUME Identified, RightsInv, UNCHANGED <<instant, manages, held>>, cache' \subseteq cache,
         NEW v \in Visits, Passes(v)
  PROVE  RightsInv'
<1>1. PICK r : PendingVisit(r) /\ visit' = [visit EXCEPT ![v] = r]
  BY PassesTo
<1> QED BY <1>1, VisitRights

LEMMA CheckRights ==
  ASSUME Identified, RightsInv, NEW v \in Visits, CheckCache(v)
  PROVE  RightsInv'
<1>1. UNCHANGED <<instant, manages, held>>
  BY DEF CheckCache, Passes, GoTo, StepVisit, discord, clocked
<1>2. cache' \subseteq cache
  BY DEF CheckCache, Fresh
<1>3. CASE Passes(v)
  BY <1>1, <1>2, <1>3, PassesRights
<1>4. CASE StepVisit(v, Awaiting(visit[v], "asking", instant, FALSE))
  <2>1. PendingVisit(Awaiting(visit[v], "asking", instant, FALSE))
    BY Numbers DEF PendingVisit, Awaiting, Timely, Truthful
  <2> QED BY <1>1, <1>2, <1>4, <2>1, VisitRights DEF StepVisit
<1> QED BY <1>3, <1>4 DEF CheckCache

LEMMA AnswerRights ==
  ASSUME Identified, RightsInv, NEW v \in Visits, DiscordAnswers(v)
  PROVE  RightsInv'
<1> DEFINE r == Awaiting(visit[v], "answered", visit[v].since, Truth(v))
<1>1. Timely(visit[v])
  BY DEF DiscordAnswers, RightsInv, PendingRights, PendingVisit
<1>2. Timely(r)
  BY <1>1 DEF Timely, Awaiting
<1>3. Truthful(r)
  <2> SUFFICES ASSUME visit[v].question = "manage", Truth(v)
               PROVE  held[Asked(visit[v])] > 0 /\ held[Asked(visit[v])] >= visit[v].since
    BY DEF Truthful, Awaiting, Asked
  <2>1. Asked(visit[v]) \in manages
    BY DEF Truth, Key, Asked
  <2>2. Asked(visit[v]) \in Users \X Servers
    BY Numbers DEF Known, UnderWay, Asked, DiscordAnswers
  <2>3. held[Asked(visit[v])] = instant
    BY <2>1, <2>2 DEF RightsInv, Managing
  <2> QED BY <1>1, <2>3, Numbers DEF Timely
<1>4. visit' = [visit EXCEPT ![v] = r] /\ UNCHANGED <<instant, manages, held, cache>>
  BY DEF DiscordAnswers, StepVisit, discord, clocked
<1> QED BY <1>2, <1>3, <1>4, VisitRights DEF PendingVisit

\* A question about the bot is not one about a user.
LEMMA OneIsNotTwo == ASSUME NEW g \in Servers PROVE <<g>> \notin Users \X Servers
<1> SUFFICES ASSUME NEW u \in Users, NEW h \in Servers, <<g>> = <<u, h>> PROVE FALSE
  OBVIOUS
<1>1. 2 \in DOMAIN <<u, h>> /\ 2 \notin DOMAIN <<g>>
  OBVIOUS
<1> QED BY <1>1

\* What a good answer that is heard says.
LEMMA GoodAnswer ==
  ASSUME Identified, RightsInv, NEW v \in Visits, visit[v].at = "answered", visit[v].verdict,
         visit[v].question = "manage"
  PROVE  /\ Asked(visit[v]) \in Users \X Servers /\ held[Asked(visit[v])] > 0
         /\ instant <= held[Asked(visit[v])] + Latency
<1>1. Asked(visit[v]) \in Users \X Servers
  BY Numbers DEF Known, UnderWay, Asked
<1>2. Timely(visit[v]) /\ Truthful(visit[v])
  BY DEF RightsInv, PendingRights, PendingVisit
<1>3. held[Asked(visit[v])] > 0 /\ held[Asked(visit[v])] >= visit[v].since
  BY <1>2 DEF Truthful
<1>4. held[Asked(visit[v])] \in Nat
  BY <1>1, Numbers
<1> QED BY <1>1, <1>2, <1>3, <1>4, Numbers DEF Timely

LEMMA HearRights ==
  ASSUME Identified, RightsInv, NEW v \in Visits, Hear(v)
  PROVE  RightsInv'
<1>1. UNCHANGED <<instant, manages, held>>
  BY DEF Hear, Passes, GoTo, StepVisit, discord, clocked
<1>2. CASE visit[v].verdict
  <2>1. cache' = Remembers(Key(v))
    BY <1>2 DEF Hear
  <2>2. CachedRights'
    <3> SUFFICES ASSUME NEW e \in cache', e.key \in Users \X Servers
                 PROVE  held[e.key] > 0 /\ e.at <= held[e.key] + Latency
      BY <1>1 DEF CachedRights
    <3>1. CASE e \in cache
      BY <3>1 DEF RightsInv, CachedRights
    <3>2. CASE e = [key |-> Key(v), at |-> instant]
      <4>1. visit[v].server \in Servers
        BY Numbers DEF Hear, Known, UnderWay
      <4>2. visit[v].question = "manage"
        BY <3>2, <4>1, OneIsNotTwo DEF Key
      <4> QED BY <1>2, <3>2, <4>2, GoodAnswer DEF Hear, Key, Asked
    <3> QED BY <2>1, <3>1, <3>2 DEF Remembers
  <2>3. Managing'
    BY <1>1 DEF RightsInv, Managing
  <2>4. PendingRights'
    <3>1. PICK r : PendingVisit(r) /\ visit' = [visit EXCEPT ![v] = r]
      BY <1>2, PassesTo DEF Hear
    <3>2. ASSUME NEW w \in Visits PROVE PendingVisit(visit[w])'
      <4>1. visit'[w] = r \/ visit'[w] = visit[w]
        BY <3>1, Parted DEF VisitsTyped
      <4>2. PendingVisit(visit'[w])
        BY <3>1, <4>1 DEF RightsInv, PendingRights
      <4> QED BY <1>1, <4>2 DEF PendingVisit, Timely, Truthful, Asked
    <3> QED BY <3>2 DEF PendingRights
  <2> QED BY <2>2, <2>3, <2>4 DEF RightsInv
<1>3. CASE ~visit[v].verdict
  BY <1>1, <1>3, GoToRights DEF Hear
<1> QED BY <1>2, <1>3

LEMMA OtherRights ==
  ASSUME Identified, RightsInv, UNCHANGED <<instant, manages, held, cache, visit>>
  PROVE  RightsInv'
BY DEF RightsInv, Managing, CachedRights, PendingRights, PendingVisit, Timely, Truthful, Asked

LEMMA LoadRights ==
  ASSUME Identified, RightsInv, NEW v \in Visits, NEW c \in Callbacks, NEW g \in Servers,
         LoadSession(v, c, g)
  PROVE  RightsInv'
<1>1. UNCHANGED <<instant, manages, held, cache>>
  BY DEF LoadSession, GoTo, StepVisit, discord, clocked
<1>2. CASE Expired(c)
  BY <1>1, <1>2, GoToRights DEF LoadSession
<1>3. CASE ~Expired(c)
  <2> DEFINE r == Request("known", "manage", sessions[c].user, g, instant)
  <2>1. PendingVisit(r) /\ visit' = [visit EXCEPT ![v] = r]
    BY <1>3 DEF LoadSession, StepVisit, PendingVisit, Request
  <2> QED BY <1>1, <2>1, VisitRights
<1> QED BY <1>2, <1>3

LEMMA ReadRights ==
  ASSUME Identified, RightsInv, NEW v \in Visits, ReadSnapshot(v) \/ VisitFails(v)
  PROVE  RightsInv'
<1>1. UNCHANGED <<instant, manages, held, cache>>
  BY DEF ReadSnapshot, VisitFails, GoTo, StepVisit, discord, clocked
<1>2. PICK at \in {"check", "refused"} : GoTo(v, at)
  BY DEF ReadSnapshot, VisitFails
<1> QED BY <1>1, <1>2, GoToRights

LEMMA RestartRights ==
  ASSUME Identified, RightsInv, SignInRestarts
  PROVE  RightsInv'
<1>1. UNCHANGED <<instant, manages, held>> /\ cache' = {}
  BY DEF SignInRestarts, discord, clocked
<1>2. ASSUME NEW v \in Visits PROVE PendingVisit(visit[v])'
  BY DEF SignInRestarts, PendingVisit, Empty, Request
<1> QED BY <1>1, <1>2 DEF RightsInv, Managing, CachedRights, PendingRights

LEMMA InitRights == SignInInit => RightsInv
BY DEF SignInInit, RightsInv, Managing, CachedRights, PendingRights, PendingVisit, Empty, Request

LEMMA StepRights ==
  ASSUME Identified, Identified', RightsInv, [SignInNext]_signInVars
  PROVE  RightsInv'
<1>1. CASE UNCHANGED signInVars
  BY <1>1, OtherRights DEF signInVars, discord, clocked, visitVars
<1>2. CASE \/ Sweep \/ \E n \in States : Login(n)
           \/ \E c \in Callbacks :
                \/ \E n \in States, u \in Users : ConsumeState(c, n, u)
                \/ FetchGuilds(c) \/ CallbackFails(c) \/ StoreUser(c)
                \/ CreateSession(c) \/ Logout(c)
  BY <1>2, OtherRights
  DEF Sweep, Login, ConsumeState, FetchGuilds, CallbackFails, StoreUser, CreateSession, Logout,
      StepCallback, discord, clocked, visitVars
<1>3. CASE \E v \in Visits :
             \/ \E c \in Callbacks, g \in Servers : LoadSession(v, c, g)
             \/ ReadSnapshot(v) \/ CheckCache(v) \/ DiscordAnswers(v) \/ Hear(v) \/ VisitFails(v)
  BY <1>3, LoadRights, ReadRights, CheckRights, AnswerRights, HearRights
<1> QED BY <1>1, <1>2, <1>3, WorldRights, RestartRights DEF SignInNext

\* What the cache, and an answer on its way, say of a manager was true, no
\* longer ago than Discord takes to answer, when it was said (guild_check.rs).
THEOREM RightsAreRecent == SignInSpec => []RightsInv
BY RequestsAreIdentified, InitRights, StepRights, PTL DEF SignInSpec

---------------------------------------------------------------------------
\* Only a check that passes lets a manager through.
LEMMA WhoLetsThrough ==
  ASSUME Identified, SignInNext, NEW v \in Visits, LetThrough(v)
  PROVE  /\ visit[v].question = "manage"
         /\ (CheckCache(v) /\ Passes(v)) \/ (Hear(v) /\ visit[v].verdict)
<1>1. visit[v].question = "manage" /\ visit'[v].question = "bot"
  BY DEF LetThrough
<1>2. /\ visit'[v] # visit[v]
      /\ \A at : visit'[v] # Empty(at) /\ visit'[v] # [visit[v] EXCEPT !.at = at]
  BY <1>1, Numbers DEF Empty, Request, VisitType
<1>3. ASSUME NEW w \in Visits, NEW at, GoTo(w, at) PROVE FALSE
  BY <1>2, <1>3, Parted DEF GoTo, StepVisit, VisitsTyped
<1>4. visit' # visit
  BY <1>2
<1>5. ~ SignInRestarts
  BY <1>2 DEF SignInRestarts
<1>6. ASSUME NEW w \in Visits, NEW r, StepVisit(w, r) PROVE w = v /\ visit'[v] = r
  BY <1>2, <1>6, Parted DEF StepVisit, VisitsTyped
<1>7. PICK w \in Visits :
        \/ \E c \in Callbacks, g \in Servers : LoadSession(w, c, g)
        \/ ReadSnapshot(w) \/ CheckCache(w) \/ DiscordAnswers(w) \/ Hear(w) \/ VisitFails(w)
  BY <1>4, <1>5
  DEF SignInNext, Tick, Promote, Demote, RemoveBot, Sweep, Login, ConsumeState, FetchGuilds,
      CallbackFails, StoreUser, CreateSession, Logout, StepCallback, visitVars
<1>8. CASE \E c \in Callbacks, g \in Servers : LoadSession(w, c, g)
  BY <1>1, <1>3, <1>6, <1>8 DEF LoadSession, Request
<1>9. CASE ReadSnapshot(w) \/ VisitFails(w)
  BY <1>3, <1>9 DEF ReadSnapshot, VisitFails
<1>10. CASE DiscordAnswers(w)
  BY <1>1, <1>6, <1>10 DEF DiscordAnswers, Awaiting
<1>11. CASE CheckCache(w)
  <2>1. CASE Passes(w)
    <3>1. w = v
      BY <1>3, <1>6, <2>1 DEF Passes
    <3> QED BY <1>1, <1>11, <2>1, <3>1
  <2>2. CASE StepVisit(w, Awaiting(visit[w], "asking", instant, FALSE))
    BY <1>1, <1>6, <2>2 DEF Awaiting
  <2> QED BY <1>11, <2>1, <2>2 DEF CheckCache
<1>12. CASE Hear(w)
  <2>1. visit[w].verdict /\ Passes(w)
    BY <1>3, <1>12 DEF Hear
  <2>2. w = v
    BY <1>3, <1>6, <2>1 DEF Passes
  <2> QED BY <1>1, <1>12, <2>1, <2>2
<1> QED BY <1>7, <1>8, <1>9, <1>10, <1>11, <1>12

LEMMA LetThroughIsCurrent ==
  ASSUME Identified, RightsInv, SignInNext, NEW v \in Visits, LetThrough(v), checker
  PROVE  LET last == held[<<visit[v].user, visit[v].server>>]
         IN  last > 0 /\ instant - last < CacheTtl + Latency
<1> DEFINE last == held[Asked(visit[v])]
<1>1. /\ visit[v].question = "manage"
      /\ (CheckCache(v) /\ Passes(v)) \/ (Hear(v) /\ visit[v].verdict)
  BY WhoLetsThrough
<1>2. Asked(visit[v]) \in Users \X Servers /\ Key(v) = Asked(visit[v])
  BY <1>1, Numbers DEF CheckCache, Hear, Known, UnderWay, Key, Asked
<1>3. last \in Nat
  BY <1>2, Numbers
<1>4. last > 0 /\ instant - last < CacheTtl + Latency
  <2>1. CASE CheckCache(v) /\ Passes(v)
    <3>1. ~ StepVisit(v, Awaiting(visit[v], "asking", instant, FALSE))
      <4> SUFFICES ASSUME visit' = [visit EXCEPT ![v] = Awaiting(visit[v], "asking", instant, FALSE)]
                   PROVE  FALSE
        BY DEF StepVisit
      <4>1. visit'[v] = Awaiting(visit[v], "asking", instant, FALSE)
        BY Parted DEF VisitsTyped
      <4> QED BY <1>1, <4>1 DEF Awaiting, LetThrough
    <3>2. PICK e \in Fresh : e.key = Key(v)
      BY <2>1, <3>1 DEF CheckCache
    <3>3. e \in cache /\ instant - e.at < CacheTtl
      BY DEF Fresh
    <3>4. last > 0 /\ e.at <= last + Latency
      BY <1>2, <3>2, <3>3 DEF RightsInv, CachedRights
    <3> QED BY <1>3, <3>3, <3>4, Numbers
  <2>2. CASE Hear(v) /\ visit[v].verdict
    <3>1. last > 0 /\ instant <= last + Latency
      BY <1>1, <2>2, GoodAnswer DEF Hear
    <3> QED BY <1>3, <3>1, Numbers
  <2> QED BY <1>1, <2>1, <2>2
<1> QED BY <1>4 DEF Asked

\* Whoever acts as a server's manager was one no longer ago than a cached
\* answer lasts and Discord takes to give it, however logins, logouts, changes
\* of rights, late answers and restarts interleave (authorize_manage).
THEOREM ManagersStayCurrent == SignInSpec => ManagersAreCurrent
<1>1. ASSUME Identified, RightsInv, [SignInNext]_signInVars
      PROVE  [\A v \in Visits :
                LetThrough(v) /\ checker =>
                  LET last == held[<<visit[v].user, visit[v].server>>]
                  IN  last > 0 /\ instant - last < CacheTtl + Latency]_signInVars
  <2>1. CASE SignInNext
    BY <1>1, <2>1, LetThroughIsCurrent
  <2> QED BY <1>1, <2>1
<1> QED BY <1>1, RequestsAreIdentified, RightsAreRecent, PTL DEF SignInSpec, ManagersAreCurrent

=============================================================================
