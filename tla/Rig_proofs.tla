----------------------------- MODULE Rig_proofs -----------------------------
(***************************************************************************)
(* Proofs about the Direct rig registry, the queries on one connection,    *)
(* the source that asks them and the chat loop with its pipe, for any sets *)
(* of rigs, sessions, connections, calls, callers and lookups. Each of the *)
(* four parts is by itself: its invariant, the steps that keep it, and the *)
(* theorems.                                                               *)
(***************************************************************************)
EXTENDS RigRegistry, RigQuery, DirectSource, ChatLoop, FiniteSetTheorems, SequenceTheorems, TLAPS

---------------------------------------------------------------------------
(***************************************************************************)
(* RigRegistry. The inductive invariant is RegistryTypeOK /\ IndexesAgree: *)
(* that the two maps are inverse to each other is preserved by itself, and *)
(* it is what makes the lookups by connection free exactly one rig.        *)
(***************************************************************************)

\* The registry's maps and its result keep their types.
THEOREM RegistryTyped == RegistrySpec => []RegistryTypeOK
<1> USE RegistryConstants
<1>1. RegistryInit => RegistryTypeOK
  BY DEF RegistryInit, RegistryTypeOK, Result, Outcomes
<1>2. RegistryTypeOK /\ [RegistryNext]_registryVars => RegistryTypeOK'
  <2> SUFFICES ASSUME RegistryTypeOK, [RegistryNext]_registryVars PROVE RegistryTypeOK'
    OBVIOUS
  <2> USE DEF RegistryTypeOK, Result, Outcomes
  <2>1. CASE RejectInvalid
    BY <2>1 DEF RejectInvalid
  <2>2. ASSUME NEW r \in Rigs, NEW s \in Sessions, RejectActive(r, s) PROVE RegistryTypeOK'
    BY <2>2 DEF RejectActive
  <2>3. ASSUME NEW r \in Rigs, NEW s \in Sessions, NEW c \in Conns, RegisterRig(r, s, c)
        PROVE RegistryTypeOK'
    BY <2>3 DEF RegisterRig, Registered, RegisteredRig, PreviousConnection, PreviousRig
  <2>4. ASSUME NEW c \in Conns, Disconnect(c) PROVE RegistryTypeOK'
    BY <2>4 DEF Disconnect
  <2>5. CASE UNCHANGED registryVars
    BY <2>5 DEF registryVars
  <2> QED BY <2>1, <2>2, <2>3, <2>4, <2>5 DEF RegistryNext
<1> QED BY <1>1, <1>2, PTL DEF RegistrySpec

---------------------------------------------------------------------------
\* The inductive step of IndexesAgree, used below for every theorem that
\* needs the two maps to be inverse to each other.
LEMMA AgreementStep == RegistryTypeOK /\ IndexesAgree /\ [RegistryNext]_registryVars => IndexesAgree'
<1> SUFFICES ASSUME RegistryTypeOK, IndexesAgree, [RegistryNext]_registryVars,
                    NEW r \in Rigs, NEW c \in Conns
             PROVE (by_connection'[c] = r)
                     <=> (by_rig'[r] # NoLease /\ by_rig'[r].connection_id = c)
  BY DEF IndexesAgree
<1> USE RegistryConstants DEF RegistryTypeOK, IndexesAgree
<1>1. CASE RejectInvalid
  BY <1>1 DEF RejectInvalid
<1>2. ASSUME NEW q \in Rigs, NEW s \in Sessions, RejectActive(q, s)
      PROVE (by_connection'[c] = r)
              <=> (by_rig'[r] # NoLease /\ by_rig'[r].connection_id = c)
  BY <1>2 DEF RejectActive
<1>3. ASSUME NEW q \in Rigs, NEW s \in Sessions, NEW d \in Conns, RegisterRig(q, s, d)
      PROVE (by_connection'[c] = r)
              <=> (by_rig'[r] # NoLease /\ by_rig'[r].connection_id = c)
  <2>0. [session_id |-> s, connection_id |-> d] \in RegisteredRig
    BY DEF RegisteredRig
  <2>1. CASE r = q
    BY <1>3, <2>0, <2>1 DEF RegisterRig, Registered, RegisteredRig, PreviousConnection
  <2>2. CASE r # q /\ c = d
    BY <1>3, <2>2 DEF RegisterRig, Registered, RegisteredRig, PreviousRig
  <2>3. CASE r # q /\ c # d
    BY <1>3, <2>3 DEF RegisterRig, Registered, RegisteredRig, PreviousConnection, PreviousRig
  <2> QED BY <2>1, <2>2, <2>3
<1>4. ASSUME NEW d \in Conns, Disconnect(d)
      PROVE (by_connection'[c] = r)
              <=> (by_rig'[r] # NoLease /\ by_rig'[r].connection_id = c)
  BY <1>4 DEF Disconnect, OwnedBy
<1>5. CASE UNCHANGED registryVars
  BY <1>5 DEF registryVars
<1> QED BY <1>1, <1>2, <1>3, <1>4, <1>5 DEF RegistryNext

\* by_rig and by_connection are inverse maps after any sequence of calls.
THEOREM IndexesAlwaysAgree == RegistrySpec => []IndexesAgree
<1>1. RegistryInit => IndexesAgree
  BY RegistryConstants DEF RegistryInit, IndexesAgree
<1> QED BY <1>1, AgreementStep, RegistryTyped, PTL DEF RegistrySpec

\* register never hands an active profile to another N.I.N.A. process.
THEOREM ActiveProfileIsKept == RegistrySpec => NoTakeover
<1>1. RegistryTypeOK /\ [RegistryNext]_registryVars
        => [\A r \in Rigs : by_rig[r] # NoLease /\ by_rig'[r] # NoLease
              => by_rig'[r].session_id = by_rig[r].session_id]_registryVars
  <2> SUFFICES ASSUME RegistryTypeOK, RegistryNext, NEW r \in Rigs,
                      by_rig[r] # NoLease, by_rig'[r] # NoLease
               PROVE by_rig'[r].session_id = by_rig[r].session_id
    OBVIOUS
  <2>1. CASE RejectInvalid
    BY <2>1 DEF RejectInvalid
  <2>2. ASSUME NEW q \in Rigs, NEW s \in Sessions, RejectActive(q, s)
        PROVE by_rig'[r].session_id = by_rig[r].session_id
    BY <2>2 DEF RejectActive
  <2>3. ASSUME NEW q \in Rigs, NEW s \in Sessions, NEW d \in Conns, RegisterRig(q, s, d)
        PROVE by_rig'[r].session_id = by_rig[r].session_id
    BY <2>3 DEF RegisterRig, Registered, ActiveElsewhere
  <2>4. ASSUME NEW d \in Conns, Disconnect(d)
        PROVE by_rig'[r].session_id = by_rig[r].session_id
    BY <2>4 DEF Disconnect
  <2> QED BY <2>1, <2>2, <2>3, <2>4 DEF RegistryNext
<1> QED BY <1>1, RegistryTyped, PTL DEF RegistrySpec, NoTakeover

---------------------------------------------------------------------------
\* A connection never loses its rig without its caller being told.
THEOREM DisplacementIsReported == RegistrySpec => DisplacementReported
<1> DEFINE Told(c) ==
      \/ result'.outcome = "registered" /\ result'.previous_connection = c
      \/ result'.outcome = "removed" /\ result'.previous_rig = by_connection[c]
<1>1. RegistryTypeOK /\ IndexesAgree /\ [RegistryNext]_registryVars
        => [\A c \in Conns : by_connection[c] # NoRig /\ by_connection'[c] = NoRig
              => Told(c)]_registryVars
  <2> SUFFICES ASSUME RegistryTypeOK, IndexesAgree, RegistryNext, NEW c \in Conns,
                      by_connection[c] # NoRig, by_connection'[c] = NoRig
               PROVE Told(c)
    OBVIOUS
  <2> USE RegistryConstants DEF RegistryTypeOK
  <2>1. CASE RejectInvalid
    BY <2>1 DEF RejectInvalid
  <2>2. ASSUME NEW q \in Rigs, NEW s \in Sessions, RejectActive(q, s) PROVE Told(c)
    BY <2>2 DEF RejectActive
  <2>3. ASSUME NEW q \in Rigs, NEW s \in Sessions, NEW d \in Conns, RegisterRig(q, s, d)
        PROVE Told(c)
    BY <2>3 DEF RegisterRig, Registered, Result
  <2>4. ASSUME NEW d \in Conns, Disconnect(d) PROVE Told(c)
    BY <2>4 DEF Disconnect, Result, OwnedBy, IndexesAgree
  <2> QED BY <2>1, <2>2, <2>3, <2>4 DEF RegistryNext
<1> QED BY <1>1, RegistryTyped, IndexesAlwaysAgree, PTL DEF RegistrySpec, DisplacementReported

\* The registry implements the abstract lease table: initial states map to
\* initial states, and each call is one abstract step or a stutter.
THEOREM ImplementsLease == RegistrySpec => LeaseSpec
<1>1. RegistryInit => Leases!Init
  BY DEF RegistryInit, Leases!Init
<1>2. RegistryTypeOK /\ IndexesAgree /\ [RegistryNext]_registryVars => [Leases!Next]_by_rig
  <2> SUFFICES ASSUME RegistryTypeOK, IndexesAgree, [RegistryNext]_registryVars PROVE [Leases!Next]_by_rig
    OBVIOUS
  <2> USE RegistryConstants DEF RegistryTypeOK
  <2>1. CASE RejectInvalid
    BY <2>1 DEF RejectInvalid
  <2>2. ASSUME NEW r \in Rigs, NEW s \in Sessions, RejectActive(r, s)
        PROVE [Leases!Next]_by_rig
    BY <2>2 DEF RejectActive
  <2>3. ASSUME NEW r \in Rigs, NEW s \in Sessions, NEW c \in Conns, RegisterRig(r, s, c)
        PROVE [Leases!Next]_by_rig
    <3>1. by_rig[r] = NoLease \/ by_rig[r].session_id = s
      BY <2>3 DEF RegisterRig, ActiveElsewhere
    <3>2. ASSUME NEW q \in Rigs, q # r
          PROVE (q = PreviousRig(r, c)) <=> Leases!CarriedBy(q, c)
      BY <3>2 DEF PreviousRig, Leases!CarriedBy, IndexesAgree
    <3>3. by_rig' = [q \in Rigs |->
                       IF q = r THEN [session_id |-> s, connection_id |-> c]
                       ELSE IF Leases!CarriedBy(q, c) THEN NoLease ELSE by_rig[q]]
      BY <2>3, <3>2 DEF RegisterRig, Registered
    <3>4. Leases!Claim(r, s, c)
      BY <3>1, <3>3 DEF Leases!Claim
    <3> QED BY <3>4 DEF Leases!Next
  <2>4. ASSUME NEW c \in Conns, Disconnect(c) PROVE [Leases!Next]_by_rig
    <3>1. ASSUME NEW q \in Rigs
          PROVE (q = by_connection[c] /\ OwnedBy(q, c)) <=> Leases!CarriedBy(q, c)
      BY DEF OwnedBy, Leases!CarriedBy, IndexesAgree
    <3>2. Leases!Release(c)
      BY <2>4, <3>1 DEF Disconnect, Leases!Release
    <3> QED BY <3>2 DEF Leases!Next
  <2>5. CASE UNCHANGED registryVars
    BY <2>5 DEF registryVars
  <2> QED BY <2>1, <2>2, <2>3, <2>4, <2>5 DEF RegistryNext
<1> QED BY <1>1, <1>2, RegistryTyped, IndexesAlwaysAgree, PTL DEF RegistrySpec, LeaseSpec, Leases!Spec

---------------------------------------------------------------------------
(***************************************************************************)
(* RigQuery. The safety properties are about a call that has returned or a *)
(* task that has ended; what carries them there is the state of a call     *)
(* while it runs: whether it was sent (SentOnce), whether its sender is    *)
(* still held by the pending map (OpenHeld), and that the queue is closed  *)
(* before the map is cleared (QueueClosed).                                *)
(***************************************************************************)

\* Only a sent query is queued, on the wire, answered or resolved, and a
\* sent query is past its try_send.
SentOnce ==
  /\ \A i \in 1..Len(queue) : sent[queue[i]]
  /\ \A q \in wire \cup answers \cup advanced : sent[q]
  /\ \A q \in Queries : sent[q] => pc[q] \notin {"idle", "register", "send"}

\* The pending map holds the sender of every call without a result.
OpenHeld ==
  /\ \A q \in Queries : pc[q] \in {"send", "wait"} /\ reply[q] = "open" => q \in pending
  /\ \A q \in Queries : reply[q] = "value" => sent[q] /\ q \notin pending

\* The queue is closed before the waiters are cleared.
QueueClosed == hub \in {"clearPending", "closed"} => ~queueOpen

\* A sent call with a cursor that returns empty-handed has closed the connection.
FailedCloses ==
  \A q \in Queries \ Observing : pc[q] = "failed" /\ sent[q] => closing

CallInv == SentOnce /\ OpenHeld /\ NoLeakedEntry /\ FailedCloses

StrandInv == QueueClosed /\ NoCallStranded

---------------------------------------------------------------------------
\* What the library says of one queued message, in the form used below.
LEMMA Queued ==
  ASSUME NEW S, NEW s \in Seq(S), NEW e \in S
  PROVE  /\ Append(s, e) \in Seq(S)
         /\ Len(Append(s, e)) = Len(s) + 1
         /\ \A i \in 1..Len(s) + 1 : Append(s, e)[i] = e \/ (i \in 1..Len(s) /\ Append(s, e)[i] = s[i])
BY AppendProperties

\* The empty queue.
LEMMA EmptyQueue == ASSUME NEW S PROVE <<>> \in Seq(S) /\ Len(<<>>) = 0
BY EmptySeq

\* Every variable keeps its type, and the outgoing queue its capacity.
THEOREM QueryTyped == Spec => []TypeOK
<1> USE QueryConstants
<1> USE DEF TypeOK, Returned, Goto, call, channel, rig
<1>0. <<>> \in Seq(Queries) /\ Len(<<>>) <= MaxPending
  <2>1. <<>> \in Seq(Queries) /\ Len(<<>>) = 0
    BY EmptyQueue
  <2> QED BY <2>1
<1>1. Init => TypeOK
  BY <1>0 DEF Init
<1>2. TypeOK /\ [Next]_vars => TypeOK'
  <2> SUFFICES ASSUME TypeOK, [Next]_vars PROVE TypeOK'
    OBVIOUS
  <2>1. ASSUME NEW q \in Queries, Start(q) \/ Cancel(q) \/ CallStep(q) \/ Resolve(q) \/ RigAnswers(q)
        PROVE TypeOK'
    <3>1. CASE Start(q)
      BY <3>1 DEF Start
    <3>2. CASE Cancel(q)
      BY <3>2 DEF Cancel
    <3>3. CASE Register(q)
      BY <3>3 DEF Register
    <3>4. CASE TrySend(q)
      <4>1. CASE queueOpen /\ Len(queue) < MaxPending
        <5>1. queue' \in Seq(Queries) /\ Len(queue') <= MaxPending
          BY <3>4, <4>1, Queued DEF TrySend
        <5>2. sent' \in [Queries -> BOOLEAN]
          BY <3>4, <4>1 DEF TrySend
        <5>3. pc' = [pc EXCEPT ![q] = "wait"]
          BY <3>4, <4>1 DEF TrySend
        <5> QED BY <3>4, <5>1, <5>2, <5>3 DEF TrySend
      <4>2. CASE ~(queueOpen /\ Len(queue) < MaxPending)
        BY <3>4, <4>2 DEF TrySend
      <4> QED BY <4>1, <4>2
    <3>5. CASE Complete(q)
      BY <3>5 DEF Complete
    <3>6. CASE Disconnected(q)
      BY <3>6 DEF Disconnected
    <3>7. CASE TimeOut(q)
      BY <3>7 DEF TimeOut
    <3>8. CASE Unregister(q)
      BY <3>8 DEF Unregister
    <3>9. CASE RequestReplay(q)
      BY <3>9 DEF RequestReplay
    <3>10. CASE Resolve(q)
      BY <3>10 DEF Resolve
    <3>11. CASE RigAnswers(q)
      BY <3>11 DEF RigAnswers
    <3> QED BY <2>1, <3>1, <3>2, <3>3, <3>4, <3>5, <3>6, <3>7, <3>8, <3>9, <3>10, <3>11
            DEF CallStep
  <2>2. CASE Dispatch
    BY <2>2 DEF Dispatch
  <2>3. CASE ObserveClose
    BY <2>3 DEF ObserveClose
  <2>4. CASE DropQueue
    BY <2>4, <1>0 DEF DropQueue
  <2>5. CASE ClearPending
    BY <2>5 DEF ClearPending
  <2>6. CASE AskedToClose
    BY <2>6 DEF AskedToClose
  <2>7. CASE LoseSocket
    BY <2>7 DEF LoseSocket
  <2>8. CASE UNCHANGED vars
    BY <2>8 DEF vars
  <2> QED BY <2>1, <2>2, <2>3, <2>4, <2>5, <2>6, <2>7, <2>8 DEF Next, HubStep
<1> QED BY <1>1, <1>2, PTL DEF Spec

\* No step breaks CallInv.
LEMMA CallStepInv == TypeOK /\ TypeOK' /\ CallInv /\ [Next]_vars => CallInv'
<1> SUFFICES ASSUME TypeOK, TypeOK', CallInv, [Next]_vars PROVE CallInv'
  OBVIOUS
<1> USE QueryConstants
<1> USE DEF TypeOK, Returned, Goto, call, channel, rig,
           CallInv, SentOnce, OpenHeld, NoLeakedEntry, FailedCloses
<1>1. ASSUME NEW q \in Queries, Start(q) \/ Cancel(q) \/ CallStep(q) \/ Resolve(q) \/ RigAnswers(q)
      PROVE CallInv'
  <2>1. CASE Start(q)
    BY <2>1 DEF Start
  <2>2. CASE Cancel(q)
    BY <2>2 DEF Cancel
  <2>3. CASE Register(q)
    BY <2>3 DEF Register
  <2>4. CASE TrySend(q)
    <3>1. CASE queueOpen /\ Len(queue) < MaxPending
      <4>1. queue' = Append(queue, q) /\ sent' = [sent EXCEPT ![q] = TRUE] /\ pc[q] = "send"
            /\ pc' = [pc EXCEPT ![q] = "wait"] /\ UNCHANGED <<pending, reply, closing, rig>>
        BY <2>4, <3>1 DEF TrySend
      <4>2. \A i \in 1..Len(queue') : queue'[i] = q \/ sent[queue'[i]]
        BY <4>1, Queued
      <4>3. \A i \in 1..Len(queue') : queue'[i] \in Queries
        OBVIOUS
      <4>4. SentOnce'
        BY <4>1, <4>2, <4>3
      <4>5. OpenHeld' /\ NoLeakedEntry' /\ FailedCloses'
        BY <4>1
      <4> QED BY <4>4, <4>5
    <3>2. CASE ~(queueOpen /\ Len(queue) < MaxPending)
      BY <2>4, <3>2 DEF TrySend
    <3> QED BY <3>1, <3>2
  <2>5. CASE Complete(q)
    BY <2>5 DEF Complete
  <2>6. CASE Disconnected(q)
    BY <2>6 DEF Disconnected
  <2>7. CASE TimeOut(q)
    BY <2>7 DEF TimeOut
  <2>8. CASE Unregister(q)
    BY <2>8 DEF Unregister
  <2>9. CASE RequestReplay(q)
    BY <2>9 DEF RequestReplay
  <2>10. CASE Resolve(q)
    BY <2>10 DEF Resolve
  <2>11. CASE RigAnswers(q)
    BY <2>11 DEF RigAnswers
  <2> QED BY <1>1, <2>1, <2>2, <2>3, <2>4, <2>5, <2>6, <2>7, <2>8, <2>9, <2>10, <2>11
          DEF CallStep
<1>2. CASE Dispatch
  BY <1>2 DEF Dispatch
<1>3. CASE ObserveClose
  BY <1>3 DEF ObserveClose
<1>4. CASE DropQueue
  BY <1>4 DEF DropQueue
<1>5. CASE ClearPending
  BY <1>5 DEF ClearPending
<1>6. CASE AskedToClose
  BY <1>6 DEF AskedToClose
<1>7. CASE LoseSocket
  BY <1>7 DEF LoseSocket
<1>8. CASE UNCHANGED vars
  BY <1>8 DEF vars
<1> QED BY <1>1, <1>2, <1>3, <1>4, <1>5, <1>6, <1>7, <1>8 DEF Next, HubStep

\* Given what CallInv says of running calls, no step breaks StrandInv.
LEMMA StrandStepInv == TypeOK /\ TypeOK' /\ CallInv /\ StrandInv /\ [Next]_vars => StrandInv'
<1> SUFFICES ASSUME TypeOK, TypeOK', CallInv, StrandInv, [Next]_vars PROVE StrandInv'
  OBVIOUS
<1> USE QueryConstants
<1> USE DEF TypeOK, Returned, Goto, call, channel, rig,
           CallInv, OpenHeld, StrandInv, QueueClosed, NoCallStranded
<1>1. ASSUME NEW q \in Queries, Start(q) \/ Cancel(q) \/ CallStep(q) \/ Resolve(q) \/ RigAnswers(q)
      PROVE StrandInv'
  <2>1. CASE Start(q)
    BY <2>1 DEF Start
  <2>2. CASE Cancel(q)
    BY <2>2 DEF Cancel
  <2>3. CASE Register(q)
    BY <2>3 DEF Register
  <2>4. CASE TrySend(q)
    BY <2>4 DEF TrySend
  <2>5. CASE Complete(q)
    BY <2>5 DEF Complete
  <2>6. CASE Disconnected(q)
    BY <2>6 DEF Disconnected
  <2>7. CASE TimeOut(q)
    BY <2>7 DEF TimeOut
  <2>8. CASE Unregister(q)
    BY <2>8 DEF Unregister
  <2>9. CASE RequestReplay(q)
    BY <2>9 DEF RequestReplay
  <2>10. CASE Resolve(q)
    BY <2>10 DEF Resolve
  <2>11. CASE RigAnswers(q)
    BY <2>11 DEF RigAnswers
  <2> QED BY <1>1, <2>1, <2>2, <2>3, <2>4, <2>5, <2>6, <2>7, <2>8, <2>9, <2>10, <2>11
          DEF CallStep
<1>2. CASE Dispatch
  BY <1>2 DEF Dispatch
<1>3. CASE ObserveClose
  BY <1>3 DEF ObserveClose
<1>4. CASE DropQueue
  BY <1>4 DEF DropQueue
<1>5. CASE ClearPending
  BY <1>5 DEF ClearPending
<1>6. CASE AskedToClose
  BY <1>6 DEF AskedToClose
<1>7. CASE LoseSocket
  BY <1>7 DEF LoseSocket
<1>8. CASE UNCHANGED vars
  BY <1>8 DEF vars
<1> QED BY <1>1, <1>2, <1>3, <1>4, <1>5, <1>6, <1>7, <1>8 DEF Next, HubStep

---------------------------------------------------------------------------
\* CallInv holds throughout.
LEMMA CallInvariant == Spec => []CallInv
<1>1. Init => CallInv
  <2>1. ASSUME Init PROVE Len(queue) = 0
    BY <2>1, EmptyQueue DEF Init
  <2> QED BY <2>1 DEF Init, CallInv, SentOnce, OpenHeld, NoLeakedEntry, FailedCloses
<1> QED BY <1>1, QueryTyped, CallStepInv, PTL DEF Spec

\* Every entry of the pending map belongs to a call that still runs.
THEOREM NoEntryLeaks == Spec => []NoLeakedEntry
<1>1. CallInv => NoLeakedEntry
  BY DEF CallInv
<1> QED BY <1>1, CallInvariant, PTL

\* A history result whose call returned without it has the connection closed,
\* so the rig replays it.
THEOREM DeltaIsReplayed == Spec => []NoLostDelta
<1>1. TypeOK /\ CallInv => NoLostDelta
  BY DEF TypeOK, NoLostDelta, CallInv, SentOnce, FailedCloses
<1> QED BY <1>1, QueryTyped, CallInvariant, PTL

\* After the teardown no call waits for a result that cannot come.
THEOREM NobodyStranded == Spec => []NoCallStranded
<1>1. Init => StrandInv
  BY DEF Init, StrandInv, QueueClosed, NoCallStranded
<1>2. StrandInv => NoCallStranded
  BY DEF StrandInv
<1> QED BY <1>1, <1>2, QueryTyped, CallInvariant, StrandStepInv, PTL DEF Spec

\* A call and its entry in the pending map end together, whatever is refused,
\* cancelled, timed out or torn down.
THEOREM NothingIsLeftBehind == Spec => []NothingLeftBehind
<1>1. NoLeakedEntry /\ NoCallStranded => NothingLeftBehind
  BY DEF NothingLeftBehind
<1> QED BY <1>1, NoEntryLeaks, NobodyStranded, PTL

\* A query reaches the wire only while its caller is still in query().
THEOREM OnlyAwaitedSent == Spec => OnlyAwaitedQueriesSent
<1>1. TypeOK /\ CallInv /\ [Next]_vars
        => [\A q \in wire' \ wire : pc[q] \notin Returned]_vars
  <2> SUFFICES ASSUME TypeOK, CallInv, Next, NEW q \in wire', q \notin wire
               PROVE  pc[q] \notin Returned
    OBVIOUS
  <2>1. Dispatch
    BY DEF Next, CallStep, HubStep, call, channel, rig, Start, Cancel, Register, TrySend,
       Complete, Disconnected, TimeOut, Unregister, RequestReplay, Resolve, RigAnswers,
       ObserveClose, DropQueue, ClearPending, AskedToClose, LoseSocket
  <2>2. q \in pending
    BY <2>1 DEF Dispatch
  <2> QED BY <2>2 DEF CallInv, NoLeakedEntry, Returned
<1> QED BY <1>1, QueryTyped, CallInvariant, PTL DEF Spec, OnlyAwaitedQueriesSent

\* The pending map never grows past its limit.
THEOREM PendingIsBounded == Spec => []PendingBounded
<1> DEFINE Bounded == IsFiniteSet(pending) /\ Cardinality(pending) \in 0..MaxPending
<1>1. Init => Bounded
  BY FS_EmptySet, QueryConstants DEF Init
<1>2. Bounded /\ [Next]_vars => Bounded'
  <2> SUFFICES ASSUME Bounded, [Next]_vars PROVE Bounded'
    OBVIOUS
  <2>1. ASSUME NEW P, P \subseteq pending PROVE IsFiniteSet(P) /\ Cardinality(P) \in 0..MaxPending
    BY <2>1, FS_Subset, FS_CardinalityType, QueryConstants
  <2>2. ASSUME NEW q \in Queries, Register(q) PROVE Bounded'
    <3>1. CASE Cardinality(pending) >= MaxPending
      BY <2>2, <3>1 DEF Register
    <3>2. CASE ~(Cardinality(pending) >= MaxPending)
      <4>1. pending' = pending \cup {q}
        BY <2>2, <3>2 DEF Register
      <4> QED BY <3>2, <4>1, FS_AddElement, QueryConstants
    <3> QED BY <3>1, <3>2
  <2>3. ASSUME ~\E q \in Queries : Register(q) PROVE pending' \subseteq pending
    BY <2>3 DEF Next, CallStep, HubStep, vars, call, channel, rig, Start, Cancel, TrySend,
       Complete, Disconnected, TimeOut, Unregister, RequestReplay, Resolve, RigAnswers,
       Dispatch, ObserveClose, DropQueue, ClearPending, AskedToClose, LoseSocket
  <2> QED BY <2>1, <2>2, <2>3
<1>3. Bounded => PendingBounded
  BY QueryConstants DEF PendingBounded
<1> QED BY <1>1, <1>2, <1>3, PTL DEF Spec

---------------------------------------------------------------------------
(***************************************************************************)
(* DirectSource. A lookup resolves a link, asks, and checks afterwards     *)
(* what it asked. AnswersAreCurrent follows from where a link can be       *)
(* (SlotKnown) and from what a lookup in flight knows of its own           *)
(* (LookupsKnown): while its link is not gone, it is the one in the slot.  *)
(***************************************************************************)

\* A connection has an identity from the moment it is in the slot, for good; and
\* an answer of the updater came over one of its source's identity.
SlotKnown ==
  /\ slot # NoLink => identity[slot] \in Identities
  /\ \A l \in gone : identity[l] \in Identities

\* A lookup goes, and is answered, over a link of the identity its source has.
LookupsKnown ==
  \A q \in Lookups : lookup[q].at \in {"asking", "answered"} =>
    /\ lookup[q].link \in Links /\ identity[lookup[q].link] \in Identities
    /\ identity[lookup[q].link] = source.identity
    /\ lookup[q].link \notin gone => slot = lookup[q].link

SourceInv == DirectSourceTypeOK /\ SlotKnown /\ LookupsKnown

USE SourceAssumption

\* What filling the slot does: who was in it is gone, and nobody gone comes back.
LEMMA Filled ==
  ASSUME SourceInv, NEW l \in Links \cup {NoLink}, Fill(l), l \notin gone, l # slot \/ l = NoLink
  PROVE  /\ slot' = l /\ gone' \subseteq Links \ {slot'} /\ gone \subseteq gone'
         /\ slot # NoLink => slot \in gone'
         /\ gone' \subseteq gone \cup {slot}
         /\ \A k \in gone' : identity[k] \in Identities
BY DEF Fill, SourceInv, DirectSourceTypeOK, SlotKnown

\* Every step, of a lookup, an order or a connection, keeps the invariant.
LEMMA SourceStep == SourceInv /\ [DirectSourceNext]_directSourceVars => SourceInv'
<1> SUFFICES ASSUME SourceInv, [DirectSourceNext]_directSourceVars PROVE SourceInv'
  OBVIOUS
<1> USE DEF SourceInv
<1>1. ASSUME NEW l \in Links, NEW i \in Identities, ConnectLink(l, i) PROVE SourceInv'
  <2>1. /\ identity[l] = NoIdentity /\ identity' = [identity EXCEPT ![l] = i] /\ Fill(l)
        /\ UNCHANGED <<generation, revoking, source, lookup>>
    BY <1>1 DEF ConnectLink
  <2>2. l \notin gone /\ l # slot
    BY <2>1 DEF SlotKnown
  <2>3. /\ slot' = l /\ gone' \subseteq Links \ {slot'} /\ gone \subseteq gone'
        /\ slot # NoLink => slot \in gone'
        /\ \A k \in gone' : identity[k] \in Identities
    BY <2>1, <2>2, Filled
  <2>4. identity'[l] = i /\ \A k \in Links \ {l} : identity'[k] = identity[k]
    BY <2>1 DEF DirectSourceTypeOK
  <2>5. DirectSourceTypeOK'
    BY <2>1, <2>3 DEF DirectSourceTypeOK
  <2>6. SlotKnown'
    BY <2>1, <2>3, <2>4 DEF SlotKnown
  <2>7. LookupsKnown'
    BY <2>1, <2>3, <2>4 DEF LookupsKnown
  <2> QED BY <2>5, <2>6, <2>7
<1>2. CASE RemoveLink \/ EvictLink
  <2>1. /\ Fill(NoLink) /\ revoking' \in BOOLEAN /\ UNCHANGED <<generation, identity, source, lookup>>
    BY <1>2 DEF RemoveLink, EvictLink, DirectSourceTypeOK
  <2>2. /\ slot' = NoLink /\ gone' \subseteq Links \ {slot'} /\ gone \subseteq gone'
        /\ slot # NoLink => slot \in gone'
        /\ \A k \in gone' : identity[k] \in Identities
    BY <2>1, Filled DEF DirectSourceTypeOK
  <2> QED BY <2>1, <2>2 DEF DirectSourceTypeOK, SlotKnown, LookupsKnown
<1>3. CASE AdvanceGeneration
  BY <1>3 DEF AdvanceGeneration, DirectSourceTypeOK, SlotKnown, LookupsKnown
<1>4. ASSUME NEW l \in Links, MakeCurrent(l) PROVE SourceInv'
  <2>1. /\ source' = [identity |-> identity[l], generation |-> generation]
        /\ lookup' = [q \in DOMAIN lookup |-> IF q \in Lookups THEN NewLookup ELSE lookup[q]]
        /\ UNCHANGED <<slot, generation, revoking, identity, gone>>
    BY <1>4 DEF MakeCurrent
  <2>2. DirectSourceTypeOK'
    BY <2>1 DEF DirectSourceTypeOK, NewLookup
  <2>3. \A q \in Lookups : lookup'[q].at = "idle"
    BY <2>1 DEF DirectSourceTypeOK, NewLookup
  <2> QED BY <2>1, <2>2, <2>3 DEF SlotKnown, LookupsKnown
<1>5. ASSUME NEW q \in Lookups \cup Orders,
             NEW at \in {"idle", "asking", "answered", "given", "failed"},
             NEW link \in Links \cup {NoLink}, Becomes(q, at, link),
             q \in Lookups /\ at \in {"asking", "answered"} =>
               \/ lookup[q].at \in {"asking", "answered"} /\ link = lookup[q].link
               \/ Selectable(link)
      PROVE  SourceInv'
  <2>1. /\ lookup' = [lookup EXCEPT ![q] = [at |-> at, link |-> link]]
        /\ UNCHANGED <<slot, generation, revoking, identity, source, gone>>
    BY <1>5 DEF Becomes
  <2>2. lookup'[q].at = at /\ lookup'[q].link = link
        /\ \A p \in (Lookups \cup Orders) \ {q} : lookup'[p] = lookup[p]
    BY <2>1 DEF DirectSourceTypeOK
  <2>3. DirectSourceTypeOK'
    BY <2>1 DEF DirectSourceTypeOK
  <2>4. LookupsKnown'
    BY <1>5, <2>1, <2>2 DEF LookupsKnown, Selectable, SlotKnown, DirectSourceTypeOK
  <2> QED BY <2>1, <2>3, <2>4 DEF SlotKnown
<1>6. ASSUME NEW q \in Lookups \cup Orders,
             BeginLookup(q) \/ BeginOrder(q) \/ AnswerLookup(q) \/ LoseLookup(q)
             \/ FinishLookup(q) \/ NextLookup(q)
      PROVE  SourceInv'
  <2>0. lookup[q].link \in Links \cup {NoLink} /\ slot \in Links \cup {NoLink}
    BY DEF DirectSourceTypeOK
  <2>1. CASE BeginLookup(q)
    <3>1. (Becomes(q, "asking", slot) /\ Selectable(slot)) \/ Becomes(q, "failed", NoLink)
      BY <2>1 DEF BeginLookup
    <3> QED BY <1>5, <2>0, <3>1
  <2>2. CASE BeginOrder(q)
    BY <1>5, <2>0, <2>2 DEF BeginOrder
  <2>3. CASE AnswerLookup(q)
    BY <1>5, <2>0, <2>3 DEF AnswerLookup
  <2>4. CASE LoseLookup(q) \/ NextLookup(q)
    BY <1>5, <2>0, <2>4 DEF LoseLookup, NextLookup
  <2>5. CASE FinishLookup(q)
    <3>1. Becomes(q, "given", lookup[q].link) \/ Becomes(q, "failed", lookup[q].link)
      BY <2>5 DEF FinishLookup
    <3> QED BY <1>5, <2>0, <3>1
  <2> QED BY <1>6, <2>1, <2>2, <2>3, <2>4, <2>5
<1>7. CASE UNCHANGED directSourceVars
  BY <1>7 DEF directSourceVars, DirectSourceTypeOK, SlotKnown, LookupsKnown
<1> QED BY <1>1, <1>2, <1>3, <1>4, <1>6, <1>7 DEF DirectSourceNext

LEMMA SourceInvariant == DirectSourceSpec => []SourceInv
<1>1. DirectSourceInit => SourceInv
  <2> SUFFICES ASSUME DirectSourceInit PROVE SourceInv
    OBVIOUS
  <2>1. \A q \in Lookups \cup Orders : lookup[q] = NewLookup
    BY DEF DirectSourceInit
  <2>2. DirectSourceTypeOK
    <3>1. NewLookup \in [at : {"idle", "asking", "answered", "given", "failed"},
                        link : Links \cup {NoLink}]
      BY DEF NewLookup
    <3>2. [identity |-> NoIdentity, generation |-> 0]
            \in [identity : Identities \cup {NoIdentity}, generation : 0..MaxGeneration]
      OBVIOUS
    <3> QED BY <3>1, <3>2 DEF DirectSourceInit, DirectSourceTypeOK
  <2>3. SlotKnown /\ LookupsKnown
    BY <2>1 DEF DirectSourceInit, SlotKnown, LookupsKnown, NewLookup
  <2> QED BY <2>2, <2>3 DEF SourceInv
<1> QED BY <1>1, SourceStep, PTL DEF DirectSourceSpec

\* The types of the slot, the links, the lookups and the orders (direct_source.rs).
THEOREM SourceTyped == DirectSourceSpec => []DirectSourceTypeOK
<1>1. SourceInv => DirectSourceTypeOK
  BY DEF SourceInv
<1> QED BY <1>1, SourceInvariant, PTL

\* For any links, lookups and orders: an updater is given nothing from a connection
\* that has left the slot or from another generation, and an answer is thrown away
\* only then (direct_source.rs, the look after the answer).
THEOREM CurrentAnswers == DirectSourceSpec => AnswersAreCurrent
<1> DEFINE Fair == \A q \in Lookups :
                     lookup[q].at = "answered" =>
                       LET current == lookup[q].link \notin gone /\ generation = source.generation IN
                       /\ lookup'[q].at = "given" => current
                       /\ lookup'[q].at = "failed" => ~current
<1>1. SourceInv /\ [DirectSourceNext]_directSourceVars => [Fair]_directSourceVars
  <2> DEFINE Current(q) == lookup[q].link \notin gone /\ generation = source.generation
  <2> SUFFICES ASSUME SourceInv, DirectSourceNext,
                      NEW q \in Lookups, lookup[q].at = "answered"
               PROVE  /\ lookup'[q].at = "given" => Current(q)
                      /\ lookup'[q].at = "failed" => ~Current(q)
    OBVIOUS
  <2>0. /\ lookup[q].link \in Links /\ identity[lookup[q].link] = source.identity
        /\ lookup[q].link \notin gone => slot = lookup[q].link
        /\ slot \notin gone /\ q \notin Orders /\ q \in DOMAIN lookup
    BY DEF SourceInv, LookupsKnown, DirectSourceTypeOK
  <2>1. CASE FinishLookup(q)
    <3>1. CASE Selectable(lookup[q].link)
      <4>1. lookup'[q].at = "given"
        BY <2>0, <2>1, <3>1 DEF FinishLookup, StillCurrent, Becomes
      <4> QED BY <2>0, <3>1, <4>1 DEF Selectable
    <3>2. CASE ~Selectable(lookup[q].link)
      <4>1. lookup'[q].at = "failed"
        BY <2>0, <2>1, <3>2 DEF FinishLookup, StillCurrent, Becomes
      <4>2. ~Current(q)
        BY <2>0, <3>2 DEF Selectable
      <4> QED BY <4>1, <4>2
    <3> QED BY <3>1, <3>2
  <2>2. CASE ~FinishLookup(q)
    <3>1. lookup'[q].at \in {"answered", "idle"}
      <4>1. ASSUME NEW p \in Lookups \cup Orders, NEW at, NEW link, Becomes(p, at, link), p # q
            PROVE  lookup'[q] = lookup[q]
        BY <2>0, <4>1 DEF Becomes
      <4>2. ASSUME NEW l \in Links, MakeCurrent(l) PROVE lookup'[q].at = "idle"
        BY <2>0, <4>2 DEF MakeCurrent, NewLookup
      <4>3. ASSUME NEW p \in Lookups \cup Orders,
                   BeginLookup(p) \/ BeginOrder(p) \/ AnswerLookup(p) \/ LoseLookup(p)
                   \/ FinishLookup(p) \/ NextLookup(p)
            PROVE  lookup'[q] = lookup[q]
        <5>1. p # q
          BY <2>2, <4>3 DEF BeginLookup, BeginOrder, AnswerLookup, LoseLookup, NextLookup
        <5> QED BY <4>1, <4>3, <5>1
            DEF BeginLookup, BeginOrder, AnswerLookup, LoseLookup, FinishLookup, NextLookup
      <4>4. ASSUME NEW l \in Links, NEW i \in Identities, ConnectLink(l, i) PROVE lookup' = lookup
        BY <4>4 DEF ConnectLink
      <4>5. CASE RemoveLink \/ AdvanceGeneration \/ EvictLink
        BY <4>5 DEF RemoveLink, AdvanceGeneration, EvictLink
      <4> QED BY <4>2, <4>3, <4>4, <4>5 DEF DirectSourceNext
    <3> QED BY <3>1
  <2> QED BY <2>1, <2>2
<1> QED BY <1>1, SourceInvariant, PTL DEF AnswersAreCurrent, DirectSourceSpec

---------------------------------------------------------------------------
(***************************************************************************)
(* ChatLoop and PipeExchange. Callers take turns at the pipe (PipeHeld),   *)
(* and an answer is told from those of callers that gave up by the id its  *)
(* query was given (PipeAsked). The loop calls a rig offline only with its *)
(* count of silent cycles at the threshold (OfflineIsDebounced).           *)
(***************************************************************************)

USE ChatLoopCallers, PipeAssumption

\* One frame at a time: at most one caller is between its write and its read.
PipeHeld == \A c, d \in Callers : exchange[c] = "reading" /\ exchange[d] = "reading" => c = d

\* A query has its id before it is written.
PipeAsked == \A c \in Callers : exchange[c] \in {"queued", "reading", "ok"} => asked[c] \in Ids

\* What holds of the pipe, whoever else uses it.
PipeInv == PipeTypeOK /\ PipeHeld /\ PipeAsked /\ OwnAnswersOnly

\* A step of one caller, or of the plugin, keeps the exchange in order.
LEMMA PipeStep ==
  ASSUME PipeInv, NEW c \in Callers,
         Query(c) \/ WriteQuery(c) \/ ReadLine(c) \/ StallOut(c) \/ Took(c) \/ PluginAnswers
  PROVE  PipeInv'
<1> USE DEF PipeInv, PipeTypeOK, Steps
<1>1. CASE Query(c)
  BY <1>1 DEF Query, PipeHeld, PipeAsked, OwnAnswersOnly
<1>2. CASE WriteQuery(c)
  <2>1. asked[c] \in Ids
    BY <1>2 DEF WriteQuery, PipeAsked
  <2>2. Append(inbox, asked[c]) \in Seq(Ids)
    BY <2>1, AppendProperties
  <2> QED BY <1>2, <2>2 DEF WriteQuery, PipeHeld, PipeAsked, OwnAnswersOnly
<1>3. CASE ReadLine(c)
  <2>1. Head(outbox) \in Ids /\ Tail(outbox) \in Seq(Ids)
    BY <1>3, HeadTailProperties DEF ReadLine
  <2>2. UNCHANGED <<asked, inbox, stalls>> /\ outbox' = Tail(outbox) /\ exchange[c] = "reading"
    BY <1>3 DEF ReadLine
  <2>3. CASE IsOwn(c, Head(outbox))
    <3>1. /\ exchange' = [exchange EXCEPT ![c] = "ok"] /\ heard' = [heard EXCEPT ![c] = Head(outbox)]
          /\ Head(outbox) = asked[c]
      BY <1>3, <2>3 DEF ReadLine, IsOwn
    <3> QED BY <2>1, <2>2, <3>1 DEF PipeHeld, PipeAsked, OwnAnswersOnly
  <2>4. CASE ~IsOwn(c, Head(outbox))
    <3>1. exchange' = [exchange EXCEPT ![c] = "failed"] /\ UNCHANGED heard
      BY <1>3, <2>4 DEF ReadLine
    <3> QED BY <2>1, <2>2, <3>1 DEF PipeHeld, PipeAsked, OwnAnswersOnly
  <2> QED BY <2>3, <2>4
<1>4. CASE StallOut(c)
  BY <1>4 DEF StallOut, PipeHeld, PipeAsked, OwnAnswersOnly
<1>5. CASE Took(c)
  BY <1>5 DEF Took, PipeHeld, PipeAsked, OwnAnswersOnly
<1>6. CASE PluginAnswers
  <2>1. Head(inbox) \in Ids /\ Tail(inbox) \in Seq(Ids)
    BY <1>6, HeadTailProperties DEF PluginAnswers
  <2>2. Append(outbox, Head(inbox)) \in Seq(Ids)
    BY <2>1, AppendProperties
  <2> QED BY <1>6, <2>1, <2>2 DEF PluginAnswers, PipeHeld, PipeAsked, OwnAnswersOnly
<1> QED BY <1>1, <1>2, <1>3, <1>4, <1>5, <1>6

\* Where the loop is, and what chat was told: a rig is reported offline, once its
\* baseline is there, only while the last cycles that it took were all silent.
LoopTypeOK ==
  /\ loop \in [baseline : BOOLEAN, reader : 1..Len(Readers), any : BOOLEAN]
  /\ failures \in 0..Threshold /\ connected \in BOOLEAN

\* "Offline after several silent cycles": the loop never says so on fewer.
OfflineIsDebounced == loop.baseline /\ ~connected => failures = Threshold

\* The two starting points of a cycle.
LEMMA StartsTyped ==
  /\ {AtStart(TRUE), AtStart(FALSE)}
       \subseteq [baseline : BOOLEAN, reader : 1..Len(Readers), any : BOOLEAN]
  /\ AtStart(TRUE).baseline /\ ~AtStart(FALSE).baseline
BY DEF AtStart, Readers

\* The loop counts silent cycles, and starts over with the first that is not.
LEMMA LoopStepInv ==
  ASSUME LoopTypeOK, OfflineIsDebounced, LoopStep
  PROVE  LoopTypeOK' /\ OfflineIsDebounced'
<1> USE DEF LoopTypeOK
<1>1. Len(Readers) = 3
  BY DEF Readers
<1>2. PICK ok \in BOOLEAN : BaselineStep(ok) \/ PollStep(ok)
  BY DEF LoopStep
<1>3. CASE BaselineStep(ok)
  <2>1. ~loop.baseline /\ failures' = failures
    BY <1>3 DEF BaselineStep
  <2>2. \/ loop' = AtStart(TRUE) /\ connected' = TRUE
        \/ ~LastReader /\ loop' = [loop EXCEPT !.reader = @ + 1] /\ connected' = connected
        \/ loop' = AtStart(FALSE) /\ connected' = connected
    BY <1>3 DEF BaselineStep
  <2>3. CASE ~LastReader /\ loop' = [loop EXCEPT !.reader = @ + 1] /\ connected' = connected
    <3>1. loop' = [baseline |-> loop.baseline, reader |-> loop.reader + 1, any |-> loop.any]
      BY <2>3, Zenon
    <3> QED BY <1>1, <2>1, <2>3, <3>1 DEF LastReader, OfflineIsDebounced
  <2>4. CASE loop' = AtStart(TRUE) /\ connected' = TRUE
    BY <2>1, <2>4, StartsTyped DEF OfflineIsDebounced
  <2>5. CASE loop' = AtStart(FALSE) /\ connected' = connected
    BY <2>1, <2>5, StartsTyped DEF OfflineIsDebounced
  <2> QED BY <2>2, <2>3, <2>4, <2>5
<1>4. CASE PollStep(ok)
  <2>1. CASE LastReader
    <3>1. loop.baseline /\ loop' = AtStart(TRUE) /\ RecordReachability(loop.any \/ ok)
      BY <1>4, <2>1 DEF PollStep
    <3>2. CASE loop.any \/ ok
      <4>1. failures' = 0 /\ connected' = TRUE
        BY <3>1, <3>2 DEF RecordReachability
      <4>2. loop' \in [baseline : BOOLEAN, reader : 1..Len(Readers), any : BOOLEAN]
        BY <3>1, StartsTyped
      <4>3. failures' \in 0..Threshold /\ connected' \in BOOLEAN
        BY <4>1
      <4> QED BY <4>1, <4>2, <4>3 DEF OfflineIsDebounced
    <3>3. CASE ~(loop.any \/ ok)
      <4>1. /\ failures' = (IF failures < Threshold THEN failures + 1 ELSE failures)
            /\ connected' = (connected /\ ~(failures + 1 >= Threshold))
        BY <3>1, <3>3 DEF RecordReachability, Debounced
      <4>2. failures' \in 0..Threshold
        BY <4>1
      <4>3. connected' \in BOOLEAN
        BY <4>1, Zenon
      <4>4. ~connected' => failures' = Threshold
        BY <3>1, <4>1 DEF OfflineIsDebounced
      <4>5. loop' \in [baseline : BOOLEAN, reader : 1..Len(Readers), any : BOOLEAN]
        BY <3>1, StartsTyped
      <4> QED BY <4>2, <4>3, <4>4, <4>5 DEF OfflineIsDebounced
    <3> QED BY <3>2, <3>3
  <2>2. CASE ~LastReader
    <3> DEFINE any == loop.any \/ ok
    <3>1. /\ loop' = [loop EXCEPT !.reader = @ + 1, !.any = @ \/ ok]
          /\ UNCHANGED <<failures, connected>> /\ loop.baseline
      BY <1>4, <2>2 DEF PollStep
    <3>2. loop' = [baseline |-> loop.baseline, reader |-> loop.reader + 1, any |-> any]
      BY <3>1, Zenon
    <3>3. any \in BOOLEAN
      BY Zenon
    <3> HIDE DEF any
    <3>4. loop' \in [baseline : BOOLEAN, reader : 1..Len(Readers), any : BOOLEAN]
      <4>1. loop.reader + 1 \in 1..Len(Readers)
        BY <1>1, <2>2 DEF LastReader
      <4> QED BY <3>2, <3>3, <4>1
    <3>5. loop'.baseline
      BY <3>1, <3>2
    <3> QED BY <3>1, <3>4, <3>5 DEF OfflineIsDebounced
  <2> QED BY <2>1, <2>2
<1> QED BY <1>2, <1>3, <1>4

LoopInv == PipeInv /\ LoopTypeOK /\ OfflineIsDebounced

\* The loop and the other callers share the pipe; each keeps what the other needs.
LEMMA ChatLoopStep == LoopInv /\ [ChatLoopNext]_chatLoopVars => LoopInv'
<1> SUFFICES ASSUME LoopInv, [ChatLoopNext]_chatLoopVars PROVE LoopInv'
  OBVIOUS
<1> USE DEF LoopInv
<1>1. ASSUME Alone PROVE LoopTypeOK' /\ OfflineIsDebounced'
  BY <1>1 DEF Alone, LoopTypeOK, OfflineIsDebounced
<1>2. CASE \E c \in Callers : (Query(c) \/ WriteQuery(c) \/ ReadLine(c) \/ StallOut(c)) /\ Alone
  BY <1>1, <1>2, PipeStep
<1>3. CASE PluginAnswers /\ Alone
  <2>1. Updater \in Callers
    OBVIOUS
  <2> QED BY <1>1, <1>3, <2>1, PipeStep
<1>4. CASE BotDone /\ Alone
  <2>1. Bot \in Callers /\ Took(Bot)
    BY <1>4 DEF BotDone
  <2> QED BY <1>1, <1>4, <2>1, PipeStep
<1>5. CASE LoopStep
  <2>1. Updater \in Callers /\ Took(Updater)
    BY <1>5 DEF LoopStep, BaselineStep, PollStep, Heard
  <2> QED BY <1>5, <2>1, PipeStep, LoopStepInv
<1>6. CASE UNCHANGED chatLoopVars
  BY <1>6 DEF chatLoopVars, pipeVars, PipeInv, PipeTypeOK, PipeHeld, PipeAsked, OwnAnswersOnly,
     LoopTypeOK, OfflineIsDebounced
<1> QED BY <1>2, <1>3, <1>4, <1>5, <1>6 DEF ChatLoopNext

LEMMA LoopInvariant == ChatLoopSpec => []LoopInv
<1>1. ChatLoopInit => LoopInv
  <2> SUFFICES ASSUME ChatLoopInit PROVE LoopInv
    OBVIOUS
  <2>1. <<>> \in Seq(Ids)
    BY EmptySeq
  <2>2. PipeInv
    BY <2>1 DEF ChatLoopInit, PipeInit, PipeInv, PipeTypeOK, PipeHeld, PipeAsked, OwnAnswersOnly, Steps
  <2>3. LoopTypeOK /\ OfflineIsDebounced
    <3>1. loop = AtStart(FALSE) /\ failures = 0 /\ connected = FALSE
      BY DEF ChatLoopInit, AtStart
    <3>2. LoopTypeOK
      <4>1. connected \in BOOLEAN
        BY <3>1
      <4>2. loop \in [baseline : BOOLEAN, reader : 1..Len(Readers), any : BOOLEAN]
        BY <3>1, StartsTyped
      <4>3. failures \in 0..Threshold
        BY <3>1
      <4> QED BY <4>1, <4>2, <4>3 DEF LoopTypeOK
    <3>3. ~loop.baseline
      BY <3>1, StartsTyped
    <3> QED BY <3>2, <3>3 DEF OfflineIsDebounced
  <2> QED BY <2>2, <2>3 DEF LoopInv
<1> QED BY <1>1, ChatLoopStep, PTL DEF ChatLoopSpec

\* The types of the exchanges on the pipe and of the loop (chat_updater.rs).
THEOREM LoopTyped == ChatLoopSpec => []ChatLoopTypeOK
<1>1. LoopInv => ChatLoopTypeOK
  BY DEF LoopInv, LoopTypeOK, PipeInv, ChatLoopTypeOK
<1> QED BY <1>1, LoopInvariant, PTL

\* For any callers, any stalls and any number of exchanges: whoever reads an answer
\* off the pipe gets that to its own query, and no two read at once, although a
\* caller that gave up has left an answer in the pipe (DirectPipeRigSource).
THEOREM OwnAnswers == ChatLoopSpec => [](OwnAnswersOnly /\ PipeHeld)
<1>1. LoopInv => OwnAnswersOnly /\ PipeHeld
  BY DEF LoopInv, PipeInv
<1> QED BY <1>1, LoopInvariant, PTL

\* A rig whose baseline is there is reported offline only after Threshold cycles in
\* a row in which it said nothing (start_polling).
THEOREM Debouncing == ChatLoopSpec => []OfflineIsDebounced
<1>1. LoopInv => OfflineIsDebounced
  BY DEF LoopInv
<1> QED BY <1>1, LoopInvariant, PTL

=============================================================================
