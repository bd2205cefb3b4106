----------------------------- MODULE DirectSource -----------------------------
(***************************************************************************)
(* DirectRigSource: how a query finds the connection of a telescope and    *)
(* what becomes of its answer.  An updater's source follows whatever       *)
(* connection is in the slot, as long as it has the identity and the trust *)
(* generation the source was made with; a command's source keeps the one   *)
(* it resolved.  A query is answered on the connection it was sent on,     *)
(* which may have been replaced, evicted or revoked by then: the source    *)
(* looks again before it lets the answer, or the rig's refusal, through.   *)
(* What a query does on its connection is in RigQuery, who fills and       *)
(* empties the slot in DirectHub; capabilities and payloads are left out.  *)
(***************************************************************************)
EXTENDS Naturals

CONSTANTS
  Links,           \* connections of one telescope
  Identities,      \* session and profile a connection authenticated with
  Lookups,         \* queries of the updater
  Orders,          \* commands, on a pinned connection
  MaxGeneration,   \* bound on revocations
  NoLink, NoIdentity

ASSUME SourceAssumption ==
  /\ NoLink \notin Links /\ NoIdentity \notin Identities /\ Lookups \cap Orders = {}
  /\ MaxGeneration \in Nat

VARIABLES
  slot,        \* RigConnections: the connection of the telescope
  generation,  \* its lifecycle generation
  revoking,    \* revoke has advanced the generation and not yet emptied the slot
  identity,    \* of each connection, NoIdentity before it connects
  source,      \* the updater's: [identity, generation], NoIdentity when there is none
  lookup,      \* each query and command: [at, link]
  gone         \* history: connections that have left the slot

directSourceVars == <<slot, generation, revoking, identity, source, lookup, gone>>

NewLookup == [at |-> "idle", link |-> NoLink]

DirectSourceTypeOK ==
  /\ slot \in Links \cup {NoLink} /\ generation \in 0..MaxGeneration /\ revoking \in BOOLEAN
  /\ identity \in [Links -> Identities \cup {NoIdentity}]
  /\ source \in [identity : Identities \cup {NoIdentity}, generation : 0..MaxGeneration]
  /\ lookup \in [Lookups \cup Orders ->
       [at : {"idle", "asking", "answered", "given", "failed"}, link : Links \cup {NoLink}]]
  /\ gone \subseteq Links \ {slot}

DirectSourceInit ==
  /\ slot = NoLink /\ generation = 0 /\ revoking = FALSE
  /\ identity = [l \in Links |-> NoIdentity]
  /\ source = [identity |-> NoIdentity, generation |-> 0]
  /\ lookup = [q \in Lookups \cup Orders |-> NewLookup]
  /\ gone = {}

---------------------------------------------------------------------------
\* The slot, as in DirectHub.

Fill(l) == slot' = l /\ gone' = IF slot = NoLink THEN gone ELSE gone \cup {slot}

ConnectLink(l, i) ==
  /\ identity[l] = NoIdentity /\ identity' = [identity EXCEPT ![l] = i]
  /\ Fill(l)
  /\ UNCHANGED <<generation, revoking, source, lookup>>

\* remove_if_current, or disconnect for a replay.
RemoveLink ==
  /\ slot # NoLink /\ Fill(NoLink)
  /\ UNCHANGED <<generation, revoking, identity, source, lookup>>

AdvanceGeneration ==
  /\ ~revoking /\ generation < MaxGeneration
  /\ revoking' = TRUE /\ generation' = generation + 1
  /\ UNCHANGED <<slot, identity, source, lookup, gone>>

EvictLink ==
  /\ revoking /\ revoking' = FALSE
  /\ Fill(NoLink)
  /\ UNCHANGED <<generation, identity, source, lookup>>

---------------------------------------------------------------------------
\* DirectRigSource::current, for a connection that the updater manager read
\* from the slot a moment ago.  The updater before it, and its queries, are gone.
MakeCurrent(l) ==
  /\ identity[l] # NoIdentity
  /\ source' = [identity |-> identity[l], generation |-> generation]
  /\ lookup' = [q \in DOMAIN lookup |-> IF q \in Lookups THEN NewLookup ELSE lookup[q]]
  /\ UNCHANGED <<slot, generation, revoking, identity, gone>>

\* get_if_generation, with the source's identity.
Selectable(l) ==
  /\ l # NoLink /\ slot = l
  /\ generation = source.generation /\ identity[l] = source.identity

Becomes(q, at, link) ==
  /\ lookup' = [lookup EXCEPT ![q] = [at |-> at, link |-> link]]
  /\ UNCHANGED <<slot, generation, revoking, identity, source, gone>>

\* current_connection, then RigConnection::query.
BeginLookup(q) ==
  /\ q \in Lookups /\ lookup[q].at = "idle"
  /\ IF Selectable(slot) THEN Becomes(q, "asking", slot) ELSE Becomes(q, "failed", NoLink)

\* A command resolves its connection and keeps it.
BeginOrder(q) ==
  /\ q \in Orders /\ lookup[q].at = "idle" /\ slot # NoLink
  /\ Becomes(q, "asking", slot)

\* The rig's answer, or its refusal, reaches the query; its task is yet to run.
AnswerLookup(q) ==
  /\ lookup[q].at = "asking" /\ Becomes(q, "answered", lookup[q].link)

\* Timed out, or the connection is closed.
LoseLookup(q) ==
  /\ lookup[q].at = "asking" /\ Becomes(q, "failed", lookup[q].link)

\* Mutant: another connection of the same identity will do.
SameIdentity(q) == q \in Orders \/ Selectable(slot)

\* ensure_connection_still_current
StillCurrent(q) == q \in Orders \/ Selectable(lookup[q].link)

FinishLookup(q) ==
  /\ lookup[q].at = "answered"
  /\ Becomes(q, IF StillCurrent(q) THEN "given" ELSE "failed", lookup[q].link)

\* The updater goes on with the outcome.
NextLookup(q) ==
  /\ lookup[q].at \in {"given", "failed"} /\ Becomes(q, "idle", NoLink)

DirectSourceNext ==
  \/ \E l \in Links, i \in Identities : ConnectLink(l, i)
  \/ RemoveLink \/ AdvanceGeneration \/ EvictLink
  \/ \E l \in Links : MakeCurrent(l)
  \/ \E q \in Lookups \cup Orders :
       \/ BeginLookup(q) \/ BeginOrder(q)
       \/ AnswerLookup(q) \/ LoseLookup(q) \/ FinishLookup(q) \/ NextLookup(q)

DirectSourceSpec == DirectSourceInit /\ [][DirectSourceNext]_directSourceVars

---------------------------------------------------------------------------
\* An updater is given nothing from a connection that has ever left the slot,
\* nor under a generation other than its own, even where the same rig is back
\* under the same identity; and an answer is thrown away only then, so that
\* what it carried is replayed to the connection that follows.
AnswersAreCurrent ==
  [][\A q \in Lookups :
       lookup[q].at = "answered" =>
         LET current == lookup[q].link \notin gone /\ generation = source.generation IN
         /\ lookup'[q].at = "given" => current
         /\ lookup'[q].at = "failed" => ~current]_directSourceVars

===========================================================================
