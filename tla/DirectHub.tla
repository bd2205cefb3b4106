----------------------------- MODULE DirectHub -----------------------------
(***************************************************************************)
(* One telescope's trust and connection lifecycle on the hub: the socket   *)
(* tasks of /v1/direct (handle_socket), the owner's requests that change   *)
(* trust or delivery, the rows they share in SQLite and the RigConnections *)
(* table.  Everything is keyed by telescope, so one telescope is modelled. *)
(*                                                                         *)
(* Each database call and each critical section of RigConnections is one   *)
(* step; between two of them any other task may run.  Database calls may   *)
(* fail, a reply may not be delivered (or be delivered and look lost), and *)
(* the process may stop and start again, keeping the database only.        *)
(*                                                                         *)
(* Abstracted: the credential a pairing mints is named after its socket;   *)
(* bindings, expiry, rate limits and malformed frames only ever refuse a   *)
(* handshake (Reject, Validate); the updater a refresh restarts is not     *)
(* part of this module.                                                    *)
(***************************************************************************)
EXTENDS Naturals

CONSTANTS Sockets,      \* WebSocket tasks
          Owners,       \* owner requests to the HTTP API
          Tokens,       \* pairing tokens that may be issued
          Earlier,      \* credentials minted before this hub process started
          Outstanding,  \* tokens issued and unused when it started
          NoSocket, NoToken

Tasks == Sockets \cup Owners

ASSUME HubConstants ==
  /\ Earlier \subseteq Sockets
  /\ Outstanding \subseteq Tokens
  /\ Sockets \cap Owners = {}
  /\ NoSocket \notin Tasks
  /\ NoToken \notin Tokens

VARIABLES
  exists,       \* the telescope row
  token,        \* pairing_tokens rows
  credential,   \* rig_credentials rows, by the socket that minted them
  revoker,      \* history: the task whose call ended a credential
  generation,   \* RigConnections.lifecycle_generations
  slot,         \* RigConnections.inner: the live connection, or NoSocket
  closing,      \* RigConnection.close_request, first writer wins
  pc,           \* the next step of each task
  tok,          \* the token a pairing socket consumed
  presented,    \* the credential a socket authenticated with
  replied,      \* the handshake reply was written
  gen,          \* authenticated_generation
  victim        \* a connection taken out of the slot, not yet told to close

db == <<exists, token, credential, revoker>>
local == <<tok, presented, replied, gen>>
table == <<generation, slot>>
vars == <<db, table, closing, pc, local, victim>>

---------------------------------------------------------------------------
PairingSteps == {"revoke", "mint", "restore", "restoreRetire",
                 "rollbackCredential", "rollbackToken"}
RetireSteps == {"bump", "evict", "closeEvicted", "replay", "closeReplay"}
SocketSteps == PairingSteps \cup RetireSteps \cup
               {"new", "reply", "sample", "validate", "insert",
                "closeReplaced", "live", "teardown", "closed"}
OwnerSteps == RetireSteps \cup {"new", "issue", "closed"}

TypeOK ==
  /\ exists \in BOOLEAN
  /\ token \in [Tokens -> {"unissued", "issued", "consumed", "gone"}]
  /\ credential \in [Sockets -> {"unminted", "active", "revoked"}]
  /\ revoker \in [Sockets -> Tasks]
  /\ generation \in Nat
  /\ slot \in Sockets \cup {NoSocket}
  /\ closing \in [Sockets -> {"no", "retryable", "final"}]
  /\ pc \in [Tasks -> SocketSteps \cup OwnerSteps]
  /\ tok \in [Sockets -> Tokens \cup {NoToken}]
  /\ presented \in [Sockets -> Sockets]
  /\ replied \in [Sockets -> BOOLEAN]
  /\ gen \in [Sockets -> Nat]
  /\ victim \in [Tasks -> Sockets \cup {NoSocket}]
  /\ \A s \in Sockets : pc[s] \in PairingSteps => tok[s] \in Tokens
  /\ \A o \in Owners : pc[o] \in OwnerSteps

Init ==
  /\ exists = TRUE
  /\ token = [t \in Tokens |-> IF t \in Outstanding THEN "issued" ELSE "unissued"]
  /\ credential = [s \in Sockets |-> IF s \in Earlier THEN "active" ELSE "unminted"]
  /\ revoker = [s \in Sockets |-> s]
  /\ generation = 0
  /\ slot = NoSocket
  /\ closing = [s \in Sockets |-> "no"]
  /\ pc = [p \in Tasks |-> IF p \in Earlier THEN "closed" ELSE "new"]
  /\ tok = [s \in Sockets |-> NoToken]
  /\ presented = [s \in Sockets |-> s]
  /\ replied = [s \in Sockets |-> FALSE]
  /\ gen = [s \in Sockets |-> 0]
  /\ victim = [p \in Tasks |-> NoSocket]

Goto(p, step) == pc' = [pc EXCEPT ![p] = step]

Pairing(s) == tok[s] # NoToken

\* revoke_rig_credentials, and the cascade of delete_telescope.
EndCredentials(p) ==
  /\ credential' = [c \in Sockets |->
                      IF credential[c] = "active" THEN "revoked" ELSE credential[c]]
  /\ revoker' = [c \in Sockets |->
                   IF credential[c] = "active" THEN p ELSE revoker[c]]

\* request_close: the first reason given to a connection is kept.
RequestClose(c, how) ==
  closing' = [s \in Sockets |->
                IF s = c /\ closing[s] = "no" THEN how ELSE closing[s]]

---------------------------------------------------------------------------
\* authenticate(), first frame Pair.

\* The handshake is refused: limiter, timeout, malformed hello, unknown,
\* expired or bound secret, or a database error before anything changed.
Reject(s) ==
  /\ pc[s] = "new"
  /\ Goto(s, "closed")
  /\ UNCHANGED <<db, table, closing, local, victim>>

\* Mutant: the consumed_at check is lost.
ConsumeAnyToken(s, t) ==
  /\ pc[s] = "new"
  /\ token[t] \in {"issued", "consumed"}
  /\ token' = [token EXCEPT ![t] = "consumed"]
  /\ tok' = [tok EXCEPT ![s] = t]
  /\ Goto(s, "revoke")
  /\ UNCHANGED <<exists, credential, revoker, table, closing, presented, replied, gen, victim>>

ConsumeToken(s, t) ==
  /\ pc[s] = "new"
  /\ token[t] = "issued"
  /\ token' = [token EXCEPT ![t] = "consumed"]
  /\ tok' = [tok EXCEPT ![s] = t]
  /\ Goto(s, "revoke")
  /\ UNCHANGED <<exists, credential, revoker, table, closing, presented, replied, gen, victim>>

RevokeEarlier(s) ==
  /\ pc[s] = "revoke"
  /\ \/ EndCredentials(s) /\ Goto(s, "mint")
     \/ Goto(s, "restore") /\ UNCHANGED <<credential, revoker>>
  /\ UNCHANGED <<exists, token, table, closing, local, victim>>

\* create_rig_credential; the foreign key refuses a deleted telescope.
Mint(s) ==
  /\ pc[s] = "mint"
  /\ \/ /\ exists
        /\ credential' = [credential EXCEPT ![s] = "active"]
        /\ Goto(s, "reply")
     \/ Goto(s, "restoreRetire") /\ UNCHANGED credential
  /\ UNCHANGED <<exists, token, revoker, table, closing, local, victim>>

\* restore_pairing_token, after a failed database call or an undelivered
\* reply; it may fail itself, which is only logged.
RestoreToken(s) ==
  /\ pc[s] \in {"restore", "restoreRetire", "rollbackToken"}
  /\ \/ token' = [t \in Tokens |->
                    IF t = tok[s] /\ token[t] = "consumed" THEN "issued" ELSE token[t]]
     \/ UNCHANGED token
  /\ Goto(s, IF pc[s] = "restore" THEN "closed" ELSE "bump")
  /\ UNCHANGED <<exists, credential, revoker, table, closing, local, victim>>

\* authenticate(), first frame Auth: an active row is presented.  A client
\* knows a credential once the reply that carries it was attempted.
LookupCredential(s, c) ==
  /\ pc[s] = "new"
  /\ credential[c] = "active" /\ pc[c] # "reply"
  /\ presented' = [presented EXCEPT ![s] = c]
  /\ Goto(s, "reply")
  /\ UNCHANGED <<db, table, closing, tok, replied, gen, victim>>

\* send_message(response), bounded by SOCKET_WRITE_TIMEOUT.
SendReply(s) ==
  /\ pc[s] = "reply"
  /\ \/ /\ replied' = [replied EXCEPT ![s] = TRUE]
        /\ Goto(s, IF Pairing(s) THEN "bump" ELSE "sample")
     \/ /\ Goto(s, IF Pairing(s) THEN "rollbackCredential" ELSE "closed")
        /\ UNCHANGED replied
  /\ UNCHANGED <<db, table, closing, tok, presented, gen, victim>>

\* delete_rig_credential of the orphan; a failure is only logged.
RollbackCredential(s) ==
  /\ pc[s] = "rollbackCredential"
  /\ \/ /\ credential' = [credential EXCEPT ![s] = "revoked"]
        /\ revoker' = [revoker EXCEPT ![s] = IF credential[s] = "revoked" THEN @ ELSE s]
     \/ UNCHANGED <<credential, revoker>>
  /\ Goto(s, "rollbackToken")
  /\ UNCHANGED <<exists, token, table, closing, local, victim>>

---------------------------------------------------------------------------
\* RigConnections::revoke is two critical sections, then the caller closes
\* what it removed; refresh_updater does the same without a new generation.

Bump(p) ==
  /\ pc[p] = "bump"
  /\ generation' = generation + 1
  /\ Goto(p, "evict")
  /\ UNCHANGED <<db, slot, closing, local, victim>>

Evict(p) ==
  /\ pc[p] = "evict"
  /\ victim' = [victim EXCEPT ![p] = slot]
  /\ slot' = NoSocket
  /\ Goto(p, "closeEvicted")
  /\ UNCHANGED <<db, generation, closing, local>>

\* A pairing that replied samples its own generation before it waits for the
\* updater; a failed pairing and an owner request go straight to the refresh.
AfterEvict(p) == IF p \in Sockets /\ replied[p] THEN "sample" ELSE "replay"

\* Mutant: the removed connection is forgotten instead of closed.
DropEvicted(p) ==
  /\ pc[p] = "closeEvicted"
  /\ victim' = [victim EXCEPT ![p] = NoSocket]
  /\ Goto(p, AfterEvict(p))
  /\ UNCHANGED <<db, table, closing, local>>

CloseEvicted(p) ==
  /\ pc[p] = "closeEvicted"
  /\ RequestClose(victim[p], "final")
  /\ victim' = [victim EXCEPT ![p] = NoSocket]
  /\ Goto(p, AfterEvict(p))
  /\ UNCHANGED <<db, table, local>>

\* disconnect_for_replay.
Replay(p) ==
  /\ pc[p] = "replay"
  /\ victim' = [victim EXCEPT ![p] = slot]
  /\ slot' = NoSocket
  /\ Goto(p, "closeReplay")
  /\ UNCHANGED <<db, generation, closing, local>>

CloseReplay(p) ==
  /\ pc[p] = "closeReplay"
  /\ RequestClose(victim[p], "retryable")
  /\ victim' = [victim EXCEPT ![p] = NoSocket]
  /\ Goto(p, IF p \in Sockets /\ replied[p] THEN "validate" ELSE "closed")
  /\ UNCHANGED <<db, table, local>>

---------------------------------------------------------------------------
\* The rest of the handshake.

\* lifecycle_generation().
Sample(s) ==
  /\ pc[s] = "sample"
  /\ gen' = [gen EXCEPT ![s] = generation]
  /\ Goto(s, IF Pairing(s) THEN "replay" ELSE "validate")
  /\ UNCHANGED <<db, table, closing, tok, presented, replied, victim>>

\* Mutant: the credential is not looked up again after the reply.
SkipValidate(s) ==
  /\ pc[s] = "validate"
  /\ Goto(s, "insert")
  /\ UNCHANGED <<db, table, closing, local, victim>>

\* still_valid: the second lookup of the credential.
Validate(s) ==
  /\ pc[s] = "validate"
  /\ \/ credential[presented[s]] = "active" /\ Goto(s, "insert")
     \/ Goto(s, "closed")
  /\ UNCHANGED <<db, table, closing, local, victim>>

\* insert_if_generation: both locks are held through the comparison and the
\* write, and the connection that was there is handed back.
Insert(s) ==
  /\ pc[s] = "insert"
  /\ IF gen[s] = generation
     THEN /\ victim' = [victim EXCEPT ![s] = slot]
          /\ slot' = s
          /\ Goto(s, "closeReplaced")
     ELSE Goto(s, "closed") /\ UNCHANGED <<slot, victim>>
  /\ UNCHANGED <<db, generation, closing, local>>

CloseReplaced(s) ==
  /\ pc[s] = "closeReplaced"
  /\ RequestClose(victim[s], "retryable")
  /\ victim' = [victim EXCEPT ![s] = NoSocket]
  /\ Goto(s, "live")
  /\ UNCHANGED <<db, table, local>>

---------------------------------------------------------------------------
\* The connection loop.

\* A heartbeat finds that the connection no longer owns the slot.
Heartbeat(s) ==
  /\ pc[s] = "live" /\ closing[s] = "no" /\ slot # s
  /\ RequestClose(s, "retryable")
  /\ UNCHANGED <<db, table, pc, local, victim>>

\* The biased select sees the close request first.
ObserveClose(s) ==
  /\ pc[s] = "live" /\ closing[s] # "no"
  /\ Goto(s, "teardown")
  /\ UNCHANGED <<db, table, closing, local, victim>>

\* The peer closes, falls silent for CLIENT_IDLE_TIMEOUT, or stops reading.
LoseSocket(s) ==
  /\ pc[s] = "live"
  /\ Goto(s, "teardown")
  /\ UNCHANGED <<db, table, closing, local, victim>>

\* Mutant: the retiring handler removes whoever is in the slot.
TeardownAny(s) ==
  /\ pc[s] = "teardown"
  /\ slot' = NoSocket
  /\ Goto(s, "closed")
  /\ UNCHANGED <<db, generation, closing, local, victim>>

\* remove_if_current.
Teardown(s) ==
  /\ pc[s] = "teardown"
  /\ slot' = IF slot = s THEN NoSocket ELSE slot
  /\ Goto(s, "closed")
  /\ UNCHANGED <<db, generation, closing, local, victim>>

---------------------------------------------------------------------------
\* The owner's requests.

\* api_revoke_credentials.
OwnerRevokes(o) ==
  /\ pc[o] = "new"
  /\ EndCredentials(o)
  /\ Goto(o, "bump")
  /\ UNCHANGED <<exists, token, table, closing, local, victim>>

\* api_delete_telescope: tokens and credentials cascade.
OwnerDeletes(o) ==
  /\ pc[o] = "new" /\ exists
  /\ exists' = FALSE
  /\ token' = [t \in Tokens |-> IF token[t] = "unissued" THEN token[t] ELSE "gone"]
  /\ EndCredentials(o)
  /\ Goto(o, "bump")
  /\ UNCHANGED <<table, closing, local, victim>>

\* Any request that changed routes, attachments or the cooldown.
OwnerRefreshes(o) ==
  /\ pc[o] = "new"
  /\ Goto(o, "replay")
  /\ UNCHANGED <<db, table, closing, local, victim>>

\* revoke_pairing_tokens, alone or as the first half of issuing a new one.
DropTokens(o, next) ==
  /\ pc[o] = "new"
  /\ token' = [t \in Tokens |-> IF token[t] = "issued" THEN "gone" ELSE token[t]]
  /\ Goto(o, next)
  /\ UNCHANGED <<exists, credential, revoker, table, closing, local, victim>>

OwnerDropsTokens(o) == DropTokens(o, "closed")

OwnerReissues(o) == DropTokens(o, "issue")

\* issue_pairing_token.
OwnerIssues(o) ==
  /\ pc[o] = "issue"
  /\ \/ \E t \in Tokens : /\ exists /\ token[t] = "unissued"
                          /\ token' = [token EXCEPT ![t] = "issued"]
     \/ UNCHANGED token
  /\ Goto(o, "closed")
  /\ UNCHANGED <<exists, credential, revoker, table, closing, local, victim>>

---------------------------------------------------------------------------
\* The hub process stops at any point and starts again: the database stays,
\* every task, connection and generation counter is gone.
Restart ==
  /\ pc' = [p \in Tasks |-> IF pc[p] = "new" THEN "new" ELSE "closed"]
  /\ generation' = 0
  /\ slot' = NoSocket
  /\ closing' = [s \in Sockets |-> "no"]
  /\ replied' = [s \in Sockets |-> FALSE]
  /\ gen' = [s \in Sockets |-> 0]
  /\ victim' = [p \in Tasks |-> NoSocket]
  /\ UNCHANGED <<db, tok, presented>>

\* Steps a started task takes by itself.
RetireStep(p) == Bump(p) \/ Evict(p) \/ CloseEvicted(p) \/ Replay(p) \/ CloseReplay(p)

SocketStep(s) ==
  \/ RevokeEarlier(s) \/ Mint(s) \/ RestoreToken(s) \/ SendReply(s)
  \/ RollbackCredential(s) \/ Sample(s) \/ Validate(s) \/ Insert(s)
  \/ CloseReplaced(s) \/ ObserveClose(s) \/ Teardown(s)

\* What clients, the network and owners do.
SocketInput(s) ==
  \/ Reject(s) \/ Heartbeat(s) \/ LoseSocket(s)
  \/ \E t \in Tokens : ConsumeToken(s, t)
  \/ \E c \in Sockets : LookupCredential(s, c)

OwnerRequest(o) ==
  OwnerRevokes(o) \/ OwnerDeletes(o) \/ OwnerRefreshes(o) \/ OwnerDropsTokens(o) \/ OwnerReissues(o)

Next ==
  \/ \E p \in Tasks : RetireStep(p)
  \/ \E s \in Sockets : SocketStep(s) \/ SocketInput(s)
  \/ \E o \in Owners : OwnerRequest(o) \/ OwnerIssues(o)
  \/ Restart

Spec == Init /\ [][Next]_vars

\* Tokio polls every ready task; a started task is never abandoned, and its
\* own awaits are bounded by timeouts.  Nothing is assumed of clients.
Fairness ==
  /\ \A p \in Tasks : WF_vars(RetireStep(p))
  /\ \A s \in Sockets : WF_vars(SocketStep(s))
  /\ \A o \in Owners : WF_vars(OwnerIssues(o))

FairSpec == Spec /\ Fairness

---------------------------------------------------------------------------
\* A task that ends credentials stays in these steps until it has emptied
\* the slot.
BeforeEvicted == {"mint", "restoreRetire", "reply", "rollbackCredential",
                  "rollbackToken", "bump", "evict"}

\* A revocation, rotation or deletion is final: once the task that ended a
\* credential has emptied the slot, no connection authenticated with that
\* credential is in it, and none gets back in, however the handshakes,
\* retries and restarts interleave (insert_if_generation, still_valid).
RevocationIsFinal ==
  slot # NoSocket /\ credential[presented[slot]] = "revoked"
    => pc[revoker[presented[slot]]] \in BeforeEvicted

\* The connection in the slot belongs to the current trust generation, so an
\* updater may rely on it, except while the task that advanced the
\* generation is about to empty the slot.
EpochFence ==
  slot # NoSocket => gen[slot] = generation \/ \E p \in Tasks : pc[p] = "evict"

\* A connection that runs its loop without owning the slot has been told to
\* close, or the task that took it out of the slot still holds it and will:
\* a teardown never evicts a replacement and no displaced socket lingers.
NoOrphanedConnection ==
  \A s \in Sockets :
    pc[s] \in {"closeReplaced", "live"} /\ slot # s /\ closing[s] = "no"
      => \E p \in Tasks : victim[p] = s

\* A pairing token never leaves two credentials active, whatever is rolled
\* back, retried or fails half-way (consume, restore, delete).
OneCredentialPerToken ==
  \A c, d \in Sockets :
    /\ tok[c] # NoToken /\ tok[c] = tok[d]
    /\ credential[c] = "active" /\ credential[d] = "active"
    => c = d

\* A connection whose credential has been ended is closed in the end,
\* without help from the peer.
RevokedIsClosed ==
  \A s \in Sockets :
    (pc[s] = "live" /\ credential[presented[s]] = "revoked") ~> pc[s] = "closed"

\* What the comment in authenticate() says of pairing ("Pairing rotates:
\* earlier credentials die"): with no pairing in progress, a telescope has
\* at most one credential that still authenticates.
RotationLeavesOne ==
  (\A s \in Sockets : pc[s] \notin PairingSteps \cup {"reply"})
    => \A c, d \in Sockets : credential[c] = "active" /\ credential[d] = "active" => c = d

\* What the comment on api_issue_pairing_token says: "only one token is
\* outstanding per telescope".
OneOutstandingToken ==
  \A t, u \in Tokens : token[t] = "issued" /\ token[u] = "issued" => t = u

===========================================================================
