------------------------------ MODULE Hub_proofs ------------------------------
(***************************************************************************)
(* Proofs about the hub: pairing, trust and the connection slot            *)
(* (DirectHub), for any sets of sockets, owner requests and tokens; who    *)
(* may share a telescope's feed (Tenancy), whom a bot command reaches      *)
(* (BotCommands) and what the channels hear of a rig that comes and goes   *)
(* (Presence), for any sets of telescopes, guilds, codes, requests, rows,  *)
(* names and members. Each part is by itself.                              *)
(***************************************************************************)
EXTENDS DirectHub, Tenancy, BotCommands, Presence, TLAPS

---------------------------------------------------------------------------
(***************************************************************************)
(* DirectHub. RevocationIsFinal is not inductive: a socket that has passed *)
(* its last lookup may still be about to enter the slot. ValidatedFence    *)
(* says what stops it (either the revoking task has yet to advance the     *)
(* generation, or the sampled generation is already stale); it needs that  *)
(* sampled generations never run ahead, and that whoever revoked is a      *)
(* pairing or an owner, so it goes on to empty the slot.                   *)
(***************************************************************************)

BeforeBumped == BeforeEvicted \ {"evict"}

\* A generation is sampled, so it never exceeds the current one.
GenBounded == \A s \in Sockets : gen[s] <= generation

\* The connection in the slot is past insertion and not yet torn down.
SlotPlaced ==
  slot # NoSocket => pc[slot] \in {"closeReplaced", "live", "teardown"}

\* Only pairings and owner requests end credentials.
RevokerRetires ==
  \A c \in Sockets :
    credential[c] = "revoked" => revoker[c] \in Owners \/ Pairing(revoker[c])

\* A validated socket whose credential has been ended meanwhile cannot get
\* into the slot once the revoking task has advanced the generation.
ValidatedFence ==
  \A s \in Sockets :
    pc[s] = "insert" /\ credential[presented[s]] = "revoked"
      => \/ pc[revoker[presented[s]]] \in BeforeBumped
         \/ gen[s] < generation

\* A displaced connection is held exactly while its taker is about to close it.
VictimHeld ==
  \A p \in Tasks :
    victim[p] # NoSocket => pc[p] \in {"closeEvicted", "closeReplay", "closeReplaced"}

\* The steps in which a pairing socket holds its token.
Holding(s) == Pairing(s) /\ pc[s] \in PairingSteps \cup {"reply"}

TokenHeld ==
  /\ \A s \in Sockets : Holding(s) => token[tok[s]] \in {"consumed", "gone"}
  /\ \A s, d \in Sockets : Holding(s) /\ Holding(d) /\ tok[s] = tok[d] => s = d

\* A socket that mints next is the only one of its token with a credential.
MintAlone ==
  \A s, c \in Sockets :
    pc[s] = "mint" /\ tok[c] = tok[s] /\ credential[c] = "active" => c = s

FreshUnminted ==
  \A s \in Sockets : pc[s] = "new" => credential[s] = "unminted" /\ tok[s] = NoToken

RevocationInv ==
  GenBounded /\ SlotPlaced /\ RevokerRetires /\ ValidatedFence /\ RevocationIsFinal

SlotInv == SlotPlaced /\ VictimHeld /\ EpochFence /\ NoOrphanedConnection

TokenInv == TokenHeld /\ MintAlone /\ FreshUnminted /\ OneCredentialPerToken

---------------------------------------------------------------------------
\* Every row, table entry and task keeps its type; in particular only a
\* socket that consumed a token ever runs a pairing or rollback step.
THEOREM TypeCorrect == Spec => []TypeOK
<1> USE HubConstants
<1> USE DEF Tasks, PairingSteps, RetireSteps, SocketSteps, OwnerSteps
<1>1. Init => TypeOK
  BY DEF Init, TypeOK
<1>2. TypeOK /\ [Next]_vars => TypeOK'
  <2> SUFFICES ASSUME TypeOK, [Next]_vars PROVE TypeOK'
    OBVIOUS
  <2> USE DEF TypeOK, Goto, Pairing, db, local, table
  <2>1. ASSUME NEW p \in Tasks, RetireStep(p) PROVE TypeOK'
    <3>1. CASE Bump(p)
      BY <3>1 DEF Bump
    <3>2. CASE Evict(p)
      BY <3>2 DEF Evict
    <3>3. CASE CloseEvicted(p)
      BY <3>3 DEF CloseEvicted, AfterEvict, RequestClose
    <3>4. CASE Replay(p)
      BY <3>4 DEF Replay
    <3>5. CASE CloseReplay(p)
      BY <3>5 DEF CloseReplay, RequestClose
    <3> QED BY <2>1, <3>1, <3>2, <3>3, <3>4, <3>5 DEF RetireStep
  <2>2. ASSUME NEW s \in Sockets, SocketStep(s) PROVE TypeOK'
    <3>1. CASE RevokeEarlier(s)
      BY <3>1 DEF RevokeEarlier, EndCredentials
    <3>2. CASE Mint(s)
      BY <3>2 DEF Mint
    <3>3. CASE RestoreToken(s)
      BY <3>3 DEF RestoreToken
    <3>4. CASE SendReply(s)
      <4>1. /\ pc' \in [Tasks -> SocketSteps \cup OwnerSteps]
            /\ pc'[s] \in PairingSteps => tok[s] \in Tokens
            /\ \A p \in Tasks \ {s} : pc'[p] = pc[p]
        BY <3>4 DEF SendReply
      <4>2. replied' \in [Sockets -> BOOLEAN]
        BY <3>4 DEF SendReply
      <4> QED BY <3>4, <4>1, <4>2 DEF SendReply
    <3>5. CASE RollbackCredential(s)
      BY <3>5 DEF RollbackCredential
    <3>6. CASE Sample(s)
      BY <3>6 DEF Sample
    <3>7. CASE Validate(s)
      BY <3>7 DEF Validate
    <3>8. CASE Insert(s)
      BY <3>8 DEF Insert
    <3>9. CASE CloseReplaced(s)
      BY <3>9 DEF CloseReplaced, RequestClose
    <3>10. CASE ObserveClose(s)
      BY <3>10 DEF ObserveClose
    <3>11. CASE Teardown(s)
      BY <3>11 DEF Teardown
    <3> QED BY <2>2, <3>1, <3>2, <3>3, <3>4, <3>5, <3>6, <3>7, <3>8, <3>9, <3>10, <3>11
            DEF SocketStep
  <2>3. ASSUME NEW s \in Sockets, SocketInput(s) PROVE TypeOK'
    <3>1. CASE Reject(s)
      BY <3>1 DEF Reject
    <3>2. CASE Heartbeat(s)
      BY <3>2 DEF Heartbeat, RequestClose
    <3>3. CASE LoseSocket(s)
      BY <3>3 DEF LoseSocket
    <3>4. ASSUME NEW t \in Tokens, ConsumeToken(s, t) PROVE TypeOK'
      BY <3>4 DEF ConsumeToken
    <3>5. ASSUME NEW c \in Sockets, LookupCredential(s, c) PROVE TypeOK'
      BY <3>5 DEF LookupCredential
    <3> QED BY <2>3, <3>1, <3>2, <3>3, <3>4, <3>5 DEF SocketInput
  <2>4. ASSUME NEW o \in Owners, OwnerRequest(o) \/ OwnerIssues(o) PROVE TypeOK'
    <3>1. CASE OwnerRevokes(o)
      BY <3>1 DEF OwnerRevokes, EndCredentials
    <3>2. CASE OwnerDeletes(o)
      BY <3>2 DEF OwnerDeletes, EndCredentials
    <3>3. CASE OwnerRefreshes(o)
      BY <3>3 DEF OwnerRefreshes
    <3>4. CASE OwnerDropsTokens(o)
      BY <3>4 DEF OwnerDropsTokens, DropTokens
    <3>5. CASE OwnerReissues(o)
      BY <3>5 DEF OwnerReissues, DropTokens
    <3>6. CASE OwnerIssues(o)
      BY <3>6 DEF OwnerIssues
    <3> QED BY <2>4, <3>1, <3>2, <3>3, <3>4, <3>5, <3>6 DEF OwnerRequest
  <2>5. CASE Restart
    BY <2>5 DEF Restart
  <2>6. CASE UNCHANGED vars
    BY <2>6 DEF vars
  <2> QED BY <2>1, <2>2, <2>3, <2>4, <2>5, <2>6 DEF Next
<1> QED BY <1>1, <1>2, PTL DEF Spec

\* No step of any task breaks RevocationInv.
LEMMA RevocationStep == TypeOK /\ TypeOK' /\ RevocationInv /\ [Next]_vars => RevocationInv'
<1> SUFFICES ASSUME TypeOK, TypeOK', RevocationInv, [Next]_vars PROVE RevocationInv'
  OBVIOUS
<1> USE HubConstants
<1> USE DEF Tasks, PairingSteps, RetireSteps, SocketSteps, OwnerSteps, BeforeEvicted,
           TypeOK, Goto, Pairing, db, local, table,
           BeforeBumped, RevocationInv, GenBounded, SlotPlaced, RevokerRetires, ValidatedFence, RevocationIsFinal
<1>1. ASSUME NEW p \in Tasks, RetireStep(p) PROVE RevocationInv'
  <2>1. CASE Bump(p)
    BY <2>1 DEF Bump
  <2>2. CASE Evict(p)
    BY <2>2 DEF Evict
  <2>3. CASE CloseEvicted(p)
    BY <2>3 DEF CloseEvicted, AfterEvict, RequestClose
  <2>4. CASE Replay(p)
    BY <2>4 DEF Replay
  <2>5. CASE CloseReplay(p)
    BY <2>5 DEF CloseReplay, RequestClose
  <2> QED BY <1>1, <2>1, <2>2, <2>3, <2>4, <2>5 DEF RetireStep
<1>2. ASSUME NEW s \in Sockets, SocketStep(s) PROVE RevocationInv'
  <2>1. CASE RevokeEarlier(s)
    BY <2>1 DEF RevokeEarlier, EndCredentials
  <2>2. CASE Mint(s)
    BY <2>2 DEF Mint
  <2>3. CASE RestoreToken(s)
    BY <2>3 DEF RestoreToken
  <2>4. CASE SendReply(s)
    BY <2>4 DEF SendReply
  <2>5. CASE RollbackCredential(s)
    BY <2>5 DEF RollbackCredential
  <2>6. CASE Sample(s)
    BY <2>6 DEF Sample
  <2>7. CASE Validate(s)
    BY <2>7 DEF Validate
  <2>8. CASE Insert(s)
    BY <2>8 DEF Insert
  <2>9. CASE CloseReplaced(s)
    BY <2>9 DEF CloseReplaced, RequestClose
  <2>10. CASE ObserveClose(s)
    BY <2>10 DEF ObserveClose
  <2>11. CASE Teardown(s)
    BY <2>11 DEF Teardown
  <2> QED BY <1>2, <2>1, <2>2, <2>3, <2>4, <2>5, <2>6, <2>7, <2>8, <2>9, <2>10, <2>11 DEF SocketStep
<1>3. ASSUME NEW s \in Sockets, SocketInput(s) PROVE RevocationInv'
  <2>1. CASE Reject(s)
    BY <2>1 DEF Reject
  <2>2. CASE Heartbeat(s)
    BY <2>2 DEF Heartbeat, RequestClose
  <2>3. CASE LoseSocket(s)
    BY <2>3 DEF LoseSocket
  <2>4. ASSUME NEW t \in Tokens, ConsumeToken(s, t) PROVE RevocationInv'
    BY <2>4 DEF ConsumeToken
  <2>5. ASSUME NEW c \in Sockets, LookupCredential(s, c) PROVE RevocationInv'
    BY <2>5 DEF LookupCredential
  <2> QED BY <1>3, <2>1, <2>2, <2>3, <2>4, <2>5 DEF SocketInput
<1>4. ASSUME NEW o \in Owners, OwnerRequest(o) \/ OwnerIssues(o) PROVE RevocationInv'
  <2>1. CASE OwnerRevokes(o)
    BY <2>1 DEF OwnerRevokes, EndCredentials
  <2>2. CASE OwnerDeletes(o)
    BY <2>2 DEF OwnerDeletes, EndCredentials
  <2>3. CASE OwnerRefreshes(o)
    BY <2>3 DEF OwnerRefreshes
  <2>4. CASE OwnerDropsTokens(o)
    BY <2>4 DEF OwnerDropsTokens, DropTokens
  <2>5. CASE OwnerReissues(o)
    BY <2>5 DEF OwnerReissues, DropTokens
  <2>6. CASE OwnerIssues(o)
    BY <2>6 DEF OwnerIssues
  <2> QED BY <1>4, <2>1, <2>2, <2>3, <2>4, <2>5, <2>6 DEF OwnerRequest
<1>5. CASE Restart
  BY <1>5 DEF Restart
<1>6. CASE UNCHANGED vars
  BY <1>6 DEF vars
<1> QED BY <1>1, <1>2, <1>3, <1>4, <1>5, <1>6 DEF Next

\* No step of any task breaks SlotInv.
LEMMA SlotStep == TypeOK /\ TypeOK' /\ SlotInv /\ [Next]_vars => SlotInv'
<1> SUFFICES ASSUME TypeOK, TypeOK', SlotInv, [Next]_vars PROVE SlotInv'
  OBVIOUS
<1> USE HubConstants
<1> USE DEF Tasks, PairingSteps, RetireSteps, SocketSteps, OwnerSteps, BeforeEvicted,
           TypeOK, Goto, Pairing, db, local, table,
           SlotInv, SlotPlaced, VictimHeld, EpochFence, NoOrphanedConnection
<1>1. ASSUME NEW p \in Tasks, RetireStep(p) PROVE SlotInv'
  <2>1. CASE Bump(p)
    BY <2>1 DEF Bump
  <2>2. CASE Evict(p)
    BY <2>2 DEF Evict
  <2>3. CASE CloseEvicted(p)
    BY <2>3 DEF CloseEvicted, AfterEvict, RequestClose
  <2>4. CASE Replay(p)
    BY <2>4 DEF Replay
  <2>5. CASE CloseReplay(p)
    BY <2>5 DEF CloseReplay, RequestClose
  <2> QED BY <1>1, <2>1, <2>2, <2>3, <2>4, <2>5 DEF RetireStep
<1>2. ASSUME NEW s \in Sockets, SocketStep(s) PROVE SlotInv'
  <2>1. CASE RevokeEarlier(s)
    BY <2>1 DEF RevokeEarlier, EndCredentials
  <2>2. CASE Mint(s)
    BY <2>2 DEF Mint
  <2>3. CASE RestoreToken(s)
    BY <2>3 DEF RestoreToken
  <2>4. CASE SendReply(s)
    BY <2>4 DEF SendReply
  <2>5. CASE RollbackCredential(s)
    BY <2>5 DEF RollbackCredential
  <2>6. CASE Sample(s)
    BY <2>6 DEF Sample
  <2>7. CASE Validate(s)
    BY <2>7 DEF Validate
  <2>8. CASE Insert(s)
    BY <2>8 DEF Insert
  <2>9. CASE CloseReplaced(s)
    BY <2>9 DEF CloseReplaced, RequestClose
  <2>10. CASE ObserveClose(s)
    BY <2>10 DEF ObserveClose
  <2>11. CASE Teardown(s)
    BY <2>11 DEF Teardown
  <2> QED BY <1>2, <2>1, <2>2, <2>3, <2>4, <2>5, <2>6, <2>7, <2>8, <2>9, <2>10, <2>11 DEF SocketStep
<1>3. ASSUME NEW s \in Sockets, SocketInput(s) PROVE SlotInv'
  <2>1. CASE Reject(s)
    BY <2>1 DEF Reject
  <2>2. CASE Heartbeat(s)
    BY <2>2 DEF Heartbeat, RequestClose
  <2>3. CASE LoseSocket(s)
    BY <2>3 DEF LoseSocket
  <2>4. ASSUME NEW t \in Tokens, ConsumeToken(s, t) PROVE SlotInv'
    BY <2>4 DEF ConsumeToken
  <2>5. ASSUME NEW c \in Sockets, LookupCredential(s, c) PROVE SlotInv'
    BY <2>5 DEF LookupCredential
  <2> QED BY <1>3, <2>1, <2>2, <2>3, <2>4, <2>5 DEF SocketInput
<1>4. ASSUME NEW o \in Owners, OwnerRequest(o) \/ OwnerIssues(o) PROVE SlotInv'
  <2>1. CASE OwnerRevokes(o)
    BY <2>1 DEF OwnerRevokes, EndCredentials
  <2>2. CASE OwnerDeletes(o)
    BY <2>2 DEF OwnerDeletes, EndCredentials
  <2>3. CASE OwnerRefreshes(o)
    BY <2>3 DEF OwnerRefreshes
  <2>4. CASE OwnerDropsTokens(o)
    BY <2>4 DEF OwnerDropsTokens, DropTokens
  <2>5. CASE OwnerReissues(o)
    BY <2>5 DEF OwnerReissues, DropTokens
  <2>6. CASE OwnerIssues(o)
    BY <2>6 DEF OwnerIssues
  <2> QED BY <1>4, <2>1, <2>2, <2>3, <2>4, <2>5, <2>6 DEF OwnerRequest
<1>5. CASE Restart
  BY <1>5 DEF Restart
<1>6. CASE UNCHANGED vars
  BY <1>6 DEF vars
<1> QED BY <1>1, <1>2, <1>3, <1>4, <1>5, <1>6 DEF Next

\* No step of any task breaks TokenInv.
LEMMA TokenStep == TypeOK /\ TypeOK' /\ TokenInv /\ [Next]_vars => TokenInv'
<1> SUFFICES ASSUME TypeOK, TypeOK', TokenInv, [Next]_vars PROVE TokenInv'
  OBVIOUS
<1> USE HubConstants
<1> USE DEF Tasks, PairingSteps, RetireSteps, SocketSteps, OwnerSteps, BeforeEvicted,
           TypeOK, Goto, Pairing, db, local, table,
           TokenInv, TokenHeld, Holding, MintAlone, FreshUnminted, OneCredentialPerToken
<1>1. ASSUME NEW p \in Tasks, RetireStep(p) PROVE TokenInv'
  <2>1. CASE Bump(p)
    BY <2>1 DEF Bump
  <2>2. CASE Evict(p)
    BY <2>2 DEF Evict
  <2>3. CASE CloseEvicted(p)
    BY <2>3 DEF CloseEvicted, AfterEvict, RequestClose
  <2>4. CASE Replay(p)
    BY <2>4 DEF Replay
  <2>5. CASE CloseReplay(p)
    BY <2>5 DEF CloseReplay, RequestClose
  <2> QED BY <1>1, <2>1, <2>2, <2>3, <2>4, <2>5 DEF RetireStep
<1>2. ASSUME NEW s \in Sockets, SocketStep(s) PROVE TokenInv'
  <2>1. CASE RevokeEarlier(s)
    BY <2>1 DEF RevokeEarlier, EndCredentials
  <2>2. CASE Mint(s)
    <3>1. tok' = tok /\ token' = token /\ pc[s] = "mint" /\ pc'[s] \notin {"mint", "new"}
      BY <2>2 DEF Mint
    <3>2. \A d \in Sockets \ {s} : pc'[d] = pc[d] /\ credential'[d] = credential[d]
      BY <2>2 DEF Mint
    <3>3. TokenHeld' /\ FreshUnminted'
      BY <2>2, <3>1, <3>2 DEF Mint
    <3>4. MintAlone'
      <4> SUFFICES ASSUME NEW a \in Sockets, NEW c \in Sockets,
                          pc'[a] = "mint", tok[c] = tok[a], credential'[c] = "active"
                   PROVE  c = a
        BY <3>1
      <4> QED BY <3>1, <3>2
    <3>5. OneCredentialPerToken'
      BY <3>1, <3>2
    <3> QED BY <3>3, <3>4, <3>5
  <2>3. CASE RestoreToken(s)
    BY <2>3 DEF RestoreToken
  <2>4. CASE SendReply(s)
    BY <2>4 DEF SendReply
  <2>5. CASE RollbackCredential(s)
    BY <2>5 DEF RollbackCredential
  <2>6. CASE Sample(s)
    BY <2>6 DEF Sample
  <2>7. CASE Validate(s)
    BY <2>7 DEF Validate
  <2>8. CASE Insert(s)
    BY <2>8 DEF Insert
  <2>9. CASE CloseReplaced(s)
    BY <2>9 DEF CloseReplaced, RequestClose
  <2>10. CASE ObserveClose(s)
    BY <2>10 DEF ObserveClose
  <2>11. CASE Teardown(s)
    BY <2>11 DEF Teardown
  <2> QED BY <1>2, <2>1, <2>2, <2>3, <2>4, <2>5, <2>6, <2>7, <2>8, <2>9, <2>10, <2>11 DEF SocketStep
<1>3. ASSUME NEW s \in Sockets, SocketInput(s) PROVE TokenInv'
  <2>1. CASE Reject(s)
    BY <2>1 DEF Reject
  <2>2. CASE Heartbeat(s)
    BY <2>2 DEF Heartbeat, RequestClose
  <2>3. CASE LoseSocket(s)
    BY <2>3 DEF LoseSocket
  <2>4. ASSUME NEW t \in Tokens, ConsumeToken(s, t) PROVE TokenInv'
    BY <2>4 DEF ConsumeToken
  <2>5. ASSUME NEW c \in Sockets, LookupCredential(s, c) PROVE TokenInv'
    BY <2>5 DEF LookupCredential
  <2> QED BY <1>3, <2>1, <2>2, <2>3, <2>4, <2>5 DEF SocketInput
<1>4. ASSUME NEW o \in Owners, OwnerRequest(o) \/ OwnerIssues(o) PROVE TokenInv'
  <2>1. CASE OwnerRevokes(o)
    BY <2>1 DEF OwnerRevokes, EndCredentials
  <2>2. CASE OwnerDeletes(o)
    BY <2>2 DEF OwnerDeletes, EndCredentials
  <2>3. CASE OwnerRefreshes(o)
    BY <2>3 DEF OwnerRefreshes
  <2>4. CASE OwnerDropsTokens(o)
    BY <2>4 DEF OwnerDropsTokens, DropTokens
  <2>5. CASE OwnerReissues(o)
    BY <2>5 DEF OwnerReissues, DropTokens
  <2>6. CASE OwnerIssues(o)
    BY <2>6 DEF OwnerIssues
  <2> QED BY <1>4, <2>1, <2>2, <2>3, <2>4, <2>5, <2>6 DEF OwnerRequest
<1>5. CASE Restart
  BY <1>5 DEF Restart
<1>6. CASE UNCHANGED vars
  BY <1>6 DEF vars
<1> QED BY <1>1, <1>2, <1>3, <1>4, <1>5, <1>6 DEF Next

---------------------------------------------------------------------------
\* However handshakes, retries, owner requests and restarts interleave, a
\* revoked, rotated or deleted credential has no connection in the slot once
\* the task that ended it has emptied the slot.
THEOREM RevocationHolds == Spec => []RevocationIsFinal
<1>1. Init => RevocationInv
  BY HubConstants DEF Init, Tasks, RevocationInv, GenBounded, SlotPlaced, RevokerRetires,
     ValidatedFence, RevocationIsFinal
<1>2. RevocationInv => RevocationIsFinal
  BY DEF RevocationInv
<1> QED BY <1>1, <1>2, TypeCorrect, RevocationStep, PTL DEF Spec

\* The connection in the slot is of the current trust generation, unless the
\* task that advanced the generation is about to empty the slot.
THEOREM EpochFenceHolds == Spec => []EpochFence
<1>1. Init => SlotInv
  BY HubConstants DEF Init, Tasks, SlotInv, SlotPlaced, VictimHeld, EpochFence, NoOrphanedConnection
<1>2. SlotInv => EpochFence
  BY DEF SlotInv
<1> QED BY <1>1, <1>2, TypeCorrect, SlotStep, PTL DEF Spec

\* A running connection that does not own the slot has been told to close or
\* is held by the task that will tell it.
THEOREM NoConnectionOrphaned == Spec => []NoOrphanedConnection
<1>1. Init => SlotInv
  BY HubConstants DEF Init, Tasks, SlotInv, SlotPlaced, VictimHeld, EpochFence, NoOrphanedConnection
<1>2. SlotInv => NoOrphanedConnection
  BY DEF SlotInv
<1> QED BY <1>1, <1>2, TypeCorrect, SlotStep, PTL DEF Spec

\* A pairing token leaves at most one active credential, whichever steps of
\* its pairings fail, are rolled back or are repeated.
THEOREM TokenMintsOnce == Spec => []OneCredentialPerToken
<1>1. Init => TokenInv
  BY HubConstants DEF Init, TokenInv, TokenHeld, Holding, Pairing, MintAlone, FreshUnminted,
     OneCredentialPerToken, PairingSteps, Tasks
<1>2. TokenInv => OneCredentialPerToken
  BY DEF TokenInv
<1> QED BY <1>1, <1>2, TypeCorrect, TokenStep, PTL DEF Spec

---------------------------------------------------------------------------
(***************************************************************************)
(* Tenancy. A handler works between transactions, and anything may be      *)
(* deleted in between. What makes a feed paid for is that a request holds  *)
(* the code it has consumed until the telescope goes (RequestsHoldCodes),  *)
(* and that attachments go with their telescope (AttachmentsPaid).         *)
(***************************************************************************)

\* Requests that have consumed their code.
Bought == {"consumed", "unattached", "attached"}

\* The types of the telescopes, the attachments, the codes and the requests.
TenancyTyped ==
  /\ telescopes \in [Telescopes -> {"new", "owned", "deleted"}]
  /\ attachments \subseteq [telescope : Telescopes, guild : Guilds, can_command : BOOLEAN]
  /\ codes \in [Codes -> [state : CodeStates, telescope : Telescopes \cup {Nothing},
                          by : Requests \cup {Nothing}]]
  /\ request \in [Requests -> [at : RequestStages, telescope : Telescopes \cup {Nothing},
                               guild : Guilds \cup {Nothing}, channel : Feeds \cup {Nothing},
                               code : Codes \cup {Nothing}]]

\* What a request knows at each of its stages.
RequestsInForm ==
  \A q \in Requests :
    /\ request[q].at # "new" => request[q].guild \in Guilds /\ request[q].channel \in Feeds
    /\ request[q].at = "authorized" => request[q].telescope \in Telescopes
    /\ request[q].at = "free" => request[q].code \in Codes

\* A request that has consumed its code holds it, until the telescope is deleted.
RequestsHoldCodes ==
  \A q \in Requests : request[q].at \in Bought =>
    /\ request[q].code \in Codes /\ request[q].telescope \in Telescopes
    /\ codes[request[q].code].by = q
    /\ codes[request[q].code].telescope = request[q].telescope
    /\ telescopes[request[q].telescope] = "owned" => codes[request[q].code].state = "consumed"

\* What a code knows in each of its states.
CodesInForm ==
  \A k \in Codes :
    /\ codes[k].state \in {"unissued", "outstanding"} => codes[k].by = Nothing
    /\ codes[k].state # "unissued" =>
         codes[k].telescope \in Telescopes /\ telescopes[codes[k].telescope] # "new"
    /\ codes[k].state = "consumed" => codes[k].by \in Requests /\ request[codes[k].by].at # "new"

\* An attachment is of a telescope that is there; what shares it without commands
\* was paid for with a code of this telescope, spent for this guild.
AttachmentsPaid ==
  \A a \in attachments :
    /\ telescopes[a.telescope] = "owned"
    /\ ~a.can_command =>
         \E k \in Codes : /\ codes[k].state = "consumed" /\ codes[k].telescope = a.telescope
                          /\ request[codes[k].by].guild = a.guild

\* A guild is attached once to a telescope.
AttachmentsUnique ==
  \A a, b \in attachments : a.telescope = b.telescope /\ a.guild = b.guild => a = b

\* Requests and codes refer to each other.
CodesInv == RequestsInForm /\ RequestsHoldCodes /\ CodesInForm
SharesInv == TenancyTyped /\ CodesInv /\ AttachmentsPaid /\ AttachmentsUnique

USE TenancyAssumption

\* A request that goes on without touching codes or telescopes.
LEMMA RequestMoves ==
  ASSUME SharesInv, NEW q \in Requests, NEW stage \in RequestStages \ {"new", "free", "authorized"},
         request' = [request EXCEPT ![q].at = stage], UNCHANGED <<telescopes, codes>>,
         request[q].at # "new", stage \in Bought => request[q].at \in Bought
  PROVE  /\ request' \in [Requests -> [at : RequestStages, telescope : Telescopes \cup {Nothing},
                               guild : Guilds \cup {Nothing}, channel : Feeds \cup {Nothing},
                               code : Codes \cup {Nothing}]]
         /\ CodesInv'
         /\ \A p \in Requests : request'[p].guild = request[p].guild
<1>1. /\ \A p \in Requests : /\ request'[p].guild = request[p].guild
                             /\ request'[p].telescope = request[p].telescope
                             /\ request'[p].channel = request[p].channel
                             /\ request'[p].code = request[p].code
                             /\ p # q => request'[p].at = request[p].at
      /\ request'[q].at = stage
  BY DEF SharesInv, TenancyTyped
<1>2. request' \in [Requests -> [at : RequestStages, telescope : Telescopes \cup {Nothing},
                               guild : Guilds \cup {Nothing}, channel : Feeds \cup {Nothing},
                               code : Codes \cup {Nothing}]]
  BY DEF SharesInv, TenancyTyped
<1>3. RequestsInForm'
  BY <1>1 DEF SharesInv, CodesInv, RequestsInForm
<1>4. RequestsHoldCodes'
  BY <1>1 DEF SharesInv, CodesInv, RequestsHoldCodes
<1>5. CodesInForm'
  BY <1>1 DEF SharesInv, CodesInv, CodesInForm
<1> QED BY <1>1, <1>2, <1>3, <1>4, <1>5 DEF CodesInv

\* Every step of the tables and of the handlers between their transactions.
LEMMA SharesStep == SharesInv /\ [TenancyNext]_tenancyVars => SharesInv'
<1> SUFFICES ASSUME SharesInv, [TenancyNext]_tenancyVars PROVE SharesInv'
  OBVIOUS
<1> USE DEF SharesInv
<1>1. ASSUME NEW t \in Telescopes, CreateTelescope(t) PROVE SharesInv'
  <2>1. /\ telescopes[t] = "new" /\ telescopes' = [telescopes EXCEPT ![t] = "owned"]
        /\ UNCHANGED <<attachments, codes, request>>
    BY <1>1 DEF CreateTelescope
  <2>2. /\ telescopes'[t] = "owned" /\ \A u \in Telescopes \ {t} : telescopes'[u] = telescopes[u]
    BY <2>1 DEF TenancyTyped
  <2>3. TenancyTyped'
    BY <2>1 DEF TenancyTyped
  <2>4. \A q \in Requests : request[q].at \in Bought => request[q].telescope # t
    BY <2>1 DEF CodesInv, RequestsHoldCodes, CodesInForm
  <2>5. CodesInv'
    BY <2>1, <2>2, <2>4 DEF CodesInv, RequestsInForm, RequestsHoldCodes, CodesInForm
  <2>6. AttachmentsPaid' /\ AttachmentsUnique'
    BY <2>1, <2>2 DEF TenancyTyped, AttachmentsPaid, AttachmentsUnique
  <2> QED BY <2>3, <2>5, <2>6
<1>2. ASSUME NEW t \in Telescopes, DeleteTelescope(t) PROVE SharesInv'
  <2>1. /\ telescopes' = [telescopes EXCEPT ![t] = "deleted"] /\ request' = request
        /\ attachments' = {a \in attachments : a.telescope # t}
        /\ codes' = [k \in Codes |-> IF codes[k].telescope = t THEN [codes[k] EXCEPT !.state = "gone"]
                                     ELSE codes[k]]
    BY <1>2 DEF DeleteTelescope
  <2>2. \A k \in Codes : /\ codes'[k].telescope = codes[k].telescope /\ codes'[k].by = codes[k].by
                         /\ codes[k].telescope # t => codes'[k] = codes[k]
                         /\ codes[k].telescope = t => codes'[k].state = "gone"
    BY <2>1 DEF TenancyTyped
  <2>3. TenancyTyped'
    BY <2>1 DEF TenancyTyped, CodeStates
  <2>4. RequestsInForm' /\ RequestsHoldCodes'
    BY <2>1, <2>2, <2>3 DEF CodesInv, RequestsInForm, RequestsHoldCodes, TenancyTyped
  <2>5. CodesInForm'
    BY <2>1, <2>2 DEF CodesInv, CodesInForm, TenancyTyped
  <2>6. AttachmentsPaid'
    BY <2>1, <2>2 DEF AttachmentsPaid, TenancyTyped
  <2> QED BY <2>1, <2>3, <2>4, <2>5, <2>6 DEF CodesInv, AttachmentsUnique
<1>3. ASSUME NEW t \in Telescopes, NEW g \in Guilds, AttachTelescope(t, g) PROVE SharesInv'
  <2> DEFINE new == [telescope |-> t, guild |-> g, can_command |-> TRUE]
  <2>1. /\ telescopes[t] = "owned" /\ ~Attached(t, g) /\ attachments' = attachments \cup {new}
        /\ UNCHANGED <<telescopes, codes, request>>
    BY <1>3 DEF AttachTelescope, Attach, CanAttach
  <2>2. /\ new \in [telescope : Telescopes, guild : Guilds, can_command : BOOLEAN]
        /\ new.telescope = t /\ new.guild = g /\ new.can_command
    OBVIOUS
  <2> HIDE DEF new
  <2>3. TenancyTyped' /\ CodesInv'
    BY <2>1, <2>2 DEF TenancyTyped, CodesInv, RequestsInForm, RequestsHoldCodes, CodesInForm
  <2>4. AttachmentsPaid'
    BY <2>1, <2>2 DEF AttachmentsPaid
  <2>5. AttachmentsUnique'
    BY <2>1, <2>2 DEF AttachmentsUnique, Attached
  <2> QED BY <2>3, <2>4, <2>5
<1>4. ASSUME NEW t \in Telescopes, NEW k \in Codes, CreateShareCode(t, k) PROVE SharesInv'
  <2>1. /\ telescopes[t] = "owned" /\ codes[k].state = "unissued"
        /\ UNCHANGED <<telescopes, attachments, request>>
        /\ codes' = [j \in Codes |->
             IF j = k THEN [state |-> "outstanding", telescope |-> t, by |-> Nothing]
             ELSE IF codes[j].telescope = t /\ codes[j].state = "outstanding"
                  THEN [codes[j] EXCEPT !.state = "gone"]
             ELSE codes[j]]
    BY <1>4 DEF CreateShareCode
  <2>2. /\ codes'[k].state = "outstanding" /\ codes'[k].telescope = t /\ codes'[k].by = Nothing
        /\ \A j \in Codes : codes[j].state \notin {"unissued", "outstanding"} => codes'[j] = codes[j]
        /\ \A j \in Codes \ {k} : /\ codes'[j].telescope = codes[j].telescope /\ codes'[j].by = codes[j].by
                                  /\ \/ codes'[j].state = codes[j].state
                                     \/ codes[j].state = "outstanding" /\ codes'[j].state = "gone"
    <3>1. codes'[k] = [state |-> "outstanding", telescope |-> t, by |-> Nothing]
      BY <2>1
    <3>2. ASSUME NEW j \in Codes, j # k
          PROVE  \/ codes'[j] = codes[j]
                 \/ /\ codes[j].state = "outstanding" /\ codes'[j].state = "gone"
                    /\ codes'[j].telescope = codes[j].telescope /\ codes'[j].by = codes[j].by
      <4>1. \/ codes'[j] = codes[j]
            \/ codes[j].state = "outstanding" /\ codes'[j] = [codes[j] EXCEPT !.state = "gone"]
        BY <2>1, <3>2
      <4> QED BY <4>1 DEF TenancyTyped
    <3> QED BY <2>1, <3>1, <3>2
  <2>3. TenancyTyped'
    BY <2>1 DEF TenancyTyped, CodeStates
  <2>4. \A q \in Requests : request[q].at \in Bought =>
          codes[request[q].code].state \notin {"unissued", "outstanding"}
    BY DEF CodesInv, RequestsHoldCodes, CodesInForm
  <2>5. RequestsInForm' /\ RequestsHoldCodes'
    BY <2>1, <2>2, <2>4 DEF CodesInv, RequestsInForm, RequestsHoldCodes
  <2>6. CodesInForm'
    BY <2>1, <2>2 DEF CodesInv, CodesInForm
  <2>7. AttachmentsPaid' /\ AttachmentsUnique'
    BY <2>1, <2>2 DEF AttachmentsPaid, AttachmentsUnique
  <2> QED BY <2>3, <2>5, <2>6, <2>7 DEF CodesInv
<1>5. ASSUME NEW k \in Codes, ShareCodeExpires(k) PROVE SharesInv'
  <2>1. /\ codes[k].state = "outstanding" /\ UNCHANGED <<telescopes, attachments, request>>
        /\ codes' = [codes EXCEPT ![k].state = "gone"]
    BY <1>5 DEF ShareCodeExpires
  <2>2. /\ codes'[k].state = "gone"
        /\ \A j \in Codes : codes'[j].telescope = codes[j].telescope /\ codes'[j].by = codes[j].by
        /\ \A j \in Codes \ {k} : codes'[j] = codes[j]
    BY <2>1 DEF TenancyTyped
  <2>3. TenancyTyped'
    BY <2>1 DEF TenancyTyped, CodeStates
  <2>4. \A q \in Requests : request[q].at \in Bought => request[q].code # k
    BY <2>1 DEF CodesInv, RequestsHoldCodes, CodesInForm
  <2>5. RequestsInForm' /\ RequestsHoldCodes' /\ CodesInForm'
    BY <2>1, <2>2, <2>4 DEF CodesInv, RequestsInForm, RequestsHoldCodes, CodesInForm
  <2>7. AttachmentsPaid' /\ AttachmentsUnique'
    BY <2>1, <2>2 DEF AttachmentsPaid, AttachmentsUnique
  <2> QED BY <2>3, <2>5, <2>7 DEF CodesInv
<1>6. ASSUME NEW a \in attachments, DetachTelescope(a) PROVE SharesInv'
  BY <1>6 DEF DetachTelescope, TenancyTyped, CodesInv, RequestsInForm, RequestsHoldCodes,
     CodesInForm, AttachmentsPaid, AttachmentsUnique
<1>7. ASSUME NEW f \in feeds, DeleteRoute(f) PROVE SharesInv'
  BY <1>7 DEF DeleteRoute, TenancyTyped, CodesInv, RequestsInForm, RequestsHoldCodes,
     CodesInForm, AttachmentsPaid, AttachmentsUnique
<1>8. ASSUME NEW q \in Requests, NEW a \in attachments, NEW c \in Feeds, AuthorizeAdd(q, a, c)
      PROVE  SharesInv'
  <2>1. /\ request[q] = NoRequest /\ UNCHANGED <<telescopes, attachments, codes>>
        /\ request' = [request EXCEPT ![q] =
             [at |-> "authorized", telescope |-> a.telescope, guild |-> a.guild, channel |-> c,
              code |-> Nothing]]
    BY <1>8 DEF AuthorizeAdd
  <2>2. /\ request'[q] = [at |-> "authorized", telescope |-> a.telescope, guild |-> a.guild,
                         channel |-> c, code |-> Nothing]
        /\ \A p \in Requests \ {q} : request'[p] = request[p]
        /\ request[q].at = "new"
    BY <2>1 DEF TenancyTyped, NoRequest
  <2>3. a.telescope \in Telescopes /\ a.guild \in Guilds
    BY DEF TenancyTyped
  <2>4. TenancyTyped'
    BY <2>1, <2>3 DEF TenancyTyped, RequestStages
  <2>5. RequestsInForm'
    BY <2>1, <2>2, <2>3 DEF CodesInv, RequestsInForm
  <2>6. RequestsHoldCodes' /\ CodesInForm' /\ AttachmentsPaid' /\ AttachmentsUnique'
    BY <2>1, <2>2 DEF CodesInv, RequestsHoldCodes, CodesInForm, AttachmentsPaid, AttachmentsUnique,
       Bought
  <2> QED BY <2>4, <2>5, <2>6 DEF CodesInv
<1>9. ASSUME NEW q \in Requests, NEW k \in Codes, NEW c \in Feeds, CheckChannelFree(q, k, c)
      PROVE  SharesInv'
  <2>1. /\ request[q] = NoRequest /\ UNCHANGED <<telescopes, attachments, codes>>
        /\ request' = [request EXCEPT ![q] =
             [at |-> IF Routed(c) THEN "conflict" ELSE "free", telescope |-> Nothing,
              guild |-> GuildOf[c], channel |-> c, code |-> k]]
    BY <1>9 DEF CheckChannelFree
  <2> DEFINE stage == IF Routed(c) THEN "conflict" ELSE "free"
  <2>2. stage \in {"conflict", "free"}
    OBVIOUS
  <2> HIDE DEF stage
  <2>3. request' = [request EXCEPT ![q] =
             [at |-> stage, telescope |-> Nothing, guild |-> GuildOf[c], channel |-> c, code |-> k]]
    BY <2>1 DEF stage
  <2>4. /\ request'[q] = [at |-> stage, telescope |-> Nothing, guild |-> GuildOf[c], channel |-> c,
                         code |-> k]
        /\ \A p \in Requests \ {q} : request'[p] = request[p]
        /\ request[q].at = "new" /\ GuildOf[c] \in Guilds
    BY <2>1, <2>3 DEF TenancyTyped, NoRequest
  <2>5. TenancyTyped'
    BY <2>1, <2>2, <2>3, <2>4 DEF TenancyTyped, RequestStages
  <2>6. RequestsInForm'
    BY <2>1, <2>2, <2>4 DEF CodesInv, RequestsInForm
  <2>7. RequestsHoldCodes' /\ CodesInForm' /\ AttachmentsPaid' /\ AttachmentsUnique'
    BY <2>1, <2>2, <2>4 DEF CodesInv, RequestsHoldCodes, CodesInForm, AttachmentsPaid,
       AttachmentsUnique, Bought
  <2> QED BY <2>5, <2>6, <2>7 DEF CodesInv
<1>10. ASSUME NEW q \in Requests,
              InsertRoute(q) \/ InsertFails(q) \/ ConsumeRefused(q) \/ LookUpAttachment(q)
              \/ AttachFails(q) \/ SharedTelescopeGone(q) \/ Abandon(q)
       PROVE  SharesInv'
  <2>1. PICK stage \in RequestStages \ {"new", "free", "authorized"} :
          /\ request' = [request EXCEPT ![q].at = stage] /\ request[q].at # "new"
          /\ stage \in Bought => request[q].at \in Bought
          /\ UNCHANGED <<telescopes, attachments, codes>>
    BY <1>10 DEF InsertRoute, InsertFails, ConsumeRefused, LookUpAttachment, AttachFails,
       SharedTelescopeGone, Abandon, RequestStages, Bought
  <2>2. /\ request' \in [Requests -> [at : RequestStages, telescope : Telescopes \cup {Nothing},
                               guild : Guilds \cup {Nothing}, channel : Feeds \cup {Nothing},
                               code : Codes \cup {Nothing}]]
        /\ CodesInv' /\ \A p \in Requests : request'[p].guild = request[p].guild
    BY <2>1, RequestMoves
  <2>3. TenancyTyped'
    BY <2>1, <2>2 DEF TenancyTyped
  <2>4. AttachmentsPaid'
    BY <2>1, <2>2 DEF CodesInv, CodesInForm, AttachmentsPaid
  <2> QED BY <2>1, <2>2, <2>3, <2>4 DEF AttachmentsUnique
<1>11. ASSUME NEW q \in Requests, Consume(q) PROVE SharesInv'
  <2> DEFINE k == request[q].code
             t == codes[k].telescope
             c == [state |-> "consumed", telescope |-> t, by |-> q]
             r == [at |-> "consumed", telescope |-> t, guild |-> request[q].guild,
                   channel |-> request[q].channel, code |-> k]
  <2>1. /\ request[q].at = "free" /\ codes[k].state = "outstanding"
        /\ codes' = [codes EXCEPT ![k] = c] /\ request' = [request EXCEPT ![q] = r]
        /\ UNCHANGED <<telescopes, attachments>>
    BY <1>11 DEF Consume, Redeemable, TenancyTyped
  <2>2. k \in Codes /\ t \in Telescopes /\ telescopes[t] # "new"
    BY <2>1 DEF CodesInv, RequestsInForm, CodesInForm
  <2>3. /\ request[q].guild \in Guilds /\ request[q].channel \in Feeds
        /\ c \in [state : CodeStates, telescope : Telescopes \cup {Nothing},
                  by : Requests \cup {Nothing}]
        /\ r \in [at : RequestStages, telescope : Telescopes \cup {Nothing},
                  guild : Guilds \cup {Nothing}, channel : Feeds \cup {Nothing},
                  code : Codes \cup {Nothing}]
    BY <2>1, <2>2 DEF CodesInv, RequestsInForm, CodeStates, RequestStages
  <2>4. /\ codes'[k] = c /\ request'[q] = r
        /\ \A j \in Codes \ {k} : codes'[j] = codes[j]
        /\ \A p \in Requests \ {q} : request'[p] = request[p]
    BY <2>1, <2>2 DEF TenancyTyped
  <2>5. TenancyTyped'
    BY <2>1, <2>2, <2>3 DEF TenancyTyped
  <2>6. /\ c.state = "consumed" /\ c.telescope = t /\ c.by = q
        /\ r.at = "consumed" /\ r.telescope = t /\ r.guild = request[q].guild
        /\ r.channel = request[q].channel /\ r.code = k
    OBVIOUS
  <2>7. \A p \in Requests : request[p].at \in Bought => request[p].code # k
    BY <2>1 DEF CodesInv, RequestsHoldCodes, CodesInForm
  <2>8. \A j \in Codes : codes[j].state = "consumed" =>
          j # k /\ request'[codes[j].by].guild = request[codes[j].by].guild
    BY <2>1, <2>4, <2>6 DEF CodesInv, CodesInForm
  <2> HIDE DEF k, t, c, r
  <2>9. RequestsInForm'
    BY <2>3, <2>4, <2>6 DEF CodesInv, RequestsInForm
  <2>10. RequestsHoldCodes'
    BY <2>1, <2>2, <2>4, <2>6, <2>7 DEF CodesInv, RequestsHoldCodes, Bought
  <2>11. CodesInForm'
    BY <2>1, <2>2, <2>4, <2>6 DEF CodesInv, CodesInForm
  <2>12. AttachmentsPaid' /\ AttachmentsUnique'
    BY <2>1, <2>4, <2>8 DEF AttachmentsPaid, AttachmentsUnique
  <2> QED BY <2>5, <2>9, <2>10, <2>11, <2>12 DEF CodesInv
<1>12. ASSUME NEW q \in Requests, AttachSubscriber(q) PROVE SharesInv'
  <2> DEFINE new == [telescope |-> request[q].telescope, guild |-> request[q].guild,
                     can_command |-> FALSE]
  <2>1. /\ request[q].at = "unattached" /\ telescopes[request[q].telescope] = "owned"
        /\ ~Attached(request[q].telescope, request[q].guild)
        /\ attachments' = attachments \cup {new}
        /\ request' = [request EXCEPT ![q].at = "attached"] /\ UNCHANGED <<telescopes, codes>>
    BY <1>12 DEF AttachSubscriber, CanAttach, Attach
  <2>2. /\ request' \in [Requests -> [at : RequestStages, telescope : Telescopes \cup {Nothing},
                               guild : Guilds \cup {Nothing}, channel : Feeds \cup {Nothing},
                               code : Codes \cup {Nothing}]]
        /\ CodesInv' /\ \A p \in Requests : request'[p].guild = request[p].guild
    BY <2>1, RequestMoves DEF RequestStages, Bought
  <2>3. /\ request[q].telescope \in Telescopes /\ request[q].guild \in Guilds
        /\ request[q].code \in Codes /\ codes[request[q].code].state = "consumed"
        /\ codes[request[q].code].telescope = request[q].telescope
        /\ codes[request[q].code].by = q
    BY <2>1 DEF CodesInv, RequestsInForm, RequestsHoldCodes, Bought
  <2>7. /\ new \in [telescope : Telescopes, guild : Guilds, can_command : BOOLEAN]
        /\ new.telescope = request[q].telescope /\ new.guild = request[q].guild /\ ~new.can_command
    BY <2>3
  <2> HIDE DEF new
  <2>4. TenancyTyped'
    BY <2>1, <2>2, <2>7 DEF TenancyTyped
  <2>5. AttachmentsPaid'
    BY <2>1, <2>2, <2>3, <2>7 DEF CodesInv, CodesInForm, AttachmentsPaid
  <2>6. AttachmentsUnique'
    BY <2>1, <2>7 DEF AttachmentsUnique, Attached
  <2> QED BY <2>2, <2>4, <2>5, <2>6
<1>13. CASE UNCHANGED tenancyVars
  BY <1>13 DEF tenancyVars, TenancyTyped, CodesInv, RequestsInForm, RequestsHoldCodes,
     CodesInForm, AttachmentsPaid, AttachmentsUnique
<1> QED BY <1>1, <1>2, <1>3, <1>4, <1>5, <1>6, <1>7, <1>8, <1>9, <1>10, <1>11, <1>12, <1>13
    DEF TenancyNext

\* For any telescopes, guilds, codes and requests, whatever is deleted or raced in
\* between: an attachment without commands was bought with a code of its telescope
\* redeemed for its guild, a code serves one request, and a subscription never changes
\* an attachment that is there (the subscription handlers of server.rs).
THEOREM FeedsPaidFor == TenancySpec => []SharedFeedsArePaidFor
<1>1. TenancyInit => SharesInv
  <2> SUFFICES ASSUME TenancyInit PROVE SharesInv
    OBVIOUS
  <2>1. TenancyTyped
    BY DEF TenancyInit, TenancyTyped, NoRequest, CodeStates, RequestStages
  <2>2. CodesInv
    BY DEF TenancyInit, CodesInv, RequestsInForm, RequestsHoldCodes, CodesInForm, NoRequest, Bought
  <2> QED BY <2>1, <2>2 DEF TenancyInit, SharesInv, AttachmentsPaid, AttachmentsUnique
<1>2. SharesInv => SharedFeedsArePaidFor
  BY DEF SharesInv, CodesInv, RequestsHoldCodes, AttachmentsPaid, AttachmentsUnique,
     SharedFeedsArePaidFor, Bought
<1> QED BY <1>1, <1>2, SharesStep, PTL DEF TenancySpec

---------------------------------------------------------------------------
(***************************************************************************)
(* BotCommands. A destructive command is resolved twice, with a prompt in  *)
(* between. Sure says why the second resolution is enough: connections are *)
(* numbered and never come back, so one that is still there under its      *)
(* number is the one that was confirmed.                                   *)
(***************************************************************************)

\* A command as it is under way.
CommandType ==
  [at : {"idle", "find", "authorize", "pin", "prompt", "sent", "moved", "refused"},
   name : Names \cup {ByChannel}, member : Members, destructive : BOOLEAN,
   row : Rows \cup {NoRow}, pinned : 0..opened, sent : 0..opened]

\* A command that has found a telescope keeps it; only an open connection takes commands.
CommandKnown ==
  /\ command.at \in {"authorize", "pin", "prompt", "sent"} => command.row \in Rows
  /\ \A r \in Rows : live[r].commands => live[r].id # 0

\* Types, with what a stage of the command says of its fields.
CommandsTyped == BotCommandsTypeOK /\ CommandKnown

\* If the connection that was confirmed is there and takes commands, the user
\* could command it when the second resolution authorised it, and nobody opens
\* it anew.
Sure ==
  command.at = "pin" /\ command.pinned # 0
    /\ live[command.row].id = command.pinned /\ live[command.row].commands
    => command.pinned \in entitled

\* Why the confirmed command reaches the telescope that was confirmed.
CommandInv == Sure /\ CommandsReachTheirTelescope

\* A command past its first resolution has its telescope.
RowHeld(c) == c.at \in {"authorize", "pin", "prompt", "sent"} => c.row \in Rows

\* The steps of the command itself keep its form.
LEMMA CommandMoves ==
  ASSUME CommandsTyped, CommandStep
  PROVE  command' \in CommandType /\ RowHeld(command')
<1>0. command \in CommandType /\ RowHeld(command)
  BY DEF CommandsTyped, BotCommandsTypeOK, CommandType, CommandKnown, RowHeld
<1>1. ASSUME NEW name \in Names \cup {ByChannel}, NEW member \in Members, NEW commands,
             Invoke(name, member, commands)
      PROVE  command' \in CommandType /\ RowHeld(command')
  <2>1. (commands = ConfirmedCommands) \in BOOLEAN
    BY Zenon
  <2>2. 0 \in 0..opened
    BY DEF CommandsTyped, BotCommandsTypeOK
  <2>3. "find" \in {"idle", "find", "authorize", "pin", "prompt", "sent", "moved", "refused"}
    OBVIOUS
  <2> DEFINE sort == commands = ConfirmedCommands
  <2>4. sort \in BOOLEAN
    BY <2>1
  <2>5. command' = [at |-> "find", name |-> name, member |-> member, destructive |-> sort,
                    row |-> NoRow, pinned |-> 0, sent |-> 0]
    BY <1>1 DEF Invoke
  <2> HIDE DEF sort
  <2> QED BY <2>2, <2>3, <2>4, <2>5, Zenon DEF CommandType, RowHeld
<1>2. ASSUME NEW at \in {"find", "authorize", "pin", "prompt", "moved", "refused"},
             Reaches(at), at = "pin" => command.at = "authorize", at # "prompt", at # "authorize"
      PROVE  command' \in CommandType /\ RowHeld(command')
  BY <1>0, <1>2 DEF Reaches, CommandType, RowHeld
<1>3. CASE FindTelescope
  <2>1. PICK r \in Found :
          command' = [command EXCEPT !.at = "authorize", !.row = r, !.name = NameOf[r]]
    BY <1>3 DEF FindTelescope
  <2>2. r \in Rows
    BY DEF Found, CommandsTyped, BotCommandsTypeOK
  <2>3. NameOf[r] \in Names
    BY <2>2, NamesAssumption
  <2> QED BY <1>0, <2>1, <2>2, <2>3 DEF CommandType, RowHeld
<1>4. CASE PinConnection
  <2>1. command' = [command EXCEPT !.at = "prompt", !.pinned = live[command.row].id]
    BY <1>4 DEF PinConnection
  <2>2. command.row \in Rows
    BY <1>0, <1>4 DEF PinConnection, RowHeld
  <2>3. live[command.row].id \in 0..opened
    BY <2>2 DEF CommandsTyped, BotCommandsTypeOK
  <2> QED BY <1>0, <2>1, <2>2, <2>3 DEF CommandType, RowHeld
<1>5. CASE DispatchCommand
  <2>1. command' = [command EXCEPT !.at = "sent", !.sent = live[command.row].id]
    BY <1>5 DEF DispatchCommand
  <2>2. command.row \in Rows
    BY <1>0, <1>5 DEF DispatchCommand, RowHeld
  <2>3. live[command.row].id \in 0..opened
    BY <2>2 DEF CommandsTyped, BotCommandsTypeOK
  <2> QED BY <1>0, <2>1, <2>2, <2>3 DEF CommandType, RowHeld
<1>6. CASE Confirm
  <2>1. PICK member \in Members : command' = [command EXCEPT !.at = "find", !.member = member]
    BY <1>6 DEF Confirm
  <2> QED BY <1>0, <2>1 DEF CommandType, RowHeld
<1>7. CASE Authorize
  BY <1>2, <1>7 DEF Authorize
<1> QED BY <1>1, <1>2, <1>3, <1>4, <1>5, <1>6, <1>7
    DEF CommandStep, FindNothing, NotAuthorized, NotReachable, Decline, ConnectionChanged

\* What may change meanwhile: connections are numbered as they are opened, so
\* one that is gone never comes back.
LEMMA TenantsMove ==
  ASSUME CommandsTyped, TenantStep
  PROVE  /\ rows' \in [Rows -> {"new", "owned", "deleted"}]
         /\ policy' \in [Rows -> {"none", "feed"} \cup WritePolicies]
         /\ routed' \in Rows \cup {NoRow}
         /\ opened' \in 0..MaxOpened /\ opened' >= opened
         /\ live' \in [Rows -> [id : 0..opened', commands : BOOLEAN]]
         /\ \A r \in Rows : /\ live'[r].commands => live'[r].id # 0
                            /\ live'[r] = live[r] \/ live'[r].id = 0 \/ live'[r].id > opened
<1> USE DEF CommandsTyped, BotCommandsTypeOK, CommandKnown
<1>1. ASSUME NEW r \in Rows, CreateRow(r) \/ DeleteRow(r) \/ AttachRow(r) \/ SetPolicy(r)
                             \/ DetachRow(r) \/ RouteChannel(r)
      PROVE  /\ rows' \in [Rows -> {"new", "owned", "deleted"}]
             /\ policy' \in [Rows -> {"none", "feed"} \cup WritePolicies]
             /\ routed' \in Rows \cup {NoRow}
             /\ UNCHANGED <<live, opened>>
  BY <1>1 DEF CreateRow, DeleteRow, AttachRow, SetPolicy, DetachRow, RouteChannel, Unroute,
              WritePolicies
<1>2. CASE DeleteChannelRoute
  BY <1>2 DEF DeleteChannelRoute
<1>3. ASSUME NEW r \in Rows, OpenConnection(r) \/ CloseConnection(r)
      PROVE  /\ UNCHANGED <<rows, policy, routed>>
             /\ opened' \in 0..MaxOpened /\ opened' >= opened
             /\ live' \in [Rows -> [id : 0..opened', commands : BOOLEAN]]
             /\ \A q \in Rows : /\ live'[q].commands => live'[q].id # 0
                                /\ live'[q] = live[q] \/ live'[q].id = 0 \/ live'[q].id > opened
  <2>1. CASE OpenConnection(r)
    <3>1. PICK enabled \in BOOLEAN :
            live' = [live EXCEPT ![r] = [id |-> opened + 1, commands |-> enabled]]
      BY <2>1 DEF OpenConnection
    <3>2. opened' = opened + 1 /\ opened < MaxOpened /\ UNCHANGED <<rows, policy, routed>>
      BY <2>1 DEF OpenConnection
    <3>3. opened \in Nat /\ opened' \in 0..MaxOpened
      BY <3>2, NamesAssumption
    <3>4. [id |-> opened + 1, commands |-> enabled] \in [id : 0..opened', commands : BOOLEAN]
      BY <3>2, <3>3
    <3>5. live' \in [Rows -> [id : 0..opened', commands : BOOLEAN]]
      BY <3>1, <3>2, <3>3, <3>4
    <3> QED BY <3>1, <3>2, <3>3, <3>5
  <2>2. CASE CloseConnection(r)
    BY <2>2 DEF CloseConnection, NoLive
  <2> QED BY <1>3, <2>1, <2>2
<1> QED BY <1>1, <1>2, <1>3 DEF TenantStep

\* Who may be commanded is connected.
LEMMA Commanded ==
  ASSUME CommandsTyped, NEW member \in Members
  PROVE  Commandable(member) \subseteq 1..opened
BY DEF CommandsTyped, BotCommandsTypeOK, CommandKnown, Commandable

\* Both the command and its tenants keep the types.
LEMMA CommandsTypedStep == CommandsTyped /\ [BotCommandsNext]_botCommandVars => CommandsTyped'
<1> SUFFICES ASSUME CommandsTyped, BotCommandsNext PROVE CommandsTyped'
  BY DEF CommandsTyped, BotCommandsTypeOK, CommandKnown, botCommandVars
<1>1. steady' \in BOOLEAN
  <2>1. (steady /\ UNCHANGED tenantVars) \in BOOLEAN
    BY Zenon
  <2> QED BY <2>1, Zenon DEF BotCommandsNext, Remember
<1>2. entitled' \subseteq 1..opened
  <2>1. command.member \in Members
    BY DEF CommandsTyped, BotCommandsTypeOK
  <2> QED BY <2>1, Commanded DEF BotCommandsNext, Remember, CommandsTyped, BotCommandsTypeOK
<1>3. CASE CommandStep /\ UNCHANGED tenantVars
  <2>1. command' \in CommandType /\ RowHeld(command')
    BY <1>3, CommandMoves
  <2> QED BY <1>1, <1>2, <1>3, <2>1
      DEF CommandsTyped, BotCommandsTypeOK, CommandKnown, CommandType, RowHeld, tenantVars
<1>4. CASE TenantStep /\ UNCHANGED command
  <2>1. opened \in Nat /\ opened' \in Nat /\ opened' >= opened
    BY <1>4, TenantsMove DEF CommandsTyped, BotCommandsTypeOK
  <2>2. entitled' \subseteq 1..opened' /\ 0..opened \subseteq 0..opened'
    BY <1>2, <2>1
  <2>3. command' \in CommandType'
    BY <1>4, <2>2 DEF CommandsTyped, BotCommandsTypeOK, CommandType
  <2> QED BY <1>1, <1>4, <2>2, <2>3, TenantsMove
      DEF CommandsTyped, BotCommandsTypeOK, CommandKnown, CommandType
<1> QED BY <1>3, <1>4 DEF BotCommandsNext

\* Between the two resolutions rows, owners and connections change at will.
LEMMA SureStep ==
  CommandsTyped /\ CommandInv /\ [BotCommandsNext]_botCommandVars => CommandInv'
<1> SUFFICES ASSUME CommandsTyped, CommandInv, BotCommandsNext PROVE CommandInv'
  BY DEF CommandInv, Sure, CommandsReachTheirTelescope, botCommandVars
<1>0. command \in CommandType /\ RowHeld(command) /\ opened \in Nat
  BY DEF CommandsTyped, BotCommandsTypeOK, CommandType, CommandKnown, RowHeld
<1>1. command.at \in {"find", "authorize", "pin"} /\ command'.at # "find" =>
        entitled' = entitled \cup Commandable(command.member)
  BY DEF BotCommandsNext, Remember
<1>2. command.at \notin {"find", "authorize", "pin"} /\ command'.at # "find" => entitled' = entitled
  BY DEF BotCommandsNext, Remember
<1>3. CASE TenantStep /\ UNCHANGED command
  <2>1. Sure'
    <3> SUFFICES ASSUME command.at = "pin", command.pinned # 0,
                        live'[command.row].id = command.pinned, live'[command.row].commands
                 PROVE  command.pinned \in entitled'
      BY <1>3 DEF Sure
    <3>1. command.row \in Rows /\ command.pinned \in 0..opened
      BY <1>0 DEF RowHeld, CommandType
    <3>2. live'[command.row] = live[command.row]
      BY <1>0, <1>3, <3>1, TenantsMove
    <3> QED BY <1>1, <1>3, <3>2 DEF CommandInv, Sure
  <2>2. CommandsReachTheirTelescope'
    BY <1>2, <1>3 DEF CommandInv, CommandsReachTheirTelescope
  <2> QED BY <2>1, <2>2 DEF CommandInv
<1>4. CASE CommandStep /\ UNCHANGED tenantVars
  <2>0. UNCHANGED <<live, policy>>
    BY <1>4 DEF tenantVars
  <2>1. CASE Authorize
    <3>1. /\ command.at = "authorize" /\ Admits(policy[command.row], command.member)
          /\ command' = [command EXCEPT !.at = "pin"]
      BY <2>1 DEF Authorize, Reaches
    <3>2. command'.row = command.row /\ command'.pinned = command.pinned /\ command'.at = "pin"
      BY <1>0, <3>1 DEF CommandType
    <3>3. command.row \in Rows
      BY <1>0, <3>1 DEF RowHeld
    <3>4. live[command.row].commands => live[command.row].id \in Commandable(command.member)
      BY <3>1, <3>3 DEF Commandable
    <3> QED BY <1>1, <2>0, <3>1, <3>2, <3>4 DEF CommandInv, Sure, CommandsReachTheirTelescope
  <2>2. CASE DispatchCommand
    <3>1. /\ command.at = "pin" /\ command.pinned # 0
          /\ live[command.row].id = command.pinned /\ live[command.row].commands
          /\ command' = [command EXCEPT !.at = "sent", !.sent = live[command.row].id]
      BY <2>2 DEF DispatchCommand, Reachable, SameConnection
    <3>2. /\ command'.at = "sent" /\ command'.sent = command.pinned
          /\ command'.pinned = command.pinned
      BY <1>0, <3>1 DEF CommandType
    <3>3. command.pinned \in entitled
      BY <3>1 DEF CommandInv, Sure
    <3> QED BY <1>1, <3>1, <3>2, <3>3 DEF CommandInv, Sure, CommandsReachTheirTelescope
  <2>3. CASE ~Authorize /\ ~DispatchCommand
    <3>1. command'.at \notin {"pin", "sent"}
      <4>1. ASSUME NEW at \in {"find", "prompt", "moved", "refused"}, Reaches(at)
            PROVE  command'.at \notin {"pin", "sent"}
        BY <1>0, <4>1 DEF Reaches, CommandType
      <4>2. ASSUME NEW name \in Names \cup {ByChannel}, NEW member \in Members, NEW commands,
                   Invoke(name, member, commands)
            PROVE  command'.at \notin {"pin", "sent"}
        BY <4>2 DEF Invoke
      <4>3. CASE FindTelescope
        BY <1>0, <4>3 DEF FindTelescope, CommandType
      <4>4. CASE PinConnection
        BY <1>0, <4>4 DEF PinConnection, CommandType
      <4>5. CASE Confirm
        BY <1>0, <4>5 DEF Confirm, CommandType
      <4> QED BY <1>4, <2>3, <4>1, <4>2, <4>3, <4>4, <4>5
          DEF CommandStep, FindNothing, NotAuthorized, NotReachable, Decline, ConnectionChanged
    <3> QED BY <3>1 DEF CommandInv, Sure, CommandsReachTheirTelescope
  <2> QED BY <2>1, <2>2, <2>3
<1> QED BY <1>3, <1>4 DEF BotCommandsNext

\* The types of the rows, the live connections and the command (discord_bot.rs).
THEOREM CommandTypes == BotCommandsSpec => []CommandsTyped
<1>1. BotCommandsInit => CommandsTyped
  <2> SUFFICES ASSUME BotCommandsInit PROVE CommandsTyped
    OBVIOUS
  <2>1. command \in CommandType
    BY DEF BotCommandsInit, NoCommand, CommandType, Members
  <2> QED BY <2>1, NamesAssumption DEF BotCommandsInit, CommandsTyped, BotCommandsTypeOK, CommandKnown, CommandType,
                      NoCommand, NoLive
<1> QED BY <1>1, CommandsTypedStep, PTL DEF BotCommandsSpec

\* For any rows, names, members and connections: a command is sent only to the very
\* connection it pinned, and to one its user could command when it was
\* resolved (the write commands of discord_bot.rs).
THEOREM CommandsReach == BotCommandsSpec => []CommandsReachTheirTelescope
<1>1. BotCommandsInit => CommandInv
  BY DEF BotCommandsInit, CommandInv, Sure, CommandsReachTheirTelescope, NoCommand
<1>2. CommandInv => CommandsReachTheirTelescope
  BY DEF CommandInv
<1> QED BY <1>1, <1>2, CommandTypes, SureStep, PTL DEF BotCommandsSpec

---------------------------------------------------------------------------
(***************************************************************************)
(* Presence. A sweep sees the rig only now and then. OutageInv says what   *)
(* an entry means: the rig was not seen since the outage it counts began,  *)
(* and an announced outage has lasted the grace.                           *)
(***************************************************************************)

\* An entry of the sweep's table.
Entry == [announced : {"nothing", "online", "offline"}, current : BOOLEAN, since : 0..Never]

\* What an entry says of when the rig was last observed: never after the outage
\* it counts began, and an outage that was announced has lasted the grace.
OutageInv ==
  /\ presence = Unseen => seenUp = Never /\ ~told
  /\ presence # Unseen =>
       /\ seenUp \in 0..clock /\ presence.since \in 0..clock
       /\ presence.announced # "nothing"
       /\ ~presence.current => seenUp <= presence.since
       /\ presence.announced = "offline" => ~presence.current /\ clock - presence.since >= Grace
  /\ told => presence.announced = "offline"

\* Types, and why what is announced was an outage.
PresenceInv == PresenceTypeOK /\ OutageInv

USE PresenceAssumption

\* The hub starts with an empty table.
LEMMA InitPresence == PresenceInit => PresenceInv
<1> SUFFICES ASSUME PresenceInit PROVE PresenceInv
  OBVIOUS
<1>1. Unseen \in Entry /\ Never \in 0..Never /\ 0 \in 0..MaxClock
  BY DEF Unseen, Entry, Never
<1>2. PresenceTypeOK
  BY <1>1 DEF PresenceInit, PresenceTypeOK, Entry
<1>3. OutageInv
  BY DEF PresenceInit, OutageInv
<1> QED BY <1>2, <1>3 DEF PresenceInv

\* A pass over a telescope without an entry adopts a connected rig in silence.
LEMMA FirstPass ==
  ASSUME PresenceInv, Pass, presence = Unseen
  PROVE  PresenceInv' /\ news' = "none"
<1>1. Observed = [announced |-> "nothing", current |-> TRUE, since |-> clock]
  BY DEF Pass, Observed, PresenceInv, PresenceTypeOK
<1> DEFINE e == [announced |-> "nothing", current |-> TRUE, since |-> clock]
<1>2. Adopts(e) /\ ~LosesRig(e) /\ ~FindsRig(e)
  BY DEF Adopts, LosesRig, FindsRig
<1>3. presence' = [announced |-> "online", current |-> TRUE, since |-> clock]
  BY <1>1, <1>2 DEF Pass, Announced
<1>4. news' = "none"
  BY <1>1, <1>2 DEF Pass, PresenceNews
<1>5. clock \in 0..MaxClock /\ seenUp' = clock /\ told' = FALSE /\ UNCHANGED <<clock, rigUp, audience>>
  BY DEF Pass, PresenceInv, PresenceTypeOK
<1>6. presence' # Unseen /\ presence'.since = clock /\ presence'.announced = "online" /\ presence'.current
  BY <1>3 DEF Unseen
<1>7. PresenceTypeOK'
  <2>1. clock \in 0..Never /\ presence' \in Entry
    BY <1>3, <1>5 DEF Entry, Never
  <2> QED BY <1>4, <1>5, <2>1 DEF PresenceInv, PresenceTypeOK, Entry
<1>8. OutageInv'
  BY <1>5, <1>6 DEF OutageInv
<1> QED BY <1>4, <1>7, <1>8 DEF PresenceInv

\* Afterwards the entry follows the rig: the outage it counts is the present one.
LEMMA Seen ==
  ASSUME PresenceInv, presence # Unseen
  PROVE  /\ Observed \in Entry /\ Observed.announced = presence.announced
         /\ Observed.current = rigUp
         /\ Observed.since \in 0..clock
         /\ ~rigUp /\ ~presence.current => Observed = presence
         /\ seenUp \in 0..clock /\ (~rigUp => seenUp <= Observed.since)
<1>0. presence \in Entry /\ clock \in 0..MaxClock /\ rigUp \in BOOLEAN
  BY DEF PresenceInv, PresenceTypeOK, Entry
<1>1. CASE presence.current = rigUp
  <2>1. Observed = presence
    BY <1>1 DEF Observed
  <2> QED BY <1>0, <1>1, <2>1 DEF PresenceInv, OutageInv
<1>2. CASE presence.current # rigUp
  <2>1. Observed = [presence EXCEPT !.current = rigUp, !.since = clock]
    BY <1>2 DEF Observed
  <2>2. clock \in 0..Never
    BY <1>0 DEF Never
  <2>3. Observed = [announced |-> presence.announced, current |-> rigUp, since |-> clock]
    BY <1>0, <2>1, Zenon DEF Entry
  <2> QED BY <1>0, <1>2, <2>2, <2>3 DEF Entry, PresenceInv, OutageInv
<1> QED BY <1>1, <1>2

\* A later pass announces only what has lasted the grace.
LEMMA LaterPass ==
  ASSUME PresenceInv, Pass, presence # Unseen
  PROVE  /\ PresenceInv'
         /\ news' # "none" => seenUp # Never /\ clock - seenUp >= Grace
         /\ news' = "offline" => ~told
<1> DEFINE e == Observed
<1>0. /\ e \in Entry /\ e.announced = presence.announced /\ e.current = rigUp /\ e.since \in 0..clock
      /\ ~rigUp /\ ~presence.current => e = presence
      /\ seenUp \in 0..clock /\ (~rigUp => seenUp <= e.since)
  BY Seen
<1>1. /\ clock \in 0..MaxClock /\ rigUp \in BOOLEAN /\ told \in BOOLEAN
      /\ presence \in Entry /\ presence.announced # "nothing"
      /\ presence.announced = "offline" => ~presence.current /\ clock - presence.since >= Grace
      /\ ~presence.current => seenUp <= presence.since
      /\ told => presence.announced = "offline"
  BY DEF PresenceInv, PresenceTypeOK, OutageInv, Entry
<1>2. /\ presence' = Announced(e) /\ news' = PresenceNews(e) /\ UNCHANGED <<clock, rigUp, audience>>
      /\ seenUp' = IF rigUp THEN clock ELSE seenUp
      /\ told' = (~rigUp /\ (told \/ news' = "offline"))
  BY DEF Pass
<1> HIDE DEF e
<1>3. ~Adopts(e)
  BY <1>0, <1>1 DEF Adopts
<1>4. CASE LosesRig(e)
  <2>1. e.announced = "online" /\ ~e.current /\ clock - e.since >= Grace
    BY <1>4 DEF LosesRig, DarkForGrace
  <2>2. presence' = [announced |-> "offline", current |-> FALSE, since |-> e.since]
    BY <1>0, <1>2, <1>4, <2>1 DEF Announced, Entry
  <2>3. news' \in {"none", "offline"}
    <3>1. ~FindsRig(e)
      BY <2>1 DEF FindsRig
    <3> QED BY <1>2, <3>1 DEF PresenceNews
  <2>4. ~rigUp /\ seenUp' = seenUp /\ ~told
    BY <1>0, <1>1, <1>2, <2>1
  <2>5. presence' # Unseen /\ presence'.announced = "offline" /\ ~presence'.current
        /\ presence'.since = e.since
    BY <2>2 DEF Unseen
  <2>6. PresenceTypeOK'
    <3>1. presence' \in Entry /\ seenUp' \in 0..Never
      BY <1>0, <1>1, <2>2, <2>4 DEF Entry, Never
    <3>2. told' \in BOOLEAN
      BY <1>2, Zenon
    <3> QED BY <1>2, <2>3, <3>1, <3>2 DEF PresenceInv, PresenceTypeOK, Entry
  <2>7. OutageInv'
    BY <1>0, <1>1, <1>2, <2>1, <2>4, <2>5 DEF OutageInv
  <2>8. clock - seenUp >= Grace /\ seenUp # Never
    BY <1>0, <1>1, <2>1, <2>4 DEF Never
  <2> QED BY <2>4, <2>6, <2>7, <2>8 DEF PresenceInv
<1>5. CASE FindsRig(e)
  <2>1. e.announced = "offline" /\ rigUp /\ e.current
    BY <1>0, <1>5 DEF FindsRig
  <2>2. presence' = [announced |-> "online", current |-> TRUE, since |-> e.since]
    BY <1>0, <1>2, <1>5, <2>1 DEF Announced, Entry
  <2>3. news' \in {"none", "online"}
    <3>1. ~LosesRig(e)
      BY <2>1 DEF LosesRig
    <3> QED BY <1>2, <1>5, <3>1 DEF PresenceNews
  <2>4. seenUp' = clock /\ told' = FALSE
    BY <1>2, <2>1
  <2>5. presence' # Unseen /\ presence'.announced = "online" /\ presence'.current
        /\ presence'.since = e.since
    BY <2>2 DEF Unseen
  <2>6. PresenceTypeOK'
    <3>1. presence' \in Entry /\ seenUp' \in 0..Never
      BY <1>0, <1>1, <2>2, <2>4 DEF Entry, Never
    <3> QED BY <1>2, <2>3, <2>4, <3>1 DEF PresenceInv, PresenceTypeOK, Entry
  <2>7. OutageInv'
    BY <1>0, <1>1, <1>2, <2>4, <2>5 DEF OutageInv
  <2>8. clock - seenUp >= Grace /\ seenUp # Never
    BY <1>0, <1>1, <2>1 DEF Entry, Never
  <2> QED BY <2>3, <2>6, <2>7, <2>8 DEF PresenceInv
<1>6. CASE ~LosesRig(e) /\ ~FindsRig(e)
  <2>1. presence' = e /\ news' = "none"
    BY <1>2, <1>3, <1>6 DEF Announced, PresenceNews
  <2>2. e # Unseen
    BY <1>0, <1>1 DEF Unseen
  <2>3. told' = (~rigUp /\ told)
    BY <1>2, <2>1, Zenon
  <2>4. seenUp' \in 0..clock /\ (~rigUp => seenUp' <= e.since)
    BY <1>0, <1>1, <1>2
  <2>5. e.announced = "offline" => ~e.current /\ clock - e.since >= Grace
    <3> SUFFICES ASSUME e.announced = "offline" PROVE ~e.current /\ clock - e.since >= Grace
      OBVIOUS
    <3>1. ~rigUp
      BY <1>0, <1>6 DEF FindsRig
    <3> QED BY <1>0, <1>1, <3>1
  <2>6. PresenceTypeOK'
    <3>1. seenUp' \in 0..Never
      BY <1>1, <2>4 DEF Never
    <3>2. told' \in BOOLEAN
      BY <2>3, Zenon
    <3> QED BY <1>0, <1>2, <2>1, <3>1, <3>2 DEF PresenceInv, PresenceTypeOK, Entry
  <2>7. OutageInv'
    BY <1>0, <1>1, <1>2, <2>1, <2>2, <2>3, <2>4, <2>5 DEF OutageInv
  <2> QED BY <2>1, <2>6, <2>7 DEF PresenceInv
<1> QED BY <1>4, <1>5, <1>6

LEMMA PresenceStep == PresenceInv /\ [PresenceNext]_presenceVars => PresenceInv'
<1> SUFFICES ASSUME PresenceInv, [PresenceNext]_presenceVars PROVE PresenceInv'
  OBVIOUS
<1>1. CASE Pass
  BY <1>1, FirstPass, LaterPass
<1>2. CASE Elapse
  <2>1. clock \in 0..MaxClock /\ clock' = clock + 1 /\ clock' \in 0..MaxClock
    BY <1>2 DEF Elapse, PresenceInv, PresenceTypeOK
  <2> QED BY <1>2, <2>1 DEF Elapse, PresenceInv, PresenceTypeOK, OutageInv, Unseen, Never
<1>3. CASE RigComesOrGoes \/ AudienceChanges
  <2>1. /\ rigUp' \in BOOLEAN /\ audience' \in BOOLEAN /\ news' = "none"
        /\ UNCHANGED <<clock, presence, seenUp, told>>
    BY <1>3, Zenon DEF RigComesOrGoes, AudienceChanges, PresenceInv, PresenceTypeOK
  <2>2. PresenceTypeOK'
    BY <2>1 DEF PresenceInv, PresenceTypeOK, Never
  <2>3. OutageInv'
    BY <2>1 DEF PresenceInv, OutageInv, Unseen, Never
  <2> QED BY <2>2, <2>3 DEF PresenceInv
<1>4. CASE HubRestarts
  <2>1. Unseen \in Entry /\ Never \in 0..Never
    BY DEF Unseen, Entry, Never
  <2> QED BY <1>4, <2>1 DEF HubRestarts, PresenceInv, PresenceTypeOK, OutageInv, Entry
<1>5. CASE UNCHANGED presenceVars
  BY <1>5 DEF presenceVars, PresenceInv, PresenceTypeOK, OutageInv, Unseen, Never
<1> QED BY <1>1, <1>2, <1>3, <1>4, <1>5 DEF PresenceNext

\* The types of the sweep's entry and of what happens around it (updaters.rs).
THEOREM PresenceTyped == PresenceSpec => []PresenceTypeOK
<1>1. PresenceInv => PresenceTypeOK
  BY DEF PresenceInv
<1> QED BY <1>1, InitPresence, PresenceStep, PTL DEF PresenceSpec

\* For any grace and however long the hub runs: the channels hear of an outage or of
\* its end only when the rig was not seen for the whole grace, and of one outage at
\* most once (presence_events).
THEOREM AnnouncementsEarned == PresenceSpec => AnnouncementsAreEarned
<1> DEFINE Earned == /\ news' # "none" => seenUp # Never /\ clock - seenUp >= Grace
                     /\ news' = "offline" => ~told
<1>1. PresenceInv /\ [PresenceNext]_presenceVars => [Earned]_presenceVars
  <2> SUFFICES ASSUME PresenceInv, PresenceNext PROVE Earned
    OBVIOUS
  <2>1. CASE Pass
    BY <2>1, FirstPass, LaterPass
  <2>2. CASE ~Pass
    BY <2>2 DEF PresenceNext, Elapse, RigComesOrGoes, AudienceChanges, HubRestarts
  <2> QED BY <2>1, <2>2
<1> QED BY <1>1, InitPresence, PresenceStep, PTL DEF PresenceSpec, AnnouncementsAreEarned

===============================================================================
