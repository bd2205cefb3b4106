---------------------------- MODULE RigRegistry ----------------------------
(***************************************************************************)
(* DirectRigRegistry: the table of native N.I.N.A. connections, kept as    *)
(* two maps that have to agree: by_rig (who is active on a profile) and    *)
(* by_connection (which profile a connection serves).  register_with_mode  *)
(* and disconnect take &mut self, so each call is one step.  Transport     *)
(* handlers call them in any order: a reconnect may be registered before   *)
(* the handler of the old connection notices its disconnect, and one       *)
(* connection may register again when its process changes profile.         *)
(* The transport mode and the descriptive hello fields change no decision  *)
(* and are left out.                                                       *)
(***************************************************************************)
CONSTANTS Rigs,       \* (node, profile) identities
          Sessions,   \* N.I.N.A. process sessions, as claimed in the hello
          Conns,      \* hub-issued connection identities
          NoRig, NoConn, NoLease

ASSUME RegistryConstants ==
  /\ NoRig \notin Rigs
  /\ NoConn \notin Conns
  /\ NoLease \notin [session_id : Sessions, connection_id : Conns]

VARIABLES by_rig,         \* Rigs -> RegisteredRig or NoLease
          by_connection,  \* Conns -> rig or NoRig
          result          \* what the last call returned

registryVars == <<by_rig, by_connection, result>>

RegisteredRig == [session_id : Sessions, connection_id : Conns]

Outcomes == {"none", "registered", "invalid_hello", "profile_active",
             "removed", "nothing"}

Result(outcome, previous_connection, previous_rig) ==
  [outcome |-> outcome, previous_connection |-> previous_connection,
   previous_rig |-> previous_rig]

RegistryTypeOK ==
  /\ by_rig \in [Rigs -> RegisteredRig \cup {NoLease}]
  /\ by_connection \in [Conns -> Rigs \cup {NoRig}]
  /\ result \in [outcome : Outcomes,
                previous_connection : Conns \cup {NoConn},
                previous_rig : Rigs \cup {NoRig}]

RegistryInit ==
  /\ by_rig = [r \in Rigs |-> NoLease]
  /\ by_connection = [c \in Conns |-> NoRig]
  /\ result = Result("none", NoConn, NoRig)

\* validate() refused the hello, or another process is active on the profile.
RejectInvalid ==
  /\ result' = Result("invalid_hello", NoConn, NoRig)
  /\ UNCHANGED <<by_rig, by_connection>>

ActiveElsewhere(r, s) == by_rig[r] # NoLease /\ by_rig[r].session_id # s

RejectActive(r, s) ==
  /\ ActiveElsewhere(r, s)
  /\ result' = Result("profile_active", NoConn, NoRig)
  /\ UNCHANGED <<by_rig, by_connection>>

\* The connection a reconnect of the same session replaces, if any.
PreviousConnection(r, c) ==
  IF by_rig[r] # NoLease /\ by_rig[r].connection_id # c
  THEN by_rig[r].connection_id ELSE NoConn

\* The other rig this connection served until now, if any.
PreviousRig(r, c) == IF by_connection[c] # r THEN by_connection[c] ELSE NoRig

\* Mutant: a profile switch leaves the connection's former rig registered.
RegisteredKeepsRig(r, s, c) ==
  /\ by_rig' = [by_rig EXCEPT ![r] = [session_id |-> s, connection_id |-> c]]
  /\ by_connection' = [d \in Conns |->
                         IF d = c THEN r
                         ELSE IF d = PreviousConnection(r, c) THEN NoRig
                         ELSE by_connection[d]]
  /\ result' = Result("registered", PreviousConnection(r, c), PreviousRig(r, c))

Registered(r, s, c) ==
  /\ by_rig' = [q \in Rigs |->
                  IF q = r THEN [session_id |-> s, connection_id |-> c]
                  ELSE IF q = PreviousRig(r, c) THEN NoLease ELSE by_rig[q]]
  /\ by_connection' = [d \in Conns |->
                         IF d = c THEN r
                         ELSE IF d = PreviousConnection(r, c) THEN NoRig
                         ELSE by_connection[d]]
  /\ result' = Result("registered", PreviousConnection(r, c), PreviousRig(r, c))

RegisterRig(r, s, c) == ~ActiveElsewhere(r, s) /\ Registered(r, s, c)

\* by_connection.remove(c), then by_rig is cleared only when c still owns it.
OwnedBy(r, c) == by_rig[r] # NoLease /\ by_rig[r].connection_id = c

Disconnect(c) ==
  LET r == by_connection[c] IN
  /\ by_connection' = [by_connection EXCEPT ![c] = NoRig]
  /\ by_rig' = [q \in Rigs |-> IF q = r /\ OwnedBy(q, c) THEN NoLease ELSE by_rig[q]]
  /\ result' = IF r # NoRig /\ OwnedBy(r, c) THEN Result("removed", NoConn, r)
              ELSE Result("nothing", NoConn, NoRig)

RegistryNext ==
  \/ RejectInvalid
  \/ \E r \in Rigs, s \in Sessions : RejectActive(r, s)
  \/ \E r \in Rigs, s \in Sessions, c \in Conns : RegisterRig(r, s, c)
  \/ \E c \in Conns : Disconnect(c)

RegistrySpec == RegistryInit /\ [][RegistryNext]_registryVars

---------------------------------------------------------------------------
\* The two maps of DirectRigRegistry are inverse to each other after any
\* sequence of registrations, profile switches, reconnects and late
\* disconnects: a connection serves a rig exactly when that rig names it.
IndexesAgree ==
  \A r \in Rigs, c \in Conns :
    (by_connection[c] = r) <=> (by_rig[r] # NoLease /\ by_rig[r].connection_id = c)

\* A profile in use never passes from one N.I.N.A. process straight to
\* another: register answers ProfileAlreadyActive until the holder is gone.
NoTakeover ==
  [][\A r \in Rigs : by_rig[r] # NoLease /\ by_rig'[r] # NoLease
       => by_rig'[r].session_id = by_rig[r].session_id]_registryVars

\* A connection loses the rig it serves only by its own disconnect, by its
\* own switch to another profile, or because the Registration returned to
\* the caller names it as the replaced connection: none is dropped silently.
DisplacementReported ==
  [][\A c \in Conns : by_connection[c] # NoRig /\ by_connection'[c] = NoRig
       => \/ result'.outcome = "registered" /\ result'.previous_connection = c
          \/ result'.outcome = "removed" /\ result'.previous_rig = by_connection[c]]_registryVars

\* Every behaviour of the registry is one of the abstract lease table, read
\* off by_rig alone: a late disconnect of a replaced connection ends nothing.
Leases == INSTANCE ProfileLease WITH holder <- by_rig
LeaseSpec == Leases!Spec

===========================================================================
