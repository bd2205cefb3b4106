--------------------------- MODULE ProfileLease ---------------------------
(***************************************************************************)
(* What the Direct registry promises, with no index and no bookkeeping:    *)
(* every N.I.N.A. profile on a node (a rig) is leased by at most one       *)
(* N.I.N.A. process (a session) over one of its connections.  The process  *)
(* that holds a lease may move it to another connection; nobody else may   *)
(* take it until the connection that carries it is released.               *)
(* RigRegistry implements this specification.                              *)
(***************************************************************************)
CONSTANTS Rigs, Sessions, Conns,
          NoLease          \* nobody holds the rig

VARIABLE holder            \* Rigs -> Lease or NoLease

Lease == [session_id : Sessions, connection_id : Conns]

CarriedBy(r, c) == holder[r] # NoLease /\ holder[r].connection_id = c

Init == holder = [r \in Rigs |-> NoLease]

\* Session s takes, keeps or moves the lease of rig r on connection c; a
\* connection carries one lease at a time, so c gives up any other rig.
Claim(r, s, c) ==
  /\ holder[r] = NoLease \/ holder[r].session_id = s
  /\ holder' = [q \in Rigs |->
                  IF q = r THEN [session_id |-> s, connection_id |-> c]
                  ELSE IF CarriedBy(q, c) THEN NoLease ELSE holder[q]]

\* Connection c is gone: exactly the lease it carries now ends with it.
Release(c) ==
  holder' = [q \in Rigs |-> IF CarriedBy(q, c) THEN NoLease ELSE holder[q]]

Next == \/ \E r \in Rigs, s \in Sessions, c \in Conns : Claim(r, s, c)
        \/ \E c \in Conns : Release(c)

Spec == Init /\ [][Next]_holder

===========================================================================
