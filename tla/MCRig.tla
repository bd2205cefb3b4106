-------------------------------- MODULE MCRig --------------------------------
(***************************************************************************)
(* Model-checking instances of the ways to a rig that share no state: the  *)
(* registry of native connections, the queries on one hub connection, the  *)
(* hub's source over a telescope's connections and the local runtime's     *)
(* pipe with the loop that polls it.  A behaviour runs one of them,        *)
(* `part`; the others stay in their initial state.                         *)
(***************************************************************************)
EXTENDS RigRegistry, RigQuery, DirectSource, ChatLoop

VARIABLE part

rigVars == <<part, registryVars, vars, directSourceVars, chatLoopVars>>

RigInit ==
  /\ part \in {"registry", "query", "source", "pipe"}
  /\ RegistryInit /\ Init /\ DirectSourceInit /\ ChatLoopInit

RigNext ==
  /\ UNCHANGED part
  /\ \/ /\ part = "registry" /\ RegistryNext
        /\ UNCHANGED <<vars, directSourceVars, chatLoopVars>>
     \/ /\ part = "query" /\ Next
        /\ UNCHANGED <<registryVars, directSourceVars, chatLoopVars>>
     \/ /\ part = "source" /\ DirectSourceNext
        /\ UNCHANGED <<registryVars, vars, chatLoopVars>>
     \/ /\ part = "pipe" /\ ChatLoopNext
        /\ UNCHANGED <<registryVars, vars, directSourceVars>>

RigSpec == RigInit /\ [][RigNext]_rigVars /\ Fairness

TypesOK == RegistryTypeOK /\ TypeOK /\ DirectSourceTypeOK /\ ChatLoopTypeOK

===========================================================================
