-------------------------------- MODULE MCHub --------------------------------
(***************************************************************************)
(* The hub's telescopes for TLC: who is trusted as a telescope's rig       *)
(* (DirectHub), who sees and hears it (Tenancy), what its channels hear of *)
(* its connection (Presence) and which of them a command reaches           *)
(* (BotCommands).  They share no variable, so one run checks them side by  *)
(* side: `part` says which one a behaviour is of, and the others stay in   *)
(* an initial state.  Tasks of one kind run the same code and are only     *)
(* compared: DirectHub's are symmetric.                                    *)
(***************************************************************************)
EXTENDS DirectHub, MCTenancy, Presence, BotCommands

VARIABLE part

\* Two owners brought telescopes of one name to the server.
CONSTANTS b1, b2, A
MCNameOf == b1 :> A @@ b2 :> A
MCOwnerOf == b1 :> 1 @@ b2 :> 2

Symmetry ==
  Permutations(Sockets \ Earlier) \cup Permutations(Owners) \cup Permutations(Tokens \ Outstanding)

HubInit ==
  /\ part \in {"trust", "tenancy", "presence", "commands"}
  /\ Init /\ TenancyInit /\ PresenceInit /\ BotCommandsInit

HubNext ==
  /\ UNCHANGED part
  /\ \/ /\ part = "trust" /\ Next
        /\ UNCHANGED <<tenancyVars, presenceVars, botCommandVars>>
     \/ /\ part = "tenancy" /\ TenancyNext
        /\ UNCHANGED <<vars, presenceVars, botCommandVars>>
     \/ /\ part = "presence" /\ PresenceNext
        /\ UNCHANGED <<vars, tenancyVars, botCommandVars>>
     \/ /\ part = "commands" /\ BotCommandsNext
        /\ UNCHANGED <<vars, tenancyVars, presenceVars>>

TypesOK == TypeOK /\ TenancyTypeOK /\ PresenceTypeOK /\ BotCommandsTypeOK

===========================================================================
