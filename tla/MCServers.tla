------------------------------- MODULE MCServers -------------------------------
(***************************************************************************)
(* The servers for TLC: the updaters that post to their channels           *)
(* (UpdaterManager) and the people who may manage them (SignIn).  The two  *)
(* share no variable: `part` says which one a behaviour is of.             *)
(***************************************************************************)
EXTENDS MCUpdaterManager, SignIn

VARIABLE part

ServersInit ==
  /\ part \in {"updaters", "signin"}
  /\ Init /\ SignInInit /\ (part # "signin" => checker)

ServersNext ==
  \/ part = "updaters" /\ Next /\ UNCHANGED <<part, signInVars>>
  \/ part = "signin" /\ SignInNext /\ UNCHANGED <<part, vars>>

===========================================================================
