------------------------------ MODULE MCTenancy ------------------------------
(***************************************************************************)
(* Instances of Tenancy: each channel belongs to one of two servers.       *)
(***************************************************************************)
EXTENDS Tenancy, TLC

CONSTANTS g1, g2, f1, f2
MCGuildOf == f1 :> g1 @@ f2 :> g2

===========================================================================
