---------------------------- MODULE MCDirectHub ----------------------------
(***************************************************************************)
(* Model-checking instances of DirectHub.  Tasks of one kind run the same  *)
(* code and the identities are only compared, so they are symmetric; the   *)
(* symmetry is used for safety runs only.                                  *)
(***************************************************************************)
EXTENDS DirectHub, TLC

Symmetry == Permutations(Sockets \ Earlier) \cup Permutations(Owners) \cup Permutations(Tokens \ Outstanding)

===========================================================================
