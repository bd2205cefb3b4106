-------------------------- MODULE MCUpdaterManager --------------------------
(***************************************************************************)
(* Model-checking instances of UpdaterManager.  Identities are only        *)
(* compared, so each kind of task is symmetric; safety runs only.          *)
(***************************************************************************)
EXTENDS UpdaterManager, TLC

Symmetry ==
  UNION {Permutations(Handlers), Permutations(Conns), Permutations(Sessions),
         Permutations(Channels), Permutations(Updaters)}

===========================================================================
