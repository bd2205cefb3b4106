----------------------------- MODULE MCImagePosts -----------------------------
(***************************************************************************)
(* Instances of ImagePosts: an owner with or without charts, and a rig     *)
(* that takes shared LIGHT frames without a start time and withheld frames *)
(* with one.                                                               *)
(***************************************************************************)
EXTENDS ImagePosts, TLC

MCOptions == {[every |-> 0, onEnd |-> FALSE], [every |-> 1, onEnd |-> TRUE]}
MCFrames == {[on |-> TRUE, light |-> TRUE, begun |-> FALSE],
             [on |-> FALSE, light |-> TRUE, begun |-> TRUE]}

===========================================================================
