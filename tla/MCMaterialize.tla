---------------------------- MODULE MCMaterialize ----------------------------
(***************************************************************************)
(* Three artifacts, pinned to one content; a file or an object is that     *)
(* content, another one, or missing.                                       *)
(***************************************************************************)
EXTENDS Materialize

PinnedToNew == [a \in Artifacts |-> "new"]
=============================================================================
