------------------------------ MODULE MCOverlay ------------------------------
(* Instances of OverlayedChanges for model checking. *)
EXTENDS OverlayedChanges
=============================================================================
