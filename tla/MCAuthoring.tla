----------------------------- MODULE MCAuthoring -----------------------------
(* A small instance of Authoring for TLC. *)
EXTENDS Authoring, TLC
=============================================================================
