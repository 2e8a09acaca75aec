---------------------------- MODULE MCFederation ----------------------------
(* Small instances of Federation for TLC. *)
EXTENDS Federation
=============================================================================
