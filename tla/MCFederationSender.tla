------------------------- MODULE MCFederationSender -------------------------
(* Small instances of FederationSender for TLC. *)
EXTENDS FederationSender
=============================================================================
