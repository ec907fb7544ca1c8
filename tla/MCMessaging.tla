---------------------------- MODULE MCMessaging ----------------------------
(* Messaging on small instances; each cfg gives the constants. *)
EXTENDS Messaging
=============================================================================
