--------------------------- MODULE MCPresenceHub ---------------------------
(* Instance of PresenceHub for TLC. *)
EXTENDS PresenceHub
=============================================================================
