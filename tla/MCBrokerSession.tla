--------------------------- MODULE MCBrokerSession ---------------------------
(* BrokerSession for TLC. *)
EXTENDS BrokerSession
=============================================================================
