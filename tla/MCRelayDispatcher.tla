-------------------------- MODULE MCRelayDispatcher --------------------------
(* RelayDispatcher for TLC. *)
EXTENDS RelayDispatcher
==============================================================================
