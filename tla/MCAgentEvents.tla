---------------------------- MODULE MCAgentEvents ----------------------------
(* AgentEvents for TLC: RPC goroutines are interchangeable. *)
EXTENDS AgentEvents, TLC

ClientSymmetry == Permutations(Clients)
==============================================================================
