---------------------------- MODULE MCAgentManager ----------------------------
(* AgentManager for TLC: RPC goroutines are interchangeable. *)
EXTENDS AgentManager, TLC

ClientSymmetry == Permutations(Clients)
===============================================================================
