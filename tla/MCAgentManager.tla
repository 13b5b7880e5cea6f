---- MODULE MCAgentManager ----
(* Model checking of AgentManager: the slots of its calls are interchangeable. *)
EXTENDS AgentManager, TLC

CallSymmetry == Permutations(Calls)

====
