---------------------------- MODULE MCAgentLifecycle ----------------------------
(* AgentLifecycle on a small instance. *)
EXTENDS AgentLifecycle, TLC

CONSTANTS a1, a2

AgentSet == {a1, a2}

\* Agents are interchangeable.
Symmetry == Permutations(AgentSet)

================================================================================
