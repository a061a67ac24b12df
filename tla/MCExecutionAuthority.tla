-------------------------- MODULE MCExecutionAuthority --------------------------
(* ExecutionAuthority on a small instance. *)
EXTENDS ExecutionAuthority, TLC

CONSTANTS a1, a2, b1, b2, g1, g2

AgentSet == {a1, a2}
BindingSet == {b1, b2}
GrantIdSet == {g1, g2}

\* Agents, bindings and grant ids are interchangeable.
Symmetry == Permutations(AgentSet) \cup Permutations(BindingSet) \cup Permutations(GrantIdSet)

================================================================================
