-------------------------- MODULE MCLifecycleStore --------------------------
(* Processes that register, move and contain one agent and take one        *)
(* approval.                                                               *)
EXTENDS LifecycleStore, TLC

CONSTANTS p1, p2

Perms == Permutations({p1, p2})
=============================================================================
