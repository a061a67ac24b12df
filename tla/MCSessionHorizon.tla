---------------------------- MODULE MCSessionHorizon ----------------------------
(* Small instances of SessionHorizon.  Agents, sessions and workers are           *)
(* interchangeable, and every property checked is a safety property.              *)
EXTENDS SessionHorizon, TLC

Interchangeable ==
  Permutations(Agents) \cup Permutations(SessionIds) \cup Permutations(Workers)
================================================================================
