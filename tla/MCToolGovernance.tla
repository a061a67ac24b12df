-------------------------- MODULE MCToolGovernance --------------------------
(* Two versions of unlike risk, two profiles with a workspace each, two    *)
(* directory entries of which one is protected.                            *)
EXTENDS ToolGovernance

CONSTANTS r1, v1, v2, i1, p1, p2, w1, w2, notes, secrets

MCRiskOf == [v \in {v1, v2} |-> IF v = v1 THEN 0 ELSE 3]

MCRootOf == [p \in {p1, p2} |-> IF p = p1 THEN w1 ELSE w2]
=============================================================================
