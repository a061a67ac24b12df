------------------------- MODULE MCRiskProjection -------------------------
(* Two request threads, three findings of two sessions.                    *)
EXTENDS RiskProjection, TLC
CONSTANTS f1, f2, f3
MCIds == {f1, f2, f3}
MCSeverityOf == [x \in Ids |-> IF x = f1 THEN "CRITICAL" ELSE IF x = f2 THEN "HIGH" ELSE "LOW"]
MCSessionOf == [x \in Ids |-> IF x = f1 THEN "s1" ELSE "s2"]
=============================================================================
