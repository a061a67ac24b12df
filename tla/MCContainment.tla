----------------------------- MODULE MCContainment -----------------------------
(* Containment on small instances. *)
EXTENDS Containment, TLC

CONSTANTS r1, r2, r3, c1, g1, g2, g3

TwoRequests == {r1, r2}
ThreeRequests == {r1, r2, r3}
TwoGrants == {g1, g2}
ThreeGrants == {g1, g2, g3}

\* Requests and grant ids are interchangeable.
Symmetry == Permutations({r1, r2, r3}) \cup Permutations({g1, g2, g3})

================================================================================
