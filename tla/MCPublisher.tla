----------------------------- MODULE MCPublisher -----------------------------
(* Instances of Publisher for TLC: two authored branches and three replies *)
(* that share one correlation key; r1 and r1again stage the same content.  *)
EXTENDS Publisher, TLC

CONSTANTS b1, b2, r1, r2, k, p1, p2, c0, c1, c2, m1, a1, a2, a3

ProfileDef == [b \in Bundles |-> IF b \in {b1, b2} THEN "branch-pr" ELSE "reply"]
KeyDef     == [b \in Bundles |-> k]
PayloadDef == [b \in Bundles |-> IF b \in {b1, r1} THEN p1 ELSE p2]
SourceDef  == [b \in Bundles |-> IF b = b1 THEN c1 ELSE c2]
BaseDef    == [b \in Bundles |-> c0]
Symmetry   == Permutations(Activations)
=============================================================================
