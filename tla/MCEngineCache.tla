--------------------------- MODULE MCEngineCache ---------------------------
(* Instances of EngineCache for TLC: model values for digests and modes, and *)
(* which build each process is of.                                           *)
EXTENDS EngineCache, TLC

CONSTANTS p1, p2, p3, d1, d2

SameBuild == [p \in Writers |-> d1]
TwoBuilds == [p \in Writers |-> IF p = p2 THEN d2 ELSE d1]

\* Processes of the same build are interchangeable.
BuildSymmetry == Permutations({p1, p3})
=============================================================================
