--------------------------- MODULE MCSnapshotLock ---------------------------
(* Instances of SnapshotLock for TLC: runs are interchangeable, and so are    *)
(* the commits that have a version.                                           *)
EXTENDS SnapshotLock, TLC

RunSymmetry == Permutations(Runs) \cup Permutations(Versioned)
=============================================================================
