---------------------------- MODULE MCAtomicFile ----------------------------
(* An instance of AtomicFile for TLC. *)
EXTENDS AtomicFile, TLC

WriterSymmetry == Permutations(Writers)
=============================================================================
