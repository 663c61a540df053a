---------------------------- MODULE MCAgentKeys ----------------------------
(* Instances of AgentKeys for TLC: symmetry of the keys and processes that   *)
(* the specification does not tell apart.                                    *)
EXTENDS AgentKeys, TLC

\* The keys that are never a legacy key are interchangeable.
KeySymmetry == Permutations(Keys \ LegacyKeys) \cup Permutations(Procs)
=============================================================================
