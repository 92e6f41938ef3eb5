---------------------------- MODULE MCCoherence ----------------------------
(* Instances of Coherence for TLC.                                         *)
EXTENDS Coherence, TLC

Symmetry == Permutations(Nodes) \cup Permutations(Keys) \cup Permutations(Writers)
===========================================================================
