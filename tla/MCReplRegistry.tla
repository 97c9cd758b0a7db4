---------------------------- MODULE MCReplRegistry ----------------------------
(* Instances of ReplRegistry for TLC.  A nail gives out one id at most, so  *)
(* that MaxId excludes nothing.                                             *)
EXTENDS ReplRegistryProperties, FiniteSets, TLC

ASSUME MaxId >= Cardinality(Nails)

Symmetry == Permutations(Nails)
=============================================================================
