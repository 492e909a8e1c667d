-------------------------- MODULE MCSemanticScholar --------------------------
(* Instance of SemanticScholar for TLC: interchangeable searches.          *)
EXTENDS SemanticScholar, TLC

SearchSymmetry == Permutations(Searches)
=============================================================================
