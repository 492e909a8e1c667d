--------------------------- MODULE MCResearchGraph ---------------------------
(* Instance of ResearchGraph for TLC.                                      *)
EXTENDS ResearchGraph
=============================================================================
