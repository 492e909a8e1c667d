------------------------------- MODULE Routing -------------------------------
(***************************************************************************)
(* The edges of the LangGraph workflow: src/src/graph/builder.py and       *)
(* src/src/graph/edges.py.  "end" is LangGraph's END.                      *)
(***************************************************************************)
EXTENDS Naturals

CONSTANTS
  MaxIterations,  \* tasks.max_iterations, copied into the state of the run
  MinFindings     \* MIN_FINDINGS_THRESHOLD

(* ResearchTaskCreate.max_iterations is declared with ge=1.                *)
ASSUME MaxIterationsAssumption == MaxIterations \in Nat \ {0}
ASSUME MinFindingsAssumption == MinFindings \in Nat

Nodes == {"planner", "search", "analysis", "report"}

(* Mutants of the routing: the bound is checked one pass late; thin        *)
(* findings are overlooked; the router returns a name that is no node.     *)
RouteOnePassMore(iteration, papers, findings) ==
  IF iteration <= MaxIterations /\ (papers = 0 \/ findings < MinFindings)
  THEN "search"
  ELSE "report"

RouteOnPapersOnly(iteration, papers, findings) ==
  IF iteration < MaxIterations /\ papers = 0 THEN "search" ELSE "report"

RouteMisspelt(iteration, papers, findings) ==
  IF iteration < MaxIterations /\ (papers = 0 \/ findings < MinFindings)
  THEN "search"
  ELSE "reporting"

(* route_after_analysis: a pass with too little to report is followed by   *)
(* another search until max_search_iterations is used up.                  *)
RouteAfterAnalysis(iteration, papers, findings) ==
  IF iteration < MaxIterations /\ (papers = 0 \/ findings < MinFindings)
  THEN "search"
  ELSE "report"

(* The compiled graph of build_graph: one outgoing edge for each node.     *)
NextNode(node, iteration, papers, findings) ==
  CASE node = "planner"  -> "search"
    [] node = "search"   -> "analysis"
    [] node = "analysis" -> RouteAfterAnalysis(iteration, papers, findings)
    [] node = "report"   -> "end"
=============================================================================
