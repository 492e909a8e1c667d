---------------------------- MODULE ResearchGraph ----------------------------
(***************************************************************************)
(* One run of the compiled workflow over one ResearchState: planner, then  *)
(* search and analysis as often as the routing asks for, then report.      *)
(* Source: src/src/graph/, and the run methods of src/src/agents/.         *)
(*                                                                         *)
(* A paper is an identity; a finding is the identity of the paper it was   *)
(* extracted from (AnalysisAgent makes at most one finding for each paper).*)
(* The LLM and the literature sources are nondeterministic: a search       *)
(* returns any set of papers, the empty one included (every source failed, *)
(* or the planner's subtasks were all blank), and analysis keeps any       *)
(* subset (failed calls and relevance below the cutoff are dropped).       *)
(***************************************************************************)
EXTENDS Routing, FiniteSets

CONSTANTS
  Papers,          \* identities of the papers the sources can return
  RecursionLimits  \* supersteps a deployment of LangGraph may grant one run

ASSUME PapersAssumption == IsFiniteSet(Papers)
ASSUME RecursionLimitsAssumption == RecursionLimits \subseteq Nat

VARIABLES
  node,       \* the node to run next, "end" when the graph has finished
  subtasks,   \* whether the planner has written state["subtasks"]
  papers,     \* state["papers"]
  findings,   \* state["findings"]
  iteration,  \* state["search_iteration"]
  report,     \* whether state["report"] is set
  steps,      \* supersteps used
  limit,      \* supersteps granted
  raised      \* the error that ended the run: "none", "node" or "recursion"

vars == <<node, subtasks, papers, findings, iteration, report, steps, limit, raised>>

TypeOK ==
  /\ node \in Nodes \union {"end"}
  /\ subtasks \in BOOLEAN
  /\ papers \in SUBSET Papers
  /\ findings \in SUBSET Papers
  /\ iteration \in Nat
  /\ report \in BOOLEAN
  /\ steps \in Nat
  /\ limit \in RecursionLimits
  /\ raised \in {"none", "node", "recursion"}

(* The initial state that _execute_research_task hands to astream, and the *)
(* limit of the deployment.                                                *)
Init ==
  /\ node = "planner"
  /\ subtasks = FALSE
  /\ papers = {}
  /\ findings = {}
  /\ iteration = 0
  /\ report = FALSE
  /\ steps = 0
  /\ limit \in RecursionLimits
  /\ raised = "none"

(* astream has not ended: LangGraph looks at the supersteps used before it *)
(* sees that no node is left.                                              *)
Active == raised = "none" /\ (node # "end" \/ steps >= limit)

(* The superstep that runs node n, when LangGraph still grants one.        *)
Enter(n) ==
  /\ raised = "none"
  /\ node = n
  /\ steps < limit
  /\ steps' = steps + 1
  /\ limit' = limit

(* Follow the edge that leaves n, routed on the state n has just updated.  *)
Leave(n) ==
  /\ node' = NextNode(n, iteration', Cardinality(papers'), Cardinality(findings'))
  /\ raised' = raised

PlannerNode ==
  /\ Enter("planner")
  /\ subtasks' = TRUE
  /\ UNCHANGED <<papers, findings, iteration, report>>
  /\ Leave("planner")

(* Mutant of SearchNode: only a search that returned papers is counted.    *)
SearchNodeCountingHits ==
  /\ Enter("search")
  /\ papers' \in SUBSET Papers
  /\ iteration' = IF papers' = {} THEN iteration ELSE iteration + 1
  /\ UNCHANGED <<subtasks, findings, report>>
  /\ Leave("search")

(* SearchAgent.run replaces the papers of the previous pass.               *)
SearchNode ==
  /\ Enter("search")
  /\ papers' \in SUBSET Papers
  /\ iteration' = iteration + 1
  /\ UNCHANGED <<subtasks, findings, report>>
  /\ Leave("search")

(* Mutant of AnalysisNode: findings of earlier passes are kept.            *)
AnalysisNodeAppending ==
  /\ Enter("analysis")
  /\ \E new \in SUBSET papers : findings' = findings \union new
  /\ UNCHANGED <<subtasks, papers, iteration, report>>
  /\ Leave("analysis")

(* AnalysisAgent.run replaces the findings; it gathers its LLM calls with  *)
(* return_exceptions, so it never raises.                                  *)
AnalysisNode ==
  /\ Enter("analysis")
  /\ findings' \in SUBSET papers
  /\ UNCHANGED <<subtasks, papers, iteration, report>>
  /\ Leave("analysis")

ReportNode ==
  /\ Enter("report")
  /\ report' = TRUE
  /\ UNCHANGED <<subtasks, papers, findings, iteration>>
  /\ Leave("report")

(* LLMError from planner or report; a paper SearchAgent cannot persist.    *)
NodeRaises(n) ==
  /\ Enter(n)
  /\ raised' = "node"
  /\ UNCHANGED <<node, subtasks, papers, findings, iteration, report>>

(* GraphRecursionError: every superstep is used up, and be it by the last  *)
(* node of the run.                                                        *)
RecursionError ==
  /\ raised = "none"
  /\ steps >= limit
  /\ raised' = "recursion"
  /\ UNCHANGED <<node, subtasks, papers, findings, iteration, report, steps, limit>>

Next ==
  \/ PlannerNode
  \/ SearchNode
  \/ AnalysisNode
  \/ ReportNode
  \/ \E n \in {"planner", "search", "report"} : NodeRaises(n)
  \/ RecursionError

(* The event loop of the worker drives the graph until astream ends.       *)
Spec == Init /\ [][Next]_vars /\ WF_vars(Next)
----------------------------------------------------------------------------
(* At most max_search_iterations searches are made, whatever the sources   *)
(* and the LLM answer (edges.py:20, search.py:81).                         *)
IterationBound == iteration <= MaxIterations

(* The report is written only when a pass was good enough or no pass is    *)
(* left: on the way to it, either every iteration is used or the current   *)
(* papers gave at least MinFindings findings (edges.py:20-26).             *)
ReportJustified ==
  node \in {"report", "end"} =>
    \/ iteration = MaxIterations
    \/ papers # {} /\ Cardinality(findings) >= MinFindings

(* What the report is written from was found by the search it belongs to:  *)
(* from the routing decision on, findings were extracted from papers of    *)
(* the current pass and never from those of a pass that has been replaced  *)
(* (search.py:80, analysis.py:31).  The reference a finding shows may be   *)
(* another, as the LLM may name a source of its own (analysis.py:59).      *)
FindingsAreCurrent ==
  node \in {"report", "end"} => findings \subseteq papers

(* The run ends in a defined way: a finished graph has a report, and the   *)
(* only other end is an error raised by a node (builder.py:19-30).         *)
EndHasReport == (node = "end") <=> report

(* With a superstep for every node the iteration bound allows and one to   *)
(* spare, LangGraph's recursion limit never cuts the run off.              *)
NeverCutOff ==
  limit >= 2 * MaxIterations + 3 => raised # "recursion"

(* Every run ends, and with enough supersteps it ends of its own: with a  *)
(* report or with the error of an agent, whatever passes find              *)
(* (edges.py:20-26).                                                       *)
Termination ==
  <>(IF limit >= 2 * MaxIterations + 3
     THEN node = "end" \/ raised = "node"
     ELSE ~Active)
=============================================================================
