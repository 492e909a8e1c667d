------------------------- MODULE ResearchGraphProofs -------------------------
(***************************************************************************)
(* What holds of every run of the workflow, for every set of papers, every *)
(* iteration bound, every findings threshold and every recursion limit.    *)
(*                                                                         *)
(* The inductive invariant ties the node about to run to the number of     *)
(* searches made and of supersteps used; the properties of ResearchGraph   *)
(* are read off it.                                                        *)
(***************************************************************************)
EXTENDS ResearchGraph, FiniteSetTheorems, TLAPS

(* Searches made when control is at each node.                             *)
IterationsAtNode ==
  /\ node = "planner" => iteration = 0
  /\ node = "search"  => iteration < MaxIterations
  /\ node \in {"analysis", "report", "end"} => iteration \in 1..MaxIterations

(* Supersteps used, as long as no error has been raised.                   *)
StepsAtNode ==
  raised = "none" =>
    /\ node = "planner"  => steps = 0
    /\ node = "search"   => steps = 2 * iteration + 1
    /\ node = "analysis" => steps = 2 * iteration
    /\ node = "report"   => steps = 2 * iteration + 1
    /\ node = "end"      => steps = 2 * iteration + 2

IInv ==
  /\ TypeOK
  /\ IterationsAtNode
  /\ StepsAtNode
  /\ ReportJustified
  /\ FindingsAreCurrent
  /\ EndHasReport
  /\ NeverCutOff

(* The number of a set of papers is a natural number.                      *)
LEMMA PaperCount ==
  ASSUME NEW S \in SUBSET Papers
  PROVE  Cardinality(S) \in Nat
  BY PapersAssumption, FS_Subset, FS_CardinalityType

(* The initial state satisfies the inductive invariant.                    *)
LEMMA InitIInv == Init => IInv
<1> SUFFICES ASSUME Init PROVE IInv
  OBVIOUS
<1>1. TypeOK
  BY DEF Init, TypeOK, Nodes
<1>2. IterationsAtNode /\ StepsAtNode
  BY DEF Init, IterationsAtNode, StepsAtNode
<1>3. ReportJustified /\ FindingsAreCurrent /\ EndHasReport /\ NeverCutOff
  BY DEF Init, ReportJustified, FindingsAreCurrent, EndHasReport, NeverCutOff
<1> QED
  BY <1>1, <1>2, <1>3 DEF IInv

(* The planner hands over to the first search.                             *)
LEMMA PlannerKeeps == IInv /\ PlannerNode => IInv'
  BY MaxIterationsAssumption
     DEF PlannerNode, Enter, Leave, NextNode, IInv, TypeOK, Nodes,
         IterationsAtNode, StepsAtNode, ReportJustified, FindingsAreCurrent,
         EndHasReport, NeverCutOff

(* A search uses up one iteration.                                         *)
LEMMA SearchKeeps == IInv /\ SearchNode => IInv'
  BY MaxIterationsAssumption
     DEF SearchNode, Enter, Leave, NextNode, IInv, TypeOK, Nodes,
         IterationsAtNode, StepsAtNode, ReportJustified, FindingsAreCurrent,
         EndHasReport, NeverCutOff

(* Analysis either ends the passes with something to report or with none   *)
(* left, or goes back to a search the bound still allows.                  *)
LEMMA AnalysisKeeps == IInv /\ AnalysisNode => IInv'
<1> SUFFICES ASSUME IInv, AnalysisNode PROVE IInv'
  OBVIOUS
<1> DEFINE next == RouteAfterAnalysis(iteration, Cardinality(papers),
                                      Cardinality(findings'))
<1>1. /\ node = "analysis" /\ raised = "none" /\ raised' = "none"
      /\ findings' \in SUBSET papers
      /\ papers' = papers /\ iteration' = iteration
      /\ subtasks' = subtasks /\ report' = report
      /\ steps' = steps + 1 /\ limit' = limit
      /\ node' = next
  BY DEF AnalysisNode, Enter, Leave, NextNode
<1>2. /\ papers \in SUBSET Papers /\ findings' \in SUBSET Papers
      /\ iteration \in 1..MaxIterations /\ steps = 2 * iteration
      /\ report = FALSE /\ subtasks \in BOOLEAN
  BY <1>1 DEF IInv, TypeOK, IterationsAtNode, StepsAtNode, EndHasReport
<1>3. /\ Cardinality(papers) \in Nat
      /\ Cardinality(findings') \in Nat
      /\ papers = {} => Cardinality(papers) = 0
  BY <1>2, PaperCount, FS_EmptySet
<1>4. CASE next = "search"
  <2>1. iteration < MaxIterations
    BY <1>4 DEF RouteAfterAnalysis
  <2> QED
    BY <1>1, <1>2, <1>4, <2>1, MaxIterationsAssumption
       DEF IInv, TypeOK, Nodes, IterationsAtNode, StepsAtNode, ReportJustified,
           FindingsAreCurrent, EndHasReport, NeverCutOff
<1>5. CASE next = "report"
  <2>1. \/ iteration = MaxIterations
        \/ papers # {} /\ Cardinality(findings') >= MinFindings
    BY <1>2, <1>3, <1>5, FS_EmptySet, MaxIterationsAssumption,
       MinFindingsAssumption DEF RouteAfterAnalysis
  <2> QED
    BY <1>1, <1>2, <1>5, <2>1, MaxIterationsAssumption
       DEF IInv, TypeOK, Nodes, IterationsAtNode, StepsAtNode, ReportJustified,
           FindingsAreCurrent, EndHasReport, NeverCutOff
<1> QED
  BY <1>4, <1>5 DEF RouteAfterAnalysis

(* The report node ends the run with a report.                             *)
LEMMA ReportKeeps == IInv /\ ReportNode => IInv'
  BY MaxIterationsAssumption
     DEF ReportNode, Enter, Leave, NextNode, IInv, TypeOK, Nodes,
         IterationsAtNode, StepsAtNode, ReportJustified, FindingsAreCurrent,
         EndHasReport, NeverCutOff

(* An error leaves the state of the run as it was.                         *)
LEMMA RaiseKeeps ==
  ASSUME NEW n \in {"planner", "search", "report"}
  PROVE  IInv /\ NodeRaises(n) => IInv'
  BY DEF NodeRaises, Enter, IInv, TypeOK, Nodes, IterationsAtNode,
         StepsAtNode, ReportJustified, FindingsAreCurrent, EndHasReport,
         NeverCutOff

(* The recursion limit can only be met, and be it after the last node,     *)
(* when it is below what the iteration bound needs.                        *)
LEMMA RecursionKeeps == IInv /\ RecursionError => IInv'
<1> SUFFICES ASSUME IInv, RecursionError PROVE IInv'
  OBVIOUS
<1>1. /\ UNCHANGED <<node, subtasks, papers, findings, iteration, report, steps, limit>>
      /\ raised = "none" /\ raised' = "recursion" /\ steps >= limit
  BY DEF RecursionError
<1>2. steps <= 2 * MaxIterations + 2
  BY <1>1, MaxIterationsAssumption
     DEF IInv, TypeOK, Nodes, IterationsAtNode, StepsAtNode
<1>3. ~(limit >= 2 * MaxIterations + 3)
  BY <1>1, <1>2, RecursionLimitsAssumption, MaxIterationsAssumption
     DEF IInv, TypeOK
<1> QED
  BY <1>1, <1>3
     DEF IInv, TypeOK, Nodes, IterationsAtNode, StepsAtNode, ReportJustified,
         FindingsAreCurrent, EndHasReport, NeverCutOff

(* Every state of every run satisfies the inductive invariant.             *)
THEOREM Invariant == Spec => []IInv
<1>1. IInv /\ [Next]_vars => IInv'
  <2> SUFFICES ASSUME IInv, [Next]_vars PROVE IInv'
    OBVIOUS
  <2>1. CASE UNCHANGED vars
    BY <2>1 DEF vars, IInv, TypeOK, IterationsAtNode, StepsAtNode,
                ReportJustified, FindingsAreCurrent, EndHasReport, NeverCutOff
  <2> QED
    BY <2>1, PlannerKeeps, SearchKeeps, AnalysisKeeps, ReportKeeps, RaiseKeeps,
       RecursionKeeps DEF Next
<1> QED
  BY InitIInv, <1>1, PTL DEF Spec

(* Every state of every run is well typed.                                 *)
THEOREM TypeCorrect == Spec => []TypeOK
  BY Invariant, PTL DEF IInv

(* No run searches more often than the task allows.                        *)
THEOREM SearchesAreBounded == Spec => []IterationBound
<1>1. IInv => IterationBound
  BY MaxIterationsAssumption
     DEF IInv, TypeOK, Nodes, IterationsAtNode, IterationBound
<1> QED
  BY Invariant, <1>1, PTL

(* Every report rests on enough findings or on the last allowed pass.      *)
THEOREM ReportsAreJustified == Spec => []ReportJustified
  BY Invariant, PTL DEF IInv

(* What a report cites belongs to the papers of the last search.           *)
THEOREM ReportsCiteCurrentPapers == Spec => []FindingsAreCurrent
  BY Invariant, PTL DEF IInv

(* A run has its report exactly when it has reached the end of the graph.  *)
THEOREM FinishedRunsHaveReports == Spec => []EndHasReport
  BY Invariant, PTL DEF IInv

(* A recursion limit of two supersteps for each iteration and three more   *)
(* is never met, before any node or after the last.                        *)
THEOREM RecursionLimitSuffices == Spec => []NeverCutOff
  BY Invariant, PTL DEF IInv
=============================================================================
