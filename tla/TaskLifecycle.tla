---------------------------- MODULE TaskLifecycle ----------------------------
(***************************************************************************)
(* What Leonardo promises about a task, as a client that polls the API     *)
(* sees it: docs/api.md section 3.2 and docs/implementation_plan.md        *)
(* section 3.1, with the loop from analysis back to search that the graph  *)
(* adds to the listed transitions.                                         *)
(*                                                                         *)
(* "absent" is a task whose request has not been committed.                *)
(***************************************************************************)
CONSTANTS
  TaskIds,
  Revocable  \* whether a completed task may still fail, against docs/api.md:63

VARIABLE phase

RunningPhases == {"planner", "search", "analysis", "report"}

Phases == {"absent", "queued", "completed", "failed"} \union RunningPhases

(* The phases that may follow each phase.                                  *)
Successor ==
  [absent    |-> {"queued"},
   queued    |-> {"planner"},
   planner   |-> {"search", "failed"},
   search    |-> {"analysis", "failed"},
   analysis  |-> {"search", "report", "failed"},
   report    |-> {"completed", "failed"},
   completed |-> IF Revocable THEN {"failed"} ELSE {},
   failed    |-> {}]

LifecycleTypeOK == phase \in [TaskIds -> Phases]

Init == phase \in [TaskIds -> {"absent", "queued"}]

Advance(t) ==
  \E next \in Successor[phase[t]] : phase' = [phase EXCEPT ![t] = next]

Next == \E t \in TaskIds : Advance(t)

Spec == Init /\ [][Next]_phase
=============================================================================
