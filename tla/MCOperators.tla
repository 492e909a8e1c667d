----------------------------- MODULE MCOperators -----------------------------
(* Instance of Operators for TLC: PATCHes of one or two columns.           *)
EXTENDS Operators, TLC

MCPatches ==
  [status : Statuses] \union [stage : Stages] \union [error : BOOLEAN]
    \union [status : Statuses, stage : Stages]
=============================================================================
