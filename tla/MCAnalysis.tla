------------------------------ MODULE MCAnalysis ------------------------------
(* Instance of Analysis for TLC.  Two references have the same title, one  *)
(* of them with an empty DOI, and the model may leave the title empty.     *)
EXTENDS Analysis, TLC

CONSTANTS d1, u1, u2

Ref(t, d, u) == [title |-> t, doi |-> d, arxiv |-> NoId, url |-> u]

MCRefs == {Ref("", NoId, u1), Ref("t", "", u1), Ref("t", d1, u2)}

MCRefOf == [p \in Papers |-> IF p = 1 THEN Ref("t", "", u1) ELSE Ref("t", d1, u2)]
===============================================================================
