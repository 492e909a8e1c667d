----------------------------- MODULE MCLeonardo ------------------------------
(* Instance of Leonardo for TLC: two requests with one key; a third one,   *)
(* for larger instances, has none.                                         *)
EXTENDS Leonardo

CONSTANTS r1, r2, r3, k1, p1

MCKeyOf == [r \in {r1, r2, r3} |-> IF r = r3 THEN NoKey ELSE k1]

MCPayloadOf == [r \in {r1, r2, r3} |-> p1]

MCValidPayloads == {p1}
=============================================================================
