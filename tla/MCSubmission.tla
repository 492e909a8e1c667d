---------------------------- MODULE MCSubmission -----------------------------
(* Instance of Submission for TLC: two requests with one key and the same  *)
(* payload, a third that reuses the key for another payload, one without a *)
(* key, and, in the larger instance, one with unknown sources.             *)
EXTENDS Submission

CONSTANTS r1, r2, r3, r4, r5, k1, p1, p2, bad

MCTaskIds == {r1, r2, r3, r4, r5}

MCKeyOf ==
  [r \in MCTaskIds |-> IF r \in {r1, r2, r3} THEN k1 ELSE NoKey]

MCPayloadOf ==
  [r \in MCTaskIds |-> IF r = r3 THEN p2 ELSE IF r = r5 THEN bad ELSE p1]

MCValidPayloads == {p1, p2}
=============================================================================
