------------------------- MODULE MCCategoryFeedback -------------------------
(*****************************************************************************)
(* A small instance of CategoryFeedback: three confirmations of one category *)
(* and two of another one under a second spelling of the merchant, so that   *)
(* both spellings reach the threshold and updates with different counts      *)
(* overlap.                                                                  *)
(*****************************************************************************)
EXTENDS CategoryFeedback, TLC

CONSTANTS r1, r2, r3, r4, r5

Names == [r \in Requests |-> IF r \in {r4, r5} THEN "UBER" ELSE "Uber"]
Choices == [r \in Requests |-> IF r \in {r4, r5} THEN "Travel" ELSE "Transport"]
Upper == [n \in {"UBER", "Uber"} |-> "UBER"]
Same == Permutations({r1, r2, r3}) \cup Permutations({r4, r5})
=============================================================================
