------------------------- MODULE MCExtractionReview -------------------------
(*****************************************************************************)
(* Small instances of ExtractionReview.                                      *)
(*****************************************************************************)
EXTENDS ExtractionReview, TLC

CONSTANTS x1, x2, r1, r2, r3, a1, a2, f1

TwoAliases == [x \in Extractions |-> IF x = x1 THEN a1 ELSE a2]
Calls == Permutations({r1, r2, r3})
=============================================================================
