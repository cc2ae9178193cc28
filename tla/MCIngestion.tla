--------------------------- MODULE MCIngestion -----------------------------
(*****************************************************************************)
(* Small instances of Ingestion.  m1 and m2 are one email forwarded twice    *)
(* (same alias, same Message-ID) or, with NoIds, two emails without one; e1  *)
(* and e2 are two deletion requests for the one user.                        *)
(*****************************************************************************)
EXTENDS Ingestion, TLC

CONSTANTS m1, m2, a1, u1, i1, e1, e2

OneAlias == [m \in Messages |-> a1]
ForwardedTwice == [m \in Messages |-> i1]
NoIds == [m \in Messages |-> NoMessageId]
SameUser == [a \in Aliases |-> u1]
SameUserAgain == [e \in Deletions |-> u1]
Copies == Permutations({m1, m2})
=============================================================================
