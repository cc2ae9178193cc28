--------------------------- MODULE MCPrivacyPurge ---------------------------
(*****************************************************************************)
(* Small instances of PrivacyPurge.                                          *)
(*****************************************************************************)
EXTENDS PrivacyPurge, TLC

CONSTANTS e1, e2, e3, u1, l1, l2

OneUser == [e \in Emails |-> u1]
=============================================================================
