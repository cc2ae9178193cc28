-------------------------- MODULE MCWebhookOutbox --------------------------
(*****************************************************************************)
(* Small instances of WebhookOutbox: e1 and e2 belong to key k1, e3 to k2,   *)
(* e4 carries no key.                                                        *)
(*****************************************************************************)
EXTENDS WebhookOutbox, TLC

CONSTANTS e1, e2, e3, e4, k1, k2, p1, p2

Owners == [e \in Events |-> IF e = e4 THEN NoKey ELSE IF e = e3 THEN k2 ELSE k1]
ShortBackoff == [n \in 1 .. MaxAttempts - 1 |-> n]
LongBackoff == [n \in 1 .. MaxAttempts - 1 |-> 2 * n]
Redeploy == Permutations({p1, p2})
=============================================================================
