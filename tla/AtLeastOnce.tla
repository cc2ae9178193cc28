---------------------------- MODULE AtLeastOnce ----------------------------
(*****************************************************************************)
(* What the outbox promises about an event, without its pollers: one post at *)
(* a time, which is counted or cut off by a restart; an event is delivered   *)
(* by a counted post that its receiver accepted, given up when its attempts  *)
(* are used up, and never touched again.  WebhookOutbox implements this      *)
(* module.                                                                   *)
(*****************************************************************************)
EXTENDS Naturals

CONSTANTS Events, MaxAttempts

VARIABLES
  status,     \* none, pending, delivered or failed
  attempts,   \* counted posts
  open,       \* events with a post that is not counted yet
  sent,       \* posts, the counted ones and the others
  accepted,   \* events that a receiver accepted
  restarts
promised == <<status, attempts, open, sent, accepted, restarts>>

DeliveryInit ==
  /\ status = [e \in Events |-> "none"]
  /\ attempts = [e \in Events |-> 0]
  /\ open = {}
  /\ sent = [e \in Events |-> 0]
  /\ accepted = {}
  /\ restarts = 0

Announce(e) ==
  /\ status[e] = "none"
  /\ status' = [status EXCEPT ![e] = "pending"]
  /\ UNCHANGED <<attempts, open, sent, accepted, restarts>>

Post(e) ==
  /\ status[e] = "pending"
  /\ e \notin open
  /\ open' = open \cup {e}
  /\ sent' = [sent EXCEPT ![e] = sent[e] + 1]
  /\ UNCHANGED <<status, attempts, accepted, restarts>>

Accept(e) ==
  /\ e \in open
  /\ accepted' = accepted \cup {e}
  /\ UNCHANGED <<status, attempts, open, sent, restarts>>

(* The posts of S are counted; those of ok were accepted.                    *)
Settle(S, ok) ==
  /\ S \subseteq open
  /\ ok \subseteq S \cap accepted
  /\ attempts' = [e \in Events |-> IF e \in S THEN attempts[e] + 1 ELSE attempts[e]]
  /\ status' = [e \in Events |->
                  IF e \in ok THEN "delivered"
                  ELSE IF e \in S /\ attempts[e] + 1 = MaxAttempts THEN "failed"
                  ELSE status[e]]
  /\ open' = open \ S
  /\ UNCHANGED <<sent, accepted, restarts>>

(* A restart forgets the posts of S.                                         *)
Forget(S) ==
  /\ S \subseteq open
  /\ open' = open \ S
  /\ restarts' = restarts + 1
  /\ UNCHANGED <<status, attempts, sent, accepted>>

DeliveryNext ==
  \/ \E e \in Events : Announce(e) \/ Post(e) \/ Accept(e)
  \/ \E S \in SUBSET open :
       \/ \E ok \in SUBSET S : Settle(S, ok)
       \/ Forget(S)

DeliverySpec == DeliveryInit /\ [][DeliveryNext]_promised
=============================================================================
