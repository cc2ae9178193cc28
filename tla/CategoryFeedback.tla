-------------------------- MODULE CategoryFeedback --------------------------
(*****************************************************************************)
(* POST /api/v1/feedback/category: the budgeting app reports the category a  *)
(* user confirmed for a merchant; once a merchant and a category have been   *)
(* confirmed often enough a rule is learned, or changed.  A request inserts  *)
(* its log row, counts, looks the rule up and commits, each a statement of   *)
(* its own that sees what was committed before it and the request's own row. *)
(* No lock and no unique constraint orders two requests.                     *)
(*****************************************************************************)
EXTENDS Integers, FiniteSets

CONSTANTS
  Requests,
  Categories,
  NameOf, CategoryOf,   \* merchant_normalized and category_confirmed
  PatternOf,            \* of a name: the upper case that names share
  Threshold             \* RULE_THRESHOLD

ASSUME FeedbackAssumption ==
  /\ IsFiniteSet(Requests)
  /\ CategoryOf \in [Requests -> Categories]
  /\ \A r \in Requests : r \in DOMAIN NameOf /\ NameOf[r] \in DOMAIN PatternOf
  /\ Threshold \in Nat \ {0}

VARIABLES
  pc,       \* idle, logged, counted, planned, done or refused
  seen,     \* confirmations this request has counted
  target,   \* the rule to update, or the request itself to insert one
  loaded,   \* the rule as this request has read it
  logs,     \* committed rows of category_feedback_log
  rules,    \* committed rows of merchant_rules, by the request that inserted
  met       \* history: the pairs of requests for one pattern one of which
            \* committed while the other one ran; no guard reads it

vars == <<pc, seen, target, loaded, logs, rules, met>>

NoRule == [category |-> "none", count |-> 0]
Pattern(r) == PatternOf[NameOf[r]]
Peers(r) == {q \in Requests : Pattern(q) = Pattern(r)}
Running == {r \in Requests : pc[r] \in {"logged", "counted", "planned"}}

Init ==
  /\ pc = [r \in Requests |-> "idle"]
  /\ seen = [r \in Requests |-> 0]
  /\ target = [r \in Requests |-> r]
  /\ loaded = [r \in Requests |-> NoRule]
  /\ logs = {}
  /\ rules = [r \in Requests |-> NoRule]
  /\ met = {}

-----------------------------------------------------------------------------
(* db.add and flush of the log row.                                          *)
Log(r) ==
  /\ pc[r] = "idle"
  /\ pc' = [pc EXCEPT ![r] = "logged"]
  /\ UNCHANGED <<seen, target, loaded, logs, rules, met>>

(* Rows of the same name and category.                                       *)
SameConfirmation(r) ==
  {q \in Requests : NameOf[q] = NameOf[r] /\ CategoryOf[q] = CategoryOf[r]}

CommittedOnly(r) == logs
Visible(r) == logs \cup {r}
Confirmed(r) == SameConfirmation(r) \cap Visible(r)

Count(r) ==
  /\ pc[r] = "logged"
  /\ seen' = [seen EXCEPT ![r] = Cardinality(Confirmed(r))]
  /\ pc' = [pc EXCEPT ![r] = "counted"]
  /\ UNCHANGED <<target, loaded, logs, rules, met>>

CrossedEarly(r) == seen[r] >= Threshold - 1
Crossed(r) == seen[r] >= Threshold

(* Rules with the pattern of r; scalar_one_or_none raises if there are two,  *)
(* and the request is rolled back.                                           *)
RulesNamed(r) == {q \in Requests : rules[q] # NoRule /\ NameOf[q] = NameOf[r]}
RulesFor(r) == {q \in Peers(r) : rules[q] # NoRule}

Lookup(r) ==
  /\ pc[r] = "counted"
  /\ Crossed(r)
  /\ \/ /\ RulesFor(r) = {}
        /\ pc' = [pc EXCEPT ![r] = "planned"]
        /\ UNCHANGED <<target, loaded>>
     \/ \E q \in RulesFor(r) :
          /\ RulesFor(r) = {q}
          /\ pc' = [pc EXCEPT ![r] = "planned"]
          /\ target' = [target EXCEPT ![r] = q]
          /\ loaded' = [loaded EXCEPT ![r] = rules[q]]
     \/ /\ Cardinality(RulesFor(r)) > 1
        /\ pc' = [pc EXCEPT ![r] = "refused"]
        /\ UNCHANGED <<target, loaded>>
  /\ UNCHANGED <<seen, logs, rules, met>>

(* The row as written: an UPDATE sets only the columns whose value differs   *)
(* from the one this request has read.                                       *)
Written(new, read, now) == IF new # read THEN new ELSE now
Merged(r) ==
  LET now == rules[target[r]]
  IN  [category |-> Written(CategoryOf[r], loaded[r].category, now.category),
       count |-> Written(seen[r], loaded[r].count, now.count)]

Others(r) == (Running \cap Peers(r)) \ {r}

Commit(r) ==
  /\ pc[r] = "planned" \/ (pc[r] = "counted" /\ ~Crossed(r))
  /\ pc' = [pc EXCEPT ![r] = "done"]
  /\ logs' = logs \cup {r}
  /\ rules' = IF pc[r] = "planned" THEN [rules EXCEPT ![target[r]] = Merged(r)]
              ELSE rules
  /\ met' = met \cup ({r} \X Others(r)) \cup (Others(r) \X {r})
  /\ UNCHANGED <<seen, target, loaded>>

(* A database error or a restart: nothing of the request stays.              *)
Abort(r) ==
  /\ r \in Running
  /\ pc' = [pc EXCEPT ![r] = "refused"]
  /\ UNCHANGED <<seen, target, loaded, logs, rules, met>>

Next == \E r \in Requests : Log(r) \/ Count(r) \/ Lookup(r) \/ Commit(r) \/ Abort(r)
Spec == Init /\ [][Next]_vars

-----------------------------------------------------------------------------
(* Every variable keeps its type; no rule has fewer confirmations than the   *)
(* threshold.                                                                *)
TypeOK ==
  /\ pc \in [Requests -> {"idle", "logged", "counted", "planned", "done", "refused"}]
  /\ seen \in [Requests -> 0 .. Cardinality(Requests)]
  /\ target \in [Requests -> Requests]
  /\ {loaded, rules} \subseteq [Requests -> [category : Categories \cup {"none"}, count : Nat]]
  /\ logs \subseteq Requests
  /\ \A r \in Requests :
       rules[r] # NoRule => rules[r].category \in Categories /\ rules[r].count >= Threshold
  /\ met \subseteq Requests \X Requests

(* What the log says: the committed confirmations of category c under the    *)
(* name of q.                                                                *)
Logged(q, c) == {p \in logs : NameOf[p] = NameOf[q] /\ CategoryOf[p] = c}
Support(q, c) == Cardinality(Logged(q, c))

(* Requests that overlapped with some other one of their pattern.            *)
Overlapped == {r \in Requests : \E q \in Requests : <<r, q>> \in met}

(* The category of a rule was confirmed often enough, also after overlapping *)
(* updates of it; and its count is that of its own category unless requests  *)
(* for its pattern have overlapped, whose updates may mix in one row.        *)
RulesEarned ==
  \A r \in Requests : rules[r] # NoRule =>
    \E q \in Peers(r) :
      /\ Support(q, rules[r].category) >= Threshold
      /\ rules[r].count <= Support(q, rules[r].category)
           \/ Peers(r) \cap Overlapped # {}

(* A pattern has its rule once enough requests that ran alone confirmed it,  *)
(* and a second one, with which scalar_one_or_none makes every later request *)
(* at the threshold fail (feedback.py:58), only if the two requests that     *)
(* inserted the two have overlapped each other.                              *)
OneRulePerPattern ==
  \A r \in Requests :
    /\ Cardinality(Logged(r, CategoryOf[r]) \ Overlapped) >= Threshold =>
         \E q \in Peers(r) : rules[q] # NoRule
    /\ \A q \in Peers(r) \ {r} :
         rules[r] # NoRule /\ rules[q] # NoRule => <<q, r>> \in met

(* What the properties rest on: overlap is mutual; a request that has not    *)
(* committed has left nothing; a count lies between the confirmations that   *)
(* ran alone and all that are visible; and a plan to insert or to change a   *)
(* rule is still right unless another request has met this one.              *)
Overlaps == \A r, q \in Requests : <<r, q>> \in met => <<q, r>> \in met
NothingLeft ==
  \A r \in Requests :
    /\ pc[r] # "done" => r \notin logs /\ rules[r] = NoRule
    /\ pc[r] \in {"idle", "logged", "counted"} => target[r] = r /\ loaded[r] = NoRule
Counts ==
  \A r \in Requests : pc[r] \in {"counted", "planned"} =>
    /\ Cardinality(Confirmed(r) \ Overlapped) <= seen[r]
    /\ seen[r] <= Cardinality(Confirmed(r))
Inserts(r) == target[r] = r
Plans ==
  \A r \in Requests : pc[r] = "planned" =>
    /\ Crossed(r)
    /\ target[r] \in Peers(r)
    /\ Inserts(r) => /\ loaded[r] = NoRule
                     /\ \A q \in Peers(r) \ {r} : rules[q] # NoRule => <<q, r>> \in met
    /\ ~Inserts(r) => /\ rules[target[r]] # NoRule
                      /\ loaded[r] = rules[target[r]] \/ Peers(r) \cap Overlapped # {}
IInv ==
  /\ TypeOK /\ Overlaps /\ NothingLeft /\ Counts /\ Plans
  /\ RulesEarned /\ OneRulePerPattern
=============================================================================
