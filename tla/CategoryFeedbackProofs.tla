----------------------- MODULE CategoryFeedbackProofs -----------------------
(*****************************************************************************)
(* Machine-checked proofs about CategoryFeedback, for any requests, names,   *)
(* patterns and categories and every threshold.                              *)
(*****************************************************************************)
EXTENDS CategoryFeedback, FiniteSetTheorems, TLAPS

-----------------------------------------------------------------------------
(* Requests, and counts of them.                                             *)

LEMMA PeerFacts ==
  /\ \A r \in Requests :
       /\ r \in Peers(r) /\ Peers(r) \subseteq Requests /\ r \in SameConfirmation(r)
       /\ SameConfirmation(r) \subseteq Peers(r) /\ CategoryOf[r] \in Categories
  /\ \A r, q \in Requests :
       /\ q \in Peers(r) <=> r \in Peers(q)
       /\ q \in Peers(r) => Peers(q) = Peers(r)
BY FeedbackAssumption DEF Peers, Pattern, SameConfirmation

LEMMA ConfirmedSet ==
  ASSUME NEW r \in Requests
  PROVE  Confirmed(r) \in SUBSET Requests
BY DEF Confirmed, SameConfirmation

LEMMA CountUp ==
  ASSUME NEW T \in SUBSET Requests, NEW S \in SUBSET T
  PROVE  /\ Cardinality(S) \in Nat /\ Cardinality(T) \in Nat
         /\ Cardinality(S) <= Cardinality(T)
         /\ Cardinality(T) \in 0 .. Cardinality(Requests)
<1>1. IsFiniteSet(T) /\ Cardinality(T) \in Nat /\ Cardinality(T) <= Cardinality(Requests)
  BY FeedbackAssumption, FS_Subset, FS_CardinalityType
<1>2. IsFiniteSet(S) /\ Cardinality(S) \in Nat /\ Cardinality(S) <= Cardinality(T)
  BY <1>1, FS_Subset, FS_CardinalityType
<1>3. Cardinality(Requests) \in Nat
  BY FeedbackAssumption, FS_CardinalityType
<1> QED
  BY <1>1, <1>2, <1>3

LEMMA OverlapFacts ==
  /\ Overlapped \in SUBSET Requests
  /\ \A r, q \in Requests : <<r, q>> \in met => r \in Overlapped
  /\ met \subseteq met' => Overlapped \subseteq Overlapped'
  /\ met' = met => Overlapped' = Overlapped
BY DEF Overlapped

(* The properties read only the log, the rules and who met.                  *)
LEMMA SameStore ==
  ASSUME RulesEarned, OneRulePerPattern, TypeOK, UNCHANGED <<logs, rules, met>>
  PROVE  RulesEarned' /\ OneRulePerPattern'
<1>1. Overlapped' = Overlapped
  BY OverlapFacts
<1> QED
  BY <1>1 DEF RulesEarned, Support, OneRulePerPattern, Logged

-----------------------------------------------------------------------------
LEMMA InvInit == Init => IInv
<1> SUFFICES ASSUME Init PROVE IInv
  OBVIOUS
<1> USE FeedbackAssumption
<1>1. TypeOK
  BY CountUp DEF Init, TypeOK, NoRule
<1>2. Overlaps /\ NothingLeft /\ Counts /\ Plans
  BY DEF Init, Overlaps, Running, NothingLeft, Counts, Plans
<1>3. RulesEarned
  BY DEF Init, RulesEarned
<1>4. OneRulePerPattern
  <2>1. \A r \in Requests : Logged(r, CategoryOf[r]) \ Overlapped = {}
    BY DEF Init, Logged
  <2> QED
    BY <2>1, FS_EmptySet DEF Init, OneRulePerPattern
<1> QED
  BY <1>1, <1>2, <1>3, <1>4 DEF IInv

LEMMA InvLog ==
  ASSUME IInv, NEW r \in Requests, Log(r)
  PROVE  IInv'
<1> USE PeerFacts
<1>1. /\ pc[r] = "idle" /\ pc' = [pc EXCEPT ![r] = "logged"]
      /\ UNCHANGED <<seen, target, loaded, logs, rules, met>> /\ Overlapped' = Overlapped
  BY OverlapFacts DEF Log
<1>2. TypeOK'
  BY <1>1 DEF IInv, TypeOK
<1>3. \A q \in Requests : pc'[q] = IF q = r THEN "logged" ELSE pc[q]
  BY <1>1 DEF IInv, TypeOK
<1>4. Overlaps' /\ NothingLeft'
  BY <1>1, <1>3 DEF IInv, Overlaps, NothingLeft
<1>5. Counts' /\ Plans'
  <2>1. \A q \in Requests : Confirmed(q)' = Confirmed(q)
    BY <1>1 DEF Confirmed, Visible
  <2> QED
    BY <1>1, <1>3, <2>1 DEF IInv, Counts, Plans, Crossed, Inserts
<1>6. RulesEarned' /\ OneRulePerPattern'
  BY <1>1, SameStore DEF IInv
<1> QED
  BY <1>2, <1>4, <1>5, <1>6 DEF IInv

(* A count takes in every committed confirmation and its own.                *)
LEMMA InvCount ==
  ASSUME IInv, NEW r \in Requests, Count(r)
  PROVE  IInv'
<1> USE PeerFacts
<1>1. /\ pc[r] = "logged" /\ pc' = [pc EXCEPT ![r] = "counted"]
      /\ seen' = [seen EXCEPT ![r] = Cardinality(Confirmed(r))]
      /\ UNCHANGED <<target, loaded, logs, rules, met>> /\ Overlapped' = Overlapped
  BY OverlapFacts DEF Count
<1>2. /\ Cardinality(Confirmed(r)) \in 0 .. Cardinality(Requests)
      /\ Cardinality(Confirmed(r) \ Overlapped) <= Cardinality(Confirmed(r))
  <2>1. Confirmed(r) \in SUBSET Requests
    BY ConfirmedSet
  <2> QED
    BY <2>1, CountUp
<1>3. TypeOK'
  BY <1>1, <1>2 DEF IInv, TypeOK
<1>4. \A q \in Requests : /\ pc'[q] = IF q = r THEN "counted" ELSE pc[q]
                          /\ seen'[q] = IF q = r THEN Cardinality(Confirmed(r)) ELSE seen[q]
  BY <1>1 DEF IInv, TypeOK
<1>5. Overlaps' /\ NothingLeft'
  BY <1>1, <1>4 DEF IInv, Overlaps, NothingLeft
<1>6. Counts'
  <2>1. \A q \in Requests : Confirmed(q)' = Confirmed(q)
    BY <1>1 DEF Confirmed, Visible
  <2> SUFFICES ASSUME NEW q \in Requests, pc'[q] \in {"counted", "planned"}
               PROVE  /\ Cardinality(Confirmed(q) \ Overlapped) <= seen'[q]
                      /\ seen'[q] <= Cardinality(Confirmed(q))
    BY <1>1, <2>1 DEF Counts
  <2>2. CASE q = r
    BY <1>2, <1>4, <2>2
  <2>3. CASE q # r
    BY <1>4, <2>3 DEF IInv, Counts
  <2> QED
    BY <2>2, <2>3
<1>7. Plans'
  BY <1>1, <1>4 DEF IInv, Plans, Crossed, Inserts
<1>8. RulesEarned' /\ OneRulePerPattern'
  BY <1>1, SameStore DEF IInv, TypeOK
<1> QED
  BY <1>3, <1>5, <1>6, <1>7, <1>8 DEF IInv

(* The rule that a request finds is not its own, since it has left nothing.  *)
LEMMA InvLookup ==
  ASSUME IInv, NEW r \in Requests, Lookup(r)
  PROVE  IInv'
<1> USE PeerFacts
<1>1. pc[r] = "counted" /\ Crossed(r) /\ UNCHANGED <<seen, logs, rules, met>>
      /\ target[r] = r /\ loaded[r] = NoRule /\ rules[r] = NoRule
      /\ Overlapped' = Overlapped
  BY OverlapFacts DEF Lookup, IInv, NothingLeft
<1>2. PICK t \in Requests, to \in {"planned", "refused"} :
        /\ target' = [target EXCEPT ![r] = t] /\ loaded' = [loaded EXCEPT ![r] = rules[t]]
        /\ pc' = [pc EXCEPT ![r] = to]
        /\ to = "planned" =>
             \/ t = r /\ \A q \in Peers(r) : rules[q] = NoRule
             \/ t # r /\ t \in Peers(r) /\ rules[t] # NoRule
  <2>1. CASE RulesFor(r) = {} /\ pc' = [pc EXCEPT ![r] = "planned"]
             /\ UNCHANGED <<target, loaded>>
    BY <1>1, <2>1 DEF IInv, TypeOK, RulesFor
  <2>2. CASE \E q \in RulesFor(r) :
               /\ pc' = [pc EXCEPT ![r] = "planned"]
               /\ target' = [target EXCEPT ![r] = q]
               /\ loaded' = [loaded EXCEPT ![r] = rules[q]]
    BY <1>1, <2>2 DEF IInv, TypeOK, RulesFor
  <2>3. CASE pc' = [pc EXCEPT ![r] = "refused"] /\ UNCHANGED <<target, loaded>>
    BY <1>1, <2>3 DEF IInv, TypeOK
  <2> QED
    BY <2>1, <2>2, <2>3 DEF Lookup
<1>3. \A q \in Requests : /\ pc'[q] = IF q = r THEN to ELSE pc[q]
                          /\ target'[q] = IF q = r THEN t ELSE target[q]
                          /\ loaded'[q] = IF q = r THEN rules[t] ELSE loaded[q]
  BY <1>2 DEF IInv, TypeOK
<1>4. TypeOK'
  BY <1>1, <1>2 DEF IInv, TypeOK
<1>5. Overlaps' /\ NothingLeft'
  <2>1. Overlaps'
    BY <1>1 DEF IInv, Overlaps
  <2>2. ASSUME NEW q \in Requests
        PROVE  /\ pc'[q] # "done" => q \notin logs' /\ rules'[q] = NoRule
               /\ pc'[q] \in {"idle", "logged", "counted"} =>
                    target'[q] = q /\ loaded'[q] = NoRule
    <3>1. CASE q = r
      BY <1>1, <1>3, <3>1 DEF IInv, NothingLeft
    <3>2. CASE q # r
      BY <1>1, <1>3, <3>2 DEF IInv, NothingLeft
    <3> QED
      BY <3>1, <3>2
  <2> QED
    BY <2>1, <2>2 DEF NothingLeft
<1>6. Counts'
  <2>1. \A q \in Requests : Confirmed(q)' = Confirmed(q)
    BY <1>1 DEF Confirmed, Visible
  <2>2. \A q \in Requests : pc'[q] \in {"counted", "planned"} => pc[q] \in {"counted", "planned"}
    BY <1>1, <1>3
  <2> QED
    BY <1>1, <2>1, <2>2 DEF IInv, Counts
<1>7. Plans'
  BY <1>1, <1>2, <1>3 DEF IInv, Plans, Crossed, Inserts
<1>8. RulesEarned' /\ OneRulePerPattern'
  BY <1>1, SameStore DEF IInv, TypeOK
<1> QED
  BY <1>4, <1>5, <1>6, <1>7, <1>8 DEF IInv

LEMMA InvAbort ==
  ASSUME IInv, NEW r \in Requests, Abort(r)
  PROVE  IInv'
<1> USE PeerFacts
<1>1. /\ r \in Running /\ pc' = [pc EXCEPT ![r] = "refused"]
      /\ UNCHANGED <<seen, target, loaded, logs, rules, met>> /\ Overlapped' = Overlapped
  BY OverlapFacts DEF Abort
<1>2. \A q \in Requests : pc'[q] = IF q = r THEN "refused" ELSE pc[q]
  BY <1>1 DEF IInv, TypeOK
<1>3. TypeOK'
  BY <1>1 DEF IInv, TypeOK
<1>4. Overlaps' /\ NothingLeft'
  BY <1>1, <1>2 DEF IInv, Running, Overlaps, NothingLeft
<1>5. Counts' /\ Plans'
  <2>1. \A q \in Requests : Confirmed(q)' = Confirmed(q)
    BY <1>1 DEF Confirmed, Visible
  <2> QED
    BY <1>1, <1>2, <2>1 DEF IInv, Counts, Plans, Crossed, Inserts
<1>6. RulesEarned' /\ OneRulePerPattern'
  BY <1>1, SameStore DEF IInv, TypeOK
<1> QED
  BY <1>3, <1>4, <1>5, <1>6 DEF IInv

-----------------------------------------------------------------------------
(* The commit.                                                               *)

(* The row a request writes: its own confirmation, or the category another   *)
(* request has written there meanwhile.                                      *)
LEMMA MergedFacts ==
  ASSUME IInv, NEW r \in Requests, pc[r] = "planned"
  PROVE  /\ target[r] \in Peers(r)
         /\ Merged(r) \in [category : Categories, count : Nat]
         /\ Merged(r).count >= Threshold /\ Merged(r) # NoRule
         /\ \/ Merged(r).category = CategoryOf[r]
            \/ /\ rules[target[r]] # NoRule /\ Peers(r) \cap Overlapped # {}
               /\ Merged(r).category = rules[target[r]].category
         /\ Peers(r) \cap Overlapped = {} => Merged(r).count = seen[r]
<1> USE FeedbackAssumption, PeerFacts
<1> DEFINE t == target[r]
<1>1. /\ t \in Peers(r) /\ seen[r] \in Nat /\ seen[r] >= Threshold
      /\ CategoryOf[r] \in Categories /\ t \in Requests
      /\ t = r => loaded[r] = NoRule
      /\ t # r => rules[t] # NoRule /\ (loaded[r] = rules[t] \/ Peers(r) \cap Overlapped # {})
  BY DEF IInv, Plans, Inserts, Crossed, TypeOK
<1>2. t = r => rules[t] = NoRule
  BY DEF IInv, NothingLeft
<1>3. /\ t # r => rules[t].category \in Categories /\ rules[t].count \in Nat
                  /\ rules[t].count >= Threshold
      /\ loaded[r].count \in Nat
  BY <1>1 DEF IInv, TypeOK
<1>4. Merged(r) = [category |-> Written(CategoryOf[r], loaded[r].category, rules[t].category),
                   count |-> Written(seen[r], loaded[r].count, rules[t].count)]
  BY DEF Merged
<1> DEFINE c == Merged(r).category
           n == Merged(r).count
<1>5. c = Written(CategoryOf[r], loaded[r].category, rules[t].category)
      /\ n = Written(seen[r], loaded[r].count, rules[t].count)
  BY <1>4
<1>6. CASE t = r
  <2>1. c = CategoryOf[r] /\ n = seen[r]
    BY <1>1, <1>2, <1>5, <1>6 DEF Written, NoRule
  <2>2. n \in Nat /\ n >= Threshold /\ Merged(r) # NoRule
    BY <1>1, <2>1 DEF NoRule
  <2> QED
    BY <1>1, <1>4, <2>1, <2>2
<1>7. CASE t # r
  <2>1. /\ c \in {CategoryOf[r], rules[t].category}
        /\ n \in {seen[r], rules[t].count}
        /\ loaded[r] = rules[t] => c = CategoryOf[r] /\ n = seen[r]
    BY <1>5 DEF Written
  <2>2. c \in Categories /\ n \in Nat /\ n >= Threshold
    BY <1>1, <1>3, <1>7, <2>1
  <2>3. Merged(r) # NoRule
    BY <2>2 DEF NoRule
  <2> QED
    BY <1>1, <1>4, <1>7, <2>1, <2>2, <2>3
<1> QED
  BY <1>6, <1>7

(* Which row a commit writes.                                                *)
LEMMA CommitWrites ==
  ASSUME IInv, NEW r \in Requests, Commit(r)
  PROVE  /\ UNCHANGED <<seen, target, loaded>> /\ logs' = logs \cup {r}
         /\ r \in Running /\ r \notin logs
         /\ met \subseteq met' /\ Overlapped \subseteq Overlapped' /\ Overlaps'
         /\ Overlapped' \in SUBSET Requests
         /\ \A q \in Others(r) : <<r, q>> \in met' /\ {q, r} \subseteq Overlapped'
         /\ \A q \in Requests : pc'[q] = IF q = r THEN "done" ELSE pc[q]
         /\ \A q \in Requests :
              rules'[q] = IF pc[r] = "planned" /\ q = target[r] THEN Merged(r) ELSE rules[q]
         /\ \A q \in Requests : rules[q] # NoRule => rules'[q] # NoRule
         /\ \A q \in Requests : rules[q] = NoRule /\ rules'[q] # NoRule => q = r
         /\ TypeOK'
<1> USE PeerFacts
<1>1. UNCHANGED <<seen, target, loaded>> /\ logs' = logs \cup {r}
      /\ met' = met \cup ({r} \X Others(r)) \cup (Others(r) \X {r})
      /\ pc[r] \in {"planned", "counted"} /\ pc' = [pc EXCEPT ![r] = "done"]
      /\ rules' = IF pc[r] = "planned" THEN [rules EXCEPT ![target[r]] = Merged(r)] ELSE rules
  BY DEF Commit
<1>2. r \in Running /\ r \notin logs
  BY <1>1 DEF Running, IInv, NothingLeft
<1>3. \A q \in Requests :
        /\ pc'[q] = IF q = r THEN "done" ELSE pc[q]
        /\ rules'[q] = IF pc[r] = "planned" /\ q = target[r] THEN Merged(r) ELSE rules[q]
  BY <1>1 DEF IInv, TypeOK
<1>4. pc[r] = "planned" =>
        /\ Merged(r) \in [category : Categories, count : Nat]
        /\ Merged(r).count >= Threshold /\ Merged(r) # NoRule
        /\ target[r] \in Requests /\ (rules[target[r]] = NoRule => target[r] = r)
  BY MergedFacts DEF IInv, Plans, Inserts
<1>5. \A q \in Requests : /\ rules[q] # NoRule => rules'[q] # NoRule
                          /\ rules[q] = NoRule /\ rules'[q] # NoRule => q = r
  BY <1>3, <1>4
<1>6. TypeOK'
  <2>1. rules' \in [Requests -> [category : Categories \cup {"none"}, count : Nat]]
    <3>1. CASE pc[r] = "planned"
      <4>1. Merged(r) \in [category : Categories \cup {"none"}, count : Nat]
        BY <1>4, <3>1
      <4> HIDE DEF Merged
      <4> QED
        BY <1>1, <1>4, <3>1, <4>1 DEF IInv, TypeOK
    <3>2. CASE pc[r] # "planned"
      BY <1>1, <3>2 DEF IInv, TypeOK
    <3> QED
      BY <3>1, <3>2
  <2>2. ASSUME NEW q \in Requests, rules'[q] # NoRule
        PROVE  rules'[q].category \in Categories /\ rules'[q].count >= Threshold
    BY <1>3, <1>4, <2>2 DEF IInv, TypeOK
  <2>3. met' \subseteq Requests \X Requests
    BY <1>1 DEF IInv, TypeOK, Others, Running
  <2> QED
    BY <1>1, <2>1, <2>2, <2>3 DEF IInv, TypeOK
<1>7. met \subseteq met' /\ Overlaps'
  BY <1>1 DEF IInv, Overlaps
<1>8. ASSUME NEW q \in Others(r)
      PROVE  <<r, q>> \in met' /\ {q, r} \subseteq Overlapped'
  <2>1. q \in Requests /\ <<r, q>> \in met' /\ <<q, r>> \in met'
    BY <1>1 DEF Others, Running
  <2> QED
    BY <2>1 DEF Overlapped
<1>9. Overlapped' \in SUBSET Requests /\ Overlapped \subseteq Overlapped'
  BY <1>7, OverlapFacts DEF Overlapped
<1> QED
  BY <1>1, <1>2, <1>3, <1>5, <1>6, <1>7, <1>8, <1>9

LEMMA CommitKeepsCounts ==
  ASSUME IInv, NEW r \in Requests, Commit(r)
  PROVE  Counts'
<1>0. /\ UNCHANGED seen /\ logs' = logs \cup {r}
      /\ Overlapped \subseteq Overlapped' /\ \A q \in Others(r) : r \in Overlapped'
      /\ \A q \in Requests : pc'[q] = IF q = r THEN "done" ELSE pc[q]
  BY CommitWrites
<1> SUFFICES ASSUME NEW q \in Requests, pc'[q] \in {"counted", "planned"}
             PROVE  /\ Cardinality(Confirmed(q)' \ Overlapped') <= seen[q]
                    /\ seen[q] <= Cardinality(Confirmed(q)')
  BY <1>0 DEF Counts
<1>1. q # r /\ pc[q] \in {"counted", "planned"}
  BY <1>0
<1>2. Confirmed(q)' = Confirmed(q) \cup (SameConfirmation(q) \cap {r})
  BY <1>0, <1>1 DEF Confirmed, Visible
<1>3. r \in SameConfirmation(q) => r \in Overlapped'
  <2>1. r \in SameConfirmation(q) => q \in Others(r)
    BY <1>1, PeerFacts DEF Others, Running
  <2> QED
    BY <1>0, <2>1
<1>4. /\ Confirmed(q)' \ Overlapped' \subseteq Confirmed(q) \ Overlapped
      /\ Confirmed(q) \subseteq Confirmed(q)'
  BY <1>0, <1>2, <1>3
<1>5. Confirmed(q)' \in SUBSET Requests /\ Confirmed(q) \ Overlapped \in SUBSET Requests
  BY <1>2, ConfirmedSet
<1>6. /\ Cardinality(Confirmed(q)) <= Cardinality(Confirmed(q)')
      /\ Cardinality(Confirmed(q)) \in Nat /\ Cardinality(Confirmed(q)') \in Nat
  BY <1>4, <1>5, CountUp
<1>7. /\ Cardinality(Confirmed(q)' \ Overlapped') <= Cardinality(Confirmed(q) \ Overlapped)
      /\ Cardinality(Confirmed(q)' \ Overlapped') \in Nat
      /\ Cardinality(Confirmed(q) \ Overlapped) \in Nat
  BY <1>4, <1>5, CountUp
<1>8. /\ Cardinality(Confirmed(q) \ Overlapped) <= seen[q] /\ seen[q] \in Nat
      /\ seen[q] <= Cardinality(Confirmed(q))
  BY <1>1 DEF IInv, Counts, TypeOK
<1> QED
  BY <1>6, <1>7, <1>8

LEMMA CommitKeepsPlans ==
  ASSUME IInv, NEW r \in Requests, Commit(r)
  PROVE  Plans'
<1> USE PeerFacts
<1>1. /\ UNCHANGED <<seen, target, loaded>>
      /\ met \subseteq met' /\ Overlapped \subseteq Overlapped'
      /\ \A q \in Requests : pc'[q] = IF q = r THEN "done" ELSE pc[q]
      /\ \A q \in Requests : rules[q] # NoRule => rules'[q] # NoRule
      /\ \A q \in Requests : rules[q] = NoRule /\ rules'[q] # NoRule => q = r
  BY CommitWrites
<1>2. \A q \in Requests : rules'[q] = rules[q] \/ q \in Peers(r)
  BY CommitWrites, MergedFacts
<1> SUFFICES ASSUME NEW q \in Requests, pc[q] = "planned", q # r
             PROVE  /\ Crossed(q)
                    /\ target[q] \in Peers(q)
                    /\ Inserts(q) => /\ loaded[q] = NoRule
                                     /\ \A x \in Peers(q) \ {q} :
                                          rules'[x] # NoRule => <<x, q>> \in met'
                    /\ ~Inserts(q) => /\ rules'[target[q]] # NoRule
                                      /\ \/ loaded[q] = rules'[target[q]]
                                         \/ Peers(q) \cap Overlapped' # {}
  BY <1>1 DEF Plans, Crossed, Inserts
<1>3. r \in Peers(q) => <<r, q>> \in met' /\ r \in Overlapped'
  <2>1. r \in Peers(q) => q \in Others(r)
    BY DEF Others, Running
  <2> QED
    BY <2>1, CommitWrites
<1>4. Crossed(q) /\ target[q] \in Peers(q) /\ (Inserts(q) => loaded[q] = NoRule)
  BY DEF IInv, Plans
<1>5. ASSUME Inserts(q), NEW x \in Peers(q) \ {q}, rules'[x] # NoRule
      PROVE  <<x, q>> \in met'
  BY <1>1, <1>3, <1>5 DEF IInv, Plans
<1>6. ASSUME ~Inserts(q)
      PROVE  /\ rules'[target[q]] # NoRule
             /\ loaded[q] = rules'[target[q]] \/ Peers(q) \cap Overlapped' # {}
  <2>1. rules[target[q]] # NoRule /\ target[q] \in Requests
        /\ (loaded[q] = rules[target[q]] \/ Peers(q) \cap Overlapped # {})
    BY <1>4, <1>6 DEF IInv, Plans
  <2>2. target[q] \in Peers(r) => r \in Peers(q)
    BY <1>4
  <2> QED
    BY <1>1, <1>2, <1>3, <2>1, <2>2
<1> QED
  BY <1>4, <1>5, <1>6

(* A rule is changed to what is confirmed often enough.                      *)
LEMMA CommitKeepsEarned ==
  ASSUME IInv, NEW r \in Requests, Commit(r)
  PROVE  RulesEarned'
<1>1. Overlapped \subseteq Overlapped' /\ logs' = logs \cup {r} /\ logs' \subseteq Requests
      /\ \A x \in Requests :
           rules'[x] = IF pc[r] = "planned" /\ x = target[r] THEN Merged(r) ELSE rules[x]
  BY CommitWrites DEF TypeOK
<1>2. ASSUME NEW q \in Requests, NEW c
      PROVE  /\ Support(q, c) \in Nat /\ Support(q, c)' \in Nat
             /\ Support(q, c) <= Support(q, c)'
  <2>1. Logged(q, c)' \in SUBSET Requests /\ Logged(q, c) \in SUBSET Logged(q, c)'
    BY <1>1 DEF Logged
  <2> QED
    BY <2>1, CountUp DEF Support
<1> SUFFICES ASSUME NEW x \in Requests, rules'[x] # NoRule, NEW c, c = rules'[x].category
             PROVE  \E q \in Peers(x) :
                      /\ Support(q, c)' >= Threshold
                      /\ rules'[x].count <= Support(q, c)' \/ Peers(x) \cap Overlapped' # {}
  BY <1>1 DEF RulesEarned, Support, Logged
<1>3. ASSUME rules[x] # NoRule, rules[x].category = c
      PROVE  \E q \in Peers(x) :
               /\ Support(q, c)' >= Threshold
               /\ rules[x].count <= Support(q, c)' \/ Peers(x) \cap Overlapped' # {}
  <2>1. PICK q \in Peers(x) :
          /\ Support(q, c) >= Threshold
          /\ rules[x].count <= Support(q, c) \/ Peers(x) \cap Overlapped # {}
    BY <1>3 DEF IInv, RulesEarned
  <2>2. q \in Requests /\ rules[x].count \in Nat
    BY PeerFacts DEF IInv, TypeOK
  <2>3. Support(q, c)' >= Threshold
    BY <1>2, <2>1, <2>2, FeedbackAssumption
  <2>4. rules[x].count <= Support(q, c) => rules[x].count <= Support(q, c)'
    BY <1>2, <2>2
  <2> QED
    BY <1>1, <2>1, <2>3, <2>4
<1>4. CASE pc[r] = "planned" /\ x = target[r]
  <2>1. /\ rules'[x] = Merged(r) /\ x \in Peers(r) /\ Peers(x) = Peers(r) /\ r \in Peers(x)
        /\ Merged(r).count \in Nat
        /\ \/ Merged(r).category = CategoryOf[r]
           \/ /\ rules[x] # NoRule /\ Peers(x) \cap Overlapped # {}
              /\ Merged(r).category = rules[x].category
        /\ Peers(x) \cap Overlapped = {} => Merged(r).count = seen[r]
    BY <1>1, <1>4, MergedFacts, PeerFacts
  <2>2. CASE c = CategoryOf[r]
    <3>1. Support(r, c)' = Cardinality(Confirmed(r))
      <4>1. Logged(r, c)' = Confirmed(r)
        BY <1>1, <2>2, FeedbackAssumption
           DEF Logged, Confirmed, SameConfirmation, Visible, IInv, TypeOK
      <4> QED
        BY <4>1 DEF Support
    <3>2. seen[r] \in Nat /\ Cardinality(Confirmed(r)) \in Nat
      BY ConfirmedSet, CountUp DEF IInv, TypeOK
    <3>3. seen[r] >= Threshold /\ seen[r] <= Cardinality(Confirmed(r))
      BY <1>4 DEF IInv, Counts, Plans, Crossed
    <3>4. Support(r, c)' >= Threshold /\ seen[r] <= Support(r, c)'
      BY <3>1, <3>2, <3>3, FeedbackAssumption
    <3> QED
      BY <1>1, <2>1, <3>4
  <2>3. CASE c # CategoryOf[r]
    <3>1. /\ rules[x] # NoRule /\ rules[x].category = c
          /\ Peers(x) \cap Overlapped' # {}
      BY <1>1, <2>1, <2>3
    <3>2. PICK q \in Peers(x) : Support(q, c)' >= Threshold
      BY <1>3, <3>1
    <3> QED
      BY <3>1, <3>2
  <2> QED
    BY <2>2, <2>3
<1>5. CASE ~(pc[r] = "planned" /\ x = target[r])
  BY <1>1, <1>3, <1>5
<1> QED
  BY <1>4, <1>5

(* The last of the requests that ran alone has counted the others.           *)
LEMMA CommitKeepsOneRule ==
  ASSUME IInv, NEW r \in Requests, Commit(r)
  PROVE  OneRulePerPattern'
<1>1. met \subseteq met' /\ Overlapped \subseteq Overlapped'
      /\ logs' = logs \cup {r} /\ logs' \subseteq Requests
      /\ \A x \in Requests :
           /\ rules'[x] = IF pc[r] = "planned" /\ x = target[r] THEN Merged(r) ELSE rules[x]
           /\ rules[x] # NoRule => rules'[x] # NoRule
           /\ rules[x] = NoRule /\ rules'[x] # NoRule => x = r
  BY CommitWrites DEF TypeOK
<1>2. ASSUME NEW x \in Requests,
             Cardinality(Logged(x, CategoryOf[x])' \ Overlapped') >= Threshold
      PROVE  \E q \in Peers(x) : rules'[q] # NoRule
  <2>1. CASE r \in Logged(x, CategoryOf[x])' /\ r \notin Overlapped'
    <3>1. Peers(x) = Peers(r) /\ Logged(x, CategoryOf[x])' = Confirmed(r)
      BY <1>1, <2>1, PeerFacts
         DEF Logged, Confirmed, SameConfirmation, Visible, Peers, Pattern, IInv, TypeOK
    <3>2. pc[r] \in {"counted", "planned"} /\ (pc[r] = "counted" => ~Crossed(r))
      BY DEF Commit
    <3>3. seen[r] \in Nat /\ Cardinality(Confirmed(r) \ Overlapped') <= seen[r]
          /\ Cardinality(Confirmed(r) \ Overlapped') \in Nat
      <4>1. /\ seen[r] \in Nat /\ Cardinality(Confirmed(r) \ Overlapped) <= seen[r]
        BY <3>2 DEF IInv, Counts, TypeOK
      <4>2. /\ Confirmed(r) \ Overlapped \in SUBSET Requests
            /\ Confirmed(r) \ Overlapped' \in SUBSET (Confirmed(r) \ Overlapped)
        BY <1>1, ConfirmedSet
      <4>3. /\ Cardinality(Confirmed(r) \ Overlapped') <= Cardinality(Confirmed(r) \ Overlapped)
            /\ Cardinality(Confirmed(r) \ Overlapped') \in Nat
            /\ Cardinality(Confirmed(r) \ Overlapped) \in Nat
        BY <4>2, CountUp
      <4> QED
        BY <4>1, <4>3
    <3>4. seen[r] >= Threshold
      BY <1>2, <3>1, <3>3, FeedbackAssumption
    <3>5. pc[r] = "planned"
      BY <3>2, <3>4, FeedbackAssumption, <3>3 DEF Crossed
    <3>6. target[r] \in Peers(r) /\ Merged(r) # NoRule /\ target[r] \in Requests
      BY <3>5, MergedFacts, PeerFacts
    <3> QED
      BY <1>1, <3>1, <3>5, <3>6
  <2>2. CASE ~(r \in Logged(x, CategoryOf[x])' /\ r \notin Overlapped')
    <3> DEFINE L == Logged(x, CategoryOf[x])
    <3>1. L' \ Overlapped' \in SUBSET (L \ Overlapped) /\ L \ Overlapped \in SUBSET Requests
      BY <1>1, <2>2 DEF Logged, IInv, TypeOK
    <3>2. /\ Cardinality(L' \ Overlapped') <= Cardinality(L \ Overlapped)
          /\ Cardinality(L' \ Overlapped') \in Nat /\ Cardinality(L \ Overlapped) \in Nat
      BY <3>1, CountUp
    <3>3. Cardinality(L \ Overlapped) >= Threshold
      BY <1>2, <3>2, FeedbackAssumption
    <3>4. PICK q \in Peers(x) : rules[q] # NoRule
      BY <3>3 DEF IInv, OneRulePerPattern
    <3> QED
      BY <1>1, <3>4, PeerFacts
  <2> QED
    BY <2>1, <2>2
<1>3. ASSUME NEW x \in Requests, rules'[x] # NoRule, rules[x] = NoRule,
             NEW q \in Peers(x) \ {x}, rules'[q] # NoRule
      PROVE  <<q, x>> \in met'
  <2>1. x = r /\ q \in Requests /\ rules[q] # NoRule /\ q # r
    BY <1>1, <1>3, PeerFacts
  <2>2. pc[r] = "planned" /\ target[r] = r
    BY <1>1, <1>3, <2>1
  <2> QED
    BY <1>1, <1>3, <2>1, <2>2 DEF IInv, Plans, Inserts
<1>4. ASSUME NEW x \in Requests, NEW q \in Peers(x) \ {x},
             rules'[x] # NoRule, rules'[q] # NoRule
      PROVE  <<q, x>> \in met'
  <2>1. q \in Requests /\ x \in Peers(q) \ {q}
    BY PeerFacts
  <2>2. CASE rules[x] = NoRule
    BY <1>3, <1>4, <2>2
  <2>3. CASE rules[q] = NoRule
    BY <1>3, <1>4, <2>1, <2>3, CommitWrites DEF Overlaps
  <2>4. CASE rules[x] # NoRule /\ rules[q] # NoRule
    BY <1>1, <2>4 DEF IInv, OneRulePerPattern
  <2> QED
    BY <2>2, <2>3, <2>4
<1> QED
  BY <1>1, <1>2, <1>4 DEF OneRulePerPattern, Logged

LEMMA InvCommit ==
  ASSUME IInv, NEW r \in Requests, Commit(r)
  PROVE  IInv'
<1>1. /\ UNCHANGED <<seen, target, loaded>> /\ logs' = logs \cup {r}
      /\ r \in Running /\ TypeOK' /\ Overlaps'
      /\ \A q \in Requests : pc'[q] = IF q = r THEN "done" ELSE pc[q]
      /\ \A q \in Requests : rules[q] = NoRule /\ rules'[q] # NoRule => q = r
  BY CommitWrites
<1>2. NothingLeft'
  BY <1>1 DEF IInv, NothingLeft
<1> QED
  BY <1>1, <1>2, CommitKeepsCounts, CommitKeepsPlans, CommitKeepsEarned,
     CommitKeepsOneRule DEF IInv

LEMMA InvStep == IInv /\ [Next]_vars => IInv'
<1> SUFFICES ASSUME IInv, [Next]_vars PROVE IInv'
  OBVIOUS
<1>1. CASE UNCHANGED vars
  <2>1. RulesEarned' /\ OneRulePerPattern'
    BY <1>1, SameStore DEF vars, IInv, TypeOK
  <2>2. TypeOK' /\ Overlaps' /\ NothingLeft'
    BY <1>1 DEF vars, IInv, TypeOK, Overlaps, NothingLeft
  <2>3. Overlapped' = Overlapped
    BY <1>1, OverlapFacts DEF vars
  <2>4. Counts' /\ Plans'
    BY <1>1, <2>3 DEF vars, IInv, Counts, Confirmed, Visible, Plans, Crossed, Inserts
  <2> QED
    BY <2>1, <2>2, <2>4 DEF IInv
<1> QED
  BY <1>1, InvLog, InvCount, InvLookup, InvCommit, InvAbort DEF Next

-----------------------------------------------------------------------------
(* The inductive invariant of the requests: what overlapped, what was        *)
(* counted, and what a plan may rely on.                                     *)
THEOREM FeedbackInvariant == Spec => []IInv
BY InvInit, InvStep, PTL DEF Spec

(* Every learned category was confirmed as often as the threshold demands,   *)
(* also when requests overlap, and its count exceeds its confirmations only  *)
(* after an overlap.                                                         *)
THEOREM RulesAreEarned == Spec => []RulesEarned
<1>1. IInv => RulesEarned
  BY DEF IInv
<1> QED
  BY <1>1, FeedbackInvariant, PTL

(* Enough confirmations that ran alone leave a rule, and only requests that  *)
(* overlapped can leave two rules for one pattern.                           *)
THEOREM OneRuleUnlessOverlap == Spec => []OneRulePerPattern
<1>1. IInv => OneRulePerPattern
  BY DEF IInv
<1> QED
  BY <1>1, FeedbackInvariant, PTL
=============================================================================
