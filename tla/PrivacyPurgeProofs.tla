------------------------- MODULE PrivacyPurgeProofs -------------------------
(*****************************************************************************)
(* Machine-checked proofs about PrivacyPurge, for any emails, users and      *)
(* server processes, any size and number of batches and any number of        *)
(* restarts.                                                                 *)
(*****************************************************************************)
EXTENDS PrivacyPurge, FiniteSetTheorems, TLAPS

-----------------------------------------------------------------------------
(* The loops that have a row in hand.                                        *)

LEMMA LoopsCounted == IsFiniteSet(Loops) /\ Cardinality(Loops) \in Nat
BY PurgeAssumption, FS_CardinalityType

LEMMA FewerLoops ==
  ASSUME NEW S \in SUBSET Loops, NEW T \in SUBSET S
  PROVE  /\ Cardinality(T) \in Nat /\ Cardinality(S) \in Nat
         /\ Cardinality(T) <= Cardinality(S)
         /\ Cardinality(S) <= Cardinality(Loops)
         /\ \A l \in S : l \notin T => Cardinality(T) + 1 <= Cardinality(S)
<1>1. IsFiniteSet(S) /\ Cardinality(S) \in Nat /\ Cardinality(S) <= Cardinality(Loops)
  BY LoopsCounted, FS_Subset, FS_CardinalityType
<1>2. IsFiniteSet(T) /\ Cardinality(T) \in Nat /\ Cardinality(T) <= Cardinality(S)
  BY <1>1, FS_Subset, FS_CardinalityType
<1>3. ASSUME NEW l \in S, l \notin T PROVE Cardinality(T) + 1 <= Cardinality(S)
  <2>1. IsFiniteSet(S \ {l}) /\ Cardinality(S \ {l}) = Cardinality(S) - 1
    BY <1>1, <1>3, FS_RemoveElement
  <2>2. Cardinality(T) <= Cardinality(S \ {l})
    BY <1>3, <2>1, FS_Subset
  <2> QED
    BY <1>1, <1>2, <2>1, <2>2
<1> QED
  BY <1>1, <1>2, <1>3

(* Without a new purge or a new holder of a purged row the budget stays.     *)
LEMMA BudgetKept ==
  ASSUME AuditBudget, TypeOK, UNCHANGED <<row, audits>>,
         \A e \in Emails : row[e] = "purged" => Holders(e)' \subseteq Holders(e)
  PROVE  AuditBudget'
<1> SUFFICES ASSUME NEW e \in Emails, row[e] = "purged"
             PROVE  audits[e] + Cardinality(Holders(e)') <= Cardinality(Loops)
  BY DEF AuditBudget
<1>1. Holders(e) \in SUBSET Loops /\ Holders(e)' \in SUBSET Holders(e)
  BY DEF Holders
<1>2. Cardinality(Holders(e)') <= Cardinality(Holders(e))
       /\ Cardinality(Holders(e)') \in Nat /\ Cardinality(Holders(e)) \in Nat
  BY <1>1, FewerLoops
<1>3. audits[e] \in Nat /\ audits[e] + Cardinality(Holders(e)) <= Cardinality(Loops)
  BY DEF AuditBudget, TypeOK
<1> QED
  BY <1>2, <1>3, LoopsCounted

-----------------------------------------------------------------------------
LEMMA InvInit == Init => IInv
<1> SUFFICES ASSUME Init PROVE IInv
  OBVIOUS
<1>1. TypeOK
  BY PurgeAssumption DEF Init, TypeOK
<1>2. KeyOutlivesObject /\ RowFirst /\ InHand /\ AuditBudget
  BY DEF Init, KeyOutlivesObject, RowFirst, InHand, AuditBudget
<1> QED
  BY <1>1, <1>2 DEF IInv

(* The steps of the emails and of the bucket.                                *)
LEMMA InvMail ==
  ASSUME IInv,
         \/ \E e \in Emails : Arrive(e) \/ GraceEnds(e) \/ Ages(e) \/ Expire(e)
         \/ \E u \in Users : Schedule(u)
  PROVE  IInv'
<1> USE DEF mailVars, loopVars
<1>1. ASSUME NEW e \in Emails, Arrive(e) PROVE IInv'
  <2>1. TypeOK' /\ KeyOutlivesObject' /\ RowFirst' /\ InHand'
    BY <1>1 DEF IInv, TypeOK, KeyOutlivesObject, RowFirst, InHand, Arrive, Due
  <2>2. \A f \in Emails : Holders(f)' = Holders(f)
    BY <1>1 DEF Arrive, Holders
  <2>3. AuditBudget'
    BY <1>1, <2>2 DEF IInv, TypeOK, AuditBudget, Arrive
  <2> QED
    BY <2>1, <2>3 DEF IInv
<1>2. ASSUME \/ \E e \in Emails : GraceEnds(e) \/ Ages(e) \/ Expire(e)
             \/ \E u \in Users : Schedule(u)
      PROVE  IInv'
  <2>1. TypeOK' /\ KeyOutlivesObject' /\ RowFirst' /\ InHand'
    BY <1>2 DEF IInv, TypeOK, KeyOutlivesObject, RowFirst, InHand, Due,
                GraceEnds, Ages, Expire, Schedule
  <2>2. UNCHANGED <<row, audits, todo, staged>>
    BY <1>2 DEF GraceEnds, Ages, Expire, Schedule
  <2>3. AuditBudget'
    BY <2>2, BudgetKept DEF IInv, Holders
  <2> QED
    BY <2>1, <2>3 DEF IInv
<1> QED
  BY <1>1, <1>2

-----------------------------------------------------------------------------
(* A loop that goes to the next sweep or to sleep.                           *)
LEMMA GotoInv ==
  ASSUME TypeOK, InHand, AuditBudget, UNCHANGED mailVars, NEW l \in Loops,
         object' \subseteq object,
         NEW ph \in {"down", "sleep", "select", "delete"},
         NEW fl \in {"due", "retention"},
         NEW sc \in SUBSET Emails, NEW n \in 0 .. MaxDrainBatches,
         \A e \in sc : row[e] # "none" /\ Due(e),
         faults' \in 0 .. MaxFaults,
         Goto(l, ph, fl, sc, n)
  PROVE  TypeOK' /\ InHand' /\ AuditBudget'
<1> USE DEF mailVars
<1>1. TypeOK'
  BY DEF TypeOK, Goto
<1>2. InHand'
  BY DEF TypeOK, InHand, Goto, Due
<1>3. \A e \in Emails : Holders(e)' \subseteq Holders(e)
  BY DEF TypeOK, Holders, Goto
<1> QED
  BY <1>1, <1>2, <1>3, BudgetKept

LEMMA OverdueInScope ==
  ASSUME IInv
  PROVE  /\ Overdue \in SUBSET Emails /\ old \in SUBSET Emails /\ {} \in SUBSET Emails
         /\ \A e \in Overdue : row[e] # "none" /\ Due(e)
         /\ \A e \in old : row[e] # "none" /\ Due(e)
         /\ 0 \in 0 .. MaxDrainBatches
BY PurgeAssumption DEF IInv, TypeOK, RowFirst, Overdue, Due

LEMMA EndSweepInv ==
  ASSUME IInv, UNCHANGED <<mailVars, object, faults>>, NEW l \in Loops, EndSweep(l)
  PROVE  IInv'
<1>1. TypeOK' /\ InHand' /\ AuditBudget'
  BY OverdueInScope, GotoInv DEF EndSweep, IInv, TypeOK
<1>2. KeyOutlivesObject' /\ RowFirst'
  BY DEF IInv, KeyOutlivesObject, RowFirst, mailVars
<1> QED
  BY <1>1, <1>2 DEF IInv

LEMMA InvSelect ==
  ASSUME IInv, NEW l \in Loops, Select(l)
  PROVE  IInv'
<1> USE DEF mailVars
<1>1. PICK S \in SUBSET Left(l) : todo' = [todo EXCEPT ![l] = S]
  BY DEF Select, RandomBatch
<1>2. S \subseteq scope[l] /\ S \subseteq Emails /\ \A e \in S : row[e] = "kept"
  BY DEF Left, IInv, TypeOK
<1>3. TypeOK'
  <2>1. batches[l] # MaxDrainBatches /\ batches[l] \in 0 .. MaxDrainBatches
    BY DEF Select, Exhausted, IInv, TypeOK
  <2>2. batches[l] + 1 \in 0 .. MaxDrainBatches
    BY <2>1, PurgeAssumption
  <2> QED
    BY <1>1, <1>2, <2>2 DEF Select, IInv, TypeOK
<1>4. InHand' /\ KeyOutlivesObject' /\ RowFirst'
  BY <1>1, <1>2 DEF Select, IInv, TypeOK, InHand, KeyOutlivesObject, RowFirst, Due
<1>5. \A e \in Emails : row[e] = "purged" => Holders(e)' \subseteq Holders(e)
  BY <1>1, <1>2 DEF Select, IInv, TypeOK, Holders
<1>6. AuditBudget'
  BY <1>5, BudgetKept DEF Select, IInv
<1> QED
  BY <1>3, <1>4, <1>6 DEF IInv

LEMMA InvDelete ==
  ASSUME IInv, NEW l \in Loops, NEW e \in Emails, Deleted(l, e) \/ DeleteFailed(l, e)
  PROVE  IInv'
<1> USE DEF mailVars
<1>1. /\ e \in todo[l] /\ UNCHANGED <<mailVars, phase, flow, scope, batches, faults>>
      /\ object' = object \/ object' = object \ {e}
      /\ todo' = [todo EXCEPT ![l] = todo[l] \ {e}]
      /\ \/ staged' = staged
         \/ staged' = [staged EXCEPT ![l] = staged[l] \cup {e}] /\ object' = object \ {e}
  BY DEF Deleted, DeleteFailed, Skipped
<1>2. TypeOK'
  BY <1>1 DEF IInv, TypeOK
<1>3. InHand' /\ KeyOutlivesObject' /\ RowFirst'
  <2>1. KeyOutlivesObject' /\ RowFirst'
    BY <1>1 DEF IInv, KeyOutlivesObject, RowFirst
  <2>2. InHand'
    BY <1>1 DEF IInv, TypeOK, InHand, Due
  <2> QED
    BY <2>1, <2>2
<1>4. \A f \in Emails : Holders(f)' \subseteq Holders(f)
  BY <1>1 DEF IInv, TypeOK, Holders
<1>5. AuditBudget'
  BY <1>1, <1>4, BudgetKept DEF IInv
<1> QED
  BY <1>2, <1>3, <1>5 DEF IInv

(* The commit of a batch nulls keys of objects that are gone and gives up    *)
(* its share of the audit budget.                                            *)
LEMMA InvCommit ==
  ASSUME IInv, NEW l \in Loops, Commit(l)
  PROVE  IInv'
<1>1. CASE staged[l] = {}
  <2>1. row' = row /\ audits' = audits
    BY <1>1 DEF Commit, IInv, TypeOK
  <2> QED
    BY <1>1, <2>1, EndSweepInv DEF Commit, mailVars
<1>2. CASE staged[l] # {}
  <2>1. Goto(l, "select", flow[l], scope[l], batches[l])
    BY <1>2 DEF Commit
  <2>2. /\ staged[l] \subseteq scope[l] \ object
        /\ \A e \in staged[l] : row[e] # "none" /\ Due(e)
    BY DEF IInv, InHand
  <2>3. TypeOK'
    BY <2>1 DEF Commit, Goto, IInv, TypeOK
  <2>4. KeyOutlivesObject' /\ RowFirst'
    BY <2>2 DEF Commit, IInv, TypeOK, KeyOutlivesObject, RowFirst
  <2>5. InHand'
    BY <2>1, <2>2 DEF Commit, Goto, IInv, TypeOK, InHand, Due
  <2>6. ASSUME NEW e \in Emails
        PROVE  /\ audits'[e] > 0 <=> row'[e] = "purged"
               /\ row'[e] = "purged" =>
                    audits'[e] + Cardinality(Holders(e)') <= Cardinality(Loops)
    <3> DEFINE H == Holders(e)
               K == Holders(e)'
    <3>1. H \in SUBSET Loops /\ K \in SUBSET H /\ l \notin K
      BY <2>1 DEF Goto, IInv, TypeOK, Holders
    <3>2. /\ Cardinality(K) \in Nat /\ Cardinality(H) \in Nat
          /\ Cardinality(K) <= Cardinality(H)
          /\ l \in H => Cardinality(K) + 1 <= Cardinality(H)
          /\ Cardinality(K) + 1 <= Cardinality(Loops)
      <4> HIDE DEF H, K
      <4>1. K \in SUBSET Loops
        BY <3>1
      <4> QED
        BY <3>1, <4>1, FewerLoops
    <3>3. /\ audits[e] \in Nat
          /\ audits[e] > 0 <=> row[e] = "purged"
          /\ row[e] = "purged" => audits[e] + Cardinality(H) <= Cardinality(Loops)
      BY DEF IInv, TypeOK, AuditBudget
    <3> HIDE DEF H, K
    <3>4. CASE e \in staged[l]
      <4>1. row'[e] = "purged" /\ audits'[e] = audits[e] + 1
        BY <3>4 DEF Commit
      <4>2. l \in H
        BY <3>4 DEF Holders, H
      <4>3. audits[e] = 0 \/ row[e] = "purged"
        BY <3>3
      <4>4. audits'[e] + Cardinality(K) <= Cardinality(Loops)
        BY <3>2, <3>3, <4>1, <4>2, <4>3, LoopsCounted
      <4> QED
        BY <3>3, <4>1, <4>4 DEF K
    <3>5. CASE e \notin staged[l]
      <4>1. row'[e] = row[e] /\ audits'[e] = audits[e]
        BY <3>5 DEF Commit
      <4>2. row[e] = "purged" => audits[e] + Cardinality(K) <= Cardinality(Loops)
        BY <3>2, <3>3, LoopsCounted
      <4> QED
        BY <3>3, <4>1, <4>2 DEF K
    <3> QED
      BY <3>4, <3>5
  <2>7. AuditBudget'
    BY <2>6 DEF AuditBudget
  <2> QED
    BY <2>3, <2>4, <2>5, <2>7 DEF IInv
<1> QED
  BY <1>1, <1>2

LEMMA InvRestart ==
  ASSUME IInv, NEW l \in Loops, Boot(l) \/ Wake(l) \/ Interrupted(l)
  PROVE  IInv'
<1>1. /\ UNCHANGED mailVars /\ object' \subseteq object /\ faults' \in 0 .. MaxFaults
      /\ \/ Goto(l, "sleep", "due", {}, 0)
         \/ Goto(l, "down", "due", {}, 0)
         \/ Goto(l, "select", "due", Overdue, 0)
  BY PurgeAssumption DEF Boot, Wake, Interrupted, IInv, TypeOK
<1>2. TypeOK' /\ InHand' /\ AuditBudget'
  BY <1>1, OverdueInScope, GotoInv DEF IInv
<1>3. KeyOutlivesObject' /\ RowFirst'
  BY <1>1 DEF IInv, KeyOutlivesObject, RowFirst, mailVars
<1> QED
  BY <1>2, <1>3 DEF IInv

LEMMA InvStep == IInv /\ [Next]_vars => IInv'
<1> SUFFICES ASSUME IInv, [Next]_vars PROVE IInv'
  OBVIOUS
<1>1. ASSUME NEW l \in Loops, EndDrain(l) PROVE IInv'
  BY <1>1, EndSweepInv DEF EndDrain
<1>2. ASSUME UNCHANGED vars PROVE IInv'
  BY <1>2 DEF vars, mailVars, loopVars, IInv, TypeOK, KeyOutlivesObject, RowFirst,
              InHand, AuditBudget, Holders, Due
<1> QED
  BY <1>1, <1>2, InvMail, InvSelect, InvDelete, InvCommit, InvRestart
     DEF Next, LoopStep

(* The inductive invariant.                                                  *)
THEOREM PurgeInvariant == Spec => []IInv
BY InvInit, InvStep, PTL DEF Spec

(* No row forgets the key of an object that is still in the bucket.          *)
THEOREM KeysOutliveObjects == Spec => []KeyOutlivesObject
<1>1. IInv => KeyOutlivesObject
  BY DEF IInv
<1> QED
  BY <1>1, PurgeInvariant, PTL

(* Every purge is audited, at most once per process.                         *)
THEOREM EveryPurgeAudited == Spec => []AuditTrail
<1>1. ASSUME IInv, NEW e \in Emails PROVE audits[e] <= Cardinality(Loops)
  <2>1. Holders(e) \in SUBSET Loops
    BY DEF Holders
  <2>2. Cardinality(Holders(e)) \in Nat
    BY <2>1, FewerLoops
  <2> QED
    BY <1>1, <2>2, LoopsCounted DEF IInv, TypeOK, AuditBudget
<1>2. IInv => AuditTrail
  BY <1>1 DEF IInv, AuditBudget, AuditTrail
<1> QED
  BY <1>2, PurgeInvariant, PTL

-----------------------------------------------------------------------------
(* Refinement: every step moves the fate of some emails or of none.          *)

LEMMA FateParts ==
  /\ Fate = [e \in Emails |-> Fate[e]]
  /\ \A e \in Emails :
       /\ row[e] = "none" => Fate[e] = "absent"
       /\ row[e] = "purged" => Fate[e] = "erased"
       /\ row[e] = "kept" /\ e \notin object => Fate[e] = "gone"
       /\ row[e] = "kept" /\ e \in object /\ Due(e) => Fate[e] = "overdue"
       /\ row[e] = "kept" /\ e \in object /\ ~Due(e) => Fate[e] = "kept"
BY DEF Fate

LEMMA NewFateParts ==
  /\ Fate' = [e \in Emails |-> Fate'[e]]
  /\ \A e \in Emails :
       /\ row'[e] = "none" => Fate'[e] = "absent"
       /\ row'[e] = "purged" => Fate'[e] = "erased"
       /\ row'[e] = "kept" /\ e \notin object' => Fate'[e] = "gone"
       /\ row'[e] = "kept" /\ e \in object' /\ Due(e)' => Fate'[e] = "overdue"
       /\ row'[e] = "kept" /\ e \in object' /\ ~Due(e)' => Fate'[e] = "kept"
BY DEF Fate, Due

LEMMA MoveSome ==
  ASSUME NEW S \in SUBSET Emails, NEW from, NEW to,
         \A e \in S : Fate[e] = from /\ Fate'[e] = to,
         \A e \in Emails \ S : Fate'[e] = Fate[e]
  PROVE  Promise!Move(S, from, to)
BY NewFateParts DEF Promise!Move

LEMMA SameFate ==
  ASSUME \A e \in Emails : Fate'[e] = Fate[e]
  PROVE  UNCHANGED Fate
BY FateParts, NewFateParts

(* An object that disappears is that of an overdue email.                    *)
LEMMA LosesObject ==
  ASSUME IInv, UNCHANGED mailVars, NEW e \in Emails, Due(e), row[e] # "none",
         object' = object \ {e}
  PROVE  Promise!ErasureNext \/ UNCHANGED Fate
<1>1. Due(e)' = Due(e) /\ \A f \in Emails \ {e} : Fate'[f] = Fate[f]
  BY FateParts, NewFateParts DEF mailVars, Due, IInv, TypeOK
<1>2. CASE e \in object
  <2>1. row[e] = "kept"
    BY <1>2 DEF IInv, TypeOK, KeyOutlivesObject
  <2>2. Fate[e] = "overdue" /\ Fate'[e] = "gone"
    BY <1>1, <1>2, <2>1, FateParts, NewFateParts DEF mailVars
  <2>3. Promise!Move({e}, "overdue", "gone")
    BY <1>1, <2>2, MoveSome
  <2> QED
    BY <2>3 DEF Promise!ErasureNext
<1>3. CASE e \notin object
  <2>1. UNCHANGED <<row, object, deadline, old>>
    BY <1>3 DEF mailVars, IInv, TypeOK
  <2> QED
    BY <2>1 DEF Fate, Due
<1> QED
  BY <1>2, <1>3

LEMMA MailRefines ==
  ASSUME IInv, NEW e \in Emails, Arrive(e) \/ GraceEnds(e) \/ Ages(e) \/ Expire(e)
  PROVE  Promise!ErasureNext \/ UNCHANGED Fate
<1> USE DEF loopVars
<1>1. CASE Arrive(e)
  <2>1. Fate[e] = "absent" /\ Fate'[e] = "kept"
    BY <1>1, FateParts, NewFateParts DEF Arrive, IInv, TypeOK, RowFirst, Due
  <2>2. \A f \in Emails \ {e} : Fate'[f] = Fate[f]
    BY <1>1, FateParts, NewFateParts DEF Arrive, IInv, TypeOK, Due
  <2>3. Promise!Move({e}, "absent", "kept")
    BY <2>1, <2>2, MoveSome
  <2> QED
    BY <2>3 DEF Promise!ErasureNext
<1>2. CASE GraceEnds(e) \/ Ages(e)
  <2>1. UNCHANGED <<row, object>> /\ row[e] # "none" /\ Due(e)'
    BY <1>2 DEF GraceEnds, Ages, IInv, TypeOK, RowFirst, Due
  <2>2. \A f \in Emails \ {e} : Fate'[f] = Fate[f]
    <3>1. \A f \in Emails \ {e} : Due(f)' = Due(f)
      BY <1>2 DEF GraceEnds, Ages, IInv, TypeOK, Due
    <3> QED
      BY <2>1, <3>1, FateParts, NewFateParts DEF IInv, TypeOK
  <2>3. CASE row[e] = "kept" /\ e \in object /\ ~Due(e)
    <3>1. Fate[e] = "kept" /\ Fate'[e] = "overdue"
      BY <2>1, <2>3, FateParts, NewFateParts
    <3>2. Promise!Move({e}, "kept", "overdue")
      BY <2>2, <3>1, MoveSome
    <3> QED
      BY <3>2 DEF Promise!ErasureNext
  <2>4. CASE ~(row[e] = "kept" /\ e \in object /\ ~Due(e))
    <3>1. Fate'[e] = Fate[e]
      BY <2>1, <2>4, FateParts, NewFateParts DEF IInv, TypeOK
    <3> QED
      BY <2>2, <3>1, SameFate
  <2> QED
    BY <2>3, <2>4
<1>3. CASE Expire(e)
  <2>1. Due(e) /\ row[e] # "none"
    BY <1>3 DEF Expire, Due, IInv, RowFirst
  <2> QED
    BY <1>3, <2>1, LosesObject DEF Expire
<1> QED
  BY <1>1, <1>2, <1>3

LEMMA CommitRefines ==
  ASSUME IInv, NEW l \in Loops, Commit(l)
  PROVE  Promise!ErasureNext \/ UNCHANGED Fate
<1> DEFINE S == {e \in staged[l] : row[e] = "kept"}
<1>1. S \in SUBSET Emails /\ staged[l] \cap object = {}
  BY DEF IInv, TypeOK, InHand
<1>2. \A e \in S : Fate[e] = "gone" /\ Fate'[e] = "erased"
  BY <1>1, FateParts, NewFateParts DEF Commit
<1>3. \A e \in Emails \ S : Fate'[e] = Fate[e]
  <2>1. ASSUME NEW e \in Emails \ S PROVE row'[e] = row[e]
    BY DEF Commit, IInv, TypeOK, InHand
  <2>2. UNCHANGED <<object, deadline, old>>
    BY DEF Commit
  <2> QED
    BY <2>1, <2>2, FateParts, NewFateParts DEF IInv, TypeOK, Due
<1>4. Promise!Move(S, "gone", "erased")
  <2> HIDE DEF S
  <2> QED
    BY <1>1, <1>2, <1>3, MoveSome
<1> QED
  BY <1>1, <1>4 DEF Promise!ErasureNext

LEMMA LoopRefines ==
  ASSUME IInv, NEW l \in Loops, Boot(l) \/ LoopStep(l) \/ Interrupted(l)
  PROVE  Promise!ErasureNext \/ UNCHANGED Fate
<1>1. \A e \in todo[l] : e \in Emails /\ Due(e) /\ row[e] # "none"
  BY DEF IInv, TypeOK, InHand
<1>2. CASE Commit(l)
  BY <1>2, CommitRefines
<1>3. CASE UNCHANGED <<row, object, deadline, old>>
  BY <1>3 DEF Fate, Due
<1>4. ASSUME NEW e \in todo[l], UNCHANGED mailVars, object' = object \ {e}
      PROVE  Promise!ErasureNext \/ UNCHANGED Fate
  BY <1>1, <1>4, LosesObject
<1>5. \/ Commit(l)
      \/ UNCHANGED <<row, object, deadline, old>>
      \/ UNCHANGED mailVars /\ \E e \in todo[l] : object' = object \ {e}
  BY DEF Boot, LoopStep, Interrupted, Wake, Select, EndDrain, Deleted, DeleteFailed,
         mailVars
<1> QED
  BY <1>2, <1>3, <1>4, <1>5

(* The sweeps, however they overlap, fail and restart, implement Erasure.    *)
THEOREM PurgeImplementsErasure == Spec => ImplementsErasure
<1>1. Init => Promise!ErasureInit
  BY DEF Init, Promise!ErasureInit, Fate
<1>2. IInv /\ [Next]_vars => [Promise!ErasureNext]_Fate
  <2> SUFFICES ASSUME IInv, [Next]_vars
               PROVE  Promise!ErasureNext \/ UNCHANGED Fate
    OBVIOUS
  <2>1. ASSUME NEW u \in Users, Schedule(u) PROVE UNCHANGED Fate
    <3>1. \A e \in Emails : Due(e)' = Due(e)
      BY <2>1 DEF Schedule, IInv, TypeOK, Due
    <3> QED
      BY <2>1, <3>1, FateParts, NewFateParts, SameFate DEF Schedule, IInv, TypeOK
  <2>2. CASE UNCHANGED vars
    BY <2>2 DEF vars, mailVars, Fate, Due
  <2> QED
    BY <2>1, <2>2, MailRefines, LoopRefines DEF Next
<1> QED
  BY <1>1, <1>2, PurgeInvariant, PTL
     DEF Spec, ImplementsErasure, Promise!ErasureSpec
=============================================================================
