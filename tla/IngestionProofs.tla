-------------------------- MODULE IngestionProofs --------------------------
(*****************************************************************************)
(* Machine-checked proofs about Ingestion, for every set of messages,        *)
(* aliases and users, every limit and any number of attempts.                *)
(*****************************************************************************)
EXTENDS Ingestion, FiniteSetTheorems, TLAPS

-----------------------------------------------------------------------------
(* Deliveries and aliases.                                                   *)

LEMMA DeliveryParts ==
  /\ \A d \in Deliveries : /\ d[1] \in Messages
                           /\ d[2] \in 1 .. MaxAttempts
                           /\ AliasFor(d) \in Aliases
  /\ \A m \in Messages, k \in 1 .. MaxAttempts : <<m, k>> \in Deliveries
BY ConstantsAssumption DEF Deliveries, AliasFor

LEMMA NoTxnIsNobody == NoTxn \notin Deliveries /\ NoTxn \notin Deletions
                         /\ \A u \in Deletions : u \notin Deliveries
BY NamesAssumption

-----------------------------------------------------------------------------
(* Whatever releases a lock leaves the lock table well typed.                *)
LEMMA ReleaseType ==
  ASSUME NEW x, Release(x),
         lock \in [Aliases -> Deliveries \cup Deletions \cup {NoTxn}]
  PROVE  lock' \in [Aliases -> Deliveries \cup Deletions \cup {NoTxn}]
BY DEF Release

(* A delivery that changes places keeps pc and reply well typed.             *)
LEMMA GotoType ==
  ASSUME TypeOK, NEW d \in Deliveries,
         NEW to \in Active \cup {"done"}, NEW why \in Replies,
         Goto(d, to, why)
  PROVE  /\ pc' \in [Deliveries -> Active \cup {"idle", "done"}]
         /\ reply' \in [Deliveries -> Replies]
BY DEF TypeOK, Goto

LEMMA TypeInit == Init => TypeOK /\ QueueInv
<1> SUFFICES ASSUME Init PROVE TypeOK /\ QueueInv
  OBVIOUS
<1>1. TypeOK
  BY ConstantsAssumption DEF Init, TypeOK, RowStates, Replies, Active
<1>2. QueueInv
  BY ConstantsAssumption DEF Init, QueueInv
<1> QED
  BY <1>1, <1>2

(* The steps of the worker and of the consumer.                              *)
LEMMA TypeQueueStep ==
  ASSUME TypeOK, QueueInv, NEW m \in Messages,
         WorkerStep(m) \/ Deliver(m) \/ ConsumerTimeout(m)
  PROVE  TypeOK' /\ QueueInv'
<1> USE DEF queueVars, bucketVars, handlerVars, aliasVars, emailVars,
            deletionVars, Move
<1>1. CASE EdgeReject(m)
  BY <1>1 DEF EdgeReject, TypeOK, QueueInv
<1>2. CASE StoreRaw(m)
  BY <1>2 DEF StoreRaw, TypeOK, QueueInv
<1>3. CASE Enqueue(m)
  BY <1>3 DEF Enqueue, TypeOK, QueueInv
<1>4. CASE WorkerDies(m)
  BY <1>4 DEF WorkerDies, TypeOK, QueueInv
<1>5. CASE Deliver(m)
  <2>1. attempts[m] + 1 \in 1 .. MaxAttempts
    BY <1>5, ConstantsAssumption DEF Deliver, TypeOK, QueueInv
  <2>2. <<m, attempts[m] + 1>> \in Deliveries
    BY <2>1, DeliveryParts
  <2>3. TypeOK'
    BY <1>5, <2>1, <2>2 DEF Deliver, TypeOK, Active
  <2>4. QueueInv'
    BY <1>5 DEF Deliver, TypeOK, QueueInv
  <2> QED
    BY <2>3, <2>4
<1>6. CASE ConsumerTimeout(m)
  BY <1>6 DEF ConsumerTimeout, Retry, TypeOK, QueueInv
<1> QED
  BY <1>1, <1>2, <1>3, <1>4, <1>5, <1>6 DEF WorkerStep

(* The steps of a handler and the end of one.                                *)
LEMMA TypeHandlerStep ==
  ASSUME TypeOK, QueueInv, NEW d \in Deliveries,
         AdmitStep(d) \/ HandlerStep(d) \/ Fail(d)
  PROVE  TypeOK' /\ QueueInv'
<1> USE DeliveryParts
    DEF queueVars, bucketVars, handlerVars, aliasVars, emailVars, deletionVars
<1> DEFINE Rest == /\ queue' \in [Messages -> {"outside", "rejected", "uploaded",
                          "abandoned", "ready", "inflight", "acked", "dead"}]
                   /\ UNCHANGED <<attempts, gaveUp, aliasState>>
                   /\ objects' \subseteq Messages
                   /\ leaked' \subseteq Messages
                   /\ received' \in [Aliases -> Nat]
                   /\ firstEvents' \in [Aliases -> Nat]
                   /\ row' \in [Messages -> RowStates]
                   /\ UNCHANGED <<stamped, deletionVars>>
                   /\ recent' \subseteq Messages
           Locks == lock' \in [Aliases -> Deliveries \cup Deletions \cup {NoTxn}]
           Queued == QueueInv'
<1>a. ASSUME Rest, Locks, NEW to \in Active \cup {"done"}, NEW why \in Replies,
             Goto(d, to, why)
      PROVE  TypeOK'
  <2>1. /\ pc' \in [Deliveries -> Active \cup {"idle", "done"}]
        /\ reply' \in [Deliveries -> Replies]
    BY <1>a, GotoType
  <2> QED
    BY <1>a, <2>1 DEF TypeOK
<1>q. ASSUME queue' = queue \/ queue' = [queue EXCEPT ![d[1]] = "acked"]
               \/ (Awaited(d) /\ Retry(d[1])),
             UNCHANGED attempts
      PROVE  /\ QueueInv'
             /\ queue' \in [Messages -> {"outside", "rejected", "uploaded",
                          "abandoned", "ready", "inflight", "acked", "dead"}]
  BY <1>q DEF QueueInv, TypeOK, Retry, Awaited
<1>r. reply[d] \in Replies /\ {"failed", "inactive", "duplicate",
        "rate_limited", "stored", "missing"} \subseteq Replies
  BY DEF TypeOK, Replies
<1>s. {"check", "lock", "orphan", "fetch", "commit", "missing", "reply"}
        \subseteq Active
  BY DEF Active
<1>l. ASSUME LocksAlias(d) PROVE Locks
  BY <1>l DEF LocksAlias, TypeOK
<1>1. CASE CheckKey(d)
  <2>1. Rest /\ Locks /\ QueueInv'
    BY <1>1 DEF CheckKey, TypeOK, QueueInv
  <2>2. PICK to \in {"reply", "lock"}, why \in {"duplicate", reply[d]} :
          Goto(d, to, why)
    BY <1>1 DEF CheckKey
  <2> QED
    BY <2>1, <2>2, <1>a, <1>r, <1>s
<1>2. CASE AdmitStep(d)
  <2>1. CASE DropUnknown(d)
    BY <2>1, <1>a, <1>q, <1>r, <1>s DEF DropUnknown, TypeOK
  <2>2. CASE DropInactive(d)
    BY <2>2, <1>a, <1>q, <1>r, <1>s, <1>l DEF DropInactive, TypeOK
  <2>3. CASE DropDuplicate(d)
    BY <2>3, <1>a, <1>q, <1>r, <1>s, <1>l DEF DropDuplicate, TypeOK
  <2>4. CASE DropOverLimit(d)
    BY <2>4, <1>a, <1>q, <1>r, <1>s, <1>l DEF DropOverLimit, TypeOK
  <2>5. CASE Insert(d)
    BY <2>5, <1>a, <1>q, <1>r, <1>s, <1>l DEF Insert, TypeOK
  <2>6. CASE InsertConflict(d)
    BY <2>6, <1>a, <1>q, <1>r, <1>s DEF InsertConflict, TypeOK
  <2> QED
    BY <1>2, <2>1, <2>2, <2>3, <2>4, <2>5, <2>6 DEF AdmitStep
<1>3. CASE DeleteOrphan(d)
  BY <1>3, <1>a, <1>q, <1>r, <1>s DEF DeleteOrphan, TypeOK
<1>4. CASE Fetch(d)
  BY <1>4, <1>a, <1>q, <1>r, <1>s DEF Fetch, TypeOK
<1>5. CASE Commit(d)
  <2>1. Locks
    BY <1>5, ReleaseType DEF Commit, TypeOK
  <2>2. /\ received' \in [Aliases -> Nat]
        /\ firstEvents' \in [Aliases -> Nat]
    BY <1>5 DEF Commit, TypeOK
  <2>3. Rest
    BY <1>5, <2>2 DEF Commit, TypeOK, RowStates
  <2> QED
    BY <1>5, <1>a, <1>q, <1>r, <1>s, <2>1, <2>3 DEF Commit
<1>6. CASE CommitMissing(d)
  <2>1. Locks
    BY <1>6, ReleaseType DEF CommitMissing, TypeOK
  <2>2. Rest
    BY <1>6 DEF CommitMissing, TypeOK, RowStates
  <2> QED
    BY <1>6, <1>a, <1>q, <1>r, <1>s, <2>1, <2>2 DEF CommitMissing
<1>7. CASE Respond(d)
  <2>1. Locks
    BY <1>7, ReleaseType DEF Respond, TypeOK
  <2>2. Rest /\ QueueInv'
    BY <1>7, <1>q DEF Respond, TypeOK
  <2> QED
    BY <1>7, <1>a, <1>r, <1>s, <2>1, <2>2 DEF Respond
<1>8. CASE Fail(d)
  <2>1. Locks
    BY <1>8, ReleaseType DEF Fail, TypeOK
  <2>2. Rest /\ QueueInv'
    BY <1>8, <1>q DEF Fail, TypeOK
  <2> QED
    BY <1>8, <1>a, <1>r, <1>s, <2>1, <2>2 DEF Fail
<1> QED
  BY <1>1, <1>2, <1>3, <1>4, <1>5, <1>6, <1>7, <1>8 DEF HandlerStep

(* Alias management, user deletion and the passing of time.                  *)
LEMMA TypeAdminStep ==
  ASSUME TypeOK, QueueInv,
         \/ \E m \in Messages : AgeOut(m)
         \/ \E a \in Aliases : CreateAlias(a) \/ DeactivateAlias(a)
         \/ \E u \in Deletions : RequestDeletion(u) \/ DeletionStep(u)
                               \/ AbortDeletion(u)
  PROVE  TypeOK' /\ QueueInv'
<1> USE DEF queueVars, bucketVars, handlerVars, aliasVars, emailVars,
            deletionVars
<1>1. CASE \E m \in Messages : AgeOut(m)
  BY <1>1 DEF AgeOut, TypeOK, QueueInv
<1>2. CASE \E a \in Aliases : CreateAlias(a) \/ DeactivateAlias(a)
  BY <1>2 DEF CreateAlias, DeactivateAlias, TypeOK, QueueInv
<1>3. ASSUME NEW u \in Deletions, RequestDeletion(u)
      PROVE  TypeOK' /\ QueueInv'
  BY <1>3 DEF RequestDeletion, TypeOK, QueueInv
<1>4. ASSUME NEW u \in Deletions, DeletionStep(u) PROVE TypeOK' /\ QueueInv'
  <2>1. CASE \E a \in Aliases : FlushAlias(u, a)
    BY <2>1 DEF FlushAlias, TypeOK, QueueInv
  <2>2. CASE CommitDeletion(u)
    <3>1. lock' \in [Aliases -> Deliveries \cup Deletions \cup {NoTxn}]
      BY <2>2, ReleaseType DEF CommitDeletion, TypeOK
    <3> QED
      BY <2>2, <3>1 DEF CommitDeletion, TypeOK, QueueInv
  <2> QED
    BY <1>4, <2>1, <2>2 DEF DeletionStep
<1>5. ASSUME NEW u \in Deletions, AbortDeletion(u) PROVE TypeOK' /\ QueueInv'
  <2>1. lock' \in [Aliases -> Deliveries \cup Deletions \cup {NoTxn}]
    BY <1>5, ReleaseType DEF AbortDeletion, TypeOK
  <2> QED
    BY <1>5, <2>1 DEF AbortDeletion, TypeOK, QueueInv
<1> QED
  BY <1>1, <1>2, <1>3, <1>4, <1>5

(* Type correctness.                                                         *)
THEOREM TypeCorrect == Spec => []TypeOK
<1>1. Init => TypeOK /\ QueueInv
  BY TypeInit
<1>2. TypeOK /\ QueueInv /\ [Next]_vars => TypeOK' /\ QueueInv'
  <2> SUFFICES ASSUME TypeOK, QueueInv, [Next]_vars PROVE TypeOK' /\ QueueInv'
    OBVIOUS
  <2>1. CASE UNCHANGED vars
    BY <2>1 DEF vars, queueVars, bucketVars, handlerVars, aliasVars, emailVars,
                deletionVars, TypeOK, QueueInv
  <2>2. CASE Next
    BY <2>2, TypeQueueStep, TypeHandlerStep, TypeAdminStep DEF Next
  <2> QED
    BY <2>1, <2>2
<1> QED
  BY <1>1, <1>2, PTL DEF Spec

-----------------------------------------------------------------------------
(* The safety invariant.                                                     *)

LEMMA FiniteParts ==
  ASSUME TypeOK
  PROVE  \A a \in Aliases :
           /\ IsFiniteSet(RecentRows(a)) /\ Cardinality(RecentRows(a)) \in Nat
           /\ IsFiniteSet(Imported(a)) /\ Cardinality(Imported(a)) \in Nat
<1> SUFFICES ASSUME NEW a \in Aliases
             PROVE  /\ IsFiniteSet(RecentRows(a))
                    /\ Cardinality(RecentRows(a)) \in Nat
                    /\ IsFiniteSet(Imported(a))
                    /\ Cardinality(Imported(a)) \in Nat
  OBVIOUS
<1>1. IsFiniteSet(Messages)
  BY ConstantsAssumption
<1>2. RecentRows(a) \subseteq Messages /\ Imported(a) \subseteq Messages
  BY DEF RecentRows, Imported, TypeOK
<1>3. IsFiniteSet(RecentRows(a)) /\ IsFiniteSet(Imported(a))
  BY <1>1, <1>2, FS_Subset
<1> QED
  BY <1>3, FS_CardinalityType

LEMMA SafetyInit == Init => IInv
<1> SUFFICES ASSUME Init PROVE IInv
  OBVIOUS
<1>1. TypeOK /\ QueueInv
  BY TypeInit
<1>2. WorkInv /\ DeletionInv /\ ErasedInv /\ RecentInv /\ NoSecondCopy
  BY DeliveryParts DEF Init, WorkInv, Working, DeletionInv, ErasedInv, RecentInv,
     NoSecondCopy
<1>3. \A a \in Aliases : RecentRows(a) = {} /\ Imported(a) = {}
  BY DEF Init, RecentRows, Imported
<1>4. \A a \in Aliases : /\ Cardinality(RecentRows(a)) = 0
                         /\ Cardinality(Imported(a)) = 0
  BY <1>3, FS_EmptySet
<1>5. CountersAgree
  BY <1>4 DEF Init, CountersAgree
<1>6. RateCap
  BY <1>4, ConstantsAssumption DEF RateCap
<1> QED
  BY <1>1, <1>2, <1>5, <1>6 DEF IInv

(* A step that writes no table: whoever works afterwards worked before or    *)
(* has just decided under its lock, and holds that lock.                     *)
LEMMA NoWrite ==
  ASSUME IInv, TypeOK', QueueInv',
         UNCHANGED <<aliasVars, emailVars, deletionVars>>,
         \A d \in Deliveries :
           pc'[d] \in Working =>
             /\ lock'[AliasFor(d)] = d
             /\ pc[d] \in Working \/ (row[d[1]] = "none" /\ Admits(d)),
         \A u \in Deletions : \A a \in covers[u] : lock[a] = u => lock'[a] = u
  PROVE  IInv'
<1> USE DEF aliasVars, emailVars, deletionVars
<1>1. WorkInv'
  BY ZenonT(40) DEF IInv, WorkInv, Admits, AliasUsable, SameMessageId, OverLimit, RecentRows
<1>2. DeletionInv'
  BY DEF IInv, DeletionInv
<1>3. ErasedInv' /\ RecentInv' /\ NoSecondCopy'
  BY DEF IInv, ErasedInv, RecentInv, NoSecondCopy
<1>4. CountersAgree' /\ RateCap'
  BY DEF IInv, CountersAgree, Imported, RateCap, RecentRows
<1> QED
  BY <1>1, <1>2, <1>3, <1>4 DEF IInv

(* The steps that leave the lock table alone as well.                        *)
LEMMA NoLock ==
  ASSUME IInv, TypeOK', QueueInv',
         UNCHANGED <<aliasVars, lock, emailVars, deletionVars>>,
         \A d \in Deliveries : pc'[d] \in Working => pc[d] \in Working
  PROVE  IInv'
BY NoWrite DEF IInv, WorkInv

LEMMA QueueStepSafe ==
  ASSUME IInv, NEW m \in Messages,
         WorkerStep(m) \/ Deliver(m) \/ ConsumerTimeout(m)
  PROVE  IInv'
<1> USE DEF Working
<1>1. TypeOK' /\ QueueInv'
  BY TypeQueueStep DEF IInv
<1>2. UNCHANGED <<aliasVars, lock, emailVars, deletionVars>>
  BY DEF WorkerStep, EdgeReject, StoreRaw, Enqueue, WorkerDies, Deliver,
         ConsumerTimeout
<1>3. \A d \in Deliveries : pc'[d] \in Working => pc[d] \in Working
  BY DEF WorkerStep, EdgeReject, StoreRaw, Enqueue, WorkerDies, Deliver,
         ConsumerTimeout, handlerVars, IInv, TypeOK
<1> QED
  BY <1>1, <1>2, <1>3, NoLock

(* The steps of a handler before its INSERT, and the end of a handler.       *)
LEMMA HandlerStepSafe ==
  ASSUME IInv, NEW d \in Deliveries,
         \/ AdmitStep(d) \/ CheckKey(d) \/ DeleteOrphan(d) \/ Fetch(d)
         \/ Respond(d) \/ Fail(d)
  PROVE  IInv'
<1> USE DEF Working
<1>1. TypeOK' /\ QueueInv'
  BY TypeHandlerStep DEF IInv, HandlerStep
<1>2. CASE CheckKey(d) \/ DeleteOrphan(d) \/ Fetch(d) \/ DropUnknown(d)
             \/ InsertConflict(d)
  <2>1. UNCHANGED <<aliasVars, lock, emailVars, deletionVars>>
    BY <1>2 DEF CheckKey, DeleteOrphan, Fetch, DropUnknown, InsertConflict
  <2>2. \A e \in Deliveries : pc'[e] \in Working => pc[e] \in Working
    BY <1>2 DEF CheckKey, DeleteOrphan, Fetch, DropUnknown, InsertConflict, Goto,
                IInv, TypeOK
  <2> QED
    BY <1>1, <2>1, <2>2, NoLock
<1>3. CASE DropInactive(d) \/ DropDuplicate(d) \/ DropOverLimit(d) \/ Insert(d)
  <2>1. LocksAlias(d) /\ UNCHANGED <<aliasVars, emailVars, deletionVars>>
    BY <1>3 DEF DropInactive, DropDuplicate, DropOverLimit, Insert
  <2>2. /\ lock[AliasFor(d)] = NoTxn
        /\ lock' = [lock EXCEPT ![AliasFor(d)] = d]
    BY <2>1 DEF LocksAlias, Lockable
  <2>3. \A e \in Deliveries :
          pc'[e] \in Working =>
            \/ e # d /\ pc[e] \in Working
            \/ e = d /\ row[d[1]] = "none" /\ Admits(d)
    <3>1. CASE DropInactive(d) \/ DropDuplicate(d) \/ DropOverLimit(d)
      <4>1. pc' = [pc EXCEPT ![d] = "orphan"]
        BY <3>1 DEF DropInactive, DropDuplicate, DropOverLimit, Goto
      <4> QED
        BY <4>1 DEF IInv, TypeOK
    <3>2. CASE Insert(d)
      BY <3>2 DEF Insert, Goto, IInv, TypeOK
    <3> QED
      BY <1>3, <3>1, <3>2
  <2>4. \A e \in Deliveries : pc'[e] \in Working => lock'[AliasFor(e)] = e
    BY <2>2, <2>3, DeliveryParts, NoTxnIsNobody DEF IInv, WorkInv, TypeOK
  <2>5. \A u \in Deletions : \A a \in covers[u] : lock[a] = u => lock'[a] = u
    BY <2>2, DeliveryParts, NoTxnIsNobody DEF IInv, TypeOK
  <2> QED
    BY <1>1, <2>1, <2>3, <2>4, <2>5, NoWrite
<1>4. CASE Respond(d) \/ Fail(d)
  <2>1. Release(d) /\ UNCHANGED <<aliasVars, emailVars, deletionVars>>
    BY <1>4 DEF Respond, Fail
  <2>2. \A e \in Deliveries : pc'[e] \in Working => e # d /\ pc[e] \in Working
    BY <1>4 DEF Respond, Fail, Goto, IInv, TypeOK
  <2>3. \A e \in Deliveries : pc'[e] \in Working => lock'[AliasFor(e)] = e
    BY <2>1, <2>2, DeliveryParts DEF IInv, WorkInv, Release
  <2>4. \A u \in Deletions : \A a \in covers[u] : lock[a] = u => lock'[a] = u
    BY <2>1, NoTxnIsNobody DEF IInv, TypeOK, Release
  <2> QED
    BY <1>1, <2>1, <2>2, <2>3, <2>4, NoWrite
<1> QED
  BY <1>2, <1>3, <1>4 DEF AdmitStep

(* A row committed by a working handler.                                     *)
LEMMA RowAdded ==
  ASSUME IInv, NEW d \in Deliveries, pc[d] \in Working,
         NEW s \in {"imported", "error"},
         row' = [row EXCEPT ![d[1]] = s],
         recent' = recent \cup {d[1]},
         pc' = [pc EXCEPT ![d] = "reply"],
         Release(d), UNCHANGED <<aliasState, stamped, deletionVars>>
  PROVE  /\ WorkInv' /\ DeletionInv' /\ ErasedInv' /\ RecentInv'
         /\ NoSecondCopy' /\ RateCap'
<1> DEFINE m == d[1]
           a == AliasFor(d)
<1> USE DeliveryParts DEF deletionVars
<1>1. /\ row[m] = "none" /\ lock[a] = d /\ aliasState[a] = "active"
      /\ SameMessageId(d) = {} /\ ~OverLimit(d)
      /\ m \in Messages /\ a \in Aliases /\ AliasOf[m] = a
  BY DEF IInv, WorkInv, Admits, AliasUsable, AliasFor
<1>2. \A n \in Messages : n # m => row'[n] = row[n]
  BY DEF IInv, TypeOK
<1>3. row'[m] # "none"
  BY <1>1 DEF IInv, TypeOK
<1>4. \A b \in Aliases : b # a => RecentRows(b)' = RecentRows(b)
  BY <1>1 DEF RecentRows
<1>5. WorkInv'
  <2> SUFFICES ASSUME NEW e \in Deliveries, pc'[e] \in Working
               PROVE  /\ lock'[AliasFor(e)] = e
                      /\ row'[e[1]] = "none"
                      /\ Admits(e)'
    BY DEF WorkInv, AliasFor
  <2>1. e # d /\ pc[e] \in Working
    BY DEF IInv, TypeOK, Working
  <2>2. lock[AliasFor(e)] = e /\ row[e[1]] = "none" /\ Admits(e)
    BY <2>1 DEF IInv, WorkInv
  <2>3. AliasFor(e) # a /\ e[1] # m
    BY <1>1, <2>1, <2>2 DEF AliasFor
  <2>4. lock'[AliasFor(e)] = e /\ row'[e[1]] = "none"
    BY <1>2, <2>1, <2>2, <2>3 DEF Release
  <2>5. SameMessageId(e)' = {}
    BY <1>1, <1>2, <2>2, <2>3 DEF Admits, SameMessageId, AliasFor
  <2>6. ~OverLimit(e)'
    BY <1>4, <2>2, <2>3 DEF Admits, OverLimit, AliasFor
  <2> QED
    BY <2>2, <2>4, <2>5, <2>6 DEF Admits, AliasUsable, AliasFor
<1>6. DeletionInv'
  BY <1>1, NoTxnIsNobody DEF IInv, DeletionInv, TypeOK, Release
<1>7. ErasedInv'
  BY <1>1, <1>2 DEF IInv, ErasedInv
<1>8. RecentInv'
  BY <1>2, <1>3 DEF IInv, RecentInv, TypeOK
<1>9. NoSecondCopy'
  BY <1>1, <1>2 DEF IInv, NoSecondCopy, SameMessageId
<1>10. RateCap'
  <2> SUFFICES ASSUME RateLimit > 0, NEW b \in Aliases
               PROVE  Cardinality(RecentRows(b)') <= RateLimit
    BY DEF RateCap
  <2>1. CASE b # a
    BY <1>4, <2>1 DEF IInv, RateCap
  <2>2. CASE b = a
    <3>1. RecentRows(a)' = RecentRows(a) \cup {m}
      BY <1>1 DEF RecentRows, IInv, TypeOK
    <3>2. /\ IsFiniteSet(RecentRows(a))
          /\ Cardinality(RecentRows(a)) \in Nat
      BY <1>1, FiniteParts DEF IInv
    <3>3. Cardinality(RecentRows(a)) < RateLimit
      BY <1>1, <3>2, ConstantsAssumption DEF OverLimit
    <3>4. m \notin RecentRows(a)
      BY <1>1 DEF RecentRows, IInv, RecentInv
    <3>5. Cardinality(RecentRows(a) \cup {m}) = Cardinality(RecentRows(a)) + 1
      BY <3>2, <3>4, FS_AddElement
    <3> QED
      BY <2>2, <3>1, <3>2, <3>3, <3>5, ConstantsAssumption
  <2> QED
    BY <2>1, <2>2
<1> QED
  BY <1>5, <1>6, <1>7, <1>8, <1>9, <1>10

LEMMA CommitSafe ==
  ASSUME IInv, NEW d \in Deliveries, Commit(d)
  PROVE  IInv'
<1> DEFINE m == d[1]
           a == AliasFor(d)
<1> USE DeliveryParts
<1>1. TypeOK' /\ QueueInv'
  BY TypeHandlerStep DEF IInv, HandlerStep
<1>2. /\ WorkInv' /\ DeletionInv' /\ ErasedInv' /\ RecentInv'
      /\ NoSecondCopy' /\ RateCap'
  BY RowAdded DEF Commit, Goto, Working
<1>3. CountersAgree'
  <2>1. row[m] = "none" /\ m \in Messages /\ a \in Aliases /\ AliasOf[m] = a
    BY DEF Commit, IInv, WorkInv, Working, AliasFor
  <2>2. row' = [row EXCEPT ![m] = "imported"]
    BY DEF Commit
  <2>3. Imported(a)' = Imported(a) \cup {m}
    BY <2>1, <2>2 DEF Imported, IInv, TypeOK
  <2>4. m \notin Imported(a)
    BY <2>1 DEF Imported
  <2>5. Cardinality(Imported(a)') = Cardinality(Imported(a)) + 1
    BY <2>1, <2>3, <2>4, FiniteParts, FS_AddElement DEF IInv
  <2>6. \A b \in Aliases : b # a => Imported(b)' = Imported(b)
    BY <2>1, <2>2 DEF Imported, IInv, TypeOK
  <2> SUFFICES ASSUME NEW b \in Aliases
               PROVE  /\ received'[b] = Cardinality(Imported(b)')
                      /\ firstEvents'[b] = IF received'[b] = 0 THEN 0 ELSE 1
    BY DEF CountersAgree
  <2>7. /\ received[b] = Cardinality(Imported(b))
        /\ firstEvents[b] = IF received[b] = 0 THEN 0 ELSE 1
        /\ received[b] \in Nat /\ firstEvents[b] \in Nat
    BY DEF IInv, CountersAgree, TypeOK
  <2>8. /\ received' = [received EXCEPT ![a] = received[a] + 1]
        /\ firstEvents' = IF received[a] = 0
                          THEN [firstEvents EXCEPT ![a] = firstEvents[a] + 1]
                          ELSE firstEvents
        /\ received \in [Aliases -> Nat] /\ firstEvents \in [Aliases -> Nat]
    BY DEF Commit, IInv, TypeOK
  <2>9. CASE b = a
    BY <2>1, <2>5, <2>7, <2>8, <2>9
  <2>10. CASE b # a
    BY <2>1, <2>6, <2>7, <2>8, <2>10
  <2> QED
    BY <2>9, <2>10
<1> QED
  BY <1>1, <1>2, <1>3 DEF IInv

LEMMA CommitMissingSafe ==
  ASSUME IInv, NEW d \in Deliveries, CommitMissing(d)
  PROVE  IInv'
<1> USE DeliveryParts
<1>1. TypeOK' /\ QueueInv'
  BY TypeHandlerStep DEF IInv, HandlerStep
<1>2. /\ WorkInv' /\ DeletionInv' /\ ErasedInv' /\ RecentInv'
      /\ NoSecondCopy' /\ RateCap'
  BY RowAdded DEF CommitMissing, Goto, Working, aliasVars
<1>3. \A a \in Aliases : Imported(a)' = Imported(a)
  <2>1. row[d[1]] = "none" /\ row' = [row EXCEPT ![d[1]] = "error"]
    BY DEF CommitMissing, IInv, WorkInv, Working
  <2> QED
    BY <2>1 DEF Imported, IInv, TypeOK
<1>4. CountersAgree'
  BY <1>3 DEF CommitMissing, aliasVars, IInv, CountersAgree
<1> QED
  BY <1>1, <1>2, <1>4 DEF IInv

LEMMA AgeOutSafe ==
  ASSUME IInv, NEW m \in Messages, AgeOut(m)
  PROVE  IInv'
<1>1. TypeOK' /\ QueueInv'
  BY TypeAdminStep DEF IInv
<1>2. UNCHANGED <<pc, aliasVars, lock, row, stamped, deletionVars>>
      /\ recent' = recent \ {m}
  BY DEF AgeOut, handlerVars
<1>3. \A a \in Aliases :
        /\ Cardinality(RecentRows(a)') <= Cardinality(RecentRows(a))
        /\ Cardinality(RecentRows(a)') \in Nat
        /\ Cardinality(RecentRows(a)) \in Nat
  <2> SUFFICES ASSUME NEW a \in Aliases
               PROVE  /\ Cardinality(RecentRows(a)') <= Cardinality(RecentRows(a))
                      /\ Cardinality(RecentRows(a)') \in Nat
                      /\ Cardinality(RecentRows(a)) \in Nat
    OBVIOUS
  <2>1. IsFiniteSet(RecentRows(a)) /\ RecentRows(a)' \subseteq RecentRows(a)
    BY <1>2, FiniteParts DEF IInv, RecentRows
  <2> QED
    BY <2>1, FS_Subset, FS_CardinalityType
<1>4. WorkInv'
  <2> SUFFICES ASSUME NEW d \in Deliveries, pc'[d] \in Working
               PROVE  /\ lock'[AliasFor(d)] = d
                      /\ row'[d[1]] = "none"
                      /\ Admits(d)'
    BY DEF WorkInv, AliasFor
  <2>1. lock[AliasFor(d)] = d /\ row[d[1]] = "none" /\ Admits(d)
    BY <1>2 DEF IInv, WorkInv
  <2>2. ~OverLimit(d)'
    BY <1>3, <2>1, DeliveryParts, ConstantsAssumption
       DEF Admits, OverLimit, AliasFor
  <2> QED
    BY <1>2, <2>1, <2>2
       DEF Admits, AliasUsable, SameMessageId, AliasFor, aliasVars
<1>5. DeletionInv' /\ ErasedInv' /\ RecentInv' /\ NoSecondCopy'
  BY <1>2 DEF IInv, DeletionInv, ErasedInv, RecentInv, NoSecondCopy, aliasVars,
              deletionVars
<1>6. CountersAgree'
  BY <1>2 DEF IInv, CountersAgree, Imported, aliasVars
<1>7. RateCap'
  BY <1>3, ConstantsAssumption DEF IInv, RateCap
<1> QED
  BY <1>1, <1>4, <1>5, <1>6, <1>7 DEF IInv

(* A step that closes or opens aliases nobody works on, and nothing else.    *)
LEMMA AliasesChange ==
  ASSUME IInv, TypeOK', QueueInv',
         UNCHANGED <<pc, received, firstEvents, row, recent>>,
         \A d \in Deliveries :
           pc[d] \in Working => /\ lock'[AliasFor(d)] = d
                               /\ aliasState'[AliasFor(d)] = "active",
         DeletionInv', ErasedInv'
  PROVE  IInv'
<1>1. WorkInv'
  BY DEF IInv, WorkInv, Admits, AliasUsable, SameMessageId, OverLimit, RecentRows,
         AliasFor
<1>2. RecentInv' /\ NoSecondCopy'
  BY DEF IInv, RecentInv, NoSecondCopy
<1>3. CountersAgree' /\ RateCap'
  BY DEF IInv, CountersAgree, Imported, RateCap, RecentRows
<1> QED
  BY <1>1, <1>2, <1>3 DEF IInv

LEMMA WorkerHoldsLock ==
  ASSUME IInv, NEW d \in Deliveries, pc[d] \in Working
  PROVE  lock[AliasFor(d)] = d /\ aliasState[AliasFor(d)] = "active"
BY DEF IInv, WorkInv, Admits, AliasUsable

LEMMA AliasStepSafe ==
  ASSUME IInv, NEW a \in Aliases, CreateAlias(a) \/ DeactivateAlias(a)
  PROVE  IInv'
<1>1. TypeOK' /\ QueueInv'
  BY TypeAdminStep DEF IInv
<1>2. /\ UNCHANGED <<pc, received, firstEvents, lock, emailVars, deletionVars>>
      /\ \/ aliasState[a] = "absent"
            /\ aliasState' = [aliasState EXCEPT ![a] = "active"]
         \/ aliasState[a] = "active" /\ lock[a] = NoTxn
            /\ aliasState' = [aliasState EXCEPT ![a] = "inactive"]
  BY DEF CreateAlias, DeactivateAlias, handlerVars
<1>3. \A d \in Deliveries :
        pc[d] \in Working => /\ lock'[AliasFor(d)] = d
                            /\ aliasState'[AliasFor(d)] = "active"
  BY <1>2, WorkerHoldsLock, DeliveryParts, NoTxnIsNobody DEF IInv, TypeOK
<1>4. DeletionInv'
  BY <1>2 DEF IInv, DeletionInv, TypeOK, deletionVars
<1>5. ErasedInv'
  BY <1>2 DEF IInv, ErasedInv, TypeOK, deletionVars, emailVars
<1> QED
  BY <1>1, <1>2, <1>3, <1>4, <1>5, AliasesChange DEF emailVars

LEMMA DeletionRequestSafe ==
  ASSUME IInv, NEW u \in Deletions, RequestDeletion(u)
  PROVE  IInv'
<1>1. TypeOK' /\ QueueInv'
  BY TypeAdminStep DEF IInv
<1>2. DeletionInv'
  BY DEF RequestDeletion, IInv, DeletionInv, TypeOK, aliasVars
<1>3. ErasedInv'
  BY DEF RequestDeletion, IInv, ErasedInv, aliasVars, emailVars
<1>4. UNCHANGED <<pc, aliasVars, lock, emailVars>>
  BY DEF RequestDeletion, handlerVars
<1> QED
  BY <1>1, <1>2, <1>3, <1>4, WorkerHoldsLock, AliasesChange
     DEF aliasVars, emailVars

LEMMA FlushSafe ==
  ASSUME IInv, NEW u \in Deletions, NEW a \in Aliases, FlushAlias(u, a)
  PROVE  IInv'
<1>1. TypeOK' /\ QueueInv'
  BY TypeAdminStep DEF IInv, DeletionStep
<1>2. /\ UNCHANGED <<pc, aliasVars, emailVars, deleting, covers, erased>>
      /\ a \in toLock[u] /\ lock[a] = NoTxn
      /\ lock' = [lock EXCEPT ![a] = u]
      /\ toLock' = [toLock EXCEPT ![u] = toLock[u] \ {a}]
  BY DEF FlushAlias, handlerVars
<1>3. \A d \in Deliveries :
        pc[d] \in Working => /\ lock'[AliasFor(d)] = d
                            /\ aliasState'[AliasFor(d)] = "active"
  BY <1>2, WorkerHoldsLock, DeliveryParts, NoTxnIsNobody
     DEF IInv, TypeOK, aliasVars
<1>4. DeletionInv'
  BY <1>2, NoTxnIsNobody DEF IInv, DeletionInv, TypeOK, aliasVars
<1>5. ErasedInv'
  BY <1>2 DEF IInv, ErasedInv, aliasVars, emailVars
<1> QED
  BY <1>1, <1>2, <1>3, <1>4, <1>5, AliasesChange DEF aliasVars, emailVars

(* The end of a deletion request releases only its own locks.                *)
LEMMA ReleaseKeepsOthers ==
  ASSUME IInv, NEW u \in Deletions, Release(u)
  PROVE  /\ \A d \in Deliveries :
              pc[d] \in Working => lock'[AliasFor(d)] = d
         /\ \A v \in Deletions : \A a \in Aliases :
              v # u /\ lock[a] = v => lock'[a] = v
BY WorkerHoldsLock, DeliveryParts, NoTxnIsNobody DEF Release, IInv, TypeOK

LEMMA CommitDeletionSafe ==
  ASSUME IInv, NEW u \in Deletions, CommitDeletion(u)
  PROVE  IInv'
<1>1. TypeOK' /\ QueueInv'
  BY TypeAdminStep DEF IInv, DeletionStep
<1>2. /\ UNCHANGED <<pc, received, firstEvents, row, recent, toLock>>
      /\ toLock[u] = {}
      /\ aliasState' = [a \in Aliases |-> IF a \in covers[u] THEN "inactive"
                                           ELSE aliasState[a]]
      /\ deleting' = deleting \ {u}
      /\ covers' = [covers EXCEPT ![u] = {}]
      /\ erased' = erased \cup covers[u]
      /\ stamped' = stamped \cup
           {m \in Messages : row[m] # "none" /\ AliasOf[m] \in covers[u]}
      /\ Release(u)
  BY DEF CommitDeletion, handlerVars
<1>3. \A a \in covers[u] : aliasState[a] = "inactive" \/ lock[a] = u
  BY <1>2 DEF IInv, DeletionInv
<1>4. \A d \in Deliveries :
        pc[d] \in Working => /\ lock'[AliasFor(d)] = d
                            /\ aliasState'[AliasFor(d)] = "active"
  BY <1>2, <1>3, ReleaseKeepsOthers, WorkerHoldsLock, DeliveryParts,
     NoTxnIsNobody
<1>5. DeletionInv'
  BY <1>2, ReleaseKeepsOthers DEF IInv, DeletionInv, TypeOK
<1>6. ErasedInv'
  BY <1>2 DEF IInv, ErasedInv, TypeOK
<1> QED
  BY <1>1, <1>2, <1>4, <1>5, <1>6, AliasesChange

LEMMA AbortDeletionSafe ==
  ASSUME IInv, NEW u \in Deletions, AbortDeletion(u)
  PROVE  IInv'
<1>1. TypeOK' /\ QueueInv'
  BY TypeAdminStep DEF IInv
<1>2. /\ UNCHANGED <<pc, aliasVars, emailVars, erased>>
      /\ deleting' = deleting \ {u}
      /\ covers' = [covers EXCEPT ![u] = {}]
      /\ toLock' = [toLock EXCEPT ![u] = {}]
      /\ Release(u)
  BY DEF AbortDeletion, handlerVars
<1>3. \A d \in Deliveries :
        pc[d] \in Working => /\ lock'[AliasFor(d)] = d
                            /\ aliasState'[AliasFor(d)] = "active"
  BY <1>2, ReleaseKeepsOthers, WorkerHoldsLock DEF aliasVars
<1>4. DeletionInv'
  BY <1>2, ReleaseKeepsOthers DEF IInv, DeletionInv, TypeOK, aliasVars
<1>5. ErasedInv'
  BY <1>2 DEF IInv, ErasedInv, aliasVars, emailVars
<1> QED
  BY <1>1, <1>2, <1>3, <1>4, <1>5, AliasesChange DEF aliasVars, emailVars

LEMMA SafetyStep == IInv /\ [Next]_vars => IInv'
<1> SUFFICES ASSUME IInv, [Next]_vars PROVE IInv'
  OBVIOUS
<1>1. CASE UNCHANGED vars
  <2>1. TypeOK' /\ QueueInv'
    BY <1>1 DEF vars, queueVars, bucketVars, handlerVars, aliasVars, emailVars,
                deletionVars, IInv, TypeOK, QueueInv
  <2>2. /\ UNCHANGED <<aliasVars, lock, emailVars, deletionVars>>
        /\ \A d \in Deliveries : pc'[d] \in Working => pc[d] \in Working
    BY <1>1 DEF vars, handlerVars
  <2> QED
    BY <2>1, <2>2, NoLock
<1>2. CASE \E m \in Messages :
             WorkerStep(m) \/ Deliver(m) \/ ConsumerTimeout(m) \/ AgeOut(m)
  BY <1>2, QueueStepSafe, AgeOutSafe
<1>3. CASE \E d \in Deliveries : AdmitStep(d) \/ HandlerStep(d) \/ Fail(d)
  BY <1>3, HandlerStepSafe, CommitSafe, CommitMissingSafe DEF HandlerStep
<1>4. CASE \E a \in Aliases : CreateAlias(a) \/ DeactivateAlias(a)
  BY <1>4, AliasStepSafe
<1>5. CASE \E u \in Deletions :
             RequestDeletion(u) \/ DeletionStep(u) \/ AbortDeletion(u)
  BY <1>5, DeletionRequestSafe, FlushSafe, CommitDeletionSafe, AbortDeletionSafe
     DEF DeletionStep
<1> QED
  BY <1>1, <1>2, <1>3, <1>4, <1>5 DEF Next

(* The inductive invariant: what a handler decided under the alias lock      *)
(* stays true until it commits, and a deletion request reaches each alias.   *)
THEOREM IngestionInvariant == Spec => []IInv
BY SafetyInit, SafetyStep, PTL DEF Spec

(* The alias row lock makes the counter and the one-time event exact.        *)
THEOREM CountersAlwaysAgree == Spec => []CountersAgree
<1>1. IInv => CountersAgree
  BY DEF IInv
<1> QED
  BY <1>1, IngestionInvariant, PTL

(* No alias ever owns two rows with one Message-ID.                          *)
THEOREM NeverASecondCopy == Spec => []NoSecondCopy
<1>1. IInv => NoSecondCopy
  BY DEF IInv
<1> QED
  BY <1>1, IngestionInvariant, PTL

(* The rate limit is never exceeded inside its window.                       *)
THEOREM RateNeverExceeded == Spec => []RateCap
<1>1. IInv => RateCap
  BY DEF IInv
<1> QED
  BY <1>1, IngestionInvariant, PTL

(* A committed deletion request misses no email of the aliases it covered,   *)
(* not even one whose delivery was under way.                                *)
THEOREM DeletionMissesNothing == Spec => []DeletionReachesAll
<1>1. IInv => DeletionReachesAll
  BY ConstantsAssumption DEF IInv, ErasedInv, DeletionReachesAll
<1> QED
  BY <1>1, IngestionInvariant, PTL

-----------------------------------------------------------------------------
(* Answers: what an acknowledgement promises about the email.                *)

(* Rows and failed clean-ups stay; only an object not stored yet appears.    *)
Monotone ==
  /\ \A m \in Messages : row[m] # "none" => row'[m] # "none"
  /\ leaked \subseteq leaked'
  /\ \A m \in objects' : m \in objects \/ queue[m] = "outside"

(* So what was accounted for, or cleaned up, stays so.                       *)
LEMMA AnswersStay ==
  ASSUME Monotone
  PROVE  /\ \A d \in Deliveries :
              Accounted(d) /\ reply'[d] = reply[d] => Accounted(d)'
         /\ \A m \in Messages :
              Cleaned(m) /\ queue[m] # "outside" => Cleaned(m)'
<1>1. ASSUME NEW d \in Deliveries, Accounted(d), reply'[d] = reply[d]
      PROVE  Accounted(d)'
  BY <1>1, DeliveryParts DEF Accounted, Monotone
<1>2. ASSUME NEW m \in Messages, Cleaned(m), queue[m] # "outside"
      PROVE  Cleaned(m)'
  BY <1>2 DEF Cleaned, Monotone
<1> QED
  BY <1>1, <1>2

LEMMA AnswerInit == Init => AnswerInv
BY DEF Init, AnswerInv

(* The delivery whose answer counts is one that was made.                    *)
LEMMA LastIsDelivery ==
  ASSUME IInv, NEW m \in Messages, attempts[m] > 0
  PROVE  Last(m) \in Deliveries /\ Last(m)[1] = m /\ Last(m)[2] = attempts[m]
<1>1. attempts[m] \in 1 .. MaxAttempts
  BY ConstantsAssumption DEF IInv, TypeOK
<1> QED
  BY <1>1, DeliveryParts DEF Last

(* The worker, the consumer, the owner of the aliases and time acknowledge   *)
(* nothing and change no reason.                                             *)
LEMMA AnswerQueueStep ==
  ASSUME IInv, AnswerInv, NEW m \in Messages,
         WorkerStep(m) \/ Deliver(m) \/ ConsumerTimeout(m)
  PROVE  AnswerInv'
<1> USE DEF queueVars, bucketVars, handlerVars, aliasVars, emailVars,
            deletionVars, Move
<1>1. Monotone /\ reply' = reply
  BY DEF WorkerStep, EdgeReject, StoreRaw, Enqueue, WorkerDies, Deliver,
         ConsumerTimeout, Monotone
<1>2. \A n \in Messages : /\ queue'[n] = "outside" => queue[n] = "outside"
                          /\ queue'[n] = "acked" => queue[n] = "acked"
                                                      /\ attempts'[n] = attempts[n]
  BY DEF WorkerStep, EdgeReject, StoreRaw, Enqueue, WorkerDies, Deliver,
         ConsumerTimeout, Retry, IInv, TypeOK
<1>3. \A d \in Deliveries :
        \/ pc'[d] = pc[d]
        \/ pc'[d] = "check" /\ d[1] = m /\ queue[m] = "ready"
  <2>1. CASE Deliver(m)
    BY <2>1 DEF Deliver, IInv, TypeOK
  <2> QED
    BY <2>1 DEF WorkerStep, EdgeReject, StoreRaw, Enqueue, WorkerDies,
                ConsumerTimeout
<1>4. ASSUME NEW d \in Deliveries
      PROVE  /\ pc'[d] # "idle" => queue'[d[1]] # "outside"
             /\ pc'[d] \in {"orphan", "reply"} => Accounted(d)'
             /\ pc'[d] = "reply" => Cleaned(d[1])'
  BY <1>1, <1>2, <1>3, DeliveryParts, AnswersStay DEF AnswerInv
<1>5. ASSUME NEW n \in Messages, queue'[n] = "acked"
      PROVE  /\ attempts'[n] > 0
             /\ pc'[Last(n)'] = "done"
             /\ Accounted(Last(n))'
             /\ Cleaned(n)'
  <2>1. /\ queue[n] = "acked" /\ attempts[n] > 0 /\ Last(n)' = Last(n)
        /\ attempts'[n] = attempts[n]
    BY <1>2, <1>5 DEF AnswerInv, Last
  <2>2. Last(n) \in Deliveries /\ Last(n)[1] = n
    BY <2>1, LastIsDelivery
  <2>3. pc'[Last(n)] = "done"
    BY <1>3, <2>1, <2>2 DEF AnswerInv
  <2>4. reply'[Last(n)] = reply[Last(n)]
    BY <1>1
  <2>5. Accounted(Last(n)) /\ Cleaned(n)
    BY <2>1 DEF AnswerInv
  <2>6. Accounted(Last(n))'
    BY <1>1, <2>1, <2>2, <2>4, <2>5, AnswersStay DEF Accounted
  <2>7. Cleaned(n)'
    BY <1>1, <2>1, <2>5, AnswersStay
  <2> QED
    BY <2>1, <2>3, <2>6, <2>7
<1> QED
  BY <1>4, <1>5 DEF AnswerInv

LEMMA AnswerAdminStep ==
  ASSUME IInv, AnswerInv,
         \/ \E m \in Messages : AgeOut(m)
         \/ \E a \in Aliases : CreateAlias(a) \/ DeactivateAlias(a)
         \/ \E u \in Deletions : RequestDeletion(u) \/ DeletionStep(u)
                               \/ AbortDeletion(u)
  PROVE  AnswerInv'
<1>1. UNCHANGED <<queueVars, bucketVars, handlerVars, row>>
  BY DEF AgeOut, CreateAlias, DeactivateAlias, RequestDeletion, DeletionStep,
         FlushAlias, CommitDeletion, AbortDeletion, queueVars, bucketVars,
         handlerVars, aliasVars, emailVars, deletionVars
<1> QED
  BY <1>1 DEF AnswerInv, Accounted, Cleaned, Last, queueVars, bucketVars,
              handlerVars

(* A handler gives its reason under the lock, cleans up before it answers,   *)
(* and is the last delivery of its message if its answer is taken.           *)
LEMMA AnswerHandlerStep ==
  ASSUME IInv, AnswerInv, NEW d \in Deliveries,
         AdmitStep(d) \/ HandlerStep(d) \/ Fail(d)
  PROVE  AnswerInv'
<1> USE DeliveryParts
    DEF queueVars, bucketVars, handlerVars, aliasVars, emailVars, deletionVars
<1> DEFINE Reason == pc'[d] \in {"orphan", "reply"} => Accounted(d)'
           Tidy == pc'[d] = "reply" => Cleaned(d[1])'
           Taken == Awaited(d) /\ pc[d] = "reply" /\ pc'[d] = "done"
                      /\ reply'[d] = reply[d]
                      /\ queue' = [queue EXCEPT ![d[1]] = "acked"]
           Queue == \/ UNCHANGED queue
                    \/ Awaited(d) /\ Retry(d[1])
                    \/ Taken
<1>0. d[1] \in Messages /\ d[2] \in 1 .. MaxAttempts /\ d = <<d[1], d[2]>>
  BY DEF Deliveries
<1>1. pc[d] \in Active /\ UNCHANGED attempts
  BY DEF AdmitStep, HandlerStep, CheckKey, DropUnknown, DropInactive,
         DropDuplicate, DropOverLimit, Insert, InsertConflict, LocksAlias,
         DeleteOrphan, Fetch, Commit, CommitMissing, Respond, Fail, Active
<1>2. Monotone
  BY DEF AdmitStep, HandlerStep, CheckKey, DropUnknown, DropInactive,
         DropDuplicate, DropOverLimit, Insert, InsertConflict, DeleteOrphan,
         Fetch, Commit, CommitMissing, Respond, Fail, Monotone, IInv, TypeOK
<1>3. Queue
  BY DEF AdmitStep, HandlerStep, CheckKey, DropUnknown, DropInactive,
         DropDuplicate, DropOverLimit, Insert, InsertConflict, DeleteOrphan,
         Fetch, Commit, CommitMissing, Respond, Fail, Goto, IInv, TypeOK
<1>4. \A e \in Deliveries : e # d => pc'[e] = pc[e] /\ reply'[e] = reply[e]
  BY DEF AdmitStep, HandlerStep, CheckKey, DropUnknown, DropInactive,
         DropDuplicate, DropOverLimit, Insert, InsertConflict, DeleteOrphan,
         Fetch, Commit, CommitMissing, Respond, Fail, Goto, IInv, TypeOK
<1>5. \A n \in Messages : /\ queue'[n] = "outside" => queue[n] = "outside"
                          /\ queue'[n] = "acked" => \/ queue[n] = "acked"
                                                    \/ Taken /\ n = d[1]
  <2>1. CASE Awaited(d) /\ Retry(d[1])
    BY <1>0, <2>1 DEF Retry, IInv, TypeOK
  <2> QED
    BY <1>0, <1>3, <2>1 DEF IInv, TypeOK
<1>6. Reason /\ Tidy
  <2>1. CASE CheckKey(d)
    BY <2>1 DEF CheckKey, Goto, Accounted, Cleaned, IInv, TypeOK
  <2>2. CASE AdmitStep(d)
    <3>1. pc'[d] # "reply"
      BY <2>2 DEF AdmitStep, DropUnknown, DropInactive, DropDuplicate,
                  DropOverLimit, Insert, InsertConflict, Goto, IInv, TypeOK
    <3>2. CASE DropDuplicate(d)
      BY <3>1, <3>2 DEF DropDuplicate, Goto, SameMessageId, AliasFor,
                        Accounted, IInv, TypeOK
    <3>3. CASE ~DropDuplicate(d)
      BY <2>2, <3>1, <3>3 DEF AdmitStep, DropUnknown, DropInactive,
           DropOverLimit, Insert, InsertConflict, Goto, Accounted, IInv, TypeOK
    <3> QED
      BY <3>2, <3>3
  <2>3. CASE DeleteOrphan(d)
    <3>1. Accounted(d) /\ reply'[d] = reply[d]
      BY <2>3 DEF DeleteOrphan, Goto, AnswerInv, IInv, TypeOK
    <3>2. Cleaned(d[1])'
      BY <1>0, <2>3 DEF DeleteOrphan, Cleaned
    <3> QED
      BY <1>2, <3>1, <3>2, AnswersStay
  <2>4. CASE Fetch(d)
    BY <2>4 DEF Fetch, Goto, IInv, TypeOK
  <2>5. CASE Commit(d) \/ CommitMissing(d)
    <3>1. row'[d[1]] # "none"
      BY <1>0, <2>5 DEF Commit, CommitMissing, IInv, TypeOK
    <3> QED
      BY <3>1 DEF Accounted, Cleaned
  <2>6. CASE Respond(d) \/ Fail(d)
    BY <2>6 DEF Respond, Fail, Goto, IInv, TypeOK
  <2> QED
    BY <2>1, <2>2, <2>3, <2>4, <2>5, <2>6 DEF HandlerStep
<1>7. ASSUME NEW e \in Deliveries
      PROVE  /\ pc'[e] # "idle" => queue'[e[1]] # "outside"
             /\ pc'[e] \in {"orphan", "reply"} => Accounted(e)'
             /\ pc'[e] = "reply" => Cleaned(e[1])'
  <2>1. CASE e = d
    BY <1>0, <1>1, <1>5, <1>6, <2>1 DEF AnswerInv, Active
  <2>2. CASE e # d
    <3>1. pc'[e] = pc[e] /\ reply'[e] = reply[e] /\ e[1] \in Messages
      BY <1>4, <2>2
    <3> QED
      BY <1>2, <1>5, <3>1, AnswersStay DEF AnswerInv
  <2> QED
    BY <2>1, <2>2
<1>8. ASSUME NEW n \in Messages, queue'[n] = "acked"
      PROVE  /\ attempts'[n] > 0
             /\ pc'[Last(n)'] = "done"
             /\ Accounted(Last(n))'
             /\ Cleaned(n)'
  <2>1. Last(n)' = Last(n) /\ attempts'[n] = attempts[n]
    BY <1>1 DEF Last
  <2>2. CASE queue[n] = "acked"
    <3>1. attempts[n] > 0 /\ pc[Last(n)] = "done"
            /\ Accounted(Last(n)) /\ Cleaned(n)
      BY <2>2 DEF AnswerInv
    <3>2. Last(n) \in Deliveries /\ Last(n)[1] = n
      BY <3>1, LastIsDelivery
    <3>3. Last(n) # d
      BY <1>1, <3>1 DEF Active
    <3>4. pc'[Last(n)] = "done" /\ reply'[Last(n)] = reply[Last(n)]
      BY <1>4, <3>1, <3>2, <3>3
    <3>5. Cleaned(n)'
      BY <1>2, <2>2, <3>1, AnswersStay
    <3>6. Accounted(Last(n))'
      BY <1>2, <2>1, <3>1, <3>2, <3>4 DEF Accounted, Monotone
    <3> QED
      BY <2>1, <3>1, <3>4, <3>5, <3>6
  <2>3. CASE queue[n] # "acked"
    <3>1. Taken /\ n = d[1]
      BY <1>5, <1>8, <2>3
    <3>2. Last(n) = d /\ attempts[n] > 0
      BY <1>0, <3>1 DEF Awaited, Last
    <3>3. Accounted(d) /\ Cleaned(n) /\ queue[n] # "outside"
      BY <1>0, <3>1 DEF AnswerInv
    <3>4. Cleaned(n)'
      BY <1>2, <3>3, AnswersStay
    <3>5. Accounted(Last(n))'
      BY <1>2, <2>1, <3>1, <3>2, <3>3 DEF Accounted, Monotone
    <3> QED
      BY <2>1, <3>1, <3>2, <3>4, <3>5
  <2> QED
    BY <2>2, <2>3
<1> QED
  BY <1>7, <1>8 DEF AnswerInv

LEMMA AnswerStep == IInv /\ AnswerInv /\ [Next]_vars => AnswerInv'
<1> SUFFICES ASSUME IInv, AnswerInv, [Next]_vars PROVE AnswerInv'
  OBVIOUS
<1>1. CASE UNCHANGED vars
  BY <1>1 DEF vars, queueVars, bucketVars, handlerVars, emailVars, AnswerInv,
              Accounted, Cleaned, Last
<1>2. CASE \E m \in Messages :
             WorkerStep(m) \/ Deliver(m) \/ ConsumerTimeout(m)
  BY <1>2, AnswerQueueStep
<1>3. CASE \E d \in Deliveries : AdmitStep(d) \/ HandlerStep(d) \/ Fail(d)
  BY <1>3, AnswerHandlerStep
<1>4. CASE \/ \E m \in Messages : AgeOut(m)
           \/ \E a \in Aliases : CreateAlias(a) \/ DeactivateAlias(a)
           \/ \E u \in Deletions : RequestDeletion(u) \/ DeletionStep(u)
                                 \/ AbortDeletion(u)
  BY <1>4, AnswerAdminStep
<1> QED
  BY <1>1, <1>2, <1>3, <1>4 DEF Next

LEMMA AnswersHold == Spec => []AnswerInv
BY AnswerInit, AnswerStep, IngestionInvariant, PTL DEF Spec

(* An acknowledged email has a row, a twin with a row, or a stated reason,   *)
(* whatever became of its other deliveries.                                  *)
THEOREM AcksAreAccounted == Spec => []AckAccounted
<1>1. AnswerInv => AckAccounted
  BY DEF AnswerInv, AckAccounted
<1> QED
  BY <1>1, AnswersHold, PTL

(* An acknowledged message leaves no object that nobody owns, unless its     *)
(* clean-up failed.                                                          *)
THEOREM NoObjectAstray == Spec => []NoStrayObject
<1>1. AnswerInv => NoStrayObject
  BY DEF AnswerInv, NoStrayObject
<1> QED
  BY <1>1, AnswersHold, PTL

-----------------------------------------------------------------------------
(* As long as the consumer waits, a message has one handler at a time.       *)

LEMMA PatientInit == Init => PatientInv
BY DEF Init, PatientInv, OwnedObjectKept, Active

LEMMA PatientQueueStep ==
  ASSUME IInv, PatientInv, NEW m \in Messages,
         WorkerStep(m) \/ Deliver(m) \/ ConsumerTimeout(m)
  PROVE  PatientInv'
<1> USE DeliveryParts
    DEF queueVars, bucketVars, handlerVars, aliasVars, emailVars,
        deletionVars, Move
<1>1. row' = row /\ objects \subseteq objects'
  BY DEF WorkerStep, EdgeReject, StoreRaw, Enqueue, WorkerDies, Deliver,
         ConsumerTimeout
<1>2. CASE WorkerStep(m)
  <2>1. /\ pc' = pc /\ attempts' = attempts
        /\ \A n \in Messages : queue[n] = "inflight" => queue'[n] = queue[n]
    BY <1>2 DEF WorkerStep, EdgeReject, StoreRaw, Enqueue, WorkerDies, IInv,
                TypeOK
  <2> QED
    BY <1>1, <1>2, <2>1
       DEF WorkerStep, EdgeReject, StoreRaw, Enqueue, WorkerDies, PatientInv, Awaited,
           OwnedObjectKept
<1>3. CASE Deliver(m)
  <2>1. \A d \in Deliveries :
          \/ pc'[d] = pc[d] /\ d[1] # m
          \/ pc'[d] = pc[d] /\ (pc[d] \notin Active \/ d[1] \in gaveUp)
          \/ pc'[d] = "check" /\ d[1] = m /\ d[2] = attempts[m] + 1
    BY <1>3 DEF Deliver, PatientInv, Awaited, IInv, TypeOK
  <2>2. \A d \in Deliveries : d[1] \notin gaveUp /\ pc'[d] \in Active => Awaited(d)'
    BY <1>3, <2>1 DEF Deliver, PatientInv, Awaited, IInv, TypeOK
  <2> QED
    BY <1>1, <1>3, <2>1, <2>2 DEF Deliver, PatientInv, OwnedObjectKept, Active
<1>4. CASE ConsumerTimeout(m)
  <2>1. /\ UNCHANGED <<attempts, pc>> /\ gaveUp' = gaveUp \cup {m}
        /\ \A n \in Messages : n # m => queue'[n] = queue[n]
    BY <1>4 DEF ConsumerTimeout, Retry, IInv, TypeOK
  <2> QED
    BY <1>1, <2>1 DEF PatientInv, Awaited, OwnedObjectKept
<1> QED
  BY <1>2, <1>3, <1>4

LEMMA PatientAdminStep ==
  ASSUME PatientInv,
         \/ \E m \in Messages : AgeOut(m)
         \/ \E a \in Aliases : CreateAlias(a) \/ DeactivateAlias(a)
         \/ \E u \in Deletions : RequestDeletion(u) \/ DeletionStep(u)
                               \/ AbortDeletion(u)
  PROVE  PatientInv'
<1>1. UNCHANGED <<queueVars, bucketVars, handlerVars, row>>
  BY DEF AgeOut, CreateAlias, DeactivateAlias, RequestDeletion, DeletionStep,
         FlushAlias, CommitDeletion, AbortDeletion, queueVars, bucketVars,
         handlerVars, aliasVars, emailVars, deletionVars
<1> QED
  BY <1>1 DEF PatientInv, Awaited, OwnedObjectKept, queueVars, bucketVars,
              handlerVars

(* The only handler of a message cannot be overtaken by a committed row.     *)
LEMMA PatientHandlerStep ==
  ASSUME IInv, PatientInv, NEW d \in Deliveries,
         AdmitStep(d) \/ HandlerStep(d) \/ Fail(d)
  PROVE  PatientInv'
<1> USE DeliveryParts
    DEF queueVars, bucketVars, handlerVars, aliasVars, emailVars, deletionVars
<1>0. d[1] \in Messages /\ d[2] \in 1 .. MaxAttempts /\ d = <<d[1], d[2]>>
  BY DEF Deliveries
<1>1. pc[d] \in Active /\ UNCHANGED <<attempts, gaveUp>>
  BY DEF AdmitStep, HandlerStep, CheckKey, DropUnknown, DropInactive,
         DropDuplicate, DropOverLimit, Insert, InsertConflict, LocksAlias,
         DeleteOrphan, Fetch, Commit, CommitMissing, Respond, Fail, Active
<1>2. \A e \in Deliveries : e # d => pc'[e] = pc[e]
  BY DEF AdmitStep, HandlerStep, CheckKey, DropUnknown, DropInactive,
         DropDuplicate, DropOverLimit, Insert, InsertConflict, DeleteOrphan,
         Fetch, Commit, CommitMissing, Respond, Fail, Goto, IInv, TypeOK
<1>3. d[1] \notin gaveUp =>
        \A e \in Deliveries : e # d /\ pc[e] \in Active => e[1] # d[1]
  BY <1>0, <1>1 DEF PatientInv, Awaited, Deliveries
<1>4. \A n \in Messages : n # d[1] => /\ queue'[n] = queue[n]
                                      /\ row'[n] = row[n]
                                      /\ n \in objects' <=> n \in objects
  BY DEF AdmitStep, HandlerStep, CheckKey, DropUnknown, DropInactive,
         DropDuplicate, DropOverLimit, Insert, InsertConflict, DeleteOrphan,
         Fetch, Commit, CommitMissing, Respond, Fail, Retry, IInv, TypeOK
<1>5. d[1] \notin gaveUp =>
        /\ pc'[d] \in Active => queue'[d[1]] = queue[d[1]]
        /\ pc'[d] \in {"lock", "orphan"} => row'[d[1]] = "none"
        /\ pc'[d] = "commit" => d[1] \in objects'
        /\ row'[d[1]] = "imported" => d[1] \in objects'
  <2>1. CASE CheckKey(d) \/ Fetch(d) \/ DeleteOrphan(d)
    BY <1>0, <2>1 DEF CheckKey, Fetch, DeleteOrphan, Goto, PatientInv,
         OwnedObjectKept, IInv, TypeOK, Active, RowStates
  <2>2. CASE AdmitStep(d)
    BY <1>0, <2>2 DEF AdmitStep, DropUnknown, DropInactive, DropDuplicate,
         DropOverLimit, Insert, InsertConflict, LocksAlias, Goto, PatientInv,
         OwnedObjectKept, IInv, TypeOK, Active
  <2>3. CASE Commit(d) \/ CommitMissing(d)
    BY <1>0, <2>3 DEF Commit, CommitMissing, Goto, PatientInv, IInv, TypeOK,
         Active
  <2>4. CASE Respond(d) \/ Fail(d)
    BY <1>0, <2>4 DEF Respond, Fail, Goto, PatientInv, OwnedObjectKept, IInv,
         TypeOK, Active
  <2> QED
    BY <2>1, <2>2, <2>3, <2>4 DEF HandlerStep
<1>6. ASSUME NEW e \in Deliveries, e[1] \notin gaveUp
      PROVE  /\ pc'[e] \in Active => Awaited(e)'
             /\ pc'[e] \in {"lock", "orphan"} => row'[e[1]] = "none"
             /\ pc'[e] = "commit" => e[1] \in objects'
  <2>1. CASE e = d
    BY <1>1, <1>5, <1>6, <2>1 DEF PatientInv, Awaited
  <2>2. CASE e # d
    BY <1>1, <1>2, <1>3, <1>4, <1>6, <2>2 DEF PatientInv, Awaited, Active
  <2> QED
    BY <2>1, <2>2
<1>7. OwnedObjectKept'
  BY <1>1, <1>4, <1>5 DEF PatientInv, OwnedObjectKept
<1> QED
  BY <1>1, <1>6, <1>7 DEF PatientInv

(* The clean-up of orphans takes an object that a row owns only if the       *)
(* consumer has stopped waiting for a handler of the message.                *)
THEOREM PatienceKeepsObjects == Spec => []OwnedObjectKept
<1>1. IInv /\ PatientInv /\ [Next]_vars => PatientInv'
  <2> SUFFICES ASSUME IInv, PatientInv, [Next]_vars PROVE PatientInv'
    OBVIOUS
  <2>1. CASE UNCHANGED vars
    BY <2>1 DEF vars, queueVars, bucketVars, handlerVars, emailVars,
                PatientInv, Awaited, OwnedObjectKept
  <2>2. CASE \E m \in Messages :
               WorkerStep(m) \/ Deliver(m) \/ ConsumerTimeout(m)
    BY <2>2, PatientQueueStep
  <2>3. CASE \E d \in Deliveries : AdmitStep(d) \/ HandlerStep(d) \/ Fail(d)
    BY <2>3, PatientHandlerStep
  <2>4. CASE \/ \E m \in Messages : AgeOut(m)
             \/ \E a \in Aliases : CreateAlias(a) \/ DeactivateAlias(a)
             \/ \E u \in Deletions : RequestDeletion(u) \/ DeletionStep(u)
                                   \/ AbortDeletion(u)
    BY <2>4, PatientAdminStep
  <2> QED
    BY <2>1, <2>2, <2>3, <2>4 DEF Next
<1>2. PatientInv => OwnedObjectKept
  BY DEF PatientInv
<1> QED
  BY <1>1, <1>2, PatientInit, IngestionInvariant, PTL DEF Spec

-----------------------------------------------------------------------------
(* Refinement: every step of the path is a step of the mailbox or stutters.  *)

(* What a working handler decided under the lock is the mailbox's guard.     *)
LEMMA WorkIsAdmissible ==
  ASSUME IInv, NEW d \in Deliveries, pc[d] \in Working
  PROVE  Contract!Admissible(d[1])
<1>1. row[d[1]] = "none" /\ Admits(d) /\ d[1] \in Messages
  BY DeliveryParts DEF IInv, WorkInv
<1>2. ASSUME RateLimit > 0
      PROVE  Cardinality({n \in recent : AliasOf[n] = AliasOf[d[1]]}) < RateLimit
  <2>1. Cardinality(RecentRows(AliasFor(d))) \in Nat
    BY FiniteParts, DeliveryParts DEF IInv
  <2>2. ~(Cardinality(RecentRows(AliasFor(d))) >= RateLimit)
    BY <1>1, <1>2 DEF Admits, OverLimit
  <2> QED
    BY <2>1, <2>2, ConstantsAssumption DEF RecentRows, AliasFor
<1>3. ASSUME MidOf[d[1]] # NoMessageId, NEW n \in Messages,
             AliasOf[n] = AliasOf[d[1]], MidOf[n] = MidOf[d[1]]
      PROVE  row[n] = "none"
  BY <1>1, <1>3 DEF Admits, SameMessageId, AliasFor
<1>4. aliasState[AliasOf[d[1]]] = "active"
  BY <1>1 DEF Admits, AliasUsable, AliasFor
<1>5. \A S : Contract!Cardinality(S) = Cardinality(S)
  BY DEF Contract!Cardinality, Cardinality
<1> QED
  BY <1>1, <1>2, <1>3, <1>4, <1>5 DEF Contract!Admissible

LEMMA RefinementInit == Init => Contract!MailboxInit
BY DEF Init, Contract!MailboxInit

LEMMA CommitRefines ==
  ASSUME IInv, NEW d \in Deliveries, Commit(d) \/ CommitMissing(d)
  PROVE  Contract!MailboxNext
<1>1. pc[d] \in Working /\ d[1] \in Messages
  BY DeliveryParts DEF Commit, CommitMissing, Working
<1>2. Contract!Admissible(d[1])
  BY <1>1, WorkIsAdmissible
<1>3. CASE Commit(d)
  <2>1. Contract!Import(d[1])
    BY <1>2, <1>3 DEF Commit, Contract!Import, AliasFor
  <2> QED
    BY <1>1, <2>1 DEF Contract!MailboxNext
<1>4. CASE CommitMissing(d)
  <2>1. Contract!ImportMissing(d[1])
    BY <1>2, <1>4 DEF CommitMissing, Contract!ImportMissing, aliasVars
  <2> QED
    BY <1>1, <2>1 DEF Contract!MailboxNext
<1> QED
  BY <1>3, <1>4

LEMMA AdminRefines ==
  ASSUME IInv,
         \/ \E m \in Messages : AgeOut(m)
         \/ \E a \in Aliases : CreateAlias(a) \/ DeactivateAlias(a)
         \/ \E u \in Deletions : CommitDeletion(u)
  PROVE  Contract!MailboxNext
<1>1. ASSUME NEW m \in Messages, AgeOut(m) PROVE Contract!Age(m)
  BY <1>1 DEF AgeOut, Contract!Age, aliasVars
<1>2. ASSUME NEW a \in Aliases, CreateAlias(a) PROVE Contract!Open(a)
  BY <1>2 DEF CreateAlias, Contract!Open, emailVars
<1>3. ASSUME NEW a \in Aliases, DeactivateAlias(a) PROVE Contract!Close(a)
  BY <1>3 DEF DeactivateAlias, Contract!Close, emailVars
<1>4. ASSUME NEW u \in Deletions, CommitDeletion(u)
      PROVE  covers[u] \in SUBSET Aliases /\ Contract!Erase(covers[u])
  BY <1>4 DEF CommitDeletion, Contract!Erase, IInv, DeletionInv, TypeOK
<1> QED
  BY <1>1, <1>2, <1>3, <1>4 DEF Contract!MailboxNext

(* The ingestion path implements the atomic mailbox.                         *)
THEOREM IngestionImplementsMailbox == Spec => ImplementsMailbox
<1> USE DEF Contract!mailboxVars
<1>1. IInv /\ [Next]_vars => [Contract!MailboxNext]_(Contract!mailboxVars)
  <2> SUFFICES ASSUME IInv, [Next]_vars
               PROVE  Contract!MailboxNext \/ UNCHANGED Contract!mailboxVars
    OBVIOUS
  <2> USE DEF aliasVars, emailVars
  <2>1. CASE UNCHANGED vars
    BY <2>1 DEF vars
  <2>2. ASSUME NEW m \in Messages,
               WorkerStep(m) \/ Deliver(m) \/ ConsumerTimeout(m)
        PROVE  UNCHANGED Contract!mailboxVars
    BY <2>2 DEF WorkerStep, EdgeReject, StoreRaw, Enqueue, WorkerDies, Deliver,
                ConsumerTimeout
  <2>3. ASSUME NEW d \in Deliveries,
               \/ AdmitStep(d) \/ CheckKey(d) \/ DeleteOrphan(d) \/ Fetch(d)
               \/ Respond(d) \/ Fail(d)
        PROVE  UNCHANGED Contract!mailboxVars
    BY <2>3 DEF AdmitStep, DropUnknown, DropInactive, DropDuplicate, DropOverLimit,
                Insert, InsertConflict, CheckKey, DeleteOrphan, Fetch, Respond, Fail
  <2>4. ASSUME NEW u \in Deletions,
               \/ RequestDeletion(u) \/ AbortDeletion(u)
               \/ \E a \in Aliases : FlushAlias(u, a)
        PROVE  UNCHANGED Contract!mailboxVars
    BY <2>4 DEF RequestDeletion, AbortDeletion, FlushAlias
  <2> QED
    BY <2>1, <2>2, <2>3, <2>4, CommitRefines, AdminRefines
       DEF Next, HandlerStep, DeletionStep
<1> QED
  BY RefinementInit, <1>1, IngestionInvariant, PTL
     DEF Spec, ImplementsMailbox, Contract!MailboxSpec

=============================================================================
