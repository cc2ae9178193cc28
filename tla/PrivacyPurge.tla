---------------------------- MODULE PrivacyPurge ----------------------------
(*****************************************************************************)
(* The maintenance loop of a server process: every hour it purges the raw    *)
(* emails whose deletion was requested and whose grace period is over, then  *)
(* those older than the retention period.  A sweep drains its emails in      *)
(* batches; a batch deletes objects one by one without holding a lock, and   *)
(* one commit writes the audit rows and nulls r2_key.  During a deploy two   *)
(* processes run the loop; a restart may end it anywhere.                    *)
(*                                                                           *)
(* The periods are abstracted to the facts that they are over; a sweep       *)
(* reads the clock once, so its scope is the emails overdue at its start.    *)
(*****************************************************************************)
EXTENDS Integers, FiniteSets

CONSTANTS
  Emails,            \* rows of imported_emails
  Users, UserOf,
  Stuck,             \* emails whose object cannot be deleted
  Loops,             \* server processes that run the maintenance loop
  PurgeBatch, MaxDrainBatches,
  MaxFaults          \* bound on restarts and database errors

ASSUME PurgeAssumption ==
  /\ IsFiniteSet(Emails) /\ IsFiniteSet(Loops)
  /\ UserOf \in [Emails -> Users]
  /\ Stuck \subseteq Emails
  /\ PurgeBatch \in Nat \ {0}
  /\ MaxDrainBatches \in Nat \ {0}
  /\ MaxFaults \in Nat

VARIABLES
  row,        \* none, kept (r2_key set) or purged (r2_key NULL)
  object,     \* emails whose raw object is in the bucket
  deadline,   \* pending_deletion_at: none, grace (in the future) or over
  old,        \* emails received before the retention period
  audits,     \* rows with action raw_email_purged
  phase,      \* of a loop: down, sleep, select or delete
  flow,       \* the sweep it is in: due or retention
  scope,      \* emails that were overdue when the sweep read the clock
  batches,    \* batches of this sweep so far
  todo,       \* rows of the batch that are not deleted yet
  staged,     \* rows of the batch to be nulled by its commit
  faults

mailVars == <<row, deadline, old, audits>>
loopVars == <<phase, flow, scope, batches, todo, staged>>
vars == <<mailVars, object, loopVars, faults>>

Init ==
  /\ row = [e \in Emails |-> "none"]
  /\ object = {}
  /\ deadline = [e \in Emails |-> "none"]
  /\ old = {}
  /\ audits = [e \in Emails |-> 0]
  /\ phase = [l \in Loops |-> "down"]
  /\ flow = [l \in Loops |-> "due"]
  /\ scope = [l \in Loops |-> {}]
  /\ batches = [l \in Loops |-> 0]
  /\ todo = [l \in Loops |-> {}]
  /\ staged = [l \in Loops |-> {}]
  /\ faults = 0

-----------------------------------------------------------------------------
(* The emails.                                                               *)

(* Ingestion commits the row of an email whose object the worker stored.     *)
Arrive(e) ==
  /\ row[e] = "none"
  /\ row' = [row EXCEPT ![e] = "kept"]
  /\ object' = object \cup {e}
  /\ UNCHANGED <<deadline, old, audits, loopVars, faults>>

(* DELETE /users/{id}/data stamps the emails that still have a key and are   *)
(* not scheduled yet.                                                        *)
Schedule(u) ==
  /\ deadline' = [e \in Emails |->
                    IF UserOf[e] = u /\ row[e] = "kept" /\ deadline[e] = "none"
                    THEN "grace" ELSE deadline[e]]
  /\ UNCHANGED <<row, object, old, audits, loopVars, faults>>

GraceEnds(e) ==
  /\ deadline[e] = "grace"
  /\ deadline' = [deadline EXCEPT ![e] = "over"]
  /\ UNCHANGED <<row, object, old, audits, loopVars, faults>>

Ages(e) ==
  /\ row[e] # "none"
  /\ old' = old \cup {e}
  /\ UNCHANGED <<row, object, deadline, audits, loopVars, faults>>

(* The lifecycle rule of the bucket.                                         *)
Expire(e) ==
  /\ e \in old
  /\ object' = object \ {e}
  /\ UNCHANGED <<mailVars, loopVars, faults>>

-----------------------------------------------------------------------------
(* The maintenance loop.                                                     *)

Stamped == {e \in Emails : deadline[e] # "none"}
Overdue == {e \in Emails : deadline[e] = "over"}

(* Rows a query of this sweep returns, with or without "r2_key is not null". *)
InScope(l) == scope[l]
Left(l) == {e \in scope[l] : row[e] = "kept"}

Exhausted(l) == batches[l] = MaxDrainBatches

Goto(l, ph, fl, sc, n) ==
  /\ phase' = [phase EXCEPT ![l] = ph]
  /\ flow' = [flow EXCEPT ![l] = fl]
  /\ scope' = [scope EXCEPT ![l] = sc]
  /\ batches' = [batches EXCEPT ![l] = n]
  /\ todo' = [todo EXCEPT ![l] = {}]
  /\ staged' = [staged EXCEPT ![l] = {}]

(* The retention sweep follows the purge of due emails, in a session of its  *)
(* own.                                                                      *)
EndSweep(l) ==
  IF flow[l] = "due" THEN Goto(l, "select", "retention", old, 0)
  ELSE Goto(l, "sleep", "due", {}, 0)

Boot(l) ==
  /\ phase[l] = "down"
  /\ Goto(l, "sleep", "due", {}, 0)
  /\ UNCHANGED <<mailVars, object, faults>>

Wake(l) ==
  /\ phase[l] = "sleep"
  /\ Goto(l, "select", "due", Overdue, 0)
  /\ UNCHANGED <<mailVars, object, faults>>

(* A batch in random order, or always in the same.                           *)
FixedBatch(l, n) == {CHOOSE S \in SUBSET Left(l) : Cardinality(S) = n}
RandomBatch(l, n) == {S \in SUBSET Left(l) : Cardinality(S) = n}

Select(l) ==
  LET n == IF Cardinality(Left(l)) < PurgeBatch THEN Cardinality(Left(l))
           ELSE PurgeBatch
  IN  /\ phase[l] = "select"
      /\ ~Exhausted(l)
      /\ n > 0
      /\ \E S \in RandomBatch(l, n) : todo' = [todo EXCEPT ![l] = S]
      /\ phase' = [phase EXCEPT ![l] = "delete"]
      /\ batches' = [batches EXCEPT ![l] = batches[l] + 1]
      /\ UNCHANGED <<mailVars, object, flow, scope, staged, faults>>

EndDrain(l) ==
  /\ phase[l] = "select"
  /\ Exhausted(l) \/ Left(l) = {}
  /\ EndSweep(l)
  /\ UNCHANGED <<mailVars, object, faults>>

(* Deleting an object that is missing succeeds.                              *)
Deleted(l, e) ==
  /\ e \in todo[l] \ Stuck
  /\ object' = object \ {e}
  /\ todo' = [todo EXCEPT ![l] = todo[l] \ {e}]
  /\ staged' = [staged EXCEPT ![l] = staged[l] \cup {e}]
  /\ UNCHANGED <<mailVars, phase, flow, scope, batches, faults>>

(* The row is left for the next sweep; the object may be gone although the   *)
(* answer was an error.                                                      *)
NotedAnyway(l, e) == staged' = [staged EXCEPT ![l] = staged[l] \cup {e}]
Skipped(l, e) == UNCHANGED staged
DeleteFailed(l, e) ==
  /\ e \in todo[l]
  /\ \/ UNCHANGED object
     \/ e \notin Stuck /\ object' = object \ {e}
  /\ todo' = [todo EXCEPT ![l] = todo[l] \ {e}]
  /\ Skipped(l, e)
  /\ UNCHANGED <<mailVars, phase, flow, scope, batches, faults>>

(* One commit per batch; a batch that purged nothing ends the sweep.         *)
Commit(l) ==
  /\ phase[l] = "delete"
  /\ todo[l] = {}
  /\ row' = [e \in Emails |-> IF e \in staged[l] THEN "purged" ELSE row[e]]
  /\ audits' = [e \in Emails |-> IF e \in staged[l] THEN audits[e] + 1 ELSE audits[e]]
  /\ IF staged[l] = {} THEN EndSweep(l)
     ELSE Goto(l, "select", flow[l], scope[l], batches[l])
  /\ UNCHANGED <<object, deadline, old, faults>>

(* A database error rolls the batch back and the loop sleeps for an hour, a  *)
(* restart ends it; a deletion under way may still be carried out.           *)
Interrupted(l) ==
  /\ phase[l] # "down"
  /\ faults < MaxFaults
  /\ faults' = faults + 1
  /\ Goto(l, "sleep", "due", {}, 0) \/ Goto(l, "down", "due", {}, 0)
  /\ \/ UNCHANGED object
     \/ \E e \in todo[l] \ Stuck : object' = object \ {e}
  /\ UNCHANGED mailVars

LoopStep(l) ==
  \/ Wake(l) \/ Select(l) \/ EndDrain(l) \/ Commit(l)
  \/ \E e \in Emails : Deleted(l, e) \/ DeleteFailed(l, e)

Next ==
  \/ \E e \in Emails : Arrive(e) \/ GraceEnds(e) \/ Ages(e) \/ Expire(e)
  \/ \E u \in Users : Schedule(u)
  \/ \E l \in Loops : Boot(l) \/ LoopStep(l) \/ Interrupted(l)

Spec == Init /\ [][Next]_vars

(* The event loop resumes the sweeps; a random batch contains a row that can *)
(* be deleted again and again, and its deletion succeeds sooner or later.    *)
FairSpec ==
  /\ Spec
  /\ \A l \in Loops : WF_vars(Boot(l)) /\ WF_vars(LoopStep(l))
  /\ SF_vars(\E l \in Loops : Select(l) /\ todo'[l] \ Stuck # {})
  /\ SF_vars(\E l \in Loops, e \in Emails : Deleted(l, e))

-----------------------------------------------------------------------------
(* Every variable keeps its type; a sweep ends after MaxDrainBatches.        *)
TypeOK ==
  /\ row \in [Emails -> {"none", "kept", "purged"}]
  /\ object \subseteq Emails
  /\ deadline \in [Emails -> {"none", "grace", "over"}]
  /\ old \subseteq Emails
  /\ audits \in [Emails -> Nat]
  /\ phase \in [Loops -> {"down", "sleep", "select", "delete"}]
  /\ flow \in [Loops -> {"due", "retention"}]
  /\ scope \in [Loops -> SUBSET Emails]
  /\ batches \in [Loops -> 0 .. MaxDrainBatches]
  /\ todo \in [Loops -> SUBSET Emails]
  /\ staged \in [Loops -> SUBSET Emails]
  /\ faults \in 0 .. MaxFaults

(* A row forgets its key only when the object is gone: no failed deletion,   *)
(* overlap of two sweeps or restart leaves a raw email in the bucket that no *)
(* later sweep can find.                                                     *)
KeyOutlivesObject == \A e \in object : row[e] # "purged"

(* A row that lost its key has an audit row, no other row has one, and       *)
(* sweeps that overlap are the only reason for more than one: each process   *)
(* writes at most one, whatever restarts roll back.                          *)
AuditTrail ==
  \A e \in Emails :
    /\ audits[e] > 0 <=> row[e] = "purged"
    /\ audits[e] <= Cardinality(Loops)

(* The fate of each raw email.                                               *)
Due(e) == deadline[e] = "over" \/ e \in old
Fate ==
  [e \in Emails |->
     CASE row[e] = "none" -> "absent"
       [] row[e] = "purged" -> "erased"
       [] row[e] = "kept" /\ e \notin object -> "gone"
       [] row[e] = "kept" /\ e \in object /\ Due(e) -> "overdue"
       [] OTHER -> "kept"]

(* What the properties rest on: facts about an email need its row, a loop    *)
(* works on overdue rows, what it has staged is gone from the bucket, and    *)
(* the loops that still have a row in hand are the only ones that can audit  *)
(* it again.                                                                 *)
RowFirst ==
  \A e \in Emails :
    row[e] = "none" => e \notin object /\ e \notin old /\ deadline[e] = "none"
InHand ==
  \A l \in Loops :
    /\ \A e \in scope[l] : row[e] # "none" /\ Due(e)
    /\ todo[l] \subseteq scope[l]
    /\ staged[l] \subseteq scope[l] \ object
Holders(e) == {l \in Loops : e \in todo[l] \cup staged[l]}
AuditBudget ==
  \A e \in Emails :
    /\ audits[e] > 0 <=> row[e] = "purged"
    /\ row[e] = "purged" => audits[e] + Cardinality(Holders(e)) <= Cardinality(Loops)
IInv == TypeOK /\ KeyOutlivesObject /\ RowFirst /\ InHand /\ AuditBudget

(* The sweeps, with their batches, overlaps, failures and restarts, keep     *)
(* what Erasure promises: nothing is deleted inside its grace and retention  *)
(* periods, and the object goes before the key.                              *)
Promise == INSTANCE Erasure WITH Emails <- Emails, fate <- Fate
ImplementsErasure == Promise!ErasureSpec

(* Whatever is overdue and can be deleted is purged in the end: a block of   *)
(* rows that always fail, a batch that failed as a whole, failures that      *)
(* pass and restarts only delay it (privacy_service.py:119-120, 135).        *)
OverduePurged ==
  \A e \in Emails \ Stuck : (row[e] = "kept" /\ Due(e)) ~> row[e] = "purged"
=============================================================================
