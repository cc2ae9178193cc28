----------------------------- MODULE Ingestion -----------------------------
(*****************************************************************************)
(* The ingestion path, from the Email Worker to the commit in the internal   *)
(* webhook.  A message is one stored email with its own r2_key; a delivery   *)
(* <<m, k>> is the k-th HTTP request the queue consumer makes for it, that   *)
(* is one transaction of email_received.  A transaction yields at each of    *)
(* its awaits, so deliveries of different messages interleave freely, and    *)
(* two deliveries of one message overlap when the consumer stops waiting     *)
(* for a handler that still runs.                                            *)
(*                                                                           *)
(* The database is Postgres at READ COMMITTED: a variable here holds         *)
(* committed data, a transaction writes at its commit, and lock[a] is the    *)
(* row lock that SELECT ... FOR UPDATE or an UPDATE takes on an alias.       *)
(*****************************************************************************)
EXTENDS Integers, FiniteSets

CONSTANTS
  Messages,       \* emails the worker may store, one r2_key each
  Aliases,        \* alias_hash values
  Users,          \* external_user_id values
  Deletions,      \* deletion requests that may run at the same time
  MessageIds,     \* Message-ID header values
  NoMessageId,    \* the header is missing or empty
  NoTxn,          \* nobody holds the row lock
  AliasOf,        \* the alias a message is addressed to
  MidOf,          \* the Message-ID of a message
  UserOf,         \* the user an alias belongs to
  DeletionOf,     \* the user a deletion request is for
  MaxAttempts,    \* deliveries per message: 1 + max_retries
  RateLimit       \* rate_limit_per_alias, 0 disables it

Deliveries == Messages \X (1 .. MaxAttempts)

ASSUME ConstantsAssumption ==
  /\ IsFiniteSet(Messages)
  /\ AliasOf \in [Messages -> Aliases]
  /\ MidOf \in [Messages -> MessageIds \cup {NoMessageId}]
  /\ UserOf \in [Aliases -> Users]
  /\ DeletionOf \in [Deletions -> Users]
  /\ MaxAttempts \in Nat \ {0}
  /\ RateLimit \in Nat

ASSUME NamesAssumption ==
  /\ NoMessageId \notin MessageIds
  /\ NoTxn \notin Deletions \cup Deliveries
  /\ Deletions \cap Deliveries = {}

VARIABLES
  queue,        \* where a message is between SMTP and its acknowledgement
  attempts,     \* deliveries begun
  gaveUp,       \* history: messages whose consumer has stopped waiting for
                \* a handler that still ran; no guard reads it
  objects,      \* r2_keys present in the bucket
  leaked,       \* r2_keys whose clean-up failed and was only logged
  pc,           \* where a delivery's handler is
  reply,        \* what it answers, or the reason it is about to answer
  aliasState,   \* aliases: no row, is_active, not is_active
  received,     \* aliases.emails_received
  firstEvents,  \* alias.first_email_received events in the outbox
  lock,         \* holder of the alias row lock
  row,          \* imported_emails.status of the row that has this r2_key
  stamped,      \* rows with pending_deletion_at set
  recent,       \* rows created inside the rate limit window
  deleting,     \* deletion requests in progress
  covers,       \* the aliases a request selected
  toLock,       \* those of them its UPDATE has not reached yet
  erased        \* aliases that a committed deletion request covered

queueVars == <<queue, attempts, gaveUp>>
bucketVars == <<objects, leaked>>
handlerVars == <<pc, reply>>
aliasVars == <<aliasState, received, firstEvents>>
emailVars == <<row, stamped, recent>>
deletionVars == <<deleting, covers, toLock, erased>>
vars == <<queueVars, bucketVars, handlerVars, aliasVars, lock, emailVars,
          deletionVars>>

(* "imported" is any status persist_result stores: processed,                *)
(* extraction_failed, non_financial or forwarding_verification.              *)
RowStates == {"none", "imported", "error"}
Active == {"check", "lock", "orphan", "fetch", "commit", "missing", "reply"}
Replies == {"none", "failed", "duplicate", "inactive",
            "rate_limited", "missing", "stored"}

Init ==
  /\ queue = [m \in Messages |-> "outside"]
  /\ attempts = [m \in Messages |-> 0]
  /\ gaveUp = {}
  /\ objects = {}
  /\ leaked = {}
  /\ pc = [d \in Deliveries |-> "idle"]
  /\ reply = [d \in Deliveries |-> "none"]
  /\ aliasState = [a \in Aliases |-> "absent"]
  /\ received = [a \in Aliases |-> 0]
  /\ firstEvents = [a \in Aliases |-> 0]
  /\ lock = [a \in Aliases |-> NoTxn]
  /\ row = [m \in Messages |-> "none"]
  /\ stamped = {}
  /\ recent = {}
  /\ deleting = {}
  /\ covers = [u \in Deletions |-> {}]
  /\ toLock = [u \in Deletions |-> {}]
  /\ erased = {}

-----------------------------------------------------------------------------
(* Email Worker.  The edge check fails open, so a message may be stored      *)
(* whatever the state of its alias; an explicit 404 or 410 rejects it.       *)

Move(m, from, to) ==
  /\ queue[m] = from
  /\ queue' = [queue EXCEPT ![m] = to]

EdgeReject(m) ==
  /\ aliasState[AliasOf[m]] # "active"
  /\ Move(m, "outside", "rejected")
  /\ UNCHANGED <<attempts, gaveUp, bucketVars, handlerVars, aliasVars, lock,
                 emailVars, deletionVars>>

StoreRaw(m) ==
  /\ Move(m, "outside", "uploaded")
  /\ objects' = objects \cup {m}
  /\ UNCHANGED <<attempts, gaveUp, leaked, handlerVars, aliasVars, lock,
                 emailVars, deletionVars>>

Enqueue(m) ==
  /\ Move(m, "uploaded", "ready")
  /\ UNCHANGED <<attempts, gaveUp, bucketVars, handlerVars, aliasVars, lock,
                 emailVars, deletionVars>>

(* The worker stops between the R2 put and the queue send.                   *)
WorkerDies(m) ==
  /\ Move(m, "uploaded", "abandoned")
  /\ UNCHANGED <<attempts, gaveUp, bucketVars, handlerVars, aliasVars, lock,
                 emailVars, deletionVars>>

-----------------------------------------------------------------------------
(* Queue consumer.                                                           *)

Deliver(m) ==
  LET d == <<m, attempts[m] + 1>>
  IN  /\ Move(m, "ready", "inflight")
      /\ attempts' = [attempts EXCEPT ![m] = attempts[m] + 1]
      /\ pc' = [pc EXCEPT ![d] = "check"]
      /\ UNCHANGED <<gaveUp, bucketVars, reply, aliasVars, lock, emailVars,
                     deletionVars>>

AcksOnFailure(m) == queue' = [queue EXCEPT ![m] = "acked"]
RetryForever(m) == queue' = [queue EXCEPT ![m] = "ready"]

(* message.retry(): back to the queue, or to the dead letter queue once      *)
(* max_retries are used.                                                     *)
Retry(m) ==
  queue' = [queue EXCEPT ![m] = IF attempts[m] < MaxAttempts THEN "ready"
                                ELSE "dead"]

(* AbortSignal.timeout fires; the handler on the other side keeps running.   *)
ConsumerTimeout(m) ==
  /\ queue[m] = "inflight"
  /\ Retry(m)
  /\ gaveUp' = gaveUp \cup {m}
  /\ UNCHANGED <<attempts, bucketVars, handlerVars, aliasVars, lock,
                 emailVars, deletionVars>>

Awaited(d) == queue[d[1]] = "inflight" /\ attempts[d[1]] = d[2]

-----------------------------------------------------------------------------
(* email_received.  Releasing is what the end of a transaction does.         *)

KeepLocks(x) == UNCHANGED lock
Release(x) == lock' = [a \in Aliases |-> IF lock[a] = x THEN NoTxn ELSE lock[a]]

Goto(d, to, why) ==
  /\ pc' = [pc EXCEPT ![d] = to]
  /\ reply' = [reply EXCEPT ![d] = why]

AliasFor(d) == AliasOf[d[1]]
Lockable(d) == lock[AliasFor(d)] = NoTxn

ReadsAlias(d) == pc[d] = "lock" /\ Lockable(d) /\ UNCHANGED lock

(* FOR UPDATE waits for the row lock and then holds it to the end of the     *)
(* transaction; it selects no row, and locks nothing, for an unknown alias.  *)
LocksAlias(d) ==
  /\ pc[d] = "lock"
  /\ Lockable(d)
  /\ lock' = [lock EXCEPT ![AliasFor(d)] = d]

AliasKnown(d) == aliasState[AliasFor(d)] # "absent"
AliasUsable(d) == aliasState[AliasFor(d)] = "active"

NoLookup(d) == {}

(* The committed rows the Message-ID lookup finds, and the rate limit.       *)
SameMessageId(d) ==
  {m \in Messages : /\ row[m] # "none"
                    /\ AliasOf[m] = AliasFor(d)
                    /\ MidOf[m] = MidOf[d[1]]
                    /\ MidOf[m] # NoMessageId}
RecentRows(a) == {m \in recent : AliasOf[m] = a}
OverLimitLate(d) ==
  /\ RateLimit > 0
  /\ Cardinality(RecentRows(AliasFor(d))) > RateLimit
OverLimit(d) ==
  /\ RateLimit > 0
  /\ Cardinality(RecentRows(AliasFor(d))) >= RateLimit

CheckNothing(d) ==
  /\ pc[d] = "check"
  /\ Goto(d, "lock", reply[d])
  /\ UNCHANGED <<queueVars, bucketVars, aliasVars, lock, emailVars,
                 deletionVars>>

(* 1. A retry of committed work answers "duplicate" before anything else.    *)
CheckKey(d) ==
  /\ pc[d] = "check"
  /\ IF row[d[1]] # "none" THEN Goto(d, "reply", "duplicate")
                           ELSE Goto(d, "lock", reply[d])
  /\ UNCHANGED <<queueVars, bucketVars, aliasVars, lock, emailVars,
                 deletionVars>>

(* 2. Unknown or deactivated alias: drop.                                    *)
DropUnknown(d) ==
  /\ pc[d] = "lock"
  /\ ~AliasKnown(d)
  /\ Goto(d, "orphan", "inactive")
  /\ UNCHANGED <<queueVars, bucketVars, aliasVars, lock, emailVars,
                 deletionVars>>

DropAndKeepObject(d) ==
  /\ LocksAlias(d)
  /\ AliasKnown(d) /\ ~AliasUsable(d)
  /\ Goto(d, "reply", "inactive")
  /\ UNCHANGED <<queueVars, bucketVars, aliasVars, emailVars, deletionVars>>

DropInactive(d) ==
  /\ LocksAlias(d)
  /\ AliasKnown(d) /\ ~AliasUsable(d)
  /\ Goto(d, "orphan", "inactive")
  /\ UNCHANGED <<queueVars, bucketVars, aliasVars, emailVars, deletionVars>>

(* 3. The same email forwarded again.                                        *)
DropDuplicate(d) ==
  /\ LocksAlias(d)
  /\ AliasUsable(d)
  /\ SameMessageId(d) # {}
  /\ Goto(d, "orphan", "duplicate")
  /\ UNCHANGED <<queueVars, bucketVars, aliasVars, emailVars, deletionVars>>

(* 3b. Rate limit.                                                           *)
DropOverLimit(d) ==
  /\ LocksAlias(d)
  /\ AliasUsable(d)
  /\ SameMessageId(d) = {}
  /\ OverLimit(d)
  /\ Goto(d, "orphan", "rate_limited")
  /\ UNCHANGED <<queueVars, bucketVars, aliasVars, emailVars, deletionVars>>

Admits(d) ==
  /\ AliasUsable(d)
  /\ SameMessageId(d) = {}
  /\ ~OverLimit(d)

(* The INSERT is flushed here; it becomes visible at the commit.             *)
Insert(d) ==
  /\ LocksAlias(d)
  /\ Admits(d)
  /\ row[d[1]] = "none"
  /\ Goto(d, "fetch", reply[d])
  /\ UNCHANGED <<queueVars, bucketVars, aliasVars, emailVars, deletionVars>>

(* The unique index on r2_key refuses the row that an overlapping delivery   *)
(* of the same message committed after CheckKey: IntegrityError, hence 500.  *)
InsertConflict(d) ==
  /\ pc[d] = "lock"
  /\ Lockable(d)
  /\ Admits(d)
  /\ row[d[1]] # "none"
  /\ Goto(d, "done", "failed")
  /\ IF Awaited(d) THEN Retry(d[1]) ELSE UNCHANGED queue
  /\ UNCHANGED <<attempts, gaveUp, bucketVars, aliasVars, lock, emailVars,
                 deletionVars>>

(* _delete_orphan never raises: an error is logged and forgotten, and the    *)
(* bucket may have deleted the object all the same.                          *)
DeleteOrphan(d) ==
  /\ pc[d] = "orphan"
  /\ \/ /\ objects' = objects \ {d[1]}
        /\ UNCHANGED leaked
     \/ /\ leaked' = leaked \cup {d[1]}
        /\ objects' \in {objects, objects \ {d[1]}}
  /\ Goto(d, "reply", reply[d])
  /\ UNCHANGED <<queueVars, aliasVars, lock, emailVars, deletionVars>>

(* 4. Read the raw bytes; a transient R2 error is Fail below.                *)
Fetch(d) ==
  /\ pc[d] = "fetch"
  /\ IF d[1] \in objects THEN Goto(d, "commit", reply[d])
                          ELSE Goto(d, "missing", reply[d])
  /\ UNCHANGED <<queueVars, bucketVars, aliasVars, lock, emailVars,
                 deletionVars>>

(* 5-7. Run the pipeline, count the email, announce the first one, commit.   *)
Commit(d) ==
  LET a == AliasFor(d)
  IN  /\ pc[d] = "commit"
      /\ row' = [row EXCEPT ![d[1]] = "imported"]
      /\ recent' = recent \cup {d[1]}
      /\ received' = [received EXCEPT ![a] = received[a] + 1]
      /\ firstEvents' = IF received[a] = 0
                        THEN [firstEvents EXCEPT ![a] = firstEvents[a] + 1]
                        ELSE firstEvents
      /\ Release(d)
      /\ Goto(d, "reply", "stored")
      /\ UNCHANGED <<queueVars, bucketVars, aliasState, stamped, deletionVars>>

CommitMissing(d) ==
  /\ pc[d] = "missing"
  /\ row' = [row EXCEPT ![d[1]] = "error"]
  /\ recent' = recent \cup {d[1]}
  /\ Release(d)
  /\ Goto(d, "reply", "missing")
  /\ UNCHANGED <<queueVars, bucketVars, aliasVars, stamped, deletionVars>>

(* 200 reaches the consumer, unless it has stopped waiting.                  *)
Respond(d) ==
  /\ pc[d] = "reply"
  /\ Goto(d, "done", reply[d])
  /\ Release(d)
  /\ queue' = IF Awaited(d) THEN [queue EXCEPT ![d[1]] = "acked"] ELSE queue
  /\ UNCHANGED <<attempts, gaveUp, bucketVars, aliasVars, emailVars,
                 deletionVars>>

(* An exception, a restart of the server or a lost connection ends a         *)
(* request at any await: before the commit it is rolled back, after it only  *)
(* the answer is lost.  A restart is this action for every delivery.         *)
Fail(d) ==
  /\ pc[d] \in Active
  /\ Goto(d, "done", IF pc[d] = "reply" THEN reply[d] ELSE "failed")
  /\ Release(d)
  /\ IF Awaited(d) THEN Retry(d[1]) ELSE UNCHANGED queue
  /\ UNCHANGED <<attempts, gaveUp, bucketVars, aliasVars, emailVars,
                 deletionVars>>

(* A row leaves the rate limit window as time passes.                        *)
AgeOut(m) ==
  /\ RateLimit > 0
  /\ m \in recent
  /\ recent' = recent \ {m}
  /\ UNCHANGED <<queueVars, bucketVars, handlerVars, aliasVars, lock, row,
                 stamped, deletionVars>>

-----------------------------------------------------------------------------
(* Alias management and user deletion.                                       *)

(* The token is fresh and random, and its owner learns it from the answer:   *)
(* no mail to it can be under way yet.                                       *)
CreateAlias(a) ==
  /\ aliasState[a] = "absent"
  /\ \A m \in Messages : AliasOf[m] = a => queue[m] \in {"outside", "rejected"}
  /\ aliasState' = [aliasState EXCEPT ![a] = "active"]
  /\ UNCHANGED <<queueVars, bucketVars, handlerVars, received, firstEvents,
                 lock, emailVars, deletionVars>>

(* One UPDATE, which waits for the row lock, and its commit.  Repeating it   *)
(* writes nothing: the ORM emits no UPDATE for an unchanged attribute.       *)
DeactivateAlias(a) ==
  /\ aliasState[a] = "active"
  /\ lock[a] = NoTxn
  /\ aliasState' = [aliasState EXCEPT ![a] = "inactive"]
  /\ UNCHANGED <<queueVars, bucketVars, handlerVars, received, firstEvents,
                 lock, emailVars, deletionVars>>

(* schedule_user_deletion reads the user's aliases and marks the active      *)
(* ones; the session writes those marks, and so takes their row locks, when  *)
(* the UPDATE of the emails makes it autoflush.  Nothing keeps two requests  *)
(* for one user apart.                                                       *)
RequestDeletion(u) ==
  LET known == {a \in Aliases : /\ UserOf[a] = DeletionOf[u]
                                /\ aliasState[a] # "absent"}
  IN  /\ u \notin deleting
      /\ deleting' = deleting \cup {u}
      /\ covers' = [covers EXCEPT ![u] = known]
      /\ toLock' = [toLock EXCEPT ![u] = {a \in known : aliasState[a] = "active"}]
      /\ UNCHANGED <<queueVars, bucketVars, handlerVars, aliasVars, lock,
                     emailVars, erased>>

FlushWithoutWaiting(u, a) ==
  /\ a \in toLock[u]
  /\ toLock' = [toLock EXCEPT ![u] = toLock[u] \ {a}]
  /\ UNCHANGED <<queueVars, bucketVars, handlerVars, aliasVars, lock,
                 emailVars, deleting, covers, erased>>

FlushAlias(u, a) ==
  /\ a \in toLock[u]
  /\ lock[a] = NoTxn
  /\ lock' = [lock EXCEPT ![a] = u]
  /\ toLock' = [toLock EXCEPT ![u] = toLock[u] \ {a}]
  /\ UNCHANGED <<queueVars, bucketVars, handlerVars, aliasVars, emailVars,
                 deleting, covers, erased>>

(* The UPDATE of the emails sees every row committed so far; then commit.    *)
CommitDeletion(u) ==
  /\ u \in deleting
  /\ toLock[u] = {}
  /\ aliasState' = [a \in Aliases |-> IF a \in covers[u] THEN "inactive"
                                      ELSE aliasState[a]]
  /\ stamped' = stamped \cup
                  {m \in Messages : row[m] # "none" /\ AliasOf[m] \in covers[u]}
  /\ Release(u)
  /\ deleting' = deleting \ {u}
  /\ covers' = [covers EXCEPT ![u] = {}]
  /\ erased' = erased \cup covers[u]
  /\ UNCHANGED <<queueVars, bucketVars, handlerVars, received, firstEvents,
                 row, recent, toLock>>

AbortDeletion(u) ==
  /\ u \in deleting
  /\ Release(u)
  /\ deleting' = deleting \ {u}
  /\ covers' = [covers EXCEPT ![u] = {}]
  /\ toLock' = [toLock EXCEPT ![u] = {}]
  /\ UNCHANGED <<queueVars, bucketVars, handlerVars, aliasVars, emailVars,
                 erased>>

-----------------------------------------------------------------------------
WorkerStep(m) == EdgeReject(m) \/ StoreRaw(m) \/ Enqueue(m) \/ WorkerDies(m)

(* The steps that need the alias row, and the others of a handler.           *)
AdmitStep(d) ==
  DropUnknown(d) \/ DropInactive(d) \/ DropDuplicate(d) \/ DropOverLimit(d)
    \/ Insert(d) \/ InsertConflict(d)
HandlerStep(d) ==
  CheckKey(d) \/ DeleteOrphan(d) \/ Fetch(d) \/ Commit(d) \/ CommitMissing(d)
    \/ Respond(d)
DeletionStep(u) ==
  (\E a \in Aliases : FlushAlias(u, a)) \/ CommitDeletion(u)

Next ==
  \/ \E m \in Messages :
       WorkerStep(m) \/ Deliver(m) \/ ConsumerTimeout(m) \/ AgeOut(m)
  \/ \E d \in Deliveries : AdmitStep(d) \/ HandlerStep(d) \/ Fail(d)
  \/ \E a \in Aliases : CreateAlias(a) \/ DeactivateAlias(a)
  \/ \E u \in Deletions : RequestDeletion(u) \/ DeletionStep(u) \/ AbortDeletion(u)

Spec == Init /\ [][Next]_vars

(* The queue delivers what is ready; the event loop resumes every handler;   *)
(* Postgres grants a row lock in the order of the requests, so a waiter      *)
(* that gets its chance again and again is served: strong fairness.          *)
Fairness ==
  /\ \A m \in Messages : WF_vars(Deliver(m))
  /\ \A d \in Deliveries : WF_vars(HandlerStep(d)) /\ SF_vars(AdmitStep(d))
  /\ \A u \in Deletions : SF_vars(DeletionStep(u))

FairSpec == Spec /\ Fairness

-----------------------------------------------------------------------------
(* Every variable keeps its type.                                            *)
TypeOK ==
  /\ queue \in [Messages -> {"outside", "rejected", "uploaded", "abandoned",
                             "ready", "inflight", "acked", "dead"}]
  /\ attempts \in [Messages -> 0 .. MaxAttempts]
  /\ gaveUp \subseteq Messages
  /\ objects \subseteq Messages
  /\ leaked \subseteq Messages
  /\ pc \in [Deliveries -> Active \cup {"idle", "done"}]
  /\ reply \in [Deliveries -> Replies]
  /\ aliasState \in [Aliases -> {"absent", "active", "inactive"}]
  /\ received \in [Aliases -> Nat]
  /\ firstEvents \in [Aliases -> Nat]
  /\ lock \in [Aliases -> Deliveries \cup Deletions \cup {NoTxn}]
  /\ row \in [Messages -> RowStates]
  /\ stamped \subseteq Messages
  /\ recent \subseteq Messages
  /\ deleting \subseteq Deletions
  /\ covers \in [Deletions -> SUBSET Aliases]
  /\ toLock \in [Deletions -> SUBSET Aliases]
  /\ erased \subseteq Aliases

Imported(a) == {m \in Messages : AliasOf[m] = a /\ row[m] = "imported"}

(* The counter that onboarding polls is the number of emails imported for    *)
(* the alias, and the first-email event was enqueued exactly once, with the  *)
(* first of them, however deliveries interleave (internal.py:87-88, 165).    *)
CountersAgree ==
  \A a \in Aliases :
    /\ received[a] = Cardinality(Imported(a))
    /\ firstEvents[a] = IF received[a] = 0 THEN 0 ELSE 1

(* Two rows of one alias never carry the same Message-ID, so the partial     *)
(* unique index never turns a re-forwarded email into a failing request.     *)
NoSecondCopy ==
  \A m, n \in Messages :
    (/\ m # n
     /\ row[m] # "none" /\ row[n] # "none"
     /\ AliasOf[m] = AliasOf[n]
     /\ MidOf[m] = MidOf[n]) => MidOf[m] = NoMessageId

(* The rate limit bounds the rows created inside the window, also for        *)
(* concurrent deliveries (internal.py:114-116 "race-free").                  *)
RateCap ==
  RateLimit > 0 =>
    \A a \in Aliases : Cardinality(RecentRows(a)) <= RateLimit

(* Once a user's deletion is committed, every email ever imported through    *)
(* the aliases it covered is scheduled, those whose delivery was under way   *)
(* while the request ran included, and none of the aliases imports again.    *)
DeletionReachesAll ==
  \A m \in Messages :
    AliasOf[m] \in erased =>
      /\ aliasState[AliasOf[m]] = "inactive"
      /\ row[m] # "none" => m \in stamped

(* The delivery whose answer the consumer takes, and where its email went:   *)
(* it has a row, or another row of the alias has its Message-ID, or the      *)
(* handler decided to drop it.                                               *)
Last(m) == <<m, attempts[m]>>
Accounted(d) ==
  \/ row[d[1]] # "none"
  \/ reply[d] \in {"inactive", "rate_limited"}
  \/ /\ reply[d] = "duplicate"
     /\ \E n \in Messages : /\ row[n] # "none"
                             /\ AliasOf[n] = AliasOf[d[1]]
                             /\ MidOf[n] = MidOf[d[1]]
                             /\ MidOf[n] # NoMessageId

(* An acknowledged email is not lost, whichever of its overlapping           *)
(* deliveries was answered and whatever became of the others.                *)
AckAccounted == \A m \in Messages : queue[m] = "acked" => Accounted(Last(m))

(* An acknowledged message whose object no row owns has left the bucket,     *)
(* unless the clean-up failed and was logged: a stray object is invisible    *)
(* to every purge query (internal.py:82-86).                                 *)
Cleaned(m) == (row[m] = "none" /\ m \notin leaked) => m \notin objects
NoStrayObject == \A m \in Messages : queue[m] = "acked" => Cleaned(m)

(* The clean-up of orphans takes an object that a committed row owns only if *)
(* the consumer has stopped waiting for a handler of the message: retries,   *)
(* lost answers and deactivated aliases cannot (internal.py:72-75).          *)
OwnedObjectKept ==
  \A m \in Messages : row[m] = "imported" /\ m \notin gaveUp => m \in objects

(* What internal.py:72-75 says: the order of the checks "is what makes the   *)
(* orphan-deletion below safe (no row owns this r2_key)".                    *)
OrphanDeletionSafe ==
  \A m \in Messages : row[m] = "imported" => m \in objects

(* The whole path, with its awaits, overlaps and failures, behaves as the    *)
(* atomic mailbox: each commit is one admissible import.                     *)
Contract ==
  INSTANCE Mailbox WITH
    aliasState <- aliasState, received <- received, firstEvents <- firstEvents,
    row <- row, stamped <- stamped, recent <- recent
ImplementsMailbox == Contract!MailboxSpec

(* Every message in the queue is acknowledged or reaches the dead letter     *)
(* queue: no delivery waits for a lock, or for an answer, for ever.          *)
QueueDrains ==
  \A m \in Messages : queue[m] = "ready" ~> queue[m] \in {"acked", "dead"}

(* A deletion request ends although deliveries, and a second request for the *)
(* same user, keep taking the row lock it needs.                             *)
DeletionAnswers ==
  \A u \in Deletions : u \in deleting ~> u \notin deleting

-----------------------------------------------------------------------------
(* The strengthening that makes the safety properties inductive.             *)

Working == {"fetch", "commit", "missing"}

(* A message that still waits for a delivery has attempts left.              *)
QueueInv ==
  \A m \in Messages :
    queue[m] \in {"outside", "uploaded", "ready"} => attempts[m] < MaxAttempts

(* A handler past its INSERT holds the row lock of its alias, and what it    *)
(* decided on under that lock still holds.                                   *)
WorkInv ==
  \A d \in Deliveries :
    pc[d] \in Working =>
      /\ lock[AliasFor(d)] = d
      /\ row[d[1]] = "none"
      /\ Admits(d)

(* A deletion request reaches each alias it selected: it has yet to lock     *)
(* it, or holds its lock, or the alias is closed already.                    *)
DeletionInv ==
  \A u \in Deletions :
    /\ u \notin deleting => covers[u] = {} /\ toLock[u] = {}
    /\ toLock[u] \subseteq covers[u]
    /\ \A a \in covers[u] :
         /\ aliasState[a] # "absent"
         /\ a \in toLock[u] \/ aliasState[a] = "inactive" \/ lock[a] = u

ErasedInv ==
  \A a \in erased :
    /\ aliasState[a] = "inactive"
    /\ \A m \in Messages : AliasOf[m] = a /\ row[m] # "none" => m \in stamped

(* Only a row counts against the rate limit.                                 *)
RecentInv == \A m \in recent : row[m] # "none"

(* The inductive invariant: with it every step from any state it allows      *)
(* keeps the lock discipline and the safety properties above.                *)
IInv ==
  /\ TypeOK /\ QueueInv /\ WorkInv /\ DeletionInv /\ ErasedInv /\ RecentInv
  /\ CountersAgree /\ NoSecondCopy /\ RateCap

(* What the answers rest on: no delivery precedes its object, a handler that *)
(* has a reason can account for its email, one about to answer has cleaned   *)
(* up, and an acknowledged message was answered by its last delivery.        *)
AnswerInv ==
  /\ \A d \in Deliveries :
       /\ pc[d] # "idle" => queue[d[1]] # "outside"
       /\ pc[d] \in {"orphan", "reply"} => Accounted(d)
       /\ pc[d] = "reply" => Cleaned(d[1])
  /\ \A m \in Messages :
       queue[m] = "acked" =>
         /\ attempts[m] > 0
         /\ pc[Last(m)] = "done"
         /\ Accounted(Last(m))
         /\ Cleaned(m)

(* As long as the consumer has waited, a running handler is the one its      *)
(* message waits for, so no other can commit the row behind its back or take *)
(* its object.                                                               *)
PatientInv ==
  /\ \A d \in Deliveries : d[1] \notin gaveUp =>
       /\ pc[d] \in Active => Awaited(d)
       /\ pc[d] \in {"lock", "orphan"} => row[d[1]] = "none"
       /\ pc[d] = "commit" => d[1] \in objects
  /\ OwnedObjectKept
=============================================================================
