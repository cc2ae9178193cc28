# A verification project for email-budget-api

email-budget-api receives forwarded bank and shop emails on per-user aliases,
extracts transactions from them, and hands the transactions to a budgeting app
through a REST API and signed webhooks. This directory holds TLA+ models of
that code, the TLC configurations that check them, and TLAPS proofs. Paths
below are relative to `src/backend/app/` unless they start with `src/`.

## The system

| Component | State it keeps | Operations | Talks to |
|---|---|---|---|
| Email Worker (`src/workers/email-ingest`) | none; writes the raw email to R2 | edge check, put, send | webhook (`check_alias`), R2, queue |
| Queue and consumer (`src/workers/email-queue-consumer`) | place and attempts of each message | deliver, ack, retry, time out, dead-letter | webhook |
| Ingestion webhook (`api/internal.py`) | aliases, imported_emails, extraction_results, webhook_outbox | `email_received`, one transaction with awaits | R2, pipeline, database |
| Alias management (`api/v1/aliases.py`) | aliases | create, deactivate | database |
| User deletion (`api/v1/users.py`) | aliases, pending_deletion_at | schedule, data-export (a stub) | database |
| Privacy purge (`services/privacy_service.py`, `main.py`) | imported_emails.r2_key, R2 objects, audit_log | hourly loop: purge_due, retention_sweep | R2, database |
| Webhook outbox (`services/webhook_delivery_service.py`, `api/v1/config.py`) | webhook_outbox, webhook_config | poll, post, back off, configure | receivers |
| Review API (`api/v1/extractions.py`, `services/duplicate_service.py`) | extraction_results, duplicate_matches, imported_emails.status | confirm, dismiss, reprocess | R2, pipeline, database |
| MIME parsing and content preparation (`extraction/mime_parser.py`, `content_preparer.py`) | none (pure) | choose bodies, rewrite tables, strip headers and footers | called by the pipeline |
| Extraction pipeline (`extraction/`, `services/extraction_service.py`) | none (pure), then one row, one status, one event | resolve, classify, extract, score, route, persist | called by the webhook and by reprocess |
| Category feedback (`api/v1/feedback.py`) | category_feedback_log, merchant_rules | record, learn or change a rule | database |
| Merchant rules (`services/rules_engine.py`) | none; static rules | normalize a merchant | called by the pipeline |
| Shell (`main.py`, `config.py`, `security/`, `db/`, `seed/`, alembic) | settings, schema | start, stop, authenticate | everything |

Everything shares one Postgres at READ COMMITTED. Components meet in five
places: the alias row (webhook, deactivation, deletion request), the raw object
in R2 (worker, webhook, purge, reprocess), the extraction row (webhook, review
requests), the outbox row (webhook, pollers) and the log and rules of a merchant
(feedback requests).

What is hard here: handlers yield at every await and overlap; the consumer
stops waiting after 75 s while the handler goes on; answers get lost and
messages come back; clean-up of objects may fail; review and feedback requests
read without a lock and write later; a batch of posts, or of deletions, is one
transaction, and a crash takes its outcomes back but not its effects; a deploy
runs two pollers and two maintenance loops; and an alert is rewritten several
times before anything is looked for in it. `PROJECT.json` lists each hazard at
its line, with the properties that cover it or the reason none does.

What makes each component correct:

| Component | Properties |
|---|---|
| Worker, queue, webhook, aliases, deletion | `CountersAgree`, `NoSecondCopy`, `RateCap`, `DeletionReachesAll`, `AckAccounted`, `NoStrayObject`, `OwnedObjectKept`, `QueueDrains`, `DeletionAnswers`, `ImplementsMailbox` |
| Privacy purge | `KeyOutlivesObject`, `AuditTrail`, `OverduePurged`, `ImplementsErasure` |
| Outbox, webhook configuration | `PostsAreCounted`, `RoutedToOwner`, `OutcomeEarned`, `ImplementsAtLeastOnce`, `EventsSettle` |
| Review, duplicates | `BadgeBacked`, `MailAgrees`, `DuplicatesSurface`, `UndoneOnlyByOverlap` |
| Category feedback | `RulesEarned`, `OneRulePerPattern` |
| MIME, content, pipeline, persisting | `LabelsWin`, `EnvelopeDateLoses`, `ForwardUnwrapped`, `OneOwner`, `EvidenceAddsUp`, `HighMeansTemplate`, `StoryAgrees` |

## Modules

### Ingestion (core), implementing Mailbox

`Ingestion.tla` goes from the SMTP hand-over to the commit. A message is one
stored email with its own `r2_key`; a delivery `<<m, k>>` is the k-th HTTP
request for it. `pc[d]` names the await a handler stands at, so the actions are
the stretches of `email_received` between awaits:

| Action | Code |
|---|---|
| `CheckKey` | r2_key lookup (`internal.py:72-80`) |
| `DropUnknown`, `DropInactive`, `DropDuplicate`, `DropOverLimit` | the early returns after `FOR UPDATE` (`:82-134`) |
| `DeleteOrphan` | `_delete_orphan`, which succeeds, or fails with or without having deleted and only logs (`:49-57`) |
| `Insert`, `InsertConflict` | the flush of the new row, or the unique index on r2_key (`:136-147`) |
| `Fetch`, `Commit`, `CommitMissing` | R2 read, pipeline, counter, event, commit (`:149-186`) |
| `Respond`, `Fail` | 200 to the consumer; an exception, a restart or a lost connection at any await |
| `Deliver`, `Retry`, `ConsumerTimeout` | the consumer loop and `max_retries` (`src/workers/email-queue-consumer`) |
| `RequestDeletion`, `FlushAlias`, `CommitDeletion`, `AbortDeletion` | `schedule_user_deletion`, with its row locks taken one by one at the autoflush; a user may send several requests, which overlap |
| `CreateAlias`, `DeactivateAlias` | `api/v1/aliases.py` |

`lock[a]` is the row lock of an alias. The variables hold committed data; an
open transaction lives in `pc`, and everything it will write is determined by
its place, so a rollback is just the end of the handler. A read after the lock
sees committed rows, as READ COMMITTED does. Between `FOR UPDATE` and the
decision (`:94-134`) the code awaits several queries; they are one step with
the lock because every writer of what they read (rows of the alias, its
`is_active`) needs the same lock first.

`gaveUp` is a history variable: the messages whose consumer has stopped waiting
for a handler that was still running. No guard reads it.

`Mailbox.tla` is the contract: an email is imported atomically if it is
admissible (new, alias active, within the limit), and erasing a user is atomic.
Ingestion implements it under the identity mapping on the six variables of the
contract (`ImplementsMailbox`).

Simplified: R2 has no outages of its own (a transient error is `Fail`); the
sweeps, which set `r2_key` to NULL days or months later, are in `PrivacyPurge`,
so `row` never loses its key here; the outbox is the counter `firstEvents`. A
deletion request takes its row locks in any order, while SQLAlchemy flushes in
the order of the primary keys: with two aliases and two overlapping requests the
model would show a deadlock that the code does not have, so the run that checks
`DeletionAnswers` has one alias.

### PrivacyPurge, implementing Erasure

`_maintenance_loop` of each server process: `Wake` starts `purge_due`, the
retention sweep follows in a session of its own, and the loop sleeps. A sweep
(`_drain`) reads the clock once, so its `scope` is what was overdue then.
`Select` is the query for a batch, in random order; `Deleted` and `DeleteFailed`
are the deletions one by one, without a lock, where a failure may or may not
have removed the object; `Commit` writes the audit rows and nulls the keys of
what was deleted, and a batch that deleted nothing ends the sweep. `Interrupted`
is a database error (the loop logs it and sleeps) or a restart, with a deletion
under way that may still be carried out. `Stuck` emails can never be deleted.
Arrivals, deletion requests, passing periods and the bucket's own lifecycle rule
are the environment.

`Erasure.tla` is the promise: a raw email is kept until it is overdue, then its
object goes, then the row forgets the key. The refinement computes the fate of
each email from row, object and deadline:
`Promise == INSTANCE Erasure WITH Emails <- Emails, fate <- Fate`. One step of
the sweeps is one step of the promise or none, and one commit takes a set of
emails from "gone" to "erased".

### WebhookOutbox, implementing AtLeastOnce

`process_due` and `poller_loop`, with time in units. `dueIn[e]` is
`next_attempt_at` relative to the present. `Claim` takes the first `Batch` due
rows nobody else has locked; `Defer`, `StartPost` and `EndPost` are the loop
over the batch with its cache of receivers; `CommitBatch` writes all outcomes,
the delays counted from the clock reading at the start (`elapsed`); `Crash`
drops them. `Configure` and `RotateSecret` change what `get_config` finds. Each
process keeps the `SECRET_ENCRYPTION_KEY` it was started with (settings are
cached, `config.py:64`), so a rotation is the restart of one process, at any
moment of the batches of the others: what one encrypts, another cannot read
until it has been restarted too (`Readable`). Receivers answer 2xx, fail, or
accept and answer too late.

`AtLeastOnce.tla` is the contract of one event, without pollers: one post at a
time, which is counted once or cut off by a restart; delivered means that a
counted post was accepted, given up that the attempts are used up, and a
settled event is left alone. The refinement computes the posts under way from
what the pollers have in hand:
`Promise == INSTANCE AtLeastOnce WITH open <- InFlight, restarts <- crashes`.
Claims, deferrals, configuration and time are stutters; a commit counts the
posts of a whole batch at once.

### ExtractionReview

The extraction rows of one user. `Insert`, `StoreArrival` and `LoseArrival`
are an ingestion transaction, one at a time for each alias (the alias lock).
A request is `Load` (read and check), then `Decide`, or `ReadMail`, `Flush`
and `Save`. `Save` writes only the columns whose value differs from the loaded
one (`OrmWrite`), which is what SQLAlchemy emits and what decides who overwrites
whom. Row locks held from the flush to the commit are `Holding` and `Deleting`.
`print` (the fingerprint) stands for all extracted fields; one pipeline run may
give another result than the previous one, because templates change. Nothing
keeps two requests for one row apart, two reprocess calls included. `met` is a
history variable that no guard reads: the pairs of rows of which transactions
were open together, and `<<x, x>>` once two reprocess calls of `x` have
overlapped (`Crossed(x)`); `BadgeBacked` and `MailAgrees` except those rows,
since the code fails there (Findings).

### CategoryFeedback

A request inserts its log row, counts, looks the rule up and commits, each a
statement that sees what was committed before it and the request's own row.
`Merged` is the UPDATE of an existing rule, which sets only the columns that
differ from the row as it was read; `Lookup` fails with two rules of one pattern
(`scalar_one_or_none`). Names that differ only in case are counted apart but
share the pattern of a rule, hence `NameOf` and `PatternOf`. `met` is a history
variable: the pairs of requests for one pattern that overlapped each other.

### ContentExtraction and ExtractionPipeline

`ContentExtraction` is what happens to the text: `Body` chooses the parts
(`mime_parser.py`), `Prepare` rewrites tables to a label above its value, drops
the headers of forwards and the footers (`content_preparer.py`), and `Extract`
looks for labels first and shapes after that (`general_extractor.py`), pattern by
pattern over the whole text (`ShapeFirst`, `FirstWay`). A line is what the
regular expressions tell apart: its kind (field, label, row, text, marker, ...),
a name, the shape of a value and the identity of the value, which is how the
properties know where a value came from. Any line may begin with the name of a
header, prose too (`IsHeader`). The shapes are those of `_AMOUNT_PATTERNS`
(`money` with a currency, a bare `dollar`, `coded`), of `_DATE_PATTERNS` (`iso`,
`spelled`, `slashed`, `worded`), of `_CARD_PATTERNS` (`masked`, `suffix`), the
bare `number`, and what only looks like a value (`digits`, `count`, `greeting`,
`words`).

Simplified: a line holds one value; synonyms of a label are one name; a value
that is a time or a reference is `words`; a date that matches a pattern can be
parsed; an amount with a currency code never begins with a date. Left out:
decoding of bytes, quote marks (removed, and each pattern would skip them), white
space, the cap of 8000 characters and the direction of a transaction
(`transaction_flags`). What html2text and dateparser return is external: HTML is
given as the lines it becomes, dates as the shapes that are recognised.

`ExtractionPipeline` composes it with the rest of the pure part. `Resolve` is
`sender_resolver.resolve`, `Methods` the overlay of the template on the generic
extractor and the default currency, `Score` and `Route` the confidence scorer
in hundredths (the integer comparison with 8500 equals the float comparison
with 0.85 for every combination of methods), and `Outcome` is `run` followed by
`persist_result`. A template is represented by the set of fields it finds; the
merchant rules by `nameless`, a merchant of which normalization leaves nothing.

### MC modules

`MCIngestion`, `MCPrivacyPurge`, `MCWebhookOutbox`, `MCExtractionReview`,
`MCCategoryFeedback` and `MCExtractionPipeline` define the constants that a
`.cfg` cannot write (functions, symmetry sets, inputs). They redefine nothing.

### Proof modules

`IngestionProofs`, `PrivacyPurgeProofs`, `WebhookOutboxProofs`,
`ExtractionReviewProofs`, `CategoryFeedbackProofs` and
`ExtractionPipelineProofs` extend the module they are named after. The
invariants they use are defined, and explained, at the end of that module, so
that TLC checks them too; the pipeline, a function applied once, needs none.
`ContentExtractionProofs` holds the lemmas about the text that the theorems of
`ExtractionPipelineProofs` rest on: what flattening, rewriting tables and
dropping lines do to a body, and what the extractor then reads.

## Runs

| Run | Instance | What it shows |
|---|---|---|
| IngestionOverlap | 2 emails without Message-ID, 2 deliveries each, 1 alias, rate limit 1 | IInv; counters, rate limit, acknowledgements and objects under overlapping deliveries; the unique index on r2_key |
| IngestionLive | 2 copies of one email, 1 delivery each, 1 alias, 2 deletion requests of its user | deduplication, reach of a deletion, refinement of Mailbox; the queue drains, both requests end |
| IngestionOrphanRace | 1 message with a Message-ID, 2 deliveries | **violated**: the object of a committed row is deleted as an orphan |
| Purge | 2 emails, one of them stuck, 2 loops, batches of 1, 2 batches a sweep, 1 fault | IInv, the key outlives the object, the audit trail, refinement of Erasure, and that what is overdue is purged |
| OutboxSafety | 2 events of two keys, 2 pollers with secrets of their own, 2 attempts, 1 crash | IInv, counting, routing, outcomes, refinement of AtLeastOnce |
| OutboxLive | 2 events, batch 1, 1 poller | no starvation by events without receiver |
| ReviewSafety | 2 extractions through 2 aliases, 3 requests | IInv, badge, email status, unflagged duplicates, undone decisions |
| ReviewDecision | 1 extraction, 2 requests | **violated**: reprocess overwrites a decision |
| ReviewDoubleReprocess | 2 extractions, 2 requests | **violated**: two reprocess calls of one row leave a badge without a match |
| Feedback | 5 requests, two spellings with a category each, threshold 2 | IInv, rules are earned, two rules need two inserters that overlapped each other |
| Pipeline | 11,624 emails | labels and dates, unwrapping, domains, score and bands, consistency of what is stored |
| PipelineNoSender | the same emails | **violated**: undefined function instead of the body fallback |

Bounds. Two messages of one alias are enough for each race on the alias row: the
second writer is the adversary of the first. Two deliveries of one message give
the overlap, and limit 1 makes the second message the one that must be refused;
only two different emails get that far, since a copy is dropped as a duplicate
first: hence two instances, one of different emails and one of two copies.
IngestionLive has one delivery of each message: a lost answer ends in the dead
letter queue there, and retries are the subject of IngestionOverlap. In all
instances, as in the code (`max_retries`), the deliveries of a message are
finitely many; so `DeletionAnswers` says that a request gets past those and past
the other request, not past an unending flow of new email.

Two loops and batches of one give overlapping sweeps and a stuck row that takes
the place of the other; with two batches a sweep may end because it is
exhausted, because nothing is left and because a batch failed. `MaxFaults`
bounds restarts and database errors.

Two pollers and two events give every conflict over a row; `MaxAttempts` 2 has
one backoff and one exhaustion; `MaxCrashes` bounds restarts in a batch and
`MaxSecrets` the keys of a process. `Horizon` stops the clock of a row that is
overdue by more than 2 (6 in OutboxLive); how long a row has been overdue only
orders the rows of a batch. In OutboxSafety a post takes no time (`MaxPost` 0),
which keeps two pollers within reach; in OutboxLive it takes up to 1 with a first
delay of 1, like the code, where a batch may take 20 x 10 s and the first delay is
60 s. The proofs cover every duration, delay and horizon, and the events without
a key, of which the runs have none.

Three requests on two rows let a decision fall between the read and the write of
a reprocess while another request or an arrival changes the candidate, and two
reprocess calls of one row overlap while a third request decides. Five
confirmations with a threshold of 2 instead of 3 have a rule learned, changed to
the category of the other spelling and learned twice; one name confirmed for two
categories is left to the proof. The emails of Pipeline are every combination of
headers and forwards (the address below its "From:", prose that begins with a
header name) with two alerts, every alert (two of its fields in every layout,
shape and gap, next to stray values) plain, in HTML next to a stub, an attachment
or nothing else, and every set of fields that the extractor and the template can
find; a larger set of hosts adds nothing that the code distinguishes.

The proofs remove the bounds for the properties they cover: the threshold, the
limits, the numbers of actors and of faults are arbitrary there.

Runs that end because every message, request or email has been used up switch
the deadlock check off; the outbox and the maintenance loop, which never stop,
keep it on (OutboxSafety, OutboxLive, Purge). Symmetry is used for the two
messages, the pollers and the requests, and only in runs without liveness
properties.

### Fairness

- Ingestion: weak fairness of `Deliver` (the queue delivers what it holds) and
  of the steps of a handler (the event loop resumes it; network calls have
  timeouts). Strong fairness of the steps that wait for the alias row lock:
  Postgres queues waiters, and the lock is free again and again. Weak fairness
  would not do, since another delivery can hold the lock in between. No
  fairness for failures, timeouts, the user or the worker.
- WebhookOutbox: weak fairness of each poller's step and of time. `EventsSettle`
  promises nothing for an event whose receiver is not available for good.
- PrivacyPurge: weak fairness of each loop and of its start (the event loop and
  the platform run them). Strong fairness of two events that only chance
  decides: a batch, whose order is random, contains a row that can be deleted,
  and a deletion of such a row succeeds. Faults are bounded, so that they stop.
  No fairness for arrivals, requests, passing periods or the lifecycle rule.

## Findings

1. `IngestionOrphanRace`: the r2_key check is not repeated under the alias lock
   (`internal.py:72-96`). When the consumer stops waiting for a handler, a second
   delivery of the message passes the check and waits for the lock; the first
   commits; the second finds the row of its own message by Message-ID, takes the
   message for a copy and deletes the object that the row owns (`:98-112`).
   Without a Message-ID the same end takes a deactivation or the rate limit in
   between. `PatienceKeepsObjects` proves that it takes a consumer that stops
   waiting for a running handler of that message.
2. `ReviewDecision`: reprocess writes over a decision made after its check
   (`extractions.py:190-216`). `DecisionsFallToOverlap` proves that only a request
   that had read the row before the decision can do so.
3. `ReviewDoubleReprocess`: nothing keeps two reprocess calls of one row apart
   (`extractions.py:182-191`). The second has read the row unflagged, the first
   flags it and commits its match, the second deletes that match and sets the
   confidence to 0, which is no change to what it has read and is not written:
   the row keeps its badge without a match, against the comment at `:219-220`.
   Email and row come apart the same way: the second call has read the row as
   pending, the first commits a failure, the second reads the email as failed
   and saves a pending result; the row stays failed, the email is "processed".
   `BadgesAreBacked` and `MailAlwaysAgrees` prove that nothing but two
   overlapping reprocess calls of the same row leads to either.
4. `PipelineNoSender`: `_body_text` does not exist (`sender_resolver.py:127`).

Two things the models show that no text of the repository denies, so that no run
reports them. Two confirmations that reach the threshold together insert two
rules, and `scalar_one_or_none` (`feedback.py:58`) raises `MultipleResultsFound`
in every later request for that merchant at the threshold; `OneRulePerPattern`
says that only such an overlap leads there. And a reprocess of the earlier of two
duplicates flags it against the later, although `duplicate_service.py:28` says
"earlier": `DuplicatesSurface` is about whether one of the two is flagged, not
which.

## Proofs

| Module | Theorem | Property |
|---|---|---|
| IngestionProofs | `IngestionInvariant` | `IInv` |
| | `TypeCorrect` | `TypeOK` |
| | `CountersAlwaysAgree` | `CountersAgree` |
| | `NeverASecondCopy` | `NoSecondCopy` |
| | `RateNeverExceeded` | `RateCap` |
| | `DeletionMissesNothing` | `DeletionReachesAll` |
| | `AcksAreAccounted` | `AckAccounted` |
| | `NoObjectAstray` | `NoStrayObject` |
| | `PatienceKeepsObjects` | `OwnedObjectKept` |
| | `IngestionImplementsMailbox` | `ImplementsMailbox` |
| PrivacyPurgeProofs | `PurgeInvariant` | `IInv` |
| | `KeysOutliveObjects` | `KeyOutlivesObject` |
| | `EveryPurgeAudited` | `AuditTrail` |
| | `PurgeImplementsErasure` | `ImplementsErasure` |
| WebhookOutboxProofs | `OutboxInvariant` | `IInv` |
| | `OutboxTypeCorrect` | `TypeOK` |
| | `PostsAlwaysCounted` | `PostsAreCounted` |
| | `EventsStayWithOwner` | `RoutedToOwner` |
| | `OutcomesAreEarned` | `OutcomeEarned` |
| | `OutboxImplementsAtLeastOnce` | `ImplementsAtLeastOnce` |
| ExtractionReviewProofs | `ReviewInvariant` | `IInv` |
| | `BadgesAreBacked` | `BadgeBacked` |
| | `MailAlwaysAgrees` | `MailAgrees` |
| | `DuplicatesAreFlagged` | `DuplicatesSurface` |
| | `DecisionsFallToOverlap` | `UndoneOnlyByOverlap` |
| CategoryFeedbackProofs | `FeedbackInvariant` | `IInv` |
| | `RulesAreEarned` | `RulesEarned` |
| | `OneRuleUnlessOverlap` | `OneRulePerPattern` |
| ExtractionPipelineProofs | `PipelineTypes` | `TypeOK` |
| | `StoriesAgree` | `StoryAgrees` |
| | `ForwardsUnwrapped` | `ForwardUnwrapped` |
| | `DomainsHaveOneOwner` | `OneOwner` |
| | `HighRowsAreTemplated` | `HighMeansTemplate` |
| | `MoreEvidenceCounts` | `EvidenceAddsUp` |
| | `EnvelopeDatesLose` | `EnvelopeDateLoses` |
| | `LabelsAlwaysWin` | `LabelsWin` |

They hold for every value of the constants that satisfies the assumptions
`ConstantsAssumption` and `NamesAssumption` (Ingestion), `PurgeAssumption`,
`OutboxAssumption`, `ReviewAssumption`, `FeedbackAssumption`,
`PipelineAssumption`, `HostsAssumption` and `StubAssumption`: types, the
finiteness of the sets that are counted, that "nobody" is nobody, that the
suffixes in `_MULTI_TLD` have two labels, and that a part without a line counts
as a stub. TLC evaluates them on every run. No theorem has a further
hypothesis.

Each argument but the last is one inductive invariant, `IInv`, checked by TLC
before it is proved, with a lemma for each action or group of actions. None of the
properties is inductive alone.

- Ingestion. That a `Commit` counts correctly needs that the row is still absent
  and the admission still valid at that moment, long after they were checked.
  `WorkInv` says so: a handler past its insert holds the row lock of its alias,
  and under the lock `Admits` and the absence of the row are stable, because
  every other writer needs the same lock. `DeletionInv` says that a deletion
  request still has to lock an alias it selected, or holds its lock, or the
  alias is closed; with it no handler can be between its insert and its commit
  when the request stamps the rows, which gives `ErasedInv` and from it
  `DeletionReachesAll`. `QueueInv` keeps `attempts` in range and `RecentInv` ties
  the window to the rows. The refinement uses `IInv` in each step that commits.
  On top of it, `AnswerInv` follows an answer from the reason a handler found
  under the lock over its clean-up to the acknowledgement: rows and failed
  clean-ups only accumulate and no object returns (`Monotone`), so what was
  accounted for stays so, and an acknowledged message was answered by its last
  delivery. `PatientInv` says that, unless its consumer gave up on a handler, the
  handler of a message that runs is the only one.
- PrivacyPurge. `InHand`: what a loop has staged is gone from the bucket and
  overdue, so nulling the key is safe although nothing is locked; `RowFirst`: an
  object never appears again after its row; `AuditBudget`: the audit rows of a
  purged email and the loops that still hold it are together at most the loops,
  because a purged row is never selected again.
- WebhookOutbox. `Exclusive`: a row is in at most one batch and pending there,
  which is what SKIP LOCKED and the filter on the status give; `InBatch` and
  `Cached` tie outcomes and receivers to the batch; `Budget`: the attempts lag
  behind the posts by the post of the current batch and those that crashes cut
  off. The refinement rests on `Exclusive`: the row of a new post is in no other
  batch, so nothing of it is under way (`StartRefines`), and a batch that ends
  takes exactly its own posts out of flight (`SleepEnds`).
- ExtractionReview. `Lifecycle`: only a stored row has values or matches;
  `ReadUndecided`: only a request that read an undecided row goes on;
  `OpenHaveMet`: rows with open transactions have met, and a row with two
  reprocess calls has crossed; `Fresh`: what a reprocess of any other row has read
  is still true when it writes, but for a decision made meanwhile, so that writing
  only the changed columns keeps row, badge and email in step. For duplicates,
  `ChecksHold`: a check that found nothing stays right, until its transaction
  ends, about the rows that it has not met; and `OneIsGone`: of two rows with one
  print, neither flagged, that never met, one has been dismissed and nothing is
  open that could bring it back.
- CategoryFeedback. `Overlaps`: two requests of one pattern that run together
  know it; `Counts`: a count lies between the confirmations that ran alone and
  all that are visible; `Plans`: a plan to insert or to change a rule is still
  right unless another request has met this one; `NothingLeft`: what has not
  committed has written nothing.
- ExtractionPipeline. `Processed`: an outcome is the one that the function gives
  for the email in hand. The rest is about that function: `DomainOfHost`, that
  cutting a host to its domain is idempotent and blind to subdomains, by the
  number of labels; `FirstRealIsReal`, that the first quoted sender which is no
  provider is none, and is missing only if all are providers; `ExtractedAgrees`,
  that the status of the row decides email and event, and a fingerprint needs an
  amount; and `HighNeedsAmount`, that without a template's amount a score is at
  most 8445, below the high band, by the confidence of each method.
- What the emails say (`ContentExtractionProofs`). The rewriting of a body is a
  concatenation of what each line becomes, a fold; what it holds at a position
  is proved by induction over the set of positions at which it would fail, which
  has a least member (`Induction`, from WFMin of the library). From it follow
  where the lines of a table or of an untouched line end up (`Starts`,
  `Places`). `Gives` says that a body
  gives a value first under a name; it holds of the visible part of an alert,
  and rewriting tables and dropping forward headers and footers turn it into
  `Introduces`, from which `AmountIsRead`, `MerchantIsRead` and `DateIsRead`
  compute what the extractor returns. For `EnvelopeDatesLose` it goes backwards:
  a line that survives (`Survivor`) comes from a line of the body, and had that
  one been in the envelope of a forward, the block would have been dropped as a
  whole, since tables leave the lines of an envelope alone and together
  (`BlockSurvives`).

Only model-checked: the liveness properties (`QueueDrains`, `DeletionAnswers`,
`EventsSettle`, `OverduePurged`), since fairness is out of the prover's reach.
Every safety property of a passing run, and every refinement, is a theorem.

## Not modelled

- Merchant rules (`services/rules_engine.py`): static string rules. The learned
  rows of merchant_rules are read by the feedback endpoint only, never by the
  pipeline.
- Bodies of regular expressions, decoding, quote marks, white space, the cap on
  the length, `transaction_flags`.
- Authentication, request schemas, settings, migrations, seeds: guards,
  declarations and constants. The constraints that matter appear as guards
  (`InsertConflict`).
- Snippets, the audit log of the review requests, webhook payloads and
  signatures, statistics: written and never read by the modelled control, or read
  only.
- R2 itself: `get`, `put` and `delete` are steps that may fail, or take effect
  although they fail.

## Plan

Done, in this order: Ingestion and Mailbox, since every other part depends on
their promises; the outbox; the review; the pipeline; the purge and Erasure;
feedback; the text of the emails; the proofs in the order of the table, those
about the text last because they need a theory of folds first; and AtLeastOnce
with its refinement.

Left:

1. Composition: ingestion with purge (a redelivery after `r2_key` is NULL is no
   longer recognised by its key) and ingestion with the outbox (an event exists
   exactly when its work is committed).
2. The audit log of the review requests, and the snapshot in the outbox against
   the row it describes.
3. Abstract specifications of the review (a row, its badge and its email change
   together) and of feedback, with their refinements.
4. Merchant rules as a function on words.
