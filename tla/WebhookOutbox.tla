--------------------------- MODULE WebhookOutbox ---------------------------
(*****************************************************************************)
(* Delivery of the outbox: process_due and the poller loop around it.  A     *)
(* batch is one transaction: it locks the due rows that no other poller      *)
(* holds (FOR UPDATE SKIP LOCKED), posts them one after the other, and       *)
(* commits all the outcomes together.  A restart in the middle of a batch    *)
(* rolls the outcomes back after the receivers have seen the posts.          *)
(*                                                                           *)
(* Time is counted in units; next_attempt_at is kept relative to the         *)
(* present, so it is negative for an overdue row.  Time passes only while    *)
(* pollers sleep or wait for a receiver.                                     *)
(*****************************************************************************)
EXTENDS Integers, FiniteSets

CONSTANTS
  Events,         \* rows of webhook_outbox
  Keys,           \* api keys, each with a receiver of its own
  NoKey,          \* api_key_id NULL, and "no receiver"
  NoEvent,
  KeyOf,          \* routing key of an event
  Pollers,        \* server processes that run the poller loop
  MaxAttempts, Backoff, Batch, NoConfigRetry, PollInterval,
  MaxPost,        \* client timeout
  Horizon,        \* rows overdue by more than this count as equally overdue
  MaxCrashes,     \* bound on the batches that are cut off
  MaxSecrets      \* bound on the values of SECRET_ENCRYPTION_KEY

ASSUME OutboxAssumption ==
  /\ IsFiniteSet(Events)
  /\ KeyOf \in [Events -> Keys \cup {NoKey}]
  /\ NoKey \notin Keys
  /\ NoEvent \notin Events
  /\ MaxAttempts \in Nat \ {0}
  /\ Backoff \in [1 .. MaxAttempts - 1 -> Nat \ {0}]
  /\ Batch \in Nat \ {0}
  /\ NoConfigRetry \in Nat \ {0}
  /\ PollInterval \in Nat \ {0}
  /\ MaxPost \in Nat
  /\ Horizon \in Nat
  /\ MaxCrashes \in Nat /\ MaxSecrets \in Nat \ {0}

VARIABLES
  status,     \* webhook_outbox.status, "none" before the insert commits
  attempts,
  dueIn,      \* next_attempt_at minus the present
  secret,     \* SECRET_ENCRYPTION_KEY as a process has read it at its start
  config,     \* the secret that encrypts the latest webhook config of a key,
              \* 0 if it has none
  latest,     \* the key that configured a webhook last
  phase,      \* sleep, batch or posting
  timer,      \* sleep left, or time the current post has taken
  elapsed,    \* time since the batch read the clock
  claimed,    \* rows the batch holds locked
  staged,     \* outcome of each claimed row, not committed yet
  cache,      \* receivers this batch has resolved
  current,    \* the row being posted
  sent,       \* how often a receiver was sent the event
  heard,      \* the receivers that were sent the event
  accepted,   \* events some receiver answered with 2xx, even if that was lost
  crashes

rowVars == <<status, attempts, dueIn>>
configVars == <<secret, config, latest>>
pollerVars == <<phase, timer, elapsed, claimed, staged, cache, current>>
worldVars == <<sent, heard, accepted>>
vars == <<rowVars, configVars, pollerVars, worldVars, crashes>>

Routes == Keys \cup {NoKey}
Unread == "unread"

Init ==
  /\ status = [e \in Events |-> "none"]
  /\ attempts = [e \in Events |-> 0]
  /\ dueIn = [e \in Events |-> 0]
  /\ secret = [p \in Pollers |-> 1]
  /\ config = [k \in Keys |-> 0]
  /\ latest = NoKey
  /\ phase = [p \in Pollers |-> "sleep"]
  /\ timer = [p \in Pollers |-> 0]
  /\ elapsed = [p \in Pollers |-> 0]
  /\ claimed = [p \in Pollers |-> {}]
  /\ staged = [p \in Pollers |-> [e \in Events |-> "none"]]
  /\ cache = [p \in Pollers |-> [k \in Routes |-> Unread]]
  /\ current = [p \in Pollers |-> NoEvent]
  /\ sent = [e \in Events |-> 0]
  /\ heard = [e \in Events |-> {}]
  /\ accepted = {}
  /\ crashes = 0

-----------------------------------------------------------------------------
(* The transaction that announces e commits; next_attempt_at is now().       *)
Emit(e) ==
  /\ status[e] = "none"
  /\ status' = [status EXCEPT ![e] = "pending"]
  /\ dueIn' = [dueIn EXCEPT ![e] = 0]
  /\ UNCHANGED <<attempts, configVars, pollerVars, worldVars, crashes>>

(* POST /api/v1/config/webhook by the owner of key k; the process that       *)
(* answers encrypts with its secret.                                         *)
Configure(k) ==
  /\ \E p \in Pollers : config' = [config EXCEPT ![k] = secret[p]]
  /\ latest' = k
  /\ UNCHANGED <<rowVars, secret, pollerVars, worldVars, crashes>>

(* A process comes back with another SECRET_ENCRYPTION_KEY, whatever the     *)
(* others are doing; settings are read once, so it takes a restart, and a    *)
(* restart in the middle of a batch is Crash followed by this.               *)
RotateSecret(p) ==
  /\ phase[p] = "sleep"
  /\ secret[p] < MaxSecrets
  /\ secret' = [secret EXCEPT ![p] = secret[p] + 1]
  /\ timer' = [timer EXCEPT ![p] = 0]
  /\ UNCHANGED <<rowVars, config, latest, phase, elapsed, claimed, staged, cache,
                 current, worldVars, crashes>>

(* get_config: the receiver for a routing key, NoKey if there is none whose  *)
(* secret this process can decrypt.                                          *)
Readable(p, r) == r # NoKey /\ config[r] = secret[p]
FallbackReceiver(p, k) ==
  LET r == IF k # NoKey /\ Readable(p, k) THEN k ELSE latest
  IN  IF Readable(p, r) THEN r ELSE NoKey
Receiver(p, k) ==
  LET r == IF k = NoKey THEN latest ELSE k
  IN  IF Readable(p, r) THEN r ELSE NoKey

-----------------------------------------------------------------------------
(* The poller.                                                               *)

GivenUpToo == {e \in Events : status[e] \in {"pending", "failed"}}
Pending == {e \in Events : status[e] = "pending"}
NobodyLocks(p) == {}
LockedByOthers(p) == UNION {claimed[q] : q \in Pollers \ {p}}
Due(p) == {e \in Pending : dueIn[e] <= 0} \ LockedByOthers(p)

(* ORDER BY next_attempt_at LIMIT Batch.                                     *)
FirstDue(p, S) ==
  /\ S \subseteq Due(p)
  /\ Cardinality(S) = IF Cardinality(Due(p)) < Batch THEN Cardinality(Due(p))
                      ELSE Batch
  /\ \A e \in S, f \in Due(p) \ S : dueIn[e] <= dueIn[f]

Sleep(p, t) ==
  /\ phase' = [phase EXCEPT ![p] = "sleep"]
  /\ timer' = [timer EXCEPT ![p] = t]
  /\ elapsed' = [elapsed EXCEPT ![p] = 0]
  /\ claimed' = [claimed EXCEPT ![p] = {}]
  /\ staged' = [staged EXCEPT ![p] = [e \in Events |-> "none"]]
  /\ cache' = [cache EXCEPT ![p] = [k \in Routes |-> Unread]]
  /\ current' = [current EXCEPT ![p] = NoEvent]

Wakes(p) == phase[p] = "sleep" /\ timer[p] = 0

FindNothing(p) ==
  /\ Wakes(p)
  /\ Due(p) = {}
  /\ Sleep(p, PollInterval)
  /\ UNCHANGED <<rowVars, configVars, worldVars, crashes>>

Claim(p) ==
  /\ Wakes(p)
  /\ \E S \in SUBSET Pending :
       /\ S # {}
       /\ FirstDue(p, S)
       /\ claimed' = [claimed EXCEPT ![p] = S]
  /\ phase' = [phase EXCEPT ![p] = "batch"]
  /\ UNCHANGED <<rowVars, configVars, timer, elapsed, staged, cache, current,
                 worldVars, crashes>>

(* The rows of the batch are taken in the order of next_attempt_at.          *)
Todo(p) == {e \in claimed[p] : staged[p][e] = "none"}
NextRow(p, e) ==
  /\ phase[p] = "batch"
  /\ e \in Todo(p)
  /\ \A f \in Todo(p) : dueIn[e] <= dueIn[f]

(* The receiver of e, resolved once per batch and key.                       *)
Resolved(p, e) ==
  IF cache[p][KeyOf[e]] = Unread THEN Receiver(p, KeyOf[e])
  ELSE cache[p][KeyOf[e]]
Remember(p, e) ==
  cache' = [cache EXCEPT ![p] = [cache[p] EXCEPT ![KeyOf[e]] = Resolved(p, e)]]
ForgivesFailure(p, e, outcome) ==
  staged' = [staged EXCEPT ![p] =
               [staged[p] EXCEPT ![e] = IF outcome = "fail" THEN "defer" ELSE outcome]]
Stage(p, e, outcome) ==
  staged' = [staged EXCEPT ![p] = [staged[p] EXCEPT ![e] = outcome]]

DeferStalls(p, e) ==
  /\ NextRow(p, e)
  /\ Resolved(p, e) = NoKey
  /\ Sleep(p, PollInterval)
  /\ UNCHANGED <<rowVars, configVars, worldVars, crashes>>

(* No receiver yet: the row waits and burns no attempt.                      *)
Defer(p, e) ==
  /\ NextRow(p, e)
  /\ Resolved(p, e) = NoKey
  /\ Remember(p, e)
  /\ Stage(p, e, "defer")
  /\ UNCHANGED <<rowVars, configVars, phase, timer, elapsed, claimed, current,
                 worldVars, crashes>>

StartPost(p, e) ==
  /\ NextRow(p, e)
  /\ Resolved(p, e) # NoKey
  /\ Remember(p, e)
  /\ phase' = [phase EXCEPT ![p] = "posting"]
  /\ timer' = [timer EXCEPT ![p] = 0]
  /\ current' = [current EXCEPT ![p] = e]
  /\ sent' = [sent EXCEPT ![e] = sent[e] + 1]
  /\ heard' = [heard EXCEPT ![e] = heard[e] \cup {Resolved(p, e)}]
  /\ UNCHANGED <<rowVars, configVars, elapsed, claimed, staged, accepted, crashes>>

(* 2xx, an error or a timeout; a receiver that was too slow may still have   *)
(* accepted the event.                                                       *)
EndPost(p) ==
  /\ phase[p] = "posting"
  /\ \/ Stage(p, current[p], "ok") /\ accepted' = accepted \cup {current[p]}
     \/ Stage(p, current[p], "fail") /\ accepted' = accepted
     \/ Stage(p, current[p], "fail") /\ accepted' = accepted \cup {current[p]}
  /\ phase' = [phase EXCEPT ![p] = "batch"]
  /\ timer' = [timer EXCEPT ![p] = 0]
  /\ current' = [current EXCEPT ![p] = NoEvent]
  /\ UNCHANGED <<rowVars, configVars, elapsed, claimed, cache, sent, heard, crashes>>

(* What the commit writes for a row with this outcome.                       *)
BurnsOnDefer(e, outcome) == attempts[e] + 1
Tried(e, outcome) == attempts[e] + (IF outcome \in {"ok", "fail"} THEN 1 ELSE 0)
NewStatus(e, outcome) ==
  CASE outcome = "ok" -> "delivered"
    [] outcome = "fail" /\ Tried(e, outcome) >= MaxAttempts -> "failed"
    [] OTHER -> status[e]
Delay(e, outcome) ==
  IF outcome = "defer" THEN NoConfigRetry ELSE Backoff[Tried(e, outcome)]

(* The delays count from the clock reading at the start of the batch.        *)
CommitBatch(p) ==
  LET out(e) == staged[p][e]
  IN  /\ phase[p] = "batch"
      /\ Todo(p) = {}
      /\ attempts' = [e \in Events |-> IF e \in claimed[p] THEN Tried(e, out(e))
                                      ELSE attempts[e]]
      /\ status' = [e \in Events |-> IF e \in claimed[p] THEN NewStatus(e, out(e))
                                    ELSE status[e]]
      /\ dueIn' = [e \in Events |->
                     IF e \notin claimed[p] THEN dueIn[e]
                     ELSE IF NewStatus(e, out(e)) = "pending"
                          THEN Delay(e, out(e)) - elapsed[p] ELSE 0]
      /\ Sleep(p, PollInterval)
      /\ UNCHANGED <<configVars, worldVars, crashes>>

(* A database error ends the batch and the loop sleeps; after a restart it   *)
(* polls at once.                                                            *)
Crash(p) ==
  /\ phase[p] # "sleep"
  /\ crashes < MaxCrashes
  /\ crashes' = crashes + 1
  /\ Sleep(p, PollInterval) \/ Sleep(p, 0)
  /\ UNCHANGED <<rowVars, configVars, worldVars>>

(* One unit of time.                                                         *)
Tick ==
  /\ \A p \in Pollers : \/ phase[p] = "sleep" /\ timer[p] > 0
                        \/ phase[p] = "posting" /\ timer[p] < MaxPost
  /\ timer' = [p \in Pollers |-> IF phase[p] = "sleep" THEN timer[p] - 1
                                 ELSE timer[p] + 1]
  /\ elapsed' = [p \in Pollers |-> IF phase[p] = "sleep" THEN 0 ELSE elapsed[p] + 1]
  /\ dueIn' = [e \in Events |-> IF status[e] # "pending" THEN 0
                               ELSE IF dueIn[e] > -Horizon THEN dueIn[e] - 1
                               ELSE dueIn[e]]
  /\ UNCHANGED <<status, attempts, configVars, phase, claimed, staged, cache,
                 current, worldVars, crashes>>

PollerStep(p) ==
  \/ FindNothing(p) \/ Claim(p) \/ EndPost(p) \/ CommitBatch(p)
  \/ \E e \in Events : Defer(p, e) \/ StartPost(p, e)

Next ==
  \/ \E e \in Events : Emit(e)
  \/ \E k \in Keys : Configure(k)
  \/ \E p \in Pollers : PollerStep(p) \/ Crash(p) \/ RotateSecret(p)
  \/ Tick

Spec == Init /\ [][Next]_vars

(* The event loop resumes the poller, and time passes.                       *)
FairSpec == Spec /\ WF_vars(Tick) /\ \A p \in Pollers : WF_vars(PollerStep(p))

-----------------------------------------------------------------------------
(* Every variable keeps its type.                                            *)
TypeOK ==
  /\ status \in [Events -> {"none", "pending", "delivered", "failed"}]
  /\ attempts \in [Events -> 0 .. MaxAttempts]
  /\ dueIn \in [Events -> Int]
  /\ secret \in [Pollers -> 1 .. MaxSecrets]
  /\ config \in [Keys -> 0 .. MaxSecrets]
  /\ latest \in Routes
  /\ phase \in [Pollers -> {"sleep", "batch", "posting"}]
  /\ timer \in [Pollers -> Nat]
  /\ elapsed \in [Pollers -> Nat]
  /\ claimed \in [Pollers -> SUBSET Events]
  /\ staged \in [Pollers -> [Events -> {"none", "ok", "fail", "defer"}]]
  /\ cache \in [Pollers -> [Routes -> Routes \cup {Unread}]]
  /\ current \in [Pollers -> Events \cup {NoEvent}]
  /\ sent \in [Events -> Nat]
  /\ heard \in [Events -> SUBSET Keys]
  /\ accepted \subseteq Events
  /\ crashes \in 0 .. MaxCrashes

(* Posts of a row that its attempt counter does not show yet.                *)
Uncounted(e) ==
  {p \in Pollers : current[p] = e \/ staged[p][e] \in {"ok", "fail"}}

(* Every post is counted against the budget of its event: a receiver sees    *)
(* more posts than attempts only for a batch in progress or a batch that a   *)
(* restart cut off, also when two pollers run during a deploy.               *)
PostsAreCounted ==
  \A e \in Events :
    sent[e] <= attempts[e] + Cardinality(Uncounted(e)) + crashes

(* A keyed event reaches only the receiver of its own key, however configs   *)
(* come, change and become unreadable around the batch that sends it.        *)
RoutedToOwner ==
  \A e \in Events : KeyOf[e] # NoKey => heard[e] \subseteq {KeyOf[e]}

(* A row is given up only after its whole budget of real posts, and marked   *)
(* delivered only after a receiver accepted it: deferral burns nothing and   *)
(* a rolled back batch leaves no trace.                                      *)
OutcomeEarned ==
  \A e \in Events :
    /\ status[e] = "failed" => attempts[e] = MaxAttempts /\ sent[e] >= MaxAttempts
    /\ status[e] = "delivered" => e \in accepted

(* What the properties rest on: a row belongs to at most one batch, and to   *)
(* none once it is settled; a batch has outcomes of its own rows only and    *)
(* posts a row that has none yet; a cached receiver is that of its key; an   *)
(* accepted outcome has been accepted; and the counter of a row lags behind  *)
(* its posts by the post of its batch and by those that restarts cut off.    *)
Exclusive ==
  \A p \in Pollers :
    /\ claimed[p] \subseteq Pending
    /\ \A q \in Pollers \ {p} : claimed[p] \cap claimed[q] = {}
InBatch ==
  \A p \in Pollers :
    /\ phase[p] = "posting" => current[p] \in Todo(p)
    /\ phase[p] # "posting" => current[p] = NoEvent
    /\ phase[p] = "sleep" => claimed[p] = {}
    /\ \A e \in Events :
         /\ staged[p][e] # "none" => e \in claimed[p]
         /\ staged[p][e] = "ok" => e \in accepted
Cached == \A p \in Pollers, k \in Keys : cache[p][k] \in {Unread, NoKey, k}
InProgress(e) == IF Uncounted(e) = {} THEN 0 ELSE 1
Budget ==
  \A e \in Events :
    /\ status[e] \in {"none", "pending"} => attempts[e] < MaxAttempts
    /\ sent[e] >= attempts[e] + InProgress(e)
    /\ sent[e] <= attempts[e] + InProgress(e) + crashes
IInv ==
  TypeOK /\ Exclusive /\ InBatch /\ Cached /\ Budget /\ RoutedToOwner /\ OutcomeEarned

(* The promise: seen from outside, a post is under way from its start until  *)
(* its batch commits or a restart cuts it off; posts of one event never      *)
(* overlap, each is counted once, and nothing happens to a settled event.    *)
InFlight == {e \in Events : Uncounted(e) # {}}
Promise == INSTANCE AtLeastOnce WITH open <- InFlight, restarts <- crashes
ImplementsAtLeastOnce == Promise!DeliverySpec

(* Whatever can be delivered is eventually delivered or surfaced as failed,  *)
(* and is not starved by rows that have no receiver.                         *)
Deliverable(e) == \A p \in Pollers : Receiver(p, KeyOf[e]) # NoKey
EventsSettle ==
  \A e \in Events :
    <>[]Deliverable(e) =>
      (status[e] = "pending" ~> status[e] \in {"delivered", "failed"})
=============================================================================
