------------------------ MODULE WebhookOutboxProofs ------------------------
(*****************************************************************************)
(* Machine-checked proofs about WebhookOutbox, for any events, keys and      *)
(* pollers, any budgets, delays and batch sizes, and any number of restarts. *)
(*****************************************************************************)
EXTENDS WebhookOutbox, FiniteSetTheorems, TLAPS

-----------------------------------------------------------------------------
(* Receivers.                                                                *)

(* A keyed event has the receiver of its key or none.                        *)
LEMMA ReceiverOfKey ==
  ASSUME TypeOK, NEW p \in Pollers, NEW k \in Routes
  PROVE  /\ Receiver(p, k) \in Routes
         /\ k \in Keys => Receiver(p, k) \in {k, NoKey}
BY OutboxAssumption DEF TypeOK, Receiver, Routes

LEMMA ResolvedOfKey ==
  ASSUME TypeOK, Cached, NEW p \in Pollers, NEW e \in Events
  PROVE  /\ KeyOf[e] \in Routes
         /\ Resolved(p, e) \in Routes
         /\ KeyOf[e] # NoKey => Resolved(p, e) \in {KeyOf[e], NoKey}
<1>1. KeyOf[e] \in Routes /\ (KeyOf[e] # NoKey => KeyOf[e] \in Keys)
  BY OutboxAssumption DEF Routes
<1>2. Receiver(p, KeyOf[e]) \in Routes
      /\ (KeyOf[e] # NoKey => Receiver(p, KeyOf[e]) \in {KeyOf[e], NoKey})
  BY <1>1, ReceiverOfKey
<1>3. cache[p][KeyOf[e]] \in Routes \cup {Unread}
  BY <1>1 DEF TypeOK
<1> QED
  BY <1>1, <1>2, <1>3 DEF Cached, Resolved

(* Remembering the receiver keeps the cache typed and true to its keys.      *)
LEMMA RememberKeeps ==
  ASSUME TypeOK, Cached, NEW p \in Pollers, NEW e \in Events, Remember(p, e)
  PROVE  /\ cache' \in [Pollers -> [Routes -> Routes \cup {Unread}]]
         /\ Cached'
<1> DEFINE row == [cache[p] EXCEPT ![KeyOf[e]] = Resolved(p, e)]
<1>1. KeyOf[e] \in Routes /\ Resolved(p, e) \in Routes
      /\ (KeyOf[e] # NoKey => Resolved(p, e) \in {KeyOf[e], NoKey})
  BY ResolvedOfKey
<1>2. cache \in [Pollers -> [Routes -> Routes \cup {Unread}]]
  BY DEF TypeOK
<1>3. cache' = [cache EXCEPT ![p] = row]
  BY DEF Remember
<1>4. row \in [Routes -> Routes \cup {Unread}]
  BY <1>1, <1>2
<1>5. ASSUME NEW k \in Keys PROVE row[k] \in {Unread, NoKey, k}
  <2>1. k \in Routes /\ k # NoKey
    BY OutboxAssumption DEF Routes
  <2>2. cache[p][k] \in {Unread, NoKey, k}
    BY DEF Cached
  <2>3. row[k] = IF k = KeyOf[e] THEN Resolved(p, e) ELSE cache[p][k]
    BY <1>2, <2>1
  <2> QED
    BY <1>1, <2>1, <2>2, <2>3
<1>6. \A q \in Pollers : cache'[q] = IF q = p THEN row ELSE cache[q]
  BY <1>2, <1>3
<1> HIDE DEF row
<1>7. Cached'
  BY <1>5, <1>6 DEF Cached
<1> QED
  BY <1>2, <1>3, <1>4, <1>7

-----------------------------------------------------------------------------
LEMMA InvInit == Init => IInv
<1> SUFFICES ASSUME Init PROVE IInv
  OBVIOUS
<1> USE OutboxAssumption
<1>1. TypeOK
  BY DEF Init, TypeOK, Routes
<1>2. Exclusive /\ InBatch /\ Cached
  BY DEF Init, Exclusive, InBatch, Cached, Routes
<1>3. Budget /\ RoutedToOwner /\ OutcomeEarned
  <2>1. \A e \in Events : Uncounted(e) = {}
    BY DEF Init, Uncounted
  <2> QED
    BY <2>1 DEF Init, Budget, InProgress, RoutedToOwner, OutcomeEarned
<1> QED
  BY <1>1, <1>2, <1>3 DEF IInv

(* Events that are announced and receivers that change touch no batch.       *)
LEMMA InvWorld ==
  ASSUME IInv,
         \/ \E e \in Events : Emit(e)
         \/ \E k \in Keys : Configure(k)
         \/ \E p \in Pollers : RotateSecret(p)
  PROVE  IInv'
<1> USE OutboxAssumption DEF rowVars, configVars, pollerVars, worldVars
<1>0. \A e \in Events : InProgress(e)' = InProgress(e)
  BY DEF Emit, Configure, RotateSecret, InProgress, Uncounted
<1>1. CASE \E e \in Events : Emit(e)
  <2> PICK e \in Events : Emit(e)
    BY <1>1
  <2>1. TypeOK'
    BY DEF IInv, TypeOK, Emit
  <2>2. Exclusive' /\ InBatch' /\ Cached'
    BY DEF IInv, TypeOK, Emit, Exclusive, InBatch, Todo, Cached, Pending
  <2>3. status \in [Events -> {"none", "pending", "delivered", "failed"}]
        /\ status[e] = "none" /\ status' = [status EXCEPT ![e] = "pending"]
        /\ UNCHANGED <<attempts, worldVars, crashes>>
    BY DEF IInv, TypeOK, Emit
  <2>4. Budget'
    <3> SUFFICES ASSUME NEW f \in Events
                 PROVE  /\ status'[f] \in {"none", "pending"} => attempts[f] < MaxAttempts
                        /\ sent[f] >= attempts[f] + InProgress(f)
                        /\ sent[f] <= attempts[f] + InProgress(f) + crashes
      BY <1>0, <2>3 DEF Budget
    <3>1. /\ status[f] \in {"none", "pending"} => attempts[f] < MaxAttempts
          /\ sent[f] >= attempts[f] + InProgress(f)
          /\ sent[f] <= attempts[f] + InProgress(f) + crashes
      BY DEF IInv, Budget
    <3>2. status'[f] \in {"none", "pending"} => status[f] \in {"none", "pending"}
      BY <2>3
    <3> QED
      BY <3>1, <3>2
  <2>5. RoutedToOwner' /\ OutcomeEarned'
    BY <2>3 DEF IInv, RoutedToOwner, OutcomeEarned
  <2> QED
    BY <2>1, <2>2, <2>4, <2>5 DEF IInv
<1>2. CASE \/ \E p \in Pollers : RotateSecret(p)
           \/ \E k \in Keys : Configure(k)
  <2>1. UNCHANGED <<rowVars, phase, elapsed, claimed, staged, cache, current,
                    worldVars, crashes>>
    BY <1>2 DEF RotateSecret, Configure
  <2>2. /\ timer' \in [Pollers -> Nat] /\ latest' \in Routes
        /\ secret' \in [Pollers -> 1 .. MaxSecrets]
        /\ config' \in [Keys -> 0 .. MaxSecrets]
    <3>1. CASE \E p \in Pollers : RotateSecret(p)
      <4> PICK p \in Pollers : RotateSecret(p)
        BY <3>1
      <4>1. secret[p] + 1 \in 1 .. MaxSecrets
        BY DEF IInv, TypeOK, RotateSecret
      <4> QED
        BY <4>1 DEF IInv, TypeOK, RotateSecret
    <3>2. CASE \E k \in Keys : Configure(k)
      <4> PICK k \in Keys : Configure(k)
        BY <3>2
      <4>1. latest' \in Routes /\ UNCHANGED <<secret, timer>>
        BY DEF Configure, Routes
      <4>2. config' \in [Keys -> 0 .. MaxSecrets]
        BY DEF IInv, TypeOK, Configure
      <4> QED
        BY <4>1, <4>2 DEF IInv, TypeOK
    <3> QED
      BY <1>2, <3>1, <3>2
  <2>3. TypeOK'
    BY <2>1, <2>2 DEF IInv, TypeOK
  <2>4. Exclusive' /\ InBatch' /\ Cached'
    BY <2>1 DEF IInv, Exclusive, InBatch, Todo, Cached, Pending
  <2>5. Budget' /\ RoutedToOwner' /\ OutcomeEarned'
    BY <1>0, <2>1, <1>2 DEF IInv, Budget, RoutedToOwner, OutcomeEarned
  <2> QED
    BY <2>3, <2>4, <2>5 DEF IInv
<1> QED
  BY <1>1, <1>2

-----------------------------------------------------------------------------
(* The steps of a poller.                                                    *)

(* Only the batch that holds a row has posts of it that are not counted.     *)
LEMMA UncountedInBatch ==
  ASSUME IInv, NEW e \in Events, NEW p \in Uncounted(e)
  PROVE  p \in Pollers /\ e \in claimed[p] /\ Uncounted(e) = {p}
<1>1. \A q \in Uncounted(e) : q \in Pollers /\ e \in claimed[q]
  BY OutboxAssumption DEF IInv, InBatch, Todo, Uncounted, TypeOK
<1> QED
  BY <1>1 DEF IInv, Exclusive

(* A poller that goes to sleep lets go of everything.                        *)
LEMMA SleepFrees ==
  ASSUME TypeOK, NEW p \in Pollers, NEW t \in Nat, Sleep(p, t)
  PROVE  /\ phase' \in [Pollers -> {"sleep", "batch", "posting"}]
         /\ timer' \in [Pollers -> Nat] /\ elapsed' \in [Pollers -> Nat]
         /\ claimed' \in [Pollers -> SUBSET Events]
         /\ staged' \in [Pollers -> [Events -> {"none", "ok", "fail", "defer"}]]
         /\ cache' \in [Pollers -> [Routes -> Routes \cup {Unread}]]
         /\ current' \in [Pollers -> Events \cup {NoEvent}]
         /\ claimed'[p] = {} /\ phase'[p] = "sleep" /\ current'[p] = NoEvent
         /\ \A e \in Events : staged'[p][e] = "none"
         /\ \A k \in Routes : cache'[p][k] = Unread
         /\ \A q \in Pollers \ {p} :
              /\ claimed'[q] = claimed[q] /\ phase'[q] = phase[q]
              /\ current'[q] = current[q] /\ staged'[q] = staged[q]
              /\ cache'[q] = cache[q]
         /\ \A e \in Events : Uncounted(e)' = Uncounted(e) \ {p}
BY OutboxAssumption DEF TypeOK, Sleep, Uncounted

(* With the rows it held settled or let go, its batch leaves no trace.       *)
LEMMA SleepKeeps ==
  ASSUME IInv, NEW p \in Pollers, NEW t \in Nat, Sleep(p, t), UNCHANGED accepted,
         \A e \in Events : e \in claimed[p] \/ status'[e] = status[e]
  PROVE  Exclusive' /\ InBatch' /\ Cached'
<1> USE DEF IInv
<1>0. /\ claimed'[p] = {} /\ phase'[p] = "sleep" /\ current'[p] = NoEvent
      /\ \A e \in Events : staged'[p][e] = "none"
      /\ \A k \in Routes : cache'[p][k] = Unread
      /\ \A q \in Pollers \ {p} :
           /\ claimed'[q] = claimed[q] /\ phase'[q] = phase[q]
           /\ current'[q] = current[q] /\ staged'[q] = staged[q]
           /\ cache'[q] = cache[q]
  BY SleepFrees
<1>1. Exclusive'
  <2> SUFFICES ASSUME NEW q \in Pollers, NEW e \in claimed'[q]
               PROVE  /\ e \in Events /\ status'[e] = "pending"
                      /\ \A r \in Pollers \ {q} : e \notin claimed'[r]
    BY DEF Exclusive, Pending
  <2>1. q # p /\ e \in claimed[q] /\ e \in Events
    BY <1>0 DEF TypeOK
  <2>2. e \notin claimed[p] /\ status[e] = "pending"
        /\ \A r \in Pollers \ {q} : e \notin claimed[r]
    BY <2>1 DEF Exclusive, Pending
  <2> QED
    BY <1>0, <2>1, <2>2
<1>2. InBatch'
  BY <1>0 DEF InBatch, Todo
<1>3. Cached'
  BY <1>0 DEF Cached, Routes
<1> QED
  BY <1>1, <1>2, <1>3

(* A batch that found nothing, or that was cut off.                          *)
LEMMA InvSleep ==
  ASSUME IInv, NEW p \in Pollers, FindNothing(p) \/ Crash(p)
  PROVE  IInv'
<1> USE OutboxAssumption DEF rowVars, configVars, worldVars
<1>1. PICK t \in Nat : Sleep(p, t)
  BY DEF FindNothing, Crash
<1>2. UNCHANGED <<rowVars, configVars, worldVars>>
      /\ crashes' \in 0 .. MaxCrashes /\ crashes' >= crashes
      /\ ((\E e \in Events : p \in Uncounted(e)) => crashes' = crashes + 1)
  <2>1. CASE FindNothing(p)
    <3>1. \A e \in Events : p \notin Uncounted(e)
      BY <2>1, UncountedInBatch DEF FindNothing, Wakes, IInv, InBatch
    <3> QED
      BY <2>1, <3>1 DEF FindNothing, IInv, TypeOK
  <2>2. CASE Crash(p)
    BY <2>2 DEF Crash, IInv, TypeOK
  <2> QED
    BY <2>1, <2>2
<1>3. TypeOK'
  BY <1>1, <1>2, SleepFrees DEF IInv, TypeOK
<1>4. Exclusive' /\ InBatch' /\ Cached'
  BY <1>1, <1>2, SleepKeeps
<1>5. Budget'
  <2> SUFFICES ASSUME NEW e \in Events
               PROVE  /\ sent[e] >= attempts[e] + InProgress(e)'
                      /\ sent[e] <= attempts[e] + InProgress(e)' + crashes'
    BY <1>2 DEF Budget, IInv
  <2>1. /\ sent[e] \in Nat /\ attempts[e] \in Nat /\ crashes \in Nat /\ crashes' \in Nat
        /\ sent[e] >= attempts[e] + InProgress(e)
        /\ sent[e] <= attempts[e] + InProgress(e) + crashes
    BY <1>2 DEF IInv, Budget, TypeOK
  <2>2. Uncounted(e)' = Uncounted(e) \ {p}
    BY <1>1, SleepFrees DEF IInv
  <2>3. CASE p \in Uncounted(e)
    <3>1. Uncounted(e) = {p}
      BY <2>3, UncountedInBatch
    <3>2. InProgress(e) = 1 /\ InProgress(e)' = 0
      BY <2>2, <3>1 DEF InProgress
    <3>3. crashes' = crashes + 1
      BY <1>2, <2>3
    <3>4. sent[e] >= attempts[e] + 1 /\ sent[e] <= attempts[e] + 1 + crashes
      BY <2>1, <3>2
    <3>5. sent[e] >= attempts[e] /\ sent[e] <= attempts[e] + crashes'
      BY <2>1, <3>3, <3>4
    <3>6. sent[e] >= attempts[e] + 0 /\ sent[e] <= attempts[e] + 0 + crashes'
      BY <2>1, <3>5
    <3> QED
      BY <3>2, <3>6
  <2>4. CASE p \notin Uncounted(e)
    <3>1. InProgress(e)' = InProgress(e) /\ InProgress(e) \in {0, 1}
      BY <2>2, <2>4 DEF InProgress
    <3> QED
      BY <1>2, <2>1, <3>1
  <2> QED
    BY <2>3, <2>4
<1>6. RoutedToOwner' /\ OutcomeEarned'
  BY <1>2 DEF IInv, RoutedToOwner, OutcomeEarned
<1> QED
  BY <1>3, <1>4, <1>5, <1>6 DEF IInv

(* A batch takes rows that nobody holds.                                     *)
LEMMA InvClaim ==
  ASSUME IInv, NEW p \in Pollers, Claim(p)
  PROVE  IInv'
<1> USE OutboxAssumption DEF rowVars, configVars, worldVars
<1>1. PICK S \in SUBSET Pending : FirstDue(p, S) /\ claimed' = [claimed EXCEPT ![p] = S]
  BY DEF Claim
<1>2. S \subseteq Events /\ S \subseteq Pending
      /\ \A q \in Pollers \ {p} : S \cap claimed[q] = {}
  BY <1>1 DEF FirstDue, Due, LockedByOthers, Pending
<1>3. phase[p] = "sleep" /\ phase' = [phase EXCEPT ![p] = "batch"]
  BY DEF Claim, Wakes
<1>4. UNCHANGED <<rowVars, configVars, timer, elapsed, staged, cache, current,
                  worldVars, crashes>>
  BY DEF Claim
<1>5. TypeOK'
  BY <1>1, <1>2, <1>3, <1>4 DEF IInv, TypeOK
<1>6. Exclusive'
  <2>1. \A q \in Pollers : claimed'[q] = IF q = p THEN S ELSE claimed[q]
    BY <1>1 DEF IInv, TypeOK
  <2> QED
    BY <1>2, <1>4, <2>1 DEF IInv, Exclusive, Pending
<1>7. InBatch'
  <2>1. claimed[p] = {} /\ claimed'[p] = S
        /\ \A q \in Pollers \ {p} : claimed'[q] = claimed[q] /\ phase'[q] = phase[q]
    BY <1>1, <1>3 DEF IInv, TypeOK, InBatch
  <2>2. phase'[p] = "batch" /\ current[p] = NoEvent
    BY <1>3 DEF IInv, TypeOK, InBatch
  <2> QED
    BY <1>4, <2>1, <2>2 DEF IInv, InBatch, Todo
<1>8. Cached' /\ RoutedToOwner' /\ OutcomeEarned'
  BY <1>4 DEF IInv, Cached, RoutedToOwner, OutcomeEarned
<1>9. Budget'
  BY <1>4 DEF IInv, Budget, InProgress, Uncounted
<1> QED
  BY <1>5, <1>6, <1>7, <1>8, <1>9 DEF IInv

(* A row is deferred.                                                        *)
LEMMA InvDefer ==
  ASSUME IInv, NEW p \in Pollers, NEW e \in Events, Defer(p, e)
  PROVE  IInv'
<1> USE OutboxAssumption DEF rowVars, configVars, worldVars
<1>1. /\ phase[p] = "batch" /\ e \in claimed[p] /\ staged[p][e] = "none"
      /\ staged' = [staged EXCEPT ![p] = [staged[p] EXCEPT ![e] = "defer"]]
      /\ Remember(p, e)
      /\ UNCHANGED <<rowVars, configVars, phase, timer, elapsed, claimed, current,
                     worldVars, crashes>>
  BY DEF Defer, NextRow, Todo, Stage
<1>2. cache' \in [Pollers -> [Routes -> Routes \cup {Unread}]] /\ Cached'
  BY <1>1, RememberKeeps DEF IInv
<1>3. staged' \in [Pollers -> [Events -> {"none", "ok", "fail", "defer"}]]
      /\ \A q \in Pollers, f \in Events :
           staged'[q][f] = IF q = p /\ f = e THEN "defer" ELSE staged[q][f]
  BY <1>1 DEF IInv, TypeOK
<1>4. TypeOK'
  BY <1>1, <1>2, <1>3 DEF IInv, TypeOK
<1>5. Exclusive' /\ RoutedToOwner' /\ OutcomeEarned'
  BY <1>1 DEF IInv, Exclusive, Pending, RoutedToOwner, OutcomeEarned
<1>6. InBatch'
  BY <1>1, <1>3 DEF IInv, InBatch, Todo, TypeOK
<1>7. \A f \in Events : Uncounted(f)' = Uncounted(f)
  BY <1>1, <1>3 DEF Uncounted
<1>8. Budget'
  BY <1>1, <1>7 DEF IInv, Budget, InProgress
<1> QED
  BY <1>2, <1>4, <1>5, <1>6, <1>8 DEF IInv

(* A post begins: the row of a batch has one post that is not counted.       *)
LEMMA InvStartPost ==
  ASSUME IInv, NEW p \in Pollers, NEW e \in Events, StartPost(p, e)
  PROVE  IInv'
<1> USE OutboxAssumption DEF rowVars, configVars
<1>1. /\ phase[p] = "batch" /\ e \in claimed[p] /\ staged[p][e] = "none"
      /\ Resolved(p, e) # NoKey /\ Remember(p, e)
      /\ phase' = [phase EXCEPT ![p] = "posting"]
      /\ timer' = [timer EXCEPT ![p] = 0]
      /\ current' = [current EXCEPT ![p] = e]
      /\ sent' = [sent EXCEPT ![e] = sent[e] + 1]
      /\ heard' = [heard EXCEPT ![e] = heard[e] \cup {Resolved(p, e)}]
      /\ UNCHANGED <<rowVars, configVars, elapsed, claimed, staged, accepted, crashes>>
  BY DEF StartPost, NextRow, Todo
<1>2. cache' \in [Pollers -> [Routes -> Routes \cup {Unread}]] /\ Cached'
  BY <1>1, RememberKeeps DEF IInv
<1>3. Resolved(p, e) \in Keys /\ (KeyOf[e] # NoKey => Resolved(p, e) = KeyOf[e])
  BY <1>1, ResolvedOfKey DEF IInv, Routes
<1>4. TypeOK'
  <2>1. sent' \in [Events -> Nat] /\ heard' \in [Events -> SUBSET Keys]
    BY <1>1, <1>3 DEF IInv, TypeOK
  <2> QED
    BY <1>1, <1>2, <2>1 DEF IInv, TypeOK
<1>5. Exclusive' /\ InBatch'
  BY <1>1, SMTT(30) DEF IInv, TypeOK, Exclusive, Pending, InBatch, Todo
<1>6. RoutedToOwner'
  BY <1>1, <1>3 DEF IInv, TypeOK, RoutedToOwner
<1>7. \A f \in Events : sent'[f] >= sent[f]
  BY <1>1 DEF IInv, TypeOK
<1>8. OutcomeEarned'
  <2>1. sent' \in [Events -> Nat] /\ sent \in [Events -> Nat] /\ MaxAttempts \in Nat
    BY <1>4 DEF IInv, TypeOK
  <2> QED
    BY <1>1, <1>7, <2>1 DEF IInv, OutcomeEarned
<1>9. Budget'
  <2>1. Uncounted(e) = {}
    <3>1. current[p] = NoEvent
      BY <1>1 DEF IInv, InBatch
    <3>2. p \notin Uncounted(e)
      BY <1>1, <3>1 DEF Uncounted
    <3>3. \A q \in Uncounted(e) : e \in claimed[q] /\ q \in Pollers
      BY UncountedInBatch
    <3> QED
      BY <1>1, <3>2, <3>3 DEF IInv, Exclusive
  <2>2. p \in Uncounted(e)'
    BY <1>1 DEF Uncounted, IInv, TypeOK
  <2>3. \A f \in Events \ {e} : Uncounted(f)' = Uncounted(f)
    <3>1. current[p] = NoEvent /\ NoEvent \notin Events
      BY <1>1 DEF IInv, InBatch
    <3>2. \A q \in Pollers : current'[q] = IF q = p THEN e ELSE current[q]
      BY <1>1 DEF IInv, TypeOK
    <3> QED
      BY <1>1, <3>1, <3>2 DEF Uncounted
  <2> SUFFICES ASSUME NEW f \in Events
               PROVE  /\ sent'[f] >= attempts[f] + InProgress(f)'
                      /\ sent'[f] <= attempts[f] + InProgress(f)' + crashes
    BY <1>1 DEF IInv, Budget
  <2>4. /\ sent[f] \in Nat /\ attempts[f] \in Nat /\ crashes \in Nat
        /\ sent[f] >= attempts[f] + InProgress(f)
        /\ sent[f] <= attempts[f] + InProgress(f) + crashes
    BY DEF IInv, Budget, TypeOK
  <2>5. CASE f = e
    <3>1. InProgress(f) = 0 /\ InProgress(f)' = 1
      BY <2>1, <2>2, <2>5 DEF InProgress
    <3>2. sent'[f] = sent[f] + 1
      BY <1>1, <2>5 DEF IInv, TypeOK
    <3> QED
      BY <2>4, <3>1, <3>2
  <2>6. CASE f # e
    <3>1. InProgress(f)' = InProgress(f)
      BY <2>3, <2>6 DEF InProgress
    <3>2. sent'[f] = sent[f]
      BY <1>1, <2>6 DEF IInv, TypeOK
    <3> QED
      BY <2>4, <3>1, <3>2
  <2> QED
    BY <2>5, <2>6
<1> QED
  BY <1>2, <1>4, <1>5, <1>6, <1>8, <1>9 DEF IInv

(* A post ends: it stays uncounted until its batch commits.                  *)
LEMMA InvEndPost ==
  ASSUME IInv, NEW p \in Pollers, EndPost(p)
  PROVE  IInv'
<1> USE OutboxAssumption DEF rowVars, configVars
<1> DEFINE e == current[p]
<1>1. e \in Events /\ e \in claimed[p] /\ staged[p][e] = "none" /\ phase[p] = "posting"
  BY DEF EndPost, IInv, InBatch, Todo, TypeOK
<1>2. /\ phase' = [phase EXCEPT ![p] = "batch"]
      /\ timer' = [timer EXCEPT ![p] = 0]
      /\ current' = [current EXCEPT ![p] = NoEvent]
      /\ UNCHANGED <<rowVars, configVars, elapsed, claimed, cache, sent, heard, crashes>>
  BY DEF EndPost
<1>3. PICK out \in {"ok", "fail"} :
        /\ staged' = [staged EXCEPT ![p] = [staged[p] EXCEPT ![e] = out]]
        /\ accepted' \in {accepted, accepted \cup {e}}
        /\ out = "ok" => e \in accepted'
  BY DEF EndPost, Stage
<1>4. staged' \in [Pollers -> [Events -> {"none", "ok", "fail", "defer"}]]
      /\ \A q \in Pollers, f \in Events :
           staged'[q][f] = IF q = p /\ f = e THEN out ELSE staged[q][f]
  BY <1>1, <1>3 DEF IInv, TypeOK
<1>5. accepted \subseteq accepted' /\ accepted' \subseteq Events
  BY <1>1, <1>3 DEF IInv, TypeOK
<1>6. \A q \in Pollers : /\ current'[q] = IF q = p THEN NoEvent ELSE current[q]
                         /\ phase'[q] = IF q = p THEN "batch" ELSE phase[q]
  BY <1>2 DEF IInv, TypeOK
<1>7. \A f \in Events : Uncounted(f)' = Uncounted(f)
  BY <1>1, <1>4, <1>6 DEF Uncounted
<1> HIDE DEF e
<1>8. TypeOK'
  BY <1>2, <1>4, <1>5 DEF IInv, TypeOK
<1>9. Exclusive' /\ Cached' /\ RoutedToOwner' /\ OutcomeEarned'
  BY <1>2, <1>5 DEF IInv, Exclusive, Pending, Cached, RoutedToOwner, OutcomeEarned
<1>10. InBatch'
  <2>1. \A q \in Pollers \ {p} : /\ phase'[q] = phase[q] /\ current'[q] = current[q]
                                 /\ \A f \in Events : staged'[q][f] = staged[q][f]
    BY <1>4, <1>6
  <2>2. /\ phase'[p] = "batch" /\ current'[p] = NoEvent
        /\ \A f \in Events : staged'[p][f] = IF f = e THEN out ELSE staged[p][f]
    BY <1>4, <1>6
  <2>3. UNCHANGED claimed /\ \A q \in Pollers : claimed[q] \subseteq Events
    BY <1>2 DEF IInv, TypeOK
  <2> QED
    BY <1>1, <1>3, <1>5, <2>1, <2>2, <2>3 DEF IInv, InBatch, Todo
<1>11. Budget'
  BY <1>2, <1>7 DEF IInv, Budget, InProgress
<1> QED
  BY <1>8, <1>9, <1>10, <1>11 DEF IInv

(* The outcomes of a batch are written, and its posts are counted.           *)
LEMMA InvCommit ==
  ASSUME IInv, NEW p \in Pollers, CommitBatch(p)
  PROVE  IInv'
<1> USE OutboxAssumption DEF configVars, worldVars
<1> DEFINE out(e) == staged[p][e]
<1>1. /\ phase[p] = "batch" /\ Sleep(p, PollInterval) /\ PollInterval \in Nat
      /\ UNCHANGED <<configVars, worldVars, crashes>>
  BY DEF CommitBatch
<1>2. ASSUME NEW e \in claimed[p]
      PROVE  /\ e \in Events /\ status[e] = "pending" /\ attempts[e] \in Nat
             /\ attempts[e] < MaxAttempts
             /\ out(e) \in {"ok", "fail", "defer"}
             /\ out(e) = "ok" => e \in accepted
  <2>1. e \in Events /\ status[e] = "pending" /\ attempts[e] \in Nat
    BY DEF IInv, TypeOK, Exclusive, Pending
  <2>2. attempts[e] < MaxAttempts
    BY <2>1 DEF IInv, Budget
  <2>3. staged[p][e] # "none" /\ staged[p][e] \in {"none", "ok", "fail", "defer"}
    BY <2>1 DEF CommitBatch, Todo, IInv, TypeOK
  <2> QED
    BY <2>1, <2>2, <2>3 DEF IInv, InBatch
<1>3. \A e \in Events :
        /\ e \notin claimed[p] => /\ attempts'[e] = attempts[e]
                                 /\ status'[e] = status[e] /\ dueIn'[e] = dueIn[e]
        /\ e \in claimed[p] => /\ attempts'[e] = Tried(e, out(e))
                              /\ status'[e] = NewStatus(e, out(e))
  BY DEF CommitBatch
<1>4. ASSUME NEW e \in claimed[p]
      PROVE  /\ attempts'[e] = attempts[e] + (IF out(e) = "defer" THEN 0 ELSE 1)
             /\ attempts'[e] \in 0 .. MaxAttempts
             /\ status'[e] \in {"pending", "delivered", "failed"}
             /\ status'[e] = "pending" => attempts'[e] < MaxAttempts
             /\ status'[e] = "failed" => attempts'[e] = MaxAttempts
             /\ status'[e] = "delivered" => e \in accepted
             /\ status'[e] = "pending" => Delay(e, out(e)) \in Nat
  <2>1. attempts'[e] = attempts[e] + (IF out(e) = "defer" THEN 0 ELSE 1)
    BY <1>2, <1>3 DEF Tried
  <2>2. attempts'[e] \in 0 .. MaxAttempts
    BY <1>2, <2>1
  <2>3. /\ status'[e] = "delivered" => out(e) = "ok"
        /\ status'[e] = "failed" => attempts'[e] >= MaxAttempts
        /\ status'[e] = "pending" => attempts'[e] < MaxAttempts
        /\ status'[e] \in {"pending", "delivered", "failed"}
    BY <1>2, <1>3, <2>1 DEF NewStatus
  <2>4. ASSUME status'[e] = "pending" PROVE Delay(e, out(e)) \in Nat
    <3>1. out(e) = "defer" \/ (out(e) = "fail" /\ Tried(e, out(e)) \in 1 .. MaxAttempts - 1)
      BY <1>2, <1>3, <2>1, <2>3, <2>4 DEF NewStatus
    <3> QED
      BY <3>1 DEF Delay
  <2> QED
    BY <1>2, <2>1, <2>2, <2>3, <2>4
<1>5. status' \in [Events -> {"none", "pending", "delivered", "failed"}]
      /\ attempts' \in [Events -> 0 .. MaxAttempts]
  <2>1. DOMAIN status' = Events /\ DOMAIN attempts' = Events
        /\ status' = [e \in Events |-> status'[e]] /\ attempts' = [e \in Events |-> attempts'[e]]
    BY DEF CommitBatch
  <2>2. \A e \in Events : /\ status'[e] \in {"none", "pending", "delivered", "failed"}
                          /\ attempts'[e] \in 0 .. MaxAttempts
    BY <1>3, <1>4 DEF IInv, TypeOK
  <2> QED
    BY <2>1, <2>2
<1>6. dueIn' \in [Events -> Int]
  <2>1. elapsed[p] \in Nat /\ \A e \in Events : dueIn[e] \in Int
    BY DEF IInv, TypeOK
  <2>2. ASSUME NEW e \in claimed[p], NewStatus(e, out(e)) = "pending"
        PROVE  Delay(e, out(e)) - elapsed[p] \in Int
    <3>1. status'[e] = "pending"
      BY <1>2, <1>3, <2>2
    <3>2. Delay(e, out(e)) \in Nat
      BY <1>4, <3>1
    <3> QED
      BY <2>1, <3>2
  <2>3. dueIn' = [e \in Events |->
                    IF e \notin claimed[p] THEN dueIn[e]
                    ELSE IF NewStatus(e, out(e)) = "pending"
                         THEN Delay(e, out(e)) - elapsed[p] ELSE 0]
    BY DEF CommitBatch
  <2> HIDE DEF out
  <2> QED
    BY <2>1, <2>2, <2>3
<1>7. TypeOK'
  BY <1>1, <1>5, <1>6, SleepFrees DEF IInv, TypeOK
<1>8. Exclusive' /\ InBatch' /\ Cached'
  BY <1>1, <1>3, SleepKeeps
<1>9. RoutedToOwner'
  BY <1>1 DEF IInv, RoutedToOwner
<1>10. Budget'
  <2> SUFFICES ASSUME NEW e \in Events
               PROVE  /\ status'[e] \in {"none", "pending"} => attempts'[e] < MaxAttempts
                      /\ sent[e] >= attempts'[e] + InProgress(e)'
                      /\ sent[e] <= attempts'[e] + InProgress(e)' + crashes
    BY <1>1 DEF Budget
  <2>1. /\ sent[e] \in Nat /\ attempts[e] \in Nat /\ crashes \in Nat
        /\ status[e] \in {"none", "pending"} => attempts[e] < MaxAttempts
        /\ sent[e] >= attempts[e] + InProgress(e)
        /\ sent[e] <= attempts[e] + InProgress(e) + crashes
    BY DEF IInv, Budget, TypeOK
  <2>2. Uncounted(e)' = Uncounted(e) \ {p}
    BY <1>1, SleepFrees DEF IInv
  <2>3. CASE e \in claimed[p]
    <3>1. Uncounted(e) \subseteq {p}
      BY <2>3, UncountedInBatch DEF IInv, Exclusive
    <3>2. InProgress(e)' = 0
      BY <2>2, <3>1 DEF InProgress
    <3>3. current[p] # e
      BY <1>1 DEF IInv, InBatch
    <3>4. p \in Uncounted(e) <=> out(e) # "defer"
      BY <1>2, <2>3, <3>3 DEF Uncounted
    <3>5. InProgress(e) = IF out(e) = "defer" THEN 0 ELSE 1
      BY <3>1, <3>4 DEF InProgress
    <3> HIDE DEF out
    <3> QED
      BY <1>4, <2>1, <2>3, <3>2, <3>5
  <2>4. CASE e \notin claimed[p]
    <3>1. p \notin Uncounted(e)
      BY <2>4, UncountedInBatch
    <3>2. InProgress(e)' = InProgress(e)
      BY <2>2, <3>1 DEF InProgress
    <3> QED
      BY <1>3, <2>1, <2>4, <3>2
  <2> QED
    BY <2>3, <2>4
<1>11. OutcomeEarned'
  <2> SUFFICES ASSUME NEW e \in Events
               PROVE  /\ status'[e] = "failed" => attempts'[e] = MaxAttempts
                                                /\ sent[e] >= MaxAttempts
                      /\ status'[e] = "delivered" => e \in accepted
    BY <1>1 DEF OutcomeEarned
  <2>1. sent[e] \in Nat /\ sent[e] >= attempts'[e] + InProgress(e)' /\ attempts'[e] \in Nat
    BY <1>1, <1>5, <1>10 DEF Budget, IInv, TypeOK
  <2>2. InProgress(e)' \in {0, 1}
    BY DEF InProgress
  <2>3. CASE e \in claimed[p]
    BY <1>4, <2>1, <2>2, <2>3
  <2>4. CASE e \notin claimed[p]
    BY <1>3, <2>4 DEF IInv, OutcomeEarned
  <2> QED
    BY <2>3, <2>4
<1> QED
  BY <1>7, <1>8, <1>9, <1>10, <1>11 DEF IInv

(* Time passes.                                                              *)
LEMMA InvTick ==
  ASSUME IInv, Tick
  PROVE  IInv'
<1> USE OutboxAssumption DEF configVars, worldVars
<1>1. UNCHANGED <<status, attempts, configVars, phase, claimed, staged, cache,
                  current, worldVars, crashes>>
  BY DEF Tick
<1>2. timer' \in [Pollers -> Nat]
  <2>1. /\ timer \in [Pollers -> Nat]
        /\ \A p \in Pollers : phase[p] = "sleep" => timer[p] > 0
        /\ timer' = [p \in Pollers |-> IF phase[p] = "sleep" THEN timer[p] - 1
                                       ELSE timer[p] + 1]
    BY DEF Tick, IInv, TypeOK
  <2> QED
    BY <2>1
<1>3. elapsed' \in [Pollers -> Nat]
  BY DEF Tick, IInv, TypeOK
<1>4. dueIn' \in [Events -> Int]
  BY DEF Tick, IInv, TypeOK
<1>5. TypeOK'
  BY <1>1, <1>2, <1>3, <1>4 DEF IInv, TypeOK
<1>6. Exclusive' /\ InBatch' /\ Cached' /\ RoutedToOwner' /\ OutcomeEarned'
  BY <1>1 DEF IInv, Exclusive, Pending, InBatch, Todo, Cached, RoutedToOwner, OutcomeEarned
<1>7. Budget'
  BY <1>1 DEF IInv, Budget, InProgress, Uncounted
<1> QED
  BY <1>5, <1>6, <1>7 DEF IInv

LEMMA InvStep == IInv /\ [Next]_vars => IInv'
<1> SUFFICES ASSUME IInv, [Next]_vars PROVE IInv'
  OBVIOUS
<1>1. CASE UNCHANGED vars
  BY <1>1 DEF vars, rowVars, configVars, pollerVars, worldVars, IInv, TypeOK, Exclusive,
     Pending, InBatch, Todo, Cached, Budget, InProgress, Uncounted, RoutedToOwner,
     OutcomeEarned
<1> QED
  BY <1>1, InvWorld, InvSleep, InvClaim, InvDefer, InvStartPost, InvEndPost, InvCommit,
     InvTick DEF Next, PollerStep

-----------------------------------------------------------------------------
(* The inductive invariant of the pollers: what a batch holds, has decided   *)
(* and has cached, and how its posts relate to the attempt counters.         *)
THEOREM OutboxInvariant == Spec => []IInv
BY InvInit, InvStep, PTL DEF Spec

(* Every variable of the outbox keeps its type.                              *)
THEOREM OutboxTypeCorrect == Spec => []TypeOK
<1>1. IInv => TypeOK
  BY DEF IInv
<1> QED
  BY <1>1, OutboxInvariant, PTL

(* No poller posts a row beyond what its attempt counter, the batch that     *)
(* holds it and the restarts account for.                                    *)
THEOREM PostsAlwaysCounted == Spec => []PostsAreCounted
<1>1. ASSUME IInv PROVE PostsAreCounted
  <2> SUFFICES ASSUME NEW e \in Events
               PROVE  sent[e] <= attempts[e] + Cardinality(Uncounted(e)) + crashes
    BY DEF PostsAreCounted
  <2>1. Cardinality(Uncounted(e)) = InProgress(e)
    <3>1. CASE Uncounted(e) = {}
      BY <3>1, FS_EmptySet DEF InProgress
    <3>2. CASE Uncounted(e) # {}
      <4>1. PICK p : Uncounted(e) = {p}
        BY <1>1, <3>2, UncountedInBatch
      <4> QED
        BY <3>2, <4>1, FS_Singleton DEF InProgress
    <3> QED
      BY <3>1, <3>2
  <2> QED
    BY <1>1, <2>1 DEF IInv, Budget
<1> QED
  BY <1>1, OutboxInvariant, PTL

(* A keyed event reaches only the receiver of its key, through every cache,  *)
(* change of configuration and rotation of the secret.                       *)
THEOREM EventsStayWithOwner == Spec => []RoutedToOwner
<1>1. IInv => RoutedToOwner
  BY DEF IInv
<1> QED
  BY <1>1, OutboxInvariant, PTL

(* No row is given up before its budget of real posts is spent, and none is  *)
(* marked delivered that no receiver accepted.                               *)
THEOREM OutcomesAreEarned == Spec => []OutcomeEarned
<1>1. IInv => OutcomeEarned
  BY DEF IInv
<1> QED
  BY <1>1, OutboxInvariant, PTL

-----------------------------------------------------------------------------
(* The refinement of AtLeastOnce: the start of a post, the answer of its     *)
(* receiver, the commit of a batch and a restart are steps of the promise,   *)
(* everything else is none.                                                  *)

(* A step that touches no row and no post is invisible.                      *)
LEMMA SamePosts ==
  ASSUME \A e \in Events : Uncounted(e)' = Uncounted(e)
  PROVE  InFlight' = InFlight
BY DEF InFlight

LEMMA WorldRefines ==
  ASSUME IInv, NEW e \in Events, Emit(e)
  PROVE  Promise!DeliveryNext
<1>1. UNCHANGED pollerVars /\ UNCHANGED worldVars /\ UNCHANGED <<attempts, crashes>>
  BY DEF Emit
<1>2. InFlight' = InFlight
  BY <1>1, SamePosts DEF Uncounted, pollerVars
<1>3. Promise!Announce(e)
  BY <1>1, <1>2 DEF Emit, Promise!Announce, worldVars
<1> QED
  BY <1>3 DEF Promise!DeliveryNext

(* A poller that finds nothing, claims a batch or defers a row.              *)
LEMMA IdleRefines ==
  ASSUME IInv, NEW p \in Pollers,
         FindNothing(p) \/ Claim(p) \/ \E e \in Events : Defer(p, e)
  PROVE  UNCHANGED <<status, attempts, InFlight, sent, accepted, crashes>>
<1>1. UNCHANGED <<rowVars, worldVars, crashes>>
  BY DEF FindNothing, Claim, Defer
<1>2. CASE FindNothing(p)
  <2>1. phase[p] = "sleep" /\ Sleep(p, PollInterval) /\ PollInterval \in Nat
    BY <1>2, OutboxAssumption DEF FindNothing, Wakes
  <2>2. \A e \in Events : e \notin claimed[p]
    BY <2>1 DEF IInv, InBatch
  <2>3. \A e \in Events : Uncounted(e)' = Uncounted(e)
    <3>1. \A e \in Events : Uncounted(e)' = Uncounted(e) \ {p}
      BY <2>1, SleepFrees DEF IInv
    <3>2. \A e \in Events : p \notin Uncounted(e)
      BY <2>2, UncountedInBatch
    <3> QED
      BY <3>1, <3>2
  <2> QED
    BY <1>1, <2>3, SamePosts DEF rowVars, worldVars
<1>3. CASE Claim(p)
  <2>1. UNCHANGED <<staged, current>>
    BY <1>3 DEF Claim
  <2> QED
    BY <1>1, <2>1, SamePosts DEF Uncounted, rowVars, worldVars
<1>4. ASSUME NEW e \in Events, Defer(p, e)
      PROVE  UNCHANGED <<status, attempts, InFlight, sent, accepted, crashes>>
  <2>1. UNCHANGED current /\ staged[p][e] = "none"
        /\ staged' = [staged EXCEPT ![p] = [staged[p] EXCEPT ![e] = "defer"]]
    BY <1>4 DEF Defer, NextRow, Todo, Stage
  <2>2. \A q \in Pollers, f \in Events :
          staged'[q][f] = IF q = p /\ f = e THEN "defer" ELSE staged[q][f]
    BY <2>1 DEF IInv, TypeOK
  <2>3. \A f \in Events : Uncounted(f)' = Uncounted(f)
    BY <2>1, <2>2 DEF Uncounted
  <2> QED
    BY <1>1, <2>3, SamePosts DEF rowVars, worldVars
<1> QED
  BY <1>2, <1>3, <1>4

(* A post starts only when no other one of its event is under way.           *)
LEMMA StartRefines ==
  ASSUME IInv, NEW p \in Pollers, NEW e \in Events, StartPost(p, e)
  PROVE  Promise!DeliveryNext
<1>1. /\ phase[p] = "batch" /\ e \in claimed[p] /\ staged[p][e] = "none"
      /\ current' = [current EXCEPT ![p] = e]
      /\ sent' = [sent EXCEPT ![e] = sent[e] + 1]
      /\ UNCHANGED <<status, attempts, staged, accepted, crashes>>
  BY DEF StartPost, NextRow, Todo, rowVars
<1>2. current[p] = NoEvent /\ NoEvent \notin Events /\ status[e] = "pending"
  BY <1>1, OutboxAssumption DEF IInv, InBatch, Exclusive, Pending
<1>3. e \notin InFlight
  <2>1. p \notin Uncounted(e)
    BY <1>1, <1>2 DEF Uncounted
  <2>2. \A q \in Uncounted(e) : q \in Pollers /\ e \in claimed[q]
    BY UncountedInBatch
  <2>3. Uncounted(e) = {}
    BY <1>1, <2>1, <2>2 DEF IInv, Exclusive
  <2> QED
    BY <2>3 DEF InFlight
<1>4. InFlight' = InFlight \cup {e}
  <2>1. \A q \in Pollers : current'[q] = IF q = p THEN e ELSE current[q]
    BY <1>1 DEF IInv, TypeOK
  <2>2. p \in Uncounted(e)'
    BY <2>1 DEF Uncounted
  <2>3. \A f \in Events \ {e} : Uncounted(f)' = Uncounted(f)
    BY <1>1, <1>2, <2>1 DEF Uncounted
  <2> QED
    BY <2>2, <2>3 DEF InFlight
<1>5. Promise!Post(e)
  BY <1>1, <1>2, <1>3, <1>4 DEF Promise!Post
<1> QED
  BY <1>5 DEF Promise!DeliveryNext

(* The answer of a receiver accepts the post or shows nothing.               *)
LEMMA EndRefines ==
  ASSUME IInv, NEW p \in Pollers, EndPost(p)
  PROVE  \/ Promise!DeliveryNext
         \/ UNCHANGED <<status, attempts, InFlight, sent, accepted, crashes>>
<1> DEFINE e == current[p]
<1>1. e \in Events /\ e \in claimed[p] /\ staged[p][e] = "none" /\ phase[p] = "posting"
  BY OutboxAssumption DEF EndPost, IInv, InBatch, Todo, TypeOK
<1>2. /\ current' = [current EXCEPT ![p] = NoEvent]
      /\ UNCHANGED <<status, attempts, sent, crashes>>
  BY DEF EndPost, rowVars
<1>3. PICK out \in {"ok", "fail"} :
        /\ staged' = [staged EXCEPT ![p] = [staged[p] EXCEPT ![e] = out]]
        /\ accepted' \in {accepted, accepted \cup {e}}
  BY DEF EndPost, Stage
<1>4. \A q \in Pollers, f \in Events :
        staged'[q][f] = IF q = p /\ f = e THEN out ELSE staged[q][f]
  BY <1>1, <1>3 DEF IInv, TypeOK
<1>5. \A q \in Pollers : current'[q] = IF q = p THEN NoEvent ELSE current[q]
  BY <1>2 DEF IInv, TypeOK
<1>6. NoEvent \notin Events
  BY OutboxAssumption
<1>7. \A f \in Events : Uncounted(f)' = Uncounted(f)
  BY <1>1, <1>3, <1>4, <1>5, <1>6 DEF Uncounted
<1>8. InFlight' = InFlight /\ e \in InFlight
  BY <1>1, <1>7, SamePosts DEF InFlight, Uncounted
<1> HIDE DEF e
<1>9. CASE accepted' = accepted
  BY <1>2, <1>8, <1>9
<1>10. CASE accepted' = accepted \cup {e}
  <2>1. Promise!Accept(e)
    BY <1>2, <1>8, <1>10 DEF Promise!Accept
  <2> QED
    BY <1>1, <2>1 DEF Promise!DeliveryNext
<1> QED
  BY <1>3, <1>9, <1>10

(* What a batch or a restart lets go of is no longer under way.              *)
LEMMA SleepEnds ==
  ASSUME IInv, NEW p \in Pollers, NEW t \in Nat, Sleep(p, t)
  PROVE  InFlight' = InFlight \ claimed[p]
<1>1. \A e \in Events : Uncounted(e)' = Uncounted(e) \ {p}
  BY SleepFrees DEF IInv
<1>2. \A e \in Events : Uncounted(e)' # {} <=> Uncounted(e) # {} /\ e \notin claimed[p]
  <2> SUFFICES ASSUME NEW e \in Events
               PROVE  Uncounted(e)' # {} <=> Uncounted(e) # {} /\ e \notin claimed[p]
    OBVIOUS
  <2>1. CASE Uncounted(e) = {}
    BY <1>1, <2>1
  <2>2. CASE Uncounted(e) # {}
    <3>1. PICK q \in Uncounted(e) : TRUE
      BY <2>2
    <3>2. q \in Pollers /\ e \in claimed[q] /\ Uncounted(e) = {q}
      BY UncountedInBatch
    <3>3. q = p <=> e \in claimed[p]
      BY <3>2 DEF IInv, Exclusive
    <3> QED
      BY <1>1, <2>2, <3>2, <3>3
  <2> QED
    BY <2>1, <2>2
<1> QED
  BY <1>2 DEF InFlight

(* A restart is a restart of the promise.                                    *)
LEMMA CrashRefines ==
  ASSUME IInv, NEW p \in Pollers, Crash(p)
  PROVE  Promise!DeliveryNext
<1> DEFINE S == InFlight \cap claimed[p]
<1>1. PICK t \in Nat : Sleep(p, t)
  BY OutboxAssumption DEF Crash
<1>2. InFlight' = InFlight \ S
  BY <1>1, SleepEnds
<1>3. crashes' = crashes + 1 /\ UNCHANGED <<status, attempts, sent, accepted>>
  BY DEF Crash, rowVars, worldVars
<1>4. S \subseteq InFlight
  OBVIOUS
<1> HIDE DEF S
<1>5. Promise!Forget(S)
  BY <1>2, <1>3, <1>4 DEF Promise!Forget
<1> QED
  BY <1>4, <1>5 DEF Promise!DeliveryNext

(* The commit of a batch counts the posts of that batch, each once.          *)
LEMMA CommitRefines ==
  ASSUME IInv, NEW p \in Pollers, CommitBatch(p)
  PROVE  Promise!DeliveryNext
<1> DEFINE S == InFlight \cap claimed[p]
           ok == {e \in claimed[p] : staged[p][e] = "ok"}
<1>1. /\ phase[p] = "batch" /\ Sleep(p, PollInterval) /\ PollInterval \in Nat
      /\ UNCHANGED <<sent, accepted, crashes>>
  BY OutboxAssumption DEF CommitBatch, worldVars
<1>2. InFlight' = InFlight \ S
  BY <1>1, SleepEnds
<1>3. ASSUME NEW e \in claimed[p]
      PROVE  /\ e \in Events /\ status[e] = "pending" /\ attempts[e] \in Nat
             /\ attempts[e] < MaxAttempts
             /\ staged[p][e] \in {"ok", "fail", "defer"}
             /\ staged[p][e] = "ok" => e \in accepted
  <2>1. e \in Events /\ status[e] = "pending" /\ attempts[e] \in Nat
    BY DEF IInv, TypeOK, Exclusive, Pending
  <2>2. attempts[e] < MaxAttempts
    BY <2>1 DEF IInv, Budget
  <2>3. staged[p][e] # "none" /\ staged[p][e] \in {"none", "ok", "fail", "defer"}
    BY <2>1 DEF CommitBatch, Todo, IInv, TypeOK
  <2> QED
    BY <2>1, <2>2, <2>3 DEF IInv, InBatch
<1>4. ASSUME NEW e \in claimed[p] PROVE e \in S <=> staged[p][e] \in {"ok", "fail"}
  <2>1. current[p] # e
    BY <1>1, <1>3, OutboxAssumption DEF IInv, InBatch
  <2>2. p \in Uncounted(e) <=> staged[p][e] \in {"ok", "fail"}
    BY <2>1 DEF Uncounted
  <2>3. \A q \in Uncounted(e) : q = p
    BY <1>3, UncountedInBatch DEF IInv, Exclusive
  <2>4. e \in InFlight <=> staged[p][e] \in {"ok", "fail"}
    BY <1>3, <2>2, <2>3 DEF InFlight
  <2> QED
    BY <2>4
<1>5. S \subseteq InFlight /\ S \subseteq claimed[p] /\ S \subseteq Events
  BY <1>3
<1>6. ok \subseteq S /\ ok \subseteq accepted
  BY <1>3, <1>4
<1>7. attempts' = [e \in Events |-> IF e \in S THEN attempts[e] + 1 ELSE attempts[e]]
  <2>1. ASSUME NEW e \in Events
        PROVE  (IF e \in claimed[p] THEN Tried(e, staged[p][e]) ELSE attempts[e])
                 = IF e \in S THEN attempts[e] + 1 ELSE attempts[e]
    <3> HIDE DEF S
    <3>1. attempts[e] \in Nat
      BY DEF IInv, TypeOK
    <3> QED
      BY <1>4, <1>5, <3>1 DEF Tried
  <2>2. attempts' = [e \in Events |-> IF e \in claimed[p] THEN Tried(e, staged[p][e])
                                      ELSE attempts[e]]
    BY DEF CommitBatch
  <2> HIDE DEF S
  <2> QED
    BY <2>1, <2>2
<1>8. status' = [e \in Events |->
                   IF e \in ok THEN "delivered"
                   ELSE IF e \in S /\ attempts[e] + 1 = MaxAttempts THEN "failed"
                   ELSE status[e]]
  <2>1. ASSUME NEW e \in Events
        PROVE  (IF e \in claimed[p] THEN NewStatus(e, staged[p][e]) ELSE status[e])
                 = IF e \in ok THEN "delivered"
                   ELSE IF e \in S /\ attempts[e] + 1 = MaxAttempts THEN "failed"
                   ELSE status[e]
    <3>1. CASE e \notin claimed[p]
      BY <1>5, <1>6, <3>1
    <3>2. CASE e \in claimed[p] /\ staged[p][e] = "ok"
      BY <3>2 DEF NewStatus
    <3>3. CASE e \in claimed[p] /\ staged[p][e] = "fail"
      <4>1. e \in S /\ e \notin ok /\ attempts[e] \in Nat /\ attempts[e] < MaxAttempts
        BY <1>3, <1>4, <3>3
      <4>2. Tried(e, staged[p][e]) = attempts[e] + 1
        BY <3>3 DEF Tried
      <4>3. attempts[e] + 1 >= MaxAttempts <=> attempts[e] + 1 = MaxAttempts
        BY <4>1, OutboxAssumption
      <4> QED
        BY <3>3, <4>1, <4>2, <4>3 DEF NewStatus
    <3>4. CASE e \in claimed[p] /\ staged[p][e] = "defer"
      BY <1>4, <3>4 DEF NewStatus
    <3> QED
      BY <1>3, <3>1, <3>2, <3>3, <3>4
  <2>2. status' = [e \in Events |-> IF e \in claimed[p] THEN NewStatus(e, staged[p][e])
                                    ELSE status[e]]
    BY DEF CommitBatch
  <2> HIDE DEF S, ok
  <2> QED
    BY <2>1, <2>2
<1> HIDE DEF S, ok
<1>9. Promise!Settle(S, ok)
  BY <1>1, <1>2, <1>5, <1>6, <1>7, <1>8 DEF Promise!Settle
<1> QED
  BY <1>5, <1>6, <1>9 DEF Promise!DeliveryNext

(* The pollers, with their batches, their cache and their restarts,          *)
(* implement at-least-once delivery: posts of one event never overlap, each  *)
(* is counted once, and a settled event is left alone.                       *)
THEOREM OutboxImplementsAtLeastOnce == Spec => ImplementsAtLeastOnce
<1>1. Init => Promise!DeliveryInit
  <2> SUFFICES ASSUME Init PROVE Promise!DeliveryInit
    OBVIOUS
  <2>1. InFlight = {}
    BY OutboxAssumption DEF Init, InFlight, Uncounted
  <2> QED
    BY <2>1 DEF Init, Promise!DeliveryInit
<1>2. IInv /\ [Next]_vars => [Promise!DeliveryNext]_(Promise!promised)
  <2> SUFFICES ASSUME IInv, [Next]_vars
               PROVE  \/ Promise!DeliveryNext
                      \/ UNCHANGED <<status, attempts, InFlight, sent, accepted, crashes>>
    BY DEF Promise!promised
  <2>1. CASE \/ UNCHANGED vars \/ Tick
             \/ \E p \in Pollers : RotateSecret(p)
             \/ \E k \in Keys : Configure(k)
    <3>1. UNCHANGED <<rowVars, worldVars, crashes, staged, current>>
          \/ UNCHANGED <<status, attempts, worldVars, crashes, staged, current>>
      BY <2>1 DEF vars, pollerVars, Tick, RotateSecret, Configure
    <3>2. InFlight' = InFlight
      BY <3>1, SamePosts DEF Uncounted
    <3> QED
      BY <3>1, <3>2 DEF rowVars, worldVars
  <2> QED
    BY <2>1, WorldRefines, IdleRefines, StartRefines, EndRefines, CrashRefines,
       CommitRefines DEF Next, PollerStep
<1> QED
  BY <1>1, <1>2, OutboxInvariant, PTL
     DEF Spec, ImplementsAtLeastOnce, Promise!DeliverySpec
=============================================================================
