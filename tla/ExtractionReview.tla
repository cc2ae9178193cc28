-------------------------- MODULE ExtractionReview --------------------------
(*****************************************************************************)
(* The extraction rows of one user from the moment ingestion inserts them:   *)
(* duplicate flagging, and the requests of the budgeting app that confirm,   *)
(* dismiss or reprocess a row.  None of these requests locks the row it      *)
(* reads.  Each is a transaction at READ COMMITTED that reads the row,       *)
(* decides, and writes back with an UPDATE of only those columns whose       *)
(* value differs from the one it read, which is what the ORM does.           *)
(*                                                                           *)
(* print is the fingerprint of a row and stands for its extracted fields;    *)
(* the outcome of a pipeline run is not determined by the stored email,      *)
(* because templates improve and two versions run during a deploy.           *)
(*****************************************************************************)
EXTENDS FiniteSets

CONSTANTS
  Extractions,    \* extraction_results, one for each financial email
  AliasOf,        \* the alias its email came through
  Prints,         \* fingerprints
  NoPrint,        \* fingerprint NULL
  Requests,       \* confirm, dismiss and reprocess calls, one-shot
  Ingest          \* the ingestion transaction, as writer of a match

ASSUME ReviewAssumption ==
  /\ NoPrint \notin Prints
  /\ Ingest \notin Requests

VARIABLES
  row,        \* extraction_results: status, print, flagged
  mail,       \* imported_emails.status of its email
  matches,    \* duplicate_matches: writer and candidate
  arrival,    \* the ingestion of an email: absent, inserted, stored
  draft,      \* what an open ingestion transaction is about to commit
  pc, op, target,
  seen, seenMail,   \* what a request read
  result, found,    \* what its pipeline run and its duplicate check gave
  dropped,          \* the matches its DELETE found
  met         \* history: the pairs of extractions of which two transactions
              \* were open together; <<x, x>> stands for two reprocess calls
              \* of the extraction x.  No guard reads it.

rowVars == <<row, mail, matches>>
arrivalVars == <<arrival, draft>>
requestVars == <<pc, op, target, seen, seenMail, result, found, dropped>>
vars == <<rowVars, arrivalVars, requestVars, met>>

Live == {"pending_review", "confirmed"}
Decided == {"confirmed", "dismissed"}
Statuses == {"none", "pending_review", "extraction_failed"} \cup Decided
Rows == [status : Statuses, print : Prints \cup {NoPrint}, flagged : BOOLEAN]

(* What apply_result_fields can store: an amount it cannot use degrades to   *)
(* a failure and takes the fingerprint with it.  A reclassified email never  *)
(* gets here.                                                                *)
Usable(p) == [status |-> "pending_review", print |-> p]
Unusable == [status |-> "extraction_failed", print |-> NoPrint]
LeakyOutcomes ==
  {Usable(p) : p \in Prints \cup {NoPrint}}
    \cup {Unusable, [status |-> "non_financial", print |-> NoPrint]}
Outcomes == {Usable(p) : p \in Prints \cup {NoPrint}} \cup {Unusable}
MailStatus(o) == IF o.status = "pending_review" THEN "processed" ELSE "extraction_failed"

NoRow == [status |-> "none", print |-> NoPrint, flagged |-> FALSE]

Init ==
  /\ row = [x \in Extractions |-> NoRow]
  /\ mail = [x \in Extractions |-> "none"]
  /\ matches = [x \in Extractions |-> {}]
  /\ arrival = [x \in Extractions |-> "absent"]
  /\ draft = [x \in Extractions |-> [result |-> Unusable, found |-> {}]]
  /\ pc = [r \in Requests |-> "idle"]
  /\ op = [r \in Requests |-> "confirm"]
  /\ target \in [Requests -> Extractions]
  /\ seen = [r \in Requests |-> NoRow]
  /\ seenMail = [r \in Requests |-> "none"]
  /\ result = [r \in Requests |-> Unusable]
  /\ found = [r \in Requests |-> {}]
  /\ dropped = [r \in Requests |-> {}]
  /\ met = {}

-----------------------------------------------------------------------------
(* Duplicate detection.                                                      *)

PendingOnly(x, p) ==
  {y \in Extractions \ {x} :
     p # NoPrint /\ row[y].print = p /\ row[y].status = "pending_review"}

(* The committed live rows with the fingerprint p.                           *)
Candidates(x, p) ==
  {y \in Extractions \ {x} :
     p # NoPrint /\ row[y].print = p /\ row[y].status \in Live}

(* check_and_flag records one candidate: the oldest by created_at, which is  *)
(* the start of its transaction and says nothing about the commits: any.     *)
OneOf(S) == IF S = {} THEN {{}} ELSE {{y} : y \in S}

-----------------------------------------------------------------------------
(* Transactions open on an extraction: its ingestion, requests on its row.   *)

Busy == {r \in Requests : pc[r] \in {"loaded", "fetching", "flushed"}}
Open(x) == arrival[x] = "inserted" \/ \E r \in Busy : target[r] = x
Reprocessing(x) == {r \in Busy : target[r] = x /\ op[r] = "reprocess"}

Meetings(x) == UNION {{<<x, y>>, <<y, x>>} : y \in {z \in Extractions \ {x} : Open(z)}}

-----------------------------------------------------------------------------
(* Ingestion: one transaction at a time for each alias.                      *)

Insert(x, o) ==
  /\ arrival[x] = "absent"
  /\ \A y \in Extractions : AliasOf[y] = AliasOf[x] => arrival[y] # "inserted"
  /\ arrival' = [arrival EXCEPT ![x] = "inserted"]
  /\ \E c \in OneOf(Candidates(x, o.print)) :
       draft' = [draft EXCEPT ![x] = [result |-> o, found |-> c]]
  /\ met' = met \cup Meetings(x)
  /\ UNCHANGED <<rowVars, requestVars>>

StoreArrival(x) ==
  LET o == draft[x].result
      c == draft[x].found
  IN  /\ arrival[x] = "inserted"
      /\ arrival' = [arrival EXCEPT ![x] = "stored"]
      /\ row' = [row EXCEPT ![x] = [status |-> o.status, print |-> o.print,
                                    flagged |-> c # {}]]
      /\ matches' = [matches EXCEPT ![x] = {Ingest} \X c]
      /\ mail' = [mail EXCEPT ![x] = MailStatus(o)]
      /\ UNCHANGED <<draft, requestVars, met>>

(* The transaction fails; the queue delivers the email again.                *)
LoseArrival(x) ==
  /\ arrival[x] = "inserted"
  /\ arrival' = [arrival EXCEPT ![x] = "absent"]
  /\ draft' = [draft EXCEPT ![x] = [result |-> Unusable, found |-> {}]]
  /\ UNCHANGED <<rowVars, requestVars, met>>

-----------------------------------------------------------------------------
(* Requests.                                                                 *)

Answer(r) == pc' = [pc EXCEPT ![r] = "done"]

ReprocessesAnything(r, o) ==
  pc' = [pc EXCEPT ![r] = IF row[target[r]].status \in Decided /\ o # "reprocess"
                          THEN "done" ELSE "loaded"]

(* A row the user has decided on is not touched again: the same decision     *)
(* gets the same answer, any other request gets 409.                         *)
Admit(r, o) ==
  pc' = [pc EXCEPT ![r] = IF row[target[r]].status \in Decided THEN "done"
                          ELSE "loaded"]

(* Nothing keeps two reprocess calls of one row apart.                       *)
MeetingsOfCall(x, o) ==
  Meetings(x)
    \cup (IF o = "reprocess" /\ Reprocessing(x) # {} THEN {<<x, x>>} ELSE {})

Load(r, o) ==
  /\ pc[r] = "idle"
  /\ row[target[r]].status # "none"
  /\ Admit(r, o)
  /\ op' = [op EXCEPT ![r] = o]
  /\ seen' = [seen EXCEPT ![r] = row[target[r]]]
  /\ met' = met \cup (IF pc'[r] = "loaded" THEN MeetingsOfCall(target[r], o) ELSE {})
  /\ UNCHANGED <<rowVars, arrivalVars, target, seenMail, result, found, dropped>>

(* From the first UPDATE to the commit a transaction holds the row lock;     *)
(* the matches it deleted stay locked as well.                               *)
Updates(r, o) ==
  seen[r].status # o.status \/ seen[r].print # o.print \/ seen[r].flagged
Holding(x) == {r \in Reprocessing(x) : pc[r] = "flushed" /\ Updates(r, result[r])}
Deleting(x) == {r \in Reprocessing(x) : pc[r] = "flushed" /\ dropped[r] # {}}

(* confirm and dismiss: UPDATE and commit.                                   *)
Decide(r) ==
  LET x == target[r]
  IN  /\ pc[r] = "loaded"
      /\ op[r] \in {"confirm", "dismiss"}
      /\ Holding(x) = {}
      /\ row' = [row EXCEPT ![x].status = IF op[r] = "confirm" THEN "confirmed"
                                          ELSE "dismissed"]
      /\ Answer(r)
      /\ UNCHANGED <<mail, matches, arrivalVars, op, target, seen, seenMail,
                     result, found, dropped, met>>

(* reprocess reads the email and goes to R2 for the raw bytes.               *)
ReadMail(r) ==
  /\ pc[r] = "loaded"
  /\ op[r] = "reprocess"
  /\ pc' = [pc EXCEPT ![r] = "fetching"]
  /\ seenMail' = [seenMail EXCEPT ![r] = mail[target[r]]]
  /\ UNCHANGED <<rowVars, arrivalVars, op, target, seen, result, found, dropped, met>>

(* 409: the raw email is gone, or is not financial any more.  The same step  *)
(* stands for a request that fails before its commit.                        *)
GiveUp(r) ==
  /\ pc[r] \in {"loaded", "fetching", "flushed"}
  /\ Answer(r)
  /\ UNCHANGED <<rowVars, arrivalVars, op, target, seen, seenMail, result, found,
                 dropped, met>>

(* Run the pipeline, delete the old matches, flush, look for duplicates.     *)
Flush(r, o) ==
  LET x == target[r]
  IN  /\ pc[r] = "fetching"
      /\ Updates(r, o) => Holding(x) = {}
      /\ matches[x] # {} => Deleting(x) = {}
      /\ pc' = [pc EXCEPT ![r] = "flushed"]
      /\ result' = [result EXCEPT ![r] = o]
      /\ dropped' = [dropped EXCEPT ![r] = matches[x]]
      /\ \E c \in OneOf(Candidates(x, o.print)) : found' = [found EXCEPT ![r] = c]
      /\ UNCHANGED <<rowVars, arrivalVars, op, target, seen, seenMail, met>>

(* An assigned value reaches the database only if it is not the loaded one.  *)
OrmWrite(loaded, new, stored) == IF new = loaded THEN stored ELSE new

OldMail(r) == mail[target[r]]
NewMail(r) == OrmWrite(seenMail[r], MailStatus(result[r]), mail[target[r]])
KeepMatches(r) == matches[target[r]] \cup ({r} \X found[r])
NewMatches(r) == (matches[target[r]] \ dropped[r]) \cup ({r} \X found[r])

Save(r) ==
  LET x == target[r]
      old == seen[r]
      new == result[r]
  IN  /\ pc[r] = "flushed"
      /\ Holding(x) \subseteq {r}
      /\ row' = [row EXCEPT ![x] =
           [status |-> OrmWrite(old.status, new.status, row[x].status),
            print |-> OrmWrite(old.print, new.print, row[x].print),
            flagged |-> IF old.flagged \/ found[r] # {} THEN found[r] # {}
                        ELSE row[x].flagged]]
      /\ mail' = [mail EXCEPT ![x] = NewMail(r)]
      /\ matches' = [matches EXCEPT ![x] = NewMatches(r)]
      /\ Answer(r)
      /\ UNCHANGED <<arrivalVars, op, target, seen, seenMail, result, found, dropped,
                     met>>

-----------------------------------------------------------------------------
Arrive(x) == (\E o \in Outcomes : Insert(x, o)) \/ StoreArrival(x) \/ LoseArrival(x)

Request(r) ==
  \/ \E o \in {"confirm", "dismiss", "reprocess"} : Load(r, o)
  \/ Decide(r) \/ ReadMail(r) \/ GiveUp(r) \/ Save(r)
  \/ \E o \in Outcomes : Flush(r, o)

Next == (\E x \in Extractions : Arrive(x)) \/ (\E r \in Requests : Request(r))

Spec == Init /\ [][Next]_vars

-----------------------------------------------------------------------------
(* Every variable keeps its type.                                            *)
TypeOK ==
  /\ row \in [Extractions -> Rows]
  /\ mail \in [Extractions -> {"none", "processed", "extraction_failed"}]
  /\ matches \in [Extractions -> SUBSET ((Requests \cup {Ingest}) \X Extractions)]
  /\ arrival \in [Extractions -> {"absent", "inserted", "stored"}]
  /\ draft \in [Extractions -> [result : Outcomes, found : SUBSET Extractions]]
  /\ pc \in [Requests -> {"idle", "loaded", "fetching", "flushed", "done"}]
  /\ op \in [Requests -> {"confirm", "dismiss", "reprocess"}]
  /\ target \in [Requests -> Extractions]
  /\ seen \in [Requests -> Rows]
  /\ seenMail \in [Requests -> {"none", "processed", "extraction_failed"}]
  /\ result \in [Requests -> Outcomes]
  /\ found \in [Requests -> SUBSET Extractions]
  /\ dropped \in [Requests -> SUBSET ((Requests \cup {Ingest}) \X Extractions)]
  /\ met \subseteq Extractions \X Extractions

(* Two reprocess calls of the extraction overlapped at some time.            *)
Crossed(x) == <<x, x>> \in met

(* The duplicate badge of a row and its DuplicateMatch rows tell the same,   *)
(* whatever else arrives, is decided or is reprocessed around it, unless two *)
(* reprocess calls of this row overlapped (extractions.py:219-220).          *)
BadgeBacked ==
  \A x \in Extractions : ~Crossed(x) => (row[x].flagged <=> matches[x] # {})

(* The email of a row that waits for review, or that failed, says so too,    *)
(* although reprocess writes the two from values it read earlier; unless two *)
(* reprocess calls of this row overlapped (extractions.py:214-217).          *)
MailAgrees ==
  \A x \in Extractions :
    /\ ~Crossed(x)
    /\ row[x].status \in {"pending_review", "extraction_failed"}
    => mail[x] = MailStatus(row[x])

(* Two live rows with one fingerprint, neither of them flagged, come only    *)
(* from overlap: transactions of the two rows were open together, so that    *)
(* neither check saw the other row, or two reprocess calls of one of them    *)
(* were.  Decisions in between hide no duplicate                             *)
(* (duplicate_service.py:28 "shares its exact fingerprint").                 *)
SamePrint(x, y) ==
  row[x].print = row[y].print /\ row[x].print # NoPrint
    /\ ~row[x].flagged /\ ~row[y].flagged
Apart(x, y) == x # y /\ <<x, y>> \notin met /\ ~Crossed(x) /\ ~Crossed(y)
DuplicatesSurface ==
  \A x, y \in Extractions :
    Apart(x, y) /\ SamePrint(x, y) =>
      row[x].status \notin Live \/ row[y].status \notin Live

(* A decision is undone only by a request that read the row before it was    *)
(* made: whoever reads a decided row changes nothing.                        *)
UndoneOnlyByOverlap ==
  [][\A x \in Extractions :
       (row[x].status \in Decided /\ row'[x] # row[x]) =>
         \E r \in Requests : /\ target[r] = x
                             /\ pc[r] \in {"loaded", "flushed"} /\ pc'[r] = "done"
                             /\ seen[r].status \notin Decided]_vars

(* What the properties rest on: only a stored row has values or matches; a   *)
(* request has read a row that was not decided; open transactions have met;  *)
(* and what a reprocess has read is still true when it writes, but for a     *)
(* decision made meanwhile, unless another reprocess of the row overlapped   *)
(* it.                                                                       *)
Lifecycle ==
  \A x \in Extractions :
    /\ arrival[x] = "stored" <=> row[x].status # "none"
    /\ arrival[x] # "stored" => row[x] = NoRow /\ matches[x] = {}
ReadUndecided ==
  \A r \in Busy :
    /\ seen[r].status \in {"pending_review", "extraction_failed"}
    /\ arrival[target[r]] = "stored"
    /\ pc[r] # "loaded" => op[r] = "reprocess"
OpenHaveMet ==
  \A x, y \in Extractions :
    /\ <<x, y>> \in met => <<y, x>> \in met
    /\ x # y /\ Open(x) /\ Open(y) => <<x, y>> \in met
    /\ \A r, q \in Reprocessing(x) : r = q \/ Crossed(x)
Fresh ==
  \A x \in Extractions : \A r \in Reprocessing(x) :
    ~Crossed(x) =>
      /\ row[x].status \in Decided \cup {seen[r].status}
      /\ row[x].print = seen[r].print
      /\ row[x].flagged = seen[r].flagged
      /\ pc[r] # "loaded" => mail[x] = seenMail[r]
      /\ pc[r] = "flushed" => matches[x] = dropped[r]

(* What a duplicate check found stays true of the rows that its transaction  *)
(* does not meet, and of two undetected duplicates one is dismissed for good.*)
FailedHasNoPrint ==
  \A x \in Extractions :
    ~Crossed(x) /\ row[x].status \in {"none", "extraction_failed"} =>
      row[x].print = NoPrint
NoneLive(x, p) ==
  \A y \in Extractions :
    <<x, y>> \in met \/ y = x \/ ~(row[y].status \in Live /\ row[y].print = p)
ChecksHold ==
  \A x \in Extractions :
    /\ arrival[x] = "inserted" /\ draft[x].found = {} =>
         draft[x].result.print = NoPrint \/ NoneLive(x, draft[x].result.print)
    /\ \A r \in Reprocessing(x) :
         pc[r] = "flushed" /\ found[r] = {} =>
           result[r].print = NoPrint \/ NoneLive(x, result[r].print)
GoneForGood(x) == row[x].status = "dismissed" /\ ~Open(x)
OneIsGone ==
  \A x, y \in Extractions :
    Apart(x, y) /\ SamePrint(x, y) => GoneForGood(x) \/ GoneForGood(y)
IInv ==
  /\ TypeOK /\ Lifecycle /\ ReadUndecided /\ OpenHaveMet /\ Fresh
  /\ FailedHasNoPrint /\ ChecksHold /\ OneIsGone
  /\ BadgeBacked /\ MailAgrees /\ DuplicatesSurface

(* "duplicate artifacts must reflect the NEW extraction, not the old one"    *)
(* (extractions.py:219-220): the badge shows exactly if there is a match.    *)
NoStaleBadge == \A x \in Extractions : row[x].flagged <=> matches[x] # {}

(* "User decisions are protected: confirmed/dismissed rows are not           *)
(* reprocessable" (extractions.py:187-188).                                  *)
DecisionKept ==
  [][\A x \in Extractions :
       row[x].status \in Decided => row'[x].status \in Decided]_vars
=============================================================================
