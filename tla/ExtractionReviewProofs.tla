----------------------- MODULE ExtractionReviewProofs -----------------------
(*****************************************************************************)
(* Machine-checked proofs about ExtractionReview, for any extractions,       *)
(* aliases, fingerprints and requests.                                       *)
(*****************************************************************************)
EXTENDS ExtractionReview, TLAPS

-----------------------------------------------------------------------------
(* The values that are written.                                              *)

LEMMA OutcomeFacts ==
  /\ Unusable \in Outcomes
  /\ \A o \in Outcomes :
       /\ o.status \in {"pending_review", "extraction_failed"}
       /\ o.print \in Prints \cup {NoPrint}
       /\ o.status = "extraction_failed" => o.print = NoPrint
       /\ MailStatus(o) \in {"processed", "extraction_failed"}
BY DEF Outcomes, Usable, Unusable, MailStatus

LEMMA ChosenCandidates ==
  ASSUME NEW x \in Extractions, NEW p, NEW c \in OneOf(Candidates(x, p))
  PROVE  /\ c \in SUBSET Extractions
         /\ c = {} => p = NoPrint \/ NoneLive(x, p)
<1>1. Candidates(x, p) \subseteq Extractions
  BY DEF Candidates
<1>2. CASE Candidates(x, p) = {}
  <2>1. c = {}
    BY <1>2 DEF OneOf
  <2> QED
    BY <1>2, <2>1 DEF Candidates, NoneLive
<1>3. CASE Candidates(x, p) # {}
  <2>1. PICK y \in Candidates(x, p) : c = {y}
    BY <1>3 DEF OneOf
  <2> QED
    BY <1>1, <2>1
<1> QED
  BY <1>2, <1>3

(* Matches of one writer.                                                    *)
LEMMA WriterMatches ==
  ASSUME NEW w, NEW c
  PROVE  /\ {w} \X c # {} <=> c # {}
         /\ \A v, y : <<v, y>> \in {w} \X c <=> v = w /\ y \in c
<1>1. \A v, y : <<v, y>> \in {w} \X c <=> v = w /\ y \in c
  OBVIOUS
<1>2. ASSUME c # {} PROVE {w} \X c # {}
  <2>1. PICK y : y \in c
    BY <1>2
  <2>2. <<w, y>> \in {w} \X c
    BY <1>1, <2>1
  <2> QED
    BY <2>2
<1>3. ASSUME c = {} PROVE {w} \X c = {}
  <2>1. \A z \in {w} \X c : FALSE
    BY <1>3
  <2> QED
    BY <2>1
<1> QED
  BY <1>1, <1>2, <1>3

LEMMA NoRowTyped ==
  /\ NoRow \in Rows /\ NoRow.status = "none" /\ NoRow.print = NoPrint
  /\ NoRow.flagged = FALSE
BY DEF NoRow, Rows, Statuses

-----------------------------------------------------------------------------
(* Transactions that are open together.                                      *)

LEMMA MeetingFacts ==
  ASSUME NEW x \in Extractions
  PROVE  /\ Meetings(x) \subseteq Extractions \X Extractions
         /\ \A y, z : <<y, z>> \in Meetings(x) <=>
              \/ y = x /\ z \in Extractions \ {x} /\ Open(z)
              \/ z = x /\ y \in Extractions \ {x} /\ Open(y)
BY DEF Meetings

LEMMA ApartIsSymmetric ==
  ASSUME OpenHaveMet, NEW x \in Extractions, NEW y \in Extractions, Apart(x, y)
  PROVE  Apart(y, x)
BY DEF OpenHaveMet, Apart

(* A pair that is apart now has been apart before.                           *)
LEMMA ApartBefore ==
  ASSUME met \subseteq met', NEW x, NEW y
  PROVE  /\ Apart(x, y)' => Apart(x, y)
         /\ ~Crossed(x)' => ~Crossed(x)
BY DEF Apart, Crossed

(* Steps that change no row, and end or start transactions only of rows that *)
(* are not dismissed.                                                        *)
LEMMA GoneStaysGone ==
  ASSUME OneIsGone, met \subseteq met', UNCHANGED row,
         \A x \in Extractions : row[x].status = "dismissed" /\ ~Open(x) => ~Open(x)'
  PROVE  OneIsGone'
<1> SUFFICES ASSUME NEW x \in Extractions, NEW y \in Extractions, Apart(x, y)',
                    SamePrint(x, y)'
             PROVE  GoneForGood(x)' \/ GoneForGood(y)'
  BY DEF OneIsGone
<1>1. Apart(x, y) /\ SamePrint(x, y)
  BY ApartBefore DEF SamePrint
<1>2. GoneForGood(x) \/ GoneForGood(y)
  BY <1>1 DEF OneIsGone
<1> QED
  BY <1>2 DEF GoneForGood

(* A row whose transaction ends without a flag: each of its undetected       *)
(* duplicates is dismissed, and no request that could revive it is open.     *)
LEMMA UnflaggedMeetsOnlyGone ==
  ASSUME IInv, NEW x \in Extractions, NEW p, p # NoPrint, Open(x), NoneLive(x, p),
         NEW y \in Extractions, Apart(x, y), row[y].print = p
  PROVE  GoneForGood(y)
<1>1. <<x, y>> \notin met /\ x # y /\ ~Crossed(y)
  BY DEF Apart
<1>2. ~Open(y)
  BY <1>1 DEF IInv, OpenHaveMet
<1>3. row[y].status \notin Live
  BY <1>1 DEF NoneLive
<1>4. row[y].status \notin {"none", "extraction_failed"}
  BY <1>1 DEF IInv, FailedHasNoPrint
<1>5. row[y].status \in Statuses
  BY DEF IInv, TypeOK, Rows
<1> QED
  BY <1>2, <1>3, <1>4, <1>5 DEF GoneForGood, Statuses, Live, Decided

(* The checks of other transactions survive the write of one row.            *)
LEMMA ChecksSurvive ==
  ASSUME IInv, NEW x \in Extractions, Open(x), UNCHANGED met,
         \A y \in Extractions \ {x} : row'[y] = row[y]
  PROVE  \A z \in Extractions : \A p :
           (z = x \/ Open(z)) /\ NoneLive(z, p) => NoneLive(z, p)'
<1> SUFFICES ASSUME NEW z \in Extractions, NEW p, z = x \/ Open(z), NoneLive(z, p),
                    NEW y \in Extractions
             PROVE  <<z, y>> \in met \/ y = z
                      \/ ~(row'[y].status \in Live /\ row'[y].print = p)
  BY DEF NoneLive
<1>1. CASE y # x
  BY <1>1 DEF NoneLive
<1>2. CASE y = x /\ z # x
  BY <1>2 DEF IInv, OpenHaveMet
<1> QED
  BY <1>1, <1>2

LEMMA GoneNotLive ==
  ASSUME OneIsGone'
  PROVE  DuplicatesSurface'
BY DEF OneIsGone, DuplicatesSurface, GoneForGood, Live

-----------------------------------------------------------------------------
LEMMA InvInit == Init => IInv
<1> SUFFICES ASSUME Init PROVE IInv
  OBVIOUS
<1> USE NoRowTyped, OutcomeFacts
<1>1. TypeOK
  BY DEF Init, TypeOK
<1>2. Busy = {}
  BY DEF Init, Busy
<1>3. Lifecycle /\ ReadUndecided /\ OpenHaveMet /\ Fresh
  BY <1>2 DEF Init, Lifecycle, ReadUndecided, OpenHaveMet, Open, Fresh, Reprocessing
<1>4. FailedHasNoPrint /\ ChecksHold /\ OneIsGone /\ DuplicatesSurface
  BY <1>2 DEF Init, FailedHasNoPrint, ChecksHold, OneIsGone, DuplicatesSurface, SamePrint,
     Reprocessing
<1>5. BadgeBacked /\ MailAgrees
  BY DEF Init, BadgeBacked, MailAgrees
<1> QED
  BY <1>1, <1>3, <1>4, <1>5 DEF IInv

(* Ingestion writes a row that no request can have read.                     *)
LEMMA InvInsert ==
  ASSUME IInv, NEW x \in Extractions, NEW o \in Outcomes, Insert(x, o)
  PROVE  IInv'
<1> USE OutcomeFacts DEF rowVars, requestVars
<1>1. PICK c \in OneOf(Candidates(x, o.print)) :
        draft' = [draft EXCEPT ![x] = [result |-> o, found |-> c]]
  BY DEF Insert
<1>2. arrival[x] = "absent" /\ arrival' = [arrival EXCEPT ![x] = "inserted"]
      /\ met' = met \cup Meetings(x) /\ UNCHANGED <<rowVars, requestVars>>
  BY DEF Insert
<1>3. c \in SUBSET Extractions /\ (c = {} => o.print = NoPrint \/ NoneLive(x, o.print))
  BY ChosenCandidates
<1>4. TypeOK'
  BY <1>1, <1>2, <1>3, MeetingFacts DEF IInv, TypeOK
<1>5. \A y \in Extractions :
        /\ arrival'[y] = IF y = x THEN "inserted" ELSE arrival[y]
        /\ draft'[y] = IF y = x THEN [result |-> o, found |-> c] ELSE draft[y]
  BY <1>1, <1>2 DEF IInv, TypeOK
<1>6. /\ met \subseteq met' /\ \A y : Crossed(y)' <=> Crossed(y)
      /\ Busy' = Busy /\ \A y : Reprocessing(y)' = Reprocessing(y)
      /\ \A y \in Extractions : Open(y)' <=> (y = x \/ Open(y))
  BY <1>2, <1>5, MeetingFacts DEF Crossed, Busy, Reprocessing, Open
<1>7. row[x].status = "none" /\ ~Open(x)
  BY <1>2, NoRowTyped DEF IInv, Lifecycle, ReadUndecided, Open
<1>8. Lifecycle'
  BY <1>2, <1>5 DEF IInv, Lifecycle
<1>9. ReadUndecided' /\ Fresh' /\ FailedHasNoPrint' /\ BadgeBacked' /\ MailAgrees'
  BY <1>2, <1>5, <1>6 DEF IInv, ReadUndecided, Busy, Fresh, FailedHasNoPrint, BadgeBacked,
     MailAgrees
<1>10. OpenHaveMet'
  <2>1. OpenHaveMet
    BY DEF IInv
  <2>2. \A y, z \in Extractions : <<y, z>> \in met' => <<z, y>> \in met'
    BY <1>2, <2>1, MeetingFacts DEF OpenHaveMet
  <2>3. \A y, z \in Extractions : y # z /\ Open(y)' /\ Open(z)' => <<y, z>> \in met'
    BY <1>2, <1>6, <2>1, MeetingFacts DEF OpenHaveMet
  <2> QED
    BY <1>6, <2>1, <2>2, <2>3 DEF OpenHaveMet
<1>11. ChecksHold'
  <2>1. \A y \in Extractions : \A p : NoneLive(y, p) => NoneLive(y, p)'
    BY <1>2, <1>6 DEF NoneLive
  <2> QED
    BY <1>2, <1>3, <1>5, <1>6, <2>1 DEF IInv, ChecksHold
<1>12. OneIsGone'
  BY <1>2, <1>6, <1>7, GoneStaysGone DEF IInv
<1> QED
  BY <1>4, <1>8, <1>9, <1>10, <1>11, <1>12, GoneNotLive DEF IInv

LEMMA InvLoseArrival ==
  ASSUME IInv, NEW x \in Extractions, LoseArrival(x)
  PROVE  IInv'
<1> USE OutcomeFacts DEF rowVars, requestVars
<1>1. arrival[x] = "inserted" /\ arrival' = [arrival EXCEPT ![x] = "absent"]
      /\ draft' = [draft EXCEPT ![x] = [result |-> Unusable, found |-> {}]]
      /\ UNCHANGED <<rowVars, requestVars, met>>
  BY DEF LoseArrival
<1>2. TypeOK'
  BY <1>1 DEF IInv, TypeOK
<1>3. \A y \in Extractions :
        /\ arrival'[y] = IF y = x THEN "absent" ELSE arrival[y]
        /\ y # x => draft'[y] = draft[y]
  BY <1>1 DEF IInv, TypeOK
<1>4. /\ \A y : Crossed(y)' <=> Crossed(y)
      /\ Busy' = Busy /\ \A y : Reprocessing(y)' = Reprocessing(y)
      /\ \A y \in Extractions : Open(y)' => Open(y)
  BY <1>1, <1>3 DEF Crossed, Busy, Reprocessing, Open
<1>5. Lifecycle'
  BY <1>1, <1>3 DEF IInv, Lifecycle
<1>6. ReadUndecided' /\ Fresh' /\ FailedHasNoPrint' /\ BadgeBacked' /\ MailAgrees'
  BY <1>1, <1>3, <1>4 DEF IInv, ReadUndecided, Busy, Fresh, FailedHasNoPrint, BadgeBacked,
     MailAgrees
<1>7. OpenHaveMet'
  BY <1>1, <1>4 DEF IInv, OpenHaveMet
<1>8. ChecksHold'
  BY <1>1, <1>3, <1>4 DEF IInv, ChecksHold, NoneLive
<1>9. OneIsGone'
  BY <1>1, <1>4, GoneStaysGone DEF IInv
<1> QED
  BY <1>2, <1>5, <1>6, <1>7, <1>8, <1>9, GoneNotLive DEF IInv

LEMMA InvStoreArrival ==
  ASSUME IInv, NEW x \in Extractions, StoreArrival(x)
  PROVE  IInv'
<1> USE OutcomeFacts DEF requestVars
<1> DEFINE o == draft[x].result
           c == draft[x].found
           new == [status |-> o.status, print |-> o.print, flagged |-> c # {}]
<1>1. /\ arrival[x] = "inserted" /\ arrival' = [arrival EXCEPT ![x] = "stored"]
      /\ row' = [row EXCEPT ![x] = new]
      /\ matches' = [matches EXCEPT ![x] = {Ingest} \X c]
      /\ mail' = [mail EXCEPT ![x] = MailStatus(o)]
      /\ UNCHANGED <<draft, requestVars, met>>
  BY DEF StoreArrival
<1>2. o \in Outcomes /\ c \in SUBSET Extractions
  BY DEF IInv, TypeOK
<1>3. new \in Rows /\ new.status = o.status /\ new.print = o.print
      /\ new.flagged = (c # {}) /\ new.status # "none" /\ new.status \notin Decided
  BY <1>2 DEF Rows, Statuses, Decided
<1>4. c = {} => o.print = NoPrint \/ NoneLive(x, o.print)
  BY <1>1 DEF IInv, ChecksHold
<1> HIDE DEF new, o, c
<1>5. TypeOK'
  BY <1>1, <1>2, <1>3 DEF IInv, TypeOK
<1>6. \A y \in Extractions :
        /\ arrival'[y] = IF y = x THEN "stored" ELSE arrival[y]
        /\ row'[y] = IF y = x THEN new ELSE row[y]
        /\ matches'[y] = IF y = x THEN {Ingest} \X c ELSE matches[y]
        /\ mail'[y] = IF y = x THEN MailStatus(o) ELSE mail[y]
  BY <1>1 DEF IInv, TypeOK
<1>7. Lifecycle'
  BY <1>3, <1>6 DEF IInv, Lifecycle
<1>8. \A r \in Busy : target[r] # x
  BY <1>1 DEF IInv, ReadUndecided
<1>9. /\ \A y : Crossed(y)' <=> Crossed(y)
      /\ Busy' = Busy /\ \A y : Reprocessing(y)' = Reprocessing(y)
      /\ Open(x) /\ \A y \in Extractions : Open(y)' <=> (y # x /\ Open(y))
  BY <1>1, <1>6, <1>8 DEF Crossed, Busy, Reprocessing, Open
<1>10. ReadUndecided'
  BY <1>1, <1>6, <1>9 DEF IInv, ReadUndecided
<1>11. OpenHaveMet'
  BY <1>1, <1>9 DEF IInv, OpenHaveMet
<1>12. Fresh'
  BY <1>1, <1>6, <1>8, <1>9 DEF IInv, Fresh, Reprocessing
<1>13. FailedHasNoPrint'
  BY <1>2, <1>3, <1>6, <1>9 DEF IInv, FailedHasNoPrint
<1>14. BadgeBacked' /\ MailAgrees'
  <2>1. {Ingest} \X c # {} <=> c # {}
    BY WriterMatches
  <2>2. MailStatus(new) = MailStatus(o)
    BY <1>3 DEF MailStatus
  <2> QED
    BY <1>3, <1>6, <1>9, <2>1, <2>2 DEF IInv, BadgeBacked, MailAgrees
<1>15. ChecksHold'
  <2>1. \A z \in Extractions : \A p : Open(z) /\ NoneLive(z, p) => NoneLive(z, p)'
    BY <1>1, <1>6, <1>9, ChecksSurvive
  <2>2. \A z \in Extractions : arrival[z] = "inserted" \/ Reprocessing(z) # {} => Open(z)
    BY DEF Open, Reprocessing
  <2> QED
    BY <1>1, <1>6, <1>9, <2>1, <2>2 DEF IInv, ChecksHold
<1>16. OneIsGone'
  <2>1. ASSUME NEW y \in Extractions, Apart(x, y), SamePrint(x, y)'
        PROVE  GoneForGood(y)'
    <3>1. c = {} /\ o.print # NoPrint /\ row[y].print = o.print /\ y # x
      BY <1>3, <1>6, <2>1 DEF SamePrint, Apart
    <3>2. GoneForGood(y)
      BY <1>4, <1>9, <2>1, <3>1, UnflaggedMeetsOnlyGone
    <3> QED
      BY <1>6, <1>9, <3>1, <3>2 DEF GoneForGood
  <2> SUFFICES ASSUME NEW y \in Extractions, NEW z \in Extractions, Apart(y, z)',
                      SamePrint(y, z)'
               PROVE  GoneForGood(y)' \/ GoneForGood(z)'
    BY DEF OneIsGone
  <2>2. Apart(y, z) /\ Apart(z, y) /\ SamePrint(z, y)'
    BY <1>1, ApartIsSymmetric DEF IInv, Apart, Crossed, SamePrint
  <2>3. CASE y = x
    BY <2>1, <2>2, <2>3
  <2>4. CASE z = x
    BY <2>1, <2>2, <2>4
  <2>5. CASE y # x /\ z # x
    <3>1. SamePrint(y, z)
      BY <1>6, <2>5 DEF SamePrint
    <3>2. GoneForGood(y) \/ GoneForGood(z)
      BY <2>2, <3>1 DEF IInv, OneIsGone
    <3> QED
      BY <1>6, <1>9, <2>5, <3>2 DEF GoneForGood
  <2> QED
    BY <2>3, <2>4, <2>5
<1> QED
  BY <1>5, <1>7, <1>10, <1>11, <1>12, <1>13, <1>14, <1>15, <1>16, GoneNotLive DEF IInv

-----------------------------------------------------------------------------
(* Requests.                                                                 *)

LEMMA InvLoad ==
  ASSUME IInv, NEW r \in Requests, NEW o \in {"confirm", "dismiss", "reprocess"},
         Load(r, o)
  PROVE  IInv'
<1> USE DEF rowVars, arrivalVars
<1>0. PICK x \in Extractions : x = target[r]
  BY DEF IInv, TypeOK
<1> USE <1>0
<1> DEFINE adm == row[x].status \notin Decided
<1>1. /\ pc[r] = "idle" /\ row[x].status # "none"
      /\ pc' = [pc EXCEPT ![r] = IF adm THEN "loaded" ELSE "done"]
      /\ op' = [op EXCEPT ![r] = o] /\ seen' = [seen EXCEPT ![r] = row[x]]
      /\ met' = met \cup (IF pc'[r] = "loaded" THEN MeetingsOfCall(x, o) ELSE {})
      /\ UNCHANGED <<rowVars, arrivalVars, target, seenMail, result, found, dropped>>
  BY DEF Load, Admit
<1>2. x \in Extractions /\ row[x] \in Rows
      /\ row[x].status \in {"pending_review", "extraction_failed"} \cup Decided
  BY <1>1 DEF IInv, TypeOK, Rows, Statuses
<1>3. /\ met' \subseteq Extractions \X Extractions /\ met \subseteq met'
      /\ adm => Meetings(x) \subseteq met'
      /\ adm /\ o = "reprocess" /\ Reprocessing(x) # {} => Crossed(x)'
      /\ \A y, z : <<y, z>> \in met' =>
         <<y, z>> \in met \/ <<y, z>> \in Meetings(x) \/ (y = x /\ z = x)
  <2>1. MeetingsOfCall(x, o) \subseteq Extractions \X Extractions
        /\ \A y, z : <<y, z>> \in MeetingsOfCall(x, o) =>
             <<y, z>> \in Meetings(x) \/ (y = x /\ z = x)
    BY <1>2, MeetingFacts DEF MeetingsOfCall
  <2>2. adm => met' = met \cup MeetingsOfCall(x, o)
    BY <1>1 DEF IInv, TypeOK
  <2>3. Meetings(x) \subseteq MeetingsOfCall(x, o)
        /\ (o = "reprocess" /\ Reprocessing(x) # {} => <<x, x>> \in MeetingsOfCall(x, o))
    BY DEF MeetingsOfCall
  <2>4. met' = met \/ met' = met \cup MeetingsOfCall(x, o)
    BY <1>1
  <2>5. met \subseteq Extractions \X Extractions
    BY DEF IInv, TypeOK
  <2> HIDE DEF adm
  <2>6. met' \subseteq Extractions \X Extractions /\ met \subseteq met'
    BY <2>1, <2>4, <2>5
  <2>7. adm => Meetings(x) \subseteq met'
    BY <2>2, <2>3
  <2>8. adm /\ o = "reprocess" /\ Reprocessing(x) # {} => Crossed(x)'
    BY <2>2, <2>3 DEF Crossed
  <2>9. \A y, z : <<y, z>> \in met' =>
         <<y, z>> \in met \/ <<y, z>> \in Meetings(x) \/ (y = x /\ z = x)
    <3> SUFFICES ASSUME NEW y, NEW z, <<y, z>> \in met', <<y, z>> \notin met
                 PROVE  <<y, z>> \in Meetings(x) \/ (y = x /\ z = x)
      OBVIOUS
    <3>1. <<y, z>> \in MeetingsOfCall(x, o)
      BY <2>4
    <3> QED
      BY <2>1, <3>1
  <2> QED
    BY <2>6, <2>7, <2>8, <2>9
<1>4. TypeOK'
  BY <1>1, <1>2, <1>3 DEF IInv, TypeOK
<1>5. \A q \in Requests :
        /\ pc'[q] = IF q # r THEN pc[q] ELSE IF adm THEN "loaded" ELSE "done"
        /\ op'[q] = IF q = r THEN o ELSE op[q]
        /\ seen'[q] = IF q = r THEN row[x] ELSE seen[q]
  BY <1>1 DEF IInv, TypeOK
<1>6. /\ Busy' = IF adm THEN Busy \cup {r} ELSE Busy
      /\ r \notin Busy
  BY <1>1, <1>5 DEF Busy
<1>7. \A y \in Extractions : \A q \in Reprocessing(y)' :
        IF q = r THEN o = "reprocess" /\ y = x /\ adm ELSE q \in Reprocessing(y)
  BY <1>1, <1>5, <1>6 DEF Reprocessing, Busy
<1>8. \A y \in Extractions : Open(y)' <=> Open(y) \/ (adm /\ y = x)
  BY <1>1, <1>6 DEF Open
<1>9. \A y : ~Crossed(y)' => ~Crossed(y)
  BY <1>3 DEF Crossed
<1> HIDE DEF adm
<1>10. Lifecycle' /\ FailedHasNoPrint' /\ BadgeBacked' /\ MailAgrees'
  BY <1>1, <1>9 DEF IInv, Lifecycle, FailedHasNoPrint, BadgeBacked, MailAgrees
<1>11. ReadUndecided'
  <2>1. arrival[x] = "stored" /\ (adm => row[x].status \notin Decided)
    BY <1>1, <1>2 DEF IInv, Lifecycle, adm
  <2> QED
    BY <1>1, <1>2, <1>5, <1>6, <2>1 DEF IInv, ReadUndecided, Busy
<1>12. OpenHaveMet'
  <2>1. \A y, z \in Extractions : <<y, z>> \in met' => <<z, y>> \in met'
    <3> SUFFICES ASSUME NEW y \in Extractions, NEW z \in Extractions, <<y, z>> \in met'
                 PROVE  <<z, y>> \in met'
      OBVIOUS
    <3>1. CASE <<y, z>> \in met
      BY <1>3, <3>1 DEF IInv, OpenHaveMet
    <3>2. CASE y = x /\ z = x
      BY <3>2
    <3>3. CASE <<y, z>> \in Meetings(x) /\ <<y, z>> \notin met
      <4>1. <<z, y>> \in Meetings(x)
        BY <1>2, <3>3, MeetingFacts
      <4>2. CASE adm
        BY <1>3, <4>1, <4>2
      <4>3. CASE ~adm
        BY <1>1, <1>5, <3>3, <4>3
      <4> QED
        BY <4>2, <4>3
    <3> QED
      BY <1>3, <3>1, <3>2, <3>3
  <2>2. ASSUME NEW y \in Extractions, NEW z \in Extractions, y # z, Open(y)', Open(z)'
        PROVE  <<y, z>> \in met'
    <3>1. CASE Open(y) /\ Open(z)
      BY <1>3, <2>2, <3>1 DEF IInv, OpenHaveMet
    <3>2. CASE adm /\ y = x /\ Open(z)
      BY <1>2, <1>3, <2>2, <3>2, MeetingFacts
    <3>3. CASE adm /\ z = x /\ Open(y)
      BY <1>2, <1>3, <2>2, <3>3, MeetingFacts
    <3> QED
      BY <1>8, <2>2, <3>1, <3>2, <3>3
  <2>3. ASSUME NEW y \in Extractions, NEW p \in Reprocessing(y)', NEW q \in Reprocessing(y)'
        PROVE  p = q \/ Crossed(y)'
    <3>1. CASE p \in Reprocessing(y) /\ q \in Reprocessing(y)
      <4>1. p = q \/ Crossed(y)
        BY <3>1 DEF IInv, OpenHaveMet
      <4> QED
        BY <1>9, <4>1
    <3>2. CASE p \notin Reprocessing(y) \/ q \notin Reprocessing(y)
      <4>1. y = x /\ adm /\ o = "reprocess"
        BY <1>7, <2>3, <3>2
      <4>2. p = q \/ Reprocessing(x) # {}
        BY <1>7, <2>3, <4>1
      <4> QED
        BY <1>3, <4>1, <4>2
    <3> QED
      BY <3>1, <3>2
  <2> QED
    BY <2>1, <2>2, <2>3 DEF OpenHaveMet
<1>13. Fresh'
  <2> SUFFICES ASSUME NEW y \in Extractions, NEW q \in Reprocessing(y)', ~Crossed(y)'
               PROVE  /\ row[y].status \in Decided \cup {seen'[q].status}
                      /\ row[y].print = seen'[q].print
                      /\ row[y].flagged = seen'[q].flagged
                      /\ pc'[q] # "loaded" => mail[y] = seenMail[q]
                      /\ pc'[q] = "flushed" => matches[y] = dropped[q]
    BY <1>1 DEF Fresh
  <2>1. q \in Requests
    BY DEF Reprocessing, Busy
  <2>2. CASE q = r
    BY <1>1, <1>5, <1>7, <2>1, <2>2
  <2>3. CASE q # r
    BY <1>5, <1>7, <1>9, <2>1, <2>3 DEF IInv, Fresh
  <2> QED
    BY <2>2, <2>3
<1>14. ChecksHold'
  <2>1. \A y \in Extractions : \A p : NoneLive(y, p) => NoneLive(y, p)'
    BY <1>1, <1>3 DEF NoneLive
  <2>2. \A y \in Extractions : \A q \in Reprocessing(y)' :
          pc'[q] = "flushed" => q \in Reprocessing(y) /\ pc[q] = "flushed"
    BY <1>5, <1>7 DEF Reprocessing, Busy
  <2> QED
    BY <1>1, <2>1, <2>2 DEF IInv, ChecksHold
<1>15. OneIsGone'
  <2>1. \A y \in Extractions : row[y].status = "dismissed" /\ ~Open(y) => ~Open(y)'
    BY <1>8 DEF adm, Decided
  <2> QED
    BY <1>1, <1>3, <2>1, GoneStaysGone DEF IInv
<1> QED
  BY <1>4, <1>10, <1>11, <1>12, <1>13, <1>14, <1>15, GoneNotLive DEF IInv

(* A decision changes nothing but the status.                                *)
LEMMA InvDecide ==
  ASSUME IInv, NEW r \in Requests, Decide(r)
  PROVE  IInv'
<1> USE DEF arrivalVars
<1>0. PICK x \in Extractions : x = target[r]
  BY DEF IInv, TypeOK
<1> USE <1>0
<1> DEFINE d == IF op[r] = "confirm" THEN "confirmed" ELSE "dismissed"
<1>1. /\ pc[r] = "loaded" /\ op[r] # "reprocess"
      /\ row' = [row EXCEPT ![x].status = d]
      /\ pc' = [pc EXCEPT ![r] = "done"]
      /\ UNCHANGED <<mail, matches, arrivalVars, op, target, seen, seenMail, result,
                     found, dropped, met>>
  BY DEF Decide, Answer
<1>2. x \in Extractions /\ d \in Decided /\ arrival[x] = "stored" /\ Open(x)
  BY <1>1 DEF IInv, TypeOK, ReadUndecided, Busy, Decided, Open
<1>3. /\ row' \in [Extractions -> Rows]
      /\ row'[x].status = d /\ row'[x].flagged = row[x].flagged
      /\ row'[x].print = row[x].print
      /\ \A y \in Extractions \ {x} : row'[y] = row[y]
  <2> DEFINE to == [row[x] EXCEPT !.status = d]
  <2>1. row[x] \in Rows /\ row \in [Extractions -> Rows] /\ d \in Statuses
    BY <1>2 DEF IInv, TypeOK, Statuses
  <2>2. to \in Rows /\ to.status = d /\ to.flagged = row[x].flagged
        /\ to.print = row[x].print
    BY <2>1 DEF Rows
  <2>3. row' = [row EXCEPT ![x] = to]
    BY <1>1
  <2> HIDE DEF to
  <2> QED
    BY <1>2, <2>1, <2>2, <2>3
<1> HIDE DEF d
<1>4. TypeOK'
  BY <1>1, <1>3 DEF IInv, TypeOK
<1>5. /\ \A q \in Requests : pc'[q] = IF q = r THEN "done" ELSE pc[q]
      /\ Busy' = Busy \ {r}
  BY <1>1 DEF IInv, TypeOK, Busy
<1>6. /\ \A y : Crossed(y)' <=> Crossed(y)
      /\ \A y \in Extractions : Open(y)' => Open(y)
      /\ \A y : Reprocessing(y)' \subseteq Reprocessing(y)
  BY <1>1, <1>5 DEF Crossed, Open, Reprocessing
<1>7. Lifecycle' /\ FailedHasNoPrint'
  <2>1. row'[x].status \notin {"none", "extraction_failed"}
    BY <1>2, <1>3 DEF Decided
  <2> QED
    BY <1>1, <1>2, <1>3, <1>6, <2>1 DEF IInv, Lifecycle, FailedHasNoPrint
<1>8. ReadUndecided'
  BY <1>1, <1>5 DEF IInv, ReadUndecided, Busy
<1>9. OpenHaveMet'
  BY <1>1, <1>6 DEF IInv, OpenHaveMet
<1>10. Fresh'
  <2>1. \A y \in Extractions : \A q \in Reprocessing(y)' :
          q \in Reprocessing(y) /\ pc'[q] = pc[q]
    BY <1>1, <1>5, <1>6 DEF Reprocessing, Busy
  <2> QED
    BY <1>1, <1>2, <1>3, <1>6, <2>1 DEF IInv, Fresh
<1>11. BadgeBacked'
  BY <1>1, <1>2, <1>3, <1>6 DEF IInv, BadgeBacked
<1>12. MailAgrees'
  <2>1. \A y \in Extractions \ {x} : MailStatus(row'[y]) = MailStatus(row[y])
    BY <1>3
  <2> QED
    BY <1>1, <1>2, <1>3, <1>6, <2>1 DEF IInv, MailAgrees, Decided
<1>13. ChecksHold'
  <2>1. \A z \in Extractions : \A p : Open(z) /\ NoneLive(z, p) => NoneLive(z, p)'
    BY <1>1, <1>2, <1>3, ChecksSurvive
  <2>2. \A z \in Extractions : arrival[z] = "inserted" \/ Reprocessing(z) # {} => Open(z)
    BY DEF Open, Reprocessing
  <2>3. \A y \in Extractions : \A q \in Reprocessing(y)' :
          q \in Reprocessing(y) /\ pc'[q] = pc[q]
    BY <1>1, <1>5, <1>6 DEF Reprocessing, Busy
  <2> QED
    BY <1>1, <2>1, <2>2, <2>3 DEF IInv, ChecksHold
<1>14. OneIsGone'
  <2> SUFFICES ASSUME NEW y \in Extractions, NEW z \in Extractions, Apart(y, z)',
                      SamePrint(y, z)'
               PROVE  GoneForGood(y)' \/ GoneForGood(z)'
    BY DEF OneIsGone
  <2>1. Apart(y, z) /\ SamePrint(y, z)
    BY <1>1, <1>3 DEF Apart, Crossed, SamePrint
  <2>2. \A w \in Extractions : GoneForGood(w) => GoneForGood(w)'
    BY <1>2, <1>3, <1>6 DEF GoneForGood
  <2> QED
    BY <2>1, <2>2 DEF IInv, OneIsGone
<1> QED
  BY <1>4, <1>7, <1>8, <1>9, <1>10, <1>11, <1>12, <1>13, <1>14, GoneNotLive DEF IInv

(* Steps that only move a request on.                                        *)
LEMMA InvReadMail ==
  ASSUME IInv, NEW r \in Requests, ReadMail(r) \/ GiveUp(r)
  PROVE  IInv'
<1> USE DEF rowVars, arrivalVars
<1>1. /\ UNCHANGED <<rowVars, arrivalVars, op, target, seen, result, found, dropped, met>>
      /\ r \in Busy
      /\ \/ /\ pc[r] = "loaded" /\ op[r] = "reprocess"
            /\ pc' = [pc EXCEPT ![r] = "fetching"]
            /\ seenMail' = [seenMail EXCEPT ![r] = mail[target[r]]]
         \/ pc' = [pc EXCEPT ![r] = "done"] /\ UNCHANGED seenMail
  BY DEF ReadMail, GiveUp, Answer, Busy
<1>2. arrival[target[r]] = "stored" /\ target[r] \in Extractions
      /\ mail[target[r]] \in {"none", "processed", "extraction_failed"}
  BY <1>1 DEF IInv, TypeOK, ReadUndecided, Busy
<1>3. TypeOK'
  BY <1>1, <1>2 DEF IInv, TypeOK
<1>4. \A q \in Requests :
        /\ q # r => pc'[q] = pc[q] /\ seenMail'[q] = seenMail[q]
        /\ q = r => \/ pc'[q] = "done"
                    \/ /\ pc[r] = "loaded" /\ op[r] = "reprocess"
                       /\ pc'[q] = "fetching" /\ seenMail'[q] = mail[target[q]]
  BY <1>1 DEF IInv, TypeOK
<1>5. /\ Busy' \subseteq Busy
      /\ \A y : Crossed(y)' <=> Crossed(y)
      /\ \A y \in Extractions : Open(y)' => Open(y)
      /\ \A y : Reprocessing(y)' \subseteq Reprocessing(y)
      /\ \A q \in Requests : pc'[q] = "flushed" => pc[q] = "flushed"
  BY <1>1, <1>4 DEF Busy, Crossed, Open, Reprocessing
<1>6. Lifecycle' /\ FailedHasNoPrint' /\ BadgeBacked' /\ MailAgrees'
  BY <1>1, <1>5 DEF IInv, Lifecycle, FailedHasNoPrint, BadgeBacked, MailAgrees
<1>7. ReadUndecided'
  BY <1>1, <1>4, <1>5 DEF IInv, ReadUndecided, Busy
<1>8. OpenHaveMet'
  BY <1>1, <1>5 DEF IInv, OpenHaveMet
<1>9. Fresh'
  BY <1>1, <1>4, <1>5 DEF IInv, Fresh, Reprocessing, Busy
<1>10. ChecksHold'
  BY <1>1, <1>5 DEF IInv, ChecksHold, NoneLive, Reprocessing, Busy
<1>11. OneIsGone'
  BY <1>1, <1>5, GoneStaysGone DEF IInv
<1> QED
  BY <1>3, <1>6, <1>7, <1>8, <1>9, <1>10, <1>11, GoneNotLive DEF IInv

(* The pipeline has run; nothing is visible yet.                             *)
LEMMA InvFlush ==
  ASSUME IInv, NEW r \in Requests, NEW o \in Outcomes, Flush(r, o)
  PROVE  IInv'
<1> USE DEF rowVars, arrivalVars
<1>0. PICK x \in Extractions : x = target[r]
  BY DEF IInv, TypeOK
<1> USE <1>0
<1>1. /\ pc[r] = "fetching" /\ pc' = [pc EXCEPT ![r] = "flushed"]
      /\ result' = [result EXCEPT ![r] = o]
      /\ dropped' = [dropped EXCEPT ![r] = matches[x]]
      /\ UNCHANGED <<rowVars, arrivalVars, op, target, seen, seenMail, met>>
  BY DEF Flush
<1>2. PICK c \in OneOf(Candidates(x, o.print)) : found' = [found EXCEPT ![r] = c]
  BY DEF Flush
<1>3. x \in Extractions /\ matches[x] \in SUBSET ((Requests \cup {Ingest}) \X Extractions)
  BY DEF IInv, TypeOK
<1>4. c \in SUBSET Extractions /\ (c = {} => o.print = NoPrint \/ NoneLive(x, o.print))
  BY <1>3, ChosenCandidates
<1>5. TypeOK'
  BY <1>1, <1>2, <1>3, <1>4 DEF IInv, TypeOK
<1>6. \A q \in Requests : /\ pc'[q] = IF q = r THEN "flushed" ELSE pc[q]
                          /\ dropped'[q] = IF q = r THEN matches[x] ELSE dropped[q]
                          /\ result'[q] = IF q = r THEN o ELSE result[q]
                          /\ found'[q] = IF q = r THEN c ELSE found[q]
  BY <1>1, <1>2 DEF IInv, TypeOK
<1>7. /\ Busy' = Busy /\ \A y : Crossed(y)' <=> Crossed(y)
      /\ \A y \in Extractions : Open(y)' <=> Open(y)
      /\ \A y : Reprocessing(y)' = Reprocessing(y)
  BY <1>1, <1>6 DEF Busy, Crossed, Open, Reprocessing
<1>8. Lifecycle' /\ FailedHasNoPrint' /\ BadgeBacked' /\ MailAgrees'
  BY <1>1, <1>7 DEF IInv, Lifecycle, FailedHasNoPrint, BadgeBacked, MailAgrees
<1>9. ReadUndecided'
  BY <1>1, <1>6, <1>7 DEF IInv, ReadUndecided, Busy
<1>10. OpenHaveMet'
  BY <1>1, <1>7 DEF IInv, OpenHaveMet
<1>11. Fresh'
  BY <1>1, <1>6, <1>7 DEF IInv, Fresh, Reprocessing, Busy
<1>12. ChecksHold'
  <2>1. \A y \in Extractions : \A p : NoneLive(y, p) => NoneLive(y, p)'
    BY <1>1 DEF NoneLive
  <2>2. \A y \in Extractions : \A q \in Reprocessing(y) :
          q \in Requests /\ (q = r => y = x)
    BY DEF Reprocessing, Busy
  <2> QED
    BY <1>1, <1>4, <1>6, <1>7, <2>1, <2>2 DEF IInv, ChecksHold
<1>13. OneIsGone'
  BY <1>1, <1>7, GoneStaysGone DEF IInv
<1> QED
  BY <1>5, <1>8, <1>9, <1>10, <1>11, <1>12, <1>13, GoneNotLive DEF IInv

(* A reprocess writes what it found over what it read.                       *)
LEMMA InvSave ==
  ASSUME IInv, NEW r \in Requests, Save(r)
  PROVE  IInv'
<1> USE OutcomeFacts DEF arrivalVars
<1>0. PICK x \in Extractions : x = target[r]
  BY DEF IInv, TypeOK
<1> USE <1>0
<1> DEFINE old == seen[r]
           new == result[r]
           st == OrmWrite(old.status, new.status, row[x].status)
           pr == OrmWrite(old.print, new.print, row[x].print)
           fl == IF old.flagged \/ found[r] # {} THEN found[r] # {} ELSE row[x].flagged
           to == [status |-> st, print |-> pr, flagged |-> fl]
<1>1. /\ pc[r] = "flushed" /\ row' = [row EXCEPT ![x] = to]
      /\ mail' = [mail EXCEPT ![x] = NewMail(r)]
      /\ matches' = [matches EXCEPT ![x] = NewMatches(r)]
      /\ pc' = [pc EXCEPT ![r] = "done"]
      /\ UNCHANGED <<arrivalVars, op, target, seen, seenMail, result, found, dropped, met>>
  BY DEF Save, Answer
<1>2. /\ x \in Extractions /\ new \in Outcomes /\ found[r] \in SUBSET Extractions
      /\ row[x] \in Rows /\ r \in Busy /\ op[r] = "reprocess" /\ r \in Reprocessing(x)
      /\ arrival[x] = "stored" /\ Open(x) /\ row[x].status # "none"
      /\ matches[x] \in SUBSET ((Requests \cup {Ingest}) \X Extractions)
      /\ mail[x] \in {"none", "processed", "extraction_failed"}
  BY <1>1 DEF IInv, TypeOK, ReadUndecided, Busy, Reprocessing, Open, Lifecycle
<1>3. /\ to \in Rows /\ to.status = st /\ to.print = pr /\ to.flagged = fl
      /\ st # "none"
  <2>1. st \in {new.status, row[x].status} /\ pr \in {new.print, row[x].print}
        /\ fl \in {TRUE, FALSE, row[x].flagged}
    BY DEF OrmWrite
  <2>2. new.status # "none" /\ new.status \in Statuses /\ new.print \in Prints \cup {NoPrint}
    BY <1>2 DEF Statuses
  <2> HIDE DEF st, pr, fl, new
  <2> QED
    BY <1>2, <2>1, <2>2 DEF Rows
<1>4. ASSUME ~Crossed(x)
      PROVE  /\ st = new.status \/ (st = row[x].status /\ st \in Decided)
             /\ pr = new.print /\ fl = (found[r] # {})
             /\ NewMail(r) = MailStatus(new) /\ NewMatches(r) = {r} \X found[r]
  <2>1. /\ row[x].status \in Decided \cup {old.status}
        /\ row[x].print = old.print /\ row[x].flagged = old.flagged
        /\ mail[x] = seenMail[r] /\ matches[x] = dropped[r]
        /\ row[x].flagged \in BOOLEAN
    BY <1>1, <1>2, <1>4 DEF IInv, Fresh, Rows
  <2> QED
    BY <2>1 DEF OrmWrite, NewMail, NewMatches
<1>5. /\ NewMail(r) \in {"none", "processed", "extraction_failed"}
      /\ NewMatches(r) \in SUBSET ((Requests \cup {Ingest}) \X Extractions)
  BY <1>2 DEF NewMail, NewMatches, OrmWrite
<1> HIDE DEF to, st, pr, fl, old, new
<1>6. TypeOK'
  BY <1>1, <1>2, <1>3, <1>5 DEF IInv, TypeOK
<1>7. \A y \in Extractions :
         /\ row'[y] = IF y = x THEN to ELSE row[y]
         /\ mail'[y] = IF y = x THEN NewMail(r) ELSE mail[y]
         /\ matches'[y] = IF y = x THEN NewMatches(r) ELSE matches[y]
  BY <1>1, <1>2 DEF IInv, TypeOK
<1>8. /\ \A q \in Requests : pc'[q] = IF q = r THEN "done" ELSE pc[q]
      /\ Busy' = Busy \ {r}
  BY <1>1 DEF IInv, TypeOK, Busy
<1>9. /\ \A y : Crossed(y)' <=> Crossed(y)
      /\ \A y \in Extractions : Open(y)' => Open(y)
      /\ \A y : Reprocessing(y)' = Reprocessing(y) \ {r}
  BY <1>1, <1>8 DEF Crossed, Open, Reprocessing
<1>10. Lifecycle'
  BY <1>1, <1>2, <1>3, <1>7 DEF IInv, Lifecycle
<1>11. ReadUndecided'
  BY <1>1, <1>8 DEF IInv, ReadUndecided, Busy
<1>12. OpenHaveMet'
  BY <1>1, <1>9 DEF IInv, OpenHaveMet
<1>13. \A y \in Extractions : \A q \in Reprocessing(y)' :
         q \in Reprocessing(y) /\ pc'[q] = pc[q] /\ (y = x => Crossed(x))
  <2>1. \A p, q \in Reprocessing(x) : p = q \/ Crossed(x)
    BY DEF IInv, OpenHaveMet
  <2>2. \A y : \A q \in Reprocessing(y) : q \in Requests
    BY DEF Reprocessing, Busy
  <2> QED
    BY <1>2, <1>8, <1>9, <2>1, <2>2
<1>14. Fresh'
  BY <1>1, <1>7, <1>9, <1>13 DEF IInv, Fresh
<1>15. FailedHasNoPrint'
  <2>1. ~Crossed(x) /\ to.status = "extraction_failed" => to.print = NoPrint
    BY <1>2, <1>3, <1>4 DEF Decided
  <2> QED
    BY <1>3, <1>7, <1>9, <2>1 DEF IInv, FailedHasNoPrint
<1>16. BadgeBacked'
  <2>1. \A c : {r} \X c # {} <=> c # {}
    BY WriterMatches
  <2>2. ~Crossed(x) => (NewMatches(r) # {} <=> found[r] # {})
    BY <1>4, <2>1
  <2>3. ~Crossed(x) => (to.flagged <=> found[r] # {})
    BY <1>3, <1>4
  <2> QED
    BY <1>7, <1>9, <2>2, <2>3 DEF IInv, BadgeBacked
<1>17. MailAgrees'
  <2>1. ~Crossed(x) /\ to.status \in {"pending_review", "extraction_failed"} =>
          MailStatus(to) = NewMail(r)
    BY <1>3, <1>4 DEF MailStatus, Decided
  <2> QED
    BY <1>7, <1>9, <2>1 DEF IInv, MailAgrees
<1>18. ChecksHold'
  <2>1. \A z \in Extractions : \A p : Open(z) /\ NoneLive(z, p) => NoneLive(z, p)'
    BY <1>1, <1>2, <1>7, ChecksSurvive
  <2>2. \A z \in Extractions : arrival[z] = "inserted" \/ Reprocessing(z) # {} => Open(z)
    BY DEF Open, Reprocessing
  <2> QED
    BY <1>1, <1>13, <2>1, <2>2 DEF IInv, ChecksHold
<1>19. OneIsGone'
  <2>1. ASSUME NEW y \in Extractions, Apart(x, y), SamePrint(x, y)'
        PROVE  GoneForGood(y)'
    <3>1. y # x /\ ~Crossed(x)
      BY <2>1 DEF Apart
    <3>2. found[r] = {} /\ new.print # NoPrint /\ row[y].print = new.print
      <4>1. row'[x] = to /\ row'[y] = row[y]
        BY <1>2, <1>7, <3>1
      <4>2. to.print = row[y].print /\ to.print # NoPrint /\ ~to.flagged
        BY <2>1, <4>1 DEF SamePrint
      <4>3. to.print = new.print /\ to.flagged = (found[r] # {})
        BY <1>3, <1>4, <3>1
      <4> QED
        BY <4>2, <4>3
    <3>3. NoneLive(x, new.print)
      BY <1>1, <1>2, <3>2 DEF IInv, ChecksHold, new
    <3>4. GoneForGood(y)
      BY <1>2, <2>1, <3>2, <3>3, UnflaggedMeetsOnlyGone
    <3> QED
      BY <1>7, <1>9, <3>1, <3>4 DEF GoneForGood
  <2> SUFFICES ASSUME NEW y \in Extractions, NEW z \in Extractions, Apart(y, z)',
                      SamePrint(y, z)'
               PROVE  GoneForGood(y)' \/ GoneForGood(z)'
    BY DEF OneIsGone
  <2>2. Apart(y, z) /\ Apart(z, y) /\ SamePrint(z, y)'
    BY <1>1, ApartIsSymmetric DEF IInv, Apart, Crossed, SamePrint
  <2>3. CASE y = x
    BY <2>1, <2>2, <2>3
  <2>4. CASE z = x
    BY <2>1, <2>2, <2>4
  <2>5. CASE y # x /\ z # x
    <3>1. SamePrint(y, z)
      BY <1>7, <2>5 DEF SamePrint
    <3>2. GoneForGood(y) \/ GoneForGood(z)
      BY <2>2, <3>1 DEF IInv, OneIsGone
    <3> QED
      BY <1>7, <1>9, <2>5, <3>2 DEF GoneForGood
  <2> QED
    BY <2>3, <2>4, <2>5
<1> QED
  BY <1>6, <1>10, <1>11, <1>12, <1>14, <1>15, <1>16, <1>17, <1>18, <1>19, GoneNotLive
     DEF IInv

LEMMA InvStep ==
  ASSUME IInv, [Next]_vars
  PROVE  IInv'
<1>1. CASE UNCHANGED vars
  <2> USE <1>1 DEF vars, rowVars, arrivalVars, requestVars
  <2>1. TypeOK' /\ Lifecycle'
    BY DEF IInv, TypeOK, Lifecycle
  <2>2. /\ Busy' = Busy /\ \A x : Open(x)' <=> Open(x)
        /\ \A x : (Reprocessing(x)' = Reprocessing(x)) /\ (Crossed(x)' <=> Crossed(x))
    BY DEF Busy, Open, Reprocessing, Crossed
  <2>3. ReadUndecided' /\ OpenHaveMet' /\ Fresh' /\ FailedHasNoPrint'
    BY <2>2 DEF IInv, ReadUndecided, OpenHaveMet, Fresh, FailedHasNoPrint
  <2>4. ChecksHold' /\ BadgeBacked' /\ MailAgrees'
    BY <2>2 DEF IInv, ChecksHold, NoneLive, BadgeBacked, MailAgrees
  <2>5. OneIsGone'
    BY <2>2, GoneStaysGone DEF IInv
  <2> QED
    BY <2>1, <2>3, <2>4, <2>5, GoneNotLive DEF IInv
<1> QED
  BY <1>1, InvInsert, InvLoseArrival, InvStoreArrival, InvLoad, InvDecide, InvReadMail,
     InvFlush, InvSave DEF Next, Arrive, Request

(* Only a request that read the row before the decision changes it.          *)
LEMMA DecisionStep ==
  ASSUME IInv, [Next]_vars, NEW x \in Extractions,
         row[x].status \in Decided, row'[x] # row[x]
  PROVE  \E r \in Requests : /\ target[r] = x
                             /\ pc[r] \in {"loaded", "flushed"} /\ pc'[r] = "done"
                             /\ seen[r].status \notin Decided
<1>1. CASE \E y \in Extractions : StoreArrival(y)
  <2>1. PICK y \in Extractions : StoreArrival(y)
    BY <1>1
  <2>2. y = x /\ arrival[y] = "inserted"
    BY <2>1 DEF StoreArrival, IInv, TypeOK
  <2> QED
    BY <2>2 DEF IInv, Lifecycle, NoRow, Decided
<1>2. CASE \E r \in Requests : Decide(r) \/ Save(r)
  <2>1. PICK r \in Requests : Decide(r) \/ Save(r)
    BY <1>2
  <2>2. target[r] = x
    BY <2>1 DEF Decide, Save, IInv, TypeOK
  <2>3. pc[r] \in {"loaded", "flushed"} /\ pc'[r] = "done"
    BY <2>1 DEF Decide, Save, Answer, IInv, TypeOK
  <2>4. seen[r].status \notin Decided
    BY <2>3 DEF IInv, ReadUndecided, Busy, Decided
  <2> QED
    BY <2>2, <2>3, <2>4
<1>3. CASE UNCHANGED row
  BY <1>3
<1> QED
  BY <1>1, <1>2, <1>3 DEF Next, Arrive, Request, Insert, LoseArrival, Load, ReadMail,
     GiveUp, Flush, vars, rowVars

-----------------------------------------------------------------------------
(* The inductive invariant of the review requests.                           *)
THEOREM ReviewInvariant == Spec => []IInv
<1>1. IInv /\ [Next]_vars => IInv'
  BY InvStep
<1> QED
  BY <1>1, InvInit, PTL DEF Spec

(* A row no two reprocess calls of which overlapped shows a badge exactly if *)
(* it has a match.                                                           *)
THEOREM BadgesAreBacked == Spec => []BadgeBacked
<1>1. IInv => BadgeBacked
  BY DEF IInv
<1> QED
  BY <1>1, ReviewInvariant, PTL

(* The status of an email agrees with that of its undecided row, unless two  *)
(* reprocess calls of the row overlapped.                                    *)
THEOREM MailAlwaysAgrees == Spec => []MailAgrees
<1>1. IInv => MailAgrees
  BY DEF IInv
<1> QED
  BY <1>1, ReviewInvariant, PTL

(* Two live unflagged rows with one fingerprint come only from overlap.      *)
THEOREM DuplicatesAreFlagged == Spec => []DuplicatesSurface
<1>1. IInv => DuplicatesSurface
  BY DEF IInv
<1> QED
  BY <1>1, ReviewInvariant, PTL

(* A decision is undone only by a request that overlapped it.                *)
THEOREM DecisionsFallToOverlap == Spec => UndoneOnlyByOverlap
<1>1. IInv /\ [Next]_vars =>
        [\A x \in Extractions :
           (row[x].status \in Decided /\ row'[x] # row[x]) =>
             \E r \in Requests : /\ target[r] = x
                                 /\ pc[r] \in {"loaded", "flushed"} /\ pc'[r] = "done"
                                 /\ seen[r].status \notin Decided]_vars
  BY DecisionStep
<1> QED
  BY <1>1, ReviewInvariant, PTL DEF Spec, UndoneOnlyByOverlap
=============================================================================
