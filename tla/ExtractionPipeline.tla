------------------------- MODULE ExtractionPipeline -------------------------
(*****************************************************************************)
(* The pure pipeline and what ingestion persists of its result: resolve      *)
(* the sender of a (forwarded) email, classify it, extract fields from its   *)
(* contents, score and route them, and map the outcome to a row, an email    *)
(* status and an outbox event.  Hosts are sequences of labels; templates are *)
(* represented by the set of fields they find.                               *)
(*****************************************************************************)
EXTENDS ContentExtraction

CONSTANTS
  MultiTld,         \* public suffixes of two labels
  Consumer,         \* consumer mail providers, registrable domains
  Registry,         \* registered domains of known financial senders
  Templated,        \* those with a template
  Inputs            \* the emails to look at

Required == {"amount", "merchant", "transaction_date"}

(* dkim is the first d= host, from the host of the From: header; subject     *)
(* says that it matches a financial pattern, template what the template of   *)
(* the sender finds; oversized is an amount the column cannot hold, nameless *)
(* a merchant that is only a transaction id, of which normalization leaves   *)
(* nothing.  The seeded templates find a currency only together with an      *)
(* amount; a verification email comes from a fixed address.                  *)
Mails ==
  {m \in [verification : BOOLEAN,
          dkim : Hosts \cup {NoHost}, from : Hosts \cup {NoHost},
          multipart : BOOLEAN, parts : Seq(Parts), subject : BOOLEAN, template : SUBSET Fields,
          oversized : BOOLEAN, nameless : BOOLEAN] :
     /\ m.parts # <<>>
     /\ ~m.multipart => Len(m.parts) = 1
     /\ "currency" \in m.template => "amount" \in m.template
     /\ m.verification => m.from # NoHost}

ASSUME PipelineAssumption == Inputs \subseteq Mails

ASSUME HostsAssumption ==
  /\ Hosts \subseteq Seq(STRING)
  /\ \A suffix \in MultiTld : Len(suffix) = 2
  /\ NoHost \notin Consumer

TextBody(m) == Body(m.multipart, m.parts, "plain")
HtmlBody(m) == Body(m.multipart, m.parts, "html")

VARIABLES mail, outcome
vars == <<mail, outcome>>

-----------------------------------------------------------------------------
(* sender_resolver                                                           *)

LastTwo(h) == SubSeq(h, Len(h) - 1, Len(h))

NaiveDomain(h) == IF Len(h) >= 2 THEN LastTwo(h) ELSE h
RegisteredDomain(h) ==
  IF Len(h) >= 3 /\ LastTwo(h) \in MultiTld THEN SubSeq(h, Len(h) - 2, Len(h))
  ELSE IF Len(h) >= 2 THEN LastTwo(h) ELSE h

(* The host of the address that a quoted From: line leads to: the one beside *)
(* it, or that of the next line that is not blank if nothing stands there.   *)
QuotedHost(lines, i) ==
  IF lines[i].host # NoHost \/ lines[i].shape # "none" \/ Below(lines, i) = {}
  THEN lines[i].host ELSE lines[Min(Below(lines, i))].host
QuotedSenders(lines) ==
  {i \in DOMAIN lines : /\ lines[i].tag = "field" /\ lines[i].name = "from"
                        /\ QuotedHost(lines, i) # NoHost}

(* The first quoted sender, whoever it is.                                   *)
FirstQuoted(lines) ==
  LET quoted == QuotedSenders(lines)
  IN  IF quoted = {} THEN NoHost ELSE RegisteredDomain(QuotedHost(lines, Min(quoted)))

(* The first quoted sender that is no consumer account.                      *)
FirstReal(lines) ==
  LET real == {i \in QuotedSenders(lines) :
                 RegisteredDomain(QuotedHost(lines, i)) \notin Consumer}
  IN  IF real = {} THEN NoHost ELSE RegisteredDomain(QuotedHost(lines, Min(real)))
OriginalSender(m) ==
  IF FirstReal(TextBody(m)) # NoHost THEN FirstReal(TextBody(m))
  ELSE FirstReal(HtmlBody(m))

(* The sender that the headers name: DKIM before From:.                      *)
HeaderSender(m) ==
  IF m.dkim # NoHost THEN [source |-> "dkim", domain |-> RegisteredDomain(m.dkim)]
  ELSE [source |-> "header", domain |-> RegisteredDomain(m.from)]

(* Without a DKIM domain and a From: domain the code calls _body_text,       *)
(* which is defined nowhere: NameError.                                      *)
Resolve(m) ==
  LET outer == HeaderSender(m)
  IN  IF outer.domain = NoHost THEN [source |-> "raises", domain |-> NoHost]
      ELSE IF outer.domain \in Consumer /\ OriginalSender(m) # NoHost
           THEN [source |-> "body", domain |-> OriginalSender(m)]
           ELSE outer

-----------------------------------------------------------------------------
(* Extraction, scoring and routing.                                          *)

(* What the generic extractor reads, and the fields it finds.                *)
Read(m) == Extract(Prepare(TextBody(m), HtmlBody(m)))
NothingRead == [f \in Fields |-> Nothing]
Generic(read) == {f \in Fields : read[f] # Nothing}

(* How each field was found; the template overwrites the generic extractor,  *)
(* and an amount without currency gets the default of its sender.            *)
GenericOverlay(general, template) ==
  [f \in Fields |-> IF f \in general THEN "regex"
                    ELSE IF f \in template THEN "template" ELSE "none"]
Overlaid(general, template) ==
  [f \in Fields |-> IF f \in template THEN "template"
                    ELSE IF f \in general THEN "regex" ELSE "none"]
MethodsOf(general, template) ==
  LET found == Overlaid(general, template)
  IN  IF found["amount"] # "none" /\ found["currency"] = "none"
      THEN [found EXCEPT !["currency"] = "default"] ELSE found
Methods(m, read, d) ==
  MethodsOf(Generic(read), IF d \in Templated THEN m.template ELSE {})

Confidence == [template |-> 97, regex |-> 75, default |-> 60, none |-> 0]
Weight == [amount |-> 35, transaction_date |-> 20, merchant |-> 25,
           currency |-> 10, card_last4 |-> 5]
FailBelow == 6000
HighBand == 8500

(* Confidences and weights in hundredths.                                    *)
Score(methods) ==
  LET part(f) == Weight[f] * Confidence[methods[f]]
  IN  part("amount") + part("transaction_date") + part("merchant")
        + part("currency") + part("card_last4")

Found(methods) == {f \in Fields : methods[f] # "none"}

Route(methods) ==
  IF "amount" \notin Found(methods) THEN [status |-> "extraction_failed", band |-> "n/a"]
  ELSE [status |-> "pending_review",
        band |-> IF Required \subseteq Found(methods) /\ Score(methods) >= HighBand
                 THEN "high" ELSE "low_confidence"]

HasPrint(m, methods) == Required \subseteq Found(methods) /\ ~m.nameless

-----------------------------------------------------------------------------
(* persist_result: an amount out of range becomes a failure.                 *)

LeaksStatus(m, methods) ==
  IF m.oversized THEN "out_of_range" ELSE Route(methods).status
StoredStatus(m, methods) ==
  IF m.oversized THEN "extraction_failed" ELSE Route(methods).status
PrintAnyway(m, methods) == HasPrint(m, methods)
StoredPrint(m, methods) == HasPrint(m, methods) /\ ~m.oversized

NoRow == [status |-> "none", band |-> "n/a", print |-> FALSE]
StoredRow(m, methods) ==
  [status |-> StoredStatus(m, methods), band |-> Route(methods).band,
   print |-> StoredPrint(m, methods)]

(* What is stored about an email, and the event that announces it.           *)
Story(sender, read, status, row, event) ==
  [sender |-> sender, read |-> read, mail |-> status, row |-> row, event |-> event]

Extracted(m, sender) ==
  LET read == Read(m)
      methods == Methods(m, read, sender.domain)
      row == StoredRow(m, methods)
  IN  IF row.status = "pending_review"
      THEN Story(sender, read, "processed", row, "extraction.created")
      ELSE Story(sender, read, "extraction_failed", row, "extraction.failed")

IsFinancial(m, d) == d \in Registry \/ m.subject

(* run and persist_result; the sender is resolved before anything else, and  *)
(* an exception leaves nothing behind.                                       *)
Outcome(m) ==
  LET sender == Resolve(m)
  IN  IF sender.source = "raises" THEN Story(sender, NothingRead, "none", NoRow, "none")
      ELSE IF m.verification
           THEN Story(sender, NothingRead, "forwarding_verification", NoRow,
                 "forwarding.verification")
      ELSE IF ~IsFinancial(m, sender.domain)
           THEN Story(sender, NothingRead, "non_financial", NoRow, "none")
      ELSE Extracted(m, sender)

Unread ==
  Story([source |-> "none", domain |-> NoHost], NothingRead, "received", NoRow, "none")

Init == mail \in Inputs /\ outcome = Unread
Process == outcome = Unread /\ outcome' = Outcome(mail) /\ UNCHANGED mail
Next == Process
Spec == Init /\ [][Next]_vars

-----------------------------------------------------------------------------
(* Every variable keeps its type; a row has an extraction status only.       *)
TypeOK ==
  /\ mail \in Mails
  /\ outcome.sender.source \in {"none", "raises", "dkim", "header", "body"}
  /\ outcome.mail \in {"none", "received", "processed", "extraction_failed",
                       "non_financial", "forwarding_verification"}
  /\ outcome.row \in [status : {"none", "pending_review", "extraction_failed"},
                      band : {"high", "low_confidence", "n/a"}, print : BOOLEAN]
  /\ outcome.event \in {"none", "extraction.created", "extraction.failed",
                        "forwarding.verification"}

(* The email, its extraction row and the event the budgeting app receives    *)
(* agree, also when the amount degrades while it is stored, and only a row   *)
(* that can be reviewed takes part in duplicate detection.                   *)
StoryAgrees ==
  LET r == outcome.row
  IN  /\ (r.status = "pending_review") <=> (outcome.mail = "processed")
      /\ (r.status = "pending_review") <=> (outcome.event = "extraction.created")
      /\ (r.status = "extraction_failed") <=> (outcome.mail = "extraction_failed")
      /\ (r.status = "extraction_failed") <=> (outcome.event = "extraction.failed")
      /\ r.print => r.status = "pending_review"

(* A reviewer sees "high" only for an amount that a template read, next to   *)
(* a date and a merchant: no mix of generic matches reaches the band.        *)
HighMeansTemplate ==
  (outcome.row.status = "pending_review" /\ outcome.row.band = "high") =>
    /\ outcome.sender.domain \in Templated
    /\ "amount" \in mail.template
    /\ Required \subseteq mail.template \cup Generic(outcome.read)

(* Finding more in an email never lowers its score.                          *)
EvidenceAddsUp ==
  LET general == Generic(outcome.read)
      score(g, t) == Score(MethodsOf(g, t))
  IN  \A f \in Fields :
        /\ score(general, mail.template \cup {f}) >= score(general, mail.template)
        /\ score(general \cup {f}, mail.template) >= score(general, mail.template)

(* A forward is booked to a consumer account only if no quoted From: line    *)
(* names anybody else (sender_resolver.py:28-30).                            *)
ForwardUnwrapped ==
  outcome.sender.domain \in Consumer =>
    \A lines \in {TextBody(mail), HtmlBody(mail)} :
      \A i \in QuotedSenders(lines) :
        RegisteredDomain(QuotedHost(lines, i)) \in Consumer

(* The registrable domain of a host is that of its subdomains and its own,   *)
(* and for a host below a public suffix it is not that suffix, which         *)
(* unrelated organisations share.                                            *)
OneOwner ==
  \A h \in {mail.dkim, mail.from} :
    LET d == RegisteredDomain(h)
    IN  /\ RegisteredDomain(d) = d
        /\ Len(h) >= 3 => d \notin MultiTld /\ RegisteredDomain(<<"mail">> \o h) = d

(* Lines of a body from the marker of a forward to the end of its headers.   *)
Envelope(lines) ==
  {i \in DOMAIN lines :
     \E j \in 1 .. (i - 1) :
       /\ lines[j].tag = "marker"
       /\ \A k \in (j + 1) .. i :
            \/ lines[k].tag = "blank"
            \/ lines[k].tag = "field" /\ lines[k].name \in HeaderNames}

(* The day on which somebody forwarded an email is never taken for the day   *)
(* of the transaction, blank lines and forwards of forwards included: what   *)
(* is read as its date is written outside the headers of the forwards        *)
(* (content_preparer.py:68-71).                                              *)
EnvelopeDateLoses ==
  LET date == outcome.read["transaction_date"]
  IN  date # Nothing =>
        \E lines \in {TextBody(mail), HtmlBody(mail)} :
          \E i \in DOMAIN lines \ Envelope(lines) :
            lines[i].is = date.is /\ lines[i].shape \in DateShapes

(* The parts that a reader of the email sees, and those of them that matter: *)
(* a stub of plain text does not count next to a longer HTML part.           *)
Visible(m) ==
  {p \in DOMAIN m.parts : /\ ~m.parts[p].attached /\ m.parts[p].readable
                          /\ m.parts[p].type # "other" /\ m.parts[p].lines # <<>>}
Stub(m, p) ==
  /\ m.parts[p].type = "plain"
  /\ Len(m.parts[p].lines) < StubLen
  /\ \E q \in Visible(m) : /\ m.parts[q].type = "html"
                            /\ Len(m.parts[q].lines) > Len(m.parts[p].lines)

(* The values an alert gives under a name, in its order, and whether each    *)
(* can be one: beside the name, in a table or on the line below.             *)
Given(lines, name) ==
  LET at == {i \in DOMAIN lines : lines[i].name = name}
  IN  [i \in at |-> IF lines[i].tag # "label" THEN lines[i]
                    ELSE IF i < Len(lines) /\ lines[i + 1].tag = "text"
                         THEN lines[i + 1] ELSE [shape |-> "none"]]
NameOf == [amount |-> "amount", merchant |-> "merchant",
           transaction_date |-> "transaction date"]
Plausible == [amount |-> PricedShapes \cup {"number", "digits"}, merchant |-> {"words"},
              transaction_date |-> DateShapes]

(* What an alert names is what is extracted, whatever balances, fees and     *)
(* dates stand around it and whichever layout, part or attachment they are   *)
(* in: "the labeled Amount ALWAYS wins" (general_extractor.py:178).          *)
LabelsWin ==
  \A f \in Required : \A p \in Visible(mail) :
    LET given == Given(mail.parts[p].lines, NameOf[f])
    IN  (/\ outcome.row # NoRow
         /\ \A q \in Visible(mail) \ {p} : Stub(mail, q)
         /\ ~Stub(mail, p)
         /\ DOMAIN given # {}
         /\ \A i \in DOMAIN given : given[i].shape \in Plausible[f])
        => /\ f \in Generic(outcome.read)
           /\ outcome.read[f].is = given[Min(DOMAIN given)].is

(* "Priority: DKIM d= domain -> From: header domain -> body-embedded         *)
(* sender" (sender_resolver.py:3): an email that quotes a sender has one.    *)
QuotedSenderFound ==
  (outcome # Unread /\ QuotedSenders(TextBody(mail)) # {}) => outcome.sender.domain # NoHost
=============================================================================
