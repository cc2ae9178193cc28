------------------------ MODULE MCExtractionPipeline ------------------------
(*****************************************************************************)
(* A small instance of ExtractionPipeline: a bank with a template under a    *)
(* suffix of two labels, a shop that is in no registry, a consumer mail      *)
(* provider.                                                                 *)
(*****************************************************************************)
EXTENDS ExtractionPipeline

Bank == <<"bank", "com", "jm">>
Gmail == <<"gmail", "com">>

Shop == <<"shop", "com">>
SomeHosts == {<<"alerts", "bank", "com", "jm">>, Gmail, Shop}
PublicSuffixes == {<<"com", "jm">>}
Providers == {Gmail}
Banks == {Bank}

-----------------------------------------------------------------------------
(* Lines; a value is that of the transaction, of a forward or of neither.    *)

Line(tag, name, shape, is) ==
  [tag |-> tag, name |-> name, shape |-> shape, is |-> is, host |-> NoHost]
Plain(tag) == Line(tag, "none", "none", "stray")
Named(tag, name, shape) == Line(tag, name, shape, "transaction")
Text(shape) == Line("text", "none", shape, "transaction")
Stray(name, shape) == Line("field", name, shape, "stray")
From(h) == [Line("field", "from", "words", "forward") EXCEPT !.host = h]
Sent == Line("field", "date", "slashed", "forward")
Subject == Line("field", "subject", "words", "forward")
Prose == Line("text", "none", "words", "stray")
ToBelow == Line("field", "from", "none", "forward")
Address(h) == [Line("text", "none", "words", "forward") EXCEPT !.host = h]

Forward(h) == <<Plain("marker"), Plain("blank"), From(h), Sent, Subject, Plain("blank")>>
Folded(h) == <<Plain("marker"), ToBelow, Plain("blank"), Address(h)>>
Forwards(hosts) == FlattenSeq([i \in DOMAIN hosts |-> Forward(hosts[i])])

(* The same value beside its name, in a table and below the name.            *)
Layouts(name, shape) ==
  {<<Named("field", name, shape)>>, <<Named("row", name, shape), Plain("rule")>>,
   <<Named("label", name, "none"), Text(shape)>>}
Gaps(name) == {<<>>, <<Named("field", name, "none")>>, <<Named("row", name, "none")>>,
               <<Named("label", name, "none"), Plain("footer")>>}

OneAmount == {<<Named("row", "amount", "number")>>}
OneMerchant == {<<Named("label", "merchant", "none"), Text("words")>>}
OneDate == {<<Named("field", "date", "worded")>>}

Amounts == Layouts("amount", "coded") \cup Layouts("amount", "number")
             \cup Gaps("amount") \cup {<<Named("field", "amount", "count")>>,
                                     <<Named("field", "amount", "dollar")>>}
Dates == Layouts("transaction date", "worded") \cup Gaps("transaction date")
           \cup OneDate \cup {<<Named("field", "date", "spelled")>>,
                             <<Named("row", "date", "iso")>>}
Merchants == Layouts("merchant", "words") \cup Gaps("merchant")
               \cup {<<Named("field", "merchant", "greeting")>>,
                     <<Named("label", "merchant", "none"),
                       Named("label", "card number", "none"), Text("masked")>>,
                     <<Named("label", "card", "none"), Plain("blank"), Text("digits"),
                       Named("field", "merchant", "none")>>}
Strays == {<<>>, <<Stray("balance", "money")>>,
           <<Line("text", "date", "iso", "stray"), Stray("balance", "slashed"), Prose>>}

(* Any two of the fields in every layout, next to one layout of the third.   *)
Alert(strays, amounts, merchants, dates) ==
  {x \o a \o m \o d : x \in strays, a \in amounts, m \in merchants, d \in dates}
Alerts ==
  Alert(Strays, Amounts, OneMerchant, Dates) \cup Alert({<<>>}, Amounts, Merchants, OneDate)
    \cup Alert(Strays, OneAmount, Merchants, Dates)

-----------------------------------------------------------------------------
(* Every combination of headers and forwards with two alerts, every alert    *)
(* directly and forwarded twice, and every combination of fields that the    *)
(* generic extractor and the template can find.                              *)

Mime(type, lines) ==
  [type |-> type, attached |-> FALSE, readable |-> TRUE, lines |-> lines]
Invoice(type) ==
  [Mime(type, <<Stray("amount", "money"), Stray("merchant", "words"),
                Stray("transaction date", "iso")>>) EXCEPT !.attached = TRUE]
Garbled == [Mime("plain", <<Stray("amount", "money")>>) EXCEPT !.readable = FALSE]
Fyi == Mime("plain", <<Prose>>)

Complete ==
  <<Named("row", "amount", "money"), Named("field", "merchant", "words"),
    Named("field", "transaction date", "iso")>>

Headers ==
  {h \in [verification : BOOLEAN,
          dkim : SomeHosts \cup {NoHost}, from : {NoHost, Gmail, Shop},
          subject : BOOLEAN] :
     h.verification => h.from # NoHost}
Quotes == {<<>>, <<Gmail>>, <<Gmail, Shop>>, <<Gmail, Gmail>>}
Forwarded ==
  {<<Mime("plain", t \o body), Mime("html", Forwards(h))>> :
     t \in {Forwards(q) : q \in Quotes} \cup {Folded(Shop)},
     h \in Quotes \ {<<Gmail, Gmail>>}, body \in {<<Prose>>, Complete}}
Direct ==
  {h \in Headers : h.dkim \in SomeHosts /\ h.from = NoHost /\ h.subject}
FromBank == {h \in Direct : h.dkim \notin {Gmail, Shop}}

(* The alert as plain text, as HTML next to a stub, next to attachments.     *)
Envelopes ==
  {<<Mime("plain", a)>> : a \in Alerts}
    \cup {<<Invoice("plain"), Mime("html", Forward(Gmail) \o Forward(Shop) \o a)>> : a \in Alerts}
    \cup {<<Garbled, Fyi, Invoice("html"), Mime("html", a)>> : a \in Alerts}

(* Contents in which the generic extractor finds exactly the given fields.   *)
Finding(found) ==
  <<Named("field", "amount", IF "currency" \in found THEN "money"
                             ELSE IF "amount" \in found THEN "number" ELSE "none"),
    Named("field", "transaction date", IF "transaction_date" \in found THEN "spelled" ELSE "none"),
    Named("field", "merchant", IF "merchant" \in found THEN "words" ELSE "none"),
    Named("field", "card", IF "card_last4" \in found THEN "digits" ELSE "none")>>

Findable == {found \in SUBSET Fields : "currency" \in found => "amount" \in found}

Contents ==
  [template : Findable, oversized : BOOLEAN, nameless : BOOLEAN]
Usual == {c \in Contents : c.template = Fields /\ ~c.oversized /\ ~c.nameless}

Mailing(hs, cs, ps) ==
  {[verification |-> h.verification, dkim |-> h.dkim, from |-> h.from,
    subject |-> h.subject, multipart |-> Len(p) > 1, parts |-> p, template |-> c.template,
    oversized |-> c.oversized, nameless |-> c.nameless] :
     h \in hs, c \in cs, p \in ps}

(* One part, by itself and as all there is of a multipart message.           *)
Alone ==
  LET parts == {<<Mime(type, Complete)>> : type \in {"plain", "html"}}
                 \cup {<<Invoice(type)>> : type \in {"plain", "html"}}
      mails == Mailing(FromBank, Usual, parts)
  IN  mails \cup {[m EXCEPT !.multipart = TRUE] : m \in mails}

SomeMails ==
  Mailing(Headers, {c \in Contents : c.template = Fields /\ ~c.nameless}, Forwarded)
    \cup Mailing(FromBank, Usual, Envelopes)
    \cup Mailing(Direct, Contents, {<<Mime("plain", Finding(g))>> : g \in Findable})
    \cup Alone
=============================================================================
