---------------------- MODULE ExtractionPipelineProofs ----------------------
(*****************************************************************************)
(* Machine-checked proofs about ExtractionPipeline, for every email, every   *)
(* list of suffixes, providers and senders, and whatever templates find.     *)
(*****************************************************************************)
EXTENDS ExtractionPipeline, ContentExtractionProofs, TLAPS

-----------------------------------------------------------------------------
(* Registrable domains, of hosts whose labels are from any set.              *)

(* What RegisteredDomain is, by the number of labels.                        *)
LEMMA ShortDomain ==
  ASSUME NEW S, NEW h \in Seq(S), Len(h) <= 2
  PROVE  RegisteredDomain(h) = h
<1>1. PICK n \in Nat : n = Len(h)
  OBVIOUS
<1>2. n = 2 \/ n < 2
  BY <1>1
<1>3. CASE n = 2
  <2>1. Len(h) - 1 = 1 /\ Len(h) >= 2 /\ ~(Len(h) >= 3)
    BY <1>1, <1>3
  <2>2. LastTwo(h) = h
    BY <2>1, SubSeqFull DEF LastTwo
  <2> QED
    BY <2>1, <2>2 DEF RegisteredDomain
<1>4. CASE n < 2
  <2>1. ~(Len(h) >= 3) /\ ~(Len(h) >= 2)
    BY <1>1, <1>4
  <2> QED
    BY <2>1 DEF RegisteredDomain
<1> QED
  BY <1>2, <1>3, <1>4

LEMMA LongDomain ==
  ASSUME NEW S, NEW h \in Seq(S), Len(h) >= 3
  PROVE  /\ LastTwo(h) \in MultiTld => RegisteredDomain(h) = SubSeq(h, Len(h) - 2, Len(h))
         /\ LastTwo(h) \notin MultiTld => RegisteredDomain(h) = LastTwo(h)
BY DEF RegisteredDomain

(* The ends of a host.                                                       *)
LEMMA Ends ==
  ASSUME NEW S, NEW h \in Seq(S), Len(h) >= 3
  PROVE  LET three == SubSeq(h, Len(h) - 2, Len(h))
         IN  /\ LastTwo(h) \in Seq(S) /\ Len(LastTwo(h)) = 2
             /\ three \in Seq(S) /\ Len(three) = 3
             /\ LastTwo(three) = LastTwo(h)
             /\ SubSeq(three, 1, 3) = three
<1> DEFINE three == SubSeq(h, Len(h) - 2, Len(h))
<1>0. Len(h) \in Nat
  OBVIOUS
<1>1. /\ LastTwo(h) \in Seq(S) /\ Len(LastTwo(h)) = 2
      /\ three \in Seq(S) /\ Len(three) = 3
  BY <1>0, SubSeqProperties DEF LastTwo
<1>2. SubSeq(three, 2, 3) = SubSeq(h, Len(h) - 2 + 2 - 1, Len(h) - 2 + 3 - 1)
  BY <1>0, SubSeqOfSubSeq
<1>3. SubSeq(three, 2, 3) = LastTwo(h)
  BY <1>0, <1>2 DEF LastTwo
<1> HIDE DEF three
<1>4. LastTwo(three) = LastTwo(h)
  BY <1>1, <1>3 DEF LastTwo
<1>5. SubSeq(three, 1, 3) = three
  BY <1>1, SubSeqFull
<1> QED
  BY <1>1, <1>4, <1>5 DEF three

(* A subdomain ends like its host.                                           *)
LEMMA SubdomainEnd ==
  ASSUME NEW S, NEW h \in Seq(S), NEW x \in S, Len(h) >= 3
  PROVE  LET g == <<x>> \o h
         IN  /\ g \in Seq(S) /\ Len(g) >= 3
             /\ LastTwo(g) = LastTwo(h)
             /\ SubSeq(g, Len(g) - 2, Len(g)) = SubSeq(h, Len(h) - 2, Len(h))
<1> DEFINE g == <<x>> \o h
<1>1. <<x>> \in Seq(S) /\ Len(<<x>>) = 1
  OBVIOUS
<1>2. g \in Seq(S) /\ Len(g) = Len(h) + 1
  OBVIOUS
<1>3. \A m, n \in 2 .. Len(h) + 1 : SubSeq(g, m, n) = SubSeq(h, m - 1, n - 1)
  BY <1>1, SubSeqOfConcat2
<1> HIDE DEF g
<1>4. /\ LastTwo(g) = LastTwo(h)
      /\ SubSeq(g, Len(g) - 2, Len(g)) = SubSeq(h, Len(h) - 2, Len(h))
  BY <1>2, <1>3, SMTT(30) DEF LastTwo
<1> QED
  BY <1>2, <1>4 DEF g

LEMMA NotEmpty ==
  ASSUME NEW S, NEW h \in Seq(S)
  PROVE  h # NoHost <=> Len(h) > 0
BY DEF NoHost

(* A host that is itself such an end is its own domain.                      *)
LEMMA DomainOfEnd ==
  ASSUME NEW S, NEW two \in Seq(S), NEW three \in Seq(S),
         Len(two) = 2, Len(three) = 3,
         LastTwo(three) = two, SubSeq(three, 1, 3) = three
  PROVE  /\ two # NoHost /\ three # NoHost
         /\ RegisteredDomain(two) = two
         /\ two \in MultiTld => RegisteredDomain(three) = three
         /\ three \notin MultiTld
<1>1. two # NoHost /\ three # NoHost
  BY NotEmpty, SMTT(30)
<1>2. RegisteredDomain(two) = two
  BY ShortDomain
<1>3. ASSUME two \in MultiTld PROVE RegisteredDomain(three) = three
  <2>1. Len(three) >= 3 /\ Len(three) - 2 = 1
    OBVIOUS
  <2>2. RegisteredDomain(three) = SubSeq(three, Len(three) - 2, Len(three))
    BY <1>3, <2>1, LongDomain
  <2> QED
    BY <2>1, <2>2
<1>4. three \notin MultiTld
  BY HostsAssumption
<1> QED
  BY <1>1, <1>2, <1>3, <1>4

(* The domain of a host is its own domain and that of its subdomains, and it *)
(* is no public suffix.                                                      *)
LEMMA DomainOfHost ==
  ASSUME NEW S, NEW h \in Seq(S), NEW x \in S
  PROVE  /\ h # NoHost => RegisteredDomain(h) # NoHost
         /\ RegisteredDomain(RegisteredDomain(h)) = RegisteredDomain(h)
         /\ Len(h) >= 3 => /\ RegisteredDomain(h) \notin MultiTld
                           /\ RegisteredDomain(<<x>> \o h) = RegisteredDomain(h)
<1>1. CASE Len(h) <= 2
  BY <1>1, ShortDomain
<1>2. CASE Len(h) >= 3
  <2>1. PICK two \in Seq(S), three \in Seq(S) :
          /\ two = LastTwo(h) /\ three = SubSeq(h, Len(h) - 2, Len(h))
          /\ Len(two) = 2 /\ Len(three) = 3
          /\ LastTwo(three) = two /\ SubSeq(three, 1, 3) = three
    BY <1>2, Ends, ZenonT(30)
  <2>9. PICK g \in Seq(S) :
          /\ g = <<x>> \o h /\ Len(g) >= 3
          /\ LastTwo(g) = LastTwo(h)
          /\ SubSeq(g, Len(g) - 2, Len(g)) = SubSeq(h, Len(h) - 2, Len(h))
    BY <1>2, SubdomainEnd, Zenon
  <2>2. /\ two \in MultiTld => RegisteredDomain(h) = three
        /\ two \notin MultiTld => RegisteredDomain(h) = two
    BY <1>2, <2>1, LongDomain
  <2>3. /\ two \in MultiTld => RegisteredDomain(g) = three
        /\ two \notin MultiTld => RegisteredDomain(g) = two
    BY <2>9, <2>1, LongDomain
  <2>4. /\ two # NoHost /\ three # NoHost
        /\ RegisteredDomain(two) = two
        /\ two \in MultiTld => RegisteredDomain(three) = three
        /\ three \notin MultiTld
    BY <2>1, DomainOfEnd
  <2> QED
    BY <2>9, <2>1, <2>2, <2>3, <2>4
<1>3. PICK n \in Nat : n = Len(h)
  OBVIOUS
<1>4. n <= 2 \/ n >= 3
  OBVIOUS
<1> QED
  BY <1>1, <1>2, <1>3, <1>4

-----------------------------------------------------------------------------
(* The parts of an email.                                                    *)

LEMMA BodyIsLines ==
  ASSUME NEW parts \in Seq(Parts), parts # <<>>, NEW multipart, NEW type
  PROVE  Body(multipart, parts, type) \in Seq(Lines)
<1>1. ASSUME NEW i \in DOMAIN parts PROVE parts[i].lines \in Seq(Lines)
  <2>1. parts[i] \in Parts
    OBVIOUS
  <2> QED
    BY <2>1, Zenon DEF Parts
<1>2. <<>> \in Seq(Lines)
  OBVIOUS
<1>3. BodyOfMany(parts, type) \in Seq(Lines)
  <2> DEFINE shown == {i \in DOMAIN parts : Shown(parts[i], type)}
  <2>1. shown \in SUBSET Nat /\ shown \subseteq DOMAIN parts
    OBVIOUS
  <2>2. shown # {} => Min(shown) \in DOMAIN parts
    BY <2>1, MinIsMember
  <2> QED
    BY <1>1, <1>2, <2>2 DEF BodyOfMany
<1>4. parts[1].lines \in Seq(Lines)
  <2>1. 1 \in DOMAIN parts
    OBVIOUS
  <2> QED
    BY <1>1, <2>1
<1> QED
  BY <1>2, <1>3, <1>4 DEF Body

(* The body of many parts is one that is shown, if there is any.             *)
LEMMA BodyIsShown ==
  ASSUME NEW parts \in Seq(Parts), NEW type, NEW body, body = BodyOfMany(parts, type)
  PROVE  \/ body = <<>> /\ \A i \in DOMAIN parts : ~Shown(parts[i], type)
         \/ \E i \in DOMAIN parts : Shown(parts[i], type) /\ body = parts[i].lines
<1>1. PICK shown : shown = {i \in DOMAIN parts : Shown(parts[i], type)}
  OBVIOUS
<1>2. body = IF shown = {} THEN <<>> ELSE parts[Min(shown)].lines
  BY <1>1 DEF BodyOfMany
<1>3. shown \in SUBSET Nat
  BY <1>1
<1>4. CASE shown = {}
  BY <1>1, <1>2, <1>4
<1>5. CASE shown # {}
  <2>1. PICK i \in shown : i = Min(shown)
    BY <1>3, <1>5, MinIsMember
  <2> QED
    BY <1>1, <1>2, <1>5, <2>1
<1> QED
  BY <1>4, <1>5

(* Of the only part that matters, the lines are prepared.                    *)
LEMMA PartIsSource ==
  ASSUME NEW m \in Mails, NEW p \in Visible(m),
         \A q \in Visible(m) \ {p} : Stub(m, q), ~Stub(m, p),
         NEW text, text = TextBody(m), NEW html, html = HtmlBody(m)
  PROVE  Source(text, html) = m.parts[p].lines
<1>1. PICK parts \in Seq(Parts) : parts = m.parts /\ parts # <<>>
  BY DEF Mails
<1>2. PICK lines \in Seq(Lines) : lines = parts[p].lines /\ lines # <<>>
  <2>1. p \in DOMAIN parts /\ parts[p].lines # <<>>
    BY <1>1 DEF Visible
  <2>2. parts[p] \in Parts
    BY <2>1
  <2> QED
    BY <2>1, <2>2 DEF Parts
<1>3. PICK k \in Nat : k = Len(lines) /\ k > 0
  BY <1>2, EmptySeq
<1>4. /\ p \in DOMAIN parts /\ ~parts[p].attached /\ parts[p].readable
      /\ parts[p].type \in {"plain", "html"}
  <2>1. p \in DOMAIN parts /\ ~parts[p].attached /\ parts[p].readable /\ parts[p].type # "other"
    BY <1>1 DEF Visible
  <2>2. parts[p] \in Parts
    BY <2>1
  <2> QED
    BY <2>1, <2>2 DEF Parts
<1>5. Len(<<>>) = 0 /\ 0 < StubLen
  BY StubAssumption
<1>6. CASE m.multipart
  <2>1. ASSUME NEW q \in DOMAIN parts, NEW type \in {"plain", "html"}, Shown(parts[q], type), q # p
        PROVE  type = "plain" /\ Stub(m, q)
    <3>1. q \in Visible(m) \ {p} /\ parts[q].type = type
      BY <1>1, <2>1 DEF Visible, Shown, AnyOfType
    <3>2. Stub(m, q)
      BY <3>1
    <3> QED
      BY <1>1, <3>1, <3>2 DEF Stub
  <2>2. \/ html = <<>> /\ \A i \in DOMAIN parts : ~Shown(parts[i], "html")
        \/ \E i \in DOMAIN parts : Shown(parts[i], "html") /\ html = parts[i].lines
    BY <1>1, <1>6, BodyIsShown DEF HtmlBody, Body
  <2>3. \/ text = <<>> /\ \A i \in DOMAIN parts : ~Shown(parts[i], "plain")
        \/ \E i \in DOMAIN parts : Shown(parts[i], "plain") /\ text = parts[i].lines
    BY <1>1, <1>6, BodyIsShown DEF TextBody, Body
  <2>4. Shown(parts[p], parts[p].type)
    BY <1>2, <1>4 DEF Shown, AnyOfType
  <2>5. CASE parts[p].type = "html"
    <3>1. html = lines
      <4>1. PICK i \in DOMAIN parts : Shown(parts[i], "html") /\ html = parts[i].lines
        BY <1>4, <2>2, <2>4, <2>5
      <4>2. i = p
        BY <2>1, <4>1
      <4> QED
        BY <1>2, <4>1, <4>2
    <3>2. CASE text = <<>>
      <4>1. Len(text) < StubLen /\ Len(html) > Len(text)
        BY <1>3, <1>5, <3>1, <3>2
      <4> QED
        BY <1>1, <1>2, <3>1, <4>1, Zenon DEF Source
    <3>3. CASE text # <<>>
      <4>1. PICK i \in DOMAIN parts : Shown(parts[i], "plain") /\ text = parts[i].lines
        BY <2>3, <3>3
      <4>2. i # p
        BY <2>5, <4>1 DEF Shown, AnyOfType
      <4>3. Stub(m, i)
        BY <2>1, <4>1, <4>2
      <4>4. Len(text) < StubLen /\ \E q \in Visible(m) :
              parts[q].type = "html" /\ Len(parts[q].lines) > Len(text)
        BY <1>1, <4>1, <4>3 DEF Stub
      <4>5. PICK q \in Visible(m) : parts[q].type = "html" /\ Len(parts[q].lines) > Len(text)
        BY <4>4
      <4>6. q = p
        <5>1. q # p => Stub(m, q)
          OBVIOUS
        <5>2. Stub(m, q) => parts[q].type = "plain"
          BY <1>1 DEF Stub
        <5> QED
          BY <4>5, <5>1, <5>2
      <4>7. Len(html) > Len(text)
        BY <1>2, <3>1, <4>5, <4>6
      <4> QED
        BY <1>1, <1>2, <3>1, <4>4, <4>7, Zenon DEF Source
    <3> QED
      BY <3>2, <3>3
  <2>6. CASE parts[p].type = "plain"
    <3>1. html = <<>>
      <4>1. ASSUME NEW i \in DOMAIN parts, Shown(parts[i], "html") PROVE FALSE
        <5>1. i # p
          BY <2>6, <4>1 DEF Shown, AnyOfType
        <5> QED
          BY <2>1, <4>1, <5>1
      <4> QED
        BY <2>2, <4>1
    <3>2. text = lines
      <4>1. PICK i \in DOMAIN parts : Shown(parts[i], "plain") /\ text = parts[i].lines
        BY <1>4, <2>3, <2>4, <2>6
      <4>2. i = p
        <5>1. ASSUME i # p PROVE FALSE
          <6>1. Stub(m, i)
            BY <2>1, <4>1, <5>1
          <6>2. PICK q \in Visible(m) : parts[q].type = "html"
            BY <1>1, <6>1 DEF Stub
          <6>3. q # p /\ ~Stub(m, q)
            BY <1>1, <2>6, <6>2 DEF Stub
          <6> QED
            BY <6>3
        <5> QED
          BY <5>1
      <4> QED
        BY <1>2, <4>1, <4>2
    <3>3. ~(Len(html) > Len(text))
      BY <1>3, <1>5, <3>1, <3>2
    <3> QED
      BY <1>1, <1>2, <3>2, <3>3, Zenon DEF Source
  <2> QED
    BY <1>4, <2>5, <2>6
<1>7. CASE ~m.multipart
  <2>1. p = 1
    <3>1. Len(parts) = 1
      BY <1>1, <1>7 DEF Mails
    <3> QED
      BY <1>4, <3>1
  <2>2. /\ text = IF "html" = parts[1].type THEN <<>> ELSE lines
        /\ html = IF "html" = parts[1].type THEN lines ELSE <<>>
    BY <1>1, <1>2, <1>4, <1>7, <2>1 DEF TextBody, HtmlBody, Body
  <2>3. CASE parts[1].type = "html"
    <3>1. Len(text) < StubLen /\ Len(html) > Len(text) /\ html = lines
      BY <1>3, <1>5, <2>2, <2>3
    <3> QED
      BY <1>1, <1>2, <3>1, Zenon DEF Source
  <2>4. CASE parts[1].type # "html"
    <3>1. ~(Len(html) > Len(text)) /\ text = lines
      BY <1>3, <1>5, <2>2, <2>4
    <3> QED
      BY <1>1, <1>2, <3>1, Zenon DEF Source
  <2> QED
    BY <2>3, <2>4
<1> QED
  BY <1>6, <1>7

(* A quoted sender has a host, and its domain is a name.                     *)
LEMMA QuotedDomain ==
  ASSUME NEW lines \in Seq(Lines), NEW i \in QuotedSenders(lines)
  PROVE  RegisteredDomain(QuotedHost(lines, i)) # NoHost
<1>1. PICK h : h = QuotedHost(lines, i) /\ h # NoHost
  BY DEF QuotedSenders
<1>2. \A k \in DOMAIN lines : lines[k].host \in Hosts \cup {NoHost}
  <2>1. \A k \in DOMAIN lines : lines[k] \in Lines
    OBVIOUS
  <2> QED
    BY <2>1 DEF Lines
<1>3. \E k \in DOMAIN lines : h = lines[k].host
  <2>1. i \in DOMAIN lines
    BY DEF QuotedSenders
  <2>2. Below(lines, i) \in SUBSET Nat /\ Below(lines, i) \subseteq DOMAIN lines
    BY DEF Below
  <2>3. Below(lines, i) # {} => Min(Below(lines, i)) \in DOMAIN lines
    BY <2>2, MinIsMember
  <2> QED
    BY <1>1, <2>1, <2>3, Zenon DEF QuotedHost
<1>4. h \in Hosts
  BY <1>1, <1>2, <1>3
<1>5. h \in Seq(STRING)
  BY <1>4, HostsAssumption
<1>6. h[1] \in STRING
  BY <1>1, <1>5, NotEmpty
<1> QED
  BY <1>1, <1>5, <1>6, DomainOfHost

(* The first real sender that a body quotes is none of the providers, and    *)
(* there is none only if all that are quoted are providers.                  *)
LEMMA FirstRealIsReal ==
  ASSUME NEW lines \in Seq(Lines)
  PROVE  /\ FirstReal(lines) \notin Consumer
         /\ FirstReal(lines) = NoHost =>
              \A i \in QuotedSenders(lines) :
                RegisteredDomain(QuotedHost(lines, i)) \in Consumer
<1> DEFINE real == {i \in QuotedSenders(lines) :
                      RegisteredDomain(QuotedHost(lines, i)) \notin Consumer}
<1>1. CASE real = {}
  <2>1. FirstReal(lines) = NoHost
    BY <1>1 DEF FirstReal
  <2> QED
    BY <1>1, <2>1, HostsAssumption
<1>2. CASE real # {}
  <2>1. real \in SUBSET Nat
    BY DEF QuotedSenders
  <2>2. Min(real) \in real
    BY <1>2, <2>1, MinIsMember
  <2>3. FirstReal(lines) = RegisteredDomain(QuotedHost(lines, Min(real)))
    BY <1>2 DEF FirstReal
  <2>4. FirstReal(lines) # NoHost
    BY <2>2, <2>3, QuotedDomain
  <2> QED
    BY <2>2, <2>3, <2>4
<1> QED
  BY <1>1, <1>2

-----------------------------------------------------------------------------
(* What is given and what is read.                                           *)

(* The first value given is written beside or below its name.                *)
LEMMA GivenIsWritten ==
  ASSUME NEW lines \in Seq(Lines),
         NEW name, name # "none", name \notin HeaderNames, NEW shapes, "none" \notin shapes,
         NEW given, given = Given(lines, name), DOMAIN given # {},
         \A i \in DOMAIN given : given[i].shape \in shapes
  PROVE  \E i \in DOMAIN lines : \E v :
           /\ i = Min(DOMAIN given) /\ v = given[i] /\ v.shape \in shapes
           /\ Writes(lines, i, name, v)
<1>1. PICK at : at = {i \in DOMAIN lines : lines[i].name = name}
  OBVIOUS
<1>2. given = [i \in at |-> IF lines[i].tag # "label" THEN lines[i]
                            ELSE IF i < Len(lines) /\ lines[i + 1].tag = "text"
                                 THEN lines[i + 1] ELSE [shape |-> "none"]]
  BY <1>1, Zenon DEF Given
<1>3. DOMAIN given = at /\ at \in SUBSET Nat
  BY <1>1, <1>2
<1>4. PICK i \in at : i = Min(at) /\ \A y \in at : i <= y
  BY <1>3, MinIsMember
<1>5. PICK v : v = given[i] /\ v.shape \in shapes
  BY <1>3, <1>4
<1>6. v = IF lines[i].tag # "label" THEN lines[i]
          ELSE IF i < Len(lines) /\ lines[i + 1].tag = "text"
               THEN lines[i + 1] ELSE [shape |-> "none"]
  BY <1>2, <1>5, Zenon
<1>7. i \in DOMAIN lines /\ lines[i].name = name
  BY <1>1
<1>8. \A k \in DOMAIN lines : k < i => lines[k].name # name
  BY <1>1, <1>3, <1>4
<1>9. lines[i].tag \in {"field", "label", "row"}
  <2>1. lines[i] \in Lines
    BY <1>7
  <2> QED
    BY <1>7, <2>1 DEF Lines
<1>10. v.shape # "none"
  BY <1>5
<1>11. CASE lines[i].tag # "label"
  BY <1>3, <1>4, <1>5, <1>6, <1>7, <1>8, <1>9, <1>10, <1>11 DEF Writes
<1>12. CASE lines[i].tag = "label"
  <2>1. i < Len(lines) /\ lines[i + 1].tag = "text"
    <3>1. ASSUME ~(i < Len(lines) /\ lines[i + 1].tag = "text") PROVE v.shape = "none"
      <4>1. v = [shape |-> "none"]
        BY <1>6, <1>12, <3>1
      <4> QED
        BY <4>1, Zenon
    <3> QED
      BY <1>10, <3>1
  <2>2. PICK n \in DOMAIN lines : n = i + 1
    BY <1>7, <2>1
  <2>3. v = lines[n] /\ v.tag = "text"
    BY <1>6, <1>12, <2>1, <2>2
  <2> QED
    BY <1>3, <1>4, <1>5, <1>7, <1>8, <1>10, <1>12, <2>2, <2>3 DEF Writes
<1> QED
  BY <1>11, <1>12

LEMMA FieldNames ==
  /\ NameOf["amount"] = "amount" /\ Plausible["amount"] = PricedShapes \cup {"number", "digits"}
  /\ NameOf["merchant"] = "merchant" /\ Plausible["merchant"] = {"words"}
  /\ NameOf["transaction_date"] = "transaction date"
  /\ Plausible["transaction_date"] = DateShapes
BY Zenon DEF NameOf, Plausible

(* What one of the three names introduces is read as its field.              *)
LEMMA IntroducedIsRead ==
  ASSUME NEW lines, NEW f \in Required, NEW w, Introduces(lines, NameOf[f], w),
         w.shape \in Plausible[f]
  PROVE  Extract(lines)[f] = w /\ w # Nothing
<1>1. w # Nothing
  <2>1. w.tag = "text"
    BY Zenon DEF Introduces
  <2>2. Nothing.tag = "blank"
    BY Zenon DEF Nothing
  <2> QED
    BY <2>1, <2>2
<1>2. /\ Extract(lines)["amount"] = Amount(lines)
      /\ Extract(lines)["merchant"] = Merchant(lines)
      /\ Extract(lines)["transaction_date"] = TransactionDate(lines)
  BY DEF Extract, Fields
<1>3. CASE f = "amount"
  <2>1. Introduces(lines, "amount", w) /\ w.shape \in PricedShapes \cup {"number", "digits"}
    BY <1>3, FieldNames, Zenon
  <2>2. Amount(lines) = w
    BY <2>1, AmountIsRead
  <2> QED
    BY <1>1, <1>2, <1>3, <2>2, Zenon
<1>4. CASE f = "merchant"
  <2>1. Introduces(lines, "merchant", w) /\ w.shape = "words"
    BY <1>4, FieldNames, Zenon
  <2>2. Merchant(lines) = w
    BY <2>1, MerchantIsRead
  <2> QED
    BY <1>1, <1>2, <1>4, <2>2, Zenon
<1>5. CASE f = "transaction_date"
  <2>1. Introduces(lines, "transaction date", w) /\ w.shape \in DateShapes
    BY <1>5, FieldNames, Zenon
  <2>2. TransactionDate(lines) = w
    BY <2>1, DateIsRead, Zenon
  <2> QED
    BY <1>1, <1>2, <1>5, <2>2, Zenon
<1>6. f \in {"amount", "merchant", "transaction_date"}
  BY DEF Required
<1> QED
  BY <1>1, <1>3, <1>4, <1>5, <1>6, Zenon

(* A line of an envelope is as it was in the normalized text, and so in the  *)
(* block of a forward there.                                                 *)
LEMMA EnvelopeIsBlock ==
  ASSUME NEW lines \in Seq(Lines), NEW len \in Nat, len = Len(lines),
         NEW ss, NEW start, NEW new, Normalizes(lines, len, ss, start, new),
         NEW i \in Envelope(lines), NEW j \in 1 .. Len(ss[i]), NEW q, q = start[i] + j
  PROVE  InForwardBlock(new, q)
<1>1. DOMAIN lines = 1 .. len /\ i \in 1 .. len
  BY DEF Envelope
<1>2. PICK e \in 1 .. (i - 1) :
        /\ lines[e].tag = "marker"
        /\ \A k \in (e + 1) .. i :
             \/ lines[k].tag = "blank"
             \/ lines[k].tag = "field" /\ lines[k].name \in HeaderNames
  BY Zenon DEF Envelope
<1>3. e \in 1 .. len /\ e < i
  BY <1>1
<1>4. \A k \in (e + 1) .. i : Skippable(lines[k])
  BY <1>2 DEF Skippable, IsHeader
<1>5. ASSUME NEW k \in e .. i PROVE ss[k] = <<lines[k]>>
  <2>1. k \in 1 .. len
    BY <1>1
  <2>2. PICK l \in Lines : l = lines[k]
    BY <1>1, <2>1
  <2>3. k = e \/ k \in (e + 1) .. i
    BY <1>1
  <2>4. l.tag \in {"marker", "blank", "field"}
    BY <1>2, <2>2, <2>3
  <2>5. ~IsRow(l) /\ l.tag # "rule"
    BY <2>4 DEF IsRow
  <2>6. TableLines(l) = <<l>>
    BY <2>5, LinesOfTables
  <2>7. ss[k] = TableLines(lines[k])
    BY <2>1, Zenon DEF Normalizes
  <2> QED
    BY <2>2, <2>6, <2>7, Zenon
<1>6. Untouched(lines, ss, e, i)
  BY <1>5, Zenon DEF Untouched
<1>7. j = 1
  <2>1. i \in e .. i
    BY <1>1, <1>3
  <2>2. PICK t : t = <<lines[i]>>
    OBVIOUS
  <2>3. ss[i] = t /\ Len(t) = 1
    BY <1>5, <2>1, <2>2
  <2> QED
    BY <2>3
<1>8. PICK b : b = start[e] + 1
  OBVIOUS
<1>9. /\ b \in 1 .. (q - 1) /\ new[b] = lines[e]
      /\ \A r \in (b + 1) .. q : \E k \in (e + 1) .. i : new[r] = lines[k]
  <2>1. q = start[i] + 1
    BY <1>7
  <2> QED
    BY <1>1, <1>3, <1>6, <1>8, <2>1, BlockSurvives, SMTT(30)
<1>10. new[b].tag = "marker" /\ \A r \in (b + 1) .. q : Skippable(new[r])
  BY <1>2, <1>4, <1>9
<1> QED
  BY <1>9, <1>10, Zenon DEF InForwardBlock

LEMMA DateOutsideEnvelope ==
  ASSUME NEW lines \in Seq(Lines), NEW d, d # Nothing,
         d = TransactionDate(StripFooter(StripForwardHeaders(NormalizeTables(lines))))
  PROVE  \E i \in DOMAIN lines \ Envelope(lines) :
           lines[i].is = d.is /\ lines[i].shape \in DateShapes
<1>1. PICK len \in Nat : len = Len(lines) /\ DOMAIN lines = 1 .. len
  OBVIOUS
<1>2. PICK new : new = NormalizeTables(lines)
  OBVIOUS
<1>3. PICK ss, start : Normalizes(lines, len, ss, start, new)
  BY <1>1, <1>2, NormalizedStarts, Zenon
<1>4. new \in Seq(Lines)
  BY <1>3, Zenon DEF Normalizes, Starts
<1>5. PICK text : text = StripFooter(StripForwardHeaders(new))
  OBVIOUS
<1>6. /\ text \in Seq(Lines)
      /\ \A k \in DOMAIN text :
           \E q \in DOMAIN new : ~InForwardBlock(new, q) /\ text[k] = new[q]
  BY <1>4, <1>5, Survivor
<1>7. IsDated(text, d)
  BY <1>2, <1>5, <1>6, DateReadIsDated, Zenon
<1>8. PICK k \in DOMAIN text : text[k].is = d.is /\ text[k].shape = d.shape
  BY <1>7 DEF IsDated
<1>9. PICK q \in DOMAIN new : ~InForwardBlock(new, q) /\ text[k] = new[q]
  BY <1>6
<1>10. PICK i, j : Origin(len, ss, start, new, q, i, j)
  BY <1>3, OriginOf, Zenon
<1>11. /\ i \in 1 .. len /\ j \in 1 .. Len(ss[i]) /\ q = start[i] + j /\ new[q] = ss[i][j]
       /\ ss[i] = TableLines(lines[i])
  BY <1>3, <1>10, Zenon DEF Origin, Normalizes
<1>12. PICK l \in Lines : l = lines[i]
  BY <1>1, <1>11
<1>13. PICK v : v = new[q] /\ j \in 1 .. Len(TableLines(l)) /\ v = TableLines(l)[j]
  BY <1>11, <1>12, Zenon
<1>14. v.is = l.is /\ v.shape \in {l.shape, "none"}
  BY <1>13, SameValue, Zenon
<1>15. d.shape \in DateShapes
  BY <1>7 DEF IsDated
<1>16. l.is = d.is /\ l.shape \in DateShapes
  BY <1>8, <1>9, <1>13, <1>14, <1>15 DEF DateShapes
<1>17. i \notin Envelope(lines)
  BY <1>1, <1>3, <1>9, <1>11, EnvelopeIsBlock, Zenon
<1> QED
  BY <1>1, <1>11, <1>12, <1>16, <1>17

-----------------------------------------------------------------------------
(* Scores.                                                                   *)

LEMMA Confidences ==
  /\ Confidence["template"] = 97 /\ Confidence["regex"] = 75
  /\ Confidence["default"] = 60 /\ Confidence["none"] = 0
BY DEF Confidence

LEMMA Weights ==
  /\ Weight["amount"] = 35 /\ Weight["transaction_date"] = 20
  /\ Weight["merchant"] = 25 /\ Weight["currency"] = 10 /\ Weight["card_last4"] = 5
BY DEF Weight

(* How a field other than the currency was found, and the currency.          *)
LEMMA MethodOf ==
  ASSUME NEW g \in SUBSET Fields, NEW t \in SUBSET Fields
  PROVE  /\ \A f \in Fields \ {"currency"} :
              MethodsOf(g, t)[f] = IF f \in t THEN "template"
                                   ELSE IF f \in g THEN "regex" ELSE "none"
         /\ MethodsOf(g, t)["currency"] =
              IF "currency" \in t THEN "template"
              ELSE IF "currency" \in g THEN "regex"
              ELSE IF "amount" \in g \cup t THEN "default" ELSE "none"
<1>1. PICK found : found = Overlaid(g, t)
  OBVIOUS
<1>2. \A f \in Fields : found[f] = IF f \in t THEN "template"
                                  ELSE IF f \in g THEN "regex" ELSE "none"
  BY <1>1 DEF Overlaid
<1>3. found = [f \in Fields |-> found[f]]
  BY <1>1, Zenon DEF Overlaid
<1>4. MethodsOf(g, t) = IF found["amount"] # "none" /\ found["currency"] = "none"
                        THEN [found EXCEPT !["currency"] = "default"] ELSE found
  BY <1>1 DEF MethodsOf
<1>5. "currency" \in Fields /\ "amount" \in Fields
  BY DEF Fields
<1> QED
  BY <1>2, <1>3, <1>4, <1>5

(* A field that is found does better than one that is not, and best when the *)
(* template finds it.                                                        *)
LEMMA ConfidenceGrows ==
  ASSUME NEW g \in SUBSET Fields, NEW t \in SUBSET Fields,
         NEW g2 \in SUBSET Fields, NEW t2 \in SUBSET Fields, g \subseteq g2, t \subseteq t2,
         NEW f \in Fields
  PROVE  /\ Confidence[MethodsOf(g, t)[f]] \in 0 .. 97
         /\ Confidence[MethodsOf(g, t)[f]] <= Confidence[MethodsOf(g2, t2)[f]]
<1>1. CASE f # "currency"
  <2>1. /\ MethodsOf(g, t)[f] = IF f \in t THEN "template"
                                ELSE IF f \in g THEN "regex" ELSE "none"
        /\ MethodsOf(g2, t2)[f] = IF f \in t2 THEN "template"
                                  ELSE IF f \in g2 THEN "regex" ELSE "none"
    BY <1>1, MethodOf
  <2> QED
    BY <2>1, Confidences
<1>2. CASE f = "currency"
  <2>1. /\ MethodsOf(g, t)[f] = IF "currency" \in t THEN "template"
                                ELSE IF "currency" \in g THEN "regex"
                                ELSE IF "amount" \in g \cup t THEN "default" ELSE "none"
        /\ MethodsOf(g2, t2)[f] = IF "currency" \in t2 THEN "template"
                                  ELSE IF "currency" \in g2 THEN "regex"
                                  ELSE IF "amount" \in g2 \cup t2 THEN "default" ELSE "none"
    BY <1>2, MethodOf, Zenon
  <2> QED
    BY <2>1, Confidences
<1> QED
  BY <1>1, <1>2

LEMMA ScoreOf ==
  ASSUME NEW g \in SUBSET Fields, NEW t \in SUBSET Fields
  PROVE  LET part == [f \in Fields |-> Confidence[MethodsOf(g, t)[f]]]
         IN  /\ part \in [Fields -> 0 .. 97]
             /\ Score(MethodsOf(g, t)) =
                  35 * part["amount"] + 20 * part["transaction_date"]
                    + 25 * part["merchant"] + 10 * part["currency"] + 5 * part["card_last4"]
<1>1. \A f \in Fields : Confidence[MethodsOf(g, t)[f]] \in 0 .. 97
  BY ConfidenceGrows
<1>2. /\ "amount" \in Fields /\ "transaction_date" \in Fields /\ "merchant" \in Fields
      /\ "currency" \in Fields /\ "card_last4" \in Fields
  BY DEF Fields
<1> QED
  BY <1>1, <1>2, Weights DEF Score

LEMMA ScoreGrows ==
  ASSUME NEW g \in SUBSET Fields, NEW t \in SUBSET Fields,
         NEW g2 \in SUBSET Fields, NEW t2 \in SUBSET Fields, g \subseteq g2, t \subseteq t2
  PROVE  Score(MethodsOf(g2, t2)) >= Score(MethodsOf(g, t))
<1> DEFINE part == [f \in Fields |-> Confidence[MethodsOf(g, t)[f]]]
           part2 == [f \in Fields |-> Confidence[MethodsOf(g2, t2)[f]]]
<1>1. \A f \in Fields : part[f] <= part2[f]
  BY ConfidenceGrows
<1>2. /\ part \in [Fields -> 0 .. 97]
      /\ Score(MethodsOf(g, t)) =
           35 * part["amount"] + 20 * part["transaction_date"]
             + 25 * part["merchant"] + 10 * part["currency"] + 5 * part["card_last4"]
  BY ScoreOf, ZenonT(30)
<1>3. /\ part2 \in [Fields -> 0 .. 97]
      /\ Score(MethodsOf(g2, t2)) =
           35 * part2["amount"] + 20 * part2["transaction_date"]
             + 25 * part2["merchant"] + 10 * part2["currency"] + 5 * part2["card_last4"]
  BY ScoreOf, ZenonT(30)
<1> HIDE DEF part, part2
<1>4. PICK a, b, c, d, e : /\ a = part["amount"] /\ b = part["transaction_date"]
                           /\ c = part["merchant"] /\ d = part["currency"]
                           /\ e = part["card_last4"]
  BY Zenon
<1>5. PICK a2, b2, c2, d2, e2 :
        /\ a2 = part2["amount"] /\ b2 = part2["transaction_date"]
        /\ c2 = part2["merchant"] /\ d2 = part2["currency"] /\ e2 = part2["card_last4"]
  BY Zenon
<1>6. /\ a \in Nat /\ b \in Nat /\ c \in Nat /\ d \in Nat /\ e \in Nat
      /\ a2 \in Nat /\ b2 \in Nat /\ c2 \in Nat /\ d2 \in Nat /\ e2 \in Nat
      /\ a <= a2 /\ b <= b2 /\ c <= c2 /\ d <= d2 /\ e <= e2
  <2>1. \A f \in Fields : part[f] \in Nat /\ part2[f] \in Nat /\ part[f] <= part2[f]
    BY <1>1, <1>2, <1>3
  <2>2. /\ "amount" \in Fields /\ "transaction_date" \in Fields /\ "merchant" \in Fields
        /\ "currency" \in Fields /\ "card_last4" \in Fields
    BY DEF Fields
  <2> QED
    BY <1>4, <1>5, <2>1, <2>2, Zenon
<1>7. /\ Score(MethodsOf(g, t)) = 35 * a + 20 * b + 25 * c + 10 * d + 5 * e
      /\ Score(MethodsOf(g2, t2)) = 35 * a2 + 20 * b2 + 25 * c2 + 10 * d2 + 5 * e2
  BY <1>2, <1>3, <1>4, <1>5, Zenon
<1> QED
  BY <1>6, <1>7

(* No mix of methods reaches the high band without a template's amount.      *)
LEMMA HighNeedsAmount ==
  ASSUME NEW g \in SUBSET Fields, NEW t \in SUBSET Fields, "amount" \notin t
  PROVE  ~(Score(MethodsOf(g, t)) >= HighBand)
<1> DEFINE part == [f \in Fields |-> Confidence[MethodsOf(g, t)[f]]]
<1>1. part["amount"] \in 0 .. 75
  <2>1. "amount" \in Fields /\ "amount" \in Fields \ {"currency"}
    BY DEF Fields
  <2>2. MethodsOf(g, t)["amount"] = IF "amount" \in t THEN "template"
                                    ELSE IF "amount" \in g THEN "regex" ELSE "none"
    <3>1. \A f \in Fields \ {"currency"} :
            MethodsOf(g, t)[f] = IF f \in t THEN "template"
                                 ELSE IF f \in g THEN "regex" ELSE "none"
      BY MethodOf
    <3> QED
      BY <2>1, <3>1, Zenon
  <2> QED
    BY <2>1, <2>2, Confidences
<1>2. /\ part \in [Fields -> 0 .. 97]
      /\ Score(MethodsOf(g, t)) =
           35 * part["amount"] + 20 * part["transaction_date"]
             + 25 * part["merchant"] + 10 * part["currency"] + 5 * part["card_last4"]
  BY ScoreOf, ZenonT(30)
<1> HIDE DEF part
<1>3. PICK a, b, c, d, e : /\ a = part["amount"] /\ b = part["transaction_date"]
                           /\ c = part["merchant"] /\ d = part["currency"]
                           /\ e = part["card_last4"]
  BY Zenon
<1>4. a \in 0 .. 75 /\ b \in 0 .. 97 /\ c \in 0 .. 97 /\ d \in 0 .. 97 /\ e \in 0 .. 97
  BY <1>1, <1>2, <1>3 DEF Fields
<1>5. Score(MethodsOf(g, t)) = 35 * a + 20 * b + 25 * c + 10 * d + 5 * e
  BY <1>2, <1>3, Zenon
<1> QED
  BY <1>4, <1>5 DEF HighBand

-----------------------------------------------------------------------------
(* The outcome of an email.                                                  *)

(* The four ways in which processing ends.                                   *)
LEMMA Outcomes ==
  ASSUME NEW m
  PROVE  \/ Outcome(m) = Story(Resolve(m), NothingRead, "none", NoRow, "none")
         \/ Outcome(m) = Story(Resolve(m), NothingRead, "forwarding_verification",
                               NoRow, "forwarding.verification")
         \/ Outcome(m) = Story(Resolve(m), NothingRead, "non_financial", NoRow, "none")
         \/ Outcome(m) = Extracted(m, Resolve(m))
BY Zenon DEF Outcome

(* The row that is stored: a fingerprint only under an amount that fits.     *)
LEMMA RowStored ==
  ASSUME NEW m, NEW methods, m.oversized \in BOOLEAN
  PROVE  LET row == StoredRow(m, methods)
         IN  /\ row \in [status : {"pending_review", "extraction_failed"},
                         band : {"high", "low_confidence", "n/a"}, print : BOOLEAN]
             /\ row.print => row.status = "pending_review"
<1>1. /\ Route(methods).status \in {"pending_review", "extraction_failed"}
      /\ Route(methods).band \in {"high", "low_confidence", "n/a"}
      /\ "amount" \in Found(methods) => Route(methods).status = "pending_review"
  BY DEF Route
<1>2. StoredStatus(m, methods) \in {"pending_review", "extraction_failed"}
  BY <1>1 DEF StoredStatus
<1>3. StoredPrint(m, methods) \in BOOLEAN
  BY DEF StoredPrint, HasPrint
<1>4. ASSUME StoredPrint(m, methods)
      PROVE  StoredStatus(m, methods) = "pending_review"
  <2>1. "amount" \in Found(methods) /\ ~m.oversized
    BY <1>4 DEF StoredPrint, HasPrint, Required
  <2> QED
    BY <1>1, <2>1 DEF StoredStatus
<1> QED
  BY <1>1, <1>2, <1>3, <1>4 DEF StoredRow

(* What extraction stores agrees with itself.                                *)
LEMMA ExtractedAgrees ==
  ASSUME NEW m, NEW sender, m.oversized \in BOOLEAN
  PROVE  \E read, row :
           /\ row \in [status : {"pending_review", "extraction_failed"},
                       band : {"high", "low_confidence", "n/a"}, print : BOOLEAN]
           /\ row.print => row.status = "pending_review"
           /\ Extracted(m, sender) =
                IF row.status = "pending_review"
                THEN Story(sender, read, "processed", row, "extraction.created")
                ELSE Story(sender, read, "extraction_failed", row, "extraction.failed")
<1> DEFINE read == Read(m)
           row == StoredRow(m, Methods(m, read, sender.domain))
<1>1. /\ row \in [status : {"pending_review", "extraction_failed"},
                  band : {"high", "low_confidence", "n/a"}, print : BOOLEAN]
      /\ row.print => row.status = "pending_review"
  BY RowStored
<1>2. Extracted(m, sender) =
        IF row.status = "pending_review"
        THEN Story(sender, read, "processed", row, "extraction.created")
        ELSE Story(sender, read, "extraction_failed", row, "extraction.failed")
  BY Zenon DEF Extracted
<1> HIDE DEF read, row
<1> QED
  BY <1>1, <1>2, Zenon

(* The sender, the fields and the row of an outcome.                         *)
LEMMA OutcomeParts ==
  ASSUME NEW m, NEW o, o = Outcome(m)
  PROVE  /\ o.sender = Resolve(m)
         /\ \/ o.row = NoRow /\ o.read = NothingRead
            \/ /\ o.read = Read(m)
               /\ o.row = StoredRow(m, Methods(m, Read(m), Resolve(m).domain))
<1>1. CASE o = Extracted(m, Resolve(m))
  <2> DEFINE row == StoredRow(m, Methods(m, Read(m), Resolve(m).domain))
  <2>1. \/ o = Story(Resolve(m), Read(m), "processed", row, "extraction.created")
        \/ o = Story(Resolve(m), Read(m), "extraction_failed", row, "extraction.failed")
    BY <1>1, Zenon DEF Extracted
  <2> HIDE DEF row
  <2>2. o.sender = Resolve(m) /\ o.read = Read(m) /\ o.row = row
    BY <2>1 DEF Story
  <2> QED
    BY <2>2 DEF row
<1>2. CASE o # Extracted(m, Resolve(m))
  <2>1. o.sender = Resolve(m) /\ o.row = NoRow /\ o.read = NothingRead
    BY <1>2, Outcomes DEF Story
  <2> QED
    BY <2>1
<1> QED
  BY <1>1, <1>2

(* Where a sender comes from.                                                *)
LEMMA SenderSource ==
  ASSUME NEW m
  PROVE  Resolve(m).source \in {"raises", "dkim", "header", "body"}
BY DEF Resolve, HeaderSender

(* The email in hand and its outcome, once it has one.                       *)
Processed == mail \in Mails /\ outcome \in {Unread, Outcome(mail)}

LEMMA ProcessedAlways == Spec => []Processed
<1>1. Init => Processed
  BY PipelineAssumption DEF Init, Processed
<1>2. Processed /\ [Next]_vars => Processed'
  <2> SUFFICES ASSUME Processed, [Next]_vars PROVE Processed'
    OBVIOUS
  <2>1. CASE Process
    BY <2>1 DEF Process, Processed
  <2>2. CASE UNCHANGED vars
    BY <2>2 DEF Processed, vars
  <2> QED
    BY <2>1, <2>2 DEF Next
<1> QED
  BY <1>1, <1>2, PTL DEF Spec

-----------------------------------------------------------------------------
(* Theorems.                                                                 *)

(* Sender, email status, row and event have their types, whatever the email  *)
(* holds: persist_result never stores a status outside the lifecycle.        *)
THEOREM PipelineTypes == Spec => []TypeOK
<1>1. ASSUME Processed PROVE TypeOK
  <2>1. mail \in Mails /\ mail.oversized \in BOOLEAN
    BY <1>1 DEF Processed, Mails
  <2>2. Resolve(mail).source \in {"raises", "dkim", "header", "body"}
    BY SenderSource
  <2>3. CASE outcome = Unread
    BY <2>1, <2>3 DEF Unread, Story, NoRow, TypeOK
  <2>4. CASE outcome = Outcome(mail)
    <3>1. CASE outcome = Extracted(mail, Resolve(mail))
      BY <2>1, <2>2, <3>1, ExtractedAgrees DEF Story, TypeOK
    <3>2. CASE outcome # Extracted(mail, Resolve(mail))
      <4>1. PICK status \in {"none", "forwarding_verification", "non_financial"},
                 event \in {"none", "forwarding.verification"} :
              outcome = Story(Resolve(mail), NothingRead, status, NoRow, event)
        BY <2>4, <3>2, Outcomes
      <4> QED
        BY <2>1, <2>2, <4>1 DEF Story, NoRow, TypeOK
    <3> QED
      BY <3>1, <3>2
  <2> QED
    BY <1>1, <2>3, <2>4 DEF Processed
<1> QED
  BY <1>1, ProcessedAlways, PTL

(* The email, its row and its event agree for every email and every field    *)
(* found in it, also when the amount degrades while it is stored.            *)
THEOREM StoriesAgree == Spec => []StoryAgrees
<1>1. ASSUME Processed PROVE StoryAgrees
  <2>1. mail.oversized \in BOOLEAN
    BY <1>1 DEF Processed, Mails
  <2>2. CASE outcome = Unread
    BY <2>2 DEF Unread, Story, NoRow, StoryAgrees
  <2>3. CASE outcome = Outcome(mail)
    <3>1. CASE outcome = Extracted(mail, Resolve(mail))
      BY <2>1, <3>1, ExtractedAgrees DEF Story, StoryAgrees
    <3>2. CASE outcome # Extracted(mail, Resolve(mail))
      BY <2>3, <3>2, Outcomes DEF Story, NoRow, StoryAgrees
    <3> QED
      BY <3>1, <3>2
  <2> QED
    BY <1>1, <2>2, <2>3 DEF Processed
<1> QED
  BY <1>1, ProcessedAlways, PTL

(* Whatever hosts a forward quotes and whichever providers there are, it is  *)
(* booked to a provider only if every quoted sender is an account of one.    *)
THEOREM ForwardsUnwrapped == Spec => []ForwardUnwrapped
<1>1. ASSUME NEW m \in Mails, Resolve(m).domain \in Consumer,
             NEW lines \in {TextBody(m), HtmlBody(m)}, NEW i \in QuotedSenders(lines)
      PROVE  RegisteredDomain(QuotedHost(lines, i)) \in Consumer
  <2>1. m.parts \in Seq(Parts) /\ m.parts # <<>>
    BY DEF Mails
  <2>2. TextBody(m) \in Seq(Lines) /\ HtmlBody(m) \in Seq(Lines)
    BY <2>1, BodyIsLines DEF TextBody, HtmlBody
  <2>3. OriginalSender(m) \notin Consumer
    BY <2>2, FirstRealIsReal DEF OriginalSender
  <2>4. OriginalSender(m) = NoHost
    BY <1>1, <2>3, HostsAssumption DEF Resolve
  <2>5. FirstReal(TextBody(m)) = NoHost /\ FirstReal(HtmlBody(m)) = NoHost
    BY <2>4 DEF OriginalSender
  <2> QED
    BY <2>2, <2>5, FirstRealIsReal
<1>2. ASSUME Processed PROVE ForwardUnwrapped
  <2>1. mail \in Mails
    BY <1>2 DEF Processed
  <2>2. CASE outcome = Unread
    BY <2>2, HostsAssumption DEF Unread, Story, ForwardUnwrapped
  <2>3. CASE outcome = Outcome(mail)
    <3>1. outcome.sender = Resolve(mail)
      <4>1. CASE outcome = Extracted(mail, Resolve(mail))
        BY <4>1 DEF Extracted, Story
      <4>2. CASE outcome # Extracted(mail, Resolve(mail))
        BY <2>3, <4>2, Outcomes DEF Story
      <4> QED
        BY <4>1, <4>2
    <3> QED
      BY <1>1, <2>1, <3>1 DEF ForwardUnwrapped
  <2> QED
    BY <1>2, <2>2, <2>3 DEF Processed
<1> QED
  BY <1>2, ProcessedAlways, PTL

(* Whatever the suffixes of two labels are, the registrable domain of a host *)
(* is its own, that of its subdomains, and for a host below one of those     *)
(* suffixes not the suffix.                                                  *)
THEOREM DomainsHaveOneOwner == Spec => []OneOwner
<1>1. ASSUME NEW h \in Hosts \cup {NoHost}
      PROVE  LET d == RegisteredDomain(h)
             IN  /\ RegisteredDomain(d) = d
                 /\ Len(h) >= 3 => /\ d \notin MultiTld
                                   /\ RegisteredDomain(<<"mail">> \o h) = d
  <2> DEFINE S == STRING \cup {"mail"}
  <2>1. h \in Seq(STRING)
    <3>1. NoHost \in Seq(STRING)
      BY DEF NoHost
    <3> QED
      BY <3>1, HostsAssumption
  <2>2. h \in Seq(S)
    BY <2>1
  <2>3. "mail" \in S
    OBVIOUS
  <2> HIDE DEF S
  <2> QED
    BY <2>2, <2>3, DomainOfHost
<1>2. ASSUME Processed PROVE OneOwner
  <2>1. mail.dkim \in Hosts \cup {NoHost} /\ mail.from \in Hosts \cup {NoHost}
    BY <1>2 DEF Processed, Mails
  <2> QED
    BY <1>1, <2>1 DEF OneOwner
<1> QED
  BY <1>2, ProcessedAlways, PTL

(* Whatever the generic extractor finds and whichever fields a template      *)
(* fills: a row in the high band has its amount from the template of its     *)
(* sender, and a date and a merchant from somewhere (pipeline.py).           *)
THEOREM HighRowsAreTemplated == Spec => []HighMeansTemplate
<1>1. ASSUME NEW m \in Mails, NEW read, NEW d, NEW methods, methods = Methods(m, read, d),
             StoredRow(m, methods).status = "pending_review",
             StoredRow(m, methods).band = "high"
      PROVE  /\ d \in Templated /\ "amount" \in m.template
             /\ Required \subseteq m.template \cup Generic(read)
  <2>1. PICK g, t : /\ g = Generic(read) /\ t = IF d \in Templated THEN m.template ELSE {}
                    /\ methods = MethodsOf(g, t)
    BY <1>1, Zenon DEF Methods
  <2>2. g \in SUBSET Fields /\ t \in SUBSET Fields
    BY <2>1 DEF Generic, Mails
  <2>3. Route(methods).band = "high"
    BY <1>1 DEF StoredRow
  <2>4. Required \subseteq Found(methods) /\ Score(methods) >= HighBand
    BY <2>3, Zenon DEF Route
  <2>5. "amount" \in t
    BY <2>1, <2>2, <2>4, HighNeedsAmount
  <2>6. d \in Templated /\ t = m.template
    BY <2>1, <2>5
  <2>7. ASSUME NEW f \in Required PROVE f \in t \cup g
    <3>1. f \in Fields \ {"currency"} /\ methods[f] # "none"
      BY <2>4, <2>7 DEF Required, Found
    <3>2. methods[f] = IF f \in t THEN "template" ELSE IF f \in g THEN "regex" ELSE "none"
      BY <2>1, <2>2, <3>1, MethodOf
    <3> QED
      BY <3>1, <3>2
  <2> QED
    BY <2>1, <2>5, <2>6, <2>7
<1>2. ASSUME Processed PROVE HighMeansTemplate
  <2>1. CASE outcome = Unread
    BY <2>1 DEF Unread, Story, NoRow, HighMeansTemplate
  <2>2. CASE outcome = Outcome(mail)
    <3>1. CASE outcome.row = NoRow
      BY <3>1 DEF NoRow, HighMeansTemplate
    <3>2. CASE outcome.row # NoRow
      <4>1. /\ mail \in Mails /\ outcome.sender = Resolve(mail)
            /\ outcome.row = StoredRow(mail, Methods(mail, outcome.read, outcome.sender.domain))
        BY <1>2, <2>2, <3>2, OutcomeParts, Zenon DEF Processed
      <4> QED
        BY <1>1, <4>1, Zenon DEF HighMeansTemplate
    <3> QED
      BY <3>1, <3>2
  <2> QED
    BY <1>2, <2>1, <2>2 DEF Processed
<1> QED
  BY <1>2, ProcessedAlways, PTL

(* For every set of fields found and every template: one more field, found   *)
(* by either, never lowers the score (pipeline.py).                          *)
THEOREM MoreEvidenceCounts == Spec => []EvidenceAddsUp
<1>1. ASSUME Processed PROVE EvidenceAddsUp
  <2>1. mail.template \in SUBSET Fields
    BY <1>1 DEF Processed, Mails
  <2>2. PICK g, t : /\ g = Generic(outcome.read) /\ g \in SUBSET Fields
                    /\ t = mail.template /\ t \in SUBSET Fields
    BY <2>1 DEF Generic
  <2>3. ASSUME NEW f \in Fields
        PROVE  /\ Score(MethodsOf(g, t \cup {f})) >= Score(MethodsOf(g, t))
               /\ Score(MethodsOf(g \cup {f}, t)) >= Score(MethodsOf(g, t))
    <3>1. /\ t \cup {f} \in SUBSET Fields /\ t \subseteq t \cup {f}
          /\ g \cup {f} \in SUBSET Fields /\ g \subseteq g \cup {f}
      BY <2>2
    <3> QED
      BY <2>2, <3>1, ScoreGrows
  <2> QED
    BY <2>2, <2>3 DEF EvidenceAddsUp
<1> QED
  BY <1>1, ProcessedAlways, PTL

(* Whatever lines, tables, blank lines and forwards of forwards an email     *)
(* holds: what is read as its date is a value that stands outside of the     *)
(* headers of every forward (content_preparer.py, general_extractor.py).     *)
THEOREM EnvelopeDatesLose == Spec => []EnvelopeDateLoses
<1>1. ASSUME Processed PROVE EnvelopeDateLoses
  <2>1. PICK d : d = outcome.read["transaction_date"]
    OBVIOUS
  <2>2. CASE outcome.read = NothingRead
    <3>1. d = Nothing
      BY <2>1, <2>2 DEF NothingRead, Fields
    <3> QED
      BY <2>1, <3>1 DEF EnvelopeDateLoses
  <2>3. CASE outcome.read # NothingRead
    <3>1. outcome.read = Read(mail) /\ mail \in Mails
      <4>1. outcome = Outcome(mail)
        BY <1>1, <2>3 DEF Processed, Unread, Story
      <4> QED
        BY <1>1, <2>3, <4>1, OutcomeParts, Zenon DEF Processed
    <3>2. mail.parts \in Seq(Parts) /\ mail.parts # <<>>
      BY <3>1 DEF Mails
    <3>3. TextBody(mail) \in Seq(Lines) /\ HtmlBody(mail) \in Seq(Lines)
      BY <3>2, BodyIsLines DEF TextBody, HtmlBody
    <3>4. PICK lines \in {TextBody(mail), HtmlBody(mail)} :
            lines = Source(TextBody(mail), HtmlBody(mail))
      BY DEF Source
    <3>5. d = TransactionDate(StripFooter(StripForwardHeaders(NormalizeTables(lines))))
      <4>1. PICK text : text = StripFooter(StripForwardHeaders(NormalizeTables(lines)))
        OBVIOUS
      <4>2. Read(mail) = Extract(text)
        BY <3>4, <4>1, Zenon DEF Read, Prepare
      <4>3. Extract(text)["transaction_date"] = TransactionDate(text)
        BY DEF Extract, Fields
      <4> QED
        BY <2>1, <3>1, <4>1, <4>2, <4>3, Zenon
    <3>6. d # Nothing => \E i \in DOMAIN lines \ Envelope(lines) :
            lines[i].is = d.is /\ lines[i].shape \in DateShapes
      <4>1. lines \in Seq(Lines)
        BY <3>3
      <4> QED
        BY <3>5, <4>1, DateOutsideEnvelope
    <3> QED
      BY <2>1, <3>6, Zenon DEF EnvelopeDateLoses
  <2> QED
    BY <2>2, <2>3
<1> QED
  BY <1>1, ProcessedAlways, PTL

(* For every text, whatever stands around them and in whichever layout, part *)
(* or attachment: the amount, merchant and date that an alert names are the  *)
(* ones that are extracted (general_extractor.py).                           *)
THEOREM LabelsAlwaysWin == Spec => []LabelsWin
<1>1. ASSUME NEW m \in Mails, NEW f \in Required, NEW p \in Visible(m),
             \A q \in Visible(m) \ {p} : Stub(m, q), ~Stub(m, p),
             NEW given, given = Given(m.parts[p].lines, NameOf[f]), DOMAIN given # {},
             \A i \in DOMAIN given : given[i].shape \in Plausible[f]
      PROVE  f \in Generic(Read(m)) /\ Read(m)[f].is = given[Min(DOMAIN given)].is
  <2>1. PICK lines : lines = m.parts[p].lines
    OBVIOUS
  <2>2. lines \in Seq(Lines)
    <3>1. p \in DOMAIN m.parts /\ m.parts \in Seq(Parts)
      BY DEF Visible, Mails
    <3>2. m.parts[p] \in Parts
      BY <3>1
    <3> QED
      BY <2>1, <3>2 DEF Parts
  <2>3. lines = Source(TextBody(m), HtmlBody(m))
    BY <1>1, <2>1, PartIsSource
  <2>4. /\ NameOf[f] \in Given3 /\ NameOf[f] # "none" /\ NameOf[f] \notin HeaderNames
        /\ "none" \notin Plausible[f]
    <3>1. f = "amount" \/ f = "merchant" \/ f = "transaction_date"
      BY DEF Required
    <3>2. NameOf[f] \in Given3
      BY <3>1, FieldNames, Zenon DEF Given3
    <3>3. "none" \notin Given3 /\ Given3 \cap HeaderNames = {}
      BY DEF Given3, HeaderNames
    <3>4. \/ Plausible[f] = PricedShapes \cup {"number", "digits"}
          \/ Plausible[f] = {"words"} \/ Plausible[f] = DateShapes
      BY <3>1, FieldNames, Zenon
    <3> QED
      BY <3>2, <3>3, <3>4 DEF PricedShapes, DateShapes
  <2>5. PICK i, v :
          /\ i \in DOMAIN lines /\ v = given[Min(DOMAIN given)] /\ v.shape \in Plausible[f]
          /\ Writes(lines, i, NameOf[f], v)
    BY <1>1, <2>1, <2>2, <2>4, GivenIsWritten
  <2>6. PICK text, w :
          /\ text = StripFooter(StripForwardHeaders(NormalizeTables(lines)))
          /\ Introduces(text, NameOf[f], w) /\ w.is = v.is /\ w.shape = v.shape
    BY <2>2, <2>4, <2>5, WrittenIsIntroduced
  <2>7. Read(m) = Extract(text)
    BY <2>3, <2>6, Zenon DEF Read, Prepare
  <2>8. Extract(text)[f] = w /\ w # Nothing
    BY <2>5, <2>6, IntroducedIsRead
  <2> QED
    BY <2>5, <2>6, <2>7, <2>8 DEF Generic, Required, Fields
<1>2. ASSUME Processed PROVE LabelsWin
  <2>1. CASE outcome.row = NoRow
    BY <2>1 DEF LabelsWin
  <2>2. CASE outcome.row # NoRow
    <3>1. outcome = Outcome(mail)
      BY <1>2, <2>2 DEF Processed, Unread, Story
    <3>2. outcome.read = Read(mail) /\ mail \in Mails
      BY <1>2, <2>2, <3>1, OutcomeParts, Zenon DEF Processed
    <3>3. ASSUME NEW f \in Required, NEW p \in Visible(mail),
                 NEW given, given = Given(mail.parts[p].lines, NameOf[f]),
                 \A q \in Visible(mail) \ {p} : Stub(mail, q), ~Stub(mail, p),
                 DOMAIN given # {}, \A i \in DOMAIN given : given[i].shape \in Plausible[f]
          PROVE  /\ f \in Generic(outcome.read)
                 /\ outcome.read[f].is = given[Min(DOMAIN given)].is
      BY <1>1, <3>2, <3>3
    <3> QED
      BY <3>3, Zenon DEF LabelsWin
  <2> QED
    BY <2>1, <2>2
<1> QED
  BY <1>2, ProcessedAlways, PTL
=============================================================================
