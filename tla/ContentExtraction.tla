------------------------- MODULE ContentExtraction -------------------------
(*****************************************************************************)
(* From the parts of a MIME message to the fields that the generic extractor *)
(* finds: choose the bodies, prepare the lines that are read (tables become  *)
(* label above value, the headers of a forward and the footers go) and look  *)
(* for labels first and for the shapes of values after that.  A line is      *)
(* abstracted to what the regular expressions tell apart.  Quote marks are   *)
(* left out: they are removed, and every pattern would skip them.            *)
(*****************************************************************************)
EXTENDS Integers, SequencesExt

CONSTANTS
  Hosts,            \* hosts that occur in headers and quoted From: lines
  Values,           \* identities of the values that lines carry
  StubLen           \* a text part with fewer lines is a stub (200 characters)

ASSUME StubAssumption == StubLen \in Nat \ {0}

NoHost == <<>>
Fields == {"amount", "transaction_date", "merchant", "currency", "card_last4"}

(* A field is "Name: value", a label "Name" alone on its line, a row         *)
(* "Name | value", a rule "---|---" and a text a value or prose on its own;  *)
(* prose has the name of a header if it begins with that word.  A line holds *)
(* one value at most: none is one that is missing.  Amounts have a currency  *)
(* symbol (money), a bare dollar sign or a currency code; a number has       *)
(* neither, digits are four of them, masked "**1234", suffix "ending in      *)
(* 1234"; a count is prose that begins with digits and a greeting is prose   *)
(* that cannot name a merchant.  2026-08-06 is iso, "Aug 6, 2026" spelled,   *)
(* 06/08/2026 slashed, and a worded date is one only where it is expected.   *)
Names == {"none", "amount", "merchant", "transaction date", "date", "card",
          "card number", "balance", "from", "subject"}
HeaderNames == {"from", "date", "subject"}
DateShapes == {"iso", "spelled", "slashed", "worded"}
PricedShapes == {"money", "dollar", "coded"}
Shapes == {"none", "number", "digits", "masked", "suffix", "count", "words", "greeting"}
            \cup DateShapes \cup PricedShapes
Lines ==
  {l \in [tag : {"blank", "marker", "field", "label", "row", "rule", "text", "footer"},
          name : Names, shape : Shapes, is : Values, host : Hosts \cup {NoHost}] :
     /\ \/ l.name = "none"
        \/ l.tag \in {"field", "label", "row"}
        \/ l.tag = "text" /\ l.name \in HeaderNames /\ l.shape # "none"
     /\ l.tag = "label" => l.shape = "none"}

Parts == [type : {"plain", "html", "other"}, attached : BOOLEAN,
          readable : BOOLEAN, lines : Seq(Lines)]

-----------------------------------------------------------------------------
(* mime_parser: of a multipart message the first part of the type that       *)
(* decodes, is no attachment and is not empty; a message that is not         *)
(* multipart is plain text unless it is HTML.                                *)

AnyOfType(part, type) == part.type = type /\ part.readable /\ part.lines # <<>>
Shown(part, type) == AnyOfType(part, type) /\ ~part.attached

BodyOfMany(parts, type) ==
  LET shown == {i \in DOMAIN parts : Shown(parts[i], type)}
  IN  IF shown = {} THEN <<>> ELSE parts[Min(shown)].lines

Body(multipart, parts, type) ==
  IF multipart THEN BodyOfMany(parts, type)
  ELSE IF parts[1].readable /\ (type = "html") = (parts[1].type = "html")
       THEN parts[1].lines ELSE <<>>

-----------------------------------------------------------------------------
(* content_preparer                                                          *)

(* A stub of a text part gives way to a longer HTML part.                    *)
Source(text, html) ==
  IF Len(text) < StubLen /\ Len(html) > Len(text) THEN html ELSE text

PassesThrough(l) == <<l>>
TableLines(l) ==
  IF l.tag = "rule" THEN <<>>
  ELSE IF l.tag = "row" /\ l.shape # "none"
       THEN <<[l EXCEPT !.tag = "label", !.shape = "none"],
              [l EXCEPT !.tag = "text", !.name = "none"]>>
       ELSE <<l>>
NormalizeTables(lines) == FlattenSeq([i \in DOMAIN lines |-> TableLines(lines[i])])

(* Lines of a forward block: those from its marker to the first line that is *)
(* neither blank nor a header; a label or the prose of the alert may pass    *)
(* for a header.                                                             *)
IsHeader(l) == l.name \in HeaderNames
OnlyHeaders(l) == IsHeader(l)
Skippable(l) == l.tag = "blank" \/ IsHeader(l)

InForwardBlock(lines, i) ==
  \E j \in 1 .. (i - 1) : /\ lines[j].tag = "marker"
                          /\ \A k \in (j + 1) .. i : Skippable(lines[k])

Keep(lines, kept) ==
  FlattenSeq([i \in DOMAIN lines |-> IF i \in kept THEN <<lines[i]>> ELSE <<>>])
StripForwardHeaders(lines) ==
  Keep(lines, {i \in DOMAIN lines : ~InForwardBlock(lines, i)})
StripFooter(lines) == Keep(lines, {i \in DOMAIN lines : lines[i].tag # "footer"})

Prepare(text, html) ==
  StripFooter(StripForwardHeaders(NormalizeTables(Source(text, html))))

-----------------------------------------------------------------------------
(* general_extractor; a value is the line, or part of a line, that holds it. *)

Labels(lines, name) ==
  {i \in DOMAIN lines : /\ lines[i].name = name
                        /\ \/ lines[i].tag = "field"
                           \/ lines[i].tag = "label" /\ i < Len(lines)}

(* The text that a label introduces: the rest of its line, or the next line, *)
(* whatever that is.                                                         *)
Labelled(lines, i) ==
  IF lines[i].tag = "field" THEN [lines[i] EXCEPT !.tag = "text", !.name = "none"]
  ELSE lines[i + 1]
Empty(v) == v.tag = "blank" \/ (v.tag = "text" /\ v.shape = "none")

(* The lines below line i that are not blank: white space that may span      *)
(* lines leads to the first of them.                                         *)
Below(lines, i) == {k \in DOMAIN lines : k > i /\ lines[k].tag # "blank"}

Nothing == [tag |-> "blank"]

(* The first line with a shape, and the first way that finds something: the  *)
(* patterns are tried one after the other, each of them on the whole text.   *)
ShapeFirst(lines, shapes) ==
  LET i == SelectInSeq(lines, LAMBDA l : l.shape \in shapes)
  IN  IF i = 0 THEN Nothing ELSE lines[i]
FirstWay(ways) ==
  LET i == SelectInSeq(ways, LAMBDA v : v # Nothing)
  IN  IF i = 0 THEN Nothing ELSE ways[i]

(* The first amount label, if its value has a currency or begins with digits *)
(* (which a date and a count do as well), and else the first money anywhere. *)
LabelledAmount(v) ==
  \/ v.shape \in PricedShapes
  \/ v.tag = "text" /\ v.shape \in {"number", "digits", "count", "iso", "slashed", "worded"}
MoneyFirst(lines) ==
  FirstWay(<<ShapeFirst(lines, {"money", "dollar"}), ShapeFirst(lines, {"coded"})>>)
Amount(lines) ==
  LET labels == Labels(lines, "amount")
      v == Labelled(lines, Min(labels))
  IN  IF labels # {} /\ LabelledAmount(v) THEN v ELSE MoneyFirst(lines)

(* A bare dollar sign leaves the currency open.                              *)
Currency(v) == IF v # Nothing /\ v.shape \in {"money", "coded"} THEN v ELSE Nothing

Filled(lines, name) == {i \in Labels(lines, name) : ~Empty(Labelled(lines, i))}

(* The value of a date label has six characters at least: a label below it   *)
(* that is shorter is no value of it.                                        *)
TooShort(v) == v.tag = "label" /\ v.name \in {"date", "from"}
IsDate(v) == v.tag = "text" /\ v.shape \in DateShapes
DateUnder(lines, name) ==
  LET labels == {i \in Filled(lines, name) : ~TooShort(Labelled(lines, i))}
      v == Labelled(lines, Min(labels))
  IN  IF labels # {} /\ IsDate(v) THEN v ELSE Nothing

(* A specific label before anything that looks like a date before "Date".    *)
TransactionDate(lines) ==
  FirstWay(<<DateUnder(lines, "transaction date"), ShapeFirst(lines, {"iso"}),
             ShapeFirst(lines, {"spelled"}), ShapeFirst(lines, {"slashed"}),
             DateUnder(lines, "date")>>)

(* A value that looks like a field, a number, money, a numeric date, a       *)
(* greeting or one of the labels in _LABEL_STOPWORDS, where "transaction     *)
(* date" and "card ending in" are missing.                                   *)
LooksWrong(v) ==
  \/ v.tag = "field"
  \/ v.tag = "label" /\ v.name \in {"amount", "date", "merchant", "card number"}
  \/ v.shape \in PricedShapes \cup {"number", "digits", "iso", "slashed", "greeting"}
Merchant(lines) ==
  LET labels == Filled(lines, "merchant")
      v == Labelled(lines, Min(labels))
  IN  IF labels = {} \/ LooksWrong(v) THEN Nothing ELSE v

(* The first card label that four digits follow, and else what looks like    *)
(* the end of a card number.                                                 *)
CardValue(lines, i) ==
  IF lines[i].tag = "field" /\ lines[i].shape # "none" THEN Labelled(lines, i)
  ELSE IF Below(lines, i) = {} THEN Nothing ELSE lines[Min(Below(lines, i))]
FourDigits(v) == v.tag = "text" /\ v.shape \in {"digits", "masked", "iso"}
Card(lines) ==
  LET labels == {i \in Labels(lines, "card") \cup Labels(lines, "card number") :
                   FourDigits(CardValue(lines, i))}
  IN  IF labels # {} THEN CardValue(lines, Min(labels))
      ELSE FirstWay(<<ShapeFirst(lines, {"suffix"}), ShapeFirst(lines, {"masked"})>>)

Extract(lines) ==
  [f \in Fields |->
     CASE f = "amount" -> Amount(lines)
       [] f = "currency" -> Currency(Amount(lines))
       [] f = "transaction_date" -> TransactionDate(lines)
       [] f = "merchant" -> Merchant(lines)
       [] f = "card_last4" -> Card(lines)]
=============================================================================
