SPECIFICATION Spec
CONSTANTS
  x1 = x1  x2 = x2  r1 = r1  r2 = r2  r3 = r3  a1 = a1  a2 = a2  f1 = f1
  Extractions = {x1, x2}
  AliasOf <- TwoAliases
  Prints = {f1}
  NoPrint = NoPrint
  Requests = {r1, r2}
  Ingest = Ingest
INVARIANTS NoStaleBadge
CHECK_DEADLOCK FALSE
