SPECIFICATION Spec
CONSTANTS
  r1 = r1  r2 = r2  r3 = r3  r4 = r4  r5 = r5
  Requests = {r1, r2, r3, r4, r5}
  Categories = {"Travel", "Transport"}
  NameOf <- Names
  CategoryOf <- Choices
  PatternOf <- Upper
  Threshold = 2
INVARIANTS IInv RulesEarned OneRulePerPattern
SYMMETRY Same
CHECK_DEADLOCK FALSE
