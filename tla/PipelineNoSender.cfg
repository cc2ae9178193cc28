SPECIFICATION Spec
CONSTANTS
  Hosts <- SomeHosts
  Values = {"transaction", "forward", "stray"}
  StubLen = 3
  MultiTld <- PublicSuffixes
  Consumer <- Providers
  Registry <- Banks
  Templated <- Banks
  Inputs <- SomeMails
INVARIANTS QuotedSenderFound
CHECK_DEADLOCK FALSE
