SPECIFICATION Spec
CONSTANTS
  Hosts <- SomeHosts
  Values = {"transaction", "forward", "stray"}
  StubLen = 3
  MultiTld <- PublicSuffixes
  Consumer <- Providers
  Registry <- Banks
  Templated <- Banks
  Inputs <- SomeMails
INVARIANTS TypeOK StoryAgrees HighMeansTemplate EvidenceAddsUp ForwardUnwrapped OneOwner
INVARIANTS EnvelopeDateLoses LabelsWin
CHECK_DEADLOCK FALSE
