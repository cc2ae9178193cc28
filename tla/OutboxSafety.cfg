SPECIFICATION Spec
CONSTANTS
  e1 = e1  e2 = e2  e3 = e3  e4 = e4  k1 = k1  k2 = k2  p1 = p1  p2 = p2
  NoKey = NoKey
  NoEvent = NoEvent
  Events = {e1, e3}
  Keys = {k1, k2}
  KeyOf <- Owners
  Pollers = {p1, p2}
  MaxAttempts = 2
  Backoff <- ShortBackoff
  Batch = 2
  NoConfigRetry = 1
  PollInterval = 1
  MaxPost = 0
  Horizon = 2
  MaxCrashes = 1
  MaxSecrets = 2
INVARIANTS IInv TypeOK PostsAreCounted RoutedToOwner OutcomeEarned
PROPERTIES ImplementsAtLeastOnce
SYMMETRY Redeploy
