SPECIFICATION FairSpec
CONSTANTS
  e1 = e1  e2 = e2  e3 = e3  e4 = e4  k1 = k1  k2 = k2  p1 = p1  p2 = p2
  NoKey = NoKey
  NoEvent = NoEvent
  Events = {e1, e3}
  Keys = {k1, k2}
  KeyOf <- Owners
  Pollers = {p1}
  MaxAttempts = 2
  Backoff <- ShortBackoff
  Batch = 1
  NoConfigRetry = 1
  PollInterval = 1
  MaxPost = 1
  Horizon = 6
  MaxCrashes = 1
  MaxSecrets = 2
PROPERTIES EventsSettle

