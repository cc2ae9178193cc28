SPECIFICATION Spec
CONSTANTS
  m1 = m1  m2 = m2  a1 = a1  u1 = u1  i1 = i1  e1 = e1  e2 = e2
  NoMessageId = NoMessageId
  NoTxn = NoTxn
  Messages = {m1}
  Aliases = {a1}
  Users = {u1}
  Deletions = {}
  MessageIds = {i1}
  AliasOf <- OneAlias
  MidOf <- ForwardedTwice
  UserOf <- SameUser
  DeletionOf <- SameUserAgain
  MaxAttempts = 2
  RateLimit = 0
INVARIANTS OrphanDeletionSafe
CHECK_DEADLOCK FALSE
