SPECIFICATION FairSpec
CONSTANTS
  e1 = e1  e2 = e2  e3 = e3  u1 = u1  l1 = l1  l2 = l2
  Emails = {e1, e2}
  Users = {u1}
  UserOf <- OneUser
  Stuck = {e1}
  Loops = {l1, l2}
  PurgeBatch = 1
  MaxDrainBatches = 2
  MaxFaults = 1
INVARIANTS IInv KeyOutlivesObject AuditTrail
PROPERTIES ImplementsErasure OverduePurged
