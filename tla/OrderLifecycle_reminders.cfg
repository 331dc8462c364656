CONSTANTS
  a1 = a1
  Account = {a1}
  Order = {o1, o2}
  OwnerOf <- OwnedByFirst
  Monthly = {o1, o2}
  Connection = {c1}
  Job = {j1, j2}
  Channels <- AppAndOne
  Month = 1
  LeadTime = 1
  MaxTime = 1
  MaxCrash = 1
SPECIFICATION FairSpec
INVARIANTS
  NoticesBacked
PROPERTIES
  DueIsMarked
