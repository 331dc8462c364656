CONSTANTS
  a1 = a1
  Account = {a1}
  Order = {o1}
  OwnerOf <- OwnedByFirst
  Monthly = {o1}
  Connection = {c1}
  Job = {j1}
  Channels <- AppAndOne
  Month = 2
  LeadTime = 1
  MaxTime = 1
  MaxCrash = 1
SPECIFICATION FairSpec
PROPERTIES
  OpenedIsServed
