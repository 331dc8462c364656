CONSTANTS
  a1 = a1
  Account = {a1}
  Order = {o1, o2}
  OwnerOf <- OwnedByFirst
  Monthly = {o1, o2}
  Connection = {c1, c2}
  Job = {}
  Channels <- AppAndOne
  Month = 1
  LeadTime = 1
  MaxTime = 2
  MaxCrash = 1
SYMMETRY Alike
SPECIFICATION Spec
INVARIANTS
  TypeOK
  RenewsWhatWasPaid
PROPERTIES
  FirstFailureKept
