CONSTANTS
  Side = {a, b, c, d}
  Ticket = {t1, t2}
SPECIFICATION FairSpec
INVARIANTS
  TypeOK
  TwoSidesMeet
PROPERTIES
  MeetsAsPromised
  NoSideHangs
CHECK_DEADLOCK FALSE
