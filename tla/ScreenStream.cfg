CONSTANTS
  p1 = p1
  p2 = p2
  Picture = {p1, p2}
  HashOf <- MCHashOf
  None = None
  Wrong = Wrong
  Backend = {"mf", "deaf"}
  Grabber = {"dxgi"}
  Period = 2
  MaxWire = 1
SPECIFICATION FairSpec
INVARIANTS
  TypeOK
  RelayIntact
PROPERTIES
  RestingScreenIsShown
  DamageHeals
