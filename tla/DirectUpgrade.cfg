CONSTANTS
  Path = {p1, p2}
  NoPath = NoPath
SPECIFICATION Spec
INVARIANTS
  TypeOK
  LinksAgree
PROPERTIES
  MovesAsPromised
CHECK_DEADLOCK FALSE
