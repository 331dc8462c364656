CONSTANTS
  Session = {s1, s2}
  h1 = h1
  Host = {h1}
  HostOf <- OneHost
  Ticket = {t1, t2}
  HeartbeatId = {i1, i2}
  GrantCount = 2
  FreeGrant = 1
  Size <- Growing
  MaxBytes = 2
  Bytes = {2}
  Worker = {w1, w2}
  Pump = {p1, p2}
  Reserve = 0
SPECIFICATION Spec
SYMMETRY Symmetry
INVARIANTS
  TypeOK
  OverdrawBound
  ChargedWithinReported
PROPERTIES
  ChargeOnlyWhileActive
  PaidInFull
