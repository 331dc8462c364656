CONSTANTS
  Session = {s1}
  h1 = h1
  Host = {h1}
  HostOf <- OneHost
  Ticket = {t1, t2, t3, t4}
  HeartbeatId = {i1, i2, i3}
  GrantCount = 1
  FreeGrant = 1
  Size <- Ample
  MaxBytes = 1
  Bytes = {1}
  Worker = {w1, w2}
  Pump = {p1, p2}
  Reserve = 2
SPECIFICATION FairSpec
INVARIANTS
  OneLiveTicket
PROPERTIES
  MeteredAsPromised
  StoppedRelayEnds
  SurplusRelayEnds
