CONSTANTS
  a1 = a1
  a2 = a2
  h1 = h1
  Account = {a1, a2}
  Host = {h1, h2}
  OwnerOf <- OneHostEach
  Tended = {h1}
  Fingerprint = {f1}
  Session = {s1, s2}
  Ticket = {t1}
  Code = {k1}
  CodeOwner <- IssuedByFirst
  Connection = {c1, c2}
  ChannelLimit = 1
  SessionsPerChannel = 1
SPECIFICATION FairSpec
INVARIANTS
  TypeOK
  WithinLimits
  NobodyUninvited
  OneSessionPerCode
  HandedOnce
PROPERTIES
  RequestsAnswered
