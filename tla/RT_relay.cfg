CONSTANTS
  m1 = m1
  a1 = a1
  p1 = p1
  s1 = s1
  None = None
  NH = 2
  MaxLinks = 2
  Roles <- MCMixed
  Ttls = {0, 1}
  MsgKeys = {m1}
  AnnKeys = {a1}
  PassKeys = {p1}
  Senders = {s1}
  SenderOf <- MCSenderOf
  NS = 1
  Delays = {0}
  W = 2
  Thr = 1
  Epoch = 10000
  BuildTime = 10
  MaxUptime = 1
SPECIFICATION Spec
INVARIANTS TypeOK PeerMapConnected NoEchoToWriter NoWrappedTtl
