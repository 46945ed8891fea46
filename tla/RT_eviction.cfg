CONSTANTS
  m1 = m1
  a1 = a1
  p1 = p1
  s1 = s1
  None = None
  NH = 1
  MaxLinks = 1
  Roles <- MCAcceptors
  Ttls = {1}
  MsgKeys = {m1}
  AnnKeys = {a1}
  PassKeys = {}
  Senders = {s1}
  SenderOf <- MCSenderOf
  NS = 2
  Delays = {0}
  W = 2
  Thr = 1
  Epoch = 10000
  BuildTime = 10
  MaxUptime = 1
SPECIFICATION Spec
PROPERTY FreshStoresRetained
