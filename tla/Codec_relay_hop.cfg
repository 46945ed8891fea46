CONSTANTS
  Fail = Fail
  SigLen = 64
  NullPeerId = 3
  Inflate <- MCInflate
  Types = {1, 4, 5}
  PacketFlags = {0, 2, 4}
  MessageFlags <- RelayHopMessageFlags
  PeerIds = {171, Fail}
  Truncate = TRUE
SPECIFICATION Spec
INVARIANT StoredAsSent
