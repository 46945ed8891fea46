CONSTANTS
  Fail = Fail
  SigLen = 64
  NullPeerId = 3
  Inflate <- MCInflate
  Types = {1, 4, 5}
  PacketFlags = {0, 1}
  MessageFlags <- PlainMessageFlags
  PeerIds = {171, 4660}
  Truncate = FALSE
SPECIFICATION Spec
INVARIANTS RoundTrip OwnAdvertRecognized
