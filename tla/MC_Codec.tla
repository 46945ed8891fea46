------------------------------ MODULE MC_Codec ------------------------------
(***************************************************************************)
(* Checks the codec over a bounded set of packets.  The state is one       *)
(* packet, in the form the decoder builds (fields absent from the flags    *)
(* hold their defaults), and a cut point: the frame WritePacket makes of   *)
(* it is read whole, or cut short as a BLE write that lost its tail.       *)
(***************************************************************************)
EXTENDS Codec, Advertising, FiniteSets

CONSTANTS
  Types,         \* packet types of the packets checked
  PacketFlags,   \* values of the packet flags byte
  MessageFlags,  \* values of message_flags
  PeerIds,       \* sender peer ids (Fail: a peer id field not 16 long)
  Truncate       \* whether frames are also cut short

VARIABLES pkt, cut,
  adv_data   \* main.cpp's advertising data, as setup_advertisements leaves it
vars == <<pkt, cut, adv_data>>

\* message_flags with every optional field, isEncrypted clear.
PlainMessageFlags     == 0..127
\* Messages a relay hop handles differently from a fresh one: encrypted,
\* or with a sender peer id field.
RelayHopMessageFlags  == {128, 16}

Str(c) == <<c>>
Payloads == {<<>>, Str(97), <<120, 97>>}
Mentions == {<<>>, <<Str(109)>>, <<Str(109), Str(110)>>}

\* A message in the form processMessage builds for message_flags f.
Messages(f) ==
  {[mflags |-> f, mts |-> 5, id |-> Str(49), nick |-> Str(97),
    content |-> IF Bit(f, 128) THEN <<>> ELSE c,
    enc |-> IF Bit(f, 128) THEN c ELSE <<>>,
    orig |-> IF Bit(f, 4) THEN Str(111) ELSE <<>>,
    rnick |-> IF Bit(f, 8) THEN Str(114) ELSE <<>>,
    peer |-> IF Bit(f, 16) THEN id ELSE Fail,
    mentions |-> IF Bit(f, 32) THEN ms ELSE <<>>,
    channel |-> IF Bit(f, 64) THEN Str(35) ELSE <<>>] :
      c \in {<<>>, Str(104)}, id \in PeerIds, ms \in Mentions}

Bodies(t) == IF t = TMessage THEN UNION {Messages(mf) : mf \in MessageFlags} ELSE Payloads

Packets ==
  UNION {{[type |-> t, ttl |-> l, ts |-> 1000, flags |-> f, sender |-> 7,
           recipient |-> IF Bit(f, FRecipient) THEN 9 ELSE 0,
           sig |-> IF Bit(f, FSignature) THEN [i \in 1..SigLen |-> 115] ELSE <<>>,
           body |-> b] : l \in {1, 3}, f \in PacketFlags, b \in Bodies(t)} : t \in Types}

\* zlib's stored form: a header byte (0x78) then the bytes themselves.
MCInflate(b) == IF b # <<>> /\ Head(b) = 120 THEN Tail(b) ELSE Fail

Frame == WritePacket(pkt)
Received == SubSeq(Frame, 1, cut)

Init ==
  /\ pkt \in Packets
  /\ cut \in IF Truncate THEN 0..Len(WritePacket(pkt)) ELSE {Len(WritePacket(pkt))}
  /\ adv_data = PopulateAdvertisingData(ServiceName)

Next == UNCHANGED vars

Spec == Init /\ [][Next]_vars

\* The packet a relay hop should hand on: the same, one hop less.
Relayed(p) == [p EXCEPT !.ttl = (p.ttl - 1) % 256]

(***************************************************************************)
(* Properties.                                                             *)
(***************************************************************************)
\* spec.md: encoding a packet with writePacket and decoding it with
\* processWrite (and processMessage for a message) gives back every field
\* except the ttl, which is one lower.
RoundTrip == ParsePacket(Frame) = Relayed(pkt)

\* What processWrite stores for relay is the packet that was written, one
\* hop less: whatever the flags, the message fields or the frame's length,
\* the decoder either drops the frame or stores the packet that was sent.
\* A frame that lost its tail must not be stored as a different packet.
StoredAsSent ==
  Dispatch(ParsePacket(Received)) = "stored" => ParsePacket(Received) = Relayed(pkt)

\* A repeater recognises another repeater: check_for_uuid, applied to the
\* advertising data that populate_advertising_data builds from the build's
\* service name (adv_data), finds both the service UUID and the name, so the
\* advertiser's record isRepeater and is connectable before the clock is
\* synced (getConnectableNeighbours).
OwnAdvertRecognized == CheckForUuid(adv_data) = ServiceUUIDAndNameFound

====
