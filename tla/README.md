# TLA+ models of bitchat-repeater

bitchat-repeater is firmware for a Pico W that relays bitchat mesh packets
between BLE links. The firmware plays both BLE roles. As a GATT server it
accepts links ("slave" role) and receives writes. As a GATT client it opens
links ("master" role) and receives notifications. This directory holds TLA+
models of its relay logic and the TLC runs that check them.

## The system and how its parts interact

- **main.cpp.** Holds the BTstack callbacks:
  - `hci_packet_handler`: connect and disconnect;
  - `att_packet_handler` and `att_write_callback`: packets that clients
    write to us;
  - `handle_gatt_client_event`: discovery of the bitchat characteristic;
  - the value-update handler: packets that servers notify to us.

  Its main loop runs `announceToConnections`, then `sendPackets`, then
  (every 10 minutes) `cleanupStaleItems`, then sleeps. BTstack runs every
  callback to completion on the same core as the loop, so each callback and
  each loop step is one atomic step.
- **Advertising.** At start-up `populate_advertising_data` builds the
  repeater's advertisement: flags, the bitchat service UUID and the name
  "Repeater". For every scanned advertising report, `check_for_uuid` finds
  whether it carries the service UUID (the device is added as a neighbour)
  and the name too (the neighbour is a repeater, so it is connectable
  before the clock is synced).
- **ProtocolProcessor.** `processWrite` decodes a frame and dispatches on its
  type:
  - announce: corrects the clock with `possiblyUpdateTimeOffset`, and
    updates the peer's max ttl and the handle-to-peer map;
  - message: stored and enqueued, with no ttl check;
  - other types, with ttl >= 1: stored and enqueued as pass-along packets.
- **BleConnectionTracker** holds the relay state:
  - connection records;
  - the dedup stores of messages and pass-along packets;
  - the sent marks `packets_connections_sent_list`;
  - the broadcast and targeted queues;
  - the clock offset;
  - the raw frame multimaps `raw_packet_to_notify` and `raw_packet_to_write`,
    which feed the link layer through shared can-send registrations.

## Modules

| Module | Models | State | Actions |
|---|---|---|---|
| `RelayTracker` | BleConnectionTracker's relay bookkeeping, `processWrite`'s dispatch, the callbacks of main.cpp that feed it, and the main loop | `conns` (connection records), `heap` (the packet objects, one slot per address), `stored` (dedup maps), `sentConn` (sent marks, each with a reference that is either a real address or a dead stack copy), `bcast`, `targeted`, `annTtl`/`annTs` (the own Announce), `peerTtl`, `handlePeer`, `offset`, `uptime`, `lastCleanup`, `loop`; `outbox` holds the frames queued by the current step | `ReportConnection`, `ReportDisconnection`, `CharacteristicFound`, `Receive` (three branches, one per packet kind), `AnnounceStep`, `SendStep`, `CleanupStep` |
| `SendQueue` | The link-layer send path: `SendPacketToConnection`, the two static `btstack_context_callback_registration_t`, `notifyRawPacket` and `writeRawPacket` | `up`, `role`, `raw` (per handle and direction, each frame abstracted to the link it was queued for: handle and link number), `reg` (context plus the links whose request lists hold it), `linkOf` (number of each handle's latest link), `misrouted` (a history variable) | `Connect`, `Disconnect`, `SendPacketToConnection`, `Callback`, `RawPacketBusy` |
| `Advertising` | `populate_advertising_data` and `check_for_uuid` (main.cpp), with the constants of BleConnection.h. BTstack's `ad_iterator`, which is not in the repository, is the environment `AdStructures`. A byte that `memcmp` reads past the report is taken to differ | none: pure operators | `PopulateAdvertisingData`, `AdStructures`, `CheckForUuid` |
| `Codec` | The wire codec: BinaryWriter (`write_uint*`, `hexify`, the hex writers), BinaryReader, `ProtocolWriter::writePacket` / `writeMessagePayload`, and the decoding half of `processWrite` with `processMessage` | none: pure operators | `WritePacket`, `WriteMessagePayload`, `ParsePacket`, `ProcessMessage`, `Dispatch` |
| `Neighbours` | Connection management: advertising reports into `available_neighbours`, the main loop's connect step (`connect_to_first_neighbour`, else closing a duplicate from `getAnyDuplicateHandle`), the connection complete and disconnection handlers, and GATT discovery in `handle_gatt_client_event` | tracker side: `avail`, `conns` (address, connected, service and characteristic found), `order` (records by `last_seen_time`), `handlePeer`, `synced`; main.cpp's flags `scanning`, `inProgress`, `discPrimary`, `discChars`, `backoff`; BTstack as environment: `link` per handle, the one pending LE connection `attempt`, the GATT query per handle `qry`, the handles being closed `closing` | `StartScan`, `StopScan`, `Advert`, `SyncClock`, `StartConnection`, `CloseDuplicate`, `Tick`, `OutgoingOpens`, `OutgoingFails`, `IncomingOpens`, `Disconnect`, `QueryResult`, `QueryComplete`, `ClientConfigWrite`, `Announce` |
| `LoopTimers` | The clock condition of the main loop's connect step: `disconnection_started_at < loopStart - two_seconds_in_us` in `uint32_t` arithmetic on `time_us_32()`, and the gap_disconnect of a duplicate that stamps it. `Neighbours` abstracts the same back-off to the flag `backoff` | `now` (`time_us_32()` at the loop pass, modulo 2^`ClockBits`), `disconnection_started_at`, `held` (how long the back-off has held the connect step in a row, capped) | `CloseDuplicate`, `Advance` (the loop's sleep until its next pass) |
| `LinkMailbox` | The abstract send path of spec.md (send-to-connection, and the mailbox of its modelling notes). `SendQueue` instantiates it as `Mailbox` | `open`, `role`, `queue` (FIFO per handle and direction), `pending` (mailbox Idle or Pending) | `Open`, `Close`, `Enqueue`, `Transmit`, `GoIdle` |
| `MC_RelayTracker`, `MC_SendQueue`, `MC_Neighbours`, `MC_LoopTimers` | Model values and role assignments for TLC | | |
| `MC_Codec` | A bounded set of packets, in the form the decoder builds, and a cut point; `WritePacket` makes the frame and `ParsePacket` reads it whole or cut short; `adv_data` is the advertising buffer as `setup_advertisements` leaves it | `pkt`, `cut`, `adv_data` | none (Init enumerates the inputs) |

The abstractions are these:

- **Packets.** A packet is a key, a ttl and a timestamp. Addresses are slot
  numbers, so pointer order (the `std::multimap` order of sent marks) is slot
  order. The own Announce lies at address 0.
- **Time.** One time unit stands for five minutes, so that five-minute windows
  and the ten-minute sweep period can be expressed.
- **Dangling pointers.** A read through a dangling pointer (a freed packet,
  or a stack copy) is undefined. In the model it is a nondeterministic choice
  of outcome: see `Undefined` and the `SUBSET` choice in `CleanupStaleItems`.
- **Frames.** `writePacket` is reduced to the ttl it writes, `ttl - 1` as a
  uint8.
- **Timestamps.** `getPacketTimestampMs` is modelled as what it computes,
  `timestamp / 1000`.
- **Bytes.** In `Codec` a byte is a number below 256 and a string is a sequence
  of bytes. A reader is a cursor `[buf, pos]`. A short read gives 0, or
  `Fail` for `read_data`, and leaves the cursor where it was, as the C++ does.
  Wide integers are written and read digit by digit. The packets checked use
  small field values because TLC's integers are 32-bit.
- **Inflation.** libdeflate is abstracted to zlib's stored form: a block
  inflates to its bytes after a header byte 0x78, and anything else fails.
- **Connection management.** A device is its address, and the peer id it
  announces is that address. The two-second back-off after `gap_disconnect`
  is a flag that `Tick` clears. BTstack refuses a GATT query on a handle with
  no link; the error is ignored by the code, so the model starts no query. A
  failed connection attempt still raises the connection complete event, with
  a handle the model chooses freely.
- **Undefined reads.** A read through a null `Peer*` gives the id `NullPeerId`.
  A `memcpy` of a short signature from nullptr gives the signature `NullSig`.

## Runs

| Run | Expect | Checks | What it shows |
|---|---|---|---|
| rt_relay | pass | `TypeOK`, `PeerMapConnected`, `NoEchoToWriter`, `NoWrappedTtl` | One acceptor and one initiator handle, with a reconnect, a message, a peer announce, a pass-along packet, ttls 0 and 1, clock sync and sweeps. The peer map names only connected links. A packet written by a client is never queued back to that client, even when notified packets are marked through dead stack copies. No queued frame carries ttl 255 (ttl 0 written as ttl - 1). |
| sq_single | pass | `QueuedFramesDrain`, `MailboxRefined` | With one handle, every frame queued for an open link with a request pending is eventually handed to the link layer. The send path also refines `LinkMailbox`, under the mapping: `open` is `up`, `queue` is `raw`, and a mailbox is pending when its link's request list holds the direction's registration. So frames leave in FIFO order, only through the callback of an open link whose role uses that direction; the callback re-arms while frames remain; and every armed mailbox is served. |
| rt_fanout | violation | `FanOutComplete` | The broadcast scan reads marks of other packets. |
| rt_notify_echo | violation | `NoEchoToSource` | The notification path marks through a stack copy, so a packet can be echoed to the server that sent it. |
| rt_announce_mark | violation | `DisconnectClearsAnnounce` | Announce marks survive a disconnect, so a new link on the handle is never announced to. |
| rt_eviction | violation | `FreshStoresRetained` | The sweep compares seconds with milliseconds, so fresh packets are evicted. |
| sq_stranded | violation | `QueuedFramesDrain` | The shared registration strands a frame of an open link. |
| sq_misroute | violation | `FramesGoToOwnLink` | A frame goes out on a link it was not queued for. TLC's trace: the lower-bound lookup sends another handle's frame. With `NH = 1` the property fails another way: frames queued for a closed link (never erased, and still queued by targeted sends) go out on the next link of the same handle. |
| codec_roundtrip | pass | `RoundTrip` | Announces, messages with every combination of the seven unencrypted `message_flags` bits, and pass-along packets, with and without a recipient: `writePacket` then `processWrite` gives back every field, with the ttl one lower (spec.md's round-trip requirement). `OwnAdvertRecognized`: `check_for_uuid` classifies the advertisement that `populate_advertising_data` builds as `ServiceUUIDAndNameFound`. The 8-byte name exactly fills the 31 bytes, so a budget one byte short would make it a shortened name that never matches. |
| codec_relay_hop | violation | `StoredAsSent` | What `processWrite` stores for relay is not always the packet that was written. This holds for signed packets, compressed packets, encrypted messages, messages whose peer id field is not 16 characters, and frames cut inside their header (the missing fields are read as 0, so a 3-byte frame becomes an announce with timestamp 0). Each class breaks the property on its own when `PacketFlags`, `MessageFlags`, `PeerIds` and `Truncate` are narrowed to it. |
| lt_backoff | violation | `BackoffLastsTwoSeconds` | The back-off after closing a duplicate link is not two seconds. TLC's trace, on a 16-unit clock with a two-unit back-off: a duplicate is closed at 14, the clock wraps, and at 2 the connect step is still held because 14 < 2 - 2 = 0 is false. It stays held until the clock passes 14 again, which in the build is up to 71 minutes. The wrap-safe form `(loopStart - disconnection_started_at) > two_seconds_in_us`, which the loop uses for its other timers, passes the same model for clock widths 4 and 5. |
| nb_connect | violation | `NeighboursConnected` | Once disturbances (link losses, incoming links, failed attempts) stop, a public repeater that keeps advertising is not always linked again. TLC's trace: a link is lost after its service query result and before `GATT_EVENT_QUERY_COMPLETE`. The handler then sets `discover_characteristics_for_service` for a query BTstack refuses, and the flag blocks the connect step for good. Two further causes show when the model is narrowed. With no disturbance at all, a linked repeater first in address order starves the second, because `connect_to_first_neighbour` tries only the first. With one address and only failed attempts, a failed connection is recorded as a link whose discovery never ends. |

Each finding is described, with its source line, in `PROJECT.json`.

## Bounds

The bounds of the relay runs are two handles and a single key of each kind.
rt_relay has one heap slot, opens at most two links and runs for one uptime
unit; the clock still moves through the offsets that peer announces set. Its
ttls 0 and 1 make ttl 0 reach the relay path. The violation runs that need
two live packets (rt_fanout's address order) have two heap slots.

They are large enough for every behaviour the properties are about:

- a reconnect on the same handle;
- two packets whose addresses are ordered;
- a packet that outlives its source's link;
- a sweep before and after clock sync.

`W = 2` units is the five-minute eviction window of ten minutes of sweeps;
`BuildTime = 10` and `Epoch = 10000` separate "synced" from "not synced"
offsets.

MC_Codec checks:

- packet types announce, message and fragment;
- ttl 1 and 3;
- every value of `message_flags` below 128;
- two peer ids, one of which has hex letters;
- no, one or two mentions;
- empty and one-byte strings;
- with truncation, every cut point of every frame.

Each optional field is then both present and absent, and each field's length
prefix is exercised at 0 and 1.

NB_connect has two addresses, both public repeaters with the
characteristic, and two handles. Two are needed for a duplicate link and for
one neighbour to stand before another.

SendQueue runs with up to three sends and three links. Three is the smallest
number that lets a frame be queued behind a context overwritten by another
handle.

LT_backoff runs `LoopTimers` on a 4-bit clock (`ClockBits = 4`), with a
two-unit back-off and loop passes 1 or 2 units apart. TLC's integers cannot
hold 2^32. The comparison's outcome depends only on arithmetic modulo the
width and on where the stamp lies relative to the wrap, so every case of
the 32-bit clock has a scaled counterpart:

- a stamp well inside the period;
- a stamp within two seconds before the wrap;
- a stamp within two seconds after it.

Passes at most two seconds apart keep the loop from stepping over the
back-off. The loop in fact passes every 40 ms, or sooner after a wake-up.

## Fairness and deadlock

- **RelayTracker** has no fairness. Its properties are safety properties
  (invariants and action properties).
- **SendQueue** assumes weak fairness of each can-send callback: BTstack fires
  a pending request once the controller has buffer space. A busy answer
  (`RawPacketBusy`) can recur, so it gets no fairness.
  `LinkMailbox` asks for weak fairness of serving each mailbox. The
  refinement check shows that the callbacks' fairness provides it when
  there is one handle.
- **Neighbours** assumes the following fairness:
  - strong fairness of the connect step and of closing a duplicate. The loop
    checks them every few milliseconds, while a scan, which disables them,
    restarts only every ten minutes.
  - weak fairness of starting and stopping a scan, of `Tick`, and of each
    GATT query result and completion. BTstack delivers these.
  - weak fairness of the disconnection of a handle being closed.
  - strong fairness of a pending connection opening, and of each public
    repeater's advertisement while scans recur.

  Link losses, incoming links and failed attempts get no fairness. The
  property asks for links only after they stop (`<>[][~Disturbance]_vars`).
- **Deadlock checking** is off in the SendQueue cfgs. The bounded environment
  runs out of sends and links, and the device then idles, which is correct
  behaviour, not a deadlock.

## Not modelled (yet)

- **`sendPackets` drops broadcast entries after one pass.** spec.md:77
  instead keeps them queued until eviction. This divergence is listed as a
  hazard, not checked, because a retention property fails at the first send
  step of any run.
- **The codec's data classes.** The accessors of Message, Announce and
  PacketPassAlong are the record fields in `Codec`. The PacketPassAlong hash
  is abstracted to the dedup key of `RelayTracker`.
- **Advertisements of other devices.** `check_for_uuid` is checked only on
  the repeater's own advertisement. The phone clients' advertisements are not
  in the repository. Its last-structure-wins assignment of `found_uuid` is
  listed as a hazard.
- **Parts of connection management:** RSSI polling (`requestNextRssi`: it
  only reads signal strength; its static iterator is listed as a hazard), the
  MTU event, and the sweep of `available_neighbours`. `Neighbours` keeps its
  back-off as a flag: a wrapping clock in its liveness run would multiply
  its state space. `LoopTimers` checks the clock part on its own.
  `Neighbours` and `RelayTracker` are not composed.
- **The main loop's other timers** (announce, scan, RSSI, cleanup, LED,
  sleep). They use the wrap-safe `(loopStart - last) > period`. The first
  cleanup runs at the first pass, not after the 15 minutes the comment at
  main.cpp:949 intends. `RelayTracker` models that wrap (`CleanupDue`), and
  `FreshStoresRetained` covers the sweep it starts.
- **Logging and the LED pin handling**: they hold no relay state.
- **`packets_peers_sent_list`**: written and swept but never read. The
  sender-peer exclusion that spec.md describes is therefore absent from the
  code; it is recorded as a hazard.
- **The joint model.** RelayTracker's `outbox` and SendQueue's `raw` are not
  composed into one model. Doing so is planned, together with an abstract
  relay specification that the detailed modules refine.
