---------------------------- MODULE RelayTracker ----------------------------
(***************************************************************************)
(* The flood-relay engine of the bitchat repeater: BleConnectionTracker    *)
(* (src/BLE/BleConnectionTracker.cpp) driven by the packet dispatch of     *)
(* ProtocolProcessor::processWrite and by the main loop of src/main.cpp.   *)
(*                                                                         *)
(* Each BTstack callback (connect, disconnect, characteristic discovered,  *)
(* a packet written or notified, a can-send-now callback) is one atomic    *)
(* action; the main loop is a process whose steps (announce, send,         *)
(* cleanup and sleep) interleave with them.                               *)
(*                                                                         *)
(* Data is abstracted to what the properties tell apart: a packet is its  *)
(* dedup key (message id or pass-along hash), its ttl and its timestamp;   *)
(* a serialized frame is its key and its wire ttl.  Stored packets live in *)
(* heap slots whose numbers stand for their addresses, because the code    *)
(* keys its sent-bookkeeping by packet pointer and orders it by address.   *)
(*                                                                         *)
(* Time is counted in units of five minutes: W is the ten minute retention *)
(* window, Thr the five minute MESSAGE_TIMEOUT, Epoch the network time at  *)
(* boot.  The local counter (uptime) and the learned offset are kept apart *)
(* because the code compares values taken from each.                      *)
(***************************************************************************)
EXTENDS Integers, Sequences, FiniteSets, SequencesExt

CONSTANTS
  NH,          \* number of connection handles; handles are 1..NH in map order
  NS,          \* number of heap slots for stored packets (bound on the store)
  MsgKeys,     \* message ids of chat messages (type_message)
  AnnKeys,     \* pass-along hashes of peer announces (type_announce)
  PassKeys,    \* pass-along hashes of the other relayable types
  Senders,     \* peer (sender) ids
  SenderOf,    \* [Keys -> Senders]: the sender id in each packet's header
  Ttls,        \* the ttls a received copy may carry
  Delays,      \* ages (in units) a packet may have when it first arrives
  W,           \* ten_minutes_in_ms: the retention window
  Thr,         \* MESSAGE_TIMEOUT: the clock-correction threshold
  Epoch,       \* network wall-clock time at boot
  BuildTime,   \* build_time_ms: the "clock has been synced" threshold
  MaxUptime,   \* bound on the local counter
  MaxLinks,    \* bound on the number of links the environment reports
  Roles,       \* [Handles -> SUBSET {"slave", "master"}]: roles a link on h may have
  None         \* model value: no handle / no slot / no peer

Keys    == MsgKeys \cup AnnKeys \cup PassKeys
Handles == 1..NH
Slots   == 1..NS
Ann     == 0          \* address of the tracker's own Announce member
SelfKey == "self"     \* the key the own announce frames carry

ASSUME /\ NH \in Nat \ {0} /\ NS \in Nat \ {0}
       /\ SenderOf \in [Keys -> Senders]
       /\ W > Thr /\ Epoch \div 1000 + W >= MaxUptime /\ BuildTime <= Epoch

VARIABLES
  conns,       \* connections: handle -> record, or None when not in the map
  heap,        \* slot -> the packet object last constructed there
  stored,      \* messages/packets maps: key -> slot, or None
  sentConn,    \* packets_connections_sent_list: set of <<pointer, conn ref>>
  bcast,       \* broadcast_packets_to_send_list: sequence of pointers
  targeted,    \* targeted_packets_to_send_list: handles the announce is queued to
  annTtl,      \* announce.ttl (0 until setupAnnounceIfNeeded, then 3)
  annTs,       \* announce.timestamp
  outbox,      \* the frames SendPacketToConnection queued in this step: <<h, frame>>
  peerTtl,     \* Peer::max_ttl per sender id (0 for a peer not yet seen)
  handlePeer,  \* handle_peer_map: handle -> sender id, or None
  offset,      \* timestamp_offset_ms
  uptime,      \* time_us_64(), the uncorrected local counter
  lastCleanup, \* lastCleanup of the main loop
  loop,        \* the main loop's next step
  netTs,       \* environment: the timestamp each logical packet was created with
  links        \* environment: number of links reported so far

trackerVars == <<conns, heap, stored, sentConn, bcast, targeted, annTtl, annTs,
                 outbox, peerTtl, handlePeer>>
clockVars   == <<offset, uptime, lastCleanup, loop>>
envVars     == <<netTs, links>>
vars        == <<trackerVars, clockVars, envVars>>

(***************************************************************************)
(* Records and references.                                                 *)
(***************************************************************************)
\* A fresh BleConnection as operator[] default-constructs it.
DefaultConn == [connected |-> FALSE, usable |-> FALSE, role |-> "invalid", seen |-> 0]

\* A reference to a connection record.  A reference to the stored record
\* reads its handle; one to a stack copy that has gone out of scope reads
\* whatever the stack holds by then (undefined behaviour), fixed per entry.
Ref(h)           == [h |-> h, valid |-> TRUE]
StackRef(h, ok)  == [h |-> h, valid |-> ok]
RefHandle(r)     == IF r.valid THEN r.h ELSE None

Addr(p) == p          \* Ann = 0 lies below every heap slot

Now == offset + uptime                                     \* getTimeMs()
Live == {stored[k] : k \in {k2 \in Keys : stored[k2] # None}}
Synced == offset >= BuildTime \/ offset < 0   \* unsigned compare of uint64 offset


Connected(h) == conns[h] # None /\ conns[h].connected
Available(h) == Connected(h) /\ conns[h].usable

KeyOf(p) == IF p = Ann THEN SelfKey ELSE heap[p].key
TtlOf(p) == IF p = Ann THEN annTtl ELSE heap[p].ttl
TsOf(p)  == IF p = Ann THEN annTs ELSE heap[p].ts

\* ProtocolWriter::writePacket: the frame carries the key and ttl-1 as a uint8.
Frame(p) == [key |-> KeyOf(p), ttl |-> (TtlOf(p) - 1) % 256]

(***************************************************************************)
(* SendPacketToConnection, as far as the tracker is concerned: the frame  *)
(* is queued for the link (the link-layer queue and its callbacks are     *)
(* the SendQueue module), and the caller marks (p, link) as sent.  The    *)
(* send state st = [sent, out, sentAny] is threaded through the loops.    *)
(***************************************************************************)
SendTo(st, p, h) ==
  [st EXCEPT !.out = @ \cup {<<h, Frame(p)>>},
             !.sent = @ \cup {<<p, Ref(h)>>}]

\* The lookup of the targeted loop: an entry for exactly this packet whose
\* connection has this handle (equal_range).
MarkedFor(sent, p, h) == \E e \in sent : e[1] = p /\ RefHandle(e[2]) = h

\* Mutant: the scan starts one entry past find(packet), skipping the
\* packet's own marks.
ScanBlocksPastOwn(sent, p, h) ==
  /\ \E e \in sent : e[1] = p
  /\ \E e \in sent : Addr(e[1]) > Addr(p) /\ RefHandle(e[2]) = h

\* The lookup of the broadcast loop: find(packet) and then ++ until end(),
\* which walks every entry at or above the packet's address.
ScanBlocks(sent, p, h) ==
  /\ \E e \in sent : e[1] = p
  /\ \E e \in sent : Addr(e[1]) >= Addr(p) /\ RefHandle(e[2]) = h

TargetStep(st, h) ==
  IF MarkedFor(st.sent, Ann, h) THEN st ELSE [SendTo(st, Ann, h) EXCEPT !.sentAny = TRUE]

BroadcastPacket(st, p) ==
  LET avail == SetToSortSeq({h \in Handles : Available(h)}, <)
      step(s, h) == IF ScanBlocks(s.sent, p, h) THEN s ELSE SendTo(s, p, h)
  IN FoldLeft(step, st, avail)

(***************************************************************************)
(* Initial state: every map empty, the clock unsynced, and lastCleanup set *)
(* five minutes ahead of the counter as main() sets it.                    *)
(***************************************************************************)
NoObject == [key |-> None, ts |-> 0, ttl |-> 0, src |-> [h |-> None, valid |-> FALSE]]

Init ==
  /\ conns = [h \in Handles |-> None]
  /\ heap = [s \in Slots |-> NoObject]
  /\ stored = [k \in Keys |-> None]
  /\ sentConn = {}
  /\ bcast = <<>>
  /\ targeted = <<>>
  /\ annTtl = 0
  /\ annTs = 0
  /\ outbox = {}
  /\ peerTtl = [s \in Senders |-> 0]
  /\ handlePeer = [h \in Handles |-> None]
  /\ offset = 0
  /\ uptime = 0
  /\ lastCleanup = 1
  /\ loop = "announce"
  /\ netTs = [k \in Keys |-> None]
  /\ links = 0

(***************************************************************************)
(* Link-layer callbacks.                                                   *)
(***************************************************************************)
\* reportConnection(handle, addr, type, role): a neighbour record of the same
\* address, when the scan holds one, replaces the record; otherwise the record
\* left by an earlier link on this handle (or a fresh one) is reused.
ReportConnection(h, role, fromNeighbour) ==
  LET fresh == fromNeighbour \/ conns[h] = None
      base  == IF fresh THEN DefaultConn ELSE conns[h]
  IN
  /\ ~Connected(h)
  /\ links < MaxLinks
  /\ links' = links + 1
  /\ conns' = [conns EXCEPT ![h] = [base EXCEPT !.connected = TRUE, !.seen = uptime,
                                                !.role = role]]
  /\ outbox' = {}
  /\ UNCHANGED <<heap, stored, sentConn, bcast, targeted, annTtl, annTs,
                 peerTtl, handlePeer, clockVars, netTs>>

\* reportDisconnection: the record is kept, marked disconnected; the peer map
\* entry goes; the erase_if meant to drop the announce marks of this link
\* compares against the address of a copy and removes nothing.
\* Mutant: handle_peer_map is not erased.
ReportDisconnectionKeepPeer(h) ==
  /\ Connected(h)
  /\ conns' = [conns EXCEPT ![h].connected = FALSE]
  /\ outbox' = {}
  /\ UNCHANGED <<heap, stored, sentConn, bcast, targeted, annTtl, annTs,
                 peerTtl, handlePeer, clockVars, envVars>>

ReportDisconnection(h) ==
  /\ Connected(h)
  /\ conns' = [conns EXCEPT ![h].connected = FALSE]
  /\ handlePeer' = [handlePeer EXCEPT ![h] = None]
  /\ outbox' = {}
  /\ UNCHANGED <<heap, stored, sentConn, bcast, targeted, annTtl, annTs,
                 peerTtl, clockVars, envVars>>

\* The bitchat characteristic becomes known: for an acceptor link the client
\* enables notifications (att_write_callback), for an initiator link the
\* characteristic query returns it (storeHandlesIfCharacteristicMatches).
CharacteristicFound(h) ==
  /\ Connected(h) /\ ~conns[h].usable
  /\ conns' = [conns EXCEPT ![h].usable = TRUE]
  /\ outbox' = {}
  /\ UNCHANGED <<heap, stored, sentConn, bcast, targeted, annTtl, annTs,
                 peerTtl, handlePeer, clockVars, envVars>>

(***************************************************************************)
(* processWrite.  storeMessageAndReturnIfNew / storePacketAndReturnIfNew   *)
(* followed, when new, by enqueueBroadcastPacket(p, &connection, &peer),   *)
(* which marks the source connection and queues p only when its ttl > 0.   *)
(***************************************************************************)
\* Mutants: the one-argument enqueueBroadcastPacket (no source mark); the
\* ttl > 0 gate dropped; the null result of a duplicate store passed on.
StoreAndEnqueueUnmarked(k, ts, ttl, ref) ==
  IF stored[k] # None
  THEN UNCHANGED <<heap, stored, sentConn, bcast>>
  ELSE \E s \in Slots \ Live :
         /\ heap' = [heap EXCEPT ![s] = [key |-> k, ts |-> ts, ttl |-> ttl, src |-> ref]]
         /\ stored' = [stored EXCEPT ![k] = s]
         /\ bcast' = IF ttl > 0 THEN Append(bcast, s) ELSE bcast
         /\ UNCHANGED sentConn

StoreAndEnqueueNoTtlGate(k, ts, ttl, ref) ==
  IF stored[k] # None
  THEN UNCHANGED <<heap, stored, sentConn, bcast>>
  ELSE \E s \in Slots \ Live :
         /\ heap' = [heap EXCEPT ![s] = [key |-> k, ts |-> ts, ttl |-> ttl, src |-> ref]]
         /\ stored' = [stored EXCEPT ![k] = s]
         /\ sentConn' = sentConn \cup {<<s, ref>>}
         /\ bcast' = Append(bcast, s)

StoreAndEnqueueNullMark(k, ts, ttl, ref) ==
  IF stored[k] # None
  THEN /\ sentConn' = sentConn \cup {<<None, ref>>}
       /\ UNCHANGED <<heap, stored, bcast>>
  ELSE \E s \in Slots \ Live :
         /\ heap' = [heap EXCEPT ![s] = [key |-> k, ts |-> ts, ttl |-> ttl, src |-> ref]]
         /\ stored' = [stored EXCEPT ![k] = s]
         /\ sentConn' = sentConn \cup {<<s, ref>>}
         /\ bcast' = IF ttl > 0 THEN Append(bcast, s) ELSE bcast

StoreAndEnqueue(k, ts, ttl, ref) ==
  IF stored[k] # None
  THEN UNCHANGED <<heap, stored, sentConn, bcast>>
  ELSE \E s \in Slots \ Live :
         /\ heap' = [heap EXCEPT ![s] = [key |-> k, ts |-> ts, ttl |-> ttl, src |-> ref]]
         /\ stored' = [stored EXCEPT ![k] = s]
         /\ sentConn' = sentConn \cup {<<s, ref>>}
         /\ bcast' = IF ttl > 0 THEN Append(bcast, s) ELSE bcast

\* possiblyUpdateTimeOffset(ts)
UpdateTimeOffset(ts) ==
  LET diff == ts - Now IN
  offset' = IF diff > Thr \/ -diff > Thr \/ ts > Now THEN offset + diff ELSE offset

\* updateOrStorePeerName: the max-ttl high-water mark and the peer map.
UpdatePeer(snd, ttl, h) ==
  IF ttl >= peerTtl[snd]
  THEN /\ peerTtl' = [peerTtl EXCEPT ![snd] = ttl]
       /\ handlePeer' = [handlePeer EXCEPT ![h] = snd]
  ELSE UNCHANGED <<peerTtl, handlePeer>>

\* A packet arrives on link h: written by the client of an acceptor link
\* (att_write_callback passes the stored record) or notified by the server of
\* an initiator link (handle_gatt_client_value_update_event passes a copy).
Receive(h, k, ttl, d, stackOk) ==
  LET ts  == IF netTs[k] = None THEN Epoch + uptime - d ELSE netTs[k]
      ref == IF conns[h].role = "slave" THEN Ref(h) ELSE StackRef(h, stackOk)
  IN
  /\ Connected(h) /\ conns[h].role # "invalid"
  /\ netTs' = [netTs EXCEPT ![k] = ts]
  /\ \/ /\ k \in MsgKeys
        /\ StoreAndEnqueue(k, ts, ttl, ref)
        /\ UNCHANGED <<peerTtl, handlePeer, offset>>
     \/ /\ k \in AnnKeys
        /\ UpdatePeer(SenderOf[k], ttl, h)
        /\ UpdateTimeOffset(ts)
        /\ IF ttl < 1 THEN UNCHANGED <<heap, stored, sentConn, bcast>>
                      ELSE StoreAndEnqueue(k, ts, ttl, ref)
     \/ /\ k \in PassKeys
        /\ IF ttl < 1 THEN UNCHANGED <<heap, stored, sentConn, bcast>>
                      ELSE StoreAndEnqueue(k, ts, ttl, ref)
        /\ UNCHANGED <<peerTtl, handlePeer, offset>>
  /\ outbox' = {}
  /\ UNCHANGED <<conns, targeted, annTtl, annTs,
                 uptime, lastCleanup, loop, links>>

(***************************************************************************)
(* The main loop.  Every iteration may announce (the two second cadence),  *)
(* then sends, then may clean up (when more than ten minutes of the 32-bit *)
(* microsecond counter have passed since lastCleanup), then may sleep.     *)
(***************************************************************************)
\* announceToConnections: setupAnnounceIfNeeded, then for every available
\* link (once the clock has been synced) that no announce mark names, stamp
\* the announce with the current time and queue it to the stored record.
AnnounceToConnections ==
  LET todo == {h \in Handles : Available(h) /\ Synced /\ ~MarkedFor(sentConn, Ann, h)} IN
  /\ annTtl' = 3
  /\ annTs' = IF todo = {} THEN annTs ELSE Now
  /\ targeted' = targeted \o SetToSortSeq(todo, <)

AnnounceStep ==
  /\ loop = "announce"
  /\ \/ AnnounceToConnections
     \/ UNCHANGED <<annTtl, annTs, targeted>>
  /\ loop' = "send"
  /\ outbox' = {}
  /\ UNCHANGED <<conns, heap, stored, sentConn, bcast, peerTtl,
                 handlePeer, offset, uptime, lastCleanup, envVars>>

\* sendPackets: the targeted loop (the lazy filter sees the marks the loop
\* itself adds), erasure of every targeted entry of a packet that was sent,
\* the broadcast loop over the available links, and erasure of every
\* broadcast entry.
SendPackets ==
  LET st0 == [sent |-> sentConn, out |-> {}, sentAny |-> FALSE]
      st1 == FoldLeft(TargetStep, st0, targeted)
      st2 == FoldLeft(BroadcastPacket, st1, bcast)
  IN
  /\ sentConn' = st2.sent
  /\ outbox' = st2.out
  /\ targeted' = IF st1.sentAny THEN <<>> ELSE targeted
  /\ bcast' = <<>>

SendStep ==
  /\ loop = "send"
  /\ SendPackets
  /\ loop' = "cleanup"
  /\ UNCHANGED <<conns, heap, stored, annTtl, annTs, peerTtl, handlePeer,
                 offset, uptime, lastCleanup, envVars>>

\* cleanupStaleItems.  Sent marks use the packet timestamp in ms; the
\* broadcast queue and the message and packet stores use
\* getPacketTimestampMs(), the timestamp divided by 1000.  A mark whose
\* packet was freed, or whose connection pointer names a dead stack copy,
\* is read through a dangling pointer: whether it is erased is undefined.
PacketStale(p)  == TsOf(p) + W < Now
PacketStaleMs(p) == TsOf(p) \div 1000 + W < Now
ConnStale(h)    == conns[h] # None /\ ~conns[h].connected /\ conns[h].seen + W < Now
MarkStale(e)    == PacketStale(e[1]) \/ ConnStale(e[2].h)
Undefined(e)    == (e[1] # Ann /\ e[1] \notin Live) \/ ~e[2].valid

CleanupStaleItems ==
  /\ \E keep \in SUBSET {e \in sentConn : Undefined(e)} :
       sentConn' = {e \in sentConn : ~Undefined(e) /\ ~MarkStale(e)} \cup keep
  /\ bcast' = SelectSeq(bcast, LAMBDA p : ~PacketStaleMs(p))
  /\ targeted' = SelectSeq(targeted, LAMBDA h : ~(PacketStale(Ann) \/ ConnStale(h)))
  /\ conns' = [h \in Handles |-> IF ConnStale(h) THEN None ELSE conns[h]]
  /\ stored' = [k \in Keys |-> IF stored[k] # None /\ PacketStaleMs(stored[k])
                                THEN None ELSE stored[k]]
  \* A freed node is only ever read through a dangling pointer, whose result
  \* the model leaves open, so its contents are forgotten.
  /\ heap' = [s \in Slots |-> IF \E k \in Keys : stored'[k] = s THEN heap[s] ELSE NoObject]

CleanupDue == uptime < lastCleanup \/ uptime - lastCleanup > W

\* The cleanup check, then the rest of the iteration and any sleep, during
\* which the local counter may advance.
CleanupStep ==
  /\ loop = "cleanup"
  /\ IF CleanupDue
     THEN CleanupStaleItems /\ lastCleanup' = uptime
     ELSE UNCHANGED <<sentConn, bcast, targeted, conns, stored, heap, lastCleanup>>
  /\ loop' = "announce"
  /\ uptime' \in {uptime} \cup (IF uptime < MaxUptime THEN {uptime + 1} ELSE {})
  /\ outbox' = {}
  /\ UNCHANGED <<annTtl, annTs, peerTtl, handlePeer, offset, envVars>>

(***************************************************************************)
(* The specification.                                                      *)
(***************************************************************************)
Next ==
  \/ \E h \in Handles : \E role \in Roles[h], nb \in BOOLEAN :
       ReportConnection(h, role, nb)
  \/ \E h \in Handles : ReportDisconnection(h)
  \/ \E h \in Handles : CharacteristicFound(h)
  \/ \E h \in Handles, k \in Keys, ttl \in Ttls, d \in Delays, ok \in BOOLEAN :
       Receive(h, k, ttl, d, ok)
  \/ AnnounceStep
  \/ SendStep
  \/ CleanupStep

Spec == Init /\ [][Next]_vars

(***************************************************************************)
(* Properties.                                                             *)
(***************************************************************************)
RefT   == [h : Handles \cup {None}, valid : BOOLEAN]
ConnT  == [connected : BOOLEAN, usable : BOOLEAN, role : {"invalid", "slave", "master"},
           seen : 0..MaxUptime]
FrameT == [key : Keys \cup {SelfKey}, ttl : 0..255]

\* Every variable holds a value of its declared shape.
TypeOK ==
  /\ conns \in [Handles -> ConnT \cup {None}]
  /\ heap \in [Slots -> [key : Keys \cup {None}, ts : Nat, ttl : Nat, src : RefT]]
  /\ stored \in [Keys -> Slots \cup {None}]
  /\ sentConn \subseteq (Slots \cup {Ann}) \X RefT
  /\ bcast \in Seq(Slots)
  /\ targeted \in Seq(Handles)
  /\ annTtl \in {0, 3}
  /\ outbox \subseteq Handles \X FrameT
  /\ peerTtl \in [Senders -> Nat]
  /\ handlePeer \in [Handles -> Senders \cup {None}]
  /\ uptime \in 0..MaxUptime
  /\ links \in 0..MaxLinks
  /\ loop \in {"announce", "send", "cleanup"}

\* Echo suppression (enqueueBroadcastPacket marks the source connection
\* before the broadcast loop runs): no step queues a live packet back to the
\* link it arrived on when the mark names that link's stored record, as the
\* ATT write path (att_write_callback) does, whatever cleanup, reconnection
\* and other packets have done since it arrived.
NoEchoToWriter ==
  \A s \in Live, x \in outbox :
    heap[s].src.valid => ~(x[1] = heap[s].src.h /\ x[2].key = heap[s].key)

\* The same for every source, including a server that notified the packet
\* (handle_gatt_client_value_update_event passes a copy on the stack).
NoEchoToSource ==
  \A s \in Live, x \in outbox : ~(x[1] = heap[s].src.h /\ x[2].key = heap[s].key)

\* ProtocolWriter::writePacket writes ttl-1 into a uint8: no frame the
\* repeater queues carries the wrapped ttl 255, because a stored packet
\* with ttl 0 is never queued for broadcast.
NoWrappedTtl == \A x \in outbox : x[2].ttl # 255

\* handle_peer_map only names links that are connected: reportDisconnection
\* erases the entry, and cleanup only erases records already disconnected.
PeerMapConnected ==
  \A h \in Handles : handlePeer[h] # None => Connected(h)

\* sendPackets fans every queued broadcast packet out to every available
\* link that has not had it: after the send step each such link is marked.
FanOutComplete ==
  [][loop = "send" /\ loop' = "cleanup" =>
       \A i \in 1..Len(bcast), h \in Handles :
         Available(h) => MarkedFor(sentConn', bcast[i], h)]_vars

\* reportDisconnection erases the announce marks of the link (so that a
\* new link on the same handle is announced to).
DisconnectClearsAnnounce ==
  [][\A h \in Handles :
       Connected(h) /\ conns'[h] # None /\ ~conns'[h].connected
       => ~MarkedFor(sentConn', Ann, h)]_vars

\* cleanupStaleItems keeps what is younger than ten minutes: a stored
\* packet whose timestamp is within the window survives a sweep.
FreshStoresRetained ==
  [][\A k \in Keys :
       stored[k] # None /\ heap[stored[k]].ts + W >= Now'
       => stored'[k] # None]_vars

====
