----------------------------- MODULE Neighbours -----------------------------
(***************************************************************************)
(* Connection management of main.cpp and BleConnectionTracker: scanning   *)
(* fills available_neighbours; the main loop's connect step opens a link  *)
(* to the first connectable neighbour (connect_to_first_neighbour) or      *)
(* closes a duplicate link (getAnyDuplicateHandle); the connection         *)
(* complete handler records the link and starts GATT discovery, whose      *)
(* completion handler runs the characteristic query.  The loop connects    *)
(* only when no scan, connection attempt or discovery is in progress.     *)
(*                                                                         *)
(* BTstack is the environment: the controller's links per handle, its one  *)
(* pending LE connection, and each link's GATT query.  A device is its     *)
(* address; the peer id it announces is that address too.                  *)
(***************************************************************************)
EXTENDS Integers, Sequences, SequencesExt, FiniteSets

CONSTANTS
  NA,         \* device addresses 1..NA, in available_neighbours (std::map) order
  Repeaters,  \* addresses advertising the bitchat service and name (isRepeater)
  Randoms,    \* addresses of random type (isRandom)
  HasChar,    \* addresses whose GATT server has the bitchat characteristic
  NH,         \* connection handles 1..NH
  None

Addrs   == 1..NA
Handles == 1..NH

VARIABLES
  avail,       \* the addresses available_neighbours holds
  conns,       \* connections: handle -> [addr, connected, svc, chr] or None
  order,       \* handles by last_seen_time of their record, oldest first
  handlePeer,  \* handle_peer_map: handle -> peer or None
  synced,      \* timestamp_offset_ms >= build_time_ms
  scanning, inProgress, discPrimary, discChars,  \* main.cpp's flags
  backoff,     \* less than two seconds since disconnection_started_at
  link,        \* controller: handle -> address of the open link, or None
  attempt,     \* controller: address of the pending LE connection, or None
  qry,         \* GATT client: handle -> "svc", "chr" or None
  closing      \* handles with a gap_disconnect under way

tracker == <<avail, conns, order, handlePeer, synced>>
flags   == <<scanning, inProgress, discPrimary, discChars, backoff>>
ctrl    == <<link, attempt, qry, closing>>
vars    == <<tracker, flags, ctrl>>

\* A record as connectionForConnHandle creates it.
Blank == [addr |-> None, connected |-> FALSE, svc |-> FALSE, chr |-> FALSE]
Rec(h) == IF conns[h] = None THEN Blank ELSE conns[h]

Init ==
  /\ avail = {}
  /\ conns = [h \in Handles |-> None]
  /\ order = <<>>
  /\ handlePeer = [h \in Handles |-> None]
  /\ synced = FALSE
  /\ scanning = TRUE      \* setup_scanning on BTSTACK_EVENT_STATE
  /\ inProgress = FALSE /\ discPrimary = FALSE /\ discChars = FALSE /\ backoff = FALSE
  /\ link = [h \in Handles |-> None]
  /\ attempt = None
  /\ qry = [h \in Handles |-> None]
  /\ closing = {}

(***************************************************************************)
(* BleConnectionTracker                                                    *)
(***************************************************************************)
\* getConnectableNeighbours, in map order.
Connectable == {a \in avail : (synced \/ a \in Repeaters) /\ a \notin Randoms}

\* getConnectionForAddress is non-null: a connected record is at address a.
FoundConnection(a) ==
  \E h \in Handles : conns[h] # None /\ conns[h].connected /\ conns[h].addr = a

\* last_seen_time order: a record never connected has time 0.
Rank(h) == IF \E i \in DOMAIN order : order[i] = h
           THEN CHOOSE i \in DOMAIN order : order[i] = h ELSE 0

\* getAnyDuplicateHandle: the first handle whose peer an earlier handle has
\* too, answered by the older of the two; None when there is no such pair.
DuplicateHandle ==
  LET dup == {h2 \in Handles : \E h1 \in Handles :
                h1 < h2 /\ handlePeer[h1] # None /\ handlePeer[h1] = handlePeer[h2]}
  IN  IF dup = {} THEN None
      ELSE LET h2 == CHOOSE h \in dup : \A o \in dup : h <= o
               h1 == CHOOSE h \in Handles : h < h2 /\ handlePeer[h] = handlePeer[h2]
           IN  IF Rank(h1) < Rank(h2) THEN h1 ELSE h2

\* reportConnection: a neighbour record at a replaces the handle's record,
\* otherwise the record there (of an earlier link on h) is kept; either way
\* it is marked connected at a, stamped now, and a leaves the neighbours.
ReportConnection(h, a) ==
  /\ conns' = [conns EXCEPT ![h] = [(IF a \in avail THEN Blank ELSE Rec(h))
                                    EXCEPT !.connected = TRUE, !.addr = a]]
  /\ order' = SelectSeq(order, LAMBDA x : x # h) \o <<h>>
  /\ avail' = avail \ {a}

\* reportDisconnection
ReportDisconnection(h) ==
  /\ conns' = [conns EXCEPT ![h] = [Rec(h) EXCEPT !.connected = FALSE]]
  /\ handlePeer' = [handlePeer EXCEPT ![h] = None]

(***************************************************************************)
(* The main loop's connect step (main.cpp), run when no scan, connection  *)
(* attempt or discovery is in progress and the last disconnection started *)
(* two seconds ago.                                                        *)
(***************************************************************************)
LoopMayConnect == ~scanning /\ ~inProgress /\ ~discPrimary /\ ~discChars /\ ~backoff

First == IF Connectable = {} THEN None ELSE Min(Connectable)

\* connect_to_first_neighbour: the first neighbour has no connected record
\* and gap_connect, which refuses while another LE connection is pending,
\* succeeds.
StartConnection ==
  /\ LoopMayConnect
  /\ First # None /\ ~FoundConnection(First) /\ attempt = None
  /\ avail' = avail \ {First}
  /\ inProgress' = TRUE
  /\ attempt' = First
  /\ UNCHANGED <<conns, order, handlePeer, synced, scanning, discPrimary, discChars,
                 backoff, link, qry, closing>>

\* connect_to_first_neighbour returned false: gap_disconnect the duplicate
\* handle; it succeeds on a live link.
CloseDuplicate ==
  /\ LoopMayConnect
  /\ ~(First # None /\ ~FoundConnection(First) /\ attempt = None)
  /\ DuplicateHandle # None /\ link[DuplicateHandle] # None
  /\ closing' = closing \cup {DuplicateHandle}
  /\ backoff' = TRUE
  /\ UNCHANGED <<avail, conns, order, handlePeer, synced, scanning, inProgress,
                 discPrimary, discChars, link, attempt, qry>>

\* Two seconds pass.
Tick ==
  /\ backoff /\ backoff' = FALSE
  /\ UNCHANGED <<tracker, scanning, inProgress, discPrimary, discChars, ctrl>>

\* start_scanning_for_local_nodes, every ten minutes; the timer stops it.
StartScan ==
  /\ ~scanning /\ scanning' = TRUE
  /\ UNCHANGED <<tracker, inProgress, discPrimary, discChars, backoff, ctrl>>
StopScan ==
  /\ scanning /\ scanning' = FALSE
  /\ UNCHANGED <<tracker, inProgress, discPrimary, discChars, backoff, ctrl>>

\* GAP_EVENT_ADVERTISING_REPORT with the bitchat service: addAvailablePeer.
Advert(a) ==
  /\ scanning /\ a \notin avail
  /\ avail' = avail \cup {a}
  /\ UNCHANGED <<conns, order, handlePeer, synced, flags, ctrl>>

\* possiblyUpdateTimeOffset accepts a message's clock.
SyncClock ==
  /\ ~synced /\ synced' = TRUE
  /\ UNCHANGED <<avail, conns, order, handlePeer, flags, ctrl>>

(***************************************************************************)
(* Handlers of BTstack events.  The controller's part of each event (a    *)
(* link opens or closes, a query answers) is in the same step as the       *)
(* handler it runs.                                                        *)
(***************************************************************************)
\* HCI_SUBEVENT_LE_CONNECTION_COMPLETE and GAP_SUBEVENT_LE_CONNECTION_COMPLETE
\* for handle h and address a: reportConnection (twice, to the same effect),
\* then the GAP handler clears connection_in_progress, sets
\* discover_primary_services and starts the primary service query, which
\* BTstack refuses for a handle without a link.  Neither reads the status.
OnConnectionComplete(h, a, lk) ==
  /\ ReportConnection(h, a)
  /\ inProgress' = FALSE
  /\ discPrimary' = TRUE
  /\ qry' = IF lk[h] # None THEN [qry EXCEPT ![h] = "svc"] ELSE qry

\* The pending connection opens on a free handle.
OutgoingOpens(h) ==
  /\ attempt # None /\ link[h] = None /\ qry[h] = None
  /\ link' = [link EXCEPT ![h] = attempt]
  /\ attempt' = None
  /\ OnConnectionComplete(h, attempt, link')
  /\ UNCHANGED <<handlePeer, synced, scanning, discChars, backoff, closing>>

\* The pending connection fails to be established; the event's handle
\* field names no link.
OutgoingFails(h) ==
  /\ attempt # None
  /\ attempt' = None
  /\ OnConnectionComplete(h, attempt, link)
  /\ UNCHANGED <<handlePeer, synced, scanning, discChars, backoff, link, closing>>

\* A central at address a connects to us.
IncomingOpens(h, a) ==
  /\ link[h] = None /\ qry[h] = None
  /\ link' = [link EXCEPT ![h] = a]
  /\ OnConnectionComplete(h, a, link')
  /\ UNCHANGED <<handlePeer, synced, scanning, discChars, backoff, attempt, closing>>

\* HCI_EVENT_DISCONNECTION_COMPLETE: the link is lost, or closed by
\* gap_disconnect.  A query on it stays to be completed with an error.
Disconnect(h) ==
  /\ link[h] # None
  /\ link' = [link EXCEPT ![h] = None]
  /\ closing' = closing \ {h}
  /\ ReportDisconnection(h)
  /\ UNCHANGED <<avail, order, synced, flags, attempt, qry>>

\* The result the running query of h still owes: the service (every bitchat
\* device has it) or the characteristic (if the device has it).
ResultPending(h) ==
  /\ link[h] # None
  /\ \/ qry[h] = "svc" /\ ~Rec(h).svc
     \/ qry[h] = "chr" /\ link[h] \in HasChar /\ ~Rec(h).chr

\* GATT_EVENT_SERVICE_QUERY_RESULT / CHARACTERISTIC_QUERY_RESULT:
\* storeHandlesIfServiceMatches / storeHandlesIfCharacteristicMatches.
QueryResult(h) ==
  /\ ResultPending(h)
  /\ conns' = [conns EXCEPT ![h] = IF qry[h] = "svc" THEN [Rec(h) EXCEPT !.svc = TRUE]
                                                     ELSE [Rec(h) EXCEPT !.chr = TRUE]]
  /\ UNCHANGED <<avail, order, handlePeer, synced, flags, ctrl>>

\* GATT_EVENT_QUERY_COMPLETE: both discovery flags are cleared; when the
\* record has the service but no characteristic handle, the characteristic
\* query is flagged and started (BTstack refuses it without a link).
QueryComplete(h) ==
  /\ qry[h] # None /\ ~ResultPending(h)
  /\ conns' = [conns EXCEPT ![h] = Rec(h)]
  /\ discPrimary' = FALSE
  /\ discChars' = (Rec(h).svc /\ ~Rec(h).chr)
  /\ qry' = [qry EXCEPT ![h] = IF Rec(h).svc /\ ~Rec(h).chr /\ link[h] # None
                                THEN "chr" ELSE None]
  /\ UNCHANGED <<avail, order, handlePeer, synced, scanning, inProgress, backoff,
                 link, attempt, closing>>

\* att_write_callback, client configuration: a client enabling
\* notifications sets the record's characteristic value handle.
ClientConfigWrite(h) ==
  /\ link[h] # None /\ ~Rec(h).chr
  /\ conns' = [conns EXCEPT ![h] = [Rec(h) EXCEPT !.chr = TRUE]]
  /\ UNCHANGED <<avail, order, handlePeer, synced, flags, ctrl>>

\* processWrite of an announce from the device on h whose ttl is at least
\* the peer's announce ttl: updateOrStorePeerName's setConnectionHandleForPeer.
Announce(h) ==
  /\ link[h] # None /\ handlePeer[h] # link[h]
  /\ handlePeer' = [handlePeer EXCEPT ![h] = link[h]]
  /\ UNCHANGED <<avail, conns, order, synced, flags, ctrl>>

Next ==
  \/ StartConnection \/ CloseDuplicate \/ Tick \/ StartScan \/ StopScan \/ SyncClock
  \/ \E a \in Addrs : Advert(a)
  \/ \E h \in Handles :
       \/ OutgoingOpens(h) \/ OutgoingFails(h) \/ Disconnect(h)
       \/ QueryResult(h) \/ QueryComplete(h) \/ ClientConfigWrite(h) \/ Announce(h)
       \/ \E a \in Addrs : IncomingOpens(h, a)

(***************************************************************************)
(* Fairness.  The main loop runs forever and checks its connect step every *)
(* 40 ms, while a scan starts only every ten minutes: a connect step that  *)
(* is enabled again and again is taken (strong fairness).  The scan, its   *)
(* timer and the passing of time are weakly fair.  BTstack answers every GATT query and completes every             *)
(* gap_disconnect.  A repeater in range advertises during every scan, and  *)
(* a connection attempt to it, retried often enough, opens.  Links lost,   *)
(* centrals connecting, announces and clock sync are not assumed.          *)
(***************************************************************************)
Fairness ==
  /\ SF_vars(StartConnection) /\ SF_vars(CloseDuplicate)
  /\ WF_vars(StartScan) /\ WF_vars(StopScan) /\ WF_vars(Tick)
  /\ \A h \in Handles : /\ WF_vars(QueryResult(h)) /\ WF_vars(QueryComplete(h))
                        /\ WF_vars(h \in closing /\ Disconnect(h))
  /\ SF_vars(\E h \in Handles : OutgoingOpens(h))
  /\ \A a \in Repeaters \ Randoms : SF_vars(Advert(a))

Spec == Init /\ [][Next]_vars /\ Fairness

(***************************************************************************)
(* Properties.                                                             *)
(***************************************************************************)
Linked(a) == \E h \in Handles : link[h] = a

\* Links lost, centrals connecting and connection attempts failing: the
\* radio environment's disturbances.
Disturbance ==
  \E h \in Handles : \/ h \notin closing /\ Disconnect(h)
                    \/ \E a \in Addrs : IncomingOpens(h, a)
                    \/ OutgoingFails(h)

\* Once the radio environment settles (finitely many links lost, centrals
\* connecting and attempts failing), the repeater keeps every neighbouring
\* repeater it can connect to (one with a public address, seen in every
\* scan) linked: the main loop's connect step, getConnectableNeighbours and
\* the connection and discovery handlers bring every such link about.
NeighboursConnected ==
  <>[][~Disturbance]_vars => \A a \in Repeaters \ Randoms : []<>Linked(a)

====
