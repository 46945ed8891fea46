----------------------------- MODULE SendQueue -----------------------------
(***************************************************************************)
(* The link-layer send path of BleConnectionTracker: the frame queues      *)
(* raw_packet_to_notify and raw_packet_to_write (multimaps keyed by        *)
(* connection handle), the two static callback registrations shared by    *)
(* every link, SendPacketToConnection's queueing and request, and the      *)
(* can-send callbacks that run notifyRawPacket / writeRawPacket.           *)
(*                                                                         *)
(* BTstack keeps, per connection, a list of pending can-send requests and  *)
(* calls each registration's callback with the registration's context at   *)
(* the time it fires; the registration is one static object per direction,*)
(* so its context is whatever handle the last request wrote into it.       *)
(* A frame is abstracted to the link it was queued for: the handle and   *)
(* the number of that handle's latest link when it was queued.           *)
(***************************************************************************)
EXTENDS Integers, Sequences, FiniteSets, FiniteSetsExt

CONSTANTS
  NH,          \* number of connection handles, 1..NH in multimap order
  Roles,       \* link roles the environment may create
  MaxSends,    \* bound on SendPacketToConnection calls
  MaxLinks,    \* bound on the links the environment opens
  None         \* model value: the registration has never been used

Handles == 1..NH
Dirs    == {"notify", "write"}

VARIABLES
  up,          \* the link layer's view: is the connection open
  role,        \* BleConnection::role of each handle's record
  raw,         \* <<handle, dir>> -> frames queued for that handle
  reg,         \* dir -> [ctx : the registration's context,
               \*         lists : links whose request list holds it]
  sends,       \* SendPacketToConnection calls so far
  links,       \* links opened so far
  linkOf,      \* handle -> number of its latest link (0: none yet)
  misrouted    \* history: <<handle, frame>> for a frame handed to the link
               \* layer on the open link of handle that it was not queued for

vars == <<up, role, raw, reg, sends, links, linkOf, misrouted>>

\* A frame: the handle and link number it was queued for.
Frame(h) == <<h, linkOf[h]>>

\* SendPacketToConnection queues to notify for an acceptor (slave) link and
\* to write otherwise.
\* Mutant: the role switch inverted.
DirSwapped(h) == IF role[h] = "master" THEN "notify" ELSE "write"
Dir(h) == IF role[h] = "slave" THEN "notify" ELSE "write"

Init ==
  /\ up = [h \in Handles |-> FALSE]
  /\ role = [h \in Handles |-> "invalid"]
  /\ raw = [x \in Handles \X Dirs |-> <<>>]
  /\ reg = [d \in Dirs |-> [ctx |-> None, lists |-> {}]]
  /\ sends = 0
  /\ links = 0
  /\ linkOf = [h \in Handles |-> 0]
  /\ misrouted = {}

\* A link opens on handle h (reportConnection with its role).
Connect(h, r) ==
  /\ ~up[h]
  /\ links < MaxLinks
  /\ links' = links + 1
  /\ up' = [up EXCEPT ![h] = TRUE]
  /\ role' = [role EXCEPT ![h] = r]
  /\ linkOf' = [linkOf EXCEPT ![h] = links + 1]
  /\ UNCHANGED <<raw, reg, sends, misrouted>>

\* A link closes; the requests pending on it go with the connection.  The
\* frames queued for it stay in the multimap: nothing erases them.
Disconnect(h) ==
  /\ up[h]
  /\ up' = [up EXCEPT ![h] = FALSE]
  /\ reg' = [d \in Dirs |-> [reg[d] EXCEPT !.lists = @ \ {h}]]
  /\ UNCHANGED <<role, raw, sends, links, linkOf, misrouted>>

\* SendPacketToConnection: queue the frame, point the static registration
\* at h and request a callback, which BTstack accepts only on an open link.
\* sendPackets calls it for records reportConnection made, so h has had a
\* link; a targeted packet goes out whether or not that link is still up.
SendPacketToConnection(h) ==
  LET d == Dir(h) IN
  /\ linkOf[h] # 0
  /\ sends < MaxSends
  /\ sends' = sends + 1
  /\ raw' = [raw EXCEPT ![<<h, d>>] = Append(@, Frame(h))]
  /\ reg' = [reg EXCEPT ![d] = [ctx |-> h,
                                lists |-> IF up[h] THEN @.lists \cup {h} ELSE @.lists]]
  /\ UNCHANGED <<up, role, links, linkOf, misrouted>>

(***************************************************************************)
(* The can-send callback of direction d fires for a link h whose request   *)
(* list holds the registration; notifyRawPacket / writeRawPacket run with  *)
(* the registration's context c.  equal_range(c).first is the lower bound *)
(* of c: the first frame of the lowest handle >= c that has one.  That     *)
(* frame is handed to the link layer on c and erased when the call        *)
(* succeeds or reports an unknown connection; if the lower bound of c     *)
(* still finds a frame, the request is issued again for c.                 *)
(***************************************************************************)
Pending(r, d, c) == {o \in Handles : o >= c /\ r[<<o, d>>] # <<>>}

\* Mutant: no new request after a frame is handed over.
RequeueNever(d, h, c, r2) == reg' = [reg EXCEPT ![d].lists = @ \ {h}]

Requeue(d, h, c, r2) ==
  reg' = [reg EXCEPT ![d].lists = (@ \ {h}) \cup
                                   (IF Pending(r2, d, c) # {} /\ up[c] THEN {c} ELSE {})]

\* The call on c succeeds, or fails because c is not a live connection;
\* when nothing is queued at or above c, has_data is cleared on a copy.
Callback(d, h) ==
  LET c == reg[d].ctx
      o == Min(Pending(raw, d, c))
      r2 == [raw EXCEPT ![<<o, d>>] = Tail(@)]
  IN
  /\ h \in reg[d].lists
  /\ IF Pending(raw, d, c) = {}
     THEN /\ reg' = [reg EXCEPT ![d].lists = @ \ {h}]
          /\ UNCHANGED <<raw, misrouted>>
     ELSE /\ raw' = r2
          /\ misrouted' = IF up[c] /\ Head(raw[<<o, d>>]) # Frame(c)
                          THEN misrouted \cup {<<c, Head(raw[<<o, d>>])>>} ELSE misrouted
          /\ Requeue(d, h, c, r2)
  /\ UNCHANGED <<up, role, sends, links, linkOf>>

\* The link layer has no buffer free: the frame stays and, c being up, the
\* request is issued again.
RawPacketBusy(d, h) ==
  LET c == reg[d].ctx IN
  /\ h \in reg[d].lists
  /\ Pending(raw, d, c) # {}
  /\ up[c]
  /\ Requeue(d, h, c, raw)
  /\ UNCHANGED <<up, role, raw, sends, links, linkOf, misrouted>>

Next ==
  \/ \E h \in Handles, r \in Roles : Connect(h, r)
  \/ \E h \in Handles : Disconnect(h)
  \/ \E h \in Handles : SendPacketToConnection(h)
  \/ \E d \in Dirs, h \in Handles : Callback(d, h) \/ RawPacketBusy(d, h)

\* BTstack fires a pending can-send callback once the controller has room;
\* a busy answer may repeat, so it carries no fairness.
Fairness == \A d \in Dirs, h \in Handles : WF_vars(Callback(d, h))

Spec == Init /\ [][Next]_vars /\ Fairness

(***************************************************************************)
(* Refinement: the send path seen as spec.md's mailboxes.  A mailbox is    *)
(* armed when its link's request list holds the direction's registration. *)
(***************************************************************************)
Mailbox == INSTANCE LinkMailbox
             WITH Frames <- Handles \X (0..MaxLinks), open <- up, queue <- raw,
                  pending <- [x \in Handles \X Dirs |-> x[1] \in reg[x[2]].lists]

(***************************************************************************)
(* Properties.                                                             *)
(***************************************************************************)
\* Every variable holds a value of its declared shape.
TypeOK ==
  /\ up \in [Handles -> BOOLEAN]
  /\ role \in [Handles -> {"invalid", "slave", "master"}]
  /\ raw \in [Handles \X Dirs -> Seq(Handles \X (0..MaxLinks))]
  /\ reg \in [Dirs -> [ctx : Handles \cup {None}, lists : SUBSET Handles]]
  /\ sends \in 0..MaxSends
  /\ links \in 0..MaxLinks
  /\ linkOf \in [Handles -> 0..MaxLinks]
  /\ misrouted \subseteq Handles \X (Handles \X (0..MaxLinks))

\* notifyRawPacket / writeRawPacket hand a frame to the link layer only on
\* the link it was queued for: not on another handle's link, and not on a
\* later link of the same handle (spec.md: a disconnected link becomes
\* ineligible for sends).
FramesGoToOwnLink == misrouted = {}

\* Once SendPacketToConnection has requested a callback for an open link,
\* every frame queued for that link is eventually handed to the link layer
\* or the link closes: each callback either drains the queue or asks again.
QueuedFramesDrain ==
  \A h \in Handles, d \in Dirs :
    (up[h] /\ h \in reg[d].lists /\ raw[<<h, d>>] # <<>>)
      ~> (~up[h] \/ raw[<<h, d>>] = <<>>)

\* The send path implements the per-link mailbox of spec.md: frames leave a
\* handle's queue in FIFO order, only through the can-send callback of an
\* open link whose role uses that queue's direction, the callback re-arms
\* while frames remain, and every armed mailbox is eventually served.
MailboxRefined == Mailbox!Spec

====
