---------------------------- MODULE LinkMailbox ----------------------------
(***************************************************************************)
(* What the link-layer send path promises (spec.md, send-to-connection and *)
(* the mailbox of its modelling notes): per connection and direction, a    *)
(* FIFO of frames and a mailbox that is Idle or Pending.  The role of the  *)
(* link picks the direction: acceptor links notify, the others write.      *)
(* Queueing a frame on an open link arms the mailbox; a pending mailbox    *)
(* transmits the head of its queue and stays armed while frames remain,   *)
(* or goes idle when the queue is empty.  A closed link becomes            *)
(* ineligible for sends; its queued frames are kept.                        *)
(***************************************************************************)
EXTENDS Sequences

CONSTANTS
  Handles,   \* connection handles
  Roles,     \* link roles
  Frames     \* the frames that may be queued

Dirs == {"notify", "write"}

VARIABLES
  open,      \* handle -> is a link open on it
  role,      \* handle -> role of its link ("invalid" before the first)
  queue,     \* <<handle, dir>> -> frames queued, oldest first
  pending    \* <<handle, dir>> -> is the mailbox armed

avars == <<open, role, queue, pending>>

DirOf(h) == IF role[h] = "slave" THEN "notify" ELSE "write"

Init ==
  /\ open = [h \in Handles |-> FALSE]
  /\ role = [h \in Handles |-> "invalid"]
  /\ queue = [x \in Handles \X Dirs |-> <<>>]
  /\ pending = [x \in Handles \X Dirs |-> FALSE]

Open(h, r) ==
  /\ ~open[h]
  /\ open' = [open EXCEPT ![h] = TRUE]
  /\ role' = [role EXCEPT ![h] = r]
  /\ UNCHANGED <<queue, pending>>

Close(h) ==
  /\ open[h]
  /\ open' = [open EXCEPT ![h] = FALSE]
  /\ pending' = [x \in Handles \X Dirs |-> IF x[1] = h THEN FALSE ELSE pending[x]]
  /\ UNCHANGED <<role, queue>>

Enqueue(h, f) ==
  LET x == <<h, DirOf(h)>> IN
  /\ queue' = [queue EXCEPT ![x] = Append(@, f)]
  /\ pending' = [pending EXCEPT ![x] = @ \/ open[h]]
  /\ UNCHANGED <<open, role>>

Transmit(x) ==
  /\ pending[x] /\ open[x[1]] /\ queue[x] # <<>>
  /\ queue' = [queue EXCEPT ![x] = Tail(@)]
  /\ pending' = [pending EXCEPT ![x] = Tail(queue[x]) # <<>>]
  /\ UNCHANGED <<open, role>>

GoIdle(x) ==
  /\ pending[x] /\ queue[x] = <<>>
  /\ pending' = [pending EXCEPT ![x] = FALSE]
  /\ UNCHANGED <<open, role, queue>>

Next ==
  \/ \E h \in Handles, r \in Roles : Open(h, r)
  \/ \E h \in Handles : Close(h)
  \/ \E h \in Handles, f \in Frames : Enqueue(h, f)
  \/ \E x \in Handles \X Dirs : Transmit(x) \/ GoIdle(x)

\* The link layer serves every armed mailbox.
Spec == Init /\ [][Next]_avars /\ \A x \in Handles \X Dirs : WF_avars(Transmit(x) \/ GoIdle(x))

====
