----------------------------- MODULE LoopTimers -----------------------------
(***************************************************************************)
(* The back-off of the main loop's connect step (main.cpp) on the clock    *)
(* the loop reads.  time_us_32() is the low ClockBits bits of the          *)
(* microsecond counter, so it wraps (every 71.6 minutes in the build).     *)
(* A duplicate link closed by gap_disconnect stamps                         *)
(* disconnection_started_at; the connect step runs only while              *)
(*     disconnection_started_at < loopStart - two_seconds_in_us            *)
(* evaluated in uint32_t arithmetic.  The loop's other timers compare      *)
(* (loopStart - last) > period instead.  The other conditions of the       *)
(* connect step (scan, connection attempt, discovery) are left out: they   *)
(* only hold it back further and do not read the clock.                    *)
(***************************************************************************)
EXTENDS Integers

CONSTANTS
  ClockBits,    \* width of time_us_32() (32 in the build)
  TwoSeconds,   \* two_seconds_in_us, in clock units
  Steps,        \* how far the clock may move between two loop passes
  MaxHeld       \* bound on the measured hold time (> TwoSeconds)

ASSUME TwoSeconds + MaxHeld < 2^ClockBits /\ Steps \subseteq 1..TwoSeconds

Clock == 2^ClockBits

\* Conversion to uint32_t: the value modulo the clock's width.
U32(x) == x % Clock

VARIABLES
  now,                        \* time_us_32() at the loop pass
  disconnection_started_at,   \* main.cpp's global
  held                        \* how long the back-off has held the connect step, capped

vars == <<now, disconnection_started_at, held>>

\* The clock condition of the connect step is false.
Backoff == ~(disconnection_started_at < U32(now - TwoSeconds))

Init ==
  /\ now \in Steps                    \* the first pass, just after boot
  /\ disconnection_started_at = 0
  /\ held = 0

\* connect_to_first_neighbour found nothing to connect to and the loop
\* gap_disconnects a duplicate handle, which succeeds: the back-off starts.
CloseDuplicate ==
  /\ ~Backoff
  /\ disconnection_started_at' = now
  /\ held' = 0
  /\ UNCHANGED now

\* The loop sleeps or waits 40 ms and starts its next pass at a later
\* time_us_32().  held is the time since the first of the passes that the
\* back-off has held in a row.
Advance(d) ==
  /\ now' = U32(now + d)
  /\ UNCHANGED disconnection_started_at
  /\ held' = IF ~Backoff \/ ~Backoff' THEN 0
             ELSE IF held + d < MaxHeld THEN held + d ELSE MaxHeld

Next == CloseDuplicate \/ \E d \in Steps : Advance(d)

Spec == Init /\ [][Next]_vars

TypeOK ==
  /\ now \in 0..Clock - 1
  /\ disconnection_started_at \in 0..Clock - 1
  /\ held \in 0..MaxHeld

\* The back-off lasts two seconds: the connect step is never held back by
\* the clock condition of main.cpp for longer than two_seconds_in_us after
\* the last gap_disconnect of a duplicate (or after boot).
BackoffLastsTwoSeconds == held <= TwoSeconds

====
