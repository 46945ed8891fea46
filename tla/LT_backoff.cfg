CONSTANTS
  ClockBits = 4
  TwoSeconds = 2
  Steps = {1, 2}
  MaxHeld = 3
SPECIFICATION Spec
INVARIANT BackoffLastsTwoSeconds
