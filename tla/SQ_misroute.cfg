CONSTANTS
  None = None
  NH = 2
  Roles = {"slave", "master"}
  MaxSends = 3
  MaxLinks = 3
SPECIFICATION Spec

INVARIANT FramesGoToOwnLink
CHECK_DEADLOCK FALSE
