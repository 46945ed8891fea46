CONSTANTS
  None = None
  NH = 2
  Roles = {"slave", "master"}
  MaxSends = 3
  MaxLinks = 3
SPECIFICATION Spec

PROPERTIES QueuedFramesDrain
CHECK_DEADLOCK FALSE
