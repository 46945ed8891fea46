CONSTANTS
  None = None
  NH = 1
  Roles = {"slave", "master"}
  MaxSends = 3
  MaxLinks = 3
SPECIFICATION Spec

PROPERTIES QueuedFramesDrain MailboxRefined
CHECK_DEADLOCK FALSE
