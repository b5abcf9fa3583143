SPECIFICATION Spec
CONSTANTS
  MaxMail = 2
  Rounds = 2
  PageLimit = 1
  MaxDisturbed = 1
  Me = Me
  Other = Other
  None = None
INVARIANTS
  BoundToFirst
PROPERTIES
  ReachesTheAgent
  LiveInTheEnd
CHECK_DEADLOCK FALSE
