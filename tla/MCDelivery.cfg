SPECIFICATION Spec
CONSTANTS
  a = a
  b = b
  da = da
  db = db
  Users = {a, b}
  Devices = {da, db}
  UserOf <- MCUserOf
  Sends <- MCSends
  MaxTries = 2
  MaxQueued = 2
  MaxClock = 2
  MaxFaults = 2
INVARIANTS
  OneRowPerMessage
  SentMeansPosted
  OrderKept
  MissingOnlyIfFailedOrShadowed
PROPERTIES
  ImplementsConversation
CHECK_DEADLOCK FALSE
