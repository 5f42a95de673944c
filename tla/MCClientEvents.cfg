CONSTANTS
  PageLimit = 1
  MaxOwn = 1
  MaxForeign = 1
  MaxErrors = 1
SPECIFICATION EventsFairSpec
INVARIANTS UnannouncedOnlyIfOvertaken ViewStaleOnlyBehind
PROPERTIES PendingSettles
CHECK_DEADLOCK FALSE
