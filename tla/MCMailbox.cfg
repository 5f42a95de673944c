SPECIFICATION FairSpec
CONSTANTS
  r1 = r1
  s1 = s1
  s2 = s2
  anon = anon
  Absent = Absent
  Anonymous = anon
  Tokens <- MCTokens
  Mailboxes = {m1}
  Senders = {s1, s2}
  Readers = {r1}
  Ttls = {0, 1}
  PageLimit = 1
  AclEdits <- MCAclEdits
  MaxClock = 2
  MaxEntries = 2
INVARIANTS
  MissedOnlyIfOvertaken
  NoRedelivery
PROPERTIES
  KeptUntilExpired
  EventuallyPassed
