SPECIFICATION FairSpec
CONSTANTS
  k1 = k1
  k2 = k2
  o1 = o1
  o2 = o2
  ZeroHash = ZeroHash
  Ids <- MCIds
  Pks = {o1, o2}
  Updates <- MCUpdates
  Keys = {k1, k2}
  Handlers = {h1, h2}
  Inserts <- MCInserts
  MaxHeight = 3
  MaxCalls = 3
  MaxFaults = 1
INVARIANTS
  RootsStored
  AcceptedAccountedFor
  RefusedOnlyAfterRace
  MirrorAnchorHeld
PROPERTIES
  ImplementsRegistry
  MirrorCatchesUp
CHECK_DEADLOCK FALSE
