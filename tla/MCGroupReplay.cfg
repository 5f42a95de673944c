SPECIFICATION Spec
CONSTANTS
  a = a
  b = b
  da = da
  db = db
  Users = {a, b}
  InitAdmin = a
  Devices = {da, db}
  UserOf <- MCUserOf
  Creator = da
  Workloads <- ReplayWorkload
  InviteArgs <- MCInviteArgs
  Posts <- MCPosts
  Loaders <- MCLoaders
  MaxManage <- ReplayMaxManage
  MaxMessages <- MCMaxMessages
  MaxSkips <- ReplayMaxSkips
  MaxFlight <- MCMaxFlight
INVARIANT RosterIsReplay
CHECK_DEADLOCK FALSE
