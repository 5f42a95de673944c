SPECIFICATION Spec
CONSTANTS
  a = a
  b = b
  da = da
  db = db
  Users = {a, b}
  InitAdmin = a
  Devices = {da, db}
  UserOf <- MCUserOf
  Creator = da
  Workloads <- MCWorkloads
  InviteArgs <- MCInviteArgs
  Posts <- MCPosts
  Loaders <- MCLoaders
  MaxManage <- MCMaxManage
  MaxMessages <- MCMaxMessages
  MaxSkips <- MCMaxSkips
  MaxFlight <- MCMaxFlight
INVARIANTS
  RosterIsReplayOfProcessed
  LostOnlyIfOvertaken
  RekeyExcludesBanned
PROPERTIES
  BanSticks
  NoAdminIsForever
CHECK_DEADLOCK FALSE
