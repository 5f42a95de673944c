CONSTANTS
  Calls <- MCCalls
  Pools = {"proxy", "onward", "target"}
  PoolOf <- MCPoolOf
  MaxTransports = 4
  Requests = {"r1", "r2"}
  PollIds <- MCPollIds
  Tasks = {"dm", "group"}
  BoxesOf <- MCBoxesOf
  Page = 2
  MaxEntries <- MCMaxEntries
  MaxFaults <- MCMaxFaults
  Workloads = {"direct", "group", "requests"}
SPECIFICATION FairSpec
INVARIANTS AtMostOnce NothingSkipped
PROPERTIES EntriesReceived
CHECK_DEADLOCK FALSE
