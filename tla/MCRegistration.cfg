SPECIFICATION RegistrationSpec
CONSTANTS
  Pks = {"p1", "p2"}
  Keys = {"name"}
  Tasks <- MCTasks
  KeyOf <- MCKeyOf
  Clients = {"c1", "c2", "c3"}
  ClientOf <- MCClientOf
  Databases = {"d1", "d2"}
  DbOf <- MCDbOf
  BatchLimit = 1
  MaxHeight = 3
  MaxFaults = 1
  KindOf <- MCKindOf
  PkOf <- MCPkOf
  BundleOf <- MCBundleOf
  Workloads <- MCWorkloads
  Restarted = {"s1"}
INVARIANTS
  LookupFailsOnlyIfOvertaken
  RegisteredMeansOwned
CHECK_DEADLOCK FALSE
