CONSTANTS
  Devices = {"root", "a", "b"}
  Root = "root"
  Callers = {"send", "rekey", "details"}
  Sender = "send"
  Reader = "details"
  Workloads = {"rotations", "longer", "devices", "profiles"}
  Calling <- MCCalling
  Bundles <- MCBundles
  MaxKeys <- MCMaxKeys
  MaxMessages <- MCMaxMessages
  MaxFaults <- MCMaxFaults
  MaxTime <- MCMaxTime
  MaxSets <- MCMaxSets
SPECIFICATION ProfilesSpec
INVARIANTS UnopenedOnlyIfRotatedOrFailed KeysNeverGoBack RecipientsAreCertified NewestProfileVerifies
CHECK_DEADLOCK FALSE
