SPECIFICATION Spec
CONSTANTS
  anon = anon
  t1 = t1
  t2 = t2
  t3 = t3
  d1 = d1
  d2 = d2
  u1 = u1
  g1 = g1
  Absent = Absent
  NoToken = NoToken
  Anonymous = anon
  Tokens <- MCTokens
  Users = {u1}
  Devices = {d1, d2}
  UserOf <- MCUserOf
  Groups = {g1}
  Handlers = {h1, h2}
  EditArgs <- MCEditArgs
INVARIANTS
  OneTokenPerDevice
  DirectNeverEditable
PROPERTIES
  DirectRowsStable
  GrantsFollowRights
