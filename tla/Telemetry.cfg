\* Full channels, publishes that fail or store a part, drops beside a report, a closing and an exit.
SPECIFICATION FairSpec
CONSTANTS
  a = a
  b = b
  c = c
  e1 = e1
  e2 = e2
  e3 = e3
  e4 = e4
  Unknown = unknown
  Chains = {a, b}
  Events = {e1, e2, e3}
  ChainOf <- MCTwoAndOne
  Capacity = 1
  MaxEvents = 2
  MaxTracked = 1
  MaxTime = 1
  MaxFailures = 3
  Faults = {"partial", "exit", "close"}
INVARIANTS
  NoSilentLoss
  HolesNotUnderstated
PROPERTIES
  EveryEventAccountedFor
