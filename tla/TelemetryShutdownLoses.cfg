\* telemetry.rs: on a clean shutdown it drains.
SPECIFICATION Spec
CONSTANTS
  a = a
  b = b
  c = c
  e1 = e1
  e2 = e2
  e3 = e3
  e4 = e4
  Unknown = unknown
  Chains = {a}
  Events = {e1, e2, e3}
  ChainOf <- MCOneChain
  Capacity = 1
  MaxEvents = 2
  MaxTracked = 1
  MaxTime = 0
  MaxFailures = 0
  Faults = {"exit"}
INVARIANTS
  CleanShutdownDrains
