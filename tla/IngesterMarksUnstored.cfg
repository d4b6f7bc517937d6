\* bus.rs: a heartbeat that fails to store leaves the day unmarked.
SPECIFICATION Spec
CONSTANTS
  a = a
  b = b
  m1 = m1
  m2 = m2
  m3 = m3
  x = x
  Chains = {a, b}
  Messages = {m1, m3}
  ChainOf <- MCChainOfTwo
  Undecodable = {}
  DedupeWindow = 10
  MaxMessages = 3
  MaxAttempts = 1
  MaxDay = 0
  Faults = {"beatFail"}
  MaxFaults = 1
INVARIANTS
  MarkedDayIsStored
