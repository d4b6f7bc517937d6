\* A pull that the heartbeat tick cancels, in a process that lives on.
SPECIFICATION Spec
CONSTANTS
  a = a
  b = b
  m1 = m1
  m2 = m2
  m3 = m3
  x = x
  Chains = {a, b}
  Messages = {m1, m2, x}
  ChainOf <- MCChainOfBad
  Undecodable = {x}
  DedupeWindow = 10
  MaxMessages = 3
  MaxAttempts = 2
  MaxDay = 1
  Faults = {"storeDown", "ackLost", "cancel", "beatFail"}
  MaxFaults = 2
INVARIANTS
  StoredOnce
  SeqNotReused
  LossLeavesGap
  MarkedDayShows
