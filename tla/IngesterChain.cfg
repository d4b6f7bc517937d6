\* Three messages on two chains: crashes, a store that refuses, acks lost or too late.
SPECIFICATION Spec
CONSTANTS
  a = a
  b = b
  m1 = m1
  m2 = m2
  m3 = m3
  x = x
  Chains = {a, b}
  Messages = {m1, m2, m3}
  ChainOf <- MCChainOf
  Undecodable = {}
  DedupeWindow = 10
  MaxMessages = 3
  MaxAttempts = 2
  MaxDay = 0
  Faults = {"storeDown", "ackLost", "crash"}
  MaxFaults = 1
SYMMETRY MCSymmetry
INVARIANTS
  ChainIntact
  WriterAtStoreHead
  AckedIsStored
PROPERTIES
  ImplementsAuditLog
