\* clickhouse.rs: a partial insert costs a redelivery.
SPECIFICATION Spec
CONSTANTS
  a = a
  b = b
  m1 = m1
  m2 = m2
  m3 = m3
  x = x
  Chains = {a, b}
  Messages = {m1, m3}
  ChainOf <- MCChainOfTwo
  Undecodable = {}
  DedupeWindow = 10
  MaxMessages = 3
  MaxAttempts = 1
  MaxDay = 0
  Faults = {"lostReply"}
  MaxFaults = 1
INVARIANTS
  SeqNotReused
