\* Whatever is refused, lost, committed without a reply or restarted, nothing is lost or held up.
SPECIFICATION FairSpec
CONSTANTS
  a = a
  b = b
  m1 = m1
  m2 = m2
  m3 = m3
  x = x
  Chains = {a, b}
  Messages = {m1, x}
  ChainOf <- MCChainOfPoison
  Undecodable = {x}
  DedupeWindow = 10
  MaxMessages = 3
  MaxAttempts = 2
  MaxDay = 0
  Faults = {"storeDown", "ackLost", "crash", "lostReply", "beatFail"}
  MaxFaults = 2
PROPERTIES
  EveryMessageSettles
