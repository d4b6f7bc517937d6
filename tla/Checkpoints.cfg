\* Two replicas that tick one chain and rotate their keys, one fault at any step.
SPECIFICATION CpFairSpec
CONSTANTS
  r1 = r1  r2 = r2  k1 = k1  k2 = k2  k3 = k3
  Walk <- OneChain
  Replicas = {r1, r2}
  Keys = {k1, k2}
  EveryN = 2
  EveryT = 1
  Faults = {"double", "gap", "query", "crash", "rotate"}
  MaxSeq = 2
  MaxNow = 1
  MaxFaults = 1
INVARIANTS
  RootCoversRange
  StartsWhereAnotherEnds
  KeyPublished
  WindowsAbut
PROPERTIES
  SealedUpToBroken
CHECK_DEADLOCK FALSE
