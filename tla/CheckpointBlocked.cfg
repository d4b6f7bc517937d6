SPECIFICATION CpFairSpec
CONSTANTS
  r1 = r1  r2 = r2  k1 = k1  k2 = k2  k3 = k3
  Walk <- TwoChains
  Replicas = {r1}
  Keys = {k1}
  EveryN = 1
  EveryT = 1
  Faults = {"gap"}
  MaxSeq = 2
  MaxNow = 0
  MaxFaults = 1
PROPERTIES
  EverySoundChainSealed
CHECK_DEADLOCK FALSE
