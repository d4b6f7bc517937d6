SPECIFICATION CpSpec
CONSTANTS
  r1 = r1  r2 = r2  k1 = k1  k2 = k2  k3 = k3
  Walk <- OneChain
  Replicas = {r1}
  Keys = {k1}
  EveryN = 2
  EveryT = 1
  Faults = {"double", "gap"}
  MaxSeq = 3
  MaxNow = 0
  MaxFaults = 2
INVARIANTS
  RootCoversRange
CHECK_DEADLOCK FALSE
