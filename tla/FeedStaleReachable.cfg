\* staleness.rs: stale says that the control plane has not been reachable.
SPECIFICATION FeedSpec
CONSTANTS
  Systems = {"s1", "s2"}
  KeySets = {"k1", "k2"}
  Valid <- MCValid
  Registry0 <- MCRegistry0
  Replicas = {r1}
  Gateways = {g}
  MaxEdits = 1
  Faults = {}
  Paths = {"poll", "bus"}
  Budget = 1
  MaxBuffer = 1
INVARIANTS
  StaleMeansUnreachable
