\* bus.rs: no superseded generation is replayed into a live gateway.
SPECIFICATION FeedSpec
CONSTANTS
  Systems = {"s1", "s2"}
  KeySets = {"k1"}
  Valid <- MCSystemsOnly
  Registry0 <- MCRegistry0
  Replicas = {r1}
  Gateways = {g}
  MaxEdits = 1
  Faults = {}
  Paths = {"poll", "bus"}
  Budget = 0
  MaxBuffer = 1
PROPERTIES
  NeverBack
