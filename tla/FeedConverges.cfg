\* A poll and a watch in parallel: sends, polls and subscriptions that fail, then a quiet registry.
SPECIFICATION FairFeedSpec
CONSTANTS
  Systems = {"s1", "s2"}
  KeySets = {"k1", "k2"}
  Valid <- MCSystemsOnly
  Registry0 <- MCRegistry0
  Replicas = {r1}
  Gateways = {g}
  MaxEdits = 2
  Faults = {"send", "unreachable", "resubscribe"}
  Paths = {"poll", "bus"}
  Budget = 0
  MaxBuffer = 1
PROPERTIES
  Converges
