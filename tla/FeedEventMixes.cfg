\* config_feed.rs: the event pins the two configurations of the transition.
SPECIFICATION FeedSpec
CONSTANTS
  Systems = {"s1", "s2"}
  KeySets = {"k1"}
  Valid <- MCSystemsOnly
  Registry0 <- MCRegistry0
  Replicas = {r1}
  Gateways = {g}
  MaxEdits = 2
  Faults = {}
  Paths = {"poll", "bus"}
  Budget = 0
  MaxBuffer = 1
PROPERTIES
  EventsDescribeTheChange
