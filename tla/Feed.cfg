\* A poll and a watch in parallel, where sends, polls, subscriptions and the control plane fail.
SPECIFICATION OrderSpec
CONSTANTS
  Systems = {"s1", "s2"}
  KeySets = {"k1", "k2"}
  Valid <- MCValid
  Registry0 <- MCRegistry0
  Replicas = {r1}
  Gateways = {g}
  MaxEdits = 2
  Faults = {"send", "crash", "unreachable", "resubscribe"}
  Paths = {"poll", "bus"}
  Budget = 1
  MaxBuffer = 2
INVARIANTS
  PinsIdentifyContent
  EveryGenerationIsAChange
  BudgetBoundsPolled
PROPERTIES
  TasksInOrder
