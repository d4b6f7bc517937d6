\* main.rs: a rebuild that produces the same bytes allocates no generation.
SPECIFICATION Spec
CONSTANTS
  Systems = {"s1", "s2"}
  KeySets = {"k1", "k2"}
  Valid <- MCValid
  Registry0 <- MCRegistry0
  Replicas = {r1, r2}
  Gateways = {}
  MaxEdits = 0
  Faults = {}
INVARIANTS
  EveryGenerationIsAChange
