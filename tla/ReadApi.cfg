\* Rows, sessions and summaries; the tree over a range; the writings of a value.
SPECIFICATION MCSpec
CONSTANTS
  Hashes = {h1, h2}
  Froms = {1, 2}
  MaxLeaves = 4
  MaxAlter = 2
  Chains = {c1}
  NewEvents <- MCNewEvents
  NewerRows <- MCNewerRows
  Envs <- MCEnvs
  encoded <- encode
  Typed <- MCTyped
  MaxRows = 3
  MaxRestarts = 1
  MaxFaults = 1
INVARIANTS
  ExportKeepsHashes
  SummaryIsOfTheChain
  SessionLasts
  OneWriting
  RootIsOfItsPeaks
  EveryPlaceIsProved
  InclusionBinds
SYMMETRY Sym
CHECK_DEADLOCK FALSE
