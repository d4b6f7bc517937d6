SPECIFICATION EvSpec
CONSTANTS
  r1 = r1  r2 = r2  k1 = k1  k2 = k2
  Walk <- OneChain
  Replicas = {r1, r2}
  Keys = {k1, k2}
  EveryN = 1
  EveryT = 0
  Faults = {"double", "gap", "cut"}
  MaxSeq = 3
  MaxNow = 0
  MaxFaults = 2
  Page = 1
  Damages = {"lost", "twice", "swapped", "edited", "resealed", "relinked", "rules", "signature", "unreadable"}
  MaxDamage = 2
SYMMETRY Alike
VIEW EvView
CONSTRAINT Bounded
INVARIANTS
  SoundPackVerifies
  CleanMeansUnchanged
  AttestedMeansSealed
  RunsAreExact
  OneEditOneFinding
CHECK_DEADLOCK FALSE
