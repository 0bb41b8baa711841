SPECIFICATION ScoreSpec
CONSTANTS
  Systems = {s1, s2}
  Numbers <- AroundTheBounds
  Modulus = 3
  Bytes32 = 5
  MiMC <- SmallHash
  Nil = Nil
CHECK_DEADLOCK FALSE

INVARIANTS ThresholdIsMet
