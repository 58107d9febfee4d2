\* Two processes, two versions, two keys, two power losses and a replaced directory.
SPECIFICATION Spec
CONSTANTS
  p1 = p1
  p2 = p2
  Proc = {p1, p2}
  MaxVersion = 2
  MaxKeys = 2
  MaxDirs = 2
  MaxPowerLoss = 2
  Nil = Nil
SYMMETRY Symmetry
INVARIANTS SealFitsKey OpenIsExclusive
PROPERTY RegisterSpec
