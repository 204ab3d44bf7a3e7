SPECIFICATION Spec
CONSTANTS
  Cells = {x, y}
  Subscribers = {s1, s2, s3}
  MaxOps = 2
  MaxSteps = 2
  MayThrow = {"write"}
SYMMETRY Symmetry
INVARIANTS
  CommitCopiesFollow
  ApplyCopiesFollow
