SPECIFICATION Spec
CONSTANTS
  Callers = {c1, c2}
  Instances = {w1, w2, w3}
  Limit = 1
  NoCall = NoCall
SYMMETRY Symmetric
INVARIANTS OvershootBounded ToldTheTruth
