CONSTANTS
  Captures = {c1, c2, c3}
  Recalls = {t1}
  MaxScore = 2
  MaxLimit = 3
SYMMETRY RecallSymmetry
SPECIFICATION Spec
CHECK_DEADLOCK FALSE
INVARIANT AppendsAreHarmless
