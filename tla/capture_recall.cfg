CONSTANTS
  Requests = {r1, r2}
  Urls = {u1}
  Untimed = {}
  Processes = {p1, p2}
  NoRequest = NoRequest
  NoUrl = NoUrl
  NoProcess = NoProcess
  Recalls = {t1}
  MaxScore = 1
  MaxLimit = 2
  Observed = p1
SYMMETRY BothSymmetry
SPECIFICATION Spec
CHECK_DEADLOCK FALSE
INVARIANTS HitsAreStored
PROPERTIES ReadYourCaptures ImplementsRecall
