CONSTANTS
  Requests = {r1, r2, r3}
  Urls = {u1}
  Untimed = {}
  Processes = {p1, p2}
  NoRequest = NoRequest
  NoUrl = NoUrl
  NoProcess = NoProcess
SYMMETRY RequestSymmetry
SPECIFICATION Spec
INVARIANTS
  TypeOK
  RowHasCompleteFile
  TransactionOwnership
  CacheMatchesIndex
  SequentialDedup
  AnswerMatchesIndex
  PhantomsNeedAFailure
PROPERTY ImplementsIndexedVault
