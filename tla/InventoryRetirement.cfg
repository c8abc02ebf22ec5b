SPECIFICATION Spec
CONSTANTS
  i1 = i1 i2 = i2 r1 = r1 r2 = r2 t1 = t1 t2 = t2
  Requests = {r1, r2}
  Items = {i1, i2}
  Sessions = {t1, t2}
  Legacy = {r2}
  LegacyContent = {i1}
  MaxSignatures = 5
  SessionsOverlap = FALSE
  NoRequest = NoRequest
SYMMETRY Symmetry
INVARIANTS AwaitingHasRow SignaturesAgree RetiredByApproval
PROPERTIES SubmittedIsFrozen ChainSpec
CHECK_DEADLOCK FALSE
