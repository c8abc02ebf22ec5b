SPECIFICATION Spec
CONSTANTS
  i1 = i1 i2 = i2 r1 = r1 r2 = r2 t1 = t1 t2 = t2
  Requests = {r1, r2}
  Items = {i1}
  Sessions = {t1}
  Legacy = {}
  LegacyContent = {}
  MaxSignatures = 4
  SessionsOverlap = FALSE
  NoRequest = NoRequest
SYMMETRY Symmetry
INVARIANT OneLiveRequest
CHECK_DEADLOCK FALSE
