SPECIFICATION FairSpec
CONSTANTS
  e1 = e1 e2 = e2 k1 = k1 k2 = k2 t1 = t1 t2 = t2
  Lots = {e1, e2}
  Tickets = {k1}
  Sessions = {t1, t2}
  Dates = {1, 2}
  Today = 2
  MaxQuantity = 2
  MaxStarts = 4
  Overlap = {"consume"}
  NoSession = NoSession
INVARIANTS LedgerAgrees MaterialAgrees
PROPERTIES AccountSpec SessionsEnd
CHECK_DEADLOCK FALSE
