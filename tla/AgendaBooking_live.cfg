SPECIFICATION FairSpec
CONSTANTS
  ana = ana beto = beto r1 = r1 r2 = r2 r3 = r3 t1 = t1 t2 = t2 t3 = t3 p1 = p1 p2 = p2
  Students = {ana}
  Slots = {1}
  InitialSlots = {1}
  ClockSlots = {}
  ReqIds = {r1}
  Periods = {p1}
  PeriodTargets = {}
  Sessions = {t1, t2}
  Resolutions = {}
  SessionsOverlap = TRUE
  StaffRewrites = TRUE
  NoSlot = NoSlot NoSession = NoSession NoPeriod = NoPeriod NoReq = NoReq NoStudent = NoStudent
PROPERTY SessionsEnd
