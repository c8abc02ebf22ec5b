SPECIFICATION Spec
CONSTANTS
  ana = ana beto = beto r1 = r1 r2 = r2 r3 = r3 t1 = t1 t2 = t2 t3 = t3 p1 = p1 p2 = p2
  Students = {ana, beto}
  Slots = {1}
  InitialSlots = {1}
  ClockSlots = {1}
  ReqIds = {r1, r2}
  Periods = {p1, p2}
  PeriodTargets = {p2, NoPeriod}
  Sessions = {t1, t2}
  Resolutions = {"RESOLVED_SUCCESS"}
  SessionsOverlap = FALSE
  StaffRewrites = FALSE
  NoSlot = NoSlot NoSession = NoSession NoPeriod = NoPeriod NoReq = NoReq NoStudent = NoStudent
SYMMETRY Symmetry
INVARIANTS BookedAgrees OneRequestPerPeriod
