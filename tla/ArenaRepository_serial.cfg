\* Calls that never overlap and never fail.
SPECIFICATION SerialSpec
SYMMETRY Symmetry
CONSTANTS
  m1 = m1
  m2 = m2
  m3 = m3
  idle = idle
  rn = rn
  rf = rf
  e1 = e1
  e2 = e2
  s1 = s1
  s2 = s2
  h1 = h1
  v1 = v1
  fm = fm
  fsm = fsm
  Match = {m1, idle}
  NoMatch = idle
  Panel = {rn}
  Entry = {e1, e2}
  Unset = Unset
  Missing = Missing
  RefereeStream = {s1}
  HeadStream = {h1}
  Viewer = {v1}
  FieldMonitor = fm
  FieldStatusMonitor = fsm
  FmsOp = {"field", "complete", "reset"}
  MatchRotations = 2
  MaxCalls = 3
  MaxFaults = 0
  MaxClock = 1
INVARIANTS
  SubscribersUpToDate
PROPERTIES
  ImplementsMatchStore
