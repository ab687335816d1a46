\* Three matches and no match, all callers: every interleaving of two distinct
\* calls, or of one call and the completion of all three matches (so that the
\* rotation of two passes zero and wraps around), each of which any task may make
\* any number of times, with a failed or cancelled call or a restart of the server.
SPECIFICATION Spec
SYMMETRY Symmetry
CONSTANTS
  m1 = m1
  m2 = m2
  m3 = m3
  idle = idle
  rn = rn
  rf = rf
  e1 = e1
  e2 = e2
  s1 = s1
  s2 = s2
  h1 = h1
  v1 = v1
  fm = fm
  fsm = fsm
  Match = {m1, m2, m3, idle}
  NoMatch = idle
  Panel = {rn, rf}
  Entry = {e1, e2}
  Unset = Unset
  Missing = Missing
  RefereeStream = {s1, s2}
  HeadStream = {h1}
  Viewer = {v1}
  FieldMonitor = fm
  FieldStatusMonitor = fsm
  FmsOp = {"field", "complete", "reset"}
  MatchRotations = 2
  MaxCalls = 2
  MaxFaults = 1
  MaxClock = 1
INVARIANTS
  TypeOK
  WarningHasDeadline
  CompletedIsCounted
  EntriesStayInTheirSlot
  IdleMatchStaysEmpty
PROPERTIES
  RotationCountsDown
