\* A tablet through loads, redos, faults, restarts, logouts and logins.
SPECIFICATION FairSpec
CONSTANTS
  m0 = m0
  m1 = m1
  near = near
  far = far
  Match = {m0, m1}
  Idle = m0
  Panel = {near, far}
  Out = Out
  MaxEdits = 1
  MaxTurns = 2
  MaxFaults = 1
  MaxLogins = 2
INVARIANTS
  EntriesOfTheirMatch
  WaitingIsBlank
PROPERTIES
  LatestIsTold
  FollowsMatch
CHECK_DEADLOCK FALSE \* the bounds may be used up
