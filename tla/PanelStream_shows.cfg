\* Each API on its own: two matches, the near and the far panel, one fault.
SPECIFICATION FairSpec
CONSTANTS
  m0 = m0
  m1 = m1
  near = near
  far = far
  Match = {m0, m1}
  Idle = m0
  Panel = {near, far}
  Partner <- Across
  Type = {near}
  Unset = Unset
  MaxInfos <- Infos
  MaxWrites <- Writes
  MaxMoves = 1
  MaxFaults = 1
INVARIANTS
  TypeOK
  ShownOfItsMatch
PROPERTIES
  ShowsWhatIsStored
  InfoNeverGoesBack
CHECK_DEADLOCK FALSE
