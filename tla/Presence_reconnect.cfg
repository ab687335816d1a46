\* Two connections that claim, switch, drop and come back, two counted panels
\* and an uncounted one, one head referee.
SPECIFICATION FairSpec
CONSTANTS
  rn = rn
  rf = rf
  s1 = s1
  s2 = s2
  h1 = h1
  Panel = {rn, rf}
  Other = Other
  None = None
  Stream = {s1, s2}
  Viewer = {h1}
  MaxQueue = 1
INVARIANTS
  CountsAreHolders
  EventsKeepUp
PROPERTIES
  HeartbeatRepairs
