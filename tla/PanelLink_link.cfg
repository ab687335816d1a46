\* Channels of one place; the referee panel's connection fails at will.
SPECIFICATION FairPanelSpec
CONSTANTS
  m1 = m1
  r1 = r1
  Match = {m1}
  NoMatchYet = NoMatchYet
  Station = {r1}
  Team = {254}
  NotListed = NotListed
  Position = {1}
  Records <- LinkRecords
  Infos <- LinkInfos
  NoInfo = NoInfo
  FirstInfo = NoInfo
  Capacity = 1
  MaxWaiting = 1
  Requests = {r1}
  Unreliable = {"referee"}
  Slow = 2
INVARIANTS
  PanelTypeOK
PROPERTIES
  ImplementsEngine
  ShutdownStopsAll
  RecordsAreHandled
CHECK_DEADLOCK FALSE \* all tasks end at shutdown
