\* One match whose teams are known, no losses: fouls, auto calls and a card,
\* in any sequence, delivered in full, with
\* commits in between.
SPECIFICATION LinkSpec
CONSTANTS
  m1 = m1
  m2 = m2
  r1 = r1
  r2 = r2
  r3 = r3
  Match = {m1}
  NoMatchYet = NoMatchYet
  Station = {r1, r2, r3}
  Team = {254}
  NotListed = NotListed
  Position = {1}
  Records <- LinkRecords
  Infos <- NoInfos
  NoInfo = NoInfo
  FirstInfo <- Listed
  Capacity = 1
  MaxWaiting = 1
  Requests = {"commit"}
  FirstMatch = m1
  MaxLosses = 0
  MaxRedos = 0
  MaxLoads = 0
INVARIANTS
  TypeOK
  LedgerMatchesSent
  ResendIsSilent
  FoulsShown
  CardsShown
  AgreedClimbShown
PROPERTIES
  DeleteHitsAFoul
