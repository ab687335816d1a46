\* Two matches and a test match, drops and restarts.
SPECIFICATION Spec
CONSTANTS
  m1 = m1
  m2 = m2
  idle = idle
  None = none
  Match = {m1, m2, idle}
  Idle = idle
  MaxWire = 2
  MaxCredit = 1
SYMMETRY Symmetry
INVARIANTS
  TypeOK
  InfoIsCurrent
  CompletedWasPlayed
  ResetOnlyReplayed
  RedoIsNoticed
