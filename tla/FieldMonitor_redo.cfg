\* A match is discarded while the field status monitor writes.
SPECIFICATION Spec
CONSTANTS
  m1 = m1
  m2 = m2
  idle = idle
  None = none
  Match = {m1, m2, idle}
  Idle = idle
  MaxWire = 1
  MaxCredit = 1
SYMMETRY Symmetry
INVARIANTS
  RedoLeavesNoEntries
