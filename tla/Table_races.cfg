\* Two ids, two indexes and two clients: batches of both, lifetimes, one fault.
SPECIFICATION Spec
SYMMETRY Symmetry
CONSTANTS
  i1 = i1
  i2 = i2
  x1 = x1
  x2 = x2
  c1 = c1
  c2 = c2
  Id = {i1, i2}
  Index = {x1, x2}
  Data = Data
  Value = {v}
  Empty = Empty
  Client = {c1, c2}
  MaxBatch = 2
  MaxCalls = 3
  MaxFaults = 1
INVARIANTS
  TypeOK
  StoredRecordIsIndexed
  RemovedWithoutTrace
  AnswerIsComplete
CHECK_DEADLOCK FALSE
