SPECIFICATION Spec
CONSTANTS
  plain = plain
  retried = retried
  generated = generated
  unsigned = unsigned
  id1 = id1
  id2 = id2
  id3 = id3
  NoId = NoId
  Tasks <- MCTasks
  Ids = {id1, id2, id3}
  IdOf <- MCIdOf
  Retrying = {retried}
  Unsigned = {unsigned}
  Conns = {c1, c2}
  SendCount = 2
  MaxAttempts = 2
  SendBound = 3
  MaxRegistered = 2
INVARIANTS
  DuplicatesExactly
CHECK_DEADLOCK FALSE
