\* Three calls, so that two can be queued, with one retry each; three processes.
\* Calls end and the application makes no more: nothing is left to do then.
CONSTANTS
  Call = {c1, c2, c3}
  None = None
  Retries = 1
  MaxSpawns = 3
SPECIFICATION Spec
SYMMETRY Symmetry
INVARIANTS
  TypeOK
  AnsweredInOrder
  AlignedWhileCalm
  WaitingTracked
  TimersFollowEntries
  QueueBehindPending
CHECK_DEADLOCK FALSE
