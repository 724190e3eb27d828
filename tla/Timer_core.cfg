SPECIFICATION Spec
CONSTANTS
  Timers = {t1, t2, t3}
  NULL = NULL
  Day = 3
  Delays <- DelaysUsed
  Returns = {0, 1, 2}
  MaxDepth = 3
SYMMETRY Symmetry
INVARIANT QueueOK
PROPERTIES NeverEarly CancelIsFinal ImplementsQueue
