SPECIFICATION Spec
CONSTANTS
  Blocks = {b1, b2, b3}
  App = App
  NULL = NULL
  Variables = 2
  Min = 2
  Capacities = {0, 1}
  Decoded = {0, 2}
  Garbage = {0, 1, 4}
  MaxSize = 5
SYMMETRY Symmetry
CONSTRAINT Few
INVARIANT OneOwner
PROPERTY OutsideOnly
CHECK_DEADLOCK FALSE
