SPECIFICATION Spec
CONSTANTS
  Objs = {o1, o2}
  Blocks = {b1, b2, b3, b4, b5, b6}
  Chains = {c1, c2}
  NULL = NULL
  Kinds = {"chain", "stack"}
  MaxSize = 3
  MaxLeaked = 1
  MaxHeld = 1
SYMMETRY Symmetry
CONSTRAINT FewBlocks
PROPERTIES LossesOnlyInReverse ImplementsDeque
