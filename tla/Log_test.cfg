INIT PartsInit
NEXT LogPart
CONSTANTS
  Block = 8
  Field = 4
  Base = 10
  Half = 100
  Mark = 777
  MaxMessage = 26
  Weight <- WeightOf
  Chars <- CharsUsed
  Blanks = {" "}
  Upper <- UpperOf
  Lower <- LowerOf
  NUL = NUL
  Junk = Junk
  Letters = {"a"}
  MaxText = 4
  MaxQuarks = 24
  Strings = {s1, s2}
  Dead = Dead
  Words <- WordsUsed
  MinCapacity = 1
  IntMax = 7
  FindSize = 2
  IntBytes = 4
  MaxTotal = 5
  MaxBoth = 3
  Capacity = 2
  CommandsGiven <- CommandsUsed
  ParamsGiven <- ParamsUsed
  MaxDeclared = 3
  Args <- ArgsUsed
  MaxArgs = 3
  OneLetter = {"w", "c", "s", "o", "v", "7", "0", "x"}
  Number <- NumberUsed
  Initial <- InitialUsed
  NULL = NULL
  Nothing = Nothing
  Paths <- PathsUsed
  MaxData = 2
  Dir = Dir
  Gone = Gone
  Levels = {0, 1}
INVARIANT LogReturns
CHECK_DEADLOCK FALSE
