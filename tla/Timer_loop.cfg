SPECIFICATION PromptSpec
CONSTANTS
  Timers = {t1, t2}
  NULL = NULL
  Day = 3
  Delays = {0, 2, 3}
  Returns = {0, 1, 2}
  MaxDepth = 1
PROPERTY DueTimersTaken
