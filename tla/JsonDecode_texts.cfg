SPECIFICATION FairSpec
CONSTANTS
  Lexemes <- MostLexemes
  Builds = {"sign", "difference"}
  MaxLexemes = 7
INVARIANTS StackOK AcceptsGrammar
PROPERTY Returns
CHECK_DEADLOCK FALSE
