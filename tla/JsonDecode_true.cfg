SPECIFICATION DecodeSpec
CONSTANTS
  Lexemes <- AllLexemes
  Builds = {"difference"}
  MaxLexemes = 2
INVARIANT TrueIsDecoded
CHECK_DEADLOCK FALSE
