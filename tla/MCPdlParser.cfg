CONSTANTS
  BaseTypes <- MCBaseTypes
  Numerals <- MCNumerals
  Inputs <- MCInputs
SPECIFICATION Spec
INVARIANTS TypeOK ProcessFollowsParse
