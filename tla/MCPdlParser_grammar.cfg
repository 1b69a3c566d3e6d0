CONSTANTS
  BaseTypes <- MCBaseTypes
  Numerals <- MCNumerals
  Inputs <- MCInputs
SPECIFICATION Spec
INVARIANT ParseMatchesGrammar
