CONSTANTS
  IntBits <- MCIntBits
  ContainerBits = 64
  BitFields <- WideFields
  SetValues <- WideValues
  ContainerWords <- WordsNone
SPECIFICATION Spec
INVARIANT SetThenGet
