CONSTANTS
  IntBits <- MCIntBits
  ContainerBits = 32
  BitFields <- PackedFields
  SetValues <- PackedValues
  ContainerWords <- WordsU32
SPECIFICATION Spec
INVARIANT TypeOK
INVARIANT SetThenGet
INVARIANT SetKeepsOthers
