CONSTANTS
  Decl <- FlatDecl
  MaxLen = 6
  HookResults <- MCHookResults
  MallocCanFail = TRUE
SPECIFICATION Spec
INVARIANT TypeOK
INVARIANT DecodeConsumesWire
INVARIANT ExactFitDecodes
INVARIANT EncodeMirrorsDecode
INVARIANT Ownership
PROPERTY ContractSpec
