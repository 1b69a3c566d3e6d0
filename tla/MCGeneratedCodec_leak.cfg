CONSTANTS
  Decl <- FlatDecl
  MaxLen = 6
  HookResults <- MCHookResults
  MallocCanFail = TRUE
SPECIFICATION Spec
INVARIANT NoLeakOnError
