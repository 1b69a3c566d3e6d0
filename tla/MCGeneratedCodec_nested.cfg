CONSTANTS
  Decl <- NestedDecl
  MaxLen = 6
  HookResults <- MCHookResults
  MallocCanFail = TRUE
SPECIFICATION Spec
INVARIANT NestedRecordsTranscribed
