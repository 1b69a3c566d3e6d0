CONSTANTS
  Names <- MCNames
  Upper <- MCUpper
  BaseTypes <- MCBaseTypes
  Schemas <- MCSchemas
  Generators <- MCGenerators
  Stems <- MCStems
  InputLists <- MCInputLists
SPECIFICATION Spec
INVARIANT HeadersCompile
