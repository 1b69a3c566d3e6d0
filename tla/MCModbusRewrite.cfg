CONSTANTS
  Holding = Holding
  Coils = Coils
  Absent = Absent
  FileList <- MCFileList
  Inputs <- MCInputs
  Updaters = {"v1", "v2"}
SPECIFICATION Spec
INVARIANT RewriteKeepsErrLegal
