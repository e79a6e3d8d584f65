CONSTANTS
  None = None
  Items = {x}
  ProtoPathValues <- MCProtoPaths
  OutDirs = {"custom"}
  FilePaths = {"fds"}
  ServicePaths <- MCServicePaths
  MaxCalls = 2
  MaxRuns = 2
  Files <- MCFiles
  Packages <- MCPackages
SPECIFICATION Spec
INVARIANT ServerTraitParity
\* The build script ends after its last run.
CHECK_DEADLOCK FALSE
