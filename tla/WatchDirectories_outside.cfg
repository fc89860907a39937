\* A build directory outside the working directory.
CONSTANTS
    Dirs <- MC_Dirs
    Files <- MC_Files
    ToWatch <- MC_ToWatch
    NoEnv = NoEnv
    ExcludeLists <- NoUserExcludes
    BuildDirLists <- OutsideBuildDirLists
    PwRoots <- UpstreamRoots
    ProjectRoots <- UpstreamRoots
    SetupErrors = {}
SPECIFICATION Spec
INVARIANT SetupCompletes
CHECK_DEADLOCK FALSE
