\* A build directory out/cmake beside the common exclude out.
CONSTANTS
    Dirs <- MC_Dirs
    Files <- MC_Files
    ToWatch <- MC_ToWatch
    NoEnv = NoEnv
    ExcludeLists <- NoUserExcludes
    BuildDirLists <- NestedBuildDirLists
    PwRoots <- UpstreamRoots
    ProjectRoots <- UpstreamRoots
    SetupErrors = {}
SPECIFICATION Spec
INVARIANT ChangeReportedOnce
