\* An observer that cannot watch a directory it may not read (EACCES).
CONSTANTS
    Dirs <- MC_Dirs
    Files <- MC_Files
    ToWatch <- MC_ToWatch
    NoEnv = NoEnv
    ExcludeLists <- UserExcludeLists
    BuildDirLists <- OutBuildDirLists
    PwRoots <- MC_PwRoots
    ProjectRoots <- MC_ProjectRoots
    SetupErrors = {"ENOSPC", "EMFILE", "EACCES"}
SPECIFICATION Spec
INVARIANT WatchFailureEndsProcess
\* pw watch ends when the setup stops it.
CHECK_DEADLOCK FALSE
