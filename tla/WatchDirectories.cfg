CONSTANTS
    Dirs <- MC_Dirs
    Files <- MC_Files
    ToWatch <- MC_ToWatch
    NoEnv = NoEnv
    ExcludeLists <- UserExcludeLists
    BuildDirLists <- OutBuildDirLists
    PwRoots <- MC_PwRoots
    ProjectRoots <- MC_ProjectRoots
    SetupErrors = {"ENOSPC", "EMFILE"}
SPECIFICATION Spec
INVARIANTS
    TypeOK
    ChangeReportedOnce
\* pw watch ends when the setup stops it.
CHECK_DEADLOCK FALSE
