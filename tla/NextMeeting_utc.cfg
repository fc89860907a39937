\* A build machine whose clock is on UTC, 8 hours ahead of Pacific
\* standard time (a CI builder).
CONSTANTS
    Meetings <- MC_Meetings
    MachineOffset = 8
    PytzAvailable = TRUE
    MaxTime = 64
SPECIFICATION Spec
INVARIANT PageShowsNextMeeting
