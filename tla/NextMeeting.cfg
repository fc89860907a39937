\* A build machine on Pacific time, with pytz installed.
CONSTANTS
    Meetings <- MC_Meetings
    MachineOffset = 0
    PytzAvailable = TRUE
    MaxTime = 64
SPECIFICATION Spec
INVARIANTS
    TypeOK
    PageShowsNextMeeting
