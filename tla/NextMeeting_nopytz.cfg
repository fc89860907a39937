\* pytz not installed.  The docs build stops when the extension fails to
\* load, so deadlock is not a fault here.
CONSTANTS
    Meetings <- MC_Meetings
    MachineOffset = 0
    PytzAvailable = FALSE
    MaxTime = 64
SPECIFICATION Spec
INVARIANT BuildsWithoutPytz
CHECK_DEADLOCK FALSE
