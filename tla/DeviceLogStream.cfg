\* Two entries, two ends of the call: an error then a completion, or two
\* errors, each with entries before and after it.
CONSTANTS
    LineNumbers <- MC_LineNumbers
    MaxSent = 2
    MaxEnds = 2
SPECIFICATION Spec
INVARIANTS
    TypeOK
    LevelPreserved
PROPERTIES
    ErrorReopens
\* A completed stream is never opened again, and the device's bounds run
\* out: the client then waits for packets that do not come.
CHECK_DEADLOCK FALSE
