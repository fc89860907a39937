CONSTANTS
    b1 = b1  b2 = b2  ttyACM0 = ttyACM0  ttyACM1 = ttyACM1
    NoPort = NoPort
    Boards <- MC_Boards
    Target = b1
    Bus <- MC_Bus
    UsbPort <- MC_UsbPort
    SerialPortOf <- MC_SerialPortOf
    Timeout = 100
    DetectSleep = 3
    RetrySleep = 1
    ResetSleep = 5
SPECIFICATION Spec
INVARIANTS
    TypeOK
    ConnectedToTarget
    NoTimeoutWhenBackInTime
\* flash() returns and the runner exits: the final states have no successor.
CHECK_DEADLOCK FALSE
