CONSTANTS
    b1 = b1  b2 = b2  ttyACM0 = ttyACM0  ttyACM1 = ttyACM1
    NoPort = NoPort  PortNone = PortNone
    Boards <- MC_Boards
    Bus <- MC_Bus
    UsbPort <- MC_UsbPort
    SerialPortOf <- MC_SerialPortOf
    ArgsBoard = b1
    Timeout = 100
    DetectSleep = 3
    RetrySleep = 1
SPECIFICATION Spec
INVARIANT NoTimeoutWhenBackInTime
CHECK_DEADLOCK FALSE
