---------------------------- MODULE PicoTestRunner ----------------------------
(***************************************************************************)
(* rp2040_utils/unit_test_runner.py: main() picks a Pi Pico (the first one *)
(* device_detector finds, or the bus/port/serial port on the command      *)
(* line), and serial_test_runner.run_device_test() flashes it through      *)
(* PiPicoTestingDevice.load_binary and runs the test; main() exits.       *)
(*                                                                         *)
(* serial_test_runner is not in this repository: the model keeps only     *)
(* what the runner relies on, that a failed load_binary fails the test and *)
(* that a loaded test passes or fails.  Time is counted in 0.1 s ticks of *)
(* time.sleep, as in PicoFlasher.                                          *)
(***************************************************************************)
EXTENDS Integers, FiniteSets

CONSTANTS
    Boards,         \* Picos that can be attached
    ArgsBoard,      \* the board named by --usb-bus/--usb-port/--serial-port
    Bus, UsbPort,   \* board -> USB bus number, board -> port on that bus
    SerialPortOf,   \* board -> its serial port
    NoPort,         \* board_info.serial_port is None
    PortNone,       \* the string 'None' that serial_port() returns then
    Timeout,        \* load_binary_timeout = 10.0, in ticks
    DetectSleep,    \* time.sleep(0.3)
    RetrySleep      \* time.sleep(0.1)

Ports == {SerialPortOf[b] : b \in Boards}

ASSUME /\ ArgsBoard \in Boards
       /\ NoPort \notin Ports /\ PortNone \notin Ports \cup {NoPort}
       /\ {Timeout, DetectSleep, RetrySleep} \subseteq Nat \ {0}

VARIABLES
    mode,           \* "detect" (no --serial-port) | "args"
    device,         \* the board of the PiPicoTestingDevice
    pc,             \* "main" | "load" | "wait" | "detect" | "connect" |
                    \* "test" | "exit" | "done"
    clock,          \* ticks since start_time in load_binary
    serial_port,    \* self._board_info.serial_port
    enumerated,     \* boards whose serial port currently exists
    enumAt,         \* the clock when the device's port came back
    tried,          \* ports serial.Serial() was called with
    loaded,         \* load_binary returned True
    test_passed,    \* main's test_passed
    exitCode        \* the process exit status, -1 while running

vars == <<mode, device, pc, clock, serial_port, enumerated, enumAt, tried,
          loaded, test_passed, exitCode>>

\* PiPicoTestingDevice.serial_port(): the string 'None' for a missing port.
SerialPortName == IF serial_port = NoPort THEN PortNone ELSE serial_port

\* Mutant: the device loop compares only the bus, not the port on it.
DetectedPort_bus_only ==
    LET found == {b \in enumerated : Bus[b] = Bus[device]}
    IN IF found = {} THEN serial_port
       ELSE SerialPortOf[CHOOSE b \in found : TRUE]

\* The loop over detect_boards() in load_binary: the port of the attached
\* board on the device's bus and port, or the old value when none matches.
DetectedPort ==
    LET found == {b \in enumerated : /\ Bus[b] = Bus[device]
                                     /\ UsbPort[b] = UsbPort[device]}
    IN IF found = {} THEN serial_port
       ELSE SerialPortOf[CHOOSE b \in found : TRUE]

PortExists(p) == \E b \in enumerated : SerialPortOf[b] = p

-----------------------------------------------------------------------------

Init ==
    /\ mode \in {"detect", "args"}
    /\ device = ArgsBoard
    /\ pc = "main"
    /\ clock = 0
    /\ serial_port = NoPort
    /\ enumerated \in SUBSET Boards
    /\ enumAt = 0
    /\ tried = {}
    /\ loaded = FALSE
    /\ test_passed = FALSE
    /\ exitCode = -1

\* main(): detect_and_run_test raises DeviceNotFound when no board is
\* found (an uncaught exception, exit status 1), else tests boards[0] with
\* the serial port the detector reports (None for a board in BOOTSEL mode);
\* run_device_test builds the BoardInfo from the command line.
Main ==
    /\ pc = "main"
    /\ \/ /\ mode = "detect" /\ enumerated = {}
          /\ pc' = "done" /\ exitCode' = 1
          /\ UNCHANGED <<device, serial_port>>
       \/ /\ mode = "detect"
          /\ \E b \in enumerated :
                /\ device' = b
                /\ serial_port' \in {NoPort, SerialPortOf[b]}
          /\ pc' = "load" /\ UNCHANGED exitCode
       \/ /\ mode = "args"
          /\ device' = ArgsBoard /\ serial_port' = SerialPortOf[ArgsBoard]
          /\ pc' = "load" /\ UNCHANGED exitCode
    /\ UNCHANGED <<mode, clock, enumerated, enumAt, tried, loaded,
                   test_passed>>

\* load_binary: picotool load -x; a failure returns False, a success
\* reboots the board and starts the wait for its serial port.
LoadBinary ==
    /\ pc = "load"
    /\ \/ /\ pc' = "test" /\ UNCHANGED enumerated
       \/ /\ pc' = "wait" /\ enumerated' = enumerated \ {device}
    /\ UNCHANGED <<mode, device, clock, serial_port, enumAt, tried, loaded,
                   test_passed, exitCode>>

\* Mutant: no deadline, "This will retry forever" as the comment says.
WaitHead_retry_forever ==
    /\ pc = "wait"
    /\ pc' = IF serial_port = NoPort THEN "detect" ELSE "connect"
    /\ clock' = IF serial_port = NoPort THEN clock + DetectSleep ELSE clock
    /\ UNCHANGED <<mode, device, serial_port, enumerated, enumAt, tried,
                   loaded, test_passed, exitCode>>

\* The head of the while loop; past the deadline load_binary returns False.
\* A port is looked for when serial_port() is falsy or 'None'.
WaitHead ==
    /\ pc = "wait"
    /\ IF clock < Timeout
          THEN /\ pc' = IF serial_port = NoPort THEN "detect" ELSE "connect"
               /\ clock' = IF serial_port = NoPort THEN clock + DetectSleep
                                                   ELSE clock
          ELSE /\ pc' = "test" /\ UNCHANGED clock
    /\ UNCHANGED <<mode, device, serial_port, enumerated, enumAt, tried,
                   loaded, test_passed, exitCode>>

Detect ==
    /\ pc = "detect"
    /\ serial_port' = DetectedPort
    /\ pc' = "connect"
    /\ UNCHANGED <<mode, device, clock, enumerated, enumAt, tried, loaded,
                   test_passed, exitCode>>

\* `if self.serial_port():` is true for the string 'None' too, so every
\* turn calls serial.Serial; a SerialException sleeps 0.1 s.
Connect ==
    /\ pc = "connect"
    /\ tried' = tried \cup {SerialPortName}
    /\ IF PortExists(SerialPortName)
          THEN /\ pc' = "test" /\ loaded' = TRUE /\ UNCHANGED clock
          ELSE /\ pc' = "wait" /\ clock' = clock + RetrySleep
               /\ UNCHANGED loaded
    /\ UNCHANGED <<mode, device, serial_port, enumerated, enumAt,
                   test_passed, exitCode>>

\* serial_test_runner.run_device_test: a test that was not loaded fails,
\* a loaded one passes or fails.
RunTest ==
    /\ pc = "test"
    /\ test_passed' \in IF loaded THEN BOOLEAN ELSE {FALSE}
    /\ pc' = "exit"
    /\ UNCHANGED <<mode, device, clock, serial_port, enumerated, enumAt,
                   tried, loaded, exitCode>>

\* The end of main(): sys.exit(0 if test_passed else 1) sits in the else
\* branch only; when main() returns normally the exit status is 0.
Exit ==
    /\ pc = "exit"
    /\ exitCode' = IF mode = "args" /\ ~test_passed THEN 1 ELSE 0
    /\ pc' = "done"
    /\ UNCHANGED <<mode, device, clock, serial_port, enumerated, enumAt,
                   tried, loaded, test_passed>>

\* The rebooted board enumerates its serial port again.
Enumerate ==
    /\ pc \in {"wait", "detect", "connect"}
    /\ device \notin enumerated
    /\ enumerated' = enumerated \cup {device}
    /\ enumAt' = clock
    /\ UNCHANGED <<mode, device, pc, clock, serial_port, tried, loaded,
                   test_passed, exitCode>>

Runner == Main \/ LoadBinary \/ WaitHead \/ Detect \/ Connect \/ RunTest \/ Exit

Next == Runner \/ Enumerate

Spec == Init /\ [][Next]_vars

-----------------------------------------------------------------------------

\* The types, and the time the loop may run past the deadline: at most the
\* sleeps of the turn that began just before it.
TypeOK ==
    /\ mode \in {"detect", "args"}
    /\ device \in Boards
    /\ pc \in {"main", "load", "wait", "detect", "connect", "test", "exit",
               "done"}
    /\ clock \in 0..(Timeout + DetectSleep + RetrySleep - 1)
    /\ serial_port \in Ports \cup {NoPort}
    /\ enumerated \subseteq Boards
    /\ tried \subseteq Ports \cup {PortNone}
    /\ loaded \in BOOLEAN /\ test_passed \in BOOLEAN
    /\ exitCode \in {-1, 0, 1}

\* The runner exits with status 0 exactly when the device test passed: the
\* status is what a presubmit or CI step sees of the test.
ExitStatusReflectsResult ==
    pc = "done" => (exitCode = 0 <=> test_passed)

\* load_binary opens the serial port of the board it flashed, never that of
\* another Pico on the same USB bus.
ConnectedToDevice ==
    loaded => SerialPortName = SerialPortOf[device]

\* load_binary reports a failed flash only when the board's port had not
\* come back before the 10 s deadline.
NoTimeoutWhenBackInTime ==
    (pc = "test" /\ ~loaded /\ clock >= Timeout)
        => ~(device \in enumerated /\ enumAt < Timeout)

=============================================================================
