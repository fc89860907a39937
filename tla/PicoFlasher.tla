----------------------------- MODULE PicoFlasher -----------------------------
(***************************************************************************)
(* rp2040_utils/flasher.py: flash() loads a binary onto a Pi Pico, either  *)
(* with picotool (the board reboots and its USB serial port must come back *)
(* before the deadline) or with a debug probe (probe-rs download, reset,   *)
(* a fixed sleep).                                                         *)
(*                                                                         *)
(* Time is the integer clock, in ticks of 0.1 s since start_time: only     *)
(* time.sleep advances it, subprocess and USB calls take no time.  The USB *)
(* bus is the environment: the flashed board's port reappears whenever it  *)
(* likes (Enumerate), or never; the other boards stay attached.            *)
(***************************************************************************)
EXTENDS Naturals, FiniteSets, Sequences

CONSTANTS
    Boards,         \* boards attached to the host
    Target,         \* the board given to flash()
    Bus, UsbPort,   \* board -> USB bus number, board -> port on that bus
    SerialPortOf,   \* board -> the serial port its firmware enumerates as
    NoPort,         \* board_info.serial_port is None
    Timeout,        \* timeout_seconds = 10.0, in ticks
    DetectSleep,    \* time.sleep(0.3) before detect_boards()
    RetrySleep,     \* time.sleep(0.1) after a SerialException
    ResetSleep      \* time.sleep(0.5) after a debug-probe reset

ASSUME /\ Target \in Boards
       /\ NoPort \notin {SerialPortOf[b] : b \in Boards}
       /\ {Timeout, DetectSleep, RetrySleep, ResetSleep} \subseteq Nat \ {0}
       /\ ResetSleep < Timeout

\* The ELF locations find_elf() tries, in order, for a binary with a suffix.
ElfChoices == <<"stem.elf", "bin/stem.elf", "test/stem.elf">>
Suffixes == {".elf", "", ".bin"}

VARIABLES
    kind,           \* "picotool" | "debugprobe": the class of board_info
    suffix,         \* binary.suffix
    elfFiles,       \* the ElfChoices entries that exist
    pc,             \* "flash" | "wait" | "detect" | "connect" | "done"
    clock,          \* ticks since start_time
    serial_port,    \* board_info.serial_port
    enumerated,     \* boards whose serial port currently exists
    enumAt,         \* the clock when Target's port came back
    opened,         \* the port serial.Serial() opened, or NoPort
    result          \* "pending" | "ok" | "failed" | "timeout"

vars == <<kind, suffix, elfFiles, pc, clock, serial_port, enumerated,
          enumAt, opened, result>>

\* find_elf(binary): the binary itself when it has no suffix or is an ELF,
\* else the first candidate that is a file, else None.
find_elf(sfx, files) ==
    IF sfx \in {".elf", ""} THEN "binary"
    ELSE LET found == SelectSeq(ElfChoices, LAMBDA c : c \in files)
         IN IF found = <<>> THEN "none" ELSE Head(found)

\* Mutant: the device loop compares only the bus, not the port on it.
DetectedPort_bus_only ==
    LET found == {b \in enumerated : Bus[b] = Bus[Target]}
    IN IF found = {} THEN serial_port
       ELSE SerialPortOf[CHOOSE b \in found : TRUE]

\* The loop over detect_boards(): the port of the attached board on the
\* same bus and port as board_info, or the old value when there is none.
DetectedPort ==
    LET found == {b \in enumerated : /\ Bus[b] = Bus[Target]
                                     /\ UsbPort[b] = UsbPort[Target]}
    IN IF found = {} THEN serial_port
       ELSE SerialPortOf[CHOOSE b \in found : TRUE]

\* serial.Serial(port=...) succeeds when that port exists.
PortExists(p) == \E b \in enumerated : SerialPortOf[b] = p

-----------------------------------------------------------------------------

\* A board is found by device_detector either in BOOTSEL mode (no serial
\* port known) or running firmware (its port known and present).
Init ==
    /\ kind \in {"picotool", "debugprobe"}
    /\ suffix \in Suffixes
    /\ elfFiles \in SUBSET {ElfChoices[i] : i \in DOMAIN ElfChoices}
    /\ pc = "flash"
    /\ clock = 0
    /\ serial_port \in {NoPort, SerialPortOf[Target]}
    /\ enumerated = (Boards \ {Target}) \cup
                    (IF serial_port = NoPort THEN {} ELSE {Target})
    /\ enumAt = 0
    /\ opened = NoPort
    /\ result = "pending"

\* flash() for a PicoDebugProbeBoardInfo: _load_debugprobe_binary.  Each of
\* find_elf, probe-rs download and probe-rs reset may fail; on success the
\* device gets a fixed 0.5 s and flash() returns True without waiting.
LoadDebugProbe ==
    /\ pc = "flash" /\ kind = "debugprobe"
    /\ pc' = "done"
    /\ IF find_elf(suffix, elfFiles) = "none"
          THEN /\ result' = "failed" /\ UNCHANGED clock
          ELSE \/ /\ result' = "failed" /\ UNCHANGED clock   \* download
               \/ /\ result' = "failed" /\ UNCHANGED clock   \* reset
               \/ /\ result' = "ok" /\ clock' = clock + ResetSleep
    /\ UNCHANGED <<kind, suffix, elfFiles, serial_port, enumerated, enumAt,
                   opened>>

\* flash() for a PicoBoardInfo: _load_picotool_binary.  picotool load -x
\* reboots the board, so its serial port goes away; on success
\* _wait_for_serial_port starts its clock.
LoadPicotool ==
    /\ pc = "flash" /\ kind = "picotool"
    /\ \/ /\ result' = "failed" /\ pc' = "done"
          /\ UNCHANGED enumerated
       \/ /\ pc' = "wait"
          /\ enumerated' = enumerated \ {Target}
          /\ UNCHANGED result
    /\ UNCHANGED <<kind, suffix, elfFiles, clock, serial_port, enumAt, opened>>

\* Mutant: no deadline, the loop retries forever (as the comment on the
\* copy of this loop in unit_test_runner.py says).
WaitHead_retry_forever ==
    /\ pc = "wait"
    /\ pc' = IF serial_port = NoPort THEN "detect" ELSE "connect"
    /\ clock' = IF serial_port = NoPort THEN clock + DetectSleep ELSE clock
    /\ UNCHANGED <<kind, suffix, elfFiles, serial_port, enumerated, enumAt,
                   opened, result>>

\* Mutant: the deadline check also counts the 0.3 s sleep that follows it.
WaitHead_deadline_after_sleep ==
    /\ pc = "wait"
    /\ IF clock + (IF serial_port = NoPort THEN DetectSleep ELSE 0) < Timeout
          THEN /\ pc' = IF serial_port = NoPort THEN "detect" ELSE "connect"
               /\ clock' = IF serial_port = NoPort THEN clock + DetectSleep
                                                   ELSE clock
               /\ UNCHANGED result
          ELSE /\ pc' = "done" /\ result' = "timeout" /\ UNCHANGED clock
    /\ UNCHANGED <<kind, suffix, elfFiles, serial_port, enumerated, enumAt,
                   opened>>

\* The head of the while loop: the only place the deadline is checked.
WaitHead ==
    /\ pc = "wait"
    /\ IF clock < Timeout
          THEN /\ pc' = IF serial_port = NoPort THEN "detect" ELSE "connect"
               /\ clock' = IF serial_port = NoPort THEN clock + DetectSleep
                                                   ELSE clock
               /\ UNCHANGED result
          ELSE /\ pc' = "done" /\ result' = "timeout" /\ UNCHANGED clock
    /\ UNCHANGED <<kind, suffix, elfFiles, serial_port, enumerated, enumAt,
                   opened>>

\* After the 0.3 s sleep: scan detect_boards() for board_info's bus/port.
Detect ==
    /\ pc = "detect"
    /\ serial_port' = DetectedPort
    /\ pc' = "connect"
    /\ UNCHANGED <<kind, suffix, elfFiles, clock, enumerated, enumAt, opened,
                   result>>

\* With a known port, try serial.Serial; a SerialException sleeps 0.1 s.
Connect ==
    /\ pc = "connect"
    /\ IF serial_port = NoPort
          THEN /\ pc' = "wait" /\ UNCHANGED <<clock, opened, result>>
          ELSE IF PortExists(serial_port)
          THEN /\ pc' = "done" /\ opened' = serial_port /\ result' = "ok"
               /\ UNCHANGED clock
          ELSE /\ pc' = "wait" /\ clock' = clock + RetrySleep
               /\ UNCHANGED <<opened, result>>
    /\ UNCHANGED <<kind, suffix, elfFiles, serial_port, enumerated, enumAt>>

\* The rebooted board enumerates its serial port again.
Enumerate ==
    /\ pc \in {"wait", "detect", "connect"}
    /\ Target \notin enumerated
    /\ enumerated' = enumerated \cup {Target}
    /\ enumAt' = clock
    /\ UNCHANGED <<kind, suffix, elfFiles, pc, clock, serial_port, opened,
                   result>>

Flasher == LoadDebugProbe \/ LoadPicotool \/ WaitHead \/ Detect \/ Connect

Next == Flasher \/ Enumerate

Spec == Init /\ [][Next]_vars

-----------------------------------------------------------------------------

\* The types, and the time the loop may run past the deadline: at most the
\* 0.3 s sleep of the turn that began just before it (ResetSleep < Timeout).
TypeOK ==
    /\ kind \in {"picotool", "debugprobe"}
    /\ suffix \in Suffixes
    /\ pc \in {"flash", "wait", "detect", "connect", "done"}
    /\ clock \in 0..(Timeout + DetectSleep - 1)
    /\ serial_port \in {SerialPortOf[b] : b \in Boards} \cup {NoPort}
    /\ enumerated \subseteq Boards
    /\ opened \in {SerialPortOf[b] : b \in Boards} \cup {NoPort}
    /\ result \in {"pending", "ok", "failed", "timeout"}

\* _wait_for_serial_port opens only the serial port of the board it
\* flashed, even when another Pico on the same USB bus is attached.
ConnectedToTarget ==
    opened # NoPort => opened = SerialPortOf[Target]

\* _wait_for_serial_port gives up only if the board's port was still
\* missing when the 10 s deadline passed: a board back before it is found.
NoTimeoutWhenBackInTime ==
    result = "timeout" => ~(Target \in enumerated /\ enumAt < Timeout)

=============================================================================
