--------------------------- MODULE MC_PicoFlasher ---------------------------
(* Two Picos on USB bus 1: the target on port 1 and a second board on      *)
(* port 2, each with its own ttyACM device.                                *)
EXTENDS PicoFlasher, TLC

CONSTANTS b1, b2, ttyACM0, ttyACM1

MC_Boards == {b1, b2}
MC_Bus == b1 :> 1 @@ b2 :> 1
MC_UsbPort == b1 :> 1 @@ b2 :> 2
MC_SerialPortOf == b1 :> ttyACM0 @@ b2 :> ttyACM1

=============================================================================
