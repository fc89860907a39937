-------------------------- MODULE MC_PicoTestRunner --------------------------
(* Two Picos on USB bus 1, ports 1 and 2; the command line names the first. *)
EXTENDS PicoTestRunner, TLC

CONSTANTS b1, b2, ttyACM0, ttyACM1

MC_Boards == {b1, b2}
MC_Bus == b1 :> 1 @@ b2 :> 1
MC_UsbPort == b1 :> 1 @@ b2 :> 2
MC_SerialPortOf == b1 :> ttyACM0 @@ b2 :> ttyACM1

=============================================================================
