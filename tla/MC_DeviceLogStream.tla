-------------------------- MODULE MC_DeviceLogStream --------------------------
(* Line numbers 0 and 1: a nonzero line sets bits above the level's three. *)
EXTENDS DeviceLogStream, TLC

MC_LineNumbers == {0, 1}

=============================================================================
