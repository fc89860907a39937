------------------------------ MODULE MC_LogPanes ------------------------------
(* Three pane slots and two loggers, "pw_console" and "device".           *)
EXTENDS LogPanes, TLC

CONSTANTS p0, p1, p2, s0, s1, Sep

MC_PaneIds == {p0, p1, p2}
MC_Searches == {s0, s1}
MC_LoggerNames == {<<"pw_console">>, <<"device">>}

=============================================================================
