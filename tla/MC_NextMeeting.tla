---------------------------- MODULE MC_NextMeeting ----------------------------
EXTENDS NextMeeting, TLC

\* Three meetings: a fortnight compressed to 16 hours, then a longer gap
\* (a skipped holiday); every spacing is wider than a time-zone offset.
MC_Meetings == <<13, 29, 61>>

=============================================================================
