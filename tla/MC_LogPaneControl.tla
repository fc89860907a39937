-------------------------- MODULE MC_LogPaneControl --------------------------
EXTENDS LogPaneControl, TLC

=============================================================================
