------------------------- MODULE MC_SoftwareUpdateCli -------------------------
EXTENDS SoftwareUpdateCli, TLC
=============================================================================
