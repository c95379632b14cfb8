----------------------------- MODULE MCDoomTask -----------------------------
EXTENDS DoomTask
=============================================================================
