--------------------------- MODULE MCTimerManager ---------------------------
EXTENDS TimerManager
==============================================================================
