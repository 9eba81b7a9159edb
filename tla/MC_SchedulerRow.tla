--------------------------- MODULE MC_SchedulerRow ---------------------------
EXTENDS SchedulerRow

CONSTANTS p1, p2, h1
=============================================================================
