--------------------------- MODULE MCDurableJobs ---------------------------
EXTENDS DurableJobs
=============================================================================
