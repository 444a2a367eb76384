------------------------------- MODULE MCScsi -------------------------------
EXTENDS Scsi

CONSTANTS c1, c2, a1, a2, p1, p2
=============================================================================
