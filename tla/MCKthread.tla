----------------------------- MODULE MCKthread ------------------------------
EXTENDS Kthread

CONSTANTS d1, d2, k1, k2, i1, c1, stop

MCWorkloads ==
    {{k1, k2}, {k1, "signal"}, {k1, "quit"},
     {"wait_intr_timeout", "wait", "signal"},
     {"wait_timeout", "wake"}, {"msleep", "wake"}}
=============================================================================
