----------------------------- MODULE MCClockSync -----------------------------
EXTENDS ClockSync

\* The client's clock is ahead of the server's: sums and offsets are negative.
ClientAhead == -3
=============================================================================
