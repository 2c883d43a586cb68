-------------------------------- MODULE MCAxis --------------------------------
EXTENDS Axis

CONSTANTS up, down

\* Some of them past the limits
MCRequests == {-9, -5, -2, 0, 1, 3, 5, 7}
=============================================================================
