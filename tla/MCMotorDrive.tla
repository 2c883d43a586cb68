----------------------------- MODULE MCMotorDrive -----------------------------
EXTENDS MotorDrive

\* Values in the range, at its end, and past it
MCRequests == {-4, 3, 8, 33}
=============================================================================
