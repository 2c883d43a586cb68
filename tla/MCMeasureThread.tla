--------------------------- MODULE MCMeasureThread ---------------------------
EXTENDS MeasureThread, FiniteSets

CONSTANTS Motor, Alpha

MCChannels == {Motor, Alpha}
MCHasFinal == {Motor}

ConfOf(control, motor, alpha, end, step, iterations, mpi, exceeds) ==
    [control |-> control,
     start |-> [c \in MCChannels |-> IF c = Motor THEN motor ELSE alpha],
     end |-> end, step |-> step, iterations |-> iterations, mpi |-> mpi,
     exceeds |-> exceeds]
Conf(control, motor, alpha, end, step, iterations, mpi) ==
    ConfOf(control, motor, alpha, end, step, iterations, mpi, FALSE)

\* A rising sweep whose step does not divide its range, a falling sweep, a
\* sweep of one point, a bounded free run (also what a reference is), an
\* endless one, and the sweeps of tenths from 0 to 0.3 and back, whose doubles
\* add up to 0.30000000000000004 and to less than 0.
MCConfs == {Conf(Motor, 1, 1, 4, 2, 0, 2),
            Conf(Alpha, 1, 2, -1, -1, 0, 2),
            Conf(Alpha, 0, 1, 1, 3, 0, 1),
            Conf(NoControl, 1, 1, 0, 0, 2, 3),
            Conf(NoControl, 1, 0, 0, 0, 0, 2),
            ConfOf(Alpha, 0, 0, 3, 1, 0, 1, TRUE),
            ConfOf(Alpha, 0, 3, 0, -1, 0, 2, TRUE)}

\* A shorter list for the temporal properties.
MCLiveConfs == {Conf(Motor, 1, 1, 3, 2, 0, 1),
                Conf(NoControl, 1, 1, 0, 0, 1, 1),
                Conf(NoControl, 1, 0, 0, 0, 0, 2)}
=============================================================================
