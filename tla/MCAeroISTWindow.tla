--------------------------- MODULE MCAeroISTWindow ---------------------------
EXTENDS AeroISTWindow, TLC

CONSTANTS Motor, m1, m2, r1

Symmetry == Permutations({m1, m2})

MCChannels == {Motor}
MCHasFinal == {Motor}

Conf(control, start, end, step, iterations, mpi) ==
    [control |-> control, start |-> [c \in MCChannels |-> start],
     end |-> end, step |-> step, iterations |-> iterations, mpi |-> mpi,
     exceeds |-> FALSE]

\* A free run of two samples, which is also what a reference is.
MCRefConfs == {Conf(NoControl, 1, 0, 0, 1, 2)}

\* The temporal properties are checked on endless measurements, which only
\* a stop or a failure ends, and on references.
MCEndless == MCRefConfs \union {Conf(NoControl, 1, 0, 0, 0, 1)}
=============================================================================
