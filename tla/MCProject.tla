------------------------------- MODULE MCProject -------------------------------
EXTENDS Project

CONSTANTS Motor, Fx

MCConf(matrix, n, settling) ==
    [matrix |-> matrix, measures_per_iteration |-> n, start |-> 5,
     settling_time |-> settling, end |-> 8, step |-> 2, control |-> "Motor",
     iterations |-> 0]

\* The last one has another matrix than the reference.
MCConfs == {MCConf(0, 2, 150), MCConf(0, 1, 200), MCConf(1, 1, 200)}
MCReferenceConfs == {[matrix |-> 0, measures_per_iteration |-> 2, start |-> 5]}

\* The forces do not fit in the digits of the text.
MCForce == <<7, 13, 4>>
MCSamples(n) == {[c \in {Motor, Fx} |-> IF c = Motor THEN 1 ELSE MCForce[n]]}
MCRaw(v) == v + 100
=============================================================================
