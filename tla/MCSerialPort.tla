---------------------------- MODULE MCSerialPort ----------------------------
EXTENDS SerialPort

CONSTANTS p1, p2

Found == [speed |-> Speed(9600), size |-> 7, flags |-> {"PARENB", "IXON", "CRTSCTS"}]
FoundChecking == [Found EXCEPT !.flags = {"INPCK", "PARENB"}]

Quiet ==
    [users |-> {p1}, setters |-> {}, maxCalls |-> 0, found |-> Found,
     restore |-> TRUE, crashes |-> FALSE, buffered |-> TRUE,
     bytesIn |-> 0, bytesOut |-> 0, depth |-> 0, sizes |-> {0}, unplugs |-> FALSE,
     closes |-> TRUE, drops |-> FALSE]

Streams == [Quiet EXCEPT !.bytesIn = 3, !.bytesOut = 3, !.depth = 3, !.closes = FALSE]

\* Reading and writing, buffered and not, with unplugging, drops and a crash.
TransferCases ==
    {[Streams EXCEPT !.bytesIn = 2, !.bytesOut = 1, !.sizes = {0, 2}],
     [Streams EXCEPT !.bytesOut = 1, !.depth = 2],
     [Streams EXCEPT !.bytesIn = 1, !.depth = 2],
     [Streams EXCEPT !.buffered = FALSE, !.unplugs = TRUE],
     [Quiet EXCEPT !.bytesIn = 2, !.depth = 2, !.found = FoundChecking],
     [Quiet EXCEPT !.bytesIn = 2, !.bytesOut = 1, !.depth = 2, !.drops = TRUE,
                   !.unplugs = TRUE, !.crashes = TRUE]}

\* Opening, setting and closing, by one process and by two.
OpeningCases ==
    {[Quiet EXCEPT !.setters = {p1}, !.maxCalls = 2],
     [Quiet EXCEPT !.setters = {p1}, !.maxCalls = 1, !.restore = FALSE],
     [Quiet EXCEPT !.users = {p1, p2}, !.crashes = TRUE]}

MCCases == TransferCases \union OpeningCases
=============================================================================
