------------------------------ MODULE AnglesLink ------------------------------
(***************************************************************************)
(* AnglesHardware and the converter of its two encoders: the constructor   *)
(* and read(), over an unbuffered SerialPort whose two waits time out.     *)
(* The converter answers the commands in their order, with the angle as it *)
(* is when it answers, with NACK, or not at all; an answer may come after  *)
(* the wait has timed out, or in two pieces, of which the wait returns     *)
(* with the first.  The port stays plugged in and takes every command.     *)
(***************************************************************************)
EXTENDS Integers, SequencesExt

CONSTANTS
    MaxTries,       \* read() gives up when tries is more than this, 5
    WordBits,       \* the bits of unsigned int, 32
    Positions,      \* the positions of an encoder
    NoPosition,     \* neither a position nor the value of another text
    MaxTurns,       \* bound on the movements of the encoders
    MaxFaults,      \* bound on the answers that are late or cut
    MaxReads        \* bound on the calls of read()

ASSUME AnglesAssumption ==
    /\ WordBits \in Nat
    /\ Positions \subseteq SUBSET (0 .. WordBits - 1)
    /\ {MaxTries, MaxTurns, MaxFaults, MaxReads} \subseteq Nat

VARIABLES
    anglePc,    \* what AnglesHardware is doing
    asked,      \* the encoder whose answer it waits for
    tries, ok, gray, digits,
    position,   \* of each encoder
    passed,     \* history: the positions since read() was called
    owed,       \* the commands that are not answered yet
    input,      \* the pieces of answers that are there
    reads,      \* the calls of read()
    turns, faults,      \* the movements and the faults so far
    disturbed   \* history: an answer has been late or cut

programVars == <<anglePc, asked, tries, ok, gray, digits, reads>>
converterVars == <<position, turns, owed, faults>>
angleVars == <<programVars, converterVars, passed, input, disturbed>>

Encoders == {1, 2}

(***************************************************************************)
(* Gray code: the encoders send it, grayToBinary() takes it back.  A       *)
(* number is the set of its bits that are 1.                               *)
(***************************************************************************)
Xor(x, y) == (x \ y) \union (y \ x)
ShiftRight(x, k) == {b - k : b \in {c \in x : c >= k}}

Gray(x) == Xor(x, ShiftRight(x, 1))

MoreShiftsShort(shift) == 2 * shift < WordBits
MoreShifts(shift) == shift < WordBits

\* for (shift = 1; shift < numBits; shift *= 2)
grayToBinary(num) ==
    LET loop[s \in [num : SUBSET Nat, shift : Nat \ {0}]] ==
          IF MoreShifts(s.shift)
            THEN loop[[num |-> Xor(s.num, ShiftRight(s.num, s.shift)),
                       shift |-> 2 * s.shift]]
            ELSE s.num
    IN  loop[[num |-> num, shift |-> 1]]

(***************************************************************************)
(* Answers.  "whole" is an answer with an angle, "front" one cut before    *)
(* its last digit, "back" the rest of it, "done" that of another command.  *)
(* mid(4,10).toUInt() of what is there.                                    *)
(***************************************************************************)
GrayOf == [p \in Positions |-> Gray(p)]
ASSUME NoPositionAssumption == \A p \in Positions : NoPosition \notin {p, GrayOf[p]}

Piece(part, n) == [part |-> part, gray |-> IF part = "back" THEN {} ELSE GrayOf[position[n]]]

\* What toUInt() may find: <<ok, value>>.
Parsed(text) ==
    CASE text[1].part = "whole" -> {<<TRUE, text[1].gray>>}
      [] text[1].part = "front" /\ Len(text) > 1 -> {<<TRUE, text[1].gray>>}
      [] OTHER -> {<<FALSE, {}>>, <<TRUE, NoPosition>>}

HasNack(text) == \E i \in DOMAIN text : text[i].part = "nack"

(***************************************************************************)
(* The program.                                                            *)
(***************************************************************************)
Fault == faults < MaxFaults /\ faults' = faults + 1

\* The wait runs out: there is no answer, or it will be late.
NoAnswer ==
    /\ input = <<>>
    /\ IF owed = <<>> THEN UNCHANGED <<faults, disturbed>>
       ELSE Fault /\ disturbed' = TRUE

Command(what, n) == [what |-> what, n |-> n]

Wait(pc, n) ==
    /\ anglePc' = pc
    /\ asked' = n
    /\ owed' = Append(owed, Command(pc, n))

AnglesInit ==
    /\ anglePc = "off" /\ asked = 1
    /\ tries = 0 /\ reads = 0
    /\ ok = [n \in Encoders |-> FALSE]
    /\ gray = [n \in Encoders |-> {}]
    /\ digits = [n \in Encoders |-> {}]
    /\ position \in [Encoders -> Positions]
    /\ passed = [n \in Encoders |-> {}]
    /\ owed = <<>> /\ input = <<>>
    /\ turns = 0 /\ faults = 0
    /\ disturbed = FALSE

\* Opening fails: runtime_error.
AnglesConstructFails ==
    /\ anglePc = "off"
    /\ anglePc' = "failed"
    /\ UNCHANGED <<asked, tries, ok, gray, digits, reads, converterVars, passed,
                   input, disturbed>>

\* "$0L1251" and then "$0L2251".
AnglesConstruct ==
    /\ anglePc = "off"
    /\ Wait("setup", 1)
    /\ UNCHANGED <<tries, ok, gray, digits, reads, position, turns, faults,
                   passed, input, disturbed>>

\* The answer is read and not looked at, but for a message.
SetupAnswered ==
    /\ anglePc = "setup"
    /\ input # <<>>
    /\ input' = <<>>
    /\ IF asked = 1 THEN Wait("setup", 2)
       ELSE anglePc' = "ready" /\ UNCHANGED <<asked, owed>>
    /\ UNCHANGED <<tries, ok, gray, digits, reads, position, turns, faults,
                   passed, disturbed>>

\* return: the second encoder is not set up.
SetupTimesOut ==
    /\ anglePc = "setup"
    /\ NoAnswer
    /\ anglePc' = "ready"
    /\ UNCHANGED <<asked, tries, ok, gray, digits, reads, position, turns, owed, passed, input>>

ReadCalled ==
    /\ anglePc = "ready"
    /\ reads < MaxReads
    /\ reads' = reads + 1
    /\ tries' = 0
    /\ ok' = [n \in Encoders |-> FALSE]
    /\ gray' = [n \in Encoders |-> {}]
    /\ passed' = [n \in Encoders |-> {position[n]}]
    /\ Wait("waiting", 1)
    /\ UNCHANGED <<digits, position, turns, faults, input, disturbed>>

Converted(n) == IF gray'[n] = NoPosition THEN NoPosition ELSE grayToBinary(gray'[n])

Both ==
    /\ digits' = [n \in Encoders |-> Converted(n)]
    /\ anglePc' = "ready"
    /\ UNCHANGED <<asked, owed>>

\* while ((ok1 && ok2) == false): the next try, the end or the exception.
EndTry(results, t) ==
    IF results[1] /\ results[2] THEN Both
    ELSE IF t > MaxTries
      THEN anglePc' = "failed" /\ UNCHANGED <<asked, owed, digits>>
      ELSE Wait("waiting", 1) /\ UNCHANGED digits

ReadTimesOutUncounted ==
    /\ anglePc = "waiting"
    /\ NoAnswer
    /\ tries' = tries
    /\ UNCHANGED gray
    /\ EndTry(ok, tries)
    /\ UNCHANGED <<ok, reads, position, turns, passed, input>>

ReadTimesOut ==
    /\ anglePc = "waiting"
    /\ NoAnswer
    /\ tries' = tries + 1
    /\ UNCHANGED gray
    /\ EndTry(ok, tries')
    /\ UNCHANGED <<ok, reads, position, turns, passed, input>>

ReadRefused ==
    /\ anglePc = "waiting"
    /\ HasNack(input)
    /\ input' = <<>>
    /\ tries' = tries + 1
    /\ UNCHANGED gray
    /\ EndTry(ok, tries')
    /\ UNCHANGED <<ok, reads, position, turns, faults, passed, disturbed>>

\* readAll() and toUInt(); after the first encoder the second one is asked.
ReadAnswered ==
    /\ anglePc = "waiting"
    /\ input # <<>> /\ ~HasNack(input)
    /\ \E p \in Parsed(input) :
         /\ ok' = [ok EXCEPT ![asked] = p[1]]
         /\ gray' = [gray EXCEPT ![asked] = p[2]]
    /\ input' = <<>>
    /\ IF asked = 1
         THEN Wait("waiting", 2) /\ UNCHANGED <<tries, digits>>
         ELSE /\ tries' = IF ok'[1] /\ ok'[2] THEN tries ELSE tries + 1
              /\ EndTry(ok', tries')
    /\ UNCHANGED <<reads, position, turns, faults, passed, disturbed>>

(***************************************************************************)
(* The converter and the encoders.                                         *)
(***************************************************************************)
Answering == owed # <<>> /\ Head(owed).what # "rest"

Send(pieces, rest) ==
    /\ input' = input \o pieces
    /\ owed' = rest \o Tail(owed)
    /\ UNCHANGED <<programVars, position, turns, passed>>

Answer ==
    /\ Answering
    /\ LET part == IF Head(owed).what = "waiting" THEN "whole" ELSE "done"
       IN  Send(<<Piece(part, Head(owed).n)>>, <<>>)
    /\ UNCHANGED <<faults, disturbed>>

Refuse ==
    /\ Answering
    /\ Send(<<Piece("nack", 1)>>, <<>>)
    /\ UNCHANGED <<faults, disturbed>>

\* No answer: the command has got lost.
Lose ==
    /\ Answering
    /\ Send(<<>>, <<>>)
    /\ UNCHANGED <<faults, disturbed>>

\* The rest of the answer is still to come.
Cut ==
    /\ Answering /\ Fault
    /\ Head(owed).what = "waiting"
    /\ disturbed' = TRUE
    /\ Send(<<Piece("front", Head(owed).n)>>, <<Command("rest", 1)>>)

SendRest ==
    /\ owed # <<>> /\ Head(owed).what = "rest"
    /\ Send(<<Piece("back", 1)>>, <<>>)
    /\ UNCHANGED <<faults, disturbed>>

Turn(n) ==
    /\ turns < MaxTurns
    /\ turns' = turns + 1
    /\ \E p \in Positions \ {position[n]} : position' = [position EXCEPT ![n] = p]
    /\ passed' = [passed EXCEPT ![n] = @ \union {position'[n]}]
    /\ UNCHANGED <<programVars, owed, faults, input, disturbed>>

Program ==
    \/ AnglesConstructFails \/ AnglesConstruct
    \/ SetupAnswered \/ SetupTimesOut
    \/ ReadCalled \/ ReadTimesOut \/ ReadRefused \/ ReadAnswered

Converter ==
    \/ Answer \/ Refuse \/ Lose \/ Cut \/ SendRest
    \/ \E n \in Encoders : Turn(n)

AnglesNext == Program \/ Converter

\* A wait returns, with or without an answer; an answer that may not be late
\* any more comes or is lost.
AnglesFairness ==
    /\ WF_angleVars(Program)
    /\ WF_angleVars(Answer \/ Lose \/ SendRest)

AnglesSpec == AnglesInit /\ [][AnglesNext]_angleVars /\ AnglesFairness

-----------------------------------------------------------------------------
\* As long as no answer was late or cut, whatever was lost or refused, what
\* read() leaves are positions that each encoder itself had during the call,
\* even when the two are of different tries.
OwnAngles ==
    anglePc = "ready" /\ reads > 0 /\ ~disturbed =>
        \A n \in Encoders : digits[n] \in passed[n]

\* read() ends, with angles or with an exception, whatever the line does.
AnglesReadEnds == anglePc = "waiting" ~> anglePc # "waiting"
=============================================================================
