------------------------------ MODULE MotorDrive ------------------------------
(***************************************************************************)
(* The motor of the tunnel: MotorHardware, which talks to the SIMOREG      *)
(* drive over a serial line, and the drive itself, modelled from the use   *)
(* the plugin makes of it.  Every call is one or more exchanges            *)
(* (talk_to_simoreg): a telegram of eight bytes with the set point, and a  *)
(* reply of eight bytes with the speed, each with a checksum.              *)
(*                                                                         *)
(* The line loses bytes and alters them.  One altered byte changes the     *)
(* checksum, two may cancel out.  The drive answers a telegram in time or  *)
(* not at all, and is silent after a telegram with a wrong checksum.       *)
(***************************************************************************)
EXTENDS Integers

CONSTANTS
    Full,         \* MOTOR_FULLSPEED: the word for 100%
    Percent,      \* MOTOR_FULLPERCENTAGE, in the unit of the set points
    Precision,    \* MOTOR_PRECISION, in the same unit
    MaxTries,     \* retries of an exchange before it gives up: 5
    Requests,     \* values that set_value() is asked for
    MaxFaults     \* bound on the bytes that the line loses or alters

ASSUME DriveAssumption ==
    /\ Full \in Nat \ {0}
    /\ Percent \in Nat \ {0}
    /\ Precision \in Nat
    /\ Percent <= Full * Precision
    /\ MaxTries \in Nat
    /\ Requests \subseteq Int
    /\ MaxFaults \in Nat

VARIABLES
    \* MotorHardware
    call,             \* the call being done, or the last one
    pc,               \* where it is
    tries,
    speed_setpoint,
    speed_actual,     \* in fractions 1/Full of the unit of the set points
    terminal37,
    \* the line
    frame,            \* what is on its way
    faults,           \* how often it was damaged (history)
    \* the drive
    command,          \* the word it last took
    speed,            \* its speed, as a signed word
    enabled,          \* its terminal 37
    answered          \* the speed and the terminal of its last answer (history)

hostVars == <<call, pc, tries, speed_setpoint, speed_actual, terminal37>>
lineVars == <<frame, faults>>
driveVars == <<command, speed, enabled, answered>>
driveAllVars == <<hostVars, lineVars, driveVars>>

\* The drive goes from -200% to 199.9%
Speeds == -2 * Full .. 2 * Full - 1
Words == 0 .. 4 * Full - 1
Wire(s) == IF s < 0 THEN s + 4 * Full ELSE s
Signed(w) == IF w < 2 * Full THEN w ELSE w - 4 * Full

Frame(end, w, b) ==
    [at |-> end, word |-> w, on |-> b, altered |-> 0, short |-> FALSE]
Silence == Frame("nowhere", 0, FALSE)
Frames == [at : {"nowhere", "drive", "host"}, word : Words, on : BOOLEAN,
           altered : 0 .. 2, short : BOOLEAN]
Calls == {"open", "read", "isReady", "set"}

Abs(x) == IF x < 0 THEN -x ELSE x

-----------------------------------------------------------------------------
(* Conversions                                                             *)

UnclampedAbove(v) == IF v < 0 THEN 0 ELSE v
Clamped(v) == IF v > Percent THEN Percent ELSE IF v < 0 THEN 0 ELSE v

convert_velocity(v) == (Full * Clamped(v)) \div Percent

UnsignedPercentage(w) == Percent * w
\* The word 2 * Full, -200%, is taken for 200%
convert_percentage(w) ==
    IF w <= 2 * Full THEN Percent * w ELSE Percent * (w - 4 * Full)

ReachedFromBelow == Full * speed_setpoint - speed_actual <= Full * Precision
ReachedExactly == speed_actual = Full * speed_setpoint
\* The negated condition of the loop of set_value()
Reached == Abs(speed_actual - Full * speed_setpoint) <= Full * Precision

\* A frame with two altered bytes passes the check or fails it.
PassesCheck(f) == f.altered # 1
FailsCheck(f) == f.altered > 0

-----------------------------------------------------------------------------
(* The calls                                                               *)

Begin(c) ==
    /\ call' = c
    /\ pc' = "send"
    /\ tries' = 0

\* The constructor: flushes the line and talks with the set point 0
Open ==
    /\ pc = "closed"
    /\ Begin("open")
    /\ speed_setpoint' = 0
    /\ speed_actual' = 0
    /\ terminal37' = FALSE
    /\ frame' = Silence
    /\ UNCHANGED <<faults, driveVars>>

\* read() and isReady()
Ask ==
    /\ pc = "idle"
    /\ \E c \in {"read", "isReady"} : Begin(c)
    /\ UNCHANGED <<speed_setpoint, speed_actual, terminal37, lineVars, driveVars>>

\* set_value(), and set_final() with 0
SetValue ==
    /\ pc = "idle"
    /\ Begin("set")
    /\ \E v \in Requests \cup {0} : speed_setpoint' = v
    /\ UNCHANGED <<speed_actual, terminal37, lineVars, driveVars>>

\* The destructor; after an exception the run is over and it comes next.
Close ==
    /\ pc \in {"idle", "thrown"}
    /\ pc' = "closed"
    /\ UNCHANGED <<call, tries, speed_setpoint, speed_actual, terminal37, lineVars, driveVars>>

-----------------------------------------------------------------------------
(* talk_to_simoreg()                                                       *)

Send ==
    /\ pc = "send"
    /\ pc' = "receive"
    /\ frame' = Frame("drive", convert_velocity(speed_setpoint), FALSE)
    /\ UNCHANGED <<call, tries, speed_setpoint, speed_actual, terminal37, faults, driveVars>>

\* A constructor that throws leaves no object behind.
Throws == pc' = IF call = "open" THEN "closed" ELSE "thrown"

\* write() fails: the drive gets part of a telegram
SendFails ==
    /\ pc = "send"
    /\ Throws
    /\ UNCHANGED <<call, tries, speed_setpoint, speed_actual, terminal37, lineVars, driveVars>>

AtHost == pc = "receive" /\ frame.at = "host"

\* Less than eight bytes, or none
ReceiveFails ==
    /\ pc = "receive"
    /\ frame.at = "nowhere" \/ (frame.at = "host" /\ frame.short)
    /\ frame' = Silence
    /\ Throws
    /\ UNCHANGED <<call, tries, speed_setpoint, speed_actual, terminal37, faults, driveVars>>

\* "give up after 5 tries"; it is the sixth failure that gives up
Retry ==
    /\ AtHost
    /\ ~frame.short
    /\ FailsCheck(frame)
    /\ frame' = Silence
    /\ tries' = tries + 1
    /\ IF tries' > MaxTries THEN Throws ELSE pc' = "send"
    /\ UNCHANGED <<call, speed_setpoint, speed_actual, terminal37, faults, driveVars>>

AcceptsAny(f) == TRUE
Accepts(f) == PassesCheck(f)

Receive ==
    /\ AtHost
    /\ ~frame.short
    /\ Accepts(frame)
    /\ \E w \in IF frame.altered = 0 THEN {frame.word} ELSE Words :
          speed_actual' = convert_percentage(w)
    /\ terminal37' \in IF frame.altered = 0 THEN {frame.on} ELSE BOOLEAN
    /\ frame' = Silence
    /\ pc' = IF call = "set" THEN "judge" ELSE "idle"
    /\ UNCHANGED <<call, tries, speed_setpoint, faults, driveVars>>

\* The end of a pass of the loop of set_value(), after its pause
Judge ==
    /\ pc = "judge"
    /\ tries' = 0
    /\ pc' = IF Reached THEN "idle" ELSE "send"
    /\ UNCHANGED <<call, speed_setpoint, speed_actual, terminal37, lineVars, driveVars>>

-----------------------------------------------------------------------------
(* The line                                                                *)

Damage ==
    /\ frame.at # "nowhere"
    /\ faults < MaxFaults
    /\ faults' = faults + 1
    /\ \/ frame.altered < 2 /\ frame' = [frame EXCEPT !.altered = @ + 1]
       \/ ~frame.short /\ frame' = [frame EXCEPT !.short = TRUE]
    /\ UNCHANGED <<hostVars, driveVars>>

(* The drive                                                               *)

\* It takes a telegram and answers with its speed.  Of a telegram that was
\* altered without a trace it may take any set point.
Answer ==
    /\ frame.at = "drive"
    /\ ~frame.short
    /\ PassesCheck(frame)
    /\ command' \in IF frame.altered = 0 THEN {frame.word} ELSE Words
    /\ answered' = [speed |-> speed, on |-> enabled]
    /\ frame' = Frame("host", Wire(speed), enabled)
    /\ UNCHANGED <<hostVars, faults, speed, enabled>>

NoAnswer ==
    /\ frame.at = "drive"
    /\ frame.short \/ FailsCheck(frame)
    /\ frame' = Silence
    /\ UNCHANGED <<hostVars, faults, driveVars>>

\* It turns towards its set point, or coasts with terminal 37 off.
Goal == IF enabled THEN Signed(command) ELSE 0

Turn ==
    /\ speed # Goal
    /\ speed' = IF speed < Goal THEN speed + 1 ELSE speed - 1
    /\ UNCHANGED <<hostVars, lineVars, command, enabled, answered>>

\* Somebody operates the drive.
Terminal ==
    /\ enabled' = ~enabled
    /\ UNCHANGED <<hostVars, lineVars, command, speed, answered>>

-----------------------------------------------------------------------------
DriveInit ==
    /\ call = "open" /\ pc = "closed" /\ tries = 0
    /\ speed_setpoint = 0 /\ speed_actual = 0 /\ terminal37 = FALSE
    /\ frame = Silence /\ faults = 0
    /\ command = 0
    /\ speed \in {-1, 0}        \* the wind may turn it a little
    /\ enabled \in BOOLEAN
    /\ answered = [speed |-> 0, on |-> FALSE]

Host == \/ Open \/ Ask \/ SetValue \/ Close
        \/ Send \/ SendFails \/ ReceiveFails \/ Retry \/ Receive \/ Judge
Drive == Answer \/ NoAnswer \/ Turn \/ Terminal

DriveNext == Host \/ Drive \/ Damage

DriveSpec == DriveInit /\ [][DriveNext]_driveAllVars

\* The calls run, the drive answers and turns; nobody has to start a call,
\* fail, damage a frame or operate the drive.
DriveFairness ==
    /\ WF_driveAllVars(Send \/ ReceiveFails \/ Retry \/ Receive \/ Judge)
    /\ WF_driveAllVars(Answer \/ NoAnswer)
    /\ WF_driveAllVars(Turn)

DriveFairSpec == DriveSpec /\ DriveFairness

-----------------------------------------------------------------------------
(* Properties                                                              *)

\* Every variable keeps its type; tries never counts past the give up.
DriveTypeOK ==
    /\ call \in Calls
    /\ pc \in {"closed", "idle", "send", "receive", "judge", "thrown"}
    /\ tries \in 0 .. MaxTries + 1
    /\ speed_setpoint \in Requests \cup {0}
    /\ speed_actual \in Int
    /\ terminal37 \in BOOLEAN
    /\ frame \in Frames
    /\ faults \in 0 .. MaxFaults
    /\ command \in Words
    /\ speed \in Speeds
    /\ enabled \in BOOLEAN
    /\ answered \in [speed : Speeds, on : BOOLEAN]

\* A call that returns has made the drive take the present set point, and
\* what it leaves in speed_actual and terminal37 is what the drive said last:
\* no exchange ends with an old, cut or altered reply, unless the line altered
\* two bytes.  (checksum, length and retries of talk_to_simoreg)
CallsTrue ==
    pc = "idle" /\ faults <= 1 =>
        /\ command = convert_velocity(speed_setpoint)
        /\ speed_actual = Percent * answered.speed
        /\ terminal37 = answered.on

\* set_value() returns only after the drive said that it had reached the
\* value asked for, which it never does for a value out of its range.
AtSpeed ==
    pc = "idle" /\ call = "set" /\ faults <= 1 =>
        Abs(Percent * answered.speed - Full * speed_setpoint) <= Full * Precision

\* Whatever value is asked for, and whatever single fault the line has, the
\* drive never takes a set point below 0% or above 100%, is never driven
\* backwards and never above its full speed.  (the clamping of convert_velocity)
WithinRange == faults <= 1 => command \in 0 .. Full /\ speed \in -1 .. Full

\* The motor does what was asked for and nothing beyond its range: where
\* set_value() returns and what the drive is told on the way there.
SpeedTrue == AtSpeed /\ WithinRange

\* The loop of set_value() ends for every value in the range, with the value
\* reached or with an exception, unless the drive is switched off meanwhile:
\* the loop does not look at terminal37, and waits as long as it is off.
SetValueEnds ==
    (call = "set" /\ pc = "send" /\ speed_setpoint \in 0 .. Percent)
        ~> (pc \in {"idle", "thrown", "closed"} \/ ~enabled)
=============================================================================
