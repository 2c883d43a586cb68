-------------------------- MODULE MotorDrive_proofs --------------------------
(***************************************************************************)
(* Proofs about the motor plugin and its drive, for any width of the       *)
(* words, any precision, any requests and any number of retries.           *)
(***************************************************************************)
EXTENDS MotorDrive, TLAPS

(* An exchange gives up before it counts past MaxTries.                    *)
TriesInv == pc \in {"send", "receive"} => tries <= MaxTries

(* A frame is on its way only while an exchange waits for it, and carries  *)
(* what its sender put there; whether it was altered shows in the faults.  *)
LineInv ==
    /\ frame.at # "nowhere" => pc = "receive"
    /\ frame.altered <= faults
    /\ frame.at = "drive" => frame.word = convert_velocity(speed_setpoint)
    /\ frame.at = "host" =>
          /\ frame.word = Wire(answered.speed)
          /\ frame.on = answered.on
          /\ faults <= 1 => command = convert_velocity(speed_setpoint)

(* What an exchange leaves behind.                                         *)
Agreed ==
    /\ command = convert_velocity(speed_setpoint)
    /\ speed_actual = Percent * answered.speed
    /\ terminal37 = answered.on

HostInv ==
    /\ pc \in {"idle", "judge"} /\ faults <= 1 => Agreed
    /\ pc = "idle" /\ call = "set" => Reached

RangeInv == faults <= 1 => command \in 0 .. Full
                           /\ speed \in -1 .. Full
                           /\ answered.speed \in -1 .. Full

DriveInv == DriveTypeOK /\ TriesInv /\ LineInv /\ HostInv /\ RangeInv

-----------------------------------------------------------------------------
(* The conversions                                                         *)

LEMMA ClampedRange ==
    ASSUME NEW v \in Int
    PROVE  Clamped(v) \in 0 .. Percent
BY DriveAssumption DEF Clamped

(* A quotient stays under the factor that its numerator was made of.       *)
LEMMA QuotientBound ==
    ASSUME NEW f \in Nat, NEW p \in Nat \ {0}, NEW c \in 0 .. p
    PROVE  (f * c) \div p \in 0 .. f
<1> DEFINE n == f * c
           q == n \div p
<1>1. n \in Nat /\ n <= f * p
  BY Z3
<1>2. q \in Int /\ p * q <= n /\ n < p * (q + 1)
  BY <1>1, Z3
<1>3. q >= 0
  <2>1. SUFFICES ASSUME q + 1 <= 0 PROVE FALSE
    BY <1>2
  <2>2. p * (q + 1) <= 0
    BY <1>2, <2>1, Z3
  <2>3. QED
    BY <1>1, <1>2, <2>2
<1>4. q <= f
  <2>1. SUFFICES ASSUME q >= f + 1 PROVE FALSE
    BY <1>2
  <2>2. p * q >= p * f + p
    BY <1>2, <2>1, Z3
  <2>3. QED
    BY <1>1, <1>2, <2>2
<1>5. QED
  BY <1>2, <1>3, <1>4

(* The word sent to the drive lies between 0% and 100%, for any set point. *)
LEMMA VelocityRange ==
    ASSUME NEW v \in Int
    PROVE  /\ convert_velocity(v) \in 0 .. Full
           /\ convert_velocity(v) \in Words
<1>1. convert_velocity(v) \in 0 .. Full
  BY ClampedRange, QuotientBound, DriveAssumption DEF convert_velocity
<1>2. QED
  BY <1>1, DriveAssumption DEF Words

LEMMA WireType ==
    ASSUME NEW s \in Speeds
    PROVE  Wire(s) \in Words
BY DriveAssumption DEF Speeds, Words, Wire

LEMMA SignedType ==
    ASSUME NEW w \in Words
    PROVE  Signed(w) \in Speeds
BY DriveAssumption DEF Speeds, Words, Signed

LEMMA SignedForward ==
    ASSUME NEW w \in 0 .. Full
    PROVE  Signed(w) = w
BY DriveAssumption DEF Signed

LEMMA PercentageType ==
    ASSUME NEW w \in Words
    PROVE  convert_percentage(w) \in Int
<1>1. w \in Int /\ Percent \in Int /\ w - 4 * Full \in Int
  BY DriveAssumption DEF Words
<1>2. Percent * w \in Int /\ Percent * (w - 4 * Full) \in Int
  BY <1>1, Z3
<1>3. QED
  BY <1>2 DEF convert_percentage

(* The speed on the wire is read back, except -200%.                       *)
LEMMA ReadBack ==
    ASSUME NEW s \in Speeds, s # -2 * Full
    PROVE  convert_percentage(Wire(s)) = Percent * s
<1>1. CASE s < 0
  <2>1. Wire(s) = s + 4 * Full /\ ~(Wire(s) <= 2 * Full)
    BY <1>1, DriveAssumption DEF Wire, Speeds
  <2>2. Wire(s) - 4 * Full = s
    BY <2>1, DriveAssumption DEF Speeds
  <2>3. QED
    BY <2>1, <2>2 DEF convert_percentage
<1>2. CASE ~(s < 0)
  BY <1>2, DriveAssumption DEF convert_percentage, Wire, Speeds
<1>3. QED
  BY <1>1, <1>2

-----------------------------------------------------------------------------
LEMMA FrameTypes ==
    /\ Silence \in Frames /\ Silence.at = "nowhere" /\ Silence.altered = 0
    /\ \A end \in {"drive", "host"}, w \in Words, b \in BOOLEAN :
         /\ Frame(end, w, b) \in Frames
         /\ Frame(end, w, b).at = end
         /\ Frame(end, w, b).word = w
         /\ Frame(end, w, b).on = b
         /\ Frame(end, w, b).altered = 0
BY DriveAssumption DEF Silence, Frame, Frames, Words

LEMMA FrameFields ==
    ASSUME frame \in Frames
    PROVE  /\ frame.at \in {"nowhere", "drive", "host"}
           /\ frame.word \in Words
           /\ frame.on \in BOOLEAN
           /\ frame.altered \in 0 .. 2
           /\ frame.short \in BOOLEAN
BY DEF Frames

LEMMA DamageType ==
    ASSUME frame \in Frames, Damage
    PROVE  /\ frame' \in Frames
           /\ frame'.at = frame.at /\ frame'.word = frame.word /\ frame'.on = frame.on
           /\ frame'.altered <= frame.altered + 1
<1>1. CASE frame.altered < 2 /\ frame' = [frame EXCEPT !.altered = @ + 1]
  BY <1>1 DEF Frames
<1>2. CASE ~frame.short /\ frame' = [frame EXCEPT !.short = TRUE]
  <2>1. frame' \in Frames
    BY <1>2, FrameFields DEF Frames
  <2>2. /\ frame'.at = frame.at /\ frame'.word = frame.word /\ frame'.on = frame.on
        /\ frame'.altered = frame.altered
    BY <1>2 DEF Frames
  <2>3. QED
    BY <2>1, <2>2, FrameFields
<1>3. QED
  BY <1>1, <1>2 DEF Damage

LEMMA StepCases ==
    ASSUME [DriveNext]_driveAllVars
    PROVE  \/ Open \/ Ask \/ SetValue \/ Close
           \/ Send \/ SendFails \/ ReceiveFails \/ Retry \/ Receive \/ Judge
           \/ Answer \/ NoAnswer \/ Turn \/ Terminal \/ Damage
           \/ UNCHANGED driveAllVars
BY DEF DriveNext, Host, Drive

(* The drive turns towards its goal by one.                                *)
LEMMA TurnRange ==
    ASSUME DriveTypeOK, Turn
    PROVE  /\ speed' \in Speeds
           /\ RangeInv => RangeInv'
<1>1. Signed(command) \in Speeds /\ 0 \in Speeds
  BY SignedType, DriveAssumption DEF DriveTypeOK, Speeds
<1>2. Goal \in Speeds
  BY <1>1 DEF Goal
<1>3. speed \in Speeds
  BY DEF DriveTypeOK
<1>4. SUFFICES ASSUME NEW s \in Int, speed' = s,
                      s = IF speed < Goal THEN speed + 1 ELSE speed - 1
               PROVE  /\ s \in Speeds
                      /\ RangeInv => RangeInv'
  BY <1>2, <1>3, DriveAssumption DEF Turn, Speeds
<1>5. s \in Speeds
  BY <1>2, <1>3, <1>4, DriveAssumption DEF Turn, Speeds
<1>6. ASSUME RangeInv, faults <= 1 PROVE s \in -1 .. Full
  <2>1. Goal \in 0 .. Full
    BY <1>6, SignedForward, DriveAssumption DEF RangeInv, Goal
  <2>2. QED
    BY <1>4, <1>6, <2>1, DriveAssumption DEF RangeInv, Turn
<1>7. QED
  BY <1>4, <1>5, <1>6 DEF RangeInv, Turn, hostVars, lineVars
-----------------------------------------------------------------------------
(* Types, with the bound on the retries                                    *)

LEMMA TypeStep ==
    ASSUME DriveTypeOK, TriesInv, [DriveNext]_driveAllVars
    PROVE  DriveTypeOK' /\ TriesInv'
<1> USE DriveAssumption DEF DriveTypeOK, TriesInv
<1>1. CASE Open
  <2>1. terminal37' \in BOOLEAN
    BY <1>1, Zenon DEF Open
  <2>2. frame' \in Frames
    BY <1>1, FrameTypes DEF Open
  <2>3. QED
    BY <1>1, <2>1, <2>2 DEF Open, Begin, driveVars, Calls
<1>2. CASE Ask
  BY <1>2 DEF Ask, Begin, lineVars, driveVars, Calls
<1>3. CASE SetValue
  BY <1>3 DEF SetValue, Begin, lineVars, driveVars, Calls
<1>4. CASE Close
  BY <1>4 DEF Close, lineVars, driveVars
<1>5. CASE Send
  <2>1. convert_velocity(speed_setpoint) \in Words
    BY VelocityRange
  <2>2. QED
    BY <1>5, <2>1, FrameTypes DEF Send, driveVars
<1>6. CASE SendFails
  BY <1>6 DEF SendFails, Throws, lineVars, driveVars
<1>7. CASE ReceiveFails
  BY <1>7, FrameTypes DEF ReceiveFails, Throws, driveVars
<1>8. CASE Retry
  BY <1>8, FrameTypes DEF Retry, AtHost, Throws, driveVars
<1>9. CASE Receive
  <2>1. speed_actual' \in Int
    <3>1. PICK w \in Words : speed_actual' = convert_percentage(w)
      BY <1>9, FrameFields DEF Receive
    <3>2. QED
      BY <3>1, PercentageType
  <2>2. terminal37' \in BOOLEAN
    BY <1>9, FrameFields DEF Receive
  <2>3. QED
    BY <1>9, <2>1, <2>2, FrameTypes DEF Receive, AtHost, driveVars
<1>10. CASE Judge
  BY <1>10 DEF Judge, lineVars, driveVars
<1>11. CASE Answer
  <2>1. Wire(speed) \in Words
    BY WireType
  <2>2. frame' \in Frames
    BY <1>11, <2>1, FrameTypes DEF Answer
  <2>3. command' \in Words
    BY <1>11, FrameFields DEF Answer
  <2>4. answered' \in [speed : Speeds, on : BOOLEAN]
    BY <1>11 DEF Answer
  <2>5. QED
    BY <1>11, <2>2, <2>3, <2>4 DEF Answer, hostVars
<1>12. CASE NoAnswer
  BY <1>12, FrameTypes DEF NoAnswer, hostVars, driveVars
<1>13. CASE Turn
  BY <1>13, TurnRange DEF Turn, hostVars, lineVars
<1>14. CASE Terminal
  BY <1>14 DEF Terminal, hostVars, lineVars
<1>15. CASE Damage
  BY <1>15, DamageType DEF Damage, hostVars, driveVars
<1>16. CASE UNCHANGED driveAllVars
  BY <1>16 DEF driveAllVars, hostVars, lineVars, driveVars
<1>17. QED
  BY StepCases, <1>1, <1>2, <1>3, <1>4, <1>5, <1>6, <1>7, <1>8, <1>9, <1>10,
     <1>11, <1>12, <1>13, <1>14, <1>15, <1>16

-----------------------------------------------------------------------------
(* The exchange, action by action                                          *)

LEMMA ExchangeStep ==
    ASSUME DriveInv, DriveTypeOK', [DriveNext]_driveAllVars
    PROVE  LineInv' /\ HostInv' /\ RangeInv'
<1> USE DEF DriveInv, LineInv, HostInv, RangeInv, Agreed
<1>1. CASE Open
  BY <1>1, FrameTypes DEF Open, Begin, driveVars, DriveTypeOK
<1>2. CASE Ask
  BY <1>2 DEF Ask, Begin, lineVars, driveVars
<1>3. CASE SetValue
  BY <1>3 DEF SetValue, Begin, lineVars, driveVars
<1>4. CASE Close
  BY <1>4 DEF Close, lineVars, driveVars
<1>5. CASE Send
  <2>1. convert_velocity(speed_setpoint) \in Words
    BY VelocityRange, DriveAssumption DEF DriveTypeOK
  <2>2. /\ frame'.at = "drive" /\ frame'.altered = 0
        /\ frame'.word = convert_velocity(speed_setpoint)
    BY <1>5, <2>1, FrameTypes, Zenon DEF Send
  <2>3. pc' = "receive" /\ faults' = faults /\ faults \in Nat
    BY <1>5, DriveAssumption DEF Send, DriveTypeOK
  <2>4. speed_setpoint' = speed_setpoint
    BY <1>5 DEF Send
  <2>5. frame'.word = convert_velocity(speed_setpoint')
    BY <2>2, <2>4
  <2>6. LineInv'
    BY <2>2, <2>3, <2>5
  <2>7. QED
    BY <1>5, <2>3, <2>6 DEF Send, driveVars
<1>6. CASE SendFails
  BY <1>6 DEF SendFails, Throws, lineVars, driveVars
<1>7. CASE ReceiveFails
  BY <1>7, FrameTypes DEF ReceiveFails, Throws, driveVars, DriveTypeOK
<1>8. CASE Retry
  BY <1>8, FrameTypes DEF Retry, AtHost, Throws, driveVars, DriveTypeOK
<1>9. CASE Receive
  <2>1. ASSUME faults <= 1 PROVE Agreed'
    <3>1. frame.altered = 0
      BY <1>9, <2>1, FrameFields DEF Receive, Accepts, PassesCheck, DriveTypeOK
    <3>2. /\ speed_actual' = convert_percentage(frame.word)
          /\ terminal37' = frame.on
      BY <1>9, <3>1 DEF Receive
    <3>3. answered.speed \in Speeds /\ answered.speed # -2 * Full
      BY <2>1, DriveAssumption DEF DriveTypeOK
    <3>4. convert_percentage(frame.word) = Percent * answered.speed
      BY <1>9, <3>3, ReadBack DEF Receive, AtHost
    <3>5. QED
      BY <1>9, <2>1, <3>2, <3>4 DEF Receive, AtHost, driveVars
  <2>2. LineInv' /\ RangeInv'
    BY <1>9, FrameTypes DEF Receive, driveVars, DriveTypeOK
  <2>3. ~(pc' = "idle" /\ call' = "set")
    BY <1>9 DEF Receive
  <2>4. QED
    BY <1>9, <2>1, <2>2, <2>3 DEF Receive
<1>10. CASE Judge
  BY <1>10 DEF Judge, Reached, lineVars, driveVars
<1>11. CASE Answer
  <2>1. Wire(speed) \in Words /\ enabled \in BOOLEAN
    BY WireType DEF DriveTypeOK
  <2>2. /\ frame'.at = "host"
        /\ frame'.word = Wire(speed)
        /\ frame'.on = enabled
        /\ frame'.altered = 0
    BY <1>11, <2>1, FrameTypes DEF Answer
  <2>3. answered'.speed = speed /\ answered'.on = enabled
    BY <1>11 DEF Answer
  <2>4. ASSUME faults <= 1
        PROVE  command' = convert_velocity(speed_setpoint)
    <3>1. frame.altered = 0
      BY <1>11, <2>4, FrameFields DEF Answer, PassesCheck, DriveTypeOK
    <3>2. QED
      BY <1>11, <3>1 DEF Answer
  <2>5. convert_velocity(speed_setpoint) \in 0 .. Full
    BY VelocityRange, DriveAssumption DEF DriveTypeOK
  <2>6. pc' = "receive" /\ faults' = faults /\ faults \in Nat
    BY <1>11, DriveAssumption DEF Answer, hostVars, DriveTypeOK
  <2>7. LineInv'
    BY <1>11, <2>2, <2>3, <2>4, <2>6 DEF Answer, hostVars
  <2>8. HostInv'
    BY <2>6
  <2>9. RangeInv'
    BY <1>11, <2>3, <2>4, <2>5, <2>6 DEF Answer
  <2>10. QED
    BY <2>7, <2>8, <2>9
<1>12. CASE NoAnswer
  BY <1>12, FrameTypes DEF NoAnswer, hostVars, driveVars, DriveTypeOK
<1>13. CASE Turn
  <2>1. RangeInv'
    BY <1>13, TurnRange
  <2>2. LineInv' /\ HostInv'
    BY <1>13 DEF Turn, hostVars, lineVars, Reached
  <2>3. QED
    BY <2>1, <2>2
<1>14. CASE Terminal
  BY <1>14 DEF Terminal, hostVars, lineVars, Reached
<1>15. CASE Damage
  <2>1. /\ frame.at # "nowhere"
        /\ frame'.at = frame.at /\ frame'.word = frame.word /\ frame'.on = frame.on
        /\ frame'.altered <= faults'
        /\ faults' = faults + 1
        /\ UNCHANGED <<hostVars, driveVars>>
    BY <1>15, DamageType, DriveAssumption DEF Damage, DriveTypeOK, Frames
  <2>2. pc' = "receive" /\ faults \in Nat
    BY <2>1 DEF hostVars, DriveTypeOK
  <2>3. QED
    BY <2>1, <2>2 DEF hostVars, driveVars
<1>16. CASE UNCHANGED driveAllVars
  BY <1>16 DEF driveAllVars, hostVars, lineVars, driveVars, Reached
<1>17. QED
  BY StepCases, <1>1, <1>2, <1>3, <1>4, <1>5, <1>6, <1>7, <1>8, <1>9, <1>10,
     <1>11, <1>12, <1>13, <1>14, <1>15, <1>16

-----------------------------------------------------------------------------
(* DriveInv is an inductive invariant of the plugin with its drive.        *)
THEOREM DriveInductive == DriveSpec => []DriveInv
<1>1. DriveInit => DriveInv
  <2>1. SUFFICES ASSUME DriveInit PROVE DriveInv
    OBVIOUS
  <2>2. DriveTypeOK
    <3>1. 0 \in Words /\ 0 \in Speeds /\ -1 \in Speeds
      BY DriveAssumption DEF Words, Speeds
    <3>2. frame \in Frames
      BY <2>1, FrameTypes DEF DriveInit
    <3>3. terminal37 \in BOOLEAN /\ enabled \in BOOLEAN
      BY <2>1, Zenon DEF DriveInit
    <3>4. answered \in [speed : Speeds, on : BOOLEAN]
      BY <2>1, <3>1 DEF DriveInit
    <3>5. QED
      BY <2>1, <3>1, <3>2, <3>3, <3>4, DriveAssumption DEF DriveInit, DriveTypeOK, Calls
  <2>3. TriesInv /\ LineInv /\ HostInv /\ RangeInv
    BY <2>1, FrameTypes, DriveAssumption
       DEF DriveInit, TriesInv, LineInv, HostInv, RangeInv
  <2>4. QED
    BY <2>2, <2>3 DEF DriveInv
<1>2. DriveInv /\ [DriveNext]_driveAllVars => DriveInv'
  BY TypeStep, ExchangeStep DEF DriveInv
<1>3. QED
  BY <1>1, <1>2, PTL DEF DriveSpec

(* Every variable of the plugin, the line and the drive keeps its type.    *)
THEOREM DriveTypeCorrect == DriveSpec => []DriveTypeOK
<1>1. DriveInv => DriveTypeOK
  BY DEF DriveInv
<1>2. QED
  BY <1>1, DriveInductive, PTL

(* A call that returns has made the drive take the set point, and reports  *)
(* what the drive said last, whatever single fault the line has.           *)
THEOREM CallsAreTrue == DriveSpec => []CallsTrue
<1>1. DriveInv => CallsTrue
  BY DEF DriveInv, HostInv, Agreed, CallsTrue
<1>2. QED
  BY <1>1, DriveInductive, PTL

(* set_value() returns only with the value reached.                        *)
THEOREM ReachesSpeed == DriveSpec => []AtSpeed
<1>1. DriveInv => AtSpeed
  BY DEF DriveInv, HostInv, Agreed, Reached, AtSpeed
<1>2. QED
  BY <1>1, DriveInductive, PTL

(* The drive is never commanded, and never turns, beyond its range.        *)
THEOREM NeverBeyond == DriveSpec => []WithinRange
<1>1. DriveInv => WithinRange
  BY DEF DriveInv, RangeInv, WithinRange
<1>2. QED
  BY <1>1, DriveInductive, PTL

(* With at most one fault the motor is where set_value() returned it, and  *)
(* was never told to leave its range.                                      *)
THEOREM SpeedIsTrue == DriveSpec => []SpeedTrue
BY ReachesSpeed, NeverBeyond, PTL DEF SpeedTrue
=============================================================================
