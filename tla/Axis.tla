--------------------------------- MODULE Axis ---------------------------------
(***************************************************************************)
(* Positioning one angle of the model in the tunnel: set_value() of        *)
(* AlphaHardware and BetaHardware, and of each angle of AnglesHardware,    *)
(* which are the same code.  One relay turns the axis up, another one      *)
(* down; the loop switches them through set_relay(), here the contract     *)
(* RelayBoard, and watches the encoder.                                    *)
(*                                                                         *)
(* Angles are multiples of the resolution of the encoder; the conversion   *)
(* of its digits to degrees is increasing, and its result is what read()   *)
(* leaves in "angle".                                                      *)
(***************************************************************************)
EXTENDS RelayBoard, Integers

CONSTANTS
    increase, decrease,  \* the two relays: relay_increase, relay_decrease
    anglemax,
    precision,
    Slew,         \* most the axis turns between two reads
    Coast,        \* most it turns while a relay is being switched
    EndStop,      \* the axis cannot turn past -EndStop .. EndStop
    Requests      \* values that set_value() is asked for

ASSUME AxisAssumption ==
    /\ Relays = {increase, decrease}
    /\ increase # decrease
    /\ Idle \notin Calls
    /\ anglemax \in Nat
    /\ precision \in Nat \ {0}
    /\ Slew \in Nat \ {0}
    /\ Coast \in Nat
    /\ EndStop \in Nat
    /\ anglemax <= EndStop
    /\ Requests \subseteq Int

VARIABLES
    pc,           \* where set_value() is
    value,        \* what it was asked for, within the limits
    pos,          \* the angle of the axis
    angle,        \* the angle last read
    outcome,      \* of the last call: "none", "running", "ok" or "error"
    failed        \* some call has thrown (history)

axisVars == <<boardVars, pc, value, pos, angle, outcome, failed>>

-----------------------------------------------------------------------------
Abs(x) == IF x < 0 THEN -x ELSE x
NearExact(a) == value = a
Near(a) == Abs(value - a) < precision

\* max, min
UnclampedBelow(v) == IF v > anglemax THEN anglemax ELSE v
Clamped(v) == IF v > anglemax THEN anglemax
              ELSE IF v < -anglemax THEN -anglemax ELSE v

\* Where the axis may be after turning n at most with the relays of S on;
\* with both on, who knows.
Turned(S, n) ==
    {p \in -EndStop .. EndStop : /\ p <= pos + (IF increase \in S THEN n ELSE 0)
                                 /\ p >= pos - (IF decrease \in S THEN n ELSE 0)}

Ask(r, command) == Call([relay |-> r, command |-> command])

\* read(): time passes, then the encoder is sampled
Read ==
    /\ pos' \in Turned(on, Slew)
    /\ angle' = pos'
    /\ UNCHANGED boardVars

End(result) ==
    /\ pc' = "idle"
    /\ outcome' = result
    /\ failed' = (failed \/ result = "error")

Step(p) == pc' = p /\ UNCHANGED <<outcome, failed>>

-----------------------------------------------------------------------------
(* set_value()                                                             *)

SetValue ==
    /\ pc = "idle"
    /\ \E v \in Requests : value' = Clamped(v)
    /\ pc' = "first"
    /\ outcome' = "running"
    /\ UNCHANGED <<boardVars, pos, angle, failed>>

\* "if the difference is small do nothing"
FirstRead ==
    /\ pc = "first"
    /\ Read
    /\ IF Near(angle') THEN End("ok") ELSE Step("choose")
    /\ UNCHANGED value

Upwards ==
    /\ pc = "choose"
    /\ value > angle
    /\ Ask(increase, "on")
    /\ Step("increase on")
    /\ UNCHANGED <<value, pos, angle>>

\* if (value < angle), also straight after increase()
BelowUnequal == value # angle
Below == value < angle

Downwards ==
    /\ pc \in {"choose", "increased"}
    /\ Below
    /\ Ask(decrease, "on")
    /\ Step("decrease on")
    /\ UNCHANGED <<value, pos, angle>>

NotDownwards ==
    /\ pc = "increased"
    /\ ~Below
    /\ Step("settle")
    /\ UNCHANGED <<boardVars, value, pos, angle>>

\* The conditions of the two do-while loops
IncreaseAgain == value - angle' > precision
DecreaseAgain == angle' - value > precision

Turning ==
    /\ Read
    /\ \/ pc = "increase" /\ Step(IF IncreaseAgain THEN "increase" ELSE "increase off")
       \/ pc = "decrease" /\ Step(IF DecreaseAgain THEN "decrease" ELSE "decrease off")
    /\ UNCHANGED value

RelaySwapped(p) == IF p = "increase off" THEN decrease ELSE increase
RelayUsed(p) == IF p = "increase off" THEN increase ELSE decrease

SwitchOff ==
    /\ pc \in {"increase off", "decrease off"}
    /\ Ask(RelayUsed(pc), "off")
    /\ Step(IF pc = "increase off" THEN "increased?" ELSE "decreased?")
    /\ UNCHANGED <<value, pos, angle>>

Settle ==
    /\ pc = "settle"
    /\ Read
    /\ IF Near(angle') THEN Step("final") ELSE Step("choose")
    /\ UNCHANGED value

FinalRead ==
    /\ pc = "final"
    /\ Read
    /\ End("ok")
    /\ UNCHANGED value

-----------------------------------------------------------------------------
(* set_relay() as RelayBoard has it; the axis turns meanwhile              *)

SwitchingTurns == pos' \in Turned(on \union {call.relay}, Coast)

Returning == {"increase on", "increased?", "decrease on", "decreased?"}
AfterReturnHasty == [p \in Returning |->
                       IF p = "increase on" THEN "increase"
                       ELSE IF p = "increased?" THEN "increased"
                       ELSE IF p = "decrease on" THEN "decrease" ELSE "final"]
AfterReturn == [p \in Returning |->
                  IF p = "increase on" THEN "increase"
                  ELSE IF p = "increased?" THEN "increased"
                  ELSE IF p = "decrease on" THEN "decrease" ELSE "settle"]

RelaySwitches ==
    /\ Switch
    /\ UNCHANGED <<pc, value, pos, angle, outcome, failed>>

RelayReturns ==
    /\ Return
    /\ SwitchingTurns
    /\ Step(AfterReturn[pc])
    /\ UNCHANGED <<value, angle>>

-----------------------------------------------------------------------------
(* Failures                                                                *)

RelayThrows ==
    /\ Throw
    /\ SwitchingTurns
    /\ End("error")
    /\ UNCHANGED <<value, angle>>

\* The device cannot be read, or its display not written.
ReadThrows ==
    /\ pc \in {"first", "increase", "decrease", "settle", "final"}
    /\ pos' \in Turned(on, Slew)
    /\ angle' \in {angle, pos'}
    /\ End("error")
    /\ UNCHANGED <<boardVars, value>>

\* A relay that an exception has left on turns the axis to its end.
Drift ==
    /\ pc = "idle"
    /\ pos' \in Turned(on, Slew) \ {pos}
    /\ UNCHANGED <<boardVars, pc, value, angle, outcome, failed>>

-----------------------------------------------------------------------------
AxisInit ==
    /\ Init
    /\ pc = "idle"
    /\ value = 0
    /\ pos \in -anglemax .. anglemax
    /\ angle = pos
    /\ outcome = "none"
    /\ failed = FALSE

Program == \/ FirstRead \/ Upwards \/ Downwards \/ NotDownwards \/ Turning
           \/ SwitchOff \/ Settle \/ FinalRead \/ RelaySwitches \/ RelayReturns

AxisNext == \/ SetValue \/ Program \/ RelayThrows \/ ReadThrows \/ Drift

AxisSpec == AxisInit /\ [][AxisNext]_axisVars

(* The thread runs, and an axis whose relay is on turns.                   *)
TurnsWhileOn == Turning /\ pos' # pos

AxisFairSpec ==
    /\ AxisSpec
    /\ WF_axisVars(FirstRead \/ Upwards \/ Downwards \/ NotDownwards
                     \/ SwitchOff \/ Settle \/ FinalRead)
    /\ SF_axisVars(TurnsWhileOn)
    /\ WF_axisVars(RelaySwitches /\ on' # on)
    /\ SF_axisVars(RelayReturns)

-----------------------------------------------------------------------------
(* Properties                                                              *)

AxisTypeOK ==
    /\ on \subseteq Relays
    /\ call \in Calls \union {Idle}
    /\ returned \in {"none", "ok", "error"}
    /\ pc \in {"idle", "first", "choose", "increase", "increase off", "increased",
               "decrease", "decrease off", "settle", "final"} \union Returning
    /\ value \in -anglemax .. anglemax
    /\ pos \in -EndStop .. EndStop
    /\ angle \in -EndStop .. EndStop
    /\ outcome \in {"none", "running", "ok", "error"}
    /\ failed \in BOOLEAN

(* Until an exception, the two relays of an axis are never on together and *)
(* none is on outside increase() and decrease(), whichever of the two runs *)
(* after the other.  After one, both can happen: nothing in the program    *)
(* switches a relay off that an exception has left on.                     *)
Outside == {"idle", "first", "choose", "increased", "settle", "final"}
RelaysExclusive ==
    ~failed => /\ on # Relays
               /\ pc \in Outside => on = {}

(* A call that returns, with none having thrown before, leaves the axis    *)
(* where it was asked to, also with what it turns while a relay is being   *)
(* switched off.                                                           *)
Arrived == outcome = "ok" /\ ~failed => Near(pos) /\ pos = angle

(* Until an exception the axis never turns further past the limits than    *)
(* between two reads and two relay commands.                               *)
Overshoot == Slew + 2 * Coast
TravelLimited ==
    ~failed => /\ pos <= anglemax + (IF Overshoot > precision THEN Overshoot - precision ELSE 0)
               /\ pos > -anglemax - Overshoot

(* The loop never drives the axis away from the value it is asked for by   *)
(* more than the overshoot.                                                *)
Homing ==
    [][~failed' /\ pc # "idle" /\ Abs(pos' - value) > Abs(pos - value)
          => Abs(pos' - value) <= Overshoot]_axisVars

(* How far the axis turns astray until an exception: past its limits, and  *)
(* away from the value, by the overshoot at most.                          *)
TravelBounded == []TravelLimited /\ Homing

(* When the axis turns slowly against the precision, a call ends.  (Only   *)
(* before an exception: against a relay left on the loop may go on.)       *)
SetValueEnds == pc # "idle" /\ ~failed ~> pc = "idle"
=============================================================================
