----------------------------- MODULE Axis_proofs -----------------------------
(***************************************************************************)
(* Proofs about the positioning loop of Axis.tla, for any precision, any   *)
(* speed of the axis, any limits and any requests.                         *)
(***************************************************************************)
EXTENDS Axis, TLAPS

Order(r, command) == [relay |-> r, command |-> command]

(* A relay command is under way exactly at the four places that wait for   *)
(* set_relay(), also after an exception.                                   *)
CallInv ==
    /\ call # Idle <=> pc \in Returning
    /\ pc = "increase on" => call = Order(increase, "on")
    /\ pc = "increased?"  => call = Order(increase, "off")
    /\ pc = "decrease on" => call = Order(decrease, "on")
    /\ pc = "decreased?"  => call = Order(decrease, "off")
    /\ pc # "idle" => outcome = "running"

(* Which relay can be on where.                                            *)
RelayInv ==
    /\ pc \in Outside => on = {}
    /\ pc \in {"increase on", "increased?"} => on \subseteq {increase}
    /\ pc \in {"increase", "increase off"} => on = {increase}
    /\ pc \in {"decrease on", "decreased?"} => on \subseteq {decrease}
    /\ pc \in {"decrease", "decrease off"} => on = {decrease}

(* How far the axis can be there.  increase() starts at least the precision*)
(* below the value; decrease() anywhere above it, since it may follow an   *)
(* increase() that has gone too far.                                       *)
PlaceInv ==
    /\ pc \in {"choose", "increase on", "increase off", "increased?", "final"} => pos = angle
    /\ pc = "choose" => ~Near(angle)
    /\ pc = "increase on" => pos <= value - precision
    /\ pc = "increase" => pos <= value - precision + Coast
    /\ pc \in {"increase off", "increased?"} => pos <= value - precision + Coast + Slew
    /\ pc = "increased" => /\ pos <= value - precision + 2 * Coast + Slew
                           /\ pos >= angle
    /\ pc = "decrease on" => pos > value
    /\ pc = "decrease" => pos > value - Coast
    /\ pc \in {"decrease off", "decreased?"} => pos > value - Coast - Slew
    /\ pc = "final" => Near(angle)
    /\ outcome = "ok" => Near(pos) /\ pos = angle

AxisInv ==
    /\ AxisTypeOK
    /\ CallInv
    /\ ~failed => RelayInv /\ PlaceInv /\ TravelLimited

-----------------------------------------------------------------------------
(* Where the axis can be after turning.                                    *)
LEMMA TurnedBounds ==
    ASSUME pos \in -EndStop .. EndStop,
           NEW S, NEW n \in Nat, NEW p \in Turned(S, n)
    PROVE  /\ p \in -EndStop .. EndStop
           /\ p <= pos + n
           /\ p >= pos - n
           /\ increase \notin S => p <= pos
           /\ decrease \notin S => p >= pos
BY AxisAssumption DEF Turned

(* The requested value is brought within the limits.                       *)
LEMMA ClampedRange ==
    ASSUME NEW v \in Int
    PROVE  Clamped(v) \in -anglemax .. anglemax
BY AxisAssumption DEF Clamped

LEMMA OrderType ==
    ASSUME NEW r \in Relays, NEW command \in {"on", "off"}
    PROVE  /\ Order(r, command) \in Calls
           /\ Order(r, command) # Idle
           /\ Order(r, command).relay = r
           /\ Order(r, command).command = command
BY AxisAssumption DEF Order, Calls

(* Near, without the absolute value.                                       *)
LEMMA NearBounds ==
    ASSUME NEW a \in Int, value \in Int
    PROVE  Near(a) <=> value - a < precision /\ a - value < precision
BY AxisAssumption DEF Near, Abs

(* The actions, once for all the proofs below.                             *)
LEMMA StepCases ==
    ASSUME [AxisNext]_axisVars
    PROVE  \/ SetValue \/ FirstRead \/ Upwards \/ Downwards \/ NotDownwards
           \/ Turning \/ SwitchOff \/ Settle \/ FinalRead \/ RelaySwitches
           \/ RelayReturns \/ RelayThrows \/ ReadThrows \/ Drift
           \/ UNCHANGED axisVars
BY DEF AxisNext, Program

LEMMA FailureStays ==
    ASSUME AxisTypeOK, [AxisNext]_axisVars, failed
    PROVE  failed'
BY StepCases DEF SetValue, FirstRead, Upwards, Downwards, NotDownwards, Turning,
   SwitchOff, Settle, FinalRead, RelaySwitches, RelayReturns, RelayThrows,
   ReadThrows, Drift, axisVars, Step, End, AxisTypeOK

-----------------------------------------------------------------------------
(* Types                                                                   *)

LEMMA ReadType ==
    ASSUME AxisTypeOK, Read
    PROVE  /\ pos' \in -EndStop .. EndStop
           /\ angle' = pos'
           /\ pos' \in Turned(on, Slew)
BY TurnedBounds, AxisAssumption DEF AxisTypeOK, Read

LEMMA TypeAndCallStep ==
    ASSUME AxisTypeOK, CallInv, [AxisNext]_axisVars
    PROVE  AxisTypeOK' /\ CallInv'
<1> USE DEF AxisTypeOK, CallInv, Returning
<1>1. CASE SetValue
  BY <1>1, ClampedRange, AxisAssumption DEF SetValue, boardVars
<1>2. CASE FirstRead
  BY <1>2, ReadType DEF FirstRead, Read, boardVars, End, Step
<1>3. CASE Upwards
  BY <1>3, OrderType, AxisAssumption DEF Upwards, Ask, Call, Order, Step
<1>4. CASE Downwards
  BY <1>4, OrderType, AxisAssumption DEF Downwards, Ask, Call, Order, Step
<1>5. CASE NotDownwards
  BY <1>5 DEF NotDownwards, boardVars, Step
<1>6. CASE Turning
  BY <1>6, ReadType DEF Turning, Read, boardVars, Step
<1>7. CASE SwitchOff
  BY <1>7, OrderType, AxisAssumption DEF SwitchOff, RelayUsed, Ask, Call, Order, Step
<1>8. CASE Settle
  BY <1>8, ReadType DEF Settle, Read, boardVars, Step
<1>9. CASE FinalRead
  BY <1>9, ReadType DEF FinalRead, Read, boardVars, End
<1>10. CASE RelaySwitches
  BY <1>10 DEF RelaySwitches, Switch, Commanded, Calls
<1>11. CASE RelayReturns
  <2>1. pos' \in -EndStop .. EndStop
    BY <1>11, TurnedBounds, AxisAssumption DEF RelayReturns, SwitchingTurns
  <2>2. pc \in Returning /\ pc' = AfterReturn[pc]
    BY <1>11 DEF RelayReturns, Return, Step
  <2>3. pc' \in {"increase", "increased", "decrease", "settle"}
    BY <2>2 DEF AfterReturn
  <2>4. QED
    BY <1>11, <2>1, <2>2, <2>3 DEF RelayReturns, Return, Step
<1>12. CASE RelayThrows
  <2>1. pos' \in -EndStop .. EndStop
    BY <1>12, TurnedBounds, AxisAssumption DEF RelayThrows, SwitchingTurns
  <2>2. QED
    BY <1>12, <2>1 DEF RelayThrows, Throw, End
<1>13. CASE ReadThrows
  <2>1. pos' \in -EndStop .. EndStop
    BY <1>13, TurnedBounds, AxisAssumption DEF ReadThrows
  <2>2. QED
    BY <1>13, <2>1 DEF ReadThrows, boardVars, End
<1>14. CASE Drift
  <2>1. pos' \in -EndStop .. EndStop
    BY <1>14, TurnedBounds, AxisAssumption DEF Drift
  <2>2. QED
    BY <1>14, <2>1 DEF Drift, boardVars
<1>15. CASE UNCHANGED axisVars
  BY <1>15 DEF axisVars, boardVars, Order
<1>16. QED
  BY StepCases, <1>1, <1>2, <1>3, <1>4, <1>5, <1>6, <1>7, <1>8, <1>9, <1>10,
     <1>11, <1>12, <1>13, <1>14, <1>15

LEMMA InitType ==
    ASSUME AxisInit
    PROVE  AxisTypeOK /\ CallInv
<1>1. pos \in -EndStop .. EndStop /\ 0 \in -anglemax .. anglemax
  BY AxisAssumption DEF AxisInit
<1>2. AxisTypeOK
  BY <1>1 DEF AxisInit, Init, AxisTypeOK
<1>3. CallInv
  BY DEF AxisInit, Init, CallInv, Returning
<1>4. QED
  BY <1>2, <1>3

(* The types of all that the loop reaches are kept.                        *)
THEOREM AxisTypeCorrect == AxisSpec => []AxisTypeOK
BY InitType, TypeAndCallStep, PTL DEF AxisSpec

-----------------------------------------------------------------------------
(* The relays and the axis, while no call has thrown                       *)

(* A read with one relay on turns the axis its way, with none not at all.  *)
LEMMA ReadMoves ==
    ASSUME AxisTypeOK, Read
    PROVE  /\ angle' = pos'
           /\ on' = on
           /\ on = {} => pos' = pos
           /\ on = {increase} => pos' >= pos /\ pos' <= pos + Slew
           /\ on = {decrease} => pos' <= pos /\ pos' >= pos - Slew
<1>1. pos' \in Turned(on, Slew) /\ angle' = pos' /\ on' = on
  BY DEF Read, boardVars
<1>2. /\ pos \in Int /\ pos' \in Int /\ Slew \in Nat
      /\ pos' <= pos + Slew /\ pos' >= pos - Slew
      /\ increase \notin on => pos' <= pos
      /\ decrease \notin on => pos' >= pos
  <2>1. pos \in -EndStop .. EndStop /\ Slew \in Nat /\ EndStop \in Nat
    BY AxisAssumption DEF AxisTypeOK
  <2>2. QED
    BY <1>1, <2>1, TurnedBounds
<1>3. increase # decrease
  BY AxisAssumption
<1>4. QED
  BY <1>1, <1>2, <1>3

(* What set_relay() has done when it returns.                              *)
LEMMA ReturnMoves ==
    ASSUME AxisTypeOK, CallInv, RelayInv, RelayReturns
    PROVE  /\ \/ pc = "increase on" /\ pc' = "increase" /\ on' = {increase}
              \/ pc = "increased?" /\ pc' = "increased" /\ on' = {}
              \/ pc = "decrease on" /\ pc' = "decrease" /\ on' = {decrease}
              \/ pc = "decreased?" /\ pc' = "settle" /\ on' = {}
           /\ pc \in {"increase on", "increased?"} => pos' >= pos /\ pos' <= pos + Coast
           /\ pc \in {"decrease on", "decreased?"} => pos' <= pos /\ pos' >= pos - Coast
           /\ UNCHANGED <<value, angle, outcome, failed>>
<1>1. /\ pc \in Returning
      /\ pc' = AfterReturn[pc]
      /\ on = Commanded(call)
      /\ UNCHANGED <<on, value, angle, outcome, failed>>
      /\ pos' \in Turned(on \union {call.relay}, Coast)
  BY DEF RelayReturns, Return, Step, SwitchingTurns, CallInv
<1>2. /\ pos \in -EndStop .. EndStop
      /\ Coast \in Nat
  BY AxisAssumption DEF AxisTypeOK
<1>3. increase \in Relays /\ decrease \in Relays /\ increase # decrease
  BY AxisAssumption
<1>4. CASE pc = "increase on"
  <2>1. call.relay = increase /\ call.command = "on"
    BY <1>3, <1>4, OrderType DEF CallInv
  <2>2. on = {increase} /\ on \union {call.relay} = {increase}
    BY <1>1, <1>4, <2>1 DEF RelayInv, Commanded
  <2>3. QED
    BY <1>1, <1>2, <1>3, <1>4, <2>2, TurnedBounds DEF AfterReturn, Returning
<1>5. CASE pc = "increased?"
  <2>1. call.relay = increase /\ call.command = "off"
    BY <1>3, <1>5, OrderType DEF CallInv
  <2>2. on = {} /\ on \union {call.relay} = {increase}
    BY <1>1, <1>5, <2>1 DEF RelayInv, Commanded
  <2>3. QED
    BY <1>1, <1>2, <1>3, <1>5, <2>2, TurnedBounds DEF AfterReturn, Returning
<1>6. CASE pc = "decrease on"
  <2>1. call.relay = decrease /\ call.command = "on"
    BY <1>3, <1>6, OrderType DEF CallInv
  <2>2. on = {decrease} /\ on \union {call.relay} = {decrease}
    BY <1>1, <1>6, <2>1 DEF RelayInv, Commanded
  <2>3. QED
    BY <1>1, <1>2, <1>3, <1>6, <2>2, TurnedBounds DEF AfterReturn, Returning
<1>7. CASE pc = "decreased?"
  <2>1. call.relay = decrease /\ call.command = "off"
    BY <1>3, <1>7, OrderType DEF CallInv
  <2>2. on = {} /\ on \union {call.relay} = {decrease}
    BY <1>1, <1>7, <2>1 DEF RelayInv, Commanded
  <2>3. QED
    BY <1>1, <1>2, <1>3, <1>7, <2>2, TurnedBounds DEF AfterReturn, Returning
<1>8. QED
  BY <1>1, <1>4, <1>5, <1>6, <1>7 DEF Returning

(* The travel limits follow from the place of the axis against the value.  *)
LEMMA PlaceStep ==
    ASSUME AxisInv, [AxisNext]_axisVars, ~failed'
    PROVE  RelayInv' /\ PlaceInv' /\ TravelLimited'
<1> USE DEF Outside, Overshoot
<1>1. /\ AxisTypeOK /\ AxisTypeOK' /\ CallInv /\ CallInv'
  BY TypeAndCallStep DEF AxisInv
<1>2. ~failed /\ RelayInv /\ PlaceInv /\ TravelLimited
  BY <1>1, FailureStays DEF AxisInv
<1>3. /\ value \in Int /\ pos \in Int /\ angle \in Int
      /\ value <= anglemax /\ value >= -anglemax
      /\ anglemax \in Nat /\ precision \in Nat \ {0} /\ Slew \in Nat \ {0}
      /\ Coast \in Nat /\ EndStop \in Nat
  <2>1. /\ value \in -anglemax .. anglemax
        /\ pos \in -EndStop .. EndStop
        /\ angle \in -EndStop .. EndStop
    BY <1>1 DEF AxisTypeOK
  <2>2. QED
    BY <2>1, AxisAssumption
<1> SUFFICES ASSUME NEW p \in Int, pos' = p, NEW a \in Int, angle' = a
             PROVE  RelayInv' /\ PlaceInv' /\ TravelLimited'
  <2>1. pos' \in -EndStop .. EndStop /\ angle' \in -EndStop .. EndStop
    BY <1>1 DEF AxisTypeOK
  <2>2. \E p, a \in Int : pos' = p /\ angle' = a
    BY <2>1, AxisAssumption
  <2>3. QED
    BY <2>2
<1>4. CASE SetValue
  BY <1>1, <1>2, <1>3, <1>4 DEF SetValue, boardVars, RelayInv, PlaceInv, TravelLimited
<1>5. CASE FirstRead
  <2>1. pos' = pos /\ on' = on /\ angle' = pos' /\ value' = value
    BY <1>1, <1>2, <1>5, ReadMoves DEF FirstRead, RelayInv
  <2>2. \/ Near(angle') /\ pc' = "idle" /\ outcome' = "ok"
        \/ ~Near(angle') /\ pc' = "choose" /\ outcome' = outcome
    BY <1>5 DEF FirstRead, End, Step
  <2>3. outcome = "running" /\ on = {}
    BY <1>1, <1>2, <1>5 DEF FirstRead, CallInv, RelayInv
  <2>4. Near(angle)' <=> Near(angle')
    BY <2>1 DEF Near, Abs
  <2>5. Near(pos)' <=> Near(angle')
    BY <2>1 DEF Near, Abs
  <2>6. QED
    BY <1>2, <1>3, <2>1, <2>2, <2>3, <2>4, <2>5 DEF RelayInv, PlaceInv, TravelLimited
<1>6. CASE Upwards
  <2>1. /\ pos = angle /\ ~Near(angle) /\ value > angle /\ on = {}
        /\ outcome = "running"
    BY <1>1, <1>2, <1>6 DEF Upwards, PlaceInv, RelayInv, CallInv
  <2>2. pos <= value - precision
    BY <1>3, <2>1, NearBounds
  <2>3. pc' = "increase on" /\ UNCHANGED <<on, value, pos, angle, outcome>>
    BY <1>6 DEF Upwards, Ask, Call, Step
  <2>4. QED
    BY <1>2, <1>3, <2>1, <2>2, <2>3 DEF RelayInv, PlaceInv, TravelLimited
<1>7. CASE Downwards
  <2>1. /\ pos > value /\ on = {} /\ outcome = "running"
    <3>1. pc \in {"choose", "increased"} /\ value < angle
      BY <1>7 DEF Downwards, Below
    <3>2. on = {} /\ outcome = "running" /\ (pos = angle \/ pos >= angle)
      BY <1>1, <1>2, <3>1 DEF PlaceInv, RelayInv, CallInv
    <3>3. QED
      BY <1>3, <3>1, <3>2
  <2>2. pc' = "decrease on" /\ UNCHANGED <<on, value, pos, angle, outcome>>
    BY <1>7 DEF Downwards, Ask, Call, Step
  <2>3. QED
    BY <1>2, <1>3, <2>1, <2>2 DEF RelayInv, PlaceInv, TravelLimited
<1>8. CASE NotDownwards
  BY <1>1, <1>2, <1>8 DEF NotDownwards, Step, boardVars, RelayInv, PlaceInv,
     TravelLimited, CallInv
<1>9. CASE Turning
  <2>1. /\ Read /\ UNCHANGED <<value, outcome>> /\ outcome = "running"
        /\ \/ /\ pc = "increase"
              /\ \/ value - angle' > precision /\ pc' = "increase"
                 \/ pc' = "increase off"
           \/ /\ pc = "decrease"
              /\ \/ angle' - value > precision /\ pc' = "decrease"
                 \/ pc' = "decrease off"
    BY <1>1, <1>9 DEF Turning, Step, IncreaseAgain, DecreaseAgain, CallInv
  <2>2. /\ angle' = pos' /\ on' = on
        /\ pc = "increase" => pos' >= pos /\ pos' <= pos + Slew
        /\ pc = "decrease" => pos' <= pos /\ pos' >= pos - Slew
    BY <1>1, <1>2, <2>1, ReadMoves DEF RelayInv
  <2>3. CASE pc = "increase"
    <3>1. /\ pos <= value - precision + Coast
          /\ pos > -anglemax - Overshoot
          /\ on = {increase}
      BY <1>2, <2>3 DEF PlaceInv, RelayInv, TravelLimited
    <3>2. \/ pc' = "increase" /\ pos' <= value - precision + Coast
          \/ pc' = "increase off" /\ pos' <= value - precision + Coast + Slew
      <4>1. p >= pos /\ p <= pos + Slew
        BY <2>2, <2>3
      <4>2. \/ pc' = "increase" /\ value - p > precision
            \/ pc' = "increase off"
        BY <2>1, <2>2, <2>3
      <4>3. value - p > precision => p <= value - precision + Coast
        BY <1>3
      <4>4. p <= value - precision + Coast + Slew
        BY <1>3, <3>1, <4>1
      <4>5. QED
        BY <4>2, <4>3, <4>4
    <3>3. TravelLimited'
      <4>1. p >= pos /\ p <= value - precision + Coast + Slew
        BY <1>3, <2>2, <2>3, <3>1
      <4>2. QED
        BY <1>3, <3>1, <4>1 DEF TravelLimited
    <3>4. RelayInv' /\ PlaceInv'
      BY <2>1, <2>2, <3>1, <3>2 DEF RelayInv, PlaceInv
    <3>5. QED
      BY <3>3, <3>4
  <2>4. CASE pc = "decrease"
    <3>1. /\ pos > value - Coast
          /\ pos <= anglemax + (IF Overshoot > precision THEN Overshoot - precision ELSE 0)
          /\ on = {decrease}
      BY <1>2, <2>4 DEF PlaceInv, RelayInv, TravelLimited
    <3>2. \/ pc' = "decrease" /\ pos' > value - Coast
          \/ pc' = "decrease off" /\ pos' > value - Coast - Slew
      <4>1. p <= pos /\ p >= pos - Slew
        BY <2>2, <2>4
      <4>2. \/ pc' = "decrease" /\ p - value > precision
            \/ pc' = "decrease off"
        BY <2>1, <2>2, <2>4
      <4>3. p - value > precision => p > value - Coast
        BY <1>3
      <4>4. p > value - Coast - Slew
        BY <1>3, <3>1, <4>1
      <4>5. QED
        BY <4>2, <4>3, <4>4
    <3>3. TravelLimited'
      <4>1. p <= pos /\ p > value - Coast - Slew
        BY <1>3, <2>2, <2>4, <3>1
      <4>2. QED
        BY <1>3, <3>1, <4>1 DEF TravelLimited
    <3>4. RelayInv' /\ PlaceInv'
      BY <2>1, <2>2, <3>1, <3>2 DEF RelayInv, PlaceInv
    <3>5. QED
      BY <3>3, <3>4
  <2>5. QED
    BY <2>1, <2>3, <2>4
<1>10. CASE SwitchOff
  <2>1. /\ \/ pc = "increase off" /\ pc' = "increased?"
           \/ pc = "decrease off" /\ pc' = "decreased?"
        /\ UNCHANGED <<on, value, pos, angle, outcome>>
        /\ outcome = "running"
    BY <1>1, <1>10 DEF SwitchOff, Ask, Call, Step, CallInv
  <2>2. QED
    BY <1>2, <1>3, <2>1 DEF RelayInv, PlaceInv, TravelLimited
<1>11. CASE Settle
  <2>1. pos' = pos /\ on' = on /\ angle' = pos' /\ value' = value /\ on = {}
    BY <1>1, <1>2, <1>11, ReadMoves DEF Settle, RelayInv
  <2>2. /\ \/ Near(angle') /\ pc' = "final"
           \/ ~Near(angle') /\ pc' = "choose"
        /\ outcome' = "running"
    BY <1>1, <1>11 DEF Settle, Step, CallInv
  <2>3. Near(angle)' <=> Near(angle')
    BY <2>1 DEF Near, Abs
  <2>4. QED
    BY <1>2, <1>3, <2>1, <2>2, <2>3 DEF RelayInv, PlaceInv, TravelLimited
<1>12. CASE FinalRead
  <2>1. pos' = pos /\ on' = on /\ angle' = pos' /\ value' = value /\ on = {}
    BY <1>1, <1>2, <1>12, ReadMoves DEF FinalRead, RelayInv
  <2>2. pc' = "idle" /\ Near(angle) /\ pos = angle
    BY <1>2, <1>12 DEF FinalRead, End, PlaceInv
  <2>3. Near(pos)' /\ (pos = angle)'
    BY <2>1, <2>2 DEF Near, Abs
  <2>4. QED
    BY <1>2, <1>3, <2>1, <2>2, <2>3 DEF RelayInv, PlaceInv, TravelLimited
<1>13. CASE RelaySwitches
  <2>1. /\ pc \in Returning /\ on' = Commanded(call)
        /\ UNCHANGED <<pc, value, pos, angle, outcome>>
    BY <1>1, <1>13 DEF RelaySwitches, Switch, CallInv
  <2>2. increase \in Relays /\ decrease \in Relays
    BY AxisAssumption
  <2>3. /\ pc \in {"increase on", "increased?"} => on' \subseteq {increase}
        /\ pc \in {"decrease on", "decreased?"} => on' \subseteq {decrease}
    BY <1>1, <1>2, <2>1, <2>2, OrderType DEF CallInv, RelayInv, Commanded
  <2>4. RelayInv'
    BY <2>1, <2>3 DEF RelayInv, Returning
  <2>5. Near(angle)' = Near(angle) /\ Near(pos)' = Near(pos)
    BY <2>1 DEF Near, Abs
  <2>6. PlaceInv' /\ TravelLimited'
    BY <1>2, <1>13, <2>1, <2>5 DEF RelaySwitches, PlaceInv, TravelLimited
  <2>7. QED
    BY <2>4, <2>6
<1>14. CASE RelayReturns
  <2>1. /\ \/ pc = "increase on" /\ pc' = "increase" /\ on' = {increase}
           \/ pc = "increased?" /\ pc' = "increased" /\ on' = {}
           \/ pc = "decrease on" /\ pc' = "decrease" /\ on' = {decrease}
           \/ pc = "decreased?" /\ pc' = "settle" /\ on' = {}
        /\ pc \in {"increase on", "increased?"} => pos' >= pos /\ pos' <= pos + Coast
        /\ pc \in {"decrease on", "decreased?"} => pos' <= pos /\ pos' >= pos - Coast
        /\ UNCHANGED <<value, angle, outcome, failed>>
    BY <1>1, <1>2, <1>14, ReturnMoves
  <2>2. outcome = "running"
    BY <1>1, <2>1 DEF CallInv
  <2>3. RelayInv'
    BY <2>1 DEF RelayInv
  <2>4. CASE pc \in {"increase on", "increased?"}
    <3>1. /\ pc = "increase on" => pos <= value - precision
          /\ pc = "increased?" => pos = angle /\ pos <= value - precision + Coast + Slew
          /\ pos > -anglemax - Overshoot
      BY <1>2 DEF PlaceInv, TravelLimited
    <3>2. p >= pos /\ p <= pos + Coast
      BY <2>1, <2>4
    <3>3. TravelLimited'
      <4>1. pos > -anglemax - Overshoot
        BY <3>1
      <4>2. \/ pos <= value - precision
            \/ pos <= value - precision + Coast + Slew
        BY <2>4, <3>1
      <4>3. QED
        BY <1>3, <3>2, <4>1, <4>2 DEF TravelLimited
    <3>4. PlaceInv'
      <4>1. CASE pc = "increase on"
        <5>1. p <= value - precision + Coast
          <6>1. pos <= value - precision
            BY <3>1, <4>1
          <6>2. QED
            BY <1>3, <3>2, <6>1
        <5>2. QED
          BY <2>1, <2>2, <4>1, <5>1 DEF PlaceInv
      <4>2. CASE pc = "increased?"
        <5>1. p >= angle /\ p <= value - precision + 2 * Coast + Slew
          BY <1>3, <3>1, <3>2, <4>2
        <5>2. QED
          BY <2>1, <2>2, <4>2, <5>1 DEF PlaceInv
      <4>3. QED
        BY <2>4, <4>1, <4>2
    <3>5. QED
      BY <2>3, <3>3, <3>4
  <2>5. CASE pc \in {"decrease on", "decreased?"}
    <3>1. /\ pc = "decrease on" => pos > value
          /\ pc = "decreased?" => pos > value - Coast - Slew
          /\ pos <= anglemax + (IF Overshoot > precision THEN Overshoot - precision ELSE 0)
      BY <1>2 DEF PlaceInv, TravelLimited
    <3>2. p <= pos /\ p >= pos - Coast
      BY <2>1, <2>5
    <3>3. TravelLimited'
      <4>1. pos <= anglemax + (IF Overshoot > precision THEN Overshoot - precision ELSE 0)
        BY <3>1
      <4>2. pos > value \/ pos > value - Coast - Slew
        BY <2>5, <3>1
      <4>3. QED
        BY <1>3, <3>2, <4>1, <4>2 DEF TravelLimited
    <3>4. PlaceInv'
      <4>1. CASE pc = "decrease on"
        <5>1. p > value - Coast
          <6>1. pos > value
            BY <3>1, <4>1
          <6>2. QED
            BY <1>3, <3>2, <6>1
        <5>2. QED
          BY <2>1, <2>2, <4>1, <5>1 DEF PlaceInv
      <4>2. CASE pc = "decreased?"
        BY <2>1, <2>2, <4>2 DEF PlaceInv
      <4>3. QED
        BY <2>5, <4>1, <4>2
    <3>5. QED
      BY <2>3, <3>3, <3>4
  <2>6. QED
    BY <2>1, <2>3, <2>4, <2>5
<1>15. CASE RelayThrows \/ ReadThrows
  BY <1>15 DEF RelayThrows, ReadThrows, End
<1>16. CASE Drift
  <2>1. /\ pc = "idle" /\ on = {}
        /\ pos' \in Turned(on, Slew) /\ pos' # pos
    BY <1>2, <1>16 DEF Drift, RelayInv
  <2>2. pos' = pos
    <3>1. pos \in -EndStop .. EndStop /\ increase \notin on /\ decrease \notin on
      BY <1>1, <2>1 DEF AxisTypeOK
    <3>2. pos' <= pos /\ pos' >= pos
      BY <1>3, <2>1, <3>1, TurnedBounds
    <3>3. QED
      BY <1>3, <3>2
  <2>3. QED
    BY <2>1, <2>2
<1>17. CASE UNCHANGED axisVars
  <2>1. Near(angle)' = Near(angle) /\ Near(pos)' = Near(pos)
    BY <1>17 DEF axisVars, Near, Abs
  <2>2. QED
    BY <1>2, <1>17, <2>1 DEF axisVars, boardVars, RelayInv, PlaceInv, TravelLimited
<1>18. QED
  BY StepCases, <1>4, <1>5, <1>6, <1>7, <1>8, <1>9, <1>10, <1>11, <1>12, <1>13,
     <1>14, <1>15, <1>16, <1>17

THEOREM AxisInductive == AxisSpec => []AxisInv
<1>1. AxisInit => AxisInv
  <2> SUFFICES ASSUME AxisInit PROVE AxisInv
    OBVIOUS
  <2>1. /\ pos \in -anglemax .. anglemax /\ angle = pos /\ value = 0
        /\ pc = "idle" /\ on = {} /\ outcome = "none"
    BY DEF AxisInit, Init
  <2>2. AxisTypeOK /\ CallInv
    BY InitType
  <2>3. TravelLimited
    BY <2>1, AxisAssumption DEF TravelLimited, Overshoot
  <2>4. RelayInv /\ PlaceInv
    BY <2>1 DEF RelayInv, PlaceInv, Outside
  <2>5. QED
    BY <2>2, <2>3, <2>4 DEF AxisInv
<1>2. AxisInv /\ [AxisNext]_axisVars => AxisInv'
  BY TypeAndCallStep, PlaceStep DEF AxisInv
<1>3. QED
  BY <1>1, <1>2, PTL DEF AxisSpec

(* Until an exception never both relays are on, and none is outside        *)
(* increase() and decrease().                                              *)
THEOREM NeverBoth == AxisSpec => []RelaysExclusive
<1>1. AxisInv => RelaysExclusive
  <2> SUFFICES ASSUME AxisInv, ~failed PROVE on # Relays /\ (pc \in Outside => on = {})
    BY DEF RelaysExclusive
  <2>1. RelayInv /\ pc \in Outside \union {"increase", "increase off", "decrease",
                                         "decrease off"} \union Returning
    BY DEF AxisInv, AxisTypeOK, Outside
  <2>2. on \subseteq {increase} \/ on \subseteq {decrease}
    BY <2>1 DEF RelayInv, Outside, Returning
  <2>3. on # Relays
    BY <2>2, AxisAssumption
  <2>4. QED
    BY <2>1, <2>3 DEF RelayInv
<1>2. QED
  BY <1>1, AxisInductive, PTL

(* A call that returns has brought the axis to where it was asked to.      *)
THEOREM Arrives == AxisSpec => []Arrived
<1>1. AxisInv => Arrived
  BY DEF AxisInv, PlaceInv, Arrived
<1>2. QED
  BY <1>1, AxisInductive, PTL

(* The axis passes the limits by the overshoot at most.                    *)
THEOREM Travel == AxisSpec => []TravelLimited
<1>1. AxisInv => TravelLimited
  BY DEF AxisInv, TravelLimited
<1>2. QED
  BY <1>1, AxisInductive, PTL

(* Only two actions move the axis while a call is under way, and each only *)
(* the way of its relay.                                                   *)
LEMMA Direction ==
    ASSUME AxisInv, [AxisNext]_axisVars, ~failed, ~failed', pc # "idle"
    PROVE  /\ value' = value
           /\ \/ pos' = pos
              \/ pc' \in {"increase", "increase off", "increased"} /\ pos' >= pos
              \/ pc' \in {"decrease", "decrease off"} /\ pos' <= pos
              \/ pc = "decreased?" /\ pos' <= pos /\ pos' >= pos - Coast
<1>1. AxisTypeOK /\ CallInv /\ RelayInv
  BY DEF AxisInv
<1>2. CASE FirstRead \/ Settle \/ FinalRead
  <2>1. Read /\ on = {} /\ value' = value
    BY <1>1, <1>2 DEF FirstRead, Settle, FinalRead, RelayInv, Outside
  <2>2. QED
    BY <1>1, <2>1, ReadMoves
<1>3. CASE Turning
  <2>1. /\ Read /\ value' = value
        /\ \/ pc = "increase" /\ pc' \in {"increase", "increase off"}
           \/ pc = "decrease" /\ pc' \in {"decrease", "decrease off"}
    BY <1>3 DEF Turning, Step
  <2>2. \/ on = {increase} /\ pc' \in {"increase", "increase off"}
        \/ on = {decrease} /\ pc' \in {"decrease", "decrease off"}
    BY <1>1, <2>1 DEF RelayInv
  <2>3. QED
    BY <1>1, <2>1, <2>2, ReadMoves
<1>4. CASE RelayReturns
  BY <1>1, <1>4, ReturnMoves
<1>5. CASE RelayThrows \/ ReadThrows
  BY <1>5 DEF RelayThrows, ReadThrows, End
<1>6. CASE \/ Upwards \/ Downwards \/ NotDownwards \/ SwitchOff
           \/ RelaySwitches \/ UNCHANGED axisVars
  BY <1>6 DEF Upwards, Downwards, NotDownwards, SwitchOff, RelaySwitches, axisVars
<1>7. CASE SetValue \/ Drift
  BY <1>7 DEF SetValue, Drift
<1>8. QED
  BY StepCases, <1>2, <1>3, <1>4, <1>5, <1>6, <1>7

(* A move away from v has passed it.                                       *)
LEMMA Farther ==
    ASSUME NEW v \in Int, NEW p \in Int, NEW q \in Int, Abs(q - v) > Abs(p - v)
    PROVE  /\ q # p
           /\ q >= p => Abs(q - v) = q - v
           /\ q <= p => Abs(q - v) = v - q
BY DEF Abs

(* The loop drives the axis away from its value by the overshoot at most.  *)
THEOREM HomingHolds == AxisSpec => Homing
<1>1. ASSUME AxisInv, AxisInv', [AxisNext]_axisVars, ~failed', pc # "idle",
             Abs(pos' - value) > Abs(pos - value)
      PROVE  Abs(pos' - value) <= Overshoot
  <2>1. ~failed /\ PlaceInv /\ PlaceInv'
    BY <1>1, FailureStays DEF AxisInv
  <2>2. PICK q \in Int : pos' = q
    <3>1. pos' \in -EndStop .. EndStop
      BY <1>1 DEF AxisInv, AxisTypeOK
    <3>2. QED
      BY <3>1, AxisAssumption
  <2>3. /\ value \in Int /\ pos \in Int /\ q \in Int
        /\ precision \in Nat \ {0} /\ Slew \in Nat \ {0} /\ Coast \in Nat
    <3>1. value \in -anglemax .. anglemax /\ pos \in -EndStop .. EndStop
      BY <1>1 DEF AxisInv, AxisTypeOK
    <3>2. QED
      BY <2>2, <3>1, AxisAssumption
  <2>4. /\ q # pos
        /\ q >= pos => Abs(q - value) = q - value
        /\ q <= pos => Abs(q - value) = value - q
    BY <1>1, <2>2, <2>3, Farther
  <2>5. \/ q >= pos /\ q <= value - precision + 2 * Coast + Slew
        \/ q <= pos /\ q > value - 2 * Coast - Slew
    <3>1. /\ value' = value
          /\ \/ pc' \in {"increase", "increase off", "increased"} /\ q >= pos
             \/ pc' \in {"decrease", "decrease off"} /\ q <= pos
             \/ pc = "decreased?" /\ q <= pos /\ q >= pos - Coast
      BY <1>1, <2>1, <2>2, <2>4, Direction
    <3>2. CASE pc' \in {"increase", "increase off", "increased"} /\ q >= pos
      <4>1. \/ q <= value - precision + Coast
            \/ q <= value - precision + Coast + Slew
            \/ q <= value - precision + 2 * Coast + Slew
        BY <2>1, <2>2, <3>1, <3>2 DEF PlaceInv
      <4>2. q <= value - precision + 2 * Coast + Slew
        BY <2>3, <4>1
      <4>3. QED
        BY <3>2, <4>2
    <3>3. CASE pc' \in {"decrease", "decrease off"} /\ q <= pos
      <4>1. q > value - Coast \/ q > value - Coast - Slew
        BY <2>1, <2>2, <3>1, <3>3 DEF PlaceInv
      <4>2. q > value - 2 * Coast - Slew
        BY <2>3, <4>1
      <4>3. QED
        BY <3>3, <4>2
    <3>4. CASE pc = "decreased?" /\ q <= pos /\ q >= pos - Coast
      <4>1. pos > value - Coast - Slew
        BY <2>1, <3>4 DEF PlaceInv
      <4>2. q > value - 2 * Coast - Slew
        BY <2>3, <3>4, <4>1
      <4>3. QED
        BY <3>4, <4>2
    <3>5. QED
      BY <3>1, <3>2, <3>3, <3>4
  <2>6. Abs(q - value) <= Slew + 2 * Coast
    BY <2>3, <2>4, <2>5
  <2>7. QED
    BY <2>2, <2>6 DEF Overshoot
<1>2. QED
  BY <1>1, AxisInductive, PTL DEF AxisSpec, Homing

(* Until an exception the axis turns astray by the overshoot at most.      *)
THEOREM TravelIsBounded == AxisSpec => TravelBounded
BY Travel, HomingHolds DEF TravelBounded
=============================================================================
