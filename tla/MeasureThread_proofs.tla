------------------------ MODULE MeasureThread_proofs ------------------------
(***************************************************************************)
(* Proofs about the worker of MeasureThread.tla, for any set of channels,  *)
(* any settings the dialogs accept and any queue bounds.                   *)
(***************************************************************************)
EXTENDS MeasureThread, TLAPS

(* The arithmetic of groups of m samples.                                  *)
LEMMA DivMod ==
    ASSUME NEW q \in Nat, NEW m \in Nat \ {0}, NEW r \in 0 .. m - 1
    PROVE  /\ (q * m + r) \div m = q
           /\ (q * m + r) % m = r
BY SMT

LEMMA GroupEnd ==
    ASSUME NEW q \in Nat, NEW m \in Nat \ {0}
    PROVE  /\ (q * m) % m = 0
           /\ (q * m + m) % m = 0
           /\ (q + 1) * m = q * m + m
           /\ 0 % m = 0
           /\ m % m = 0
           /\ \A r \in 0 .. m - 1 : r % m = r
BY SMT

(* A queued call of manual_control() carries a value for every channel.    *)
LEMMA ManualSlot ==
    ASSUME NEW s \in Slot, s.slot = "manual_control"
    PROVE  s.hash \in Values
BY DEF Slot

(* Confs holds what the dialogs accept.                                    *)
LEMMA ConfType ==
    ASSUME NEW c \in Confs
    PROVE  /\ c.control \in Channels \union {NoControl}
           /\ c.start \in [Channels -> Int]
           /\ c.end \in Int
           /\ c.step \in Int
           /\ c.iterations \in Nat
           /\ c.mpi \in Nat \ {0}
           /\ c.exceeds \in BOOLEAN
           /\ c.exceeds => c.control # NoControl /\ c.start[c.control] # c.end
           /\ c.control # NoControl =>
                 \/ c.step > 0 /\ c.start[c.control] <= c.end
                 \/ c.step < 0 /\ c.start[c.control] > c.end
BY ConstantsAssumption DEF ConfsAssumption

(* processEvents() only ever runs well-formed calls, and changes man_hash  *)
(* only together with man_control.                                         *)
LEMMA ProcessEventsType ==
    ASSUME TypeOK, NEW stop \in BOOLEAN, ProcessEvents(stop)
    PROVE  /\ inbox' = << >>
           /\ m_stop' \in BOOLEAN
           /\ man_control' \in BOOLEAN
           /\ man_hash' \in Values \union {EmptyHash}
           /\ man_control' \/ UNCHANGED <<man_control, man_hash>>
           /\ stop => m_stop'
<1> DEFINE manual == {i \in DOMAIN inbox : inbox[i].slot = "manual_control"}
<1>1. inbox' = << >> /\ m_stop' \in BOOLEAN /\ (stop => m_stop')
  BY DEF ProcessEvents
<1>2. CASE manual = {} /\ UNCHANGED <<man_control, man_hash>>
  BY <1>1, <1>2 DEF TypeOK
<1>3. ASSUME NEW i \in manual, man_control' = TRUE, man_hash' = inbox[i].hash
      PROVE  man_hash' \in Values
  <2>1. inbox[i] \in Slot /\ inbox[i].slot = "manual_control"
    BY DEF TypeOK
  <2>2. QED BY <2>1, <1>3, ManualSlot
<1>4. QED BY <1>1, <1>2, <1>3 DEF ProcessEvents

(* The members of a new object have their types.                           *)
LEMMA FreshType ==
    ASSUME NEW c \in Confs, Fresh(c)
    PROVE  /\ current' \in Int /\ k' = 0 /\ l' = 0 /\ emitted' = 0
           /\ m_stop' = FALSE /\ man_control' = FALSE
           /\ man_hash' = EmptyHash /\ outcome' = "running"
<1>1. CASE c.control = NoControl
  BY <1>1 DEF Fresh
<1>2. CASE c.control # NoControl
  <2>1. c.control \in Channels /\ c.start \in [Channels -> Int]
    BY <1>2, ConfType
  <2>2. c.start[c.control] \in Int
    BY <2>1
  <2>3. QED BY <1>2, <2>2 DEF Fresh
<1>3. QED BY <1>1, <1>2

(* A channel is only ever commanded to a number.                           *)
LEMMA CommandedType ==
    ASSUME TypeOK, NEW c \in Commanded
    PROVE  c \in Channels /\ CommandedValue(c) \in Int
<1>1. CASE ~Sweep /\ man_control
  <2>1. c \in Channels /\ c \in DOMAIN man_hash
    BY <1>1 DEF Commanded
  <2>2. man_hash \in Values
    BY <2>1 DEF TypeOK, EmptyHash
  <2>3. man_hash[c] \in Levels
    BY <2>1, <2>2 DEF Values
  <2>4. QED BY <1>1, <2>1, <2>3, ConstantsAssumption DEF CommandedValue
<1>2. CASE ~(~Sweep /\ man_control)
  BY <1>2 DEF Commanded, CommandedValue, TypeOK
<1>3. QED BY <1>1, <1>2

-----------------------------------------------------------------------------
LEMMA InitType == Init => TypeOK
<1> SUFFICES ASSUME Init PROVE TypeOK
  OBVIOUS
<1>1. setpoint \in [Channels -> Int]
  BY ConstantsAssumption DEF Init, Values
<1>2. inbox \in Seq(Slot) /\ outbox \in Seq([type : EventType, n : Nat])
  BY DEF Init
<1>3. pc \in PcValues /\ conf \in Confs /\ man_hash \in Values \union {EmptyHash}
  BY DEF Init, PcValues
<1>4. current \in Int /\ k \in Nat /\ l \in Nat /\ progress \in Int /\ emitted \in Nat
  BY DEF Init
<1>5. m_stop \in BOOLEAN /\ man_control \in BOOLEAN
      /\ outcome \in {"running", "ok", "error"}
  BY DEF Init
<1>6. QED BY <1>1, <1>2, <1>3, <1>4, <1>5 DEF TypeOK

LEMMA TypeStep ==
    ASSUME TypeOK, [Next]_workerVars
    PROVE  TypeOK'
<1> USE DEF TypeOK, PcValues, Running
<1>0. conf.mpi \in Nat \ {0} /\ conf.start \in [Channels -> Int]
      /\ conf.step \in Int
  BY ConfType
<1>1. CASE SetInitial
  BY <1>1, <1>0 DEF SetInitial, SetChannels, Throw
<1>2. CASE SetChannel
  <2>1. man_control' \in BOOLEAN
    BY <1>2 DEF SetChannel, LoopAgain
  <2>2. setpoint' \in [Channels -> Int]
    <3>1. ASSUME NEW S \in SUBSET Commanded,
                 SetChannels(S, [c \in S |-> CommandedValue(c)])
          PROVE  setpoint' \in [Channels -> Int]
      BY <3>1, CommandedType DEF SetChannels
    <3>2. QED BY <1>2, <3>1 DEF SetChannel, LoopAgain
  <2>3. QED BY <1>2, <2>1, <2>2 DEF SetChannel, Throw, LoopAgain
<1>3. CASE Read
  <2>1. Count \in Nat
    BY <1>0 DEF Count
  <2>2. <<Done(Count), Event("newData")>> \in Seq([type : EventType, n : Nat])
    BY <2>1 DEF Done, Event, EventType
  <2>3. outbox' \in Seq([type : EventType, n : Nat])
    <3>1. CASE outbox' = outbox \o <<Done(Count), Event("newData")>>
      BY <3>1, <2>2
    <3>2. QED BY <1>3, <3>1 DEF Read, GroupDone
  <2>4. QED BY <1>3, <2>1, <2>3 DEF Read, Throw, GroupDone
<1>4. CASE Events
  <2>1. ProcessEvents(m_stop)
    BY <1>4 DEF Events
  <2>2. inbox' = << >> /\ m_stop' \in BOOLEAN /\ man_control' \in BOOLEAN
        /\ man_hash' \in Values \union {EmptyHash}
    BY <2>1, ProcessEventsType
  <2>3. progress' \in Int
    BY <1>4, <1>0, ConfType DEF Events, Percentage, Sweep, Start, Endless
  <2>4. QED BY <1>4, <2>2, <2>3 DEF Events
<1>5. CASE Advance
  <2>1. ProcessEvents(m_stop \/ Finished(current', k'))
    BY <1>5 DEF Advance, GroupDone
  <2>2. inbox' = << >> /\ m_stop' \in BOOLEAN /\ man_control' \in BOOLEAN
        /\ man_hash' \in Values \union {EmptyHash}
    BY <2>1, ProcessEventsType
  <2>3. QED BY <1>5, <1>0, <2>2 DEF Advance, CountIteration, GroupDone
<1>6. CASE SetFinal
  BY <1>6 DEF SetFinal, SetChannels, Throw, LoopAgain, SetFinals
<1>7. CASE Catch
  BY <1>7 DEF Catch, Event, EventType
<1>8. CASE Return
  BY <1>8 DEF Return
<1>9. CASE ThreadFinished
  BY <1>9 DEF ThreadFinished, Event, EventType
<1>10. ASSUME NEW c \in Confs, NEW p \in {"built", "started"}, ConstructAt(c, p)
       PROVE  TypeOK'
  <2>1. Fresh(c)
    BY <1>10 DEF ConstructAt
  <2>2. /\ current' \in Int /\ k' = 0 /\ l' = 0 /\ emitted' = 0
        /\ m_stop' = FALSE /\ man_control' = FALSE
        /\ man_hash' = EmptyHash /\ outcome' = "running"
    BY <2>1, FreshType
  <2>3. setpoint' \in [Channels -> Int]
    BY <1>10 DEF ConstructAt, SetChannels, SetFinals
  <2>4. QED BY <1>10, <2>2, <2>3 DEF ConstructAt
<1>11. CASE FailedRun
  BY <1>11 DEF FailedRun, ConstructFails, SetChannels, SetFinals
<1>12. ASSUME Delete, outbox' \in {outbox, Tail(outbox)}, outbox' = outbox \/ outbox # << >>
       PROVE  TypeOK'
  <2>1. Fresh(conf)
    BY <1>12 DEF Delete
  <2>2. /\ current' \in Int /\ k' = 0 /\ l' = 0 /\ emitted' = 0
        /\ m_stop' = FALSE /\ man_control' = FALSE
        /\ man_hash' = EmptyHash /\ outcome' = "running"
    BY <2>1, FreshType
  <2>3. inbox' \in Seq(Slot) /\ UNCHANGED <<conf, progress, setpoint>>
        /\ pc' \in PcValues
    BY <1>12 DEF Delete
  <2>4. outbox' \in Seq([type : EventType, n : Nat])
    <3>1. outbox # << >> => Tail(outbox) \in Seq([type : EventType, n : Nat])
      OBVIOUS
    <3>2. QED
      BY <1>12, <3>1
  <2>5. QED BY <2>2, <2>3, <2>4
<1>13. CASE GuiPost
  BY <1>13 DEF GuiPost, Post
<1>14. CASE GuiTakes
  BY <1>14 DEF GuiTakes
<1>15. CASE UNCHANGED workerVars
  BY <1>15 DEF workerVars
<1>16. QED
  BY <1>1, <1>2, <1>3, <1>4, <1>5, <1>6, <1>7, <1>8, <1>9, <1>10, <1>11,
     <1>12, <1>13, <1>14, <1>15
     DEF Next, Worker, Environment, NewRun, NotReady, Destroy, GuiDelete

(* Every value the worker keeps has its type in every reachable state.     *)
THEOREM TypeCorrect == Spec => []TypeOK
<1>1. TypeOK /\ [Next]_workerVars => TypeOK'
  BY TypeStep
<1>2. QED BY <1>1, InitType, PTL DEF Spec

-----------------------------------------------------------------------------
(* The inductive invariant, one part at a time.  A step of the environment *)
(* that leaves the run alone keeps every part.                             *)

Quiet == UNCHANGED <<pc, conf, current, k, l, m_stop, man_control, man_hash,
                     setpoint, emitted, outcome>>

\* The steps, as the lemmas below split them
LEMMA StepCases ==
    ASSUME [Next]_workerVars
    PROVE  \/ SetInitial \/ SetChannel \/ Read \/ Events \/ Advance \/ SetFinal
           \/ Catch \/ Return \/ ThreadFinished
           \/ pc = "none" /\ \E c \in Confs, p \in {"built", "started"} :
                                 ConstructAt(c, p)
           \/ FailedRun
           \/ Delete
           \/ Quiet
BY DEF Next, Worker, Environment, NewRun, NotReady, Destroy, GuiPost,
       GuiTakes, GuiDelete, Post, Quiet, workerVars

LEMMA CountingStep ==
    ASSUME TypeOK, CountingInv, [Next]_workerVars
    PROVE  CountingInv'
<1> USE DEF CountingInv, EmittedInGroup, Endless
<1>0. conf.mpi \in Nat \ {0} /\ conf.iterations \in Nat
      /\ k \in Nat /\ l \in Nat /\ emitted \in Nat
  BY ConfType DEF TypeOK
<1>1. CASE SetInitial
  BY <1>1, <1>0 DEF SetInitial, Throw
<1>2. CASE SetChannel
  BY <1>2, <1>0 DEF SetChannel, Throw, LoopAgain
<1>3. CASE Read
  <2>1. CASE Endless
    <3>1. emitted = l /\ l < conf.mpi
      BY <1>3, <1>0, <2>1 DEF Read, GroupDone
    <3>2. Count = IF l + 1 = conf.mpi THEN 0 ELSE l + 1
      BY <1>0, <2>1, <3>1, GroupEnd DEF Count
    <3>3. QED BY <1>3, <1>0, <2>1, <3>1, <3>2 DEF Read, Throw, GroupDone
  <2>2. CASE ~Endless
    <3>1. emitted = k * conf.mpi + l /\ l < conf.mpi /\ Count = emitted + 1
      BY <1>3, <2>2, <1>0 DEF Read, Count, GroupDone
    <3>2. emitted + 1 = k * conf.mpi + (l + 1)
      <4>1. k * conf.mpi \in Nat
        BY <1>0
      <4>2. QED BY <4>1, <3>1, <1>0
    <3>3. pc' = "failed" \/ (pc' = "events" /\ emitted' = Count)
      BY <1>3 DEF Read, Throw, GroupDone
    <3>4. UNCHANGED <<conf, k, l, m_stop>>
      BY <1>3 DEF Read, GroupDone
    <3>5. QED BY <3>1, <3>2, <3>3, <3>4, <2>2
  <2>3. QED BY <2>1, <2>2
<1>4. CASE Events
  BY <1>4, <1>0 DEF Events
<1>5. CASE Advance
  <2>1. l = conf.mpi
    BY <1>5, <1>0 DEF Advance, GroupDone
  <2>2. CASE Endless
    BY <1>5, <1>0, <2>1, <2>2 DEF Advance, CountIteration, GroupDone
  <2>3. CASE ~Endless
    <3>1. emitted = k * conf.mpi + conf.mpi
      BY <1>5, <1>0, <2>1, <2>3 DEF Advance, GroupDone
    <3>2. emitted = (k + 1) * conf.mpi
      BY <3>1, <1>0, GroupEnd
    <3>3. pc' = "loop" /\ k' = k + 1 /\ UNCHANGED <<conf, l, emitted>>
      BY <1>5, <2>3 DEF Advance, CountIteration, GroupDone
    <3>4. QED BY <3>2, <3>3, <2>1, <2>3, <1>0
  <2>4. QED BY <2>2, <2>3
<1>6. CASE SetFinal
  BY <1>6 DEF SetFinal, Throw, LoopAgain, SetFinals
<1>7. CASE Catch \/ Return \/ ThreadFinished
  BY <1>7 DEF Catch, Return, ThreadFinished
<1>8. ASSUME NEW c \in Confs, NEW p \in {"built", "started"}, ConstructAt(c, p)
      PROVE  CountingInv'
  <2>1. c.mpi \in Nat \ {0}
    BY ConfType
  <2>2. pc' \in {"built", "started"} /\ conf' = c /\ k' = 0 /\ l' = 0 /\ emitted' = 0
    BY <1>8 DEF ConstructAt, Fresh
  <2>3. QED BY <2>1, <2>2
<1>9. CASE FailedRun
  BY <1>9 DEF FailedRun, ConstructFails
<1>10. CASE Delete
  <2>1. pc' = "none" /\ conf' = conf /\ l' = 0
    BY <1>10 DEF Delete, Fresh
  <2>2. QED BY <2>1, <1>0
<1>11. CASE Quiet
  BY <1>11 DEF Quiet
<1>12. QED
  BY <1>1, <1>2, <1>3, <1>4, <1>5, <1>6, <1>7, <1>8, <1>9, <1>10, <1>11,
     StepCases

(* A channel outside the commanded ones, and every channel when nothing is *)
(* set, keeps its value; the commanded ones take the value given.          *)
LEMMA SetChannelsResult ==
    ASSUME NEW S, NEW f, SetChannels(S, f), NEW c \in Channels
    PROVE  setpoint'[c] = IF c \in S THEN f[c] ELSE setpoint[c]
BY DEF SetChannels

(* The sweep starts within its bounds.                                     *)
LEMMA StartNotPast ==
    ASSUME NEW c \in Confs, c.control # NoControl
    PROVE  /\ c.control \in Channels
           /\ c.start[c.control] \in Int
           /\ ~(c.step > 0 /\ c.start[c.control] > c.end)
           /\ ~(c.step < 0 /\ c.start[c.control] < c.end)
           /\ ~(c.exceeds /\ c.start[c.control] = c.end)
<1>1. c.control \in Channels /\ c.start[c.control] \in Int
  BY ConfType
<1>2. c.step \in Int /\ c.end \in Int
  BY ConfType
<1>3. \/ c.step > 0 /\ c.start[c.control] <= c.end
      \/ c.step < 0 /\ c.start[c.control] > c.end
  BY ConfType
<1>4. c.exceeds => c.start[c.control] # c.end
  BY ConfType
<1>5. QED BY <1>1, <1>2, <1>3, <1>4

(* The next point of a sweep, and on which side of the start a point lies. *)
LEMMA NextPoint ==
    ASSUME NEW s \in Int, NEW q \in Nat, NEW d \in Int
    PROVE  s + q * d + d = s + (q + 1) * d
BY SMT

LEMMA PointSide ==
    ASSUME NEW q \in Nat, NEW d \in Int
    PROVE  /\ d > 0 => q * d >= 0
           /\ d < 0 => q * d <= 0
BY SMT

LEMMA SweepStep ==
    ASSUME TypeOK, SweepInv, [Next]_workerVars
    PROVE  SweepInv'
<1> USE DEF SweepInv, Sweep, Start, InIteration
<1>0. /\ conf \in Confs /\ k \in Nat /\ current \in Int
      /\ conf.step \in Int /\ conf.end \in Int
      /\ Sweep => Start \in Int /\ conf.control \in Channels
  BY ConfType, StartNotPast DEF TypeOK
<1>1. CASE SetInitial
  BY <1>1, <1>0 DEF SetInitial, Throw, Past
<1>2. CASE SetChannel
  <2>1. CASE pc' = "read" /\ Sweep
    <3>1. SetChannels(Commanded, [c \in Commanded |-> CommandedValue(c)])
      BY <1>2, <2>1 DEF SetChannel, Throw, LoopAgain
    <3>2. conf.control \in Commanded /\ CommandedValue(conf.control) = current
      BY <2>1, <1>0 DEF Commanded, CommandedValue
    <3>3. setpoint'[conf.control] = current
      BY <3>1, <3>2, <2>1, <1>0, SetChannelsResult
    <3>4. UNCHANGED <<conf, current, k, m_stop>> /\ pc = "loop" /\ ~m_stop
      BY <1>2 DEF SetChannel, LoopAgain
    <3>5. QED BY <3>3, <3>4, <2>1 DEF Past
  <2>2. CASE pc' = "failed" \/ ~Sweep
    BY <1>2, <2>2 DEF SetChannel, Throw, LoopAgain
  <2>3. QED BY <1>2, <2>1, <2>2 DEF SetChannel, Throw, LoopAgain
<1>3. CASE Read
  BY <1>3 DEF Read, Throw, Past, GroupDone
<1>4. CASE Events
  BY <1>4 DEF Events, Past
<1>5. CASE Advance
  <2>1. CASE Sweep
    <3>1. current' = current + conf.step /\ k' = k + 1
          /\ UNCHANGED <<conf, setpoint>> /\ pc' = "loop" /\ pc = "read"
      BY <1>5, <2>1 DEF Advance, CountIteration, Endless, GroupDone
    <3>2. current = Start + k * conf.step
      BY <2>1, <3>1
    <3>3. current + conf.step = Start + (k + 1) * conf.step
      BY <3>2, <2>1, <1>0, NextPoint
    <3>4. Past(current') => m_stop'
      BY <1>5, <2>1 DEF Advance, ProcessEvents, GroupDone, Finished
    <3>5. QED BY <3>1, <3>3, <3>4, <2>1 DEF Past
  <2>2. CASE ~Sweep
    BY <1>5, <2>2 DEF Advance, GroupDone
  <2>3. QED BY <2>1, <2>2
<1>6. CASE SetFinal
  BY <1>6 DEF SetFinal, Throw, LoopAgain, SetFinals
<1>7. CASE Catch \/ Return \/ ThreadFinished
  BY <1>7 DEF Catch, Return, ThreadFinished
<1>8. ASSUME NEW c \in Confs, NEW p \in {"built", "started"}, ConstructAt(c, p)
      PROVE  SweepInv'
  <2>1. pc' \in {"built", "started"} /\ conf' = c /\ k' = 0
        /\ (c.control # NoControl => current' = c.start[c.control])
    BY <1>8 DEF ConstructAt, Fresh
  <2>2. CASE c.control # NoControl
    <3>1. current' = c.start[c.control] + 0 * c.step
      BY <2>1, <2>2, StartNotPast, ConfType
    <3>2. QED BY <2>1, <2>2, <3>1, StartNotPast DEF Past
  <2>3. CASE c.control = NoControl
    BY <2>1, <2>3
  <2>4. QED BY <2>2, <2>3
<1>9. CASE FailedRun
  BY <1>9 DEF FailedRun, ConstructFails
<1>10. CASE Delete
  BY <1>10 DEF Delete
<1>11. CASE Quiet
  BY <1>11 DEF Quiet, Past
<1>12. QED
  BY <1>1, <1>2, <1>3, <1>4, <1>5, <1>6, <1>7, <1>8, <1>9, <1>10, <1>11,
     StepCases

LEMMA ManualStep ==
    ASSUME TypeOK, ManualInv, [Next]_workerVars
    PROVE  ManualInv'
<1> USE DEF ManualInv, ManualHeld, Sweep
<1>1. CASE SetInitial
  BY <1>1 DEF SetInitial, Throw
<1>2. CASE SetChannel
  <2>1. CASE pc' = "read" /\ ~Sweep /\ man_hash # EmptyHash
    <3>1. SetChannels(Commanded, [c \in Commanded |-> CommandedValue(c)])
      BY <1>2, <2>1 DEF SetChannel, Throw, LoopAgain
    <3>2. man_hash \in [Channels -> Levels] /\ setpoint \in [Channels -> Int]
      BY <2>1 DEF TypeOK, Values
    <3>3. CASE man_control
      <4>1. Commanded = Channels
            /\ \A c \in Channels : CommandedValue(c) = man_hash[c]
        BY <3>2, <3>3, <2>1 DEF Commanded, CommandedValue
      <4>2. setpoint' = [c \in Channels |-> man_hash[c]]
        BY <3>1, <4>1 DEF SetChannels
      <4>3. QED BY <4>2, <3>2, <1>2, <2>1 DEF SetChannel, LoopAgain
    <3>4. CASE ~man_control
      <4>1. Commanded = {}
        BY <3>4, <2>1, ConstantsAssumption DEF Commanded
      <4>2. setpoint' = setpoint
        BY <3>1, <3>2, <4>1 DEF SetChannels
      <4>3. QED BY <4>2, <3>4, <1>2, <2>1 DEF SetChannel, LoopAgain
    <3>5. QED BY <3>3, <3>4
  <2>2. CASE pc' = "failed" \/ Sweep \/ man_hash = EmptyHash
    BY <1>2, <2>2 DEF SetChannel, Throw, LoopAgain
  <2>3. QED BY <1>2, <2>1, <2>2 DEF SetChannel, Throw, LoopAgain
<1>3. CASE Read
  BY <1>3 DEF Read, Throw, GroupDone
<1>4. CASE Events
  <2>1. man_control' \/ UNCHANGED <<man_control, man_hash>>
    BY <1>4, ProcessEventsType DEF Events, TypeOK
  <2>2. QED BY <1>4, <2>1 DEF Events
<1>5. CASE Advance
  <2>1. ProcessEvents(m_stop \/ Finished(current', k'))
    BY <1>5 DEF Advance, GroupDone
  <2>2. (m_stop \/ Finished(current', k')) \in BOOLEAN
    BY DEF TypeOK, Finished, Past
  <2>3. man_control' \/ UNCHANGED <<man_control, man_hash>>
    BY <2>1, <2>2, ProcessEventsType
  <2>4. QED BY <1>5, <2>3 DEF Advance, GroupDone
<1>6. CASE SetFinal
  BY <1>6 DEF SetFinal, Throw, LoopAgain, SetFinals
<1>7. CASE Catch \/ Return \/ ThreadFinished
  BY <1>7 DEF Catch, Return, ThreadFinished
<1>8. ASSUME NEW c \in Confs, NEW p \in {"built", "started"}, ConstructAt(c, p)
      PROVE  ManualInv'
  BY <1>8 DEF ConstructAt, Fresh
<1>9. CASE FailedRun
  BY <1>9 DEF FailedRun, ConstructFails
<1>10. CASE Delete
  BY <1>10 DEF Delete
<1>11. CASE Quiet
  BY <1>11 DEF Quiet
<1>12. QED
  BY <1>1, <1>2, <1>3, <1>4, <1>5, <1>6, <1>7, <1>8, <1>9, <1>10, <1>11,
     StepCases

(* Where produce() sits between two iterations, whole groups were emitted. *)
LEMMA LoopWhole ==
    ASSUME TypeOK, CountingInv, pc \in {"built", "started", "loop"}
    PROVE  emitted % conf.mpi = 0
<1>1. conf.mpi \in Nat \ {0} /\ k \in Nat
  BY ConfType DEF TypeOK
<1>2. emitted = 0 \/ emitted = k * conf.mpi
  BY <1>1 DEF CountingInv, EmittedInGroup
<1>3. QED BY <1>1, <1>2, GroupEnd

LEMMA EndStep ==
    ASSUME TypeOK, CountingInv, EndInv, [Next]_workerVars
    PROVE  EndInv'
<1> USE DEF EndInv, InIteration, WholeGroups
<1>1. CASE SetInitial
  BY <1>1 DEF SetInitial, Throw
<1>2. CASE SetChannel
  BY <1>2 DEF SetChannel, Throw, LoopAgain
<1>3. CASE Read
  BY <1>3 DEF Read, Throw, GroupDone
<1>4. CASE Events
  BY <1>4 DEF Events
<1>5. CASE Advance
  BY <1>5 DEF Advance, GroupDone
<1>6. CASE SetFinal
  <2>1. CASE outcome' = "ok"
    <3>1. pc = "loop" /\ pc' = "quit" /\ UNCHANGED <<conf, emitted>>
      BY <1>6, <2>1 DEF SetFinal, Throw, LoopAgain, SetFinals
    <3>2. emitted % conf.mpi = 0
      BY <3>1, LoopWhole
    <3>3. QED BY <3>1, <3>2, <2>1
  <2>2. CASE outcome' = "error"
    BY <1>6, <2>2 DEF SetFinal, Throw, LoopAgain, SetFinals
  <2>3. QED BY <1>6, <2>1, <2>2 DEF SetFinal, Throw, LoopAgain, SetFinals
<1>7. CASE Catch \/ Return \/ ThreadFinished
  BY <1>7 DEF Catch, Return, ThreadFinished
<1>8. ASSUME NEW c \in Confs, NEW p \in {"built", "started"}, ConstructAt(c, p)
      PROVE  EndInv'
  BY <1>8 DEF ConstructAt, Fresh
<1>9. CASE FailedRun
  BY <1>9 DEF FailedRun, ConstructFails
<1>10. CASE Delete
  BY <1>10 DEF Delete, Fresh
<1>11. CASE Quiet
  BY <1>11 DEF Quiet
<1>12. QED
  BY <1>1, <1>2, <1>3, <1>4, <1>5, <1>6, <1>7, <1>8, <1>9, <1>10, <1>11,
     StepCases

-----------------------------------------------------------------------------
(* The invariant every result below rests on.                              *)
LEMMA InitInvariant == Init => CountingInv /\ SweepInv /\ ManualInv /\ EndInv
<1> SUFFICES ASSUME Init PROVE CountingInv /\ SweepInv /\ ManualInv /\ EndInv
  OBVIOUS
<1>1. conf.mpi \in Nat \ {0}
  BY ConfType DEF Init
<1>2. CountingInv
  BY <1>1 DEF Init, CountingInv
<1>3. SweepInv /\ ManualInv /\ EndInv
  BY DEF Init, SweepInv, InIteration, ManualInv, ManualHeld, EndInv, WholeGroups
<1>4. QED BY <1>2, <1>3

THEOREM Inductive == Spec => []IInv
<1>1. Init => CountingInv /\ SweepInv /\ ManualInv /\ EndInv
  BY InitInvariant
<1>2. TypeOK /\ (CountingInv /\ SweepInv /\ ManualInv /\ EndInv) /\ [Next]_workerVars
         => (CountingInv /\ SweepInv /\ ManualInv /\ EndInv)'
  BY CountingStep, SweepStep, ManualStep, EndStep
<1>3. QED BY <1>1, <1>2, TypeCorrect, PTL DEF Spec, IInv

(* Every row of a sweep was read with the channel on the point of the grid *)
(* its index stands for.                                                   *)
THEOREM OnGrid == Spec => []SampledOnGrid
<1>1. IInv => SampledOnGrid
  <2> SUFFICES ASSUME IInv, pc = "events", Sweep
               PROVE  /\ setpoint[conf.control] =
                             Start + ((emitted - 1) \div conf.mpi) * conf.step
                      /\ Between(setpoint[conf.control], Start, conf.end)
    BY DEF SampledOnGrid
  <2>1. /\ conf \in Confs /\ k \in Nat /\ l \in Nat /\ emitted \in Nat
        /\ conf.mpi \in Nat \ {0} /\ conf.step \in Int /\ conf.end \in Int
        /\ Start \in Int
    BY ConfType, StartNotPast DEF IInv, TypeOK, Sweep, Start
  <2>2. l \in 0 .. conf.mpi - 1 /\ emitted - 1 = k * conf.mpi + l
    <3>1. ~Endless
      BY DEF Sweep, Endless
    <3>2. l < conf.mpi /\ emitted = k * conf.mpi + (l + 1)
      BY <3>1 DEF IInv, CountingInv, EmittedInGroup
    <3>3. k * conf.mpi \in Nat
      BY <2>1
    <3>4. QED BY <3>2, <3>3, <2>1
  <2>3. (emitted - 1) \div conf.mpi = k
    BY <2>1, <2>2, DivMod
  <2>4. setpoint[conf.control] = Start + k * conf.step
    BY DEF IInv, SweepInv, InIteration
  <2>5. ~Past(Start + k * conf.step)
    BY DEF IInv, SweepInv, InIteration
  <2>6. Between(Start + k * conf.step, Start, conf.end)
    <3> DEFINE off == k * conf.step
    <3>1. off \in Int /\ (conf.step > 0 => off >= 0) /\ (conf.step < 0 => off <= 0)
      BY <2>1, PointSide
    <3>2. conf.step > 0 \/ conf.step < 0
      BY <2>1, ConfType DEF Sweep
    <3>3. ~Past(Start + off)
      BY <2>5
    <3> HIDE DEF off
    <3>4. Between(Start + off, Start, conf.end)
      BY <3>1, <3>2, <3>3, <2>1 DEF Past, Between
    <3>5. QED BY <3>4 DEF off
  <2>7. QED BY <2>3, <2>4, <2>6
<1>2. QED BY <1>1, Inductive, PTL

(* A run that ends without an exception leaves whole groups of samples.    *)
THEOREM Whole == Spec => []WholeGroups
<1>1. IInv => WholeGroups
  BY DEF IInv, EndInv
<1>2. QED BY <1>1, Inductive, PTL

(* A manual request taken by a free run stays in force.                    *)
THEOREM Manual == Spec => []ManualHeld
<1>1. IInv => ManualHeld
  BY DEF IInv, ManualInv
<1>2. QED BY <1>1, Inductive, PTL

(* No channel is commanded in the middle of a group of samples.            *)
THEOREM Uniform == Spec => GroupUniform
<1>1. IInv /\ [Next]_workerVars
         => [pc # "none" /\ setpoint' # setpoint
                => emitted % conf.mpi = 0]_workerVars
  <2> SUFFICES ASSUME IInv, [Next]_workerVars, pc # "none", setpoint' # setpoint
               PROVE  emitted % conf.mpi = 0
    OBVIOUS
  <2>1. pc \in {"built", "started", "loop"}
    <3>1. CASE SetInitial \/ SetChannel \/ SetFinal
      BY <3>1 DEF SetInitial, SetChannel, SetFinal, LoopAgain, SetFinals
    <3>2. CASE Read \/ Events \/ Advance
      BY <3>2 DEF Read, Events, Advance, GroupDone
    <3>3. CASE Catch \/ Return \/ ThreadFinished
      BY <3>3 DEF Catch, Return, ThreadFinished
    <3>4. CASE FailedRun \/ Delete \/ Quiet
      BY <3>4 DEF FailedRun, Delete, Quiet
    <3>5. QED BY <3>1, <3>2, <3>3, <3>4, StepCases
  <2>2. QED BY <2>1, LoopWhole DEF IInv
<1>2. QED BY <1>1, Inductive, PTL DEF Spec, GroupUniform

(* After a stop no new group of samples is begun.                          *)
THEOREM StopLast == Spec => StopEndsGroup
<1>1. IInv => (m_stop /\ pc = "read" /\ l < conf.mpi => emitted % conf.mpi # 0)
  <2> SUFFICES ASSUME IInv, m_stop, pc = "read", l < conf.mpi
               PROVE  emitted % conf.mpi # 0
    OBVIOUS
  <2>1. conf.mpi \in Nat \ {0} /\ k \in Nat /\ l \in Nat
    BY ConfType DEF IInv, TypeOK
  <2>2. l # 0 /\ l \in 0 .. conf.mpi - 1
    BY <2>1 DEF IInv, CountingInv
  <2>3. emitted = l \/ emitted = k * conf.mpi + l
    BY <2>2, <2>1 DEF IInv, CountingInv, EmittedInGroup
  <2>4. emitted % conf.mpi = l
    BY <2>1, <2>2, <2>3, DivMod, GroupEnd
  <2>5. QED BY <2>2, <2>4
<1>2. IInv /\ [Next]_workerVars
         => [m_stop /\ pc = "read" /\ pc' = "events"
                => emitted % conf.mpi # 0]_workerVars
  <2> SUFFICES ASSUME IInv, [Next]_workerVars, m_stop, pc = "read", pc' = "events"
               PROVE  l < conf.mpi
    BY <1>1
  <2>1. Read
    <3>1. ~(SetInitial \/ SetChannel \/ SetFinal \/ Events)
      BY DEF SetInitial, SetChannel, SetFinal, Events, LoopAgain, SetFinals
    <3>2. ~(Advance \/ Catch \/ Return \/ ThreadFinished)
      BY DEF Advance, Catch, Return, ThreadFinished, GroupDone
    <3>3. ~(FailedRun \/ Delete \/ Quiet)
      BY DEF FailedRun, Delete, Quiet
    <3>4. QED BY <3>1, <3>2, <3>3, StepCases
  <2>2. l \in Nat /\ conf.mpi \in Nat
    BY ConfType DEF IInv, TypeOK
  <2>3. QED BY <2>1, <2>2 DEF Read, GroupDone
<1>3. QED BY <1>2, Inductive, PTL DEF Spec, StopEndsGroup

(* Samples of a group belong together, and a stop lets the group under way *)
(* be completed.  (produce(), the loop over l)                             *)
THEOREM KeepsGroups == Spec => GroupsKept
BY Uniform, StopLast DEF GroupsKept

-----------------------------------------------------------------------------
(* A run with an end never takes a row too many.                           *)

\* A free run with a limit is below it while it takes samples.
FreeInv ==
    ~Sweep /\ ~Endless /\ (InIteration \/ pc \in {"built", "started"}
                            \/ (pc = "loop" /\ ~m_stop))
        => k < conf.iterations

BoundedInv == FreeInv /\ NeverTooMany

(* As many steps of a sweep as do not pass its end.                        *)
LEMMA StepsUp ==
    ASSUME NEW r \in Int, NEW d \in Nat \ {0}, NEW q \in Nat, q * d <= r
    PROVE  q <= r \div d
<1> DEFINE m == r \div d
<1>1. m \in Int /\ r < d * (m + 1)
  BY Z3
<1>2. SUFFICES ASSUME m + 1 <= q PROVE FALSE
  BY <1>1
<1>3. d * (m + 1) <= q * d
  BY <1>1, <1>2, Z3
<1>4. q * d \in Int /\ d * (m + 1) \in Int
  BY <1>1
<1> HIDE DEF m
<1>5. QED
  BY <1>1, <1>3, <1>4

(* A multiple of d that is not the last one within r has another after it. *)
LEMMA LastMultiple ==
    ASSUME NEW r \in Nat, NEW d \in Nat \ {0}, r % d = 0
    PROVE  (r \div d) * d = r
BY Z3

(* A point that is reached is one of those counted.                        *)
LEMMA PointsWithin ==
    ASSUME NEW r \in Nat, NEW d \in Nat \ {0}, NEW x \in BOOLEAN, NEW q \in Nat,
           q * d <= r, ~(x /\ q * d = r)
    PROVE  Points(r, d, x) \in Nat /\ q + 1 <= Points(r, d, x)
<1>1. r \div d \in Int /\ q <= r \div d
  BY StepsUp
<1>2. CASE x /\ r % d = 0
  <2>1. q # r \div d
    BY <1>2, LastMultiple
  <2>2. QED
    BY <1>1, <1>2, <2>1 DEF Points
<1>3. CASE ~(x /\ r % d = 0)
  BY <1>1, <1>3 DEF Points
<1>4. QED
  BY <1>2, <1>3

(* ... and those counted are all reached before the first that is not.     *)
LEMMA PointsOver ==
    ASSUME NEW r \in Nat, NEW d \in Nat \ {0}, NEW x \in BOOLEAN, NEW q \in Nat,
           r < q * d \/ (x /\ r = q * d)
    PROVE  Points(r, d, x) <= q
<1>1. PICK m \in Nat : m = r \div d
  BY Z3
<1>2. m * d <= r /\ q * d \in Nat /\ m * d \in Nat
  BY <1>1, Z3
<1>3. CASE r < q * d
  <2>1. m * d < q * d
    BY <1>2, <1>3
  <2>2. m < q
    BY <2>1, Z3
  <2>3. QED
    BY <1>1, <2>2 DEF Points
<1>4. CASE x /\ r = q * d
  <2>1. r % d = 0 /\ m = q
    BY <1>1, <1>4, Z3
  <2>2. QED
    BY <1>1, <1>4, <2>1 DEF Points
<1>5. QED
  BY <1>3, <1>4

LEMMA PointsMost ==
    ASSUME NEW r \in Nat, NEW d \in Nat \ {0}, NEW x \in BOOLEAN
    PROVE  /\ Points(r, d, x) \in Nat
           /\ Points(r, d, x) <= r \div d + 1
<1>1. r \div d \in Nat
  BY Z3
<1>2. QED
  BY <1>1 DEF Points

LEMMA GroupsMost ==
    ASSUME NEW r \in Nat, NEW d \in Nat \ {0}, NEW x \in BOOLEAN,
           NEW m \in Nat, NEW n \in Nat, m * (r \div d + 1) <= n
    PROVE  m * Points(r, d, x) <= n
<1>1. r \div d + 1 \in Nat
  BY Z3
<1>2. PICK p \in Nat, q \in Nat : p = Points(r, d, x) /\ q = r \div d + 1 /\ p <= q
  BY <1>1, PointsMost
<1>3. m * p <= m * q
  BY <1>2, Z3
<1>4. m * p \in Nat /\ m * q \in Nat /\ m * q <= n
  BY <1>2
<1>5. QED
  BY <1>2, <1>3, <1>4

(* The range and the stride of a sweep, up or down.                        *)
LEMMA SweepRange ==
    ASSUME NEW c \in Confs, c.control # NoControl
    PROVE  /\ c.step > 0 => /\ c.end - c.start[c.control] \in Nat
                            /\ c.step \in Nat \ {0}
           /\ ~(c.step > 0) => /\ c.step < 0
                               /\ c.start[c.control] - c.end \in Nat
                               /\ -c.step \in Nat \ {0}
<1>1. /\ c.start[c.control] \in Int /\ c.end \in Int /\ c.step \in Int
      /\ \/ c.step > 0 /\ c.start[c.control] <= c.end
         \/ c.step < 0 /\ c.start[c.control] > c.end
  BY ConfType, StartNotPast
<1>2. QED
  BY <1>1

(* The iterations under way and those before it are all due.               *)
LEMMA DueFor ==
    ASSUME TypeOK, SweepInv, FreeInv, ~Endless,
           InIteration \/ pc \in {"built", "started"}
    PROVE  (k + 1) * conf.mpi <= Due
<1>1. /\ conf \in Confs /\ k \in Nat /\ conf.mpi \in Nat \ {0}
      /\ conf.iterations \in Nat /\ conf.exceeds \in BOOLEAN
  BY ConfType DEF TypeOK
<1>2. PICK n \in Int : Due = conf.mpi * n /\ k + 1 <= n
  <2>1. CASE Sweep
    <3>1. ~Past(Start + k * conf.step)
      BY <2>1 DEF SweepInv, InIteration
    <3>2. Start \in Int /\ conf.end \in Int /\ conf.step \in Int
          /\ k * conf.step \in Int
      BY <1>1, <2>1, ConfType, StartNotPast DEF Sweep, Start
    <3>3. CASE conf.step > 0
      <4>1. conf.end - Start \in Nat /\ conf.step \in Nat \ {0}
        BY <1>1, <2>1, <3>3, SweepRange DEF Sweep, Start
      <4>2. k * conf.step <= conf.end - Start
            /\ ~(conf.exceeds /\ k * conf.step = conf.end - Start)
        BY <3>1, <3>2, <3>3 DEF Past
      <4>3. Points(conf.end - Start, conf.step, conf.exceeds) \in Nat
            /\ k + 1 <= Points(conf.end - Start, conf.step, conf.exceeds)
        BY <1>1, <4>1, <4>2, PointsWithin
      <4>4. QED
        BY <2>1, <3>3, <4>3 DEF Due
    <3>4. CASE ~(conf.step > 0)
      <4>1. Start - conf.end \in Nat /\ -conf.step \in Nat \ {0} /\ conf.step < 0
        BY <1>1, <2>1, <3>4, SweepRange DEF Sweep, Start
      <4>2. k * (-conf.step) = -(k * conf.step)
        BY <1>1, <3>2, Z3
      <4>3. k * (-conf.step) <= Start - conf.end
            /\ ~(conf.exceeds /\ k * (-conf.step) = Start - conf.end)
        BY <3>1, <3>2, <4>1, <4>2 DEF Past
      <4>4. Points(Start - conf.end, -conf.step, conf.exceeds) \in Nat
            /\ k + 1 <= Points(Start - conf.end, -conf.step, conf.exceeds)
        BY <1>1, <4>1, <4>3, PointsWithin
      <4>5. QED
        BY <2>1, <3>4, <4>4 DEF Due
    <3>5. QED
      BY <3>3, <3>4
  <2>2. CASE ~Sweep
    <3>1. k < conf.iterations
      BY <2>2 DEF FreeInv
    <3>2. QED
      BY <1>1, <2>2, <3>1 DEF Due
  <2>3. QED
    BY <2>1, <2>2
<1>3. (k + 1) * conf.mpi <= conf.mpi * n
  BY <1>1, <1>2, Z3
<1>4. QED
  BY <1>2, <1>3

LEMMA FreeStep ==
    ASSUME TypeOK, CountingInv, FreeInv, [Next]_workerVars
    PROVE  FreeInv'
<1> USE DEF FreeInv, InIteration, Sweep, Endless
<1>0. conf.iterations \in Nat /\ k \in Nat
  BY ConfType DEF TypeOK
<1>1. CASE SetInitial
  BY <1>1 DEF SetInitial, Throw, CountingInv
<1>2. CASE SetChannel
  BY <1>2 DEF SetChannel, Throw, LoopAgain
<1>3. CASE Read
  BY <1>3 DEF Read, Throw, GroupDone
<1>4. CASE Events
  BY <1>4 DEF Events
<1>5. CASE Advance
  <2>1. Finished(current', k') => m_stop'
    BY <1>5 DEF Advance, ProcessEvents, GroupDone
  <2>2. QED
    BY <1>0, <1>5, <2>1 DEF Advance, CountIteration, GroupDone, Finished
<1>6. CASE SetFinal
  BY <1>6 DEF SetFinal, Throw, LoopAgain
<1>7. CASE Catch \/ Return \/ ThreadFinished
  BY <1>7 DEF Catch, Return, ThreadFinished
<1>8. ASSUME NEW c \in Confs, NEW p \in {"built", "started"}, ConstructAt(c, p)
      PROVE  FreeInv'
  <2>1. c.iterations \in Nat
    BY ConfType
  <2>2. QED
    BY <1>8, <2>1 DEF ConstructAt, Fresh
<1>9. CASE FailedRun
  BY <1>9 DEF FailedRun, ConstructFails
<1>10. CASE Delete
  BY <1>10 DEF Delete
<1>11. CASE Quiet
  BY <1>11 DEF Quiet
<1>12. QED
  BY <1>1, <1>2, <1>3, <1>4, <1>5, <1>6, <1>7, <1>8, <1>9, <1>10, <1>11,
     StepCases

\* Due of settings that need not be the present ones.
DueOf(c) ==
    c.mpi * (IF ~(c.control # NoControl) THEN c.iterations
             ELSE IF c.step > 0
             THEN Points(c.end - c.start[c.control], c.step, c.exceeds)
             ELSE Points(c.start[c.control] - c.end, -c.step, c.exceeds))

(* What is due is a number of rows.                                        *)
LEMMA DueNat ==
    ASSUME NEW c \in Confs
    PROVE  DueOf(c) \in Nat
<1>1. c.mpi \in Nat \ {0} /\ c.iterations \in Nat /\ c.exceeds \in BOOLEAN
  BY ConfType
<1>2. PICK n \in Nat : DueOf(c) = c.mpi * n
  <2>1. CASE c.control # NoControl /\ c.step > 0
    BY <1>1, <2>1, SweepRange, PointsMost DEF DueOf
  <2>2. CASE c.control # NoControl /\ ~(c.step > 0)
    BY <1>1, <2>2, SweepRange, PointsMost DEF DueOf
  <2>3. CASE c.control = NoControl
    BY <1>1, <2>3 DEF DueOf
  <2>4. QED
    BY <2>1, <2>2, <2>3
<1>3. QED
  BY <1>1, <1>2

LEMMA BoundedStep ==
    ASSUME TypeOK, TypeOK', CountingInv, SweepInv, FreeInv, NeverTooMany,
           [Next]_workerVars
    PROVE  NeverTooMany'
<1> USE DEF NeverTooMany
<1>1. Due \in Nat /\ Due' \in Nat
  <2>1. conf \in Confs /\ conf' \in Confs
    BY DEF TypeOK
  <2>2. DueOf(conf) \in Nat /\ DueOf(conf') \in Nat
    BY <2>1, DueNat
  <2>3. QED
    BY <2>2 DEF DueOf, Due, Sweep, Start
<1>2. CASE UNCHANGED <<conf, emitted>>
  BY <1>2 DEF Endless, Due, Sweep, Start
<1>3. CASE Read
  <2>1. SUFFICES ASSUME ~Endless, emitted' # emitted PROVE emitted' <= Due
    BY <1>3 DEF Read, Endless, Due, Sweep, Start, GroupDone
  <2>2. conf.mpi \in Nat \ {0} /\ k \in Nat /\ l \in Nat /\ emitted \in Nat
    BY ConfType DEF TypeOK
  <2>3. pc = "read" /\ l < conf.mpi /\ emitted' = emitted + 1
    BY <1>3, <2>1, <2>2 DEF Read, GroupDone, Count
  <2>4. emitted = k * conf.mpi + l
    BY <2>1, <2>3 DEF CountingInv, EmittedInGroup
  <2>5. (k + 1) * conf.mpi = k * conf.mpi + conf.mpi
    BY <2>2, GroupEnd
  <2>6. k * conf.mpi \in Nat
    BY <2>2
  <2>7. emitted' <= (k + 1) * conf.mpi /\ (k + 1) * conf.mpi \in Nat
    BY <2>2, <2>3, <2>4, <2>5, <2>6
  <2>8. (k + 1) * conf.mpi <= Due
    BY <2>1, <2>3, DueFor DEF InIteration
  <2>9. QED
    BY <1>1, <2>2, <2>3, <2>7, <2>8
<1>4. CASE emitted' = 0
  BY <1>1, <1>4
<1>5. QED
  <2>1. CASE SetInitial \/ SetChannel \/ Events \/ Advance \/ SetFinal
    BY <1>2, <2>1 DEF SetInitial, SetChannel, Events, Advance, SetFinal, LoopAgain,
                      GroupDone, SetFinals
  <2>2. CASE Catch \/ Return \/ ThreadFinished \/ FailedRun \/ Quiet
    BY <1>2, <2>2 DEF Catch, Return, ThreadFinished, FailedRun, ConstructFails, Quiet
  <2>3. ASSUME NEW c \in Confs, NEW p \in {"built", "started"}, ConstructAt(c, p)
        PROVE  emitted' = 0
    BY <2>3 DEF ConstructAt, Fresh
  <2>4. CASE Delete
    BY <1>4, <2>4 DEF Delete, Fresh
  <2>5. QED
    BY <1>3, <1>4, <2>1, <2>2, <2>3, <2>4, StepCases

(* A run with an end never takes more rows than its settings ask for, for  *)
(* any range, step and number of iterations.  (the two ends of produce())  *)
THEOREM Bounded == Spec => []BoundedInv
<1>1. Init => BoundedInv
  <2> SUFFICES ASSUME Init PROVE BoundedInv
    OBVIOUS
  <2>1. conf \in Confs /\ emitted = 0 /\ pc = "none"
    BY DEF Init
  <2>2. DueOf(conf) \in Nat
    BY <2>1, DueNat
  <2>3. Due = DueOf(conf)
    BY DEF DueOf, Due, Sweep, Start
  <2>4. QED
    BY <2>1, <2>2, <2>3 DEF BoundedInv, FreeInv, InIteration, NeverTooMany
<1>2. IInv /\ IInv' /\ BoundedInv /\ [Next]_workerVars => BoundedInv'
  BY FreeStep, BoundedStep DEF IInv, BoundedInv
<1>3. QED
  BY <1>1, <1>2, Inductive, PTL DEF Spec

-----------------------------------------------------------------------------
(* A full progress bar means that every row is there.                      *)

FullInv ==
    /\ pc = "failed" => outcome = "error"
    /\ (InIteration \/ pc \in {"loop", "quit", "returned", "ended"})
          /\ ~Endless /\ progress = 100
       => outcome = "error" \/ emitted = Due

(* A quotient of 100, multiplied out.                                      *)
LEMMA Hundred ==
    ASSUME NEW a \in Int, NEW b \in Nat \ {0}, a \div b = 100
    PROVE  100 * b <= a
BY Z3

(* What is left of a sweep of length r in steps of d after n rows, m for   *)
(* each point, when its share of r + d is a whole.                         *)
LEMMA ShareOfSweep ==
    ASSUME NEW r \in Nat, NEW d \in Nat \ {0}, NEW m \in Nat \ {0}, NEW n \in Nat,
           (100 * (d * n)) \div ((r + d) * m) = 100
    PROVE  m * (r \div d + 1) <= n
<1> DEFINE q == r \div d
<1>1. (r + d) * m \in Nat \ {0} /\ 100 * (d * n) \in Int /\ d * n \in Int
  BY Z3
<1>2. 100 * ((r + d) * m) <= 100 * (d * n)
  BY <1>1, Hundred
<1>3. (r + d) * m <= d * n
  BY <1>1, <1>2
<1>4. q \in Int /\ d * q <= r /\ 0 <= q
  BY Z3
<1> HIDE DEF q
<1>5. d * (q + 1) = d * q + d
  BY <1>4
<1>6. d * (q + 1) <= r + d /\ d * (q + 1) \in Int
  BY <1>4, <1>5
<1>7. (d * (q + 1)) * m <= (r + d) * m
  BY <1>6, Z3
<1>8. (d * (q + 1)) * m = d * (m * (q + 1))
  BY <1>4, Z3
<1>9. m * (q + 1) \in Int
  BY <1>4
<1>10. d * (m * (q + 1)) <= d * n
  BY <1>1, <1>3, <1>7, <1>8, <1>9
<1>11. m * (q + 1) <= n
  BY <1>9, <1>10, Z3
<1>12. QED
  BY <1>11 DEF q

LEMMA ShareOfLimit ==
    ASSUME NEW i \in Nat, NEW m \in Nat \ {0}, NEW n \in Nat, i # 0,
           (100 * n) \div (i * m) = 100
    PROVE  m * i <= n
<1>1. i * m \in Nat \ {0} /\ i * m = m * i
  BY Z3
<1>2. 100 * (i * m) <= 100 * n
  BY <1>1, Hundred
<1>3. QED
  BY <1>1, <1>2

(* What an iteration of a sweep says in its percentage.                    *)
LEMMA SweepShare ==
    ASSUME TypeOK, SweepInv, Sweep, pc = "events", l' \in Nat,
           NEW n \in Nat, n = k * conf.mpi + l', Percentage = 100
    PROVE  Due <= n
<1>1. /\ k \in Nat /\ conf.mpi \in Nat \ {0}
      /\ conf.step \in Int /\ conf.end \in Int /\ Start \in Int
      /\ \/ conf.step > 0 /\ Start <= conf.end
         \/ conf.step < 0 /\ Start > conf.end
  BY ConfType, StartNotPast DEF TypeOK, Sweep, Start
<1>2. current - Start = k * conf.step
  BY <1>1 DEF SweepInv
<1>0. conf.exceeds \in BOOLEAN
  BY ConfType DEF TypeOK
<1> DEFINE d == conf.step
           m == conf.mpi
<1>3. CASE d > 0
  <2>1. (1 * 100 * ((current - Start) * m + d * l'))
           \div (1 * (conf.end - Start + d) * m) = 100
    BY <1>3 DEF Percentage
  <2>2. 1 * 100 * ((k * d) * m + d * l') = 100 * (d * n)
    BY <1>1, Z3
  <2>3. 1 * (conf.end - Start + d) * m = (conf.end - Start + d) * m
    BY <1>1
  <2>4. (100 * (d * n)) \div ((conf.end - Start + d) * m) = 100
    BY <1>2, <2>1, <2>2, <2>3
  <2>5. m * ((conf.end - Start) \div d + 1) <= n
    <3>1. conf.end - Start \in Nat /\ d \in Nat \ {0} /\ m \in Nat \ {0}
      BY <1>1, <1>3
    <3> HIDE DEF d, m
    <3>2. QED
      BY <2>4, <3>1, ShareOfSweep
  <2>6. conf.end - Start \in Nat /\ conf.step \in Nat \ {0}
    BY <1>1, <1>3
  <2>7. conf.mpi * Points(conf.end - Start, conf.step, conf.exceeds) <= n
    BY <1>0, <1>1, <2>5, <2>6, GroupsMost
  <2>8. QED
    BY <1>3, <2>7 DEF Due
<1>4. CASE d < 0
  <2>1. ((-1) * 100 * ((current - Start) * m + d * l'))
           \div ((-1) * (conf.end - Start + d) * m) = 100
    <3>1. ~(conf.step > 0)
      BY <1>1, <1>4
    <3>2. QED
      BY <3>1 DEF Percentage
  <2>2. (-1) * 100 * ((k * d) * m + d * l') = 100 * ((-d) * n)
    BY <1>1, Z3
  <2>3. (-1) * (conf.end - Start + d) * m = (Start - conf.end + (-d)) * m
    BY <1>1, Z3
  <2>4. (100 * ((-d) * n)) \div ((Start - conf.end + (-d)) * m) = 100
    BY <1>2, <2>1, <2>2, <2>3
  <2>5. m * ((Start - conf.end) \div (-d) + 1) <= n
    <3>1. Start - conf.end \in Nat /\ -d \in Nat \ {0} /\ m \in Nat \ {0}
      BY <1>1, <1>4
    <3> HIDE DEF d, m
    <3>2. QED
      BY <2>4, <3>1, ShareOfSweep
  <2>6. Start - conf.end \in Nat /\ -conf.step \in Nat \ {0} /\ ~(conf.step > 0)
    BY <1>1, <1>4
  <2>7. conf.mpi * Points(Start - conf.end, -conf.step, conf.exceeds) <= n
    BY <1>0, <1>1, <2>5, <2>6, GroupsMost
  <2>8. QED
    BY <2>6, <2>7 DEF Due
<1>5. QED
  BY <1>1, <1>3, <1>4

(* The same of an iteration of a free run with a limit.                    *)
LEMMA FreeShare ==
    ASSUME TypeOK, ~Sweep, ~Endless, l' \in Nat,
           NEW n \in Nat, n = k * conf.mpi + l', Percentage = 100
    PROVE  Due <= n
<1>1. /\ k \in Nat /\ conf.mpi \in Nat \ {0} /\ conf.iterations \in Nat
      /\ conf.iterations # 0
  BY ConfType DEF TypeOK, Endless, Sweep
<1> DEFINE i == conf.iterations
           m == conf.mpi
<1>2. (100 * n) \div (i * m) = 100
  BY DEF Percentage
<1>3. m * i <= n
  <2>1. i \in Nat /\ i # 0 /\ m \in Nat \ {0}
    BY <1>1
  <2> HIDE DEF i, m
  <2>2. QED
    BY <1>2, <2>1, ShareOfLimit
<1>4. QED
  BY <1>3 DEF Due

(* Past its end, a sweep has had its last point.                           *)
LEMMA SweepOver ==
    ASSUME TypeOK, Sweep, NEW n \in Nat, n = (k + 1) * conf.mpi,
           Past(Start + (k + 1) * conf.step)
    PROVE  Due <= n
<1>1. /\ conf \in Confs /\ k \in Nat /\ k + 1 \in Nat /\ conf.mpi \in Nat \ {0}
      /\ conf.step \in Int /\ conf.end \in Int /\ Start \in Int
      /\ conf.exceeds \in BOOLEAN /\ (k + 1) * conf.step \in Int
  BY ConfType, StartNotPast DEF TypeOK, Sweep, Start
<1>2. PICK p \in Nat : Due = conf.mpi * p /\ p <= k + 1
  <2>1. CASE conf.step > 0
    <3>1. conf.end - Start \in Nat /\ conf.step \in Nat \ {0}
      BY <1>1, <2>1, SweepRange DEF Sweep, Start
    <3>2. \/ conf.end - Start < (k + 1) * conf.step
          \/ conf.exceeds /\ conf.end - Start = (k + 1) * conf.step
      BY <1>1, <2>1 DEF Past
    <3>3. Points(conf.end - Start, conf.step, conf.exceeds) <= k + 1
      BY <1>1, <3>1, <3>2, PointsOver
    <3>4. QED
      BY <1>1, <2>1, <3>1, <3>3, PointsMost DEF Due
  <2>2. CASE ~(conf.step > 0)
    <3>1. Start - conf.end \in Nat /\ -conf.step \in Nat \ {0} /\ conf.step < 0
      BY <1>1, <2>2, SweepRange DEF Sweep, Start
    <3>2. (k + 1) * (-conf.step) = -((k + 1) * conf.step)
      BY <1>1, Z3
    <3>3. \/ Start - conf.end < (k + 1) * (-conf.step)
          \/ conf.exceeds /\ Start - conf.end = (k + 1) * (-conf.step)
      BY <1>1, <3>1, <3>2 DEF Past
    <3>4. Points(Start - conf.end, -conf.step, conf.exceeds) <= k + 1
      BY <1>1, <3>1, <3>3, PointsOver
    <3>5. QED
      BY <1>1, <2>2, <3>1, <3>4, PointsMost DEF Due
  <2>3. QED
    BY <2>1, <2>2
<1>3. conf.mpi * p <= (k + 1) * conf.mpi
  BY <1>1, <1>2, Z3
<1>4. QED
  BY <1>2, <1>3

LEMMA FullStep ==
    ASSUME TypeOK, TypeOK', CountingInv, SweepInv, EndInv, BoundedInv, BoundedInv',
           FullInv, [Next]_workerVars
    PROVE  FullInv'
<1> USE DEF FullInv, InIteration
<1>0. /\ conf.mpi \in Nat \ {0} /\ k \in Nat /\ l \in Nat /\ emitted \in Nat
      /\ Due \in Nat
  <2>1. conf \in Confs
    BY DEF TypeOK
  <2>2. DueOf(conf) \in Nat
    BY <2>1, DueNat
  <2>3. QED
    BY <2>1, <2>2, ConfType DEF TypeOK, DueOf, Due, Sweep, Start
<1>c. UNCHANGED conf => UNCHANGED <<Endless, Due, Sweep>>
  BY DEF Endless, Due, Sweep, Start
<1>1. CASE SetInitial
  BY <1>1 DEF SetInitial, Throw
<1>2. CASE SetChannel
  BY <1>c, <1>2 DEF SetChannel, Throw, LoopAgain
<1>3. CASE Read
  <2>1. UNCHANGED <<conf, progress>> /\ pc = "read"
    BY <1>3 DEF Read, GroupDone
  <2>2. CASE pc' = "failed"
    BY <1>3, <2>2 DEF Read, Throw, GroupDone
  <2>3. CASE pc' = "events" /\ outcome' = outcome /\ emitted' = Count
    <3>1. ASSUME ~Endless, progress = 100, outcome # "error" PROVE FALSE
      <4>1. emitted = Due /\ emitted' = emitted + 1
        BY <2>1, <2>3, <3>1 DEF Count
      <4>2. emitted' <= Due
        BY <1>c, <2>1, <3>1 DEF BoundedInv, NeverTooMany
      <4>3. QED
        BY <1>0, <4>1, <4>2
    <3>2. QED
      BY <1>c, <2>1, <2>3, <3>1
  <2>4. QED
    BY <1>3, <2>2, <2>3 DEF Read, Throw, GroupDone
<1>4. CASE Events
  <2>1. UNCHANGED <<conf, emitted, outcome>> /\ pc = "events" /\ pc' = "read" /\ l' = l + 1
    BY <1>4 DEF Events
  <2>2. ASSUME ~Endless, progress' = 100 PROVE emitted = Due
    <3>1. Percentage = 100
      BY <1>4, <2>2 DEF Events
    <3>2. emitted = k * conf.mpi + l'
      BY <1>0, <2>1, <2>2 DEF CountingInv, EmittedInGroup
    <3>3. l' \in Nat
      BY <1>0, <2>1
    <3>4. Due <= emitted
      BY <1>0, <2>1, <2>2, <3>1, <3>2, <3>3, SweepShare, FreeShare
    <3>5. emitted <= Due
      BY <2>2 DEF BoundedInv, NeverTooMany
    <3>6. QED
      BY <1>0, <3>4, <3>5
  <2>3. QED
    BY <1>c, <2>1, <2>2
<1>5. CASE Advance
  <2>1. UNCHANGED <<conf, emitted, outcome>> /\ pc = "read" /\ pc' = "loop"
    BY <1>5 DEF Advance, GroupDone
  <2>2. CASE progress' = progress
    BY <1>c, <2>1, <2>2
  <2>3. CASE Sweep /\ Finished(current', k')
    <3>1. l = conf.mpi /\ current' = current + conf.step
      BY <1>0, <1>5, <2>3 DEF Advance, GroupDone, CountingInv
    <3>2. ~Endless
      BY <2>3 DEF Sweep, Endless
    <3>3. emitted = (k + 1) * conf.mpi
      BY <1>0, <2>1, <3>1, <3>2, GroupEnd DEF CountingInv, EmittedInGroup
    <3>4. Past(Start + (k + 1) * conf.step)
      <4>1. current = Start + k * conf.step
        BY <2>1, <2>3 DEF SweepInv
      <4>2. Start \in Int /\ conf.step \in Int
        BY <2>3, ConfType, StartNotPast DEF TypeOK, Sweep, Start
      <4>3. current' = Start + (k + 1) * conf.step
        BY <1>0, <3>1, <4>1, <4>2, NextPoint
      <4>4. QED
        BY <2>3, <4>3 DEF Finished, Past
    <3>5. Due <= emitted
      BY <1>0, <2>3, <3>3, <3>4, SweepOver
    <3>6. emitted <= Due
      BY <3>2 DEF BoundedInv, NeverTooMany
    <3>7. emitted = Due
      BY <1>0, <3>5, <3>6
    <3>8. QED
      BY <1>c, <2>1, <3>7
  <2>4. QED
    BY <1>5, <2>2, <2>3 DEF Advance, GroupDone
<1>6. CASE SetFinal
  BY <1>c, <1>6 DEF SetFinal, Throw, LoopAgain, EndInv
<1>7. CASE Catch \/ Return \/ ThreadFinished
  BY <1>c, <1>7 DEF Catch, Return, ThreadFinished
<1>8. ASSUME NEW c \in Confs, NEW p \in {"built", "started"}, ConstructAt(c, p)
      PROVE  FullInv'
  BY <1>8 DEF ConstructAt
<1>9. CASE FailedRun
  BY <1>9 DEF FailedRun, ConstructFails
<1>10. CASE Delete
  BY <1>10 DEF Delete
<1>11. CASE UNCHANGED <<pc, conf, emitted, outcome, progress>>
  BY <1>c, <1>11
<1>12. QED
  BY <1>1, <1>2, <1>3, <1>4, <1>5, <1>6, <1>7, <1>8, <1>9, <1>10, <1>11
     DEF Next, Worker, Environment, NewRun, NotReady, Destroy, GuiPost,
         GuiTakes, GuiDelete, Post, workerVars

(* A run with an end takes a group of rows for every point of its range,   *)
(* but for an end that the rounding of the sum puts out of reach: no row   *)
(* more at any time, and no row less once its progress bar is full.        *)
THEOREM RowsCounted == Spec => []RowCount
<1>1. Init => FullInv
  BY DEF Init, FullInv, InIteration
<1>2. IInv /\ IInv' /\ BoundedInv /\ BoundedInv' /\ FullInv /\ [Next]_workerVars => FullInv'
  BY FullStep DEF IInv
<1>3. BoundedInv /\ FullInv => RowCount
  BY DEF BoundedInv, FullInv, RowCount, FullMeansAll
<1>4. QED
  BY <1>1, <1>2, <1>3, Inductive, Bounded, PTL DEF Spec

-----------------------------------------------------------------------------
(* The progress bar only goes forward.                                     *)

\* The percentage after n rows is (100 * (RowShare * n)) \div RunShare.
RowShare == IF Sweep THEN (IF conf.step > 0 THEN conf.step ELSE -conf.step) ELSE 1
RunShare ==
    conf.mpi * (IF Sweep THEN (IF conf.step > 0 THEN conf.end - Start ELSE Start - conf.end)
                              + RowShare
                ELSE conf.iterations)

\* What is shown is not more than what the rows so far amount to.
ForwardInv ==
    /\ progress \in 0 .. 100
    /\ ~Endless /\ (InIteration \/ (pc = "loop" /\ ~m_stop))
         => progress * RunShare <= 100 * (RowShare * emitted)

LEMMA QuotientOf ==
    ASSUME NEW a \in Nat, NEW b \in Nat \ {0}
    PROVE  a \div b \in Nat /\ (a \div b) * b <= a
BY Z3

LEMMA LessOf ==
    ASSUME NEW a \in Nat, NEW b \in Nat \ {0}, a <= 100 * b
    PROVE  a \div b <= 100
BY Z3

LEMMA ProductUp ==
    ASSUME NEW d \in Nat, NEW x \in Nat, NEW y \in Nat, x <= y
    PROVE  /\ d * x \in Nat /\ d * y \in Nat
           /\ d * x <= d * y
BY Z3

(* The shares, and that the rows of the iteration under way are within.    *)
LEMMA Shares ==
    ASSUME TypeOK, ~Endless
    PROVE  /\ RowShare \in Nat \ {0}
           /\ RunShare \in Nat \ {0}
<1>1. /\ conf.mpi \in Nat \ {0} /\ conf.iterations \in Nat
      /\ conf.step \in Int /\ conf.end \in Int
      /\ ~Sweep => conf.iterations # 0
      /\ Sweep => /\ Start \in Int
                  /\ \/ conf.step > 0 /\ Start <= conf.end
                     \/ conf.step < 0 /\ Start > conf.end
  BY ConfType, StartNotPast DEF TypeOK, Sweep, Start, Endless
<1>2. RowShare \in Nat \ {0}
  BY <1>1 DEF RowShare
<1> DEFINE r == IF Sweep THEN (IF conf.step > 0 THEN conf.end - Start ELSE Start - conf.end)
                              + RowShare
                ELSE conf.iterations
<1>3. r \in Nat \ {0}
  BY <1>1, <1>2 DEF RowShare
<1>4. RunShare = conf.mpi * r
  BY DEF RunShare
<1> HIDE DEF r
<1>5. QED
  BY <1>1, <1>2, <1>3, <1>4

(* What Events says.                                                       *)
LEMMA PercentageOf ==
    ASSUME TypeOK, SweepInv, ~Endless, pc = "events", l' \in Nat,
           NEW n \in Nat, n = k * conf.mpi + l'
    PROVE  Percentage = (100 * (RowShare * n)) \div RunShare
<1>1. /\ k \in Nat /\ conf.mpi \in Nat \ {0} /\ conf.iterations \in Nat
      /\ conf.step \in Int /\ conf.end \in Int
      /\ Sweep => /\ Start \in Int
                  /\ \/ conf.step > 0 /\ Start <= conf.end
                     \/ conf.step < 0 /\ Start > conf.end
  BY ConfType, StartNotPast DEF TypeOK, Sweep, Start
<1>2. Sweep => current - Start = k * conf.step
  BY <1>1 DEF SweepInv
<1> DEFINE d == conf.step
           m == conf.mpi
<1>3. CASE Sweep /\ d > 0
  <2>1. Percentage = (1 * 100 * ((current - Start) * m + d * l'))
                        \div (1 * (conf.end - Start + d) * m)
    BY <1>3 DEF Percentage
  <2>2. 1 * 100 * ((k * d) * m + d * l') = 100 * (d * n)
    BY <1>1, Z3
  <2>3. 1 * (conf.end - Start + d) * m = m * (conf.end - Start + d)
    BY <1>1, <1>3
  <2>4. RowShare = d /\ RunShare = m * (conf.end - Start + d)
    BY <1>3 DEF RowShare, RunShare
  <2>5. QED
    BY <1>2, <1>3, <2>1, <2>2, <2>3, <2>4
<1>4. CASE Sweep /\ d < 0
  <2>0. ~(conf.step > 0)
    BY <1>1, <1>4
  <2>1. Percentage = ((-1) * 100 * ((current - Start) * m + d * l'))
                        \div ((-1) * (conf.end - Start + d) * m)
    BY <1>4, <2>0 DEF Percentage
  <2>2. (-1) * 100 * ((k * d) * m + d * l') = 100 * ((-d) * n)
    BY <1>1, Z3
  <2>3. (-1) * (conf.end - Start + d) * m = m * (Start - conf.end + (-d))
    BY <1>1, <1>4, Z3
  <2>4. RowShare = -d /\ RunShare = m * (Start - conf.end + (-d))
    BY <1>4, <2>0 DEF RowShare, RunShare
  <2>5. QED
    BY <1>2, <1>4, <2>1, <2>2, <2>3, <2>4
<1>5. CASE ~Sweep
  <2>1. Percentage = (100 * n) \div (conf.iterations * m)
    BY <1>5 DEF Percentage
  <2>2. conf.iterations * m = m * conf.iterations /\ 1 * n = n
    BY <1>1
  <2>3. RowShare = 1 /\ RunShare = m * conf.iterations
    BY <1>5 DEF RowShare, RunShare
  <2>4. QED
    BY <2>1, <2>2, <2>3
<1>6. QED
  BY <1>1, <1>3, <1>4, <1>5

(* The rows of the iterations so far are no more than the run.             *)
LEMMA WithinRun ==
    ASSUME TypeOK, SweepInv, FreeInv, ~Endless, pc = "events",
           NEW n \in Nat, n <= (k + 1) * conf.mpi
    PROVE  RowShare * n <= RunShare
<1>1. /\ k \in Nat /\ conf.mpi \in Nat \ {0} /\ conf.iterations \in Nat
      /\ conf.step \in Int /\ conf.end \in Int
      /\ Sweep => /\ Start \in Int
                  /\ \/ conf.step > 0 /\ Start <= conf.end
                     \/ conf.step < 0 /\ Start > conf.end
  BY ConfType, StartNotPast DEF TypeOK, Sweep, Start
<1>2. RowShare \in Nat \ {0}
  BY Shares
<1> DEFINE r == IF Sweep THEN (IF conf.step > 0 THEN conf.end - Start ELSE Start - conf.end)
                              + RowShare
                ELSE conf.iterations
<1>3. r \in Nat /\ (k + 1) * RowShare <= r
  <2>1. CASE Sweep
    <3>1. ~Past(Start + k * conf.step)
      BY <2>1 DEF SweepInv, InIteration
    <3>2. (k + 1) * RowShare = k * RowShare + RowShare /\ k * RowShare \in Nat
      BY <1>1, <1>2, Z3
    <3>3. CASE conf.step > 0
      BY <1>1, <2>1, <3>1, <3>2, <3>3 DEF Past, RowShare
    <3>4. CASE conf.step < 0
      <4>1. k * (-conf.step) = -(k * conf.step) /\ k * conf.step \in Int
        BY <1>1, Z3
      <4>2. RowShare = -conf.step /\ ~(conf.step > 0)
        BY <1>1, <2>1, <3>4 DEF RowShare
      <4>3. ~(Start + k * conf.step < conf.end)
        BY <3>1, <3>4 DEF Past
      <4>4. r = Start - conf.end + RowShare
        BY <2>1, <4>2
      <4>5. k * RowShare = -(k * conf.step)
        BY <4>1, <4>2
      <4>6. QED
        BY <1>1, <1>2, <2>1, <3>2, <3>4, <4>1, <4>3, <4>4, <4>5
    <3>5. QED
      BY <1>1, <2>1, <3>3, <3>4
  <2>2. CASE ~Sweep
    <3>1. k < conf.iterations
      BY <2>2 DEF FreeInv, InIteration
    <3>2. r = conf.iterations /\ RowShare = 1 /\ (k + 1) * 1 = k + 1
      BY <1>1, <2>2 DEF RowShare
    <3>3. QED
      BY <1>1, <3>1, <3>2
  <2>3. QED
    BY <2>1, <2>2
<1>4. RunShare = conf.mpi * r
  BY DEF RunShare
<1> HIDE DEF r
<1>5. (k + 1) * conf.mpi \in Nat /\ RowShare * n <= RowShare * ((k + 1) * conf.mpi)
  <2>1. (k + 1) * conf.mpi \in Nat
    BY <1>1
  <2>2. QED
    BY <1>2, <2>1, ProductUp
<1>6. RowShare * ((k + 1) * conf.mpi) = conf.mpi * ((k + 1) * RowShare)
  BY <1>1, <1>2, Z3
<1>7. conf.mpi * ((k + 1) * RowShare) <= conf.mpi * r
  <2>1. (k + 1) * RowShare \in Nat
    BY <1>1, <1>2
  <2>2. QED
    BY <1>1, <1>3, <2>1, ProductUp
<1>8. RowShare * n \in Nat /\ conf.mpi * r \in Nat /\ conf.mpi * ((k + 1) * RowShare) \in Nat
  BY <1>1, <1>2, <1>3
<1>9. QED
  BY <1>4, <1>5, <1>6, <1>7, <1>8

(* What the step between two rows does to the bar.                         *)
LEMMA EventsForward ==
    ASSUME TypeOK, TypeOK', CountingInv, SweepInv, FreeInv, ForwardInv, ~Endless, Events
    PROVE  /\ progress' \in progress .. 100
           /\ progress' * RunShare <= 100 * (RowShare * emitted)
<1>1. /\ k \in Nat /\ conf.mpi \in Nat \ {0} /\ l \in Nat /\ emitted \in Nat
      /\ progress \in Nat
  BY ConfType DEF TypeOK, ForwardInv
<1>2. pc = "events" /\ l' = l + 1 /\ progress' = Percentage
  BY DEF Events
<1>3. emitted = k * conf.mpi + l' /\ l' \in Nat /\ l' <= conf.mpi
  BY <1>1, <1>2 DEF CountingInv, EmittedInGroup
<1>4. emitted <= (k + 1) * conf.mpi
  <2>1. (k + 1) * conf.mpi = k * conf.mpi + conf.mpi
    BY <1>1, GroupEnd
  <2>2. k * conf.mpi \in Nat
    BY <1>1
  <2>3. QED
    BY <1>1, <1>3, <2>1, <2>2
<1>5. RowShare \in Nat \ {0} /\ RunShare \in Nat \ {0}
  BY Shares
<1> DEFINE a == 100 * (RowShare * emitted)
<1>6. a \in Nat
  BY <1>1, <1>5
<1>7. progress' = a \div RunShare
  BY <1>1, <1>2, <1>3, PercentageOf
<1>8. a <= 100 * RunShare
  <2>1. RowShare * emitted <= RunShare /\ RowShare * emitted \in Nat
    BY <1>1, <1>2, <1>4, <1>5, WithinRun
  <2>2. QED
    BY <1>5, <2>1
<1>9. progress * RunShare <= a
  BY <1>2 DEF ForwardInv, InIteration
<1> HIDE DEF a
<1>10. progress <= a \div RunShare
  BY <1>1, <1>5, <1>6, <1>9, StepsUp
<1>11. a \div RunShare <= 100 /\ a \div RunShare \in Nat /\ (a \div RunShare) * RunShare <= a
  BY <1>5, <1>6, <1>8, QuotientOf, LessOf
<1>12. progress' \in progress .. 100
  BY <1>1, <1>7, <1>10, <1>11
<1>13. QED
  BY <1>7, <1>11, <1>12 DEF a

LEMMA ForwardStep ==
    ASSUME TypeOK, TypeOK', CountingInv, SweepInv, FreeInv, ForwardInv, [Next]_workerVars
    PROVE  ForwardInv' /\ progress' \in 0 .. 100 /\ (pc = "started" \/ progress' >= progress)
<1> DEFINE Goal == ForwardInv' /\ (pc = "started" \/ progress' >= progress)
<1>0. progress \in 0 .. 100
  BY DEF ForwardInv
<1>c. UNCHANGED conf => UNCHANGED <<Endless, RowShare, RunShare>>
  BY DEF Endless, RowShare, RunShare, Sweep, Start
<1>1. CASE SetInitial
  <2>1. pc = "started" /\ progress' = 0 /\ UNCHANGED <<conf, emitted>>
    BY <1>1 DEF SetInitial
  <2>2. ~Endless => 0 * RunShare = 0 /\ 100 * (RowShare * emitted) \in Nat
    <3>1. emitted \in Nat
      BY DEF TypeOK
    <3>2. QED
      BY <3>1, Shares
  <2>3. ~Endless => progress' * RunShare <= 100 * (RowShare * emitted)
    BY <2>1, <2>2
  <2>4. QED
    BY <1>c, <2>1, <2>3 DEF ForwardInv
<1>2. CASE SetChannel
  <2>1. UNCHANGED <<conf, progress, emitted>> /\ pc = "loop" /\ ~m_stop
    BY <1>2 DEF SetChannel, LoopAgain
  <2>2. QED
    BY <1>0, <1>c, <2>1 DEF ForwardInv
<1>3. CASE Read
  <2>1. UNCHANGED <<conf, progress>> /\ pc = "read"
    BY <1>3 DEF Read, GroupDone
  <2>2. ASSUME ~Endless
        PROVE  progress * RunShare <= 100 * (RowShare * emitted')
    <3>1. emitted' = emitted \/ emitted' = emitted + 1
      BY <1>3, <2>2 DEF Read, Throw, Count, GroupDone
    <3>2. emitted \in Nat /\ emitted' \in Nat /\ emitted <= emitted'
      BY <3>1 DEF TypeOK
    <3>3. RowShare \in Nat \ {0} /\ RunShare \in Nat \ {0}
      BY <2>2, Shares
    <3>4. PICK x \in Nat, y \in Nat : x = RowShare * emitted /\ y = RowShare * emitted' /\ x <= y
      BY <3>2, <3>3, ProductUp
    <3>5. PICK z \in Nat : z = progress * RunShare
      BY <1>0, <3>3
    <3>6. z <= 100 * x
      BY <2>1, <2>2, <3>4, <3>5 DEF ForwardInv, InIteration
    <3>7. QED
      BY <3>4, <3>5, <3>6
  <2>3. QED
    BY <1>0, <1>c, <2>1, <2>2 DEF ForwardInv
<1>4. CASE Events
  <2>1. UNCHANGED <<conf, emitted>>
    BY <1>4 DEF Events
  <2>2. CASE Endless
    BY <1>0, <1>4, <1>c, <2>1, <2>2 DEF Events, ForwardInv
  <2>3. CASE ~Endless
    <3>1. progress' \in progress .. 100 /\ progress' * RunShare <= 100 * (RowShare * emitted)
      BY <1>4, <2>3, EventsForward
    <3>2. progress' >= progress /\ progress' \in 0 .. 100
      BY <1>0, <3>1
    <3>3. QED
      BY <1>c, <2>1, <3>1, <3>2 DEF ForwardInv
  <2>4. QED
    BY <2>2, <2>3
<1>5. CASE Advance
  <2>1. UNCHANGED <<conf, emitted>> /\ pc = "read" /\ pc' = "loop"
    BY <1>5 DEF Advance, GroupDone
  <2>2. CASE progress' = progress
    BY <1>0, <1>c, <2>1, <2>2 DEF ForwardInv, InIteration
  <2>3. CASE progress' = 100 /\ m_stop'
    BY <1>0, <2>1, <2>3 DEF ForwardInv, InIteration
  <2>4. QED
    BY <1>5, <2>2, <2>3 DEF Advance, ProcessEvents, GroupDone
<1>6. CASE SetFinal \/ Catch \/ Return \/ ThreadFinished
  <2>1. progress' = progress /\ pc' \in {"failed", "quit", "returned", "ended"}
    BY <1>6 DEF SetFinal, Throw, Catch, Return, ThreadFinished
  <2>2. QED
    BY <1>0, <2>1 DEF ForwardInv, InIteration
<1>7. ASSUME NEW c \in Confs, NEW p \in {"built", "started"}, ConstructAt(c, p) PROVE Goal
  BY <1>0, <1>7 DEF ConstructAt, ForwardInv, InIteration
<1>8. CASE FailedRun \/ Delete
  <2>1. progress' = progress /\ pc' = "none"
    BY <1>8 DEF FailedRun, ConstructFails, Delete
  <2>2. QED
    BY <1>0, <2>1 DEF ForwardInv, InIteration
<1>9. CASE UNCHANGED <<pc, conf, m_stop, emitted, progress>>
  BY <1>0, <1>9, <1>c DEF ForwardInv, InIteration
<1>10. Goal
  BY <1>1, <1>2, <1>3, <1>4, <1>5, <1>6, <1>7, <1>8, <1>9
     DEF Next, Worker, Environment, NewRun, NotReady, Destroy, GuiPost,
         GuiTakes, GuiDelete, Post, workerVars
<1>11. QED
  BY <1>10 DEF ForwardInv

(* The progress bar never runs backwards, in a sweep up or down or in a    *)
(* free run with a limit, whatever the range, the step and the groups.     *)
THEOREM ProgressGoesOn == Spec => ProgressForward
<1>1. Init => ForwardInv
  BY DEF Init, ForwardInv, InIteration
<1>2. IInv /\ IInv' /\ BoundedInv /\ ForwardInv /\ [Next]_workerVars => ForwardInv'
  BY ForwardStep DEF IInv, BoundedInv
<1>3. IInv /\ IInv' /\ BoundedInv /\ ForwardInv /\ [Next]_workerVars
        => [progress' \in 0 .. 100 /\ (pc = "started" \/ progress' >= progress)]_workerVars
  BY ForwardStep DEF IInv, BoundedInv
<1>4. QED
  BY <1>1, <1>2, <1>3, Inductive, Bounded, PTL DEF Spec, ProgressForward
=============================================================================
