---------------------------- MODULE MeasureThread ----------------------------
(***************************************************************************)
(* The worker object of AeroIST (src/aeroist/measurethread.cpp).  It lives *)
(* in its own QThread while produce() runs: it sets the controllable       *)
(* channels, waits, reads every channel measures_per_iteration times and   *)
(* posts each sample to the GUI thread.  Between two samples it runs       *)
(* processEvents(), the only points at which the queued slots stop() and   *)
(* manual_control() can execute.                                           *)
(*                                                                         *)
(* The GUI thread is the environment here; AeroISTWindow.tla puts the real *)
(* window in its place.                                                    *)
(***************************************************************************)
EXTENDS Integers, Sequences

CONSTANTS
    Channels,     \* names of the controllable channels (Motor, Alpha, Beta)
    HasFinal,     \* those with has_set_final(): the motor
    Levels,       \* values the spin boxes of the window can hold
    Confs,        \* the measurement settings a dialog can accept
    NoControl,    \* control == ""
    MaxInbox,     \* bound on the slot calls posted to the worker
    MaxOutbox     \* bound on the events posted to the GUI thread

(* What MeasurementsPreferences::accept and ReferencePreferences::accept   *)
(* leave in a model: the spin boxes keep step and the number of measures   *)
(* positive and the sign of step is turned towards end.                    *)
(* (The start that turns it is that of the row that was chosen; where two  *)
(* plugins share its name, this is the start of the run only if no later   *)
(* row has the name: StartsAsShown of Plugins.)                            *)
(*                                                                         *)
(* start, end and step are what the spin boxes show, in units of their last*)
(* decimal; the code has the nearest doubles and adds them up, so what it  *)
(* holds is off by far less than a unit and only a comparison between      *)
(* equals can turn out otherwise.  That one is exceeds: the doubles of     *)
(* start + step + ... + step are beyond the double of end, where the       *)
(* decimals are at end (0.1 + 0.1 + 0.1 > 0.3).  Nothing is rounded before *)
(* the first addition.                                                     *)
ConfsAssumption ==
    \A c \in Confs :
        /\ c.control \in Channels \union {NoControl}
        /\ c.start \in [Channels -> Int]
        /\ c.end \in Int
        /\ c.step \in Int
        /\ c.iterations \in Nat
        /\ c.mpi \in Nat \ {0}
        /\ c.exceeds \in BOOLEAN
        /\ c.exceeds => c.control # NoControl /\ c.start[c.control] # c.end
        /\ c.control # NoControl =>
              \/ c.step > 0 /\ c.start[c.control] <= c.end
              \/ c.step < 0 /\ c.start[c.control] > c.end

ASSUME ConstantsAssumption ==
    /\ ConfsAssumption
    /\ NoControl \notin Channels
    /\ HasFinal \subseteq Channels
    /\ Levels \subseteq Int
    /\ MaxInbox \in Nat
    /\ MaxOutbox \in Nat

VARIABLES
    pc,           \* where produce() is; "none" before and after the object
    conf,         \* the fields copied by the constructor
    current,      \* value of the controlled channel for the next iteration,
                  \* in decimals
    k,            \* iterations completed
    l,            \* samples of this iteration
    m_stop,
    man_control,
    man_hash,
    progress,     \* last percentage emitted
    setpoint,     \* what each channel was last commanded to
    inbox,        \* slot calls queued for the worker thread
    outbox,       \* events queued for the GUI thread
    emitted,      \* samples emitted in this run (see Count)
    outcome       \* "running", "ok", or "error" after an exception

workerVars == <<pc, conf, current, k, l, m_stop, man_control, man_hash,
                progress, setpoint, inbox, outbox, emitted, outcome>>

-----------------------------------------------------------------------------
(* Data                                                                    *)

Values == [Channels -> Levels]
EmptyHash == [c \in {} |-> 0]

SlotPartial == [slot : {"stop"}] \union
               UNION {[slot : {"manual_control"}, hash : [S -> Levels]]
                      : S \in SUBSET Channels}
Slot == [slot : {"stop"}] \union [slot : {"manual_control"}, hash : Values]

Done(n)   == [type |-> "MeasureDone", n |-> n]
Event(t)  == [type |-> t, n |-> 0]
EventType == {"MeasureDone", "newData", "message", "finished"}

Running  == {"started", "loop", "read", "events", "failed", "quit"}
PcValues == Running \union {"none", "built", "returned", "ended"}

Sweep   == conf.control # NoControl
Endless == conf.control = NoControl /\ conf.iterations = 0

\* k is read only to compare it with iterations: an endless run does not
\* need it, and counts its samples within the current group only.
CountIteration == IF Endless THEN k ELSE k + 1
Count == IF Endless THEN (emitted + 1) % conf.mpi ELSE emitted + 1

\* (step > 0 && current > end) || (step < 0 && current < end), of doubles
PastEarly(v) == \/ conf.step > 0 /\ v >= conf.end
                \/ conf.step < 0 /\ v <= conf.end
Past(v) == \/ conf.step > 0 /\ v > conf.end
           \/ conf.step < 0 /\ v < conf.end
           \/ conf.exceeds /\ v = conf.end

Start == conf.start[conf.control]

\* The two ways to finish, with current = v after n iterations
FinishedLate(v, n) == IF Sweep THEN Past(v)
                      ELSE conf.iterations # 0 /\ n > conf.iterations
Finished(v, n) == IF Sweep THEN Past(v)
                  ELSE conf.iterations # 0 /\ n >= conf.iterations

\* The condition of the while, and the end of the for inside it
LoopAgainBounded == ~m_stop \/ (~Sweep /\ k < conf.iterations)
LoopAgainEndless == ~m_stop \/ Endless
LoopAgain == ~m_stop

GroupDoneOnStop == l >= conf.mpi \/ (m_stop /\ l # 0)
GroupDoneEarly  == l >= conf.mpi - 1 /\ l # 0
GroupDone == l >= conf.mpi

\* perc_B + perc_S in exact arithmetic instead of doubles; the casts
\* truncate towards zero and both operands have the sign of step.
PercentageNext ==
    IF Sweep THEN 0 ELSE (100 * ((k + 1) * conf.mpi + l')) \div (conf.iterations * conf.mpi)
Percentage ==
    IF Sweep
    THEN LET sign  == IF conf.step > 0 THEN 1 ELSE -1
             range == conf.end - Start + conf.step
         IN  (sign * 100 * ((current - Start) * conf.mpi + conf.step * l'))
                \div (sign * range * conf.mpi)
    ELSE (100 * (k * conf.mpi + l')) \div (conf.iterations * conf.mpi)

\* processEvents(): every slot call queued for the worker runs, in order.
ProcessEvents(stop) ==
    LET manual == {i \in DOMAIN inbox : inbox[i].slot = "manual_control"} IN
    /\ inbox' = << >>
    /\ m_stop' = (stop \/ \E i \in DOMAIN inbox : inbox[i].slot = "stop")
    /\ \/ /\ manual = {}
          /\ UNCHANGED <<man_control, man_hash>>
       \/ \E i \in manual :
             /\ \A j \in manual : j <= i
             /\ man_control' = TRUE
             /\ man_hash' = inbox[i].hash

\* The channels in S take the values of f; an exception in the middle of a
\* loop over the variables leaves the channels before it set.
SetChannels(S, f) ==
    setpoint' = [c \in Channels |-> IF c \in S THEN f[c] ELSE setpoint[c]]

\* set_final() of the channels in S, which is also what opening the motor
\* does: command it to 0 (motor.cpp:133-175, 207)
SetFinals(S) == SetChannels(S, [h \in S |-> 0])

Throw == pc' = "failed" /\ outcome' = "error"

-----------------------------------------------------------------------------
(* The object's life outside produce()                                     *)

\* A new object, or none: the members that only mean something in a run
Fresh(c) ==
    /\ current' = IF c.control = NoControl THEN 0 ELSE c.start[c.control]
    /\ k' = 0
    /\ l' = 0
    /\ m_stop' = FALSE
    /\ man_control' = FALSE
    /\ man_hash' = EmptyHash
    /\ emitted' = 0
    /\ outcome' = "running"

\* The constructor; with p = "started", and m_thread->start(): started() is
\* connected to produce().
ConstructAt(c, p) ==
    /\ pc' = p
    /\ conf' = c
    /\ Fresh(c)
    /\ SetFinals(HasFinal)
    /\ UNCHANGED <<progress, inbox, outbox>>

Construct(c) == ConstructAt(c, "built")

\* A device in the middle of the plugin list cannot be opened: the ones
\* before it were opened (the motor commanded to 0) and are closed again.
ConstructFails ==
    /\ \E S \in SUBSET HasFinal : SetFinals(S)
    /\ UNCHANGED <<pc, conf, current, k, l, m_stop, man_control, man_hash,
                   progress, inbox, outbox, emitted, outcome>>

\* delete m_test: the members and the calls still posted to it are gone.
Delete ==
    /\ pc' = "none"
    /\ inbox' = << >>
    /\ Fresh(conf)
    /\ UNCHANGED <<conf, progress, setpoint>>

Destroy == Delete /\ UNCHANGED outbox

\* A slot call posted by the GUI thread.  Once produce() has moved the
\* object back, the call runs directly in the GUI thread and is without
\* effect: nothing reads the flags any more.
Post(s) ==
    /\ inbox' = IF pc \in Running THEN Append(inbox, s) ELSE inbox
    /\ UNCHANGED <<pc, conf, current, k, l, m_stop, man_control, man_hash,
                   progress, setpoint, outbox, emitted, outcome>>

-----------------------------------------------------------------------------
(* produce(), step by step between two points where something else of the  *)
(* program can be observed                                                 *)

\* progress(0); set_initial()
SetInitial ==
    /\ pc = "started"
    /\ progress' = 0
    /\ \/ /\ SetChannels(Channels, conf.start)
          /\ pc' = "loop"
          /\ UNCHANGED outcome
       \/ /\ \E S \in SUBSET Channels : SetChannels(S, conf.start)
          /\ Throw
    /\ UNCHANGED <<conf, current, k, l, m_stop, man_control, man_hash,
                   inbox, outbox, emitted>>

\* What one iteration commands: the pending manual request in a free run,
\* the controlled channel otherwise (set_m() finds no channel named "").
CommandedControl == Channels \intersect {conf.control}
Commanded == IF ~Sweep /\ man_control THEN Channels \intersect DOMAIN man_hash
             ELSE Channels \intersect {conf.control}
CommandedManual(c) == IF man_control THEN man_hash[c] ELSE current
CommandedValue(c) == IF ~Sweep /\ man_control THEN man_hash[c] ELSE current

\* while(!m_stop) { the manual branch or set_m(); msleep(settling_time)
SetChannel ==
    /\ pc = "loop"
    /\ LoopAgain
    /\ man_control' = (Sweep /\ man_control)
    /\ \/ /\ SetChannels(Commanded, [c \in Commanded |-> CommandedValue(c)])
          /\ pc' = "read"
          /\ l' = 0
          /\ UNCHANGED outcome
       \/ /\ \E S \in SUBSET Commanded :
                SetChannels(S, [c \in S |-> CommandedValue(c)])
          /\ Throw
          /\ UNCHANGED l
    /\ UNCHANGED <<conf, current, k, m_stop, man_hash, progress, inbox,
                   outbox, emitted>>

\* read_m(); emit MeasureDone; emit newData
Read ==
    /\ pc = "read"
    /\ ~GroupDone
    /\ Len(outbox) + 2 <= MaxOutbox
    /\ \/ /\ outbox' = outbox \o <<Done(Count), Event("newData")>>
          /\ emitted' = Count
          /\ pc' = "events"
          /\ UNCHANGED outcome
       \/ /\ Throw
          /\ UNCHANGED <<outbox, emitted>>
    /\ UNCHANGED <<conf, current, k, l, m_stop, man_control, man_hash,
                   progress, setpoint, inbox>>

\* processEvents(), the percentage, l++
Events ==
    /\ pc = "events"
    /\ ProcessEvents(m_stop)
    /\ l' = l + 1
    /\ progress' = IF Endless THEN progress ELSE Percentage
    /\ pc' = "read"
    /\ UNCHANGED <<conf, current, k, setpoint, outbox, emitted, outcome>>

\* current += step; k++; m_stop and the last percentage; processEvents()
Advance ==
    /\ pc = "read"
    /\ GroupDone
    /\ current' = IF Sweep THEN current + conf.step ELSE current
    /\ k' = CountIteration
    /\ ProcessEvents(m_stop \/ Finished(current', k'))
    /\ progress' = IF Sweep /\ Finished(current', k') THEN 100 ELSE progress
    /\ pc' = "loop"
    /\ UNCHANGED <<conf, l, setpoint, outbox, emitted, outcome>>

\* the loop is left: set_final() of the channels that have one
SetFinal ==
    /\ pc = "loop"
    /\ ~LoopAgain
    /\ \/ /\ SetFinals(HasFinal)
          /\ pc' = "quit"
          /\ outcome' = "ok"
       \/ /\ \E S \in SUBSET HasFinal : SetFinals(S)
          /\ Throw
    /\ UNCHANGED <<conf, current, k, l, m_stop, man_control, man_hash,
                   progress, inbox, outbox, emitted>>

\* the catch block: message(error)
CatchSilently ==
    /\ pc = "failed"
    /\ pc' = "quit"
    /\ UNCHANGED <<conf, current, k, l, m_stop, man_control, man_hash,
                   progress, setpoint, inbox, outbox, emitted, outcome>>
Catch ==
    /\ pc = "failed"
    /\ outbox' = Append(outbox, Event("message"))
    /\ pc' = "quit"
    /\ UNCHANGED <<conf, current, k, l, m_stop, man_control, man_hash,
                   progress, setpoint, inbox, emitted, outcome>>

\* thread()->quit(); moveToThread(m_parent_thread); return.  quit() only
\* asks the event loop to end: produce() is a slot running inside it.
ReturnOnSuccess ==
    /\ pc = "quit"
    /\ outcome = "ok"
    /\ pc' = "returned"
    /\ UNCHANGED <<conf, current, k, l, m_stop, man_control, man_hash,
                   progress, setpoint, inbox, outbox, emitted, outcome>>
Return ==
    /\ pc = "quit"
    /\ pc' = "returned"
    /\ UNCHANGED <<conf, current, k, l, m_stop, man_control, man_hash,
                   progress, setpoint, inbox, outbox, emitted, outcome>>

\* External (QThread): the event loop ends after the slot has returned, and
\* finished() is posted to the GUI thread from the ending thread.
ThreadFinished ==
    /\ pc = "returned"
    /\ pc' = "ended"
    /\ outbox' = Append(outbox, Event("finished"))
    /\ UNCHANGED <<conf, current, k, l, m_stop, man_control, man_hash,
                   progress, setpoint, inbox, emitted, outcome>>

Worker == \/ SetInitial \/ SetChannel \/ Read \/ Events \/ Advance
          \/ SetFinal \/ Catch \/ Return \/ ThreadFinished

-----------------------------------------------------------------------------
(* The GUI thread, as this object sees it                                  *)

\* An object that is ready is started by the click that constructed it; the
\* one that is not waits, behind a message, to be deleted.
NewRun    == pc = "none" /\ \E c \in Confs, p \in {"built", "started"} :
                               ConstructAt(c, p)
FailedRun == pc = "none" /\ ConstructFails
NotReady  == pc = "built" /\ Destroy
GuiPost   == /\ pc \in Running
             /\ Len(inbox) < MaxInbox
             /\ \E s \in Slot : Post(s)

\* finished() is the last event, and deletes the object.
GuiTakes  == /\ outbox # << >>
             /\ Head(outbox).type # "finished"
             /\ outbox' = Tail(outbox)
             /\ UNCHANGED <<pc, conf, current, k, l, m_stop, man_control,
                            man_hash, progress, setpoint, inbox, emitted,
                            outcome>>
GuiDelete == /\ outbox # << >>
             /\ Head(outbox).type = "finished"
             /\ outbox' = Tail(outbox)
             /\ Delete

Environment == \/ NewRun \/ FailedRun \/ NotReady \/ GuiPost \/ GuiTakes
               \/ GuiDelete

Init ==
    /\ pc = "none"
    /\ conf \in Confs
    /\ current = 0
    /\ k = 0
    /\ l = 0
    /\ m_stop = FALSE
    /\ man_control = FALSE
    /\ man_hash = EmptyHash
    /\ progress = 0
    /\ setpoint \in Values
    /\ inbox = << >>
    /\ outbox = << >>
    /\ emitted = 0
    /\ outcome = "running"

Next == Worker \/ Environment

Spec == Init /\ [][Next]_workerVars

\* Hardware calls return (or throw), the thread is scheduled, and the GUI
\* event loop runs; that the user ever clicks anything is not assumed.
Fairness == WF_workerVars(Worker) /\ WF_workerVars(GuiTakes)

FairSpec == Spec /\ Fairness

-----------------------------------------------------------------------------
(* Properties                                                              *)

TypeOK ==
    /\ pc \in PcValues
    /\ conf \in Confs
    /\ current \in Int
    /\ k \in Nat
    /\ l \in Nat
    /\ m_stop \in BOOLEAN
    /\ man_control \in BOOLEAN
    /\ man_hash \in Values \union {EmptyHash}
    /\ progress \in Int
    /\ setpoint \in [Channels -> Int]
    /\ inbox \in Seq(Slot)
    /\ outbox \in Seq([type : EventType, n : Nat])
    /\ emitted \in Nat
    /\ outcome \in {"running", "ok", "error"}

(* Row i of a sweep was read with the controlled channel commanded to the  *)
(* (i div mpi)-th point of the sweep, and that point is between start and  *)
(* end (in decimals; the double commanded is off by the rounding of the    *)
(* sum).  The averages of CurveNew and of save_avg_csv take rows in groups *)
(* of mpi and rely on it; a manual request, a stop or a failure must not   *)
(* shift the grid.                                                         *)
Between(v, a, b) == (a <= v /\ v <= b) \/ (b <= v /\ v <= a)

SampledOnGrid ==
    pc = "events" /\ Sweep =>
        /\ setpoint[conf.control] =
               Start + ((emitted - 1) \div conf.mpi) * conf.step
        /\ Between(setpoint[conf.control], Start, conf.end)

(* Nothing changes a channel in the middle of a group of mpi samples,      *)
(* whatever slot calls arrive between two samples of the group.            *)
GroupUniform ==
    [][pc # "none" /\ setpoint' # setpoint => emitted % conf.mpi = 0]_workerVars

(* After a stop the group under way is completed and no other is begun.    *)
StopEndsGroup ==
    [][m_stop /\ pc = "read" /\ pc' = "events"
          => emitted % conf.mpi # 0]_workerVars

(* A group of samples is taken with the same channels, and neither a stop  *)
(* nor a manual request between two of its samples changes that.           *)
GroupsKept == GroupUniform /\ StopEndsGroup

(* A run that ends without an exception leaves whole groups of samples, so *)
(* that no row falls out of the averages.                                  *)
WholeGroups == outcome = "ok" => emitted % conf.mpi = 0

(* The last manual request taken by a free run stays in force: until the   *)
(* run leaves its loop, each channel holds what the request commanded.     *)
ManualHeld ==
    pc \in {"read", "events", "loop"} /\ ~Sweep /\ ~man_control
       /\ man_hash # EmptyHash
       => setpoint = man_hash

(* The progress bar of a run never runs backwards and stays within 0..100. *)
ProgressForward ==
    [][progress' \in 0 .. 100 /\ (pc = "started" \/ progress' >= progress)]_workerVars

\* The points from one end of a range to the other; the last one is lost
\* when it is the other end and the sum of the doubles is beyond it.
Points(range, stride, exceeds) ==
    IF exceeds /\ range % stride = 0 THEN range \div stride
    ELSE range \div stride + 1

\* The rows that the settings of a run with an end give.
Due == conf.mpi *
       (IF ~Sweep THEN conf.iterations
        ELSE IF conf.step > 0 THEN Points(conf.end - Start, conf.step, conf.exceeds)
        ELSE Points(Start - conf.end, -conf.step, conf.exceeds))

NeverTooMany == ~Endless => emitted <= Due

(* The progress bar says 100 between two iterations, or after the run, only*)
(* when every row of the run has been taken.                               *)
FullMeansAll ==
    pc \in {"loop", "quit", "returned", "ended"} /\ ~Endless /\ progress = 100
       => outcome = "error" \/ emitted = Due

(* A run with an end takes no row beyond its range and, by the time the    *)
(* progress bar is full, has taken one group for every point of the range: *)
(* all of them, but for an end that the rounding of current + step puts    *)
(* out of reach (measurethread.cpp:119, 129).                              *)
RowCount == NeverTooMany /\ FullMeansAll

(* Whatever ends a run, the hardware is cleaned up: the comment in the     *)
(* catch block (measurethread.cpp:147-148) promises it, the code only does *)
(* it on the normal path.                                                  *)
SafeAfterAnyEnd == pc = "ended" => \A c \in HasFinal : setpoint[c] = 0

-----------------------------------------------------------------------------
(* What the properties above rest on: an inductive invariant               *)

\* n samples of the iteration under way have been emitted
EmittedInGroup(n) ==
    emitted = IF Endless THEN (IF n = conf.mpi THEN 0 ELSE n)
              ELSE k * conf.mpi + n

CountingInv ==
    /\ l <= conf.mpi
    /\ pc = "read" /\ m_stop => l # 0
    /\ pc \in {"built", "started"} => k = 0
    /\ pc \in {"built", "started", "loop"} => EmittedInGroup(0)
    /\ pc = "read" => EmittedInGroup(l)
    /\ pc = "events" => l < conf.mpi /\ EmittedInGroup(l + 1)

InIteration == pc \in {"read", "events"}

SweepInv ==
    pc # "none" /\ Sweep =>
        /\ current = Start + k * conf.step
        /\ InIteration => setpoint[conf.control] = current
        /\ InIteration \/ pc \in {"built", "started"} \/ (pc = "loop" /\ ~m_stop)
              => ~Past(current)

ManualInv ==
    /\ pc \in {"built", "started"} => man_hash = EmptyHash /\ ~man_control
    /\ ManualHeld

EndInv ==
    /\ pc \in {"none", "built", "started", "loop"} \/ InIteration
          => outcome = "running"
    /\ outcome = "ok" => pc \in {"quit", "returned", "ended"}
    /\ WholeGroups

IInv == TypeOK /\ CountingInv /\ SweepInv /\ ManualInv /\ EndInv

-----------------------------------------------------------------------------
(* A run whose settings are bounded ends without a stop.                   *)
BoundedRunEnds == pc = "started" /\ ~Endless ~> pc = "ended"
=============================================================================
