---------------------------- MODULE SerialEngine ----------------------------
(***************************************************************************)
(* The settings of a serial port: UnixSerialPortEngine keeps the termios   *)
(* it wants (m_currTermios) and the one it found (m_oldTermios), the       *)
(* device has its own, and SerialPortPrivate remembers what it reports.    *)
(* Opening, closing and crashing are those of TTYLocker, with their        *)
(* settings.                                                               *)
(*                                                                         *)
(* A termios is its speed, its character size and the set of its flags, of *)
(* PARENB, PARODD, CMSPAR, CSTOPB, CRTSCTS, IXON, IXOFF, INPCK, IGNPAR and *)
(* PARMRK; IXANY always goes with IXOFF.  There is one speed: on Linux the *)
(* input and the output speed are the same bits of c_cflag.  Error codes   *)
(* are left out.                                                           *)
(***************************************************************************)
EXTENDS TTYLocker

CONSTANTS
    Rates,      \* the standard rates that are used
    CustomRate, \* a rate that is not a standard one
    Cases       \* what may be done in one behaviour, see SerialPort

ASSUME RatesAssumption ==
    /\ Rates \subseteq Nat \ {0}
    /\ CustomRate \in Nat \ (Rates \union {0})

VARIABLES
    dev,        \* the termios of the device
    cur,        \* m_currTermios of each process
    old,        \* m_oldTermios of each process
    rep,        \* m_inRate ... m_policy of each process
    lines,      \* the output lines that are high
    conf,       \* the case of this behaviour
    calls,      \* history: the calls of setters
    faulted     \* history: a termios was refused, or a user crashed or leaked

engineVars == <<dev, cur, old, rep, lines, conf, calls, faulted>>

Sizes == {5, 6, 7, 8}

Unknown == "Unknown"
UnknownNumber == 0      \* UnknownRate and UnknownDataBits

(***************************************************************************)
(* A rate is what the program says, a speed what the termios holds: one of *)
(* the constants B0, B50 and so on.  B0 is the speed of no rate.           *)
(***************************************************************************)
Speed(n) == [B |-> n]
B0 == Speed(0)
NotStandard == Speed(-1)

detect_standard_rate(rate) == IF rate \in Rates THEN Speed(rate) ELSE NotStandard

unixrate2valuerate(speed) ==
    IF \E rate \in Rates : speed = Speed(rate)
      THEN CHOOSE rate \in Rates : speed = Speed(rate) ELSE UnknownNumber

Speeds == [B : Int]
Flags == {"PARENB", "PARODD", "CMSPAR", "CSTOPB", "CRTSCTS", "IXON", "IXOFF", "INPCK",
          "IGNPAR", "PARMRK"}
Termios == [speed : Speeds, size : Sizes, flags : SUBSET Flags]

\* What the device is left with by others.
ASSUME FoundAssumption == \A c \in Cases : c.found \in Termios

NoTermios == [speed |-> B0, size |-> 5, flags |-> {}]

Without(t, F) == [t EXCEPT !.flags = @ \ F]
With(t, F) == [t EXCEPT !.flags = @ \union F]

\* cfmakeraw() as open() uses it: eight bits, no parity, no IXON; IXOFF stays.
Raw(t) == [Without(t, {"PARENB", "PARMRK", "IXON"}) EXCEPT !.size = 8]

(***************************************************************************)
(* detectDefaultSettings().                                                *)
(***************************************************************************)
DetectParity(t) ==
    IF "CMSPAR" \in t.flags
      THEN IF "PARODD" \in t.flags THEN "Mark" ELSE "Space"
      ELSE IF "PARENB" \notin t.flags THEN "None"
           ELSE IF "PARODD" \in t.flags THEN "Odd" ELSE "Even"

DetectFlow(t) ==
    LET hard == "CRTSCTS" \in t.flags
        soft == t.flags \cap {"IXON", "IXOFF"} # {}
    IN  IF hard THEN IF soft THEN Unknown ELSE "Hardware"
                ELSE IF soft THEN "Software" ELSE "None"

DetectPolicy(t) ==
    IF "INPCK" \notin t.flags THEN "Ignore"
    ELSE IF "IGNPAR" \in t.flags THEN "Skip"
    ELSE IF "PARMRK" \in t.flags THEN "StopReceiving" ELSE "PassZero"

Detect(t) ==
    [inRate |-> unixrate2valuerate(t.speed), outRate |-> unixrate2valuerate(t.speed),
     dataBits |-> t.size,
     parity |-> DetectParity(t),
     stopBits |-> IF "CSTOPB" \in t.flags THEN "Two" ELSE "One",
     flow |-> DetectFlow(t), policy |-> DetectPolicy(t)]

\* What a SerialPort that was never opened reports.
NothingReported ==
    [inRate |-> UnknownNumber, outRate |-> UnknownNumber, dataBits |-> UnknownNumber,
     parity |-> Unknown, stopBits |-> Unknown, flow |-> Unknown,
     policy |-> "Ignore"]

EngineInit ==
    /\ LockInit
    /\ conf \in Cases
    /\ dev = conf.found
    /\ cur = [p \in Procs |-> NoTermios]
    /\ old = [p \in Procs |-> NoTermios]
    /\ rep = [p \in Procs |-> NothingReported]
    /\ lines = {}
    /\ calls = 0
    /\ faulted = FALSE

(***************************************************************************)
(* The setters.  m_currTermios is changed first and stays changed when     *)
(* tcsetattr() fails, which it always does while there is no descriptor.   *)
(***************************************************************************)
CallSetter(p) ==
    /\ p \in conf.setters
    /\ pc[p] \in {"closed", "open"}
    /\ calls < conf.maxCalls
    /\ calls' = calls + 1
    /\ UNCHANGED <<old, lines, conf, lockVars>>

Refused(p, t) ==
    /\ cur' = [cur EXCEPT ![p] = t]
    /\ faulted' = TRUE
    /\ UNCHANGED <<dev, rep>>

\* updateTermios(), and what SerialPortPrivate then remembers.
Update(p, t, reported) ==
    \/ /\ pc[p] = "open" \/ p \in leaked
       /\ cur' = [cur EXCEPT ![p] = t]
       /\ dev' = t
       /\ rep' = [rep EXCEPT ![p] = reported]
       /\ UNCHANGED faulted
    \/ Refused(p, t)

(***************************************************************************)
(* What SerialPortPrivate remembers of a setting the engine has made.      *)
(***************************************************************************)
RateReportedExactly(p, rate, dir) ==
    [rep[p] EXCEPT !.inRate = IF dir = {"Input"} THEN rate ELSE @,
                   !.outRate = IF dir = {"Output"} THEN rate ELSE @]

RateReported(p, rate, dir) ==
    [rep[p] EXCEPT !.inRate = IF "Input" \in dir THEN rate ELSE @,
                   !.outRate = IF "Output" \in dir THEN rate ELSE @]
DataBitsReported(p, bits) == [rep[p] EXCEPT !.dataBits = bits]
ParityReported(p, parity) == [rep[p] EXCEPT !.parity = parity]
StopBitsReported(p, bits) == [rep[p] EXCEPT !.stopBits = bits]
FlowReported(p, flow) == [rep[p] EXCEPT !.flow = flow]
PolicyReported(p, policy) == [rep[p] EXCEPT !.policy = policy]

(***************************************************************************)
(* The setters of the engine.                                              *)
(***************************************************************************)
\* cfsetispeed() and cfsetospeed() write the same bits: a rate for one
\* direction is one for both, but is remembered of the one only.
setStandartRate(p, rate, dir) ==
    Update(p, [cur[p] EXCEPT !.speed = detect_standard_rate(rate)],
           RateReported(p, rate, dir))

\* The divisor of the driver, not the termios: nothing changes on the line
\* while its speed is not 38400, but it is reported.
setCustomRate(p, rate, dir) ==
    /\ \/ /\ pc[p] = "open" \/ p \in leaked
          /\ rep' = [rep EXCEPT ![p] = RateReported(p, rate, dir)]
       \/ UNCHANGED rep
    /\ UNCHANGED <<dev, cur, faulted>>

setRate(p, rate, dir) ==
    IF detect_standard_rate(rate) = NotStandard
      THEN setCustomRate(p, rate, dir)
      ELSE setStandartRate(p, rate, dir)

\* An unknown size has already cleared CSIZE, which is CS5.
setDataBits(p, bits) ==
    IF bits \in Sizes
      THEN Update(p, [cur[p] EXCEPT !.size = bits], DataBitsReported(p, bits))
      ELSE Refused(p, [cur[p] EXCEPT !.size = 5])

setParity(p, parity) ==
    LET base == With(Without(cur[p], {"PARMRK", "INPCK"}), {"IGNPAR"})
        even == Without(base, {"PARODD"})
        t == CASE parity = "Space" -> With(even, {"PARENB", "CMSPAR"})
               [] parity = "Mark" -> With(base, {"PARENB", "CMSPAR", "PARODD"})
               [] parity = "None" -> Without(base, {"PARENB"})
               [] parity = "Even" -> With(even, {"PARENB"})
               [] parity = "Odd" -> With(base, {"PARENB", "PARODD"})
               [] OTHER -> With(Without(base, {"IGNPAR"}),
                                {"PARENB", "PARMRK", "INPCK"})
    IN  Update(p, t, ParityReported(p, parity))

setStopBits(p, bits) ==
    LET reported == StopBitsReported(p, bits)
    IN  CASE bits = "One" -> Update(p, Without(cur[p], {"CSTOPB"}), reported)
          [] bits = "Two" -> Update(p, With(cur[p], {"CSTOPB"}), reported)
          [] OTHER -> Refused(p, cur[p])

setFlowControl(p, flow) ==
    LET soft == {"IXON", "IXOFF"}
        reported == FlowReported(p, flow)
    IN  CASE flow = "None" ->
               Update(p, Without(cur[p], soft \union {"CRTSCTS"}), reported)
          [] flow = "Hardware" ->
               Update(p, With(Without(cur[p], soft), {"CRTSCTS"}), reported)
          [] flow = "Software" ->
               Update(p, With(Without(cur[p], {"CRTSCTS"}), soft), reported)
          [] OTHER -> Refused(p, cur[p])

setDataErrorPolicy(p, policy) ==
    LET t == cur[p]
        reported == PolicyReported(p, policy)
    IN  CASE policy = "Skip" ->
               Update(p, With(Without(t, {"PARMRK"}), {"IGNPAR", "INPCK"}), reported)
          [] policy = "PassZero" ->
               Update(p, With(Without(t, {"IGNPAR", "PARMRK"}), {"INPCK"}), reported)
          [] policy = "Ignore" -> Update(p, Without(t, {"INPCK"}), reported)
          [] policy = "StopReceiving" ->
               Update(p, With(Without(t, {"IGNPAR"}), {"PARMRK", "INPCK"}), reported)
          [] OTHER -> Refused(p, t)

\* lines(), and trigger_out_line() of setDtr() and setRts(): nothing is
\* written when the line is as wanted.
high(line) == line \in lines

TriggerOutLine(p, line, set) ==
    /\ p \in conf.setters
    /\ pc[p] = "open"
    /\ calls < conf.maxCalls
    /\ calls' = calls + 1
    /\ high(line) # set
    /\ lines' = IF set THEN lines \union {line} ELSE lines \ {line}
    /\ UNCHANGED <<dev, cur, old, rep, conf, faulted, lockVars>>

(***************************************************************************)
(* The setters of SerialPort, called in any order.                         *)
(***************************************************************************)
SetRate(p) ==
    \E dir \in {{"Input"}, {"Output"}, {"Input", "Output"}} :
      \E rate \in Rates \union {CustomRate} : setRate(p, rate, dir)

SetDataBits(p) == \E bits \in {7, 8, UnknownNumber} : setDataBits(p, bits)

SetParity(p) ==
    \E parity \in {"None", "Even", "Odd", "Mark", "Space", Unknown} :
      setParity(p, parity)

SetStopBits(p) == \E bits \in {"One", "Two", Unknown} : setStopBits(p, bits)

SetFlowControl(p) ==
    \E flow \in {"None", "Hardware", "Software", Unknown} : setFlowControl(p, flow)

\* Setting the policy that is in force, by what is reported, does nothing.
SetDataErrorPolicy(p) ==
    \E policy \in {"Skip", "PassZero", "Ignore", "StopReceiving", Unknown} :
      IF policy = rep[p].policy
        THEN UNCHANGED <<dev, cur, rep, faulted>>
        ELSE setDataErrorPolicy(p, policy)

SetDtr(p) == \E set \in BOOLEAN : TriggerOutLine(p, "Dtr", set)
SetRts(p) == \E set \in BOOLEAN : TriggerOutLine(p, "Rts", set)

Setter(p) ==
    \/ /\ CallSetter(p)
       /\ \/ SetRate(p) \/ SetDataBits(p) \/ SetParity(p)
          \/ SetStopBits(p) \/ SetFlowControl(p) \/ SetDataErrorPolicy(p)
    \/ SetDtr(p) \/ SetRts(p)

(***************************************************************************)
(* open() and close() with the settings.                                   *)
(***************************************************************************)
Fault(b) == faulted' = (faulted \/ b)

\* The steps of open() and close() that touch no setting.
PlainStep(p) ==
    /\ \/ OpenRefused(p) \/ OpenCheck(p)
       \/ DescriptorFails(p) \/ DescriptorOpens(p)
       \/ LockOpens(p) \/ LockFails(p) \/ LockWrites(p)
       \/ CloseUnlock(p) \/ CloseRemove(p)
    /\ UNCHANGED engineVars

LeakStep(p) ==
    /\ \/ VerifyFails(p) /\ UNCHANGED <<old, cur>>
       \/ SettingsFail(p) /\ UNCHANGED <<old, cur>>         \* tcgetattr()
       \/ /\ SettingsFail(p)                                \* tcsetattr()
          /\ old' = [old EXCEPT ![p] = dev]
          /\ cur' = [cur EXCEPT ![p] = Raw(dev)]
    /\ Fault(TRUE)
    /\ UNCHANGED <<dev, rep, lines, conf, calls>>

OpenSettingsRaw(p) ==
    /\ OpenDone(p)
    /\ old' = [old EXCEPT ![p] = Raw(dev)]
    /\ cur' = [cur EXCEPT ![p] = Raw(dev)]
    /\ dev' = Raw(dev)
    /\ rep' = [rep EXCEPT ![p] = Detect(Raw(dev))]
    /\ UNCHANGED <<lines, conf, calls, faulted>>

OpenSettings(p) ==
    /\ OpenDone(p)
    /\ old' = [old EXCEPT ![p] = dev]
    /\ cur' = [cur EXCEPT ![p] = Raw(dev)]
    /\ dev' = Raw(dev)
    /\ rep' = [rep EXCEPT ![p] = Detect(Raw(dev))]
    /\ UNCHANGED <<lines, conf, calls, faulted>>

\* m_restoreSettingsOnClose; the result of tcsetattr() is ignored.
CloseSettings(p) ==
    /\ CloseDescriptor(p)
    /\ \/ conf.restore /\ dev' = old[p] /\ UNCHANGED faulted
       \/ dev' = dev /\ Fault(TRUE)
    /\ UNCHANGED <<cur, old, rep, lines, conf, calls>>

CrashSettings(p) ==
    /\ conf.crashes
    /\ Crash(p)
    /\ Fault(TRUE)
    /\ UNCHANGED <<dev, cur, old, rep, lines, conf, calls>>

-----------------------------------------------------------------------------
\* What rate() of both directions tells is the rate of the device, after any
\* sequence of rates for one direction or both, standard or not; but it may
\* not know it, and a custom rate is only what was asked for.
RateTold(r, t) ==
    r.inRate = r.outRate /\ r.inRate # CustomRate => r.inRate = Detect(t).inRate

\* While tcsetattr() has refused nothing, the data bits, stop bits and flow
\* control that a process with the port to itself reports are those of the
\* device, and its rate as far as it is told, after any sequence of calls.
\* (Parity, error policy and the rate of a single direction need not be.)
SettingsReported ==
    ~faulted /\ ~overlapped =>
        \A p \in Procs : pc[p] = "open" =>
            /\ \A field \in {"dataBits", "stopBits", "flow"} :
                  rep[p][field] = Detect(dev)[field]
            /\ RateTold(rep[p], dev)

\* close() leaves the termios of the device as open() found it, as
\* setRestoreSettingsOnClose() has it (serialport.cpp:1135-1138), when nothing
\* failed and no two users overlapped.
LeftAsFound ==
    ~faulted /\ ~overlapped /\ (\A p \in Procs : pc[p] = "closed") =>
        dev = conf.found

\* The settings of the device are those the object reports while it is open,
\* and those it found once it is closed.
SettingsKept == SettingsReported /\ LeftAsFound
=============================================================================
