----------------------------- MODULE SerialPort -----------------------------
(***************************************************************************)
(* The SerialPort class of one process, Me, over SerialEngine: the read    *)
(* and write buffers, the notifiers of the event loop, the two blocking    *)
(* waits and the signals.  A slot connected to readyRead() or              *)
(* bytesWritten() may call the port again, so the calls in progress are a  *)
(* stack of frames.  The event loop runs when the stack is empty.  The     *)
(* other processes use the same class; only who has the port and its       *)
(* settings matter of them.                                                *)
(*                                                                         *)
(* Bytes are numbered in the order they arrive or are written.             *)
(***************************************************************************)
EXTENDS SerialEngine, Sequences, SequencesExt

CONSTANTS
    Me,         \* the process whose port is modelled in full
    BlockSize,  \* the size of a block of the ring buffers
    Newline,    \* the number of the byte that ends a line
    MaxDepth    \* bound on the calls in progress of every case

\* A case of Cases says which processes open the port (users) and call
\* setters, how many (maxCalls), the termios found, m_restoreSettingsOnClose,
\* whether anybody crashes; whether Me opens buffered, how many bytes arrive
\* and are written, how deep calls nest (depth), the read buffer sizes, whether
\* the device may be unplugged, the port closed, and output dropped by errors
\* or reset().
ASSUME MeIsProc == Me \in Procs
ASSUME DepthsBounded == \A c \in Cases : c.depth <= MaxDepth
ASSUME BlocksHoldBytes == BlockSize \in Nat /\ BlockSize >= 2
ASSUME NewlineIsByte == Newline \in Nat \ {0}
ASSUME SizesAreNumbers == \A c \in Cases : c.sizes \subseteq Nat

Junk == 0
RB == INSTANCE RingBuffer

VARIABLES
    port,       \* the fields of SerialPort and SerialPortPrivate, see NewPort
    stack,      \* the calls in progress, the innermost last
    rx,         \* the input the driver holds
    arrived,    \* the number of bytes that have arrived, but those lost with
                \* the device
    taken,      \* history: the input read by the program, or thrown away
    offered,    \* the number of bytes the program has written
    sent,       \* history: the bytes the driver has accepted
    cut,        \* history: output was thrown away
    muted,      \* history: a wait or a full buffer has stopped readyRead()
    hup         \* the device is unplugged

ioVars == <<port, stack, rx, arrived, taken, offered, sent, cut, muted, hup>>
portVars == <<engineVars, lockVars, ioVars>>

NewPort ==
    [buffered |-> FALSE, readMax |-> 0,
     readBuf |-> RB!EmptyRing, writeBuf |-> RB!EmptyRing,
     called |-> FALSE,      \* m_readSerialNotifierCalled
     nSet |-> FALSE,        \* m_readSerialNotifierStateSet
     nState |-> FALSE,      \* m_readSerialNotifierState
     emitR |-> FALSE, emitW |-> FALSE,      \* m_emittedReadyRead, ...Written
     rdOn |-> FALSE, wrOn |-> FALSE]        \* the notifiers are enabled

PortInit ==
    /\ EngineInit
    /\ port = NewPort
    /\ stack = <<>>
    /\ rx = <<>>
    /\ arrived = 0
    /\ taken = <<>>
    /\ offered = 0
    /\ sent = <<>>
    /\ cut = FALSE
    /\ muted = FALSE
    /\ hup = FALSE

IsOpen == pc[Me] = "open"
Idle == stack = <<>>

Frame(kind, then, tmp) == [kind |-> kind, then |-> then, tmp |-> tmp]
TopIs(kind) == stack # <<>> /\ Last(stack).kind = kind
Pop == Front(stack)
Room == Len(stack) < conf.depth

\* The program runs: from the event loop or in a slot.
InProgram == IsOpen /\ (Idle \/ TopIs("ready") \/ TopIs("written"))

(***************************************************************************)
(* The engine: the driver gives k bytes of its input, takes k bytes of     *)
(* data, and the event loop is told what to watch.                         *)
(***************************************************************************)
read(k) == rx' = SubSeq(rx, k + 1, Len(rx))
write(data, k) == sent' = sent \o SubSeq(data, 1, k)

setReadNotificationEnabled(po, enable) == [po EXCEPT !.rdOn = enable]
setWriteNotificationEnabled(po, enable) == [po EXCEPT !.wrOn = enable]

(***************************************************************************)
(* Reading from the driver: readFromPort() and canReadNotification(), up   *)
(* to the signal and after it.  "caller" is who runs the notification: the *)
(* event loop or one of the two waits, whose frame is then the innermost.  *)
(***************************************************************************)
Full(po) == po.readMax > 0 /\ po.readBuf.size >= po.readMax

\* The result of canReadNotification() ends waitForReadyRead() if true and
\* waitForBytesWritten() if false; otherwise the round goes on to writing, if
\* select() said so, and then to the next select().
AfterRead(st, caller, result) ==
    IF caller \notin {"waitR", "waitW"} THEN st
    ELSE IF result = (caller = "waitR") THEN Front(st)
    ELSE [st EXCEPT ![Len(st)].then = IF @ = "both" THEN "write" ELSE "select"]

Entered ==
    IF port.called /\ ~port.nSet
      THEN [port EXCEPT !.nSet = TRUE, !.nState = port.rdOn, !.rdOn = FALSE]
      ELSE [port EXCEPT !.called = TRUE]

LeftStopped(po) == [po EXCEPT !.called = FALSE]

\* The end of canReadNotification().  Without data an enabled notifier is
\* enabled again, which does nothing.
Left(po) ==
    LET restore == po.nSet /\ po.nState # po.rdOn
    IN  [po EXCEPT !.called = FALSE,
                   !.rdOn = IF restore THEN po.nState ELSE @,
                   !.nSet = @ /\ ~restore]

\* How much readFromPort() asks for: all there is, or a byte at a time.
Wanted == IF rep[Me].policy = "Ignore" THEN Len(rx) ELSE 1
Asked ==
    IF port.readMax > 0 /\ Wanted > port.readMax - port.readBuf.size
      THEN port.readMax - port.readBuf.size ELSE Wanted

ReceivedUnchopped(k) ==
    RB!Fill(RB!Reserve(port.readBuf, Asked), Asked, SubSeq(rx, 1, k))

\* read() gives k of the bytes asked for.
Received(k) ==
    RB!Chop(RB!Fill(RB!Reserve(port.readBuf, Asked), Asked, SubSeq(rx, 1, k)),
            Asked - k)

CanReadRefuses(caller) ==
    /\ port.buffered
    /\ \/ Full(port) /\ port' = [Entered EXCEPT !.called = FALSE]
       \/ /\ ~Full(port) /\ rx = <<>>
          /\ port' = [Entered EXCEPT !.called = FALSE,
                                     !.readBuf = IF Wanted = 0 THEN @ ELSE Received(0)]
    /\ stack' = AfterRead(stack, caller, FALSE)
    /\ UNCHANGED <<rx, muted>>

CanReadBuffers(caller, k) ==
    /\ port.buffered
    /\ ~Full(port)
    /\ k \in 1..Len(rx) /\ k <= Asked
    /\ read(k)
    /\ LET filled == [Entered EXCEPT !.readBuf = Received(k)]
           full == Full(filled)
           po == setReadNotificationEnabled(filled, filled.rdOn /\ ~full)
       IN  /\ muted' = (muted \/ full)
           /\ IF port.emitR
                THEN /\ port' = Left(po)
                     /\ stack' = AfterRead(stack, caller, TRUE)
                ELSE /\ port' = [po EXCEPT !.emitR = TRUE]
                     /\ stack' = Append(stack, Frame("ready", caller, 0))

CanReadUnbuffered(caller) ==
    /\ ~port.buffered
    /\ IF rx # <<>> /\ ~port.emitR
         THEN /\ port' = [Entered EXCEPT !.emitR = TRUE]
              /\ stack' = Append(stack, Frame("ready", caller, 0))
         ELSE /\ port' = Left(Entered)
              /\ stack' = AfterRead(stack, caller, TRUE)
    /\ UNCHANGED <<rx, muted>>

CanReadNotification(caller) ==
    /\ \/ CanReadRefuses(caller)
       \/ \E k \in 1..Len(rx) : CanReadBuffers(caller, k)
       \/ CanReadUnbuffered(caller)
    /\ UNCHANGED <<arrived, taken, offered, sent, cut, hup, engineVars, lockVars>>

\* The slot of readyRead() returns.
ReadyReadReturns ==
    /\ TopIs("ready")
    /\ port' = Left([port EXCEPT !.emitR = FALSE])
    /\ stack' = AfterRead(Pop, Last(stack).then, TRUE)
    /\ UNCHANGED <<rx, arrived, taken, offered, sent, cut, muted, hup, engineVars, lockVars>>

(***************************************************************************)
(* Writing to the driver: flush() of one block and canWriteNotification(). *)
(* The driver accepts k bytes of the block, or fails, and then everything  *)
(* is dropped.                                                             *)
(***************************************************************************)
FlushLeftStopped(po) == setWriteNotificationEnabled(po, FALSE)

FlushLeft(po) ==
    setWriteNotificationEnabled(po, po.wrOn /\ ~RB!IsEmpty(po.writeBuf))

\* Who called flush() goes on: canWriteNotification() ends the wait for
\* bytes written if the buffer has shrunk, close() closes.
AfterFlush(st, then, tmp, po) ==
    IF then = "waitW" /\ po.writeBuf.size < tmp THEN Front(st)
    ELSE IF then \in {"waitR", "waitW"}
      THEN [st EXCEPT ![Len(st)].then = "select"]
    ELSE IF then = "close" THEN Append(st, Frame("closing", "", 0))
    ELSE st

TookBlock(k) ==
    [port EXCEPT !.writeBuf = RB!Free(@, RB!NextDataBlockSize(@))]

\* The driver took k bytes.
Took(k) == [port EXCEPT !.writeBuf = RB!Free(@, k)]

FlushWrites(then, k) ==
    LET block == RB!NextDataBlockSize(port.writeBuf)
        tmp == port.writeBuf.size
        po == Took(k)
    IN  /\ ~RB!IsEmpty(port.writeBuf)
        /\ ~hup
        /\ k \in 0..block
        /\ write(RB!Contents(port.writeBuf), k)
        /\ IF k > 0 /\ ~port.emitW
             THEN /\ port' = [po EXCEPT !.emitW = TRUE]
                  /\ stack' = Append(stack, Frame("written", then, tmp))
             ELSE /\ port' = FlushLeft(po)
                  /\ stack' = AfterFlush(stack, then, tmp, po)
        /\ UNCHANGED cut

FlushFails(then) ==
    LET po == [port EXCEPT !.writeBuf = RB!EmptyRing]
    IN  /\ conf.drops \/ hup
        /\ ~RB!IsEmpty(port.writeBuf)
        /\ port' = IF then \in {"flush", "close"} THEN po ELSE FlushLeft(po)
        /\ stack' = AfterFlush(stack, then, port.writeBuf.size, po)
        /\ cut' = TRUE
        /\ UNCHANGED sent

\* Nothing to write: only canWriteNotification() stops its notifier.
FlushNothing(then) ==
    /\ RB!IsEmpty(port.writeBuf)
    /\ port' = IF then \in {"flush", "close"} THEN port ELSE FlushLeft(port)
    /\ stack' = AfterFlush(stack, then, 0, port)
    /\ UNCHANGED <<sent, cut>>

Flush(then) ==
    /\ \/ \E k \in 0..BlockSize : FlushWrites(then, k)
       \/ FlushFails(then)
       \/ FlushNothing(then)
    /\ UNCHANGED <<rx, arrived, taken, offered, muted, hup, engineVars, lockVars>>

CanWriteNotification(caller) == Flush(caller)

\* The slot of bytesWritten() returns.  An unbuffered write emits without
\* the guard and without flush().
BytesWrittenReturns ==
    LET frame == Last(stack)
        po == FlushLeft([port EXCEPT !.emitW = FALSE])
    IN  /\ TopIs("written")
        /\ port' = IF frame.then = "write" THEN port ELSE po
        /\ stack' = AfterFlush(Pop, frame.then, frame.tmp, po)
        /\ UNCHANGED <<rx, arrived, taken, offered, sent, cut, muted, hup, engineVars, lockVars>>

(***************************************************************************)
(* The event loop: eventFilter() runs the notifications of the enabled     *)
(* notifiers.                                                              *)
(***************************************************************************)
ReadEvent ==
    /\ IsOpen /\ Idle
    /\ port.rdOn
    /\ rx # <<>> \/ hup
    /\ CanReadNotification("event")

WriteEvent ==
    /\ IsOpen /\ Idle
    /\ port.wrOn
    /\ CanWriteNotification("event")

(***************************************************************************)
(* The program: read(), write(), flush(), setReadBufferSize(), reset().    *)
(* readData() enables the read notifier when it is enabled.                *)
(***************************************************************************)
ReadData(n) ==
    /\ InProgram
    /\ IF port.buffered
         THEN LET result == IF n = 1 /\ ~RB!IsEmpty(port.readBuf)
                              THEN RB!GetChar(port.readBuf)
                              ELSE RB!Read(port.readBuf, n)
              IN  /\ ~RB!IsEmpty(port.readBuf)
                  /\ port' = [port EXCEPT !.readBuf = result.ring]
                  /\ taken' = taken \o result.data
                  /\ UNCHANGED rx
         ELSE LET k == IF n < Len(rx) THEN n ELSE Len(rx)
              IN  /\ rx # <<>>
                  /\ taken' = taken \o SubSeq(rx, 1, k)
                  /\ read(k)
                  /\ UNCHANGED port
    /\ UNCHANGED <<stack, arrived, offered, sent, cut, muted, hup, engineVars, lockVars>>

NextBytes(n) == [i \in 1..n |-> offered + i]

WriteData(n) ==
    /\ InProgram
    /\ IF port.buffered
         THEN /\ offered + n <= conf.bytesOut
              /\ offered' = offered + n
              /\ port' = [port EXCEPT !.writeBuf = RB!Put(@, NextBytes(n)),
                                      !.wrOn = TRUE]
              /\ UNCHANGED <<sent, stack>>
         ELSE \E k \in 0..n :
              /\ Room
              /\ offered + n <= conf.bytesOut
              /\ offered' = offered + k
              /\ write(NextBytes(n), k)
              /\ stack' = Append(stack, Frame("written", "write", 0))
              /\ UNCHANGED port
    /\ UNCHANGED <<rx, arrived, taken, cut, muted, hup, engineVars, lockVars>>

FlushCalled == InProgram /\ Room /\ Flush("flush")

SetReadBufferSize(size) ==
    /\ InProgram
    /\ port.readMax # size
    /\ port' = [port EXCEPT
                  !.readMax = size,
                  !.rdOn = @ \/ (~port.called
                                 /\ (size = 0 \/ port.readBuf.size < size))]
    /\ UNCHANGED <<stack, rx, arrived, taken, offered, sent, cut, muted, hup, engineVars, lockVars>>

\* clearBuffers(): what was read and not taken is thrown away, as is what
\* was written and not sent.
ClearBuffers(po, input) ==
    /\ port' = [po EXCEPT !.readBuf = RB!EmptyRing, !.writeBuf = RB!EmptyRing]
    /\ taken' = taken \o RB!Contents(po.readBuf) \o input
    /\ cut' = (cut \/ ~RB!IsEmpty(po.writeBuf))

Reset ==
    /\ conf.drops
    /\ InProgram
    /\ ClearBuffers(port, rx)
    /\ rx' = <<>>
    /\ UNCHANGED <<stack, arrived, offered, sent, muted, hup, engineVars, lockVars>>

(***************************************************************************)
(* The waits.  waitForReadyRead() stops the read notifier and does not     *)
(* start it again.  The frame of a wait tells what it does next: select(), *)
(* or what select() found ready, reading first.                            *)
(***************************************************************************)
WaitForReadyRead ==
    /\ InProgram /\ Room
    /\ port.buffered => RB!IsEmpty(port.readBuf)
    /\ stack' = Append(stack, Frame("waitR", "select", 0))
    /\ port' = setReadNotificationEnabled(port, FALSE)
    /\ muted' = (muted \/ port.rdOn)
    /\ UNCHANGED <<rx, arrived, taken, offered, sent, cut, hup, engineVars, lockVars>>

WaitForBytesWritten ==
    /\ InProgram /\ Room
    /\ port.buffered => ~RB!IsEmpty(port.writeBuf)
    /\ stack' = Append(stack, Frame("waitW", "select", 0))
    /\ UNCHANGED <<port, rx, arrived, taken, offered, sent, cut, muted, hup, engineVars, lockVars>>

Selecting(wait) == TopIs(wait) /\ Last(stack).then = "select"

\* Input or a hang-up is always found; the driver takes output when it can.
Select(wait) ==
    /\ Selecting(wait)
    /\ \E found \in {"read", "write", "both"} :
         /\ found = "write" <=> rx = <<>> /\ ~hup
         /\ found # "read" => ~RB!IsEmpty(port.writeBuf)
         /\ stack' = [stack EXCEPT ![Len(stack)].then = found]
    /\ UNCHANGED <<port, rx, arrived, taken, offered, sent, cut, muted, hup, engineVars, lockVars>>

SelectAgain(wait) ==
    /\ Selecting(wait)
    /\ rx = <<>> /\ ~hup
    /\ UNCHANGED portVars

\* select() finds nothing ready before the time is up.
SelectTimeout(wait) ==
    /\ Selecting(wait)
    /\ rx = <<>> /\ ~hup
    /\ stack' = Pop
    /\ UNCHANGED <<port, rx, arrived, taken, offered, sent, cut, muted, hup, engineVars, lockVars>>

RoundOfReading(wait) ==
    TopIs(wait) /\ Last(stack).then \in {"read", "both"} /\ CanReadNotification(wait)
RoundOfWriting(wait) ==
    TopIs(wait) /\ Last(stack).then = "write" /\ CanWriteNotification(wait)
Round(wait) == RoundOfReading(wait) \/ RoundOfWriting(wait)

(***************************************************************************)
(* open() and close() of Me, and its death; the driver and the device.     *)
(***************************************************************************)
\* QIODevice::open() and the notifiers, once the engine has the port.
Open ==
    /\ Idle
    /\ OpenSettings(Me)
    /\ port' = [port EXCEPT !.readBuf = RB!EmptyRing, !.writeBuf = RB!EmptyRing,
                            !.rdOn = TRUE, !.wrOn = TRUE,
                            !.buffered = conf.buffered]
    /\ UNCHANGED <<stack, rx, arrived, taken, offered, sent, cut, muted, hup>>

\* close() flushes once ...
CloseFlushes ==
    /\ IsOpen /\ Idle
    /\ conf.closes
    /\ Flush("close")

\* ... and throws away what is left, before the engine closes.
Close ==
    /\ TopIs("closing")
    /\ CloseSettings(Me)
    /\ ClearBuffers([port EXCEPT !.rdOn = FALSE, !.wrOn = FALSE], rx)
    /\ rx' = <<>>
    /\ stack' = Pop
    /\ UNCHANGED <<arrived, offered, sent, muted, hup>>

MeCrashes ==
    /\ CrashSettings(Me)
    /\ port' = NewPort
    /\ stack' = <<>>
    /\ taken' = taken \o RB!Contents(port.readBuf) \o rx
    /\ rx' = <<>>
    /\ cut' = TRUE
    /\ UNCHANGED <<arrived, offered, sent, muted, hup>>

\* open() and close() of the other processes, and the steps inside open()
\* and close() of Me that end neither.
OtherStep(p) ==
    /\ \/ PlainStep(p) \/ LeakStep(p)
       \/ p # Me /\ (OpenSettings(p) \/ CloseSettings(p) \/ CrashSettings(p))
       \/ Setter(p)
    /\ p \in conf.users
    /\ p = Me => Idle
    /\ UNCHANGED ioVars

Arrive ==
    /\ IsOpen
    /\ ~hup
    /\ arrived < conf.bytesIn
    /\ arrived' = arrived + 1
    /\ rx' = Append(rx, arrived + 1)
    /\ UNCHANGED <<port, stack, taken, offered, sent, cut, muted, hup, engineVars, lockVars>>

\* From now on the device is always ready for reading and has nothing: what the
\* driver held is lost, and it was the last to arrive.
Unplug ==
    /\ conf.unplugs
    /\ IsOpen
    /\ ~hup
    /\ hup' = TRUE
    /\ arrived' = arrived - Len(rx)
    /\ rx' = <<>>
    /\ UNCHANGED <<port, stack, taken, offered, sent, cut, muted, engineVars, lockVars>>

Program ==
    \/ \E n \in 1..2 : ReadData(n) \/ WriteData(n)
    \/ FlushCalled \/ Reset
    \/ \E size \in conf.sizes : SetReadBufferSize(size)
    \/ WaitForReadyRead \/ WaitForBytesWritten

Waiting ==
    \E wait \in {"waitR", "waitW"} :
        Select(wait) \/ SelectTimeout(wait) \/ Round(wait)

SlotReturns == ReadyReadReturns \/ BytesWrittenReturns

PortNext ==
    \/ ReadEvent \/ WriteEvent
    \/ Program \/ Waiting \/ SlotReturns
    \/ Open \/ CloseFlushes \/ Close \/ MeCrashes
    \/ \E p \in Procs : OtherStep(p)
    \/ Arrive \/ Unplug

PortSpec == PortInit /\ [][PortNext]_portVars

DriverReady ==
    \E wait \in {"waitR", "waitW"} :
        Select(wait) /\ Last(stack').then \in {"write", "both"}
DriverTakes ==
    /\ \/ WriteEvent
       \/ \E wait \in {"waitR", "waitW"} : RoundOfWriting(wait)
    /\ port'.writeBuf # port.writeBuf

\* Calls of select() return, slots of the program return, and a driver that
\* is asked again and again takes some output.
PortFairness ==
    /\ WF_portVars(Waiting)
    /\ SF_portVars(SlotReturns)
    /\ SF_portVars(DriverReady)
    /\ SF_portVars(DriverTakes)
    /\ WF_portVars(Close)

PortFairSpec == PortSpec /\ PortFairness

-----------------------------------------------------------------------------
Upto(n) == [i \in 1..n |-> i]

\* Every byte that arrives is read once and in order, or thrown away by
\* reset(), close() or the end of the process, whatever the ring buffer, the
\* limit on it, partial reads and nested notifications do.
InOrder == taken \o RB!Contents(port.readBuf) \o rx = Upto(arrived)

\* What the driver gets is what was written, in order and without repetition;
\* nothing is missing unless it was dropped.
OutOrder ==
    LET out == sent \o RB!Contents(port.writeBuf)
    IN  /\ \A i \in 1..Len(out) - 1 : out[i] < out[i + 1]
        /\ ~cut => out = Upto(offered)

\* The buffers of every reachable state are well formed and behave like
\* queues of bytes whatever is called next.
RingsAreQueues ==
    \A ring \in {port.readBuf, port.writeBuf} :
        RB!WellFormed(ring) /\ RB!QueueAlgebra(ring, {Newline}, Newline)

\* No byte is lost, repeated or moved on its way through the object, in either
\* direction, through buffers that may be in any reachable state.
BytesKept == InOrder /\ OutOrder /\ RingsAreQueues

\* readyRead() is only lost for good by waitForReadyRead() or a full buffer:
\* the state that nested notifications save and restore never stops it.
MutedByWaitOnly == IsOpen /\ Idle /\ ~port.rdOn => muted

\* A wait of a buffered port without a limit ends, whatever slots run inside
\* it, as long as the device is there.
WaitEnds ==
    \A d \in 1..MaxDepth :
        Len(stack) >= d /\ stack[d].kind \in {"waitR", "waitW"} /\ port.buffered
            ~> Len(stack) < d \/ hup \/ port.readMax > 0

\* What was written gets out of the write buffer by itself.
WriteDrains == ~RB!IsEmpty(port.writeBuf) ~> RB!IsEmpty(port.writeBuf)
=============================================================================
