----------------------------- MODULE ArduinoLink -----------------------------
(***************************************************************************)
(* The serial line between the plugins and the Arduino board: set_relay()  *)
(* of Alpha, Beta and Angles, the exchanges of Pressure and Temperature,   *)
(* and the firmware (src/arduino/relay/relay.ino).  Commands and replies   *)
(* are eight bytes, "$CIXXXX\n"; the line may lose some of them, and a     *)
(* write may fail half way.  Whoever uses the board does it in one thread, *)
(* so there is one command at a time.                                      *)
(*                                                                         *)
(* The reads wait two seconds for a byte (VTIME) and the board answers in  *)
(* milliseconds: a read times out only when nothing is on its way.  After  *)
(* a failure, or the destructor's unanswered command, the next exchange    *)
(* belongs to the next run, which a click starts: by then the line is      *)
(* quiet and what the board answered has arrived, to be flushed.           *)
(***************************************************************************)
EXTENDS Naturals, Sequences, SequencesExt

CONSTANTS
    Relays,       \* their characters in a command
    Pins,         \* analogue inputs
    MuxChannels,  \* inputs of the pressure multiplexer
    Digits,
    Readings,     \* what an analogue read can answer, four digits
    Idle,
    MaxTries,     \* 5 in all the plugins
    MaxLost       \* bound on the faults of the line

Nul == ""

\* The characters of commands and answers
Char == {Nul, "$", "R", "A", "C", "S", "E", "D", "o", "n", "f", "x", "0", "\n"}
        \union Relays \union Pins \union MuxChannels \union Digits

\* '$' and '\n' are only the ends of a command.
ASSUME LinkAssumption ==
    /\ MaxTries \in Nat
    /\ MaxLost \in Nat
    /\ \A c \in {Nul, "$", "\n"} : c \notin Relays \union Pins \union MuxChannels
    /\ "\n" \notin Digits
    /\ Readings \subseteq [1 .. 4 -> Digits]
    /\ Idle \notin [kind : {"relay", "ask"}, frame : Seq(Char)]
    /\ Idle \notin [relay : Relays, command : {"on", "off"}]
    /\ Idle \notin [1 .. 8 -> Char]

VARIABLES
    down,         \* bytes written and not yet at the board
    uart,         \* bytes received by the board and not yet read
    on,           \* relays that are on
    mux,          \* the multiplexer: its address and whether it is enabled
    up,           \* bytes of replies the host has not read
    op,           \* the exchange under way, or Idle
    hpc,          \* where the host is in it: "idle", "try", "read", "check"
    tries,
    buffer_read,
    pressure,     \* the pressure object: "closed", "opening" or "open"
    returned,     \* how the last exchange of each kind ended
    accepted,     \* buffer_read of the last analogue reading taken, or Idle
    lost          \* bytes lost, and commands cut short, so far (history)

boardSide == <<uart, on, mux>>
hostSide  == <<op, hpc, tries, buffer_read, pressure, returned, accepted>>
vars == <<down, boardSide, up, hostSide, lost>>

-----------------------------------------------------------------------------
Exchange(c0, c1, a) ==
    [kind  |-> IF c0 = "R" THEN "relay" ELSE "ask",
     frame |-> <<"$", c0, c1, a[1], a[2], a[3], a[4], "\n">>]

SetRelay(r, command) ==
    Exchange("R", r, IF command = "on" THEN <<"o", "n", "n", "n">>
                                       ELSE <<"o", "f", "f", "f">>)
ReadAnalog(pin)  == Exchange("A", pin, <<"x", "x", "x", "x">>)
SelectFirstItem(n) == Exchange("C", "S", <<CHOOSE m \in MuxChannels : TRUE, "x", "x", "x">>)
SelectChannel(n) == Exchange("C", "S", <<n, "x", "x", "x">>)
EnableMux        == Exchange("C", "E", <<"x", "x", "x", "x">>)
DisableMux       == Exchange("C", "D", <<"x", "x", "x", "x">>)

EmptyBuffer == [i \in 1 .. 8 |-> Nul]
Results == {"none", "ok", "write", "timeout", "tries"}

-----------------------------------------------------------------------------
(* The line                                                                *)

Deliver ==
    /\ down # << >>
    /\ down' = << >>
    /\ uart' = uart \o down
    /\ UNCHANGED <<on, mux, up, hostSide, lost>>

Lose ==
    /\ lost < MaxLost
    /\ lost' = lost + 1
    /\ \/ /\ \E i \in DOMAIN down : down' = RemoveAt(down, i)
          /\ UNCHANGED up
       \/ /\ \E i \in DOMAIN up : up' = RemoveAt(up, i)
          /\ UNCHANGED down
    /\ UNCHANGED <<boardSide, hostSide>>

-----------------------------------------------------------------------------
(* The firmware: loop()                                                    *)

\* Anything but '$' is skipped.
Skip ==
    /\ uart # << >>
    /\ Head(uart) # "$"
    /\ uart' = Tail(uart)
    /\ UNCHANGED <<down, on, mux, up, hostSide, lost>>

\* After a '$', the next seven bytes are the command, whatever they are.
Command == Len(uart) >= 8 /\ Head(uart) = "$"
Cmd(i)  == uart[i + 1]

\* etx == '\n'
EndsAnyhow == TRUE
Ends == Cmd(7) = "\n"

Discard ==
    /\ Command
    /\ ~Ends
    /\ uart' = SubSeq(uart, 9, Len(uart))
    /\ UNCHANGED <<down, on, mux, up, hostSide, lost>>

\* if(cmd0 == 'R'): the echo is sent also when neither "on" nor "off" came
SwitchRelay ==
    /\ Cmd(1) = "R"
    /\ on' = IF Cmd(2) \notin Relays THEN on
             ELSE IF Cmd(3) = "o" /\ Cmd(4) = "n" THEN on \union {Cmd(2)}
             ELSE IF Cmd(3) = "o" /\ Cmd(4) = "f" /\ Cmd(5) = "f" THEN on \ {Cmd(2)}
             ELSE on
    /\ up' = IF Cmd(2) \in Relays THEN up \o SubSeq(uart, 1, 8) ELSE up
    /\ UNCHANGED mux

AnswerAnalog ==
    /\ Cmd(1) = "A"
    /\ IF Cmd(2) \in Pins
       THEN \E v \in Readings :
                up' = up \o <<"$", "A", Cmd(2), v[1], v[2], v[3], v[4], "\n">>
       ELSE UNCHANGED up
    /\ UNCHANGED <<on, mux>>

\* A channel out of range gets no answer.
ChangeMux ==
    /\ Cmd(1) = "C"
    /\ mux' = CASE Cmd(2) = "E" -> [mux EXCEPT !.enabled = TRUE]
                [] Cmd(2) = "D" -> [mux EXCEPT !.enabled = FALSE]
                [] Cmd(2) = "S" /\ Cmd(3) \in MuxChannels ->
                      [mux EXCEPT !.address = Cmd(3)]
                [] OTHER -> mux
    /\ up' = CASE Cmd(2) \in {"E", "D"} ->
                      up \o <<"$", "C", Cmd(2), "x", "x", "x", "x", "\n">>
               [] Cmd(2) = "S" /\ Cmd(3) \in MuxChannels ->
                      up \o <<"$", "C", "S", "0", "0", "0", Cmd(3), "\n">>
               [] OTHER -> up
    /\ UNCHANGED on

Ignore == Cmd(1) \notin {"R", "A", "C"} /\ UNCHANGED <<on, mux, up>>

Execute ==
    /\ Command
    /\ Ends
    /\ uart' = SubSeq(uart, 9, Len(uart))
    /\ SwitchRelay \/ AnswerAnalog \/ ChangeMux \/ Ignore
    /\ UNCHANGED <<down, hostSide, lost>>

Firmware == Skip \/ Discard \/ Execute

-----------------------------------------------------------------------------
(* The host: one exchange                                                  *)

\* Nothing is on its way, and the board waits for more bytes.
Quiet == /\ down = << >>
         /\ uart # << >> => Head(uart) = "$" /\ Len(uart) < 8

Begin(x) ==
    /\ op' = x
    /\ hpc' = "try"
    /\ tries' = 0

BeginCall ==
    /\ hpc = "idle"
    /\ Quiet
    /\ \/ \E r \in Relays, command \in {"on", "off"} : Begin(SetRelay(r, command))
       \/ \E pin \in Pins : Begin(ReadAnalog(pin))
    /\ buffer_read' = EmptyBuffer
    /\ UNCHANGED <<down, boardSide, up, pressure, returned, accepted, lost>>

\* PressureHardware's constructor
OpenPressure ==
    /\ hpc = "idle"
    /\ Quiet
    /\ pressure.state = "closed"
    /\ \E n \in MuxChannels :
          /\ Begin(SelectChannel(n))
          /\ pressure' = [state |-> "opening", channel |-> n]
    /\ buffer_read' = EmptyBuffer
    /\ UNCHANGED <<down, boardSide, up, returned, accepted, lost>>

\* Its destructor writes and does not wait for an answer.
ClosePressure ==
    /\ hpc = "idle"
    /\ Quiet
    /\ pressure.state = "open"
    /\ pressure' = [pressure EXCEPT !.state = "closed"]
    /\ down' = DisableMux.frame
    /\ UNCHANGED <<boardSide, up, op, hpc, tries, buffer_read, returned,
                   accepted, lost>>

\* tcflush(TCIOFLUSH) drops what has arrived.
Write ==
    /\ hpc = "try"
    /\ down' = op.frame
    /\ up' = << >>
    /\ hpc' = "read"
    /\ UNCHANGED <<boardSide, op, tries, buffer_read, pressure, returned,
                   accepted, lost>>

\* A constructor that throws leaves no object.
HalfOpened == pressure
Unopened == IF pressure.state = "opening"
            THEN [pressure EXCEPT !.state = "closed"] ELSE pressure

\* What an exception of the kind e leaves
Fail(e) ==
    /\ hpc' = "idle"
    /\ op' = Idle
    /\ returned' = [returned EXCEPT ![op.kind] = e]
    /\ pressure' = Unopened

WriteFails ==
    /\ hpc = "try"
    /\ \/ down' = << >> /\ UNCHANGED lost
       \/ /\ lost < MaxLost
          /\ lost' = lost + 1
          /\ \E n \in 1 .. 7 : down' = SubSeq(op.frame, 1, n)
    /\ up' = << >>
    /\ Fail("write")
    /\ UNCHANGED <<boardSide, tries, buffer_read, accepted>>

\* The first n bytes of up go to the start of buffer_read.
Received(n, terminated) ==
    [i \in 1 .. 8 |-> IF i <= n THEN up[i]
                      ELSE IF terminated /\ i = n + 1 THEN Nul
                      ELSE buffer_read[i]]

LineEnds == {n \in DOMAIN up : up[n] = "\n"}

GetLine ==
    /\ hpc = "read"
    /\ \E n \in LineEnds :
          /\ \A m \in LineEnds : n <= m
          /\ buffer_read' = Received(n, TRUE)
          /\ up' = SubSeq(up, n + 1, Len(up))
    /\ hpc' = "check"
    /\ UNCHANGED <<down, boardSide, op, tries, pressure, returned, accepted,
                   lost>>

\* Two seconds without a byte: read() returns 0.
Silence == Quiet /\ LineEnds = {}

\* set_relay() throws; the reads ignore what serialport_read_until returns.
KeepReading == hpc' = "read" /\ UNCHANGED <<op, returned, pressure>>
TimedOut ==
    IF op.kind = "relay" THEN Fail("timeout")
    ELSE hpc' = "check" /\ UNCHANGED <<op, returned, pressure>>

Timeout ==
    /\ hpc = "read"
    /\ Silence
    /\ up' = << >>
    /\ buffer_read' = Received(Len(up), FALSE)
    /\ TimedOut
    /\ UNCHANGED <<down, boardSide, tries, accepted, lost>>

\* strncmp over 8 characters for a relay, over 3 for the others
Compared(x) == IF x.kind = "relay" THEN 8 ELSE 3
Matches == \A i \in 1 .. Compared(op) : buffer_read[i] = op.frame[i]

\* The constructor goes on with the second command.
EnablingNever == FALSE
Enabling == pressure.state = "opening" /\ op.frame[3] = "S"

Succeed ==
    /\ hpc = "check"
    /\ Matches
    /\ IF Enabling
       THEN Begin(EnableMux) /\ UNCHANGED <<pressure, returned>>
       ELSE /\ op' = Idle
            /\ hpc' = "idle"
            /\ returned' = [returned EXCEPT ![op.kind] = "ok"]
            /\ pressure' = IF pressure.state = "opening"
                           THEN [pressure EXCEPT !.state = "open"] ELSE pressure
            /\ UNCHANGED tries
    /\ accepted' = IF op.frame[2] = "A" THEN buffer_read ELSE Idle
    /\ UNCHANGED <<down, boardSide, up, buffer_read, lost>>

CountedTwice == tries + 2
Counted == tries + 1

Retry ==
    /\ hpc = "check"
    /\ ~Matches
    /\ tries' = Counted
    /\ IF tries' > MaxTries THEN Fail("tries")
       ELSE hpc' = "try" /\ UNCHANGED <<op, returned, pressure>>
    /\ UNCHANGED <<down, boardSide, up, buffer_read, accepted, lost>>

Host == \/ Write \/ WriteFails \/ GetLine \/ Timeout \/ Succeed \/ Retry

-----------------------------------------------------------------------------
Init ==
    /\ down = << >>
    /\ uart = << >>
    /\ on = {}
    /\ mux \in [address : MuxChannels, enabled : {FALSE}]
    /\ up = << >>
    /\ op = Idle
    /\ hpc = "idle"
    /\ tries = 0
    /\ buffer_read = EmptyBuffer
    /\ pressure = [state |-> "closed", channel |-> mux.address]
    /\ returned = [kind \in {"relay", "ask"} |-> "none"]
    /\ accepted = Idle
    /\ lost = 0

Next == \/ Deliver \/ Lose \/ Firmware
        \/ BeginCall \/ OpenPressure \/ ClosePressure \/ Host

Spec == Init /\ [][Next]_vars

\* The line delivers what it does not lose, and both processors run.
FairSpec == Spec /\ WF_vars(Deliver) /\ WF_vars(Firmware) /\ WF_vars(Host)

-----------------------------------------------------------------------------
(* Properties                                                              *)

LinkTypeOK ==
    /\ down \in Seq(Char) /\ Len(down) <= 8
    /\ uart \in Seq(Char) /\ Len(uart) <= 15
    /\ on \subseteq Relays
    /\ mux \in [address : MuxChannels, enabled : BOOLEAN]
    /\ up \in Seq(Char)
    /\ hpc \in {"idle", "try", "read", "check"}
    /\ op = Idle <=> hpc = "idle"
    /\ tries \in 0 .. MaxTries + 1
    /\ buffer_read \in [1 .. 8 -> Char]
    /\ pressure \in [state : {"closed", "opening", "open"}, channel : MuxChannels]
    /\ pressure.state = "opening" => hpc # "idle"
    /\ returned \in [{"relay", "ask"} -> Results]
    /\ lost \in 0 .. MaxLost

(* set_relay() keeps the promises of RelayBoard, whatever other exchanges, *)
(* failures and losses happen in between.                                  *)
Board == INSTANCE RelayBoard WITH
    call <- IF op # Idle /\ op.kind = "relay"
            THEN [relay |-> op.frame[3],
                  command |-> IF op.frame[5] = "n" THEN "on" ELSE "off"]
            ELSE Idle,
    returned <- IF returned["relay"] \in {"none", "ok"} THEN returned["relay"]
                ELSE "error"

RelayContract == Board!Spec

(* A reading that is given up, and a relay command that times out, cost the*)
(* line bytes: a lost byte spoils at most two commands, the one it belongs *)
(* to and the next, whose start ends the first; the six attempts of a read *)
(* survive any two losses.  Without one, a reading taken is a whole answer *)
(* of the board.  The state stays well formed meanwhile.                   *)
LossTolerance ==
    /\ LinkTypeOK
    /\ returned["ask"] = "tries" => 2 * lost > MaxTries
    /\ returned["relay"] = "timeout" => lost >= 1
    /\ accepted # Idle /\ lost = 0 =>
          /\ SubSeq(accepted, 4, 7) \in Readings
          /\ accepted[8] = "\n"

(* While the pressure object is open the multiplexer shows its channel.    *)
ChannelSelected ==
    pressure.state = "open" =>
        mux = [address |-> pressure.channel, enabled |-> TRUE]

(* Every exchange ends: it succeeds or throws.                             *)
ExchangeEnds == hpc # "idle" ~> hpc = "idle"
=============================================================================
