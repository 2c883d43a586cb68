----------------------------- MODULE EncoderBoard -----------------------------
(***************************************************************************)
(* The kernel module of the encoder boards: a read of the device takes the *)
(* four bytes of the position one after the other, while the axis may      *)
(* turn, and a write puts a number of four digits on the display of the    *)
(* board.  The two boards, alpha and beta, do not differ but in their      *)
(* address.  The 8255 of the board drives 0 when it has been configured.   *)
(***************************************************************************)
EXTENDS Integers, Sequences

CONSTANTS
    Shafts,         \* the positions of the encoder, of 25 bits
    DisplayValues,  \* what is written to the device
    MaxMoves        \* bound on the movements of the axis

Has25Bits(s) == s \in Nat /\ s < 33554432

ASSUME BoardAssumption ==
    /\ \A s \in Shafts : Has25Bits(s)
    /\ DisplayValues \subseteq Int
    /\ MaxMoves \in Nat

VARIABLES
    boardPc,    \* "closed", "open" or the number of bytes that are read
    shaft,      \* the position of the encoder
    bytes,      \* dig1 .. dig4
    angle,      \* what read_bta() returned
    ports,      \* the two bytes of the display
    displayed,  \* history: the last number that was written and can be shown
    seen,       \* history: the positions since the read has begun
    moves       \* the movements so far

boardVars == <<boardPc, shaft, bytes, angle, ports, displayed, seen, moves>>

Abs(v) == IF v < 0 THEN -v ELSE v

(***************************************************************************)
(* write_bta(): three digits, and a fourth that is a sign, a 1 or both.    *)
(***************************************************************************)
dig1(v) == Abs(v) % 10
dig2(v) == ((Abs(v) % 100) - dig1(v)) \div 10
dig3(v) == ((Abs(v) % 1000) - dig2(v) * 10 - dig1(v)) \div 100

dig4BeyondThousand(v) ==
    IF v >= 0 THEN IF v > 1000 THEN 0 ELSE 4
    ELSE IF v < -1000 THEN 3 ELSE 1
dig4(v) ==
    IF v >= 0 THEN IF v >= 1000 THEN 0 ELSE 4
    ELSE IF v <= -1000 THEN 3 ELSE 1

Nibbles(low, high) == low + 16 * high

Write(v) ==
    /\ boardPc = "open"
    /\ IF Abs(v) >= 2000 THEN UNCHANGED <<ports, displayed>>
       ELSE /\ ports' = <<Nibbles(dig1(v), dig2(v)), Nibbles(dig3(v), dig4(v))>>
            /\ displayed' = v
    /\ UNCHANGED <<boardPc, shaft, bytes, angle, seen, moves>>

(***************************************************************************)
(* read_bta(): the bytes in their order; of the last one a single bit.     *)
(***************************************************************************)
Weight == <<1, 256, 65536, 16777216>>
Byte(position, n) == (position \div Weight[n]) % 256
inb(n) == IF n = 4 THEN Byte(shaft, 4) % 2 ELSE Byte(shaft, n)

BeginRead ==
    /\ boardPc = "open"
    /\ boardPc' = "reading"
    /\ bytes' = <<>>
    /\ seen' = {shaft}
    /\ UNCHANGED <<shaft, angle, ports, displayed, moves>>

ReadByte ==
    /\ boardPc = "reading" /\ Len(bytes) < 4
    /\ bytes' = Append(bytes, inb(Len(bytes) + 1))
    /\ UNCHANGED <<boardPc, shaft, angle, ports, displayed, seen, moves>>

EndRead ==
    /\ boardPc = "reading" /\ Len(bytes) = 4
    /\ angle' = bytes[4] * Weight[4] + bytes[3] * Weight[3] + bytes[2] * Weight[2] + bytes[1]
    /\ boardPc' = "open"
    /\ UNCHANGED <<shaft, bytes, ports, displayed, seen, moves>>

\* init_bta()
OpenBoard ==
    /\ boardPc = "closed"
    /\ boardPc' = "open"
    /\ ports' = <<0, 0>> /\ displayed' = 1000
    /\ UNCHANGED <<shaft, bytes, angle, seen, moves>>

ReleaseBoard ==
    /\ boardPc = "open"
    /\ boardPc' = "closed"
    /\ UNCHANGED <<shaft, bytes, angle, ports, displayed, seen, moves>>

MoveShaft ==
    /\ moves < MaxMoves
    /\ moves' = moves + 1
    /\ \E position \in Shafts :
         /\ shaft' = position
         /\ seen' = seen \union {position}
    /\ UNCHANGED <<boardPc, bytes, angle, ports, displayed>>

BoardInit ==
    /\ boardPc = "closed"
    /\ shaft \in Shafts
    /\ bytes = <<>> /\ angle = 0
    /\ ports = <<0, 0>> /\ displayed = 1000
    /\ seen = {} /\ moves = 0

BoardNext ==
    \/ OpenBoard \/ ReleaseBoard
    \/ BeginRead \/ ReadByte \/ EndRead
    \/ MoveShaft
    \/ \E v \in DisplayValues : Write(v)

BoardSpec == BoardInit /\ [][BoardNext]_boardVars

-----------------------------------------------------------------------------
\* What the display shows by its four digits.
Shown ==
    LET low == (ports[1] % 16) + 10 * (ports[1] \div 16) + 100 * (ports[2] % 16)
        first == ports[2] \div 16
        size == IF first \in {0, 3} THEN 1000 + low ELSE low
    IN  IF first \in {1, 3} THEN -size ELSE size

\* The display shows the last number that it can show, and a read gives the
\* position, also the bit above the third byte, if the axis stood still.
BoardTrue ==
    /\ Shown = displayed
    /\ boardPc = "open" /\ Len(bytes) = 4 /\ seen = {shaft} => angle = shaft
=============================================================================
