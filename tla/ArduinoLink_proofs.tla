-------------------------- MODULE ArduinoLink_proofs --------------------------
(***************************************************************************)
(* What the exchanges with the board promise over a line that loses bytes: *)
(* LossTolerance for any number of losses, and for two of them at most     *)
(* that set_relay() keeps the contract of RelayBoard (RelayContract) and   *)
(* that the multiplexer shows the channel of the pressure object.          *)
(***************************************************************************)
EXTENDS ArduinoLink, SequenceTheorems, TLAPS

\* Names that hide from the provers the operators, and the number, that they
\* would rewrite
Cat(s, t)  == s \o t
Drop(s, n) == SubSeq(s, n + 1, Len(s))
Take(s, n) == SubSeq(s, 1, n)

FrameLen == 8

\* The bytes on their way to the firmware.
Line == Cat(uart, down)

NoStart(s) == \A i \in 1 .. Len(s) : s[i] # "$"

\* The last frame that was written, as far as it may still be on the line.
Sent == IF op = Idle THEN DisableMux.frame ELSE op.frame

RelayCalls == {SetRelay(r, c) : r \in Relays, c \in {"on", "off"}}
AnalogReads == {ReadAnalog(p) : p \in Pins}

OpInv ==
    hpc # "idle" =>
        IF pressure.state = "opening"
        THEN op \in {SelectChannel(pressure.channel), EnableMux}
        ELSE op \in RelayCalls \union AnalogReads

\* A frame is only written when the board has taken the last one, which an
\* answer, or silence, tells.
LenInv ==
    /\ down # << >> => Len(uart) <= 7
    /\ hpc \in {"try", "check"} => down = << >> /\ Len(uart) <= 7
    /\ hpc = "read" /\ up # << >> => down = << >> /\ Len(uart) <= 7

\* What it has not taken by then waits for bytes, or is no command at all.
SettledInv ==
    /\ hpc \in {"try", "check"} =>
          NoStart(uart) \/ (Len(uart) >= 1 /\ uart[1] = "$")
    /\ hpc = "read" /\ up # << >> => NoStart(uart)

TriesInv == hpc # "idle" => tries <= MaxTries

\* The firmware cannot get stuck in what is on the line: it holds eight bytes
\* from every '$' on.
NoJam == \A i \in 1 .. Len(Line) : Line[i] = "$" => i + 7 <= Len(Line)

JamInv == NoJam \/ lost >= 1

\* b bytes of former frames, whose end is missing or whose start is, and then
\* what is left of the last one.
Remains(b) ==
    /\ b <= Len(Line) /\ Len(Line) <= b + 8
    /\ down # << >> => b = Len(uart)
    /\ \/ b >= 1 /\ Line[1] = "$" /\ lost >= 1
       \/ \A i \in 1 .. b : Line[i] # "$"
    /\ \A i \in b + 2 .. Len(Line) : Line[i] # "$"
    /\ \A i \in b + 1 .. Len(Line) - 1 : Line[i] # "\n"
    /\ Len(Line) = b + 8 => \A i \in 1 .. 8 : Line[b + i] = Sent[i]
    /\ Len(Line) = b + 7 /\ Line[b + 1] # "$" /\ Line[b + 7] = "\n" =>
          \A i \in 1 .. 7 : Line[b + i] = Sent[i + 1]
    /\ Len(Line) > b /\ Line[Len(Line)] = "\n" =>
          /\ lost >= 8 - (Len(Line) - b) + (IF b >= 1 /\ Line[1] = "$" THEN 1 ELSE 0)
          /\ op = Idle => pressure.state = "closed"

LineInv == \E b \in 0 .. 7 : Remains(b)

-----------------------------------------------------------------------------
\* What it costs to spoil a try: every lost byte spoils at most two, its own
\* and, when the firmware gets stuck, the next.
Credit(n) == (NoJam /\ n <= 2 * lost) \/ n + 1 <= 2 * lost

\* An answer of the board that nothing happened to.
Whole(s) ==
    /\ s[8] = "\n"
    /\ \A i \in 1 .. 7 : s[i] # "\n"
    /\ \A i \in 1 .. Compared(op) : s[i] = op.frame[i]
    /\ op.frame[2] = "A" => \E v \in Readings : \A i \in 1 .. 4 : s[i + 3] = v[i]

Clean ==
    \/ /\ up = << >>
       /\ \E b \in 0 .. 7 : /\ Len(Line) = b + 8
                            /\ \A i \in 1 .. b : Line[i] # "$"
                            /\ \A i \in 1 .. 8 : Line[b + i] = Sent[i]
    \/ Len(up) = FrameLen /\ Whole(up)

CreditInv ==
    /\ hpc = "try" => Credit(tries)
    /\ hpc = "read" => (Clean /\ tries <= 2 * lost) \/ Credit(tries + 1)
    /\ hpc = "check" => (Whole(buffer_read) /\ tries <= 2 * lost) \/ Credit(tries + 1)

LinkInv == /\ LossTolerance /\ OpInv /\ LenInv /\ SettledInv /\ TriesInv
           /\ JamInv /\ LineInv /\ CreditInv

-----------------------------------------------------------------------------
(* Commands                                                                *)

LEMMA Chars ==
    /\ {Nul, "$", "R", "A", "C", "S", "E", "D", "o", "n", "f", "x", "0", "\n"}
           \subseteq Char
    /\ Relays \subseteq Char /\ Pins \subseteq Char
    /\ MuxChannels \subseteq Char /\ Digits \subseteq Char
BY DEF Char

\* The five commands, character by character.
LEMMA Frames ==
    /\ \A r \in Relays :
          /\ SetRelay(r, "on") = [kind |-> "relay",
                frame |-> <<"$", "R", r, "o", "n", "n", "n", "\n">>]
          /\ SetRelay(r, "off") = [kind |-> "relay",
                frame |-> <<"$", "R", r, "o", "f", "f", "f", "\n">>]
    /\ \A p \in Pins : ReadAnalog(p) = [kind |-> "ask",
                frame |-> <<"$", "A", p, "x", "x", "x", "x", "\n">>]
    /\ \A n \in MuxChannels : SelectChannel(n) = [kind |-> "ask",
                frame |-> <<"$", "C", "S", n, "x", "x", "x", "\n">>]
    /\ EnableMux = [kind |-> "ask",
                frame |-> <<"$", "C", "E", "x", "x", "x", "x", "\n">>]
    /\ DisableMux = [kind |-> "ask",
                frame |-> <<"$", "C", "D", "x", "x", "x", "x", "\n">>]
BY DEF SetRelay, ReadAnalog, SelectChannel, EnableMux, DisableMux, Exchange

Exchanges == RelayCalls \union AnalogReads \union {EnableMux, DisableMux}
             \union {SelectChannel(n) : n \in MuxChannels}

\* What the protocol relies on: '$' only begins a command, '\n' only ends it.
Framed(f) ==
    /\ f \in Seq(Char)
    /\ Len(f) = FrameLen
    /\ f[1] = "$" /\ f[8] = "\n"
    /\ \A i \in 2 .. 8 : f[i] # "$"
    /\ \A i \in 1 .. 7 : f[i] # "\n"
    /\ f[3] # Nul

LEMMA FramedTuple ==
    ASSUME NEW c \in {"R", "A", "C"}, NEW d \in Char, d \notin {Nul, "$", "\n"},
           NEW a1 \in Char, a1 \notin {Nul, "$", "\n"},
           NEW a2 \in {"n", "f", "x"}, NEW a3 \in {"n", "f", "x"},
           NEW a4 \in {"n", "f", "x"}
    PROVE  Framed(<<"$", c, d, a1, a2, a3, a4, "\n">>)
<1> DEFINE f == <<"$", c, d, a1, a2, a3, a4, "\n">>
<1>1. f \in Seq(Char)
  BY Chars
<1>2. Len(f) = FrameLen
  BY DEF FrameLen
<1>3. f[1] = "$" /\ f[8] = "\n" /\ f[3] # Nul
  BY DEF Nul
<1>4. \A i \in 2 .. 8 : f[i] # "$"
  OBVIOUS
<1>5. \A i \in 1 .. 7 : f[i] # "\n"
  OBVIOUS
<1>6. QED
  BY <1>1, <1>2, <1>3, <1>4, <1>5 DEF Framed

LEMMA FramedLen ==
    ASSUME NEW f, Framed(f)
    PROVE  f \in Seq(Char) /\ Len(f) <= 8 /\ Len(f) >= 8
<1>1. f \in Seq(Char) /\ Len(f) = FrameLen /\ Len(f) \in Nat
  BY LenProperties DEF Framed
<1>2. FrameLen = 8
  BY DEF FrameLen
<1>3. QED
  BY <1>1, <1>2

LEMMA FramesFramed ==
    ASSUME NEW x \in Exchanges
    PROVE  Framed(x.frame) /\ x.kind \in {"relay", "ask"} /\ x # Idle
<1>1. \A c \in Relays \union Pins \union MuxChannels :
         c \in Char /\ c \notin {Nul, "$", "\n"}
  BY Chars, LinkAssumption
<1>2. \A c \in {"o", "x", "S", "E", "D"} : c \in Char /\ c \notin {Nul, "$", "\n"}
  BY Chars DEF Nul
<1>3. Framed(x.frame) /\ x.kind \in {"relay", "ask"}
  <2>1. CASE \E r \in Relays : x = SetRelay(r, "on")
    <3>1. PICK r \in Relays : x = SetRelay(r, "on")
      BY <2>1
    <3>2. Framed(<<"$", "R", r, "o", "n", "n", "n", "\n">>)
      BY <1>1, <1>2, FramedTuple
    <3>3. QED
      BY <3>1, <3>2, Frames
  <2>2. CASE \E r \in Relays : x = SetRelay(r, "off")
    <3>1. PICK r \in Relays : x = SetRelay(r, "off")
      BY <2>2
    <3>2. Framed(<<"$", "R", r, "o", "f", "f", "f", "\n">>)
      BY <1>1, <1>2, FramedTuple
    <3>3. QED
      BY <3>1, <3>2, Frames
  <2>3. CASE \E p \in Pins : x = ReadAnalog(p)
    <3>1. PICK p \in Pins : x = ReadAnalog(p)
      BY <2>3
    <3>2. Framed(<<"$", "A", p, "x", "x", "x", "x", "\n">>)
      BY <1>1, <1>2, FramedTuple
    <3>3. QED
      BY <3>1, <3>2, Frames
  <2>4. CASE \E n \in MuxChannels : x = SelectChannel(n)
    <3>1. PICK n \in MuxChannels : x = SelectChannel(n)
      BY <2>4
    <3>2. Framed(<<"$", "C", "S", n, "x", "x", "x", "\n">>)
      BY <1>1, <1>2, FramedTuple
    <3>3. QED
      BY <3>1, <3>2, Frames
  <2>5. CASE x \in {EnableMux, DisableMux}
    <3>1. Framed(<<"$", "C", "E", "x", "x", "x", "x", "\n">>)
      BY <1>2, FramedTuple
    <3>2. Framed(<<"$", "C", "D", "x", "x", "x", "x", "\n">>)
      BY <1>2, FramedTuple
    <3>3. QED
      BY <2>5, <3>1, <3>2, Frames
  <2>6. QED
    BY <2>1, <2>2, <2>3, <2>4, <2>5 DEF Exchanges, RelayCalls, AnalogReads
<1>4. x \in [kind : {"relay", "ask"}, frame : Seq(Char)]
  BY <1>3, Frames DEF Framed, Exchanges, RelayCalls, AnalogReads
<1>5. QED
  BY <1>3, <1>4, LinkAssumption

-----------------------------------------------------------------------------
(* Sequences of characters                                                 *)

LEMMA CatFacts ==
    ASSUME NEW s \in Seq(Char), NEW t \in Seq(Char)
    PROVE  /\ Cat(s, t) \in Seq(Char)
           /\ Len(Cat(s, t)) = Len(s) + Len(t)
           /\ \A i \in 1 .. Len(s) : Cat(s, t)[i] = s[i]
           /\ \A i \in 1 .. Len(t) : Cat(s, t)[Len(s) + i] = t[i]
<1>1. /\ Cat(s, t) \in Seq(Char)
      /\ Len(Cat(s, t)) = Len(s) + Len(t)
      /\ \A i \in 1 .. Len(s) + Len(t) :
            Cat(s, t)[i] = IF i <= Len(s) THEN s[i] ELSE t[i - Len(s)]
  BY ConcatProperties DEF Cat
<1>2. Len(s) \in Nat /\ Len(t) \in Nat
  BY LenProperties
<1>3. ASSUME NEW i \in 1 .. Len(s)
      PROVE  Cat(s, t)[i] = s[i]
  BY <1>1, <1>2
<1>4. ASSUME NEW i \in 1 .. Len(t)
      PROVE  Cat(s, t)[Len(s) + i] = t[i]
  <2>1. Len(s) + i \in 1 .. Len(s) + Len(t)
    BY <1>2
  <2>2. ~(Len(s) + i <= Len(s)) /\ Len(s) + i - Len(s) = i
    BY <1>2
  <2>3. QED
    BY <1>1, <2>1, <2>2
<1>5. QED
  BY <1>1, <1>3, <1>4

LEMMA DropFacts ==
    ASSUME NEW s \in Seq(Char), NEW n \in 0 .. Len(s)
    PROVE  /\ Drop(s, n) \in Seq(Char)
           /\ Len(Drop(s, n)) = Len(s) - n
           /\ \A i \in 1 .. Len(s) - n : Drop(s, n)[i] = s[n + i]
<1>1. Len(s) \in Nat /\ \A i \in 1 .. Len(s) : s[i] \in Char
  BY LenProperties, ElementOfSeq
<1>2. /\ Drop(s, n) \in Seq(Char)
      /\ Len(Drop(s, n)) = IF n + 1 <= Len(s) THEN Len(s) - (n + 1) + 1 ELSE 0
      /\ \A i \in 1 .. Len(s) - (n + 1) + 1 : Drop(s, n)[i] = s[n + 1 + i - 1]
  BY <1>1, SubSeqProperties DEF Drop
<1>3. QED
  BY <1>1, <1>2

LEMMA TakeFacts ==
    ASSUME NEW s \in Seq(Char), NEW n \in 0 .. Len(s)
    PROVE  /\ Take(s, n) \in Seq(Char)
           /\ Len(Take(s, n)) = n
           /\ \A i \in 1 .. n : Take(s, n)[i] = s[i]
<1>1. Len(s) \in Nat /\ \A i \in 1 .. Len(s) : s[i] \in Char
  BY LenProperties, ElementOfSeq
<1>2. /\ Take(s, n) \in Seq(Char)
      /\ Len(Take(s, n)) = IF 1 <= n THEN n - 1 + 1 ELSE 0
      /\ \A i \in 1 .. n - 1 + 1 : Take(s, n)[i] = s[1 + i - 1]
  BY <1>1, SubSeqProperties DEF Take
<1>3. QED
  BY <1>1, <1>2

LEMMA TailFacts ==
    ASSUME NEW s \in Seq(Char), s # << >>
    PROVE  /\ Tail(s) \in Seq(Char)
           /\ Len(Tail(s)) = Len(s) - 1
           /\ \A i \in 1 .. Len(s) - 1 : Tail(s)[i] = s[i + 1]
BY HeadTailProperties

LEMMA RemoveFacts ==
    ASSUME NEW s \in Seq(Char), NEW n \in 1 .. Len(s)
    PROVE  /\ RemoveAt(s, n) \in Seq(Char)
           /\ Len(RemoveAt(s, n)) = Len(s) - 1
           /\ \A i \in 1 .. n - 1 : RemoveAt(s, n)[i] = s[i]
           /\ \A i \in n .. Len(s) - 1 : RemoveAt(s, n)[i] = s[i + 1]
<1> DEFINE k == n - 1
           before == Take(s, k)
           after == Drop(s, n)
           r == Cat(before, after)
<1>1. Len(s) \in Nat /\ k \in 0 .. Len(s) /\ n \in 0 .. Len(s) /\ n = k + 1
  BY LenProperties
<1>2. RemoveAt(s, n) = r
  BY DEF RemoveAt, Cat, Take, Drop
<1> HIDE DEF k
<1>3. /\ before \in Seq(Char)
      /\ Len(before) = k
      /\ \A i \in 1 .. k : before[i] = s[i]
  BY <1>1, TakeFacts
<1>4. /\ after \in Seq(Char)
      /\ Len(after) = Len(s) - n
      /\ \A i \in 1 .. Len(s) - n : after[i] = s[n + i]
  BY <1>1, DropFacts
<1> HIDE DEF before, after
<1>5. /\ r \in Seq(Char)
      /\ Len(r) = Len(before) + Len(after)
      /\ \A i \in 1 .. Len(before) : r[i] = before[i]
      /\ \A i \in 1 .. Len(after) : r[Len(before) + i] = after[i]
  BY <1>3, <1>4, CatFacts
<1> HIDE DEF r
<1>6. Len(r) = Len(s) - 1
  BY <1>1, <1>3, <1>4, <1>5
<1>7. ASSUME NEW i \in 1 .. n - 1
      PROVE  r[i] = s[i]
  BY <1>1, <1>3, <1>5
<1>8. ASSUME NEW i \in n .. Len(s) - 1
      PROVE  r[i] = s[i + 1]
  <2>1. PICK j \in 1 .. Len(s) - n : i = k + j
    <3>1. i - k \in 1 .. Len(s) - n /\ i = k + (i - k)
      BY <1>1
    <3>2. QED
      BY <3>1
  <2>2. r[k + j] = after[j] /\ after[j] = s[n + j]
    BY <1>3, <1>4, <1>5
  <2>3. n + j = i + 1
    BY <1>1, <2>1
  <2>4. QED
    BY <2>1, <2>2, <2>3
<1>9. QED
  BY <1>2, <1>5, <1>6, <1>7, <1>8

-----------------------------------------------------------------------------
(* What the steps do to the line                                           *)

LEMMA Shifted ==
    ASSUME NEW u \in Seq(Char), NEW v \in Seq(Char), NEW d \in Seq(Char),
           NEW n \in Nat, n <= Len(u), Len(v) = Len(u) - n,
           \A i \in 1 .. Len(u) - n : v[i] = u[n + i]
    PROVE  /\ Len(Cat(v, d)) = Len(Cat(u, d)) - n
           /\ \A i \in 1 .. Len(Cat(u, d)) - n : Cat(v, d)[i] = Cat(u, d)[n + i]
<1>1. Len(u) \in Nat /\ Len(v) \in Nat /\ Len(d) \in Nat
  BY LenProperties
<1>2. /\ Len(Cat(u, d)) = Len(u) + Len(d)
      /\ \A i \in 1 .. Len(u) : Cat(u, d)[i] = u[i]
      /\ \A i \in 1 .. Len(d) : Cat(u, d)[Len(u) + i] = d[i]
  BY CatFacts
<1>3. /\ Len(Cat(v, d)) = Len(v) + Len(d)
      /\ \A i \in 1 .. Len(v) : Cat(v, d)[i] = v[i]
      /\ \A i \in 1 .. Len(d) : Cat(v, d)[Len(v) + i] = d[i]
  BY CatFacts
<1>4. ASSUME NEW i \in 1 .. Len(v)
      PROVE  Cat(v, d)[i] = Cat(u, d)[n + i]
  <2>1. n + i \in 1 .. Len(u) /\ v[i] = u[n + i]
    BY <1>1
  <2>2. QED
    BY <1>2, <1>3, <2>1
<1>5. ASSUME NEW j \in 1 .. Len(d)
      PROVE  Cat(v, d)[Len(v) + j] = Cat(u, d)[n + (Len(v) + j)]
  <2>1. n + (Len(v) + j) = Len(u) + j
    BY <1>1
  <2>2. QED
    BY <1>2, <1>3, <2>1
<1>6. ASSUME NEW i \in 1 .. Len(v) + Len(d)
      PROVE  Cat(v, d)[i] = Cat(u, d)[n + i]
  <2>1. CASE i <= Len(v)
    BY <1>1, <1>4, <2>1
  <2>2. CASE i > Len(v)
    <3>1. i - Len(v) \in 1 .. Len(d) /\ i = Len(v) + (i - Len(v))
      BY <1>1, <2>2
    <3>2. QED
      BY <1>5, <3>1
  <2>3. QED
    BY <1>1, <2>1, <2>2
<1>7. QED
  BY <1>1, <1>2, <1>3, <1>6

LEMMA LineType ==
    ASSUME LinkTypeOK
    PROVE  /\ uart \in Seq(Char) /\ down \in Seq(Char) /\ up \in Seq(Char)
           /\ Len(uart) \in Nat /\ Len(down) \in Nat /\ Len(up) \in Nat
           /\ uart = << >> <=> Len(uart) = 0
           /\ Line \in Seq(Char)
           /\ Len(Line) = Len(uart) + Len(down)
           /\ \A i \in 1 .. Len(uart) : Line[i] = uart[i]
           /\ \A i \in 1 .. Len(down) : Line[Len(uart) + i] = down[i]
<1>1. uart \in Seq(Char) /\ down \in Seq(Char) /\ up \in Seq(Char)
  BY DEF LinkTypeOK
<1>2. Len(uart) \in Nat /\ Len(down) \in Nat /\ Len(up) \in Nat
  BY <1>1, LenProperties
<1>3. uart = << >> <=> Len(uart) = 0
  BY <1>1, EmptySeq
<1>4. QED
  BY <1>1, <1>2, <1>3, CatFacts DEF Line

LEMMA NothingDown ==
    ASSUME LinkTypeOK, down = << >>
    PROVE  Line = uart
BY ConcatEmptySeq DEF LinkTypeOK, Line, Cat

LEMMA LineKept ==
    ASSUME LinkTypeOK, Deliver
    PROVE  Line' = Line
<1>1. uart' = Line /\ down' = << >> /\ Line \in Seq(Char)
  BY LineType DEF Deliver, Line, Cat
<1>2. QED
  BY <1>1, ConcatEmptySeq DEF Line, Cat

\* The firmware takes n bytes.
Taken(n) ==
    /\ Len(uart) >= n
    /\ uart' \in Seq(Char)
    /\ Len(uart') = Len(uart) - n
    /\ \A i \in 1 .. Len(uart) - n : uart'[i] = uart[n + i]
    /\ Len(Line') = Len(Line) - n
    /\ \A i \in 1 .. Len(Line) - n : Line'[i] = Line[n + i]

LEMMA Takes ==
    ASSUME LinkTypeOK, down' = down, NEW n \in Nat, n <= Len(uart),
           uart' \in Seq(Char), Len(uart') = Len(uart) - n,
           \A i \in 1 .. Len(uart) - n : uart'[i] = uart[n + i]
    PROVE  Taken(n)
<1>1. uart \in Seq(Char) /\ down \in Seq(Char)
  BY LineType
<1>2. Line = Cat(uart, down) /\ Line' = Cat(uart', down)
  BY DEF Line
<1>3. /\ Len(Cat(uart', down)) = Len(Cat(uart, down)) - n
      /\ \A i \in 1 .. Len(Cat(uart, down)) - n :
            Cat(uart', down)[i] = Cat(uart, down)[n + i]
  BY <1>1, Shifted
<1>4. QED
  BY <1>2, <1>3 DEF Taken

LEMMA SkipTakes ==
    ASSUME LinkTypeOK, Skip
    PROVE  Taken(1)
<1>1. /\ uart' = Tail(uart) /\ down' = down /\ uart # << >>
      /\ uart \in Seq(Char) /\ down \in Seq(Char)
  BY LineType DEF Skip
<1>2. /\ uart' \in Seq(Char) /\ Len(uart') = Len(uart) - 1
      /\ \A i \in 1 .. Len(uart) - 1 : uart'[i] = uart[1 + i]
  BY <1>1, TailFacts
<1>3. Len(uart) >= 1
  BY <1>1, LineType
<1>4. QED
  BY <1>1, <1>2, <1>3, Takes

LEMMA CommandTakes ==
    ASSUME LinkTypeOK, Discard \/ Execute
    PROVE  Taken(8)
<1> DEFINE n == 8
<1>1. /\ uart' = Drop(uart, n) /\ down' = down /\ n \in 0 .. Len(uart)
      /\ uart \in Seq(Char) /\ n \in Nat
  BY LineType DEF Discard, Execute, Command, Drop
<1> HIDE DEF n
<1>2. /\ uart' \in Seq(Char) /\ Len(uart') = Len(uart) - n
      /\ \A i \in 1 .. Len(uart) - n : uart'[i] = uart[n + i]
  BY <1>1, DropFacts
<1>3. Taken(n)
  BY <1>1, <1>2, LineType, Takes
<1>4. QED
  BY <1>3 DEF n

\* A byte is lost before the board has it.
LEMMA LineLoses ==
    ASSUME LinkTypeOK, Lose, UNCHANGED up, NEW n \in DOMAIN down,
           down' = RemoveAt(down, n)
    PROVE  /\ down' \in Seq(Char)
           /\ Len(down') = Len(down) - 1
           /\ Len(Line') = Len(Line) - 1
           /\ \A i \in 1 .. Len(uart) + n - 1 : Line'[i] = Line[i]
           /\ \A i \in Len(uart) + n .. Len(Line) - 1 : Line'[i] = Line[i + 1]
<1>1. /\ uart' = uart /\ n \in 1 .. Len(down)
      /\ uart \in Seq(Char) /\ down \in Seq(Char)
      /\ Len(uart) \in Nat /\ Len(down) \in Nat
  BY LineType DEF Lose, boardSide
<1>2. /\ down' \in Seq(Char) /\ Len(down') = Len(down) - 1
      /\ \A i \in 1 .. n - 1 : down'[i] = down[i]
      /\ \A i \in n .. Len(down) - 1 : down'[i] = down[i + 1]
  BY <1>1, RemoveFacts
<1>3. /\ Len(Line') = Len(uart) + Len(down')
      /\ \A i \in 1 .. Len(uart) : Line'[i] = uart[i]
      /\ \A i \in 1 .. Len(down') : Line'[Len(uart) + i] = down'[i]
  BY <1>1, <1>2, CatFacts DEF Line
<1>4. ASSUME NEW i \in 1 .. Len(uart) + n - 1
      PROVE  Line'[i] = Line[i]
  <2>1. CASE i <= Len(uart)
    BY <1>1, <1>3, <2>1, LineType
  <2>2. CASE i > Len(uart)
    <3>1. PICK j \in 1 .. n - 1 : i = Len(uart) + j
      <4>1. i - Len(uart) \in 1 .. n - 1 /\ i = Len(uart) + (i - Len(uart))
        BY <1>1, <2>2
      <4>2. QED
        BY <4>1
    <3>2. j \in 1 .. Len(down') /\ j \in 1 .. Len(down)
      BY <1>1, <1>2
    <3>3. QED
      BY <1>2, <1>3, <3>1, <3>2, LineType
  <2>3. QED
    BY <1>1, <2>1, <2>2
<1>5. ASSUME NEW i \in Len(uart) + n .. Len(Line) - 1
      PROVE  Line'[i] = Line[i + 1]
  <2>1. Len(Line) = Len(uart) + Len(down)
    BY LineType
  <2>2. PICK j \in n .. Len(down) - 1 : i = Len(uart) + j
    <3>1. i - Len(uart) \in n .. Len(down) - 1 /\ i = Len(uart) + (i - Len(uart))
      BY <1>1, <2>1
    <3>2. QED
      BY <3>1
  <2>3. j \in 1 .. Len(down') /\ j + 1 \in 1 .. Len(down)
    BY <1>1, <1>2
  <2>4. Line'[Len(uart) + j] = down[j + 1] /\ Line[Len(uart) + (j + 1)] = down[j + 1]
    BY <1>2, <1>3, <2>3, LineType
  <2>5. Len(uart) + (j + 1) = i + 1
    BY <1>1, <2>2
  <2>6. QED
    BY <2>2, <2>4, <2>5
<1>6. QED
  BY <1>1, <1>2, <1>3, <1>4, <1>5, LineType

\* n bytes of a frame are written when nothing is on its way.
LEMMA LineGrows ==
    ASSUME LinkTypeOK, down = << >>, uart' = uart, NEW f \in Seq(Char), down' = f
    PROVE  /\ Len(Line') = Len(uart) + Len(f)
           /\ Len(Line) = Len(uart)
           /\ \A i \in 1 .. Len(uart) : Line'[i] = uart[i] /\ Line[i] = uart[i]
           /\ \A i \in 1 .. Len(f) : Line'[Len(uart) + i] = f[i]
<1>1. /\ Line' = Cat(uart, f) /\ Line = uart
      /\ uart \in Seq(Char)
  BY NothingDown, LineType DEF Line
<1>2. QED
  BY <1>1, CatFacts

-----------------------------------------------------------------------------
(* Types                                                                   *)

LEMMA OpFacts ==
    ASSUME LinkTypeOK, OpInv
    PROVE  /\ hpc # "idle" => op \in Exchanges /\ Sent = op.frame
           /\ hpc # "idle" => Framed(op.frame) /\ op.kind \in {"relay", "ask"}
           /\ Framed(Sent)
<1>1. DisableMux \in Exchanges
  BY DEF Exchanges
<1>2. hpc # "idle" => op \in Exchanges
  BY DEF OpInv, LinkTypeOK, Exchanges
<1>3. hpc = "idle" => op = Idle
  BY DEF LinkTypeOK
<1>4. QED
  BY <1>1, <1>2, <1>3, FramesFramed DEF Sent

LEMMA Begun ==
    ASSUME NEW x \in Exchanges, Begin(x)
    PROVE  op' # Idle /\ hpc' = "try" /\ tries' = 0
BY FramesFramed DEF Begin

LEMMA Answered ==
    ASSUME LinkTypeOK, Execute
    PROVE  \/ up' = up
           \/ \E a \in Seq(Char) : up' = Cat(up, a)
<1>1. /\ Len(uart) >= 8
      /\ uart \in Seq(Char)
      /\ \A i \in 1 .. 8 : uart[i] \in Char
  BY LineType, ElementOfSeq DEF Execute, Command
<1>2. CASE SwitchRelay
  <2>1. SubSeq(uart, 1, 8) \in Seq(Char)
    BY <1>1
  <2>2. QED
    BY <1>2, <2>1 DEF SwitchRelay, Cat
<1>3. CASE AnswerAnalog
  <2>1. Cmd(2) \in Char
    BY <1>1 DEF Cmd
  <2>2. ASSUME NEW v \in Readings
        PROVE  <<"$", "A", Cmd(2), v[1], v[2], v[3], v[4], "\n">> \in Seq(Char)
    <3>1. v[1] \in Char /\ v[2] \in Char /\ v[3] \in Char /\ v[4] \in Char
      BY Chars, LinkAssumption
    <3>2. QED
      BY <2>1, <3>1, Chars
  <2>3. QED
    BY <1>3, <2>2 DEF AnswerAnalog, Cat
<1>4. CASE ChangeMux
  <2>1. Cmd(2) \in Char /\ Cmd(3) \in Char
    BY <1>1 DEF Cmd
  <2>2. /\ <<"$", "C", Cmd(2), "x", "x", "x", "x", "\n">> \in Seq(Char)
        /\ <<"$", "C", "S", "0", "0", "0", Cmd(3), "\n">> \in Seq(Char)
    BY <2>1, Chars
  <2>3. QED
    BY <1>4, <2>2 DEF ChangeMux, Cat
<1>5. CASE Ignore
  BY <1>5 DEF Ignore
<1>6. QED
  BY <1>2, <1>3, <1>4, <1>5 DEF Execute

LEMMA ReceivedType ==
    ASSUME LinkTypeOK, NEW n \in 0 .. Len(up), NEW terminated \in BOOLEAN
    PROVE  Received(n, terminated) \in [1 .. 8 -> Char]
<1>1. \A i \in 1 .. Len(up) : up[i] \in Char
  BY LineType, ElementOfSeq
<1>2. buffer_read \in [1 .. 8 -> Char] /\ Nul \in Char
  BY Chars DEF LinkTypeOK
<1>3. QED
  BY <1>1, <1>2, LineType DEF Received

LEMMA InitType == Init => LinkTypeOK
<1> SUFFICES ASSUME Init PROVE LinkTypeOK
  OBVIOUS
<1>1. << >> \in Seq(Char) /\ Len(<< >>) = 0
  BY EmptySeq
<1>2. EmptyBuffer \in [1 .. 8 -> Char]
  BY Chars DEF EmptyBuffer
<1>3. mux \in [address : MuxChannels, enabled : BOOLEAN]
  BY DEF Init
<1>4. pressure \in [state : {"closed", "opening", "open"}, channel : MuxChannels]
  BY <1>3 DEF Init
<1>5. returned \in [{"relay", "ask"} -> Results]
  BY DEF Init, Results
<1>6. QED
  BY <1>1, <1>2, <1>3, <1>4, <1>5, LinkAssumption DEF Init, LinkTypeOK

\* Most host steps: the line and the board stay as they are.
LEMMA HostType ==
    ASSUME LinkTypeOK, UNCHANGED <<down, boardSide>>,
           up' \in Seq(Char),
           hpc' \in {"idle", "try", "read", "check"}, op' = Idle <=> hpc' = "idle",
           tries' \in 0 .. MaxTries + 1, buffer_read' \in [1 .. 8 -> Char],
           pressure' \in [state : {"closed", "opening", "open"}, channel : MuxChannels],
           pressure'.state = "opening" => hpc' # "idle",
           returned' \in [{"relay", "ask"} -> Results], lost' \in 0 .. MaxLost
    PROVE  LinkTypeOK'
BY DEF LinkTypeOK, boardSide

LEMMA FailType ==
    ASSUME LinkTypeOK, op.kind \in {"relay", "ask"},
           NEW e \in {"write", "timeout", "tries"}, Fail(e)
    PROVE  /\ hpc' = "idle" /\ op' = Idle
           /\ pressure' \in [state : {"closed", "opening", "open"}, channel : MuxChannels]
           /\ pressure'.state # "opening"
           /\ returned' \in [{"relay", "ask"} -> Results]
           /\ returned' = [returned EXCEPT ![op.kind] = e]
<1>1. e \in Results
  BY DEF Results
<1>2. QED
  BY <1>1 DEF Fail, Unopened, LinkTypeOK

LEMMA TypeStep ==
    ASSUME LinkTypeOK, OpInv, LenInv, TriesInv, Next
    PROVE  LinkTypeOK'
<1>1. /\ uart \in Seq(Char) /\ down \in Seq(Char) /\ up \in Seq(Char)
      /\ Len(uart) \in Nat /\ Len(down) \in Nat
      /\ << >> \in Seq(Char) /\ Len(<< >>) = 0
      /\ tries \in Nat /\ MaxTries \in Nat /\ MaxLost \in Nat /\ lost \in Nat
  BY LineType, EmptySeq, LinkAssumption DEF LinkTypeOK
<1>2. /\ hpc # "idle" => op \in Exchanges /\ Framed(op.frame)
                         /\ op.kind \in {"relay", "ask"}
      /\ FrameLen = 8
  BY OpFacts DEF FrameLen
<1>3. CASE Deliver
  <2>1. uart' = Line /\ down' = << >> /\ Line \in Seq(Char) /\ Len(Line) <= 15
    BY <1>1, <1>3, LineType DEF Deliver, Line, Cat, LenInv, LinkTypeOK
  <2>2. QED
    BY <1>1, <1>3, <2>1 DEF Deliver, LinkTypeOK, hostSide
<1>4. CASE Lose
  <2>1. UNCHANGED <<boardSide, hostSide>> /\ lost' \in 0 .. MaxLost
    BY <1>1, <1>4 DEF Lose
  <2>2. CASE \E n \in DOMAIN down : down' = RemoveAt(down, n) /\ UNCHANGED up
    <3>1. PICK n \in 1 .. Len(down) : down' = RemoveAt(down, n) /\ up' = up
      BY <1>1, <2>2
    <3>2. down' \in Seq(Char) /\ Len(down') = Len(down) - 1
      BY <1>1, <3>1, RemoveFacts
    <3>3. QED
      BY <1>1, <2>1, <3>1, <3>2 DEF LinkTypeOK, boardSide, hostSide
  <2>3. CASE \E n \in DOMAIN up : up' = RemoveAt(up, n) /\ UNCHANGED down
    <3>1. PICK n \in 1 .. Len(up) : up' = RemoveAt(up, n) /\ down' = down
      BY <1>1, <2>3
    <3>2. up' \in Seq(Char)
      BY <1>1, <3>1, RemoveFacts
    <3>3. QED
      BY <1>1, <2>1, <3>1, <3>2 DEF LinkTypeOK, boardSide, hostSide
  <2>4. QED
    BY <1>4, <2>2, <2>3 DEF Lose
<1>5. CASE Firmware
  <2>1. CASE Skip
    BY <1>1, <2>1, SkipTakes DEF Skip, Taken, LinkTypeOK, hostSide
  <2>2. CASE Discard
    BY <1>1, <2>2, CommandTakes DEF Discard, Taken, LinkTypeOK, hostSide
  <2>3. CASE Execute
    <3>1. uart' \in Seq(Char) /\ Len(uart') = Len(uart) - 8
      BY <2>3, CommandTakes DEF Taken
    <3>2. up' \in Seq(Char)
      BY <1>1, <2>3, Answered, CatFacts
    <3>3. /\ on' \subseteq Relays
          /\ mux' \in [address : MuxChannels, enabled : BOOLEAN]
      BY <2>3 DEF Execute, SwitchRelay, AnswerAnalog, ChangeMux, Ignore, LinkTypeOK
    <3>4. QED
      BY <1>1, <2>3, <3>1, <3>2, <3>3 DEF Execute, LinkTypeOK, hostSide
  <2>4. QED
    BY <1>5, <2>1, <2>2, <2>3 DEF Firmware
<1>6. CASE BeginCall
  <2>1. op' # Idle /\ hpc' = "try" /\ tries' = 0
    BY <1>6, Begun DEF BeginCall, Exchanges, RelayCalls, AnalogReads
  <2>2. buffer_read' \in [1 .. 8 -> Char]
    BY <1>6, Chars DEF BeginCall, EmptyBuffer
  <2>3. QED
    BY <1>1, <1>6, <2>1, <2>2, HostType DEF BeginCall, LinkTypeOK
<1>7. CASE OpenPressure
  <2>1. PICK n \in MuxChannels : /\ Begin(SelectChannel(n))
                                 /\ pressure' = [state |-> "opening", channel |-> n]
    BY <1>7 DEF OpenPressure
  <2>2. op' # Idle /\ hpc' = "try" /\ tries' = 0
    BY <2>1, Begun DEF Exchanges
  <2>3. buffer_read' \in [1 .. 8 -> Char]
    BY <1>7, Chars DEF OpenPressure, EmptyBuffer
  <2>4. QED
    BY <1>1, <1>7, <2>1, <2>2, <2>3, HostType DEF OpenPressure, LinkTypeOK
<1>8. CASE ClosePressure
  <2>1. DisableMux \in Exchanges
    BY DEF Exchanges
  <2>2. down' \in Seq(Char) /\ Len(down') <= 8
    BY <1>8, <2>1, FramesFramed, FramedLen DEF ClosePressure
  <2>3. pressure' \in [state : {"closed", "opening", "open"}, channel : MuxChannels]
        /\ pressure'.state = "closed"
    BY <1>8 DEF ClosePressure, LinkTypeOK
  <2>4. QED
    BY <1>1, <1>8, <2>2, <2>3 DEF ClosePressure, LinkTypeOK, boardSide
<1>9. CASE Write
  <2>1. down' \in Seq(Char) /\ Len(down') <= 8 /\ up' = << >>
    BY <1>2, <1>9, FramedLen DEF Write
  <2>2. QED
    BY <1>1, <1>9, <2>1 DEF Write, LinkTypeOK, boardSide
<1>10. CASE WriteFails
  <2>1. down' \in Seq(Char) /\ Len(down') <= 8 /\ lost' \in 0 .. MaxLost
    <3>1. CASE down' = << >> /\ UNCHANGED lost
      BY <1>1, <3>1 DEF LinkTypeOK
    <3>2. CASE ~(down' = << >> /\ UNCHANGED lost)
      <4>1. PICK n \in 1 .. 7 : down' = Take(op.frame, n)
        BY <1>10, <3>2 DEF WriteFails, Take
      <4>2. n \in 0 .. Len(op.frame)
        BY <1>2, <1>10, FramedLen DEF WriteFails
      <4>3. down' \in Seq(Char) /\ Len(down') = n
        BY <1>2, <1>10, <4>1, <4>2, FramedLen, TakeFacts DEF WriteFails
      <4>4. lost' \in 0 .. MaxLost
        BY <1>1, <1>10, <3>2 DEF WriteFails
      <4>5. QED
        BY <4>3, <4>4
    <3>3. QED
      BY <3>1, <3>2
  <2>2. /\ hpc' = "idle" /\ op' = Idle
        /\ pressure' \in [state : {"closed", "opening", "open"}, channel : MuxChannels]
        /\ pressure'.state # "opening"
        /\ returned' \in [{"relay", "ask"} -> Results]
    BY <1>2, <1>10, FailType DEF WriteFails
  <2>3. QED
    BY <1>1, <1>10, <2>1, <2>2 DEF WriteFails, LinkTypeOK, boardSide
<1>11. CASE GetLine
  <2>1. PICK n \in 1 .. Len(up) : /\ buffer_read' = Received(n, TRUE)
                                  /\ up' = Drop(up, n)
    BY <1>1, <1>11, LenProperties DEF GetLine, LineEnds, Drop
  <2>2. n \in 0 .. Len(up) /\ Len(up) \in Nat
    BY <1>1, LineType
  <2>3. up' \in Seq(Char)
    BY <1>1, <2>1, <2>2, DropFacts
  <2>4. buffer_read' \in [1 .. 8 -> Char]
    BY <2>1, <2>2, ReceivedType
  <2>5. QED
    BY <1>1, <1>11, <2>3, <2>4, HostType DEF GetLine, LinkTypeOK
<1>12. CASE Timeout
  <2>1. Len(up) \in 0 .. Len(up)
    BY LineType
  <2>2. buffer_read' \in [1 .. 8 -> Char] /\ up' \in Seq(Char)
    BY <1>1, <1>12, <2>1, ReceivedType DEF Timeout
  <2>3. CASE op.kind = "relay"
    <3>1. /\ hpc' = "idle" /\ op' = Idle
          /\ pressure' \in [state : {"closed", "opening", "open"}, channel : MuxChannels]
          /\ pressure'.state # "opening"
          /\ returned' \in [{"relay", "ask"} -> Results]
      BY <1>2, <1>12, <2>3, FailType DEF Timeout, TimedOut
    <3>2. QED
      BY <1>1, <1>12, <2>2, <3>1, HostType DEF Timeout, LinkTypeOK
  <2>4. CASE op.kind # "relay"
    BY <1>1, <1>12, <2>2, <2>4, HostType DEF Timeout, TimedOut, LinkTypeOK
  <2>5. QED
    BY <2>3, <2>4
<1>13. CASE Succeed
  <2>1. CASE Enabling
    <3>1. op' # Idle /\ hpc' = "try" /\ tries' = 0
      BY <1>13, <2>1, Begun DEF Succeed, Exchanges
    <3>2. QED
      BY <1>1, <1>13, <2>1, <3>1, HostType DEF Succeed, LinkTypeOK
  <2>2. CASE ~Enabling
    <3>1. /\ pressure' \in [state : {"closed", "opening", "open"}, channel : MuxChannels]
          /\ pressure'.state # "opening"
      BY <1>13, <2>2 DEF Succeed, LinkTypeOK
    <3>2. returned' \in [{"relay", "ask"} -> Results]
      BY <1>2, <1>13, <2>2 DEF Succeed, LinkTypeOK, Results
    <3>3. QED
      BY <1>1, <1>13, <2>2, <3>1, <3>2, HostType DEF Succeed, LinkTypeOK
  <2>3. QED
    BY <2>1, <2>2
<1>14. CASE Retry
  <2>1. tries' \in 0 .. MaxTries + 1
    BY <1>1, <1>14 DEF Retry, Counted, TriesInv
  <2>2. CASE tries' > MaxTries
    <3>1. /\ hpc' = "idle" /\ op' = Idle
          /\ pressure' \in [state : {"closed", "opening", "open"}, channel : MuxChannels]
          /\ pressure'.state # "opening"
          /\ returned' \in [{"relay", "ask"} -> Results]
      BY <1>2, <1>14, <2>2, FailType DEF Retry
    <3>2. QED
      BY <1>1, <1>14, <2>1, <3>1, HostType DEF Retry, LinkTypeOK
  <2>3. CASE ~(tries' > MaxTries)
    BY <1>1, <1>14, <2>1, <2>3, HostType DEF Retry, LinkTypeOK
  <2>4. QED
    BY <2>2, <2>3
<1>15. QED
  BY <1>3, <1>4, <1>5, <1>6, <1>7, <1>8, <1>9, <1>10, <1>11, <1>12, <1>13, <1>14
     DEF Next, Host

-----------------------------------------------------------------------------
(* The exchange under way and the pace of the two sides                    *)

LEMMA OpStep ==
    ASSUME LinkTypeOK, OpInv, Next
    PROVE  OpInv'
<1>1. hpc = "idle" => pressure.state # "opening"
  BY DEF LinkTypeOK
<1>2. CASE UNCHANGED <<op, pressure>> /\ (hpc = "idle" => hpc' = "idle")
  BY <1>2 DEF OpInv
<1>3. CASE hpc' = "idle"
  BY <1>3 DEF OpInv
<1>4. CASE BeginCall
  <2>1. op' \in RelayCalls \union AnalogReads /\ pressure' = pressure /\ hpc = "idle"
    BY <1>4 DEF BeginCall, Begin, RelayCalls, AnalogReads
  <2>2. QED
    BY <1>1, <2>1 DEF OpInv
<1>5. CASE OpenPressure
  <2>1. PICK n \in MuxChannels : /\ op' = SelectChannel(n)
                                 /\ pressure' = [state |-> "opening", channel |-> n]
    BY <1>5 DEF OpenPressure, Begin
  <2>2. pressure'.state = "opening" /\ pressure'.channel = n
    BY <2>1
  <2>3. QED
    BY <2>1, <2>2 DEF OpInv
<1>6. CASE Succeed /\ Enabling
  <2>1. op' = EnableMux /\ pressure' = pressure /\ pressure.state = "opening"
    BY <1>6 DEF Succeed, Enabling, Begin
  <2>2. QED
    BY <2>1 DEF OpInv
<1>7. CASE Deliver \/ Lose \/ Firmware
  BY <1>2, <1>7 DEF Deliver, Lose, Firmware, Skip, Discard, Execute, hostSide
<1>8. CASE ClosePressure \/ Write \/ WriteFails \/ GetLine
  BY <1>2, <1>3, <1>8 DEF ClosePressure, Write, WriteFails, GetLine, Fail
<1>9. CASE Timeout \/ Retry \/ (Succeed /\ ~Enabling)
  BY <1>2, <1>3, <1>9 DEF Timeout, TimedOut, Retry, Succeed, Fail
<1>10. QED
  BY <1>4, <1>5, <1>6, <1>7, <1>8, <1>9 DEF Next, Host

LEMMA TriesStep ==
    ASSUME LinkTypeOK, TriesInv, Next
    PROVE  TriesInv'
<1>1. MaxTries \in Nat /\ tries \in Nat
  BY LinkAssumption DEF LinkTypeOK
<1>2. CASE UNCHANGED tries /\ (hpc = "idle" => hpc' = "idle")
  BY <1>2 DEF TriesInv
<1>3. CASE hpc' = "idle"
  BY <1>3 DEF TriesInv
<1>4. CASE BeginCall \/ OpenPressure \/ (Succeed /\ Enabling)
  BY <1>1, <1>4 DEF BeginCall, OpenPressure, Succeed, Begin, TriesInv
<1>5. CASE Retry
  BY <1>1, <1>3, <1>5 DEF Retry, Counted, Fail, TriesInv
<1>6. CASE Deliver \/ Lose \/ Firmware
  BY <1>2, <1>6 DEF Deliver, Lose, Firmware, Skip, Discard, Execute, hostSide
<1>7. CASE ClosePressure \/ Write \/ WriteFails \/ GetLine
  BY <1>2, <1>3, <1>7 DEF ClosePressure, Write, WriteFails, GetLine, Fail
<1>8. CASE Timeout \/ (Succeed /\ ~Enabling)
  BY <1>2, <1>3, <1>8 DEF Timeout, TimedOut, Succeed, Fail
<1>9. QED
  BY <1>4, <1>5, <1>6, <1>7, <1>8 DEF Next, Host

\* What stands before a command is gone, and what follows it is none.
LEMMA CommandAlone ==
    ASSUME LinkTypeOK, LineInv, Command
    PROVE  /\ down = << >> /\ Line = uart
           /\ Len(uart) >= 8 /\ uart[1] = "$"
           /\ \A i \in 9 .. Len(uart) : uart[i] # "$"
<1>1. PICK b \in 0 .. 7 : Remains(b)
  BY DEF LineInv
<1>2. Len(uart) >= 8 /\ uart[1] = "$" /\ Len(uart) \in Nat
  BY LineType DEF Command
<1>3. down = << >>
  BY <1>1, <1>2 DEF Remains
<1>4. Line = uart
  BY <1>3, NothingDown
<1>5. \A i \in b + 2 .. Len(uart) : uart[i] # "$"
  BY <1>1, <1>4 DEF Remains
<1>6. QED
  BY <1>2, <1>3, <1>4, <1>5

LEMMA LenStep ==
    ASSUME LinkTypeOK, LenInv, LineInv, Next
    PROVE  LenInv'
<1>1. Len(uart) \in Nat /\ Len(uart) <= 15 /\ (uart = << >> <=> Len(uart) = 0)
      /\ << >> \in Seq(Char) /\ Len(<< >>) = 0
  BY LineType, EmptySeq DEF LinkTypeOK
<1>2. Quiet => down = << >> /\ Len(uart) <= 7
  BY <1>1 DEF Quiet
<1>3. CASE Deliver
  BY <1>1, <1>3 DEF Deliver, LenInv, hostSide
<1>4. CASE Lose
  <2>1. UNCHANGED <<uart, hpc>>
    BY <1>4 DEF Lose, boardSide, hostSide
  <2>2. CASE \E n \in DOMAIN down : down' = RemoveAt(down, n) /\ UNCHANGED up
    <3>1. down # << >>
      BY <2>2, <1>1, LineType
    <3>2. QED
      BY <2>1, <2>2, <3>1 DEF LenInv
  <2>3. CASE \E n \in DOMAIN up : up' = RemoveAt(up, n) /\ UNCHANGED down
    <3>1. up # << >>
      BY <2>3, <1>1, LineType
    <3>2. QED
      BY <2>1, <2>3, <3>1 DEF LenInv
  <2>4. QED
    BY <1>4, <2>2, <2>3 DEF Lose
<1>5. CASE Skip
  <2>1. Len(uart') = Len(uart) - 1
    BY <1>5, SkipTakes DEF Taken
  <2>2. UNCHANGED <<down, up, hpc>>
    BY <1>5 DEF Skip, hostSide
  <2>3. QED
    BY <1>1, <2>1, <2>2 DEF LenInv
<1>6. CASE Discard \/ Execute
  <2>1. Len(uart') = Len(uart) - 8
    BY <1>6, CommandTakes DEF Taken
  <2>2. down' = << >> /\ hpc' = hpc
    BY <1>6, CommandAlone DEF Discard, Execute, hostSide
  <2>3. QED
    BY <1>1, <2>1, <2>2 DEF LenInv
<1>7. CASE BeginCall \/ OpenPressure
  BY <1>2, <1>7 DEF BeginCall, OpenPressure, Begin, boardSide, LenInv
<1>8. CASE ClosePressure
  BY <1>2, <1>8 DEF ClosePressure, boardSide, LenInv
<1>9. CASE Write
  BY <1>9 DEF Write, boardSide, LenInv
<1>10. CASE WriteFails
  BY <1>10 DEF WriteFails, Fail, boardSide, LenInv
<1>11. CASE GetLine
  <2>1. up # << >>
    BY <1>11, <1>1, LineType DEF GetLine, LineEnds
  <2>2. QED
    BY <1>11, <2>1 DEF GetLine, boardSide, LenInv
<1>12. CASE Timeout
  BY <1>2, <1>12 DEF Timeout, Silence, boardSide, LenInv
<1>13. CASE Succeed
  BY <1>13 DEF Succeed, Begin, boardSide, LenInv
<1>14. CASE Retry
  BY <1>14 DEF Retry, Fail, boardSide, LenInv
<1>15. QED
  BY <1>3, <1>4, <1>5, <1>6, <1>7, <1>8, <1>9, <1>10, <1>11, <1>12, <1>13, <1>14
     DEF Next, Firmware, Host

LEMMA SettledStep ==
    ASSUME LinkTypeOK, LenInv, SettledInv, LineInv, Next
    PROVE  SettledInv'
<1>1. Len(uart) \in Nat /\ Len(uart) <= 15 /\ (uart = << >> <=> Len(uart) = 0)
      /\ << >> \in Seq(Char) /\ Len(<< >>) = 0
  BY LineType, EmptySeq DEF LinkTypeOK
<1>2. Quiet => NoStart(uart) \/ (Len(uart) >= 1 /\ uart[1] = "$")
  BY <1>1, LineType DEF Quiet, NoStart
<1>3. CASE Deliver
  <2>1. hpc' = hpc /\ up' = up /\ down # << >>
    BY <1>3 DEF Deliver, hostSide
  <2>2. QED
    BY <2>1 DEF LenInv, SettledInv
<1>4. CASE Lose
  <2>1. UNCHANGED <<uart, hpc>>
    BY <1>4 DEF Lose, boardSide, hostSide
  <2>2. up' # << >> => up # << >>
    <3>1. CASE up' = up
      BY <3>1
    <3>2. CASE \E n \in DOMAIN up : up' = RemoveAt(up, n)
      BY <1>1, <3>2, LineType
    <3>3. QED
      BY <1>4, <3>1, <3>2 DEF Lose
  <2>3. QED
    BY <2>1, <2>2 DEF SettledInv, NoStart
<1>5. CASE Skip
  <2>1. /\ Len(uart') = Len(uart) - 1
        /\ \A i \in 1 .. Len(uart) - 1 : uart'[i] = uart[1 + i]
        /\ Len(uart) >= 1 /\ uart[1] # "$"
    BY <1>1, <1>5, SkipTakes DEF Taken, Skip
  <2>2. UNCHANGED <<up, hpc>>
    BY <1>5 DEF Skip, hostSide
  <2>3. NoStart(uart) => NoStart(uart')
    BY <1>1, <2>1 DEF NoStart
  <2>4. QED
    BY <2>1, <2>2, <2>3 DEF SettledInv
<1>6. CASE Discard \/ Execute
  <2>1. /\ Len(uart') = Len(uart) - 8
        /\ \A i \in 1 .. Len(uart) - 8 : uart'[i] = uart[8 + i]
    BY <1>6, CommandTakes DEF Taken
  <2>2. Len(uart) >= 8 /\ \A i \in 9 .. Len(uart) : uart[i] # "$"
    BY <1>6, CommandAlone DEF Discard, Execute
  <2>3. NoStart(uart')
    BY <1>1, <2>1, <2>2 DEF NoStart
  <2>4. QED
    BY <2>3 DEF SettledInv
<1>7. CASE BeginCall \/ OpenPressure
  BY <1>2, <1>7 DEF BeginCall, OpenPressure, Begin, boardSide, SettledInv, NoStart
<1>8. CASE ClosePressure
  BY <1>8 DEF ClosePressure, SettledInv
<1>9. CASE Write
  BY <1>9 DEF Write, SettledInv
<1>10. CASE WriteFails
  BY <1>10 DEF WriteFails, Fail, SettledInv
<1>11. CASE GetLine
  <2>1. up # << >>
    BY <1>11, <1>1, LineType DEF GetLine, LineEnds
  <2>2. QED
    BY <1>11, <2>1 DEF GetLine, boardSide, SettledInv, NoStart
<1>12. CASE Timeout
  BY <1>2, <1>12 DEF Timeout, Silence, boardSide, SettledInv, NoStart
<1>13. CASE Succeed
  BY <1>13 DEF Succeed, Begin, boardSide, SettledInv, NoStart
<1>14. CASE Retry
  BY <1>14 DEF Retry, Fail, boardSide, SettledInv, NoStart
<1>15. QED
  BY <1>3, <1>4, <1>5, <1>6, <1>7, <1>8, <1>9, <1>10, <1>11, <1>12, <1>13, <1>14
     DEF Next, Firmware, Host

-----------------------------------------------------------------------------
(* What is on the line                                                     *)

LEMMA LostGrows ==
    ASSUME LinkTypeOK, Next
    PROVE  lost \in Nat /\ (lost' = lost \/ lost' = lost + 1)
<1>1. lost \in Nat
  BY LinkAssumption DEF LinkTypeOK
<1>2. CASE Deliver \/ Lose \/ Firmware
  BY <1>1, <1>2 DEF Deliver, Lose, Firmware, Skip, Discard, Execute
<1>3. CASE BeginCall \/ OpenPressure \/ ClosePressure
  BY <1>1, <1>3 DEF BeginCall, OpenPressure, ClosePressure
<1>4. CASE Host
  BY <1>1, <1>4 DEF Host, Write, WriteFails, GetLine, Timeout, Succeed, Retry
<1>5. QED
  BY <1>1, <1>2, <1>3, <1>4 DEF Next

LEMMA TakenFree ==
    ASSUME LinkTypeOK, NEW n \in Nat, Taken(n), NoJam
    PROVE  NoJam'
<1>1. Len(Line) \in Nat
  BY LineType
<1>2. ASSUME NEW i \in 1 .. Len(Line'), Line'[i] = "$"
      PROVE  i + 7 <= Len(Line')
  <2>1. Len(Line') = Len(Line) - n /\ Line'[i] = Line[n + i]
    BY <1>1, <1>2 DEF Taken
  <2>2. n + i \in 1 .. Len(Line)
    BY <1>1, <1>2, <2>1
  <2>3. n + i + 7 <= Len(Line)
    BY <1>2, <2>1, <2>2 DEF NoJam
  <2>4. QED
    BY <1>1, <2>1, <2>3
<1>3. QED
  BY <1>2 DEF NoJam

\* A whole command frees what waits for bytes.
LEMMA FrameFrees ==
    ASSUME LinkTypeOK, down = << >>, uart' = uart, NEW f, Framed(f), down' = f
    PROVE  NoJam'
<1>1. /\ f \in Seq(Char) /\ Len(f) = 8 /\ \A i \in 2 .. 8 : f[i] # "$"
      /\ Len(uart) \in Nat
  <2>1. f \in Seq(Char) /\ Len(f) \in Nat /\ Len(f) <= 8 /\ Len(f) >= 8
    BY FramedLen, LenProperties
  <2>2. QED
    BY <2>1, LineType DEF Framed
<1>2. /\ Len(Line') = Len(uart) + 8
      /\ \A i \in 1 .. 8 : Line'[Len(uart) + i] = f[i]
  BY <1>1, LineGrows
<1>3. ASSUME NEW i \in 1 .. Len(Line'), Line'[i] = "$"
      PROVE  i + 7 <= Len(Line')
  <2>1. CASE i <= Len(uart) + 1
    BY <1>1, <1>2, <2>1
  <2>2. CASE i > Len(uart) + 1
    <3>1. PICK j \in 2 .. 8 : i = Len(uart) + j
      <4>1. i - Len(uart) \in 2 .. 8 /\ i = Len(uart) + (i - Len(uart))
        BY <1>1, <1>2, <2>2
      <4>2. QED
        BY <4>1
    <3>2. Line'[Len(uart) + j] = f[j]
      BY <1>2, <3>1
    <3>3. f[j] # "$"
      BY <1>1, <3>1
    <3>4. QED
      BY <1>3, <3>1, <3>2, <3>3
  <2>3. QED
    BY <1>1, <2>1, <2>2
<1>4. QED
  BY <1>3 DEF NoJam

\* What a step that writes no part of a command leaves free stays free.
LEMMA FreeStep ==
    ASSUME LinkTypeOK, LineInv, OpInv, LenInv, NoJam, Next, lost' = lost
    PROVE  NoJam'
<1>1. CASE Deliver
  BY <1>1, LineKept DEF NoJam
<1>2. CASE Lose
  BY <1>2, LostGrows DEF Lose
<1>3. CASE Skip
  BY <1>3, SkipTakes, TakenFree
<1>4. CASE Discard \/ Execute
  BY <1>4, CommandTakes, TakenFree
<1>5. CASE ClosePressure
  <2>1. Framed(DisableMux.frame)
    BY FramesFramed DEF Exchanges
  <2>2. QED
    BY <1>5, <2>1, FrameFrees DEF ClosePressure, Quiet, boardSide
<1>6. CASE Write
  <2>1. Framed(op.frame)
    BY <1>6, OpFacts DEF Write
  <2>2. QED
    BY <1>6, <2>1, FrameFrees DEF Write, LenInv, boardSide
<1>7. CASE WriteFails
  <2>1. down' = << >> /\ down = << >> /\ uart' = uart
    BY <1>7, LostGrows DEF WriteFails, LenInv, boardSide
  <2>2. QED
    BY <2>1 DEF NoJam, Line
<1>8. CASE BeginCall \/ OpenPressure
  BY <1>8 DEF BeginCall, OpenPressure, boardSide, NoJam, Line
<1>9. CASE GetLine \/ Timeout \/ Succeed \/ Retry
  BY <1>9 DEF GetLine, Timeout, Succeed, Retry, boardSide, NoJam, Line
<1>10. QED
  BY <1>1, <1>2, <1>3, <1>4, <1>5, <1>6, <1>7, <1>8, <1>9
     DEF Next, Firmware, Host

LEMMA JamStep ==
    ASSUME LinkTypeOK, LineInv, OpInv, LenInv, JamInv, Next
    PROVE  JamInv'
<1>1. CASE lost >= 1
  BY <1>1, LostGrows DEF JamInv
<1>2. CASE NoJam
  BY <1>2, FreeStep, LostGrows DEF JamInv
<1>3. QED
  BY <1>1, <1>2 DEF JamInv

\* Between two commands: what is left on the line waits for bytes, or is no
\* command at all.
Settled ==
    /\ down = << >> /\ Len(uart) <= 7
    /\ NoStart(uart) \/ (Len(uart) >= 1 /\ uart[1] = "$")

LEMMA SettledLine ==
    ASSUME LinkTypeOK, JamInv, Settled
    PROVE  /\ Line = uart /\ Len(uart) \in Nat /\ Len(uart) <= 7
           /\ \/ \A i \in 1 .. Len(uart) : uart[i] # "$"
              \/ Len(uart) >= 1 /\ uart[1] = "$" /\ lost >= 1
<1>1. Line = uart /\ Len(uart) \in Nat /\ Len(uart) <= 7
  <2>1. down = << >> /\ Len(uart) <= 7
    BY DEF Settled
  <2>2. Line = uart
    BY <2>1, NothingDown
  <2>3. QED
    BY <2>1, <2>2, LineType
<1>2. CASE Len(uart) >= 1 /\ uart[1] = "$"
  <2>1. ~NoJam
    BY <1>1, <1>2 DEF NoJam
  <2>2. QED
    BY <1>1, <1>2, <2>1 DEF JamInv
<1>3. CASE NoStart(uart)
  BY <1>1, <1>3 DEF NoStart
<1>4. QED
  BY <1>2, <1>3 DEF Settled

LEMMA QuietSettled ==
    ASSUME LinkTypeOK, Quiet
    PROVE  Settled
BY LineType DEF Quiet, Settled, NoStart

LEMMA HostSettled ==
    ASSUME LenInv, SettledInv,
           hpc \in {"try", "check"} \/ (hpc = "read" /\ up # << >>)
    PROVE  Settled
BY DEF LenInv, SettledInv, Settled

LEMMA SettledStays ==
    ASSUME LinkTypeOK, JamInv, Settled, uart' = uart, down' = << >>, lost' = lost
    PROVE  LineInv'
<1>0. PICK b \in Nat : b = Len(uart) /\ b <= 7
  BY SettledLine
<1>1. Line' = Line /\ Line = uart
  BY SettledLine DEF Settled, Line
<1>2. \/ \A i \in 1 .. b : Line'[i] # "$"
      \/ b >= 1 /\ Line'[1] = "$" /\ lost' >= 1
  BY <1>0, <1>1, SettledLine
<1>3. Len(Line') = b
  BY <1>0, <1>1
<1>4. Remains(b)'
  BY <1>1, <1>2, <1>3 DEF Remains
<1>5. QED
  BY <1>0, <1>4 DEF LineInv

LEMMA WrittenOnLine ==
    ASSUME LinkTypeOK, JamInv, Settled, uart' = uart,
           lost \in Nat, lost' \in Nat, lost' >= lost,
           NEW f, Framed(f), NEW n \in 1 .. 8,
           down' \in Seq(Char), Len(down') = n, \A i \in 1 .. n : down'[i] = f[i],
           n = 8 => f = Sent' /\ (op' = Idle => pressure'.state = "closed")
    PROVE  LineInv'
<1>0. PICK b \in Nat : b = Len(uart) /\ b <= 7
  BY SettledLine
<1>1. /\ Line = uart
      /\ \/ \A i \in 1 .. b : uart[i] # "$"
         \/ b >= 1 /\ uart[1] = "$" /\ lost >= 1
  BY <1>0, SettledLine
<1>2. /\ Len(Line') = b + n
      /\ \A i \in 1 .. b : Line'[i] = uart[i]
      /\ \A i \in 1 .. n : Line'[b + i] = f[i]
  BY <1>0, LineGrows DEF Settled
<1>3. /\ \A i \in 2 .. 8 : f[i] # "$"
      /\ \A i \in 1 .. 7 : f[i] # "\n"
      /\ f[1] = "$"
  BY DEF Framed
<1>4. \/ b >= 1 /\ Line'[1] = "$" /\ lost' >= 1
      \/ \A i \in 1 .. b : Line'[i] # "$"
  BY <1>1, <1>2
<1>5. ASSUME NEW i \in b + 2 .. Len(Line')
      PROVE  Line'[i] # "$"
  <2>1. i - b \in 2 .. 8 /\ i - b \in 1 .. n /\ b + (i - b) = i
    BY <1>1, <1>2
  <2>2. Line'[b + (i - b)] = f[i - b] /\ f[i - b] # "$"
    BY <1>2, <1>3, <2>1
  <2>3. QED
    BY <2>1, <2>2
<1>6. ASSUME NEW i \in b + 1 .. Len(Line') - 1
      PROVE  Line'[i] # "\n"
  <2>1. i - b \in 1 .. 7 /\ i - b \in 1 .. n /\ b + (i - b) = i
    BY <1>1, <1>2
  <2>2. Line'[b + (i - b)] = f[i - b] /\ f[i - b] # "\n"
    BY <1>2, <1>3, <2>1
  <2>3. QED
    BY <2>1, <2>2
<1>7. Len(Line') = b + 8 => \A i \in 1 .. 8 : Line'[b + i] = Sent'[i]
  BY <1>1, <1>2
<1>8. Line'[b + 1] = "$"
  BY <1>2, <1>3
<1>9. ASSUME Line'[Len(Line')] = "\n"
      PROVE  /\ lost' >= 8 - (Len(Line') - b)
                            + (IF b >= 1 /\ Line'[1] = "$" THEN 1 ELSE 0)
             /\ op' = Idle => pressure'.state = "closed"
  <2>1. f[n] = "\n"
    BY <1>2, <1>9
  <2>2. n = 8
    BY <1>3, <2>1
  <2>3. b >= 1 /\ Line'[1] = "$" => lost >= 1
    BY <1>1, <1>2
  <2>4. QED
    BY <1>1, <1>2, <2>2, <2>3
<1>10. down' # << >> => b = Len(uart')
  BY <1>0
<1>11. Remains(b)'
  BY <1>1, <1>2, <1>4, <1>5, <1>6, <1>7, <1>8, <1>9, <1>10 DEF Remains
<1>12. QED
  BY <1>0, <1>11 DEF LineInv

\* A former frame lets the next one through as it is.
LEMMA DeliverLine ==
    ASSUME LinkTypeOK, LineInv, Deliver
    PROVE  LineInv'
<1>1. PICK b \in 0 .. 7 : Remains(b)
  BY DEF LineInv
<1>2. Line' = Line /\ down' = << >> /\ UNCHANGED <<op, pressure, lost>>
  BY LineKept DEF Deliver, hostSide
<1>3. Remains(b)'
  BY <1>1, <1>2 DEF Remains, Sent
<1>4. QED
  BY <1>3 DEF LineInv

LEMMA LoseLine ==
    ASSUME LinkTypeOK, LineInv, OpInv, Lose
    PROVE  LineInv'
<1>1. PICK b \in 0 .. 7 : Remains(b)
  BY DEF LineInv
<1>2. /\ UNCHANGED <<uart, op, pressure>> /\ lost' = lost + 1 /\ lost \in Nat
      /\ Sent' = Sent
  BY LinkAssumption DEF Lose, boardSide, hostSide, Sent, LinkTypeOK
<1>3. CASE \E n \in DOMAIN up : up' = RemoveAt(up, n) /\ UNCHANGED down
  <2>1. Line' = Line /\ down' = down
    BY <1>2, <1>3 DEF Line
  <2>2. Remains(b)'
    BY <1>1, <1>2, <2>1 DEF Remains
  <2>3. QED
    BY <2>2 DEF LineInv
<1>4. CASE \E n \in DOMAIN down : down' = RemoveAt(down, n) /\ UNCHANGED up
  <2>1. PICK n \in DOMAIN down : down' = RemoveAt(down, n) /\ UNCHANGED up
    BY <1>4
  <2>2. /\ Len(Line') = Len(Line) - 1
        /\ \A i \in 1 .. Len(uart) + n - 1 : Line'[i] = Line[i]
        /\ \A i \in Len(uart) + n .. Len(Line) - 1 : Line'[i] = Line[i + 1]
    BY <2>1, LineLoses
  <2>3. n \in 1 .. Len(down) /\ down # << >> /\ Len(Line) \in Nat
        /\ Len(Line) = Len(uart) + Len(down)
    BY <2>1, LineType
  <2>4. b = Len(uart)
    BY <1>1, <2>3 DEF Remains
  <2>5. PICK k \in Nat : k = b + n
    BY <2>3
  <2>6. /\ k \in b + 1 .. Len(Line)
        /\ \A i \in 1 .. k - 1 : Line'[i] = Line[i]
        /\ \A i \in k .. Len(Line) - 1 : Line'[i] = Line[i + 1]
    BY <2>2, <2>3, <2>4, <2>5
  <2>7. \/ b >= 1 /\ Line'[1] = "$" /\ lost' >= 1
        \/ \A i \in 1 .. b : Line'[i] # "$"
    <3>1. 1 \in 1 .. k - 1 \/ b = 0
      BY <2>6
    <3>2. \/ b >= 1 /\ Line[1] = "$" /\ lost >= 1
          \/ \A i \in 1 .. b : Line[i] # "$"
      BY <1>1 DEF Remains
    <3>3. \A i \in 1 .. b : i \in 1 .. k - 1
      BY <2>6
    <3>4. QED
      BY <1>2, <2>6, <3>1, <3>2, <3>3
  <2>8. ASSUME NEW i \in b + 2 .. Len(Line')
        PROVE  Line'[i] # "$"
    <3>1. CASE i < k
      <4>1. i \in b + 2 .. Len(Line) /\ i \in 1 .. k - 1
        BY <2>2, <2>3, <2>6, <3>1
      <4>2. QED
        BY <1>1, <2>6, <4>1 DEF Remains
    <3>2. CASE i >= k
      <4>1. i + 1 \in b + 2 .. Len(Line) /\ i \in k .. Len(Line) - 1
        BY <2>2, <2>3, <2>6, <3>2
      <4>2. QED
        BY <1>1, <2>6, <4>1 DEF Remains
    <3>3. QED
      BY <2>3, <3>1, <3>2
  <2>9. ASSUME NEW i \in b + 1 .. Len(Line') - 1
        PROVE  Line'[i] # "\n"
    <3>1. CASE i < k
      <4>1. i \in b + 1 .. Len(Line) - 1 /\ i \in 1 .. k - 1
        BY <2>2, <2>3, <2>6, <3>1
      <4>2. QED
        BY <1>1, <2>6, <4>1 DEF Remains
    <3>2. CASE i >= k
      <4>1. i + 1 \in b + 1 .. Len(Line) - 1 /\ i \in k .. Len(Line) - 1
        BY <2>2, <2>3, <2>6, <3>2
      <4>2. QED
        BY <1>1, <2>6, <4>1 DEF Remains
    <3>3. QED
      BY <2>3, <3>1, <3>2
  <2>10. ASSUME Len(Line') = b + 7, Line'[b + 1] # "$"
         PROVE  \A i \in 1 .. 7 : Line'[b + i] = Sent'[i + 1]
    <3>1. Len(Line) = b + 8
      BY <2>2, <2>3, <2>10
    <3>2. /\ \A i \in 1 .. 8 : Line[b + i] = Sent[i]
          /\ Sent[1] = "$"
      BY <1>1, <3>1, OpFacts DEF Remains, Framed
    <3>3. k = b + 1
      <4>1. SUFFICES ASSUME k > b + 1 PROVE FALSE
        BY <2>3, <2>6
      <4>2. Line'[b + 1] = Line[b + 1]
        BY <2>6, <4>1
      <4>3. QED
        BY <2>10, <3>2, <4>2
    <3>4. ASSUME NEW i \in 1 .. 7
          PROVE  Line'[b + i] = Sent'[i + 1]
      <4>1. b + i \in k .. Len(Line) - 1
        BY <3>1, <3>3
      <4>2. Line'[b + i] = Line[b + (i + 1)]
        BY <2>6, <4>1
      <4>3. i + 1 \in 1 .. 8
        OBVIOUS
      <4>4. QED
        BY <1>2, <3>2, <4>2, <4>3
    <3>5. QED
      BY <3>4
  <2>11. ASSUME Len(Line') > b, Line'[Len(Line')] = "\n"
         PROVE  /\ lost' >= 8 - (Len(Line') - b)
                               + (IF b >= 1 /\ Line'[1] = "$" THEN 1 ELSE 0)
                /\ op' = Idle => pressure'.state = "closed"
    <3>1. Len(Line') \in b + 1 .. Len(Line) - 1
      BY <2>2, <2>3, <2>11
    <3>2. k # Len(Line)
      <4>1. SUFFICES ASSUME k = Len(Line) PROVE FALSE
        OBVIOUS
      <4>2. Line'[Len(Line')] = Line[Len(Line')]
        BY <2>2, <2>6, <3>1, <4>1
      <4>3. QED
        BY <1>1, <2>11, <3>1, <4>2 DEF Remains
    <3>3. Line[Len(Line)] = "\n"
      <4>1. Len(Line') \in k .. Len(Line) - 1
        BY <2>2, <2>3, <2>6, <3>2
      <4>2. Line'[Len(Line')] = Line[Len(Line') + 1]
        BY <2>6, <4>1
      <4>3. Len(Line') + 1 = Len(Line)
        BY <2>2, <2>3
      <4>4. QED
        BY <2>11, <4>2, <4>3
    <3>4. b >= 1 => Line'[1] = Line[1]
      BY <2>6
    <3>5. /\ lost >= 8 - (Len(Line) - b) + (IF b >= 1 /\ Line[1] = "$" THEN 1 ELSE 0)
          /\ op = Idle => pressure.state = "closed"
      BY <1>1, <2>2, <2>3, <2>11, <3>3 DEF Remains
    <3>6. QED
      BY <1>2, <2>2, <2>3, <3>4, <3>5
  <2>12. /\ b <= Len(Line') /\ Len(Line') < b + 8
         /\ b = Len(uart')
    <3>1. Len(Line) <= b + 8
      BY <1>1 DEF Remains
    <3>2. QED
      BY <1>2, <2>2, <2>3, <2>4, <2>6, <3>1
  <2>13. Remains(b)'
    BY <2>7, <2>8, <2>9, <2>10, <2>11, <2>12 DEF Remains
  <2>14. QED
    BY <2>13 DEF LineInv
<1>5. QED
  BY <1>3, <1>4 DEF Lose

\* What is left of the line when no command begins on it any more.
LEMMA LineWithoutStart ==
    ASSUME Line' \in Seq(Char), Len(Line') <= 7, down' = << >>,
           \A i \in 1 .. Len(Line') : Line'[i] # "$"
    PROVE  LineInv'
<1>1. PICK b \in Nat : b = Len(Line') /\ b <= 7
  BY LenProperties
<1>2. Remains(b)'
  BY <1>1 DEF Remains
<1>3. QED
  BY <1>1, <1>2 DEF LineInv

LEMMA SkipLine ==
    ASSUME LinkTypeOK, LineInv, Skip
    PROVE  LineInv'
<1>1. PICK b \in 0 .. 7 : Remains(b)
  BY DEF LineInv
<1>2. UNCHANGED <<down, op, pressure, lost>> /\ Sent' = Sent
  BY DEF Skip, hostSide, Sent
<1>3. /\ Len(uart) >= 1 /\ Len(uart) \in Nat /\ Len(uart') = Len(uart) - 1
      /\ Len(Line) \in Nat /\ Len(Line) >= 1
      /\ Len(Line') = Len(Line) - 1
      /\ \A i \in 1 .. Len(Line) - 1 : Line'[i] = Line[1 + i]
  BY SkipTakes, LineType DEF Taken
<1>4. Line[1] # "$"
  BY <1>3, LineType DEF Skip
<1>5. /\ b <= Len(Line) /\ Len(Line) <= b + 8
      /\ \A i \in 1 .. b : Line[i] # "$"
      /\ \A i \in b + 2 .. Len(Line) : Line[i] # "$"
  BY <1>1, <1>4 DEF Remains
<1>6. CASE b = 0
  <2>1. down = << >>
    BY <1>1, <1>3, <1>6 DEF Remains
  <2>2. Line' \in Seq(Char) /\ Len(Line') <= 7
    BY <1>2, <1>3, <1>5, <1>6, <2>1, SkipTakes, ConcatEmptySeq
       DEF Taken, Line, Cat
  <2>3. ASSUME NEW i \in 1 .. Len(Line')
        PROVE  Line'[i] # "$"
    BY <1>3, <1>5, <1>6
  <2>4. QED
    BY <1>2, <2>1, <2>2, <2>3, LineWithoutStart
<1>7. CASE b >= 1
  <2>1. PICK c \in 0 .. 6 : b = c + 1
    BY <1>7
  <2>2. \A i \in 1 .. c : Line'[i] # "$"
    BY <1>3, <1>5, <2>1
  <2>3. ASSUME NEW i \in c + 2 .. Len(Line')
        PROVE  Line'[i] # "$"
    <3>1. 1 + i \in b + 2 .. Len(Line) /\ i \in 1 .. Len(Line) - 1
      BY <1>3, <2>1
    <3>2. QED
      BY <1>3, <1>5, <3>1
  <2>4. ASSUME NEW i \in c + 1 .. Len(Line') - 1
        PROVE  Line'[i] # "\n"
    <3>1. 1 + i \in b + 1 .. Len(Line) - 1 /\ i \in 1 .. Len(Line) - 1
      BY <1>3, <2>1
    <3>2. QED
      BY <1>1, <1>3, <3>1 DEF Remains
  <2>5. \A i \in 1 .. 8 : i <= Len(Line) - b => Line'[c + i] = Line[b + i]
    <3>1. ASSUME NEW i \in 1 .. 8, i <= Len(Line) - b
          PROVE  Line'[c + i] = Line[b + i]
      <4>1. c + i \in 1 .. Len(Line) - 1 /\ 1 + (c + i) = b + i
        BY <1>3, <2>1, <3>1
      <4>2. QED
        BY <1>3, <4>1
    <3>2. QED
      BY <3>1
  <2>6. Len(Line') - c = Len(Line) - b
    BY <1>3, <2>1
  <2>7. Len(Line') = c + 8 => \A i \in 1 .. 8 : Line'[c + i] = Sent'[i]
    <3>1. ASSUME Len(Line') = c + 8, NEW i \in 1 .. 8
          PROVE  Line'[c + i] = Sent'[i]
      <4>1. Len(Line) = b + 8 /\ i <= Len(Line) - b
        BY <1>3, <2>6, <3>1
      <4>2. Line[b + i] = Sent[i]
        BY <1>1, <4>1 DEF Remains
      <4>3. QED
        BY <1>2, <2>5, <4>1, <4>2
    <3>2. QED
      BY <3>1
  <2>8. ASSUME Len(Line') = c + 7, Line'[c + 1] # "$", Line'[c + 7] = "\n"
        PROVE  \A i \in 1 .. 7 : Line'[c + i] = Sent'[i + 1]
    <3>1. Len(Line) = b + 7
      BY <1>3, <2>6, <2>8
    <3>2. Line[b + 1] = Line'[c + 1] /\ Line[b + 7] = Line'[c + 7]
      BY <1>3, <2>5, <3>1
    <3>3. \A i \in 1 .. 7 : Line[b + i] = Sent[i + 1]
      BY <1>1, <2>8, <3>1, <3>2 DEF Remains
    <3>4. ASSUME NEW i \in 1 .. 7
          PROVE  Line'[c + i] = Sent'[i + 1]
      <4>1. i \in 1 .. 8 /\ i <= Len(Line) - b
        BY <1>3, <3>1
      <4>2. QED
        BY <1>2, <2>5, <3>3, <4>1
    <3>5. QED
      BY <3>4
  <2>9. ASSUME Len(Line') > c, Line'[Len(Line')] = "\n"
        PROVE  /\ lost' >= 8 - (Len(Line') - c)
                              + (IF c >= 1 /\ Line'[1] = "$" THEN 1 ELSE 0)
               /\ op' = Idle => pressure'.state = "closed"
    <3>1. Len(Line') \in 1 .. Len(Line) - 1 /\ 1 + Len(Line') = Len(Line)
      BY <1>3, <2>1, <2>9
    <3>2. Line[Len(Line)] = "\n" /\ Len(Line) > b
      BY <1>3, <2>1, <2>9, <3>1
    <3>3. /\ lost >= 8 - (Len(Line) - b) + (IF b >= 1 /\ Line[1] = "$" THEN 1 ELSE 0)
          /\ op = Idle => pressure.state = "closed"
      BY <1>1, <3>2 DEF Remains
    <3>4. lost >= 8 - (Len(Line) - b)
      BY <1>4, <3>3
    <3>5. ~(c >= 1 /\ Line'[1] = "$")
      BY <2>2
    <3>6. QED
      BY <1>2, <2>6, <3>3, <3>4, <3>5
  <2>10. down' # << >> => c = Len(uart')
    BY <1>1, <1>2, <1>3, <2>1 DEF Remains
  <2>11. c <= Len(Line') /\ Len(Line') <= c + 8
    BY <1>3, <1>5, <2>1
  <2>12. Remains(c)'
    BY <2>2, <2>3, <2>4, <2>7, <2>8, <2>9, <2>10, <2>11 DEF Remains
  <2>13. QED
    BY <2>12 DEF LineInv
<1>8. QED
  BY <1>6, <1>7

LEMMA CommandLine ==
    ASSUME LinkTypeOK, LineInv, Discard \/ Execute
    PROVE  LineInv'
<1>1. /\ down = << >> /\ Line = uart /\ Len(uart) \in Nat /\ Len(uart) <= 15
      /\ \A i \in 9 .. Len(uart) : uart[i] # "$"
  BY CommandAlone, LineType DEF Discard, Execute, LinkTypeOK
<1>2. /\ Len(Line') = Len(Line) - 8
      /\ \A i \in 1 .. Len(Line) - 8 : Line'[i] = Line[8 + i]
      /\ uart' \in Seq(Char) /\ down' = << >>
  BY <1>1, CommandTakes DEF Taken, Discard, Execute
<1>3. Line' \in Seq(Char)
  BY <1>2, ConcatEmptySeq DEF Line, Cat
<1>4. Len(Line') <= 7 /\ \A i \in 1 .. Len(Line') : Line'[i] # "$"
  BY <1>1, <1>2
<1>5. QED
  BY <1>2, <1>3, <1>4, LineWithoutStart

LEMMA LineStep ==
    ASSUME LinkTypeOK, OpInv, LenInv, SettledInv, JamInv, LineInv, Next
    PROVE  LineInv'
<1>1. lost \in Nat /\ (lost' = lost \/ lost' = lost + 1)
  BY LostGrows
<1>2. CASE ClosePressure
  <2>1. Framed(DisableMux.frame) /\ Settled
    BY <1>2, FramesFramed, QuietSettled DEF Exchanges, ClosePressure
  <2>2. /\ down' = DisableMux.frame /\ UNCHANGED <<uart, lost, op>>
        /\ pressure'.state = "closed" /\ op = Idle
    BY <1>2 DEF ClosePressure, boardSide, LinkTypeOK
  <2>3. Sent' = DisableMux.frame
    BY <2>2 DEF Sent
  <2>4. PICK n \in Nat : n = Len(down')
    BY <2>1, <2>2, FramedLen, LenProperties
  <2>5. n = 8 /\ down' \in Seq(Char)
    <3>1. down' \in Seq(Char) /\ Len(down') <= 8 /\ Len(down') >= 8
      BY <2>1, <2>2, FramedLen
    <3>2. QED
      BY <2>4, <3>1
  <2>6. \A i \in 1 .. n : down'[i] = DisableMux.frame[i]
    BY <2>2
  <2>7. QED
    BY <1>1, <2>1, <2>2, <2>3, <2>4, <2>5, <2>6, WrittenOnLine
<1>3. CASE Write
  <2>1. Framed(op.frame) /\ Settled
    BY <1>3, OpFacts, HostSettled DEF Write
  <2>2. /\ down' = op.frame /\ UNCHANGED <<uart, lost, op>> /\ op # Idle
    BY <1>3 DEF Write, boardSide, LinkTypeOK
  <2>3. Sent' = op.frame /\ op' # Idle
    BY <2>2 DEF Sent
  <2>4. PICK n \in Nat : n = Len(down')
    BY <2>1, <2>2, FramedLen, LenProperties
  <2>5. n = 8 /\ down' \in Seq(Char)
    <3>1. down' \in Seq(Char) /\ Len(down') <= 8 /\ Len(down') >= 8
      BY <2>1, <2>2, FramedLen
    <3>2. QED
      BY <2>4, <3>1
  <2>6. \A i \in 1 .. n : down'[i] = op.frame[i]
    BY <2>2
  <2>7. QED
    BY <1>1, <2>1, <2>2, <2>3, <2>4, <2>5, <2>6, WrittenOnLine
<1>4. CASE WriteFails
  <2>1. Framed(op.frame) /\ Settled /\ uart' = uart
    BY <1>4, OpFacts, HostSettled DEF WriteFails, boardSide
  <2>2. CASE down' = << >> /\ UNCHANGED lost
    BY <2>1, <2>2, SettledStays
  <2>3. CASE ~(down' = << >> /\ UNCHANGED lost)
    <3>1. PICK n \in 1 .. 7 : down' = Take(op.frame, n)
      BY <1>4, <2>3 DEF WriteFails, Take
    <3>2. n \in 0 .. Len(op.frame) /\ op.frame \in Seq(Char)
      BY <2>1, FramedLen
    <3>3. /\ down' \in Seq(Char) /\ Len(down') = n
          /\ \A i \in 1 .. n : down'[i] = op.frame[i]
      BY <3>1, <3>2, TakeFacts
    <3>4. n \in 1 .. 8 /\ n # 8
      OBVIOUS
    <3>5. QED
      BY <1>1, <2>1, <3>3, <3>4, WrittenOnLine
  <2>4. QED
    BY <2>2, <2>3
<1>5. CASE BeginCall \/ OpenPressure \/ Timeout
  <2>1. Settled /\ UNCHANGED <<uart, down, lost>>
    BY <1>5, QuietSettled DEF BeginCall, OpenPressure, Timeout, Silence, boardSide
  <2>2. QED
    BY <2>1, SettledStays DEF Settled
<1>6. CASE GetLine \/ Succeed \/ Retry
  <2>1. GetLine => up # << >>
    BY LineType, EmptySeq DEF GetLine, LineEnds
  <2>2. Settled /\ UNCHANGED <<uart, down, lost>>
    BY <1>6, <2>1, HostSettled DEF GetLine, Succeed, Retry, boardSide
  <2>3. QED
    BY <2>2, SettledStays DEF Settled
<1>7. QED
  BY <1>2, <1>3, <1>4, <1>5, <1>6, DeliverLine, LoseLine, SkipLine, CommandLine
     DEF Next, Firmware, Host

-----------------------------------------------------------------------------
(* What a spoilt try costs                                                 *)

LEMMA CreditStays ==
    ASSUME LinkTypeOK, LineInv, OpInv, LenInv, Next, NEW n \in Nat, Credit(n)
    PROVE  Credit(n)'
<1>1. lost \in Nat /\ (lost' = lost \/ lost' = lost + 1)
  BY LostGrows
<1>2. CASE lost' = lost + 1
  BY <1>1, <1>2 DEF Credit
<1>3. CASE lost' = lost /\ NoJam
  BY <1>3, FreeStep DEF Credit
<1>4. CASE lost' = lost /\ ~NoJam
  BY <1>4 DEF Credit
<1>5. QED
  BY <1>1, <1>2, <1>3, <1>4

\* The answers of the board
LEMMA WholeAnswer ==
    ASSUME NEW c \in {"R", "A", "C"}, NEW d, NEW a1, NEW a2, NEW a3, NEW a4,
           d # "\n", a1 # "\n", a2 # "\n", a3 # "\n", a4 # "\n",
           op.frame[1] = "$", op.frame[2] = c, op.frame[3] = d,
           Compared(op) = 3,
           c = "A" => \E v \in Readings : a1 = v[1] /\ a2 = v[2] /\ a3 = v[3] /\ a4 = v[4]
    PROVE  Whole(<<"$", c, d, a1, a2, a3, a4, "\n">>)
<1> DEFINE s == <<"$", c, d, a1, a2, a3, a4, "\n">>
<1>1. s[8] = "\n" /\ \A i \in 1 .. 7 : s[i] # "\n"
  OBVIOUS
<1>2. \A i \in 1 .. Compared(op) : s[i] = op.frame[i]
  OBVIOUS
<1>3. op.frame[2] = "A" => \E v \in Readings : \A i \in 1 .. 4 : s[i + 3] = v[i]
  <2>1. SUFFICES ASSUME c = "A"
                 PROVE  \E v \in Readings : \A i \in 1 .. 4 : s[i + 3] = v[i]
    OBVIOUS
  <2>2. PICK v \in Readings : a1 = v[1] /\ a2 = v[2] /\ a3 = v[3] /\ a4 = v[4]
    BY <2>1
  <2>3. s[4] = v[1] /\ s[5] = v[2] /\ s[6] = v[3] /\ s[7] = v[4]
    BY <2>2
  <2>4. \A i \in 1 .. 4 : s[i + 3] = v[i]
    BY <2>3
  <2>5. QED
    BY <2>4
<1>4. QED
  BY <1>1, <1>2, <1>3 DEF Whole

LEMMA AnswerWhole ==
    ASSUME LinkTypeOK, OpInv, hpc # "idle", up = << >>, Execute,
           \A i \in 1 .. 8 : uart[i] = op.frame[i]
    PROVE  Len(up') = FrameLen /\ Whole(up')
<1>1. \A i \in 1 .. 7 : Cmd(i) = op.frame[i + 1]
  BY DEF Cmd
<1>2. \A s \in Seq(Char) : << >> \o s = s
  BY ConcatEmptySeq
<1>3. /\ uart \in Seq(Char) /\ Len(uart) >= 8
      /\ SwitchRelay \/ AnswerAnalog \/ ChangeMux \/ Ignore
  BY LineType DEF Execute, Command
<1>4. \A c \in Relays \union Pins \union MuxChannels : c \in Char /\ c # "\n"
  BY Chars, LinkAssumption
<1>5. CASE op \in RelayCalls
  <2>1. PICK r \in Relays : op.frame[2] = "R" /\ op.frame[3] = r /\ op.kind = "relay"
    BY <1>5, Frames DEF RelayCalls
  <2>2. SwitchRelay
    BY <1>1, <1>3, <2>1 DEF AnswerAnalog, ChangeMux, Ignore
  <2>3. 8 \in 0 .. Len(uart)
    BY <1>3, LineType
  <2>4. /\ Take(uart, 8) \in Seq(Char)
        /\ Len(Take(uart, 8)) = FrameLen
        /\ \A i \in 1 .. 8 : Take(uart, 8)[i] = uart[i]
    <3>1. PICK n \in 0 .. Len(uart) : n = 8
      BY <2>3
    <3>2. /\ Take(uart, n) \in Seq(Char)
          /\ Len(Take(uart, n)) = n
          /\ \A i \in 1 .. n : Take(uart, n)[i] = uart[i]
      BY <1>3, TakeFacts
    <3>3. n = FrameLen
      BY <3>1 DEF FrameLen
    <3>4. Len(Take(uart, n)) = FrameLen
      BY <3>2, <3>3
    <3>5. QED
      BY <3>1, <3>2, <3>4
  <2>5. up' = Take(uart, 8)
    BY <1>1, <1>2, <2>1, <2>2, <2>4 DEF SwitchRelay, Take
  <2>6. Framed(op.frame)
    BY OpFacts
  <2>7. Whole(up')
    BY <2>1, <2>4, <2>5, <2>6 DEF Whole, Framed, Compared, Execute, hostSide
  <2>8. QED
    BY <2>4, <2>5, <2>7
<1>6. ASSUME NEW c \in {"R", "A", "C"}, NEW d \in Char, NEW a1 \in Char,
             NEW a2 \in Char, NEW a3 \in Char, NEW a4 \in Char,
             up' = << >> \o <<"$", c, d, a1, a2, a3, a4, "\n">>,
             Whole(<<"$", c, d, a1, a2, a3, a4, "\n">>)
      PROVE  Len(up') = FrameLen /\ Whole(up')
  <2> DEFINE s == <<"$", c, d, a1, a2, a3, a4, "\n">>
  <2>1. s \in Seq(Char) /\ Len(s) = FrameLen
    BY Chars DEF FrameLen
  <2>2. up' = s
    BY <1>2, <1>6, <2>1
  <2>3. QED
    BY <1>6, <2>1, <2>2 DEF Whole, Execute, hostSide
<1>7. CASE op \in AnalogReads
  <2>1. PICK p \in Pins : op.frame = <<"$", "A", p, "x", "x", "x", "x", "\n">>
                          /\ op.kind = "ask"
    BY <1>7, Frames DEF AnalogReads
  <2>2. op.frame[1] = "$" /\ op.frame[2] = "A" /\ op.frame[3] = p
    BY <2>1
  <2>3. AnswerAnalog
    BY <1>1, <1>3, <2>2 DEF SwitchRelay, ChangeMux, Ignore
  <2>4. PICK v \in Readings :
           up' = << >> \o <<"$", "A", p, v[1], v[2], v[3], v[4], "\n">>
    BY <1>1, <2>2, <2>3 DEF AnswerAnalog
  <2>5. \A i \in 1 .. 4 : v[i] \in Char /\ v[i] # "\n"
    BY <2>4, Chars, LinkAssumption
  <2>6. p \in Char /\ p # "\n" /\ Compared(op) = 3
    BY <1>4, <2>1 DEF Compared
  <2>7. Whole(<<"$", "A", p, v[1], v[2], v[3], v[4], "\n">>)
    BY <2>2, <2>4, <2>5, <2>6, WholeAnswer
  <2>8. QED
    BY <1>6, <2>4, <2>5, <2>6, <2>7
<1>8. CASE op \in {SelectChannel(pressure.channel), EnableMux}
  <2>1. pressure.channel \in MuxChannels
    BY DEF LinkTypeOK
  <2>2. CASE op = SelectChannel(pressure.channel)
    <3> DEFINE n == pressure.channel
    <3>1. op.frame = <<"$", "C", "S", n, "x", "x", "x", "\n">> /\ op.kind = "ask"
      BY <2>1, <2>2, Frames
    <3>2. /\ op.frame[1] = "$" /\ op.frame[2] = "C" /\ op.frame[3] = "S"
          /\ op.frame[4] = n
      BY <3>1
    <3>3. ChangeMux
      BY <1>1, <1>3, <3>2 DEF SwitchRelay, AnswerAnalog, Ignore
    <3>4. up' = << >> \o <<"$", "C", "S", "0", "0", "0", n, "\n">>
      BY <1>1, <2>1, <3>2, <3>3 DEF ChangeMux
    <3>5. n \in Char /\ n # "\n" /\ Compared(op) = 3 /\ "0" \in Char /\ "S" \in Char
      BY <1>4, <2>1, <3>1, Chars DEF Compared
    <3>6. Whole(<<"$", "C", "S", "0", "0", "0", n, "\n">>)
      BY <3>2, <3>5, WholeAnswer
    <3>7. QED
      BY <1>6, <3>4, <3>5, <3>6
  <2>3. CASE op = EnableMux
    <3>1. op.frame = <<"$", "C", "E", "x", "x", "x", "x", "\n">> /\ op.kind = "ask"
      BY <2>3, Frames
    <3>2. op.frame[1] = "$" /\ op.frame[2] = "C" /\ op.frame[3] = "E"
      BY <3>1
    <3>3. ChangeMux
      BY <1>1, <1>3, <3>2 DEF SwitchRelay, AnswerAnalog, Ignore
    <3>4. up' = << >> \o <<"$", "C", "E", "x", "x", "x", "x", "\n">>
      BY <1>1, <3>2, <3>3 DEF ChangeMux
    <3>5. Compared(op) = 3 /\ "x" \in Char /\ "E" \in Char
      BY <3>1, Chars DEF Compared
    <3>6. Whole(<<"$", "C", "E", "x", "x", "x", "x", "\n">>)
      BY <3>2, <3>5, WholeAnswer
    <3>7. QED
      BY <1>6, <3>4, <3>5, <3>6
  <2>4. QED
    BY <1>8, <2>2, <2>3
<1>9. QED
  BY <1>5, <1>7, <1>8 DEF OpInv

LEMMA WrittenClean ==
    ASSUME LinkTypeOK, OpInv, LenInv, SettledInv, JamInv, NoJam, Write
    PROVE  Clean'
<1>1. Framed(op.frame) /\ Settled
  BY OpFacts, HostSettled DEF Write
<1>2. PICK b \in Nat : b = Len(uart) /\ b <= 7
  BY <1>1, SettledLine
<1>3. Line = uart
  BY <1>1, SettledLine
<1>4. \A i \in 1 .. b : uart[i] # "$"
  <2>1. SUFFICES ASSUME b >= 1, uart[1] = "$" PROVE FALSE
    BY <1>1, <1>2, SettledLine
  <2>2. 1 + 7 <= Len(Line)
    BY <1>2, <1>3, <2>1 DEF NoJam
  <2>3. QED
    BY <1>2, <1>3, <2>2
<1>5. /\ up' = << >> /\ uart' = uart /\ down' = op.frame /\ Sent' = op.frame
      /\ down = << >>
  BY <1>1 DEF Write, boardSide, Sent, LinkTypeOK, Settled
<1>6. PICK n \in Nat : n = FrameLen /\ n = 8
  BY DEF FrameLen
<1>7. n = Len(op.frame)
  BY <1>1, <1>6 DEF Framed
<1>8. /\ Len(Line') = b + n
      /\ \A i \in 1 .. b : Line'[i] = uart[i]
      /\ \A i \in 1 .. n : Line'[b + i] = op.frame[i]
  BY <1>1, <1>2, <1>5, <1>7, FramedLen, LineGrows
<1>9. /\ Len(Line') = b + 8
      /\ \A i \in 1 .. b : Line'[i] # "$"
      /\ \A i \in 1 .. 8 : Line'[b + i] = Sent'[i]
  BY <1>4, <1>5, <1>6, <1>8
<1>10. b \in 0 .. 7
  BY <1>2
<1>11. QED
  BY <1>5, <1>9, <1>10 DEF Clean

LEMMA CleanStep ==
    ASSUME LinkTypeOK, OpInv, LenInv, LineInv, hpc = "read", Clean,
           Deliver \/ Firmware
    PROVE  Clean'
<1>1. UNCHANGED <<op, hpc>> /\ Sent' = Sent /\ Sent = op.frame
  BY OpFacts DEF Deliver, Firmware, Skip, Discard, Execute, hostSide, Sent
<1>2. Framed(op.frame) /\ Len(uart) \in Nat /\ (uart = << >> <=> Len(uart) = 0)
  BY OpFacts, LineType
<1>3. CASE Len(up) = FrameLen /\ Whole(up)
  <2>1. up # << >>
    BY <1>3, EmptySeq DEF FrameLen
  <2>2. Len(uart) <= 7
    BY <2>1 DEF LenInv
  <2>3. ~Discard /\ ~Execute
    BY <1>2, <2>2 DEF Discard, Execute, Command
  <2>4. up' = up
    BY <2>3 DEF Deliver, Firmware, Skip
  <2>5. QED
    BY <1>1, <1>3, <2>4 DEF Clean, Whole, Compared
<1>4. ASSUME up = << >>, NEW b \in 0 .. 7, Len(Line) = b + 8,
             \A i \in 1 .. b : Line[i] # "$",
             \A i \in 1 .. 8 : Line[b + i] = Sent[i]
      PROVE  Clean'
  <2>1. Sent[1] = "$" /\ Sent[8] = "\n"
    BY <1>1, <1>2 DEF Framed
  <2>2. CASE Deliver
    <3>1. Line' = Line /\ up' = up
      BY <2>2, LineKept DEF Deliver
    <3>2. QED
      BY <1>1, <1>4, <3>1 DEF Clean
  <2>3. CASE Skip
    <3>1. /\ Len(Line') = Len(Line) - 1
          /\ \A i \in 1 .. Len(Line) - 1 : Line'[i] = Line[1 + i]
          /\ up' = up
      BY <2>3, SkipTakes DEF Taken, Skip
    <3>2. Line[1] # "$"
      <4>1. Len(uart) >= 1 /\ uart[1] # "$"
        BY <1>2, <2>3 DEF Skip
      <4>2. QED
        BY <1>2, <4>1, LineType
    <3>3. b # 0
      <4>1. SUFFICES ASSUME b = 0 PROVE FALSE
        OBVIOUS
      <4>2. Line[b + 1] = "$"
        BY <1>4, <2>1
      <4>3. QED
        BY <3>2, <4>1, <4>2
    <3>4. PICK c \in 0 .. 7 : b = c + 1
      BY <3>3
    <3>5. Len(Line') = c + 8 /\ \A i \in 1 .. c : Line'[i] # "$"
      BY <1>4, <3>1, <3>4
    <3>6. ASSUME NEW i \in 1 .. 8
          PROVE  Line'[c + i] = Sent[i]
      <4>1. c + i \in 1 .. Len(Line) - 1 /\ 1 + (c + i) = b + i
        BY <1>4, <3>4
      <4>2. QED
        BY <1>4, <3>1, <4>1
    <3>7. QED
      BY <1>1, <1>4, <3>1, <3>5, <3>6 DEF Clean
  <2>4. ASSUME Discard \/ Execute
        PROVE  \A i \in 1 .. 8 : uart[i] = op.frame[i]
    <3>1. Line = uart /\ uart[1] = "$" /\ Len(uart) >= 8
      BY <2>4, CommandAlone DEF Discard, Execute
    <3>2. b = 0
      BY <1>4, <3>1
    <3>3. QED
      BY <1>1, <1>4, <3>1, <3>2
  <2>5. CASE Discard
    <3>1. uart[8] = "\n"
      BY <1>1, <2>1, <2>4, <2>5
    <3>2. QED
      BY <2>5, <3>1 DEF Discard, Ends, Cmd
  <2>6. CASE Execute
    <3>1. Len(up') = FrameLen /\ Whole(up')
      BY <1>4, <2>4, <2>6, AnswerWhole
    <3>2. QED
      BY <1>1, <3>1 DEF Clean, Whole, Compared
  <2>7. QED
    BY <2>2, <2>3, <2>5, <2>6 DEF Firmware
<1>5. QED
  BY <1>3, <1>4 DEF Clean

LEMMA WholeMatches ==
    ASSUME Whole(buffer_read)
    PROVE  Matches
BY DEF Whole, Matches

\* A line of the board that nothing happened to is received as it is.
LEMMA CleanReceived ==
    ASSUME LinkTypeOK, LenInv, hpc = "read", Clean, GetLine
    PROVE  Whole(buffer_read)'
<1>1. PICK n \in LineEnds : /\ \A m \in LineEnds : n <= m
                            /\ buffer_read' = Received(n, TRUE)
  BY DEF GetLine
<1>2. up # << >>
  BY <1>1, LineType, EmptySeq DEF LineEnds
<1>3. Len(up) = FrameLen /\ Whole(up)
  BY <1>2 DEF Clean
<1>4. PICK k \in Nat : k = Len(up) /\ k = 8 /\ LineEnds = {m \in 1 .. k : up[m] = "\n"}
  <2>1. FrameLen \in Nat /\ FrameLen = 8
    BY DEF FrameLen
  <2>2. DOMAIN up = 1 .. Len(up)
    BY LineType, LenProperties
  <2>3. QED
    BY <1>3, <2>1, <2>2 DEF LineEnds
<1>5. n = 8
  BY <1>1, <1>3, <1>4 DEF Whole
<1>6. \A i \in 1 .. 8 : buffer_read'[i] = up[i]
  BY <1>1, <1>5 DEF Received
<1>7. op' = op
  BY DEF GetLine
<1>8. Compared(op) \in {3, 8}
  BY DEF Compared
<1>9. QED
  BY <1>3, <1>6, <1>7, <1>8 DEF Whole, Compared

\* The board answers every command that arrives as it was written.
LEMMA TimeoutCosts ==
    ASSUME LinkTypeOK, JamInv, CreditInv, Timeout
    PROVE  Credit(tries + 1)
<1>1. Line = uart /\ Len(uart) <= 7
  BY QuietSettled, SettledLine DEF Timeout, Silence
<1>2. ASSUME Len(up) = FrameLen, up[8] = "\n"
      PROVE  FALSE
  <2>1. PICK k \in Nat : k = FrameLen /\ k = 8
    BY DEF FrameLen
  <2>2. 8 \in DOMAIN up
    BY <1>2, <2>1, LineType, LenProperties
  <2>3. QED
    BY <1>2, <2>2 DEF Timeout, Silence, LineEnds
<1>3. ~Clean
  BY <1>1, <1>2 DEF Clean, Whole
<1>4. QED
  BY <1>3 DEF CreditInv, Timeout

LEMMA CreditStep ==
    ASSUME LinkTypeOK, OpInv, LenInv, SettledInv, TriesInv, JamInv, LineInv,
           CreditInv, Next
    PROVE  CreditInv'
<1>1. lost \in Nat /\ (lost' = lost \/ lost' = lost + 1)
  BY LostGrows
<1>2. PICK n \in Nat : n = tries
  BY LinkAssumption DEF LinkTypeOK
<1>3. /\ Credit(n) => Credit(n)'
      /\ Credit(n + 1) => Credit(n + 1)'
  BY CreditStays
<1>4. CASE Lose
  <2>1. UNCHANGED <<hpc, tries, buffer_read, op>> /\ lost' = lost + 1
    BY <1>4 DEF Lose, hostSide
  <2>2. n <= 2 * lost => Credit(n + 1)'
    BY <1>1, <2>1 DEF Credit
  <2>3. QED
    BY <1>1, <1>2, <1>3, <2>1, <2>2 DEF CreditInv, Whole, Compared
<1>5. CASE Deliver \/ Firmware
  <2>1. UNCHANGED <<hpc, tries, buffer_read, op, lost>>
    BY <1>5 DEF Deliver, Firmware, Skip, Discard, Execute, hostSide
  <2>2. hpc = "read" /\ Clean => Clean'
    BY <1>5, CleanStep
  <2>3. QED
    BY <1>2, <1>3, <2>1, <2>2 DEF CreditInv, Whole, Compared
<1>6. CASE BeginCall \/ OpenPressure \/ (Succeed /\ Enabling)
  <2>1. hpc' = "try" /\ tries' = 0 /\ lost' = lost
    BY <1>6 DEF BeginCall, OpenPressure, Succeed, Begin
  <2>2. Credit(0)
    BY <1>1 DEF JamInv, Credit
  <2>3. Credit(0)'
    BY <2>2, CreditStays
  <2>4. QED
    BY <2>1, <2>3 DEF CreditInv
<1>7. CASE hpc' = "idle"
  BY <1>7 DEF CreditInv
<1>8. CASE Write
  <2>1. hpc = "try" /\ hpc' = "read" /\ tries' = tries /\ lost' = lost
    BY <1>8 DEF Write
  <2>2. CASE NoJam /\ n <= 2 * lost
    <3>1. Clean'
      BY <1>8, <2>2, WrittenClean
    <3>2. QED
      BY <1>2, <2>1, <2>2, <3>1 DEF CreditInv
  <2>3. CASE n + 1 <= 2 * lost
    <3>1. Framed(op.frame) /\ down = << >> /\ down' = op.frame /\ uart' = uart
      BY <1>8, OpFacts DEF Write, LenInv, boardSide
    <3>2. NoJam'
      BY <3>1, FrameFrees
    <3>3. Credit(n + 1)'
      BY <2>1, <2>3, <3>2 DEF Credit
    <3>4. QED
      BY <1>2, <2>1, <3>3 DEF CreditInv
  <2>4. Credit(n)
    BY <1>2, <2>1 DEF CreditInv
  <2>5. QED
    BY <2>2, <2>3, <2>4 DEF Credit
<1>9. CASE GetLine
  <2>1. hpc = "read" /\ hpc' = "check" /\ tries' = tries /\ lost' = lost
    BY <1>9 DEF GetLine
  <2>2. Clean => Whole(buffer_read)'
    BY <1>9, <2>1, CleanReceived
  <2>3. QED
    BY <1>2, <1>3, <2>1, <2>2 DEF CreditInv
<1>10. CASE Timeout
  <2>1. /\ hpc = "read" /\ hpc' \in {"check", "idle"}
        /\ tries' = tries /\ lost' = lost
    BY <1>10 DEF Timeout, TimedOut, Fail
  <2>2. Credit(n + 1)
    BY <1>2, <1>10, TimeoutCosts
  <2>3. Credit(n + 1)'
    BY <1>3, <2>2
  <2>4. QED
    BY <1>2, <2>1, <2>3 DEF CreditInv
<1>11. CASE Retry
  <2>1. hpc = "check" /\ ~Matches /\ tries' = tries + 1 /\ hpc' \in {"try", "idle"}
    BY <1>11 DEF Retry, Counted, Fail
  <2>2. Credit(n + 1)'
    BY <1>2, <1>3, <2>1, WholeMatches DEF CreditInv
  <2>3. QED
    BY <1>2, <2>1, <2>2 DEF CreditInv
<1>12. CASE ClosePressure \/ WriteFails \/ (Succeed /\ ~Enabling)
  BY <1>7, <1>12 DEF ClosePressure, WriteFails, Fail, Succeed
<1>13. QED
  BY <1>4, <1>5, <1>6, <1>8, <1>9, <1>10, <1>11, <1>12 DEF Next, Host

LEMMA FailReturned ==
    ASSUME LinkTypeOK, op.kind \in {"relay", "ask"},
           NEW e \in {"write", "timeout", "tries"}, Fail(e)
    PROVE  /\ returned'["relay"] = IF op.kind = "relay" THEN e ELSE returned["relay"]
           /\ returned'["ask"] = IF op.kind = "ask" THEN e ELSE returned["ask"]
BY FailType DEF LinkTypeOK

\* Characters 4 to 7
LEMMA SubSeqIs ==
    ASSUME NEW s, NEW S, NEW v \in [1 .. 4 -> S], \A i \in 1 .. 4 : s[i + 3] = v[i]
    PROVE  SubSeq(s, 4, 7) = v
<1>1. PICK m \in Nat, n \in Nat, k \in Nat : m = 4 /\ n = 7 /\ k = 4
  OBVIOUS
<1>2. v \in [1 .. k -> S]
  BY <1>1
<1>3. v \in Seq(S) /\ Len(v) = k
  BY <1>2
<1>4. \A i \in 1 .. k : s[m + i - 1] = v[i]
  BY <1>1
<1>5. \A i \in m .. n : s[i] \in S
  <2>1. ASSUME NEW i \in m .. n
        PROVE  s[i] \in S
    <3>1. i - 3 \in 1 .. 4 /\ i = (i - 3) + 3
      BY <1>1
    <3>2. v[i - 3] \in S /\ s[(i - 3) + 3] = v[i - 3]
      BY <3>1
    <3>3. QED
      BY <3>1, <3>2
  <2>2. QED
    BY <2>1
<1>6. /\ SubSeq(s, m, n) \in Seq(S)
      /\ Len(SubSeq(s, m, n)) = IF m <= n THEN n - m + 1 ELSE 0
      /\ \A i \in 1 .. n - m + 1 : SubSeq(s, m, n)[i] = s[m + i - 1]
  BY <1>1, <1>5, SubSeqProperties
<1>7. Len(SubSeq(s, m, n)) = k /\ n - m + 1 = k
  BY <1>1, <1>6
<1>8. SubSeq(s, m, n) = v
  BY <1>3, <1>4, <1>6, <1>7, SeqEqual
<1>9. QED
  BY <1>1, <1>8

LEMMA ToleranceStep ==
    ASSUME LinkInv, Next
    PROVE  LossTolerance'
<1> USE DEF LinkInv
<1>1. LinkTypeOK'
  BY TypeStep DEF LossTolerance
<1>2. /\ LinkTypeOK /\ lost \in Nat /\ (lost' = lost \/ lost' = lost + 1)
      /\ MaxTries \in Nat /\ tries \in Nat
  BY LostGrows, LinkAssumption DEF LossTolerance, LinkTypeOK
<1>3. hpc # "idle" => op.kind \in {"relay", "ask"}
  BY <1>2, OpFacts
<1>4. CASE UNCHANGED <<returned, accepted>>
  BY <1>1, <1>2, <1>4 DEF LossTolerance
<1>5. CASE WriteFails
  <2>1. accepted' = accepted
    BY <1>5 DEF WriteFails
  <2>2. returned'["relay"] \in {"write", returned["relay"]}
        /\ returned'["ask"] \in {"write", returned["ask"]}
    BY <1>2, <1>3, <1>5, FailReturned DEF WriteFails
  <2>3. QED
    BY <1>1, <1>2, <2>1, <2>2 DEF LossTolerance
<1>6. CASE Timeout /\ op.kind = "relay"
  <2>1. accepted' = accepted /\ lost' = lost
    BY <1>6 DEF Timeout
  <2>2. lost >= 1
    BY <1>2, <1>6, TimeoutCosts DEF Credit
  <2>3. returned'["ask"] = returned["ask"]
    BY <1>2, <1>6, FailReturned DEF Timeout, TimedOut
  <2>4. QED
    BY <1>1, <1>2, <2>1, <2>2, <2>3 DEF LossTolerance
<1>7. CASE Retry
  <2>1. accepted' = accepted /\ lost' = lost
    BY <1>7 DEF Retry
  <2>2. CASE tries' > MaxTries
    <3>1. Credit(tries + 1)
      BY <1>7, WholeMatches DEF Retry, CreditInv
    <3>2. 2 * lost > MaxTries
      BY <1>2, <1>7, <2>2, <3>1 DEF Retry, Counted, Credit
    <3>3. returned'["relay"] \in {"tries", returned["relay"]}
      BY <1>2, <1>3, <1>7, <2>2, FailReturned DEF Retry
    <3>4. QED
      BY <1>1, <1>2, <2>1, <3>2, <3>3 DEF LossTolerance
  <2>3. CASE ~(tries' > MaxTries)
    BY <1>4, <1>7, <2>3 DEF Retry
  <2>4. QED
    BY <2>2, <2>3
<1>8. CASE Succeed
  <2>1. returned'["relay"] \in {"ok", returned["relay"]}
        /\ returned'["ask"] \in {"ok", returned["ask"]}
    BY <1>2, <1>3, <1>8 DEF Succeed, LinkTypeOK
  <2>2. lost' = lost /\ accepted' \in {Idle, buffer_read}
        /\ (accepted' # Idle => op.frame[2] = "A" /\ accepted' = buffer_read)
    BY <1>8 DEF Succeed
  <2>3. ASSUME op.frame[2] = "A", lost = 0
        PROVE  SubSeq(buffer_read, 4, 7) \in Readings /\ buffer_read[8] = "\n"
    <3>1. Whole(buffer_read)
      BY <1>2, <1>8, <2>3 DEF Succeed, CreditInv, Credit
    <3>2. PICK v \in Readings : \A i \in 1 .. 4 : buffer_read[i + 3] = v[i]
      BY <2>3, <3>1 DEF Whole
    <3>3. v \in [1 .. 4 -> Digits]
      BY LinkAssumption
    <3>4. SubSeq(buffer_read, 4, 7) = v
      BY <3>2, <3>3, SubSeqIs
    <3>5. QED
      BY <3>1, <3>4 DEF Whole
  <2>4. QED
    BY <1>1, <1>2, <2>1, <2>2, <2>3 DEF LossTolerance
<1>9. CASE Deliver \/ Lose \/ Firmware
  BY <1>4, <1>9 DEF Deliver, Lose, Firmware, Skip, Discard, Execute, hostSide
<1>10. CASE BeginCall \/ OpenPressure \/ ClosePressure \/ Write \/ GetLine
  BY <1>4, <1>10 DEF BeginCall, OpenPressure, ClosePressure, Write, GetLine
<1>11. CASE Timeout /\ op.kind # "relay"
  BY <1>4, <1>11 DEF Timeout, TimedOut
<1>12. QED
  BY <1>5, <1>6, <1>7, <1>8, <1>9, <1>10, <1>11 DEF Next, Host

LEMMA InitLink == Init => LinkInv
<1> SUFFICES ASSUME Init PROVE LinkInv
  OBVIOUS
<1>1. LinkTypeOK
  BY InitType
<1>2. /\ Line = << >> /\ Len(<< >>) = 0 /\ << >> \in Seq(Char)
      /\ hpc = "idle" /\ down = << >> /\ lost = 0 /\ accepted = Idle
      /\ returned["ask"] = "none" /\ returned["relay"] = "none"
  BY <1>1, NothingDown, EmptySeq DEF Init
<1>3. LossTolerance
  BY <1>1, <1>2 DEF LossTolerance
<1>4. OpInv /\ LenInv /\ SettledInv /\ TriesInv /\ CreditInv
  BY <1>2 DEF OpInv, LenInv, SettledInv, TriesInv, CreditInv
<1>5. NoJam
  BY <1>2 DEF NoJam
<1>6. Remains(0)
  BY <1>2 DEF Remains
<1>7. QED
  BY <1>3, <1>4, <1>5, <1>6 DEF LinkInv, JamInv, LineInv

LEMMA LinkStutter ==
    ASSUME LinkInv, UNCHANGED vars
    PROVE  LinkInv'
<1>1. UNCHANGED <<down, uart, on, mux, up, op, hpc, tries, buffer_read, pressure,
                  returned, accepted, lost>>
  BY DEF vars, boardSide, hostSide
<1>2. Line' = Line /\ Sent' = Sent /\ LinkTypeOK'
  BY <1>1 DEF Line, Sent, LinkTypeOK, LinkInv, LossTolerance
<1>3. LossTolerance' /\ OpInv' /\ LenInv' /\ SettledInv' /\ TriesInv'
  BY <1>1, <1>2 DEF LinkInv, LossTolerance, OpInv, LenInv, SettledInv, TriesInv,
                    NoStart
<1>4. NoJam' = NoJam
  BY <1>2 DEF NoJam
<1>5. LineInv'
  <2>1. PICK b \in 0 .. 7 : Remains(b)
    BY DEF LinkInv, LineInv
  <2>2. Remains(b)'
    BY <1>1, <1>2, <2>1 DEF Remains
  <2>3. QED
    BY <2>2 DEF LineInv
<1>6. Clean => Clean'
  BY <1>1, <1>2 DEF Clean, Whole, Compared
<1>7. CreditInv'
  BY <1>1, <1>4, <1>6 DEF LinkInv, CreditInv, Credit, Whole, Compared
<1>8. QED
  BY <1>1, <1>3, <1>4, <1>5, <1>7 DEF LinkInv, JamInv

LEMMA LinkStep ==
    ASSUME LinkInv, [Next]_vars
    PROVE  LinkInv'
<1>1. CASE Next
  <2>1. LossTolerance'
    BY <1>1, ToleranceStep
  <2>2. OpInv' /\ LenInv' /\ SettledInv' /\ TriesInv'
    BY <1>1, OpStep, LenStep, SettledStep, TriesStep DEF LinkInv, LossTolerance
  <2>3. JamInv' /\ LineInv' /\ CreditInv'
    BY <1>1, JamStep, LineStep, CreditStep DEF LinkInv, LossTolerance
  <2>4. QED
    BY <2>1, <2>2, <2>3 DEF LinkInv
<1>2. CASE UNCHANGED vars
  BY <1>2, LinkStutter
<1>3. QED
  BY <1>1, <1>2

\* The inductive invariant of the line and of the exchanges.
THEOREM LinkInvariant == Spec => []LinkInv
<1>1. Init => LinkInv
  BY InitLink
<1>2. LinkInv /\ [Next]_vars => LinkInv'
  BY LinkStep
<1>3. QED
  BY <1>1, <1>2, PTL DEF Spec

(* Whatever the number of tries and of losses: a read that is given up has *)
(* cost the line more than half as many bytes as it had tries, a relay     *)
(* command times out only after a loss, and without a loss a reading taken *)
(* is a whole answer of the board.                                         *)
THEOREM LossToleranceHolds == Spec => []LossTolerance
<1>1. LinkInv => LossTolerance
  BY DEF LinkInv
<1>2. QED
  BY <1>1, LinkInvariant, PTL

-----------------------------------------------------------------------------
(* The contract                                                            *)

\* The command under way has been executed.
Done ==
    /\ op.kind = "relay" => (op.frame[3] \in on <=> op.frame[5] = "n")
    /\ op.kind = "ask" /\ op.frame[2] = "C" =>
          /\ op.frame[3] = "S" => mux.address = pressure.channel
          /\ op.frame[3] = "E" => mux.enabled

\* Whatever the host has received of an answer, the command was executed; and
\* no other command was.
DoneInv ==
    /\ hpc = "read" /\ up # << >> => Done
    /\ hpc # "idle" /\ buffer_read[3] = op.frame[3] => Done
    /\ op = EnableMux => mux.address = pressure.channel
    /\ ChannelSelected

TwoLost == lost <= 2 => DoneInv

\* Two losses cannot make a command of the pieces of others: what the board
\* executes is the last command, or nothing it knows.
LEMMA Executes ==
    ASSUME LinkTypeOK, OpInv, LineInv, lost <= 2, Command, Ends
    PROVE  \/ uart[2] = "$"
           \/ /\ \A i \in 1 .. 8 : uart[i] = Sent[i]
              /\ op = Idle => pressure.state = "closed"
<1>1. PICK b \in 0 .. 7 : Remains(b)
  BY DEF LineInv
<1>2. /\ Line = uart /\ Len(uart) >= 8 /\ Len(uart) \in Nat /\ uart[1] = "$"
      /\ uart[8] = "\n"
  BY CommandAlone, LineType DEF Ends, Cmd
<1>3. Sent[1] = "$" /\ lost \in Nat
  BY OpFacts, LinkAssumption DEF Framed, LinkTypeOK
<1>4. \A i \in b + 1 .. Len(uart) - 1 : uart[i] # "\n"
  BY <1>1, <1>2 DEF Remains
<1>5. PICK n \in Nat : n = Len(uart)
  BY <1>2
<1>6. n = 8
  <2>1. ~(8 \in b + 1 .. Len(uart) - 1)
    BY <1>2, <1>4
  <2>2. n >= 8 /\ ~(8 \in b + 1 .. n - 1)
    BY <1>2, <1>5, <2>1
  <2>3. QED
    BY <2>2
<1>7. /\ lost >= 8 - (n - b) + (IF b >= 1 /\ uart[1] = "$" THEN 1 ELSE 0)
      /\ op = Idle => pressure.state = "closed"
  BY <1>1, <1>2, <1>5, <1>6 DEF Remains
<1>8. CASE b = 0
  <2>1. \A i \in 1 .. 8 : uart[i] = Sent[i]
    BY <1>1, <1>2, <1>5, <1>6, <1>8 DEF Remains
  <2>2. QED
    BY <1>7, <2>1
<1>9. CASE b >= 1
  <2>1. b = 1
    BY <1>2, <1>3, <1>6, <1>7, <1>9
  <2>2. CASE uart[2] = "$"
    BY <2>2
  <2>3. CASE uart[2] # "$"
    <3>1. \A i \in 1 .. 7 : uart[1 + i] = Sent[i + 1]
      BY <1>1, <1>2, <1>5, <1>6, <2>1, <2>3 DEF Remains
    <3>2. ASSUME NEW i \in 2 .. 8
          PROVE  uart[i] = Sent[i]
      <4>1. i - 1 \in 1 .. 7 /\ 1 + (i - 1) = i /\ (i - 1) + 1 = i
        OBVIOUS
      <4>2. uart[1 + (i - 1)] = Sent[(i - 1) + 1]
        BY <3>1, <4>1
      <4>3. QED
        BY <4>1, <4>2
    <3>3. \A i \in 1 .. 8 : uart[i] = Sent[i]
      BY <1>2, <1>3, <3>2
    <3>4. QED
      BY <1>7, <3>3
  <2>4. QED
    BY <2>2, <2>3
<1>10. QED
  BY <1>8, <1>9

\* What the execution of each command does
LEMMA Executed ==
    ASSUME LinkTypeOK, OpInv, LineInv, lost <= 2, Execute
    PROVE  \/ UNCHANGED <<on, mux, up>>
           \/ /\ op = Idle /\ pressure.state = "closed"
              /\ UNCHANGED on /\ mux' = [mux EXCEPT !.enabled = FALSE]
           \/ /\ op \in RelayCalls /\ UNCHANGED mux
              /\ on' = IF op.frame[5] = "n" THEN on \union {op.frame[3]}
                                            ELSE on \ {op.frame[3]}
           \/ op \in AnalogReads /\ UNCHANGED <<on, mux>>
           \/ /\ op = SelectChannel(pressure.channel) /\ UNCHANGED on
              /\ pressure.state = "opening"
              /\ mux' = [mux EXCEPT !.address = pressure.channel]
           \/ /\ op = EnableMux /\ UNCHANGED on
              /\ pressure.state = "opening"
              /\ mux' = [mux EXCEPT !.enabled = TRUE]
<1>1. /\ SwitchRelay \/ AnswerAnalog \/ ChangeMux \/ Ignore
      /\ Command /\ Ends
  BY DEF Execute
<1>2. CASE uart[2] = "$"
  BY <1>1, <1>2 DEF SwitchRelay, AnswerAnalog, ChangeMux, Ignore, Cmd
<1>3. ASSUME \A i \in 1 .. 8 : uart[i] = Sent[i]
      PROVE  \A i \in 1 .. 7 : Cmd(i) = Sent[i + 1]
  BY <1>3 DEF Cmd
<1>4. CASE /\ \A i \in 1 .. 8 : uart[i] = Sent[i]
           /\ op = Idle /\ pressure.state = "closed"
  <2>1. Sent = <<"$", "C", "D", "x", "x", "x", "x", "\n">>
    BY <1>4, Frames DEF Sent
  <2>2. Cmd(1) = "C" /\ Cmd(2) = "D"
    BY <1>3, <1>4, <2>1
  <2>3. QED
    BY <1>1, <1>4, <2>2 DEF SwitchRelay, AnswerAnalog, ChangeMux, Ignore
<1>5. CASE /\ \A i \in 1 .. 8 : uart[i] = Sent[i]
           /\ hpc # "idle"
  <2>1. Sent = op.frame
    BY <1>5, OpFacts
  <2>2. CASE op \in RelayCalls
    <3>1. PICK r \in Relays :
             op.frame \in {<<"$", "R", r, "o", "n", "n", "n", "\n">>,
                           <<"$", "R", r, "o", "f", "f", "f", "\n">>}
      BY <2>2, Frames DEF RelayCalls
    <3>2. /\ Cmd(1) = "R" /\ Cmd(2) = r /\ Cmd(3) = "o"
          /\ op.frame[3] = r
          /\ Cmd(4) = op.frame[5] /\ Cmd(5) = op.frame[6]
          /\ op.frame[5] \in {"n", "f"}
          /\ op.frame[5] = "f" => op.frame[6] = "f"
      BY <1>3, <1>5, <2>1, <3>1
    <3>3. SwitchRelay
      BY <1>1, <3>2 DEF AnswerAnalog, ChangeMux, Ignore
    <3>4. QED
      BY <2>2, <3>2, <3>3 DEF SwitchRelay
  <2>3. CASE op \in AnalogReads
    <3>1. PICK p \in Pins : op.frame = <<"$", "A", p, "x", "x", "x", "x", "\n">>
      BY <2>3, Frames DEF AnalogReads
    <3>2. Cmd(1) = "A"
      BY <1>3, <1>5, <2>1, <3>1
    <3>3. QED
      BY <1>1, <2>3, <3>2 DEF SwitchRelay, AnswerAnalog, ChangeMux, Ignore
  <2>4. CASE op = SelectChannel(pressure.channel) /\ pressure.state = "opening"
    <3>1. pressure.channel \in MuxChannels
      BY DEF LinkTypeOK
    <3>2. op.frame = <<"$", "C", "S", pressure.channel, "x", "x", "x", "\n">>
      BY <2>4, <3>1, Frames
    <3>3. Cmd(1) = "C" /\ Cmd(2) = "S" /\ Cmd(3) = pressure.channel
      BY <1>3, <1>5, <2>1, <3>2
    <3>4. QED
      BY <1>1, <2>4, <3>1, <3>3 DEF SwitchRelay, AnswerAnalog, ChangeMux, Ignore
  <2>5. CASE op = EnableMux /\ pressure.state = "opening"
    <3>1. op.frame = <<"$", "C", "E", "x", "x", "x", "x", "\n">>
      BY <2>5, Frames
    <3>2. Cmd(1) = "C" /\ Cmd(2) = "E"
      BY <1>3, <1>5, <2>1, <3>1
    <3>3. QED
      BY <1>1, <2>5, <3>2 DEF SwitchRelay, AnswerAnalog, ChangeMux, Ignore
  <2>6. QED
    BY <1>5, <2>2, <2>3, <2>4, <2>5 DEF OpInv
<1>6. QED
  BY <1>1, <1>2, <1>4, <1>5, Executes DEF LinkTypeOK

\* The commands apart: the second and the third character tell which one it is.
LEMMA Shapes ==
    /\ \A x \in RelayCalls :
          /\ x.kind = "relay" /\ x.frame[2] = "R" /\ x.frame[3] \in Relays
          /\ x.frame[5] \in {"n", "f"}
    /\ \A x \in AnalogReads : x.kind = "ask" /\ x.frame[2] = "A"
    /\ \A n \in MuxChannels :
          /\ SelectChannel(n).kind = "ask"
          /\ SelectChannel(n).frame[2] = "C" /\ SelectChannel(n).frame[3] = "S"
    /\ EnableMux.kind = "ask"
    /\ EnableMux.frame[2] = "C" /\ EnableMux.frame[3] = "E"
<1>1. ASSUME NEW r \in Relays, NEW c \in {"on", "off"}
      PROVE  /\ SetRelay(r, c).kind = "relay" /\ SetRelay(r, c).frame[2] = "R"
             /\ SetRelay(r, c).frame[3] = r /\ SetRelay(r, c).frame[5] \in {"n", "f"}
  BY Frames
<1>2. ASSUME NEW p \in Pins
      PROVE  ReadAnalog(p).kind = "ask" /\ ReadAnalog(p).frame[2] = "A"
  BY Frames
<1>3. QED
  BY <1>1, <1>2, Frames DEF RelayCalls, AnalogReads

LEMMA OpShapes ==
    ASSUME LinkTypeOK, OpInv, hpc # "idle"
    PROVE  \/ /\ op \in RelayCalls /\ pressure.state # "opening"
              /\ op.kind = "relay" /\ op.frame[2] = "R" /\ op.frame[3] \in Relays
              /\ op.frame[5] \in {"n", "f"}
           \/ /\ op \in AnalogReads /\ pressure.state # "opening"
              /\ op.kind = "ask" /\ op.frame[2] = "A"
           \/ /\ op = SelectChannel(pressure.channel) /\ pressure.state = "opening"
              /\ op.kind = "ask" /\ op.frame[2] = "C" /\ op.frame[3] = "S"
           \/ /\ op = EnableMux /\ pressure.state = "opening"
              /\ op.kind = "ask" /\ op.frame[2] = "C" /\ op.frame[3] = "E"
<1>1. pressure.channel \in MuxChannels
  BY DEF LinkTypeOK
<1>2. QED
  BY <1>1, Shapes DEF OpInv

\* What begins has not been received.
LEMMA BegunUndone ==
    ASSUME NEW x \in Exchanges, Begin(x), buffer_read' = EmptyBuffer
    PROVE  buffer_read'[3] # op'.frame[3]
BY FramesFramed DEF Begin, EmptyBuffer, Framed

LEMMA DoneExecute ==
    ASSUME LinkTypeOK, OpInv, LineInv, lost <= 2, DoneInv, Execute
    PROVE  DoneInv'
<1>1. /\ UNCHANGED <<op, hpc, buffer_read, pressure>>
      /\ mux \in [address : MuxChannels, enabled : BOOLEAN]
  BY DEF Execute, hostSide, LinkTypeOK
<1>2. CASE UNCHANGED <<on, mux, up>>
  BY <1>1, <1>2 DEF DoneInv, Done, ChannelSelected
<1>3. CASE /\ op = Idle /\ pressure.state = "closed"
           /\ UNCHANGED on /\ mux' = [mux EXCEPT !.enabled = FALSE]
  <2>1. hpc = "idle" /\ mux'.address = mux.address
    BY <1>1, <1>3 DEF LinkTypeOK
  <2>2. QED
    BY <1>1, <1>3, <2>1 DEF DoneInv, ChannelSelected
<1>4. CASE op # Idle
  <2>1. hpc # "idle"
    BY <1>4 DEF LinkTypeOK
  <2>2. CASE /\ op \in RelayCalls /\ UNCHANGED mux
             /\ on' = IF op.frame[5] = "n" THEN on \union {op.frame[3]}
                                           ELSE on \ {op.frame[3]}
    <3>1. op.kind = "relay" /\ op # EnableMux
      BY <2>2, Shapes
    <3>2. Done'
      BY <1>1, <2>2, <3>1 DEF Done
    <3>3. QED
      BY <1>1, <2>2, <3>1, <3>2 DEF DoneInv, ChannelSelected
  <2>3. CASE op \in AnalogReads /\ UNCHANGED <<on, mux>>
    <3>1. op.kind = "ask" /\ op.frame[2] = "A"
      BY <2>3, Shapes
    <3>2. Done'
      BY <1>1, <3>1 DEF Done
    <3>3. QED
      BY <1>1, <2>3, <3>2 DEF DoneInv, ChannelSelected
  <2>4. CASE /\ op = SelectChannel(pressure.channel) /\ UNCHANGED on
             /\ pressure.state = "opening"
             /\ mux' = [mux EXCEPT !.address = pressure.channel]
    <3>1. op.kind = "ask" /\ op.frame[2] = "C" /\ op.frame[3] = "S" /\ op # EnableMux
      BY <2>4, Shapes DEF LinkTypeOK
    <3>2. mux'.address = pressure.channel
      BY <1>1, <2>4
    <3>3. Done'
      BY <1>1, <3>1, <3>2 DEF Done
    <3>4. QED
      BY <1>1, <2>4, <3>1, <3>3 DEF DoneInv, ChannelSelected
  <2>5. CASE /\ op = EnableMux /\ UNCHANGED on
             /\ pressure.state = "opening"
             /\ mux' = [mux EXCEPT !.enabled = TRUE]
    <3>1. op.kind = "ask" /\ op.frame[2] = "C" /\ op.frame[3] = "E"
      BY <2>5, Shapes
    <3>2. mux'.address = mux.address /\ mux'.enabled
      BY <1>1, <2>5
    <3>3. Done'
      BY <1>1, <3>1, <3>2 DEF Done
    <3>4. QED
      BY <1>1, <2>5, <3>2, <3>3 DEF DoneInv, ChannelSelected
  <2>6. QED
    BY <1>2, <1>4, <2>2, <2>3, <2>4, <2>5, Executed
<1>5. /\ Idle \notin RelayCalls \union AnalogReads /\ Idle # EnableMux
      /\ Idle # SelectChannel(pressure.channel)
  BY FramesFramed DEF Exchanges, LinkTypeOK
<1>6. QED
  BY <1>2, <1>3, <1>4, <1>5, Executed

LEMMA DoneStep ==
    ASSUME LinkInv, TwoLost, [Next]_vars
    PROVE  TwoLost'
<1> USE DEF LinkInv
<1>1. /\ LinkTypeOK /\ lost \in Nat
      /\ pressure.channel \in MuxChannels
      /\ pressure \in [state : {"closed", "opening", "open"}, channel : MuxChannels]
      /\ mux \in [address : MuxChannels, enabled : BOOLEAN]
  BY DEF LossTolerance, LinkTypeOK
<1>2. CASE Next
  <2>1. lost' = lost \/ lost' = lost + 1
    BY <1>1, <1>2, LostGrows
  <2>2. SUFFICES ASSUME lost' <= 2 PROVE DoneInv'
    BY DEF TwoLost
  <2>3. lost <= 2 /\ DoneInv
    BY <1>1, <2>1, <2>2 DEF TwoLost
  <2>4. CASE Execute
    BY <1>1, <2>3, <2>4, DoneExecute
  <2>5. CASE Deliver \/ Skip \/ Discard
    BY <2>3, <2>5 DEF Deliver, Skip, Discard, hostSide, DoneInv, Done, ChannelSelected
  <2>6. CASE Lose
    <3>1. up # << >> \/ up' = << >>
      <4>1. ASSUME up = << >>, NEW i \in DOMAIN up PROVE FALSE
        BY <4>1
      <4>2. QED
        BY <2>6, <4>1 DEF Lose
    <3>2. QED
      BY <2>3, <2>6, <3>1 DEF Lose, boardSide, hostSide, DoneInv, Done, ChannelSelected
  <2>7. CASE BeginCall
    <3>1. PICK x \in RelayCalls \union AnalogReads : Begin(x)
      BY <2>7 DEF BeginCall, RelayCalls, AnalogReads
    <3>2. /\ buffer_read' = EmptyBuffer /\ op' = x /\ hpc' = "try"
          /\ UNCHANGED <<on, mux, pressure>>
      BY <2>7, <3>1 DEF BeginCall, Begin, boardSide
    <3>3. x # EnableMux
      BY Shapes
    <3>4. buffer_read'[3] # op'.frame[3]
      BY <3>1, <3>2, BegunUndone DEF Exchanges
    <3>5. QED
      BY <2>3, <3>2, <3>3, <3>4 DEF DoneInv, ChannelSelected
  <2>8. CASE OpenPressure
    <3>1. PICK n \in MuxChannels :
             Begin(SelectChannel(n)) /\ pressure' = [state |-> "opening", channel |-> n]
      BY <2>8 DEF OpenPressure
    <3>2. /\ buffer_read' = EmptyBuffer /\ op' = SelectChannel(n) /\ hpc' = "try"
          /\ pressure'.state = "opening"
      BY <2>8, <3>1 DEF OpenPressure, Begin
    <3>3. SelectChannel(n) # EnableMux
      BY Shapes
    <3>4. buffer_read'[3] # op'.frame[3]
      BY <3>1, <3>2, BegunUndone DEF Exchanges
    <3>5. QED
      BY <3>2, <3>3, <3>4 DEF DoneInv, ChannelSelected
  <2>9. CASE ClosePressure
    <3>1. hpc = "idle" /\ UNCHANGED <<op, hpc, mux>> /\ pressure'.state = "closed"
          /\ pressure'.channel = pressure.channel
      BY <1>1, <2>9 DEF ClosePressure, boardSide
    <3>2. QED
      BY <2>3, <3>1 DEF DoneInv, ChannelSelected
  <2>10. ASSUME hpc # "idle", hpc' = "idle", UNCHANGED mux, op' = Idle,
                pressure' = Unopened
         PROVE  DoneInv'
    <3>1. Idle # EnableMux
      BY FramesFramed DEF Exchanges
    <3>2. pressure'.state = "open" => pressure' = pressure
      BY <1>1, <2>10 DEF Unopened
    <3>3. QED
      BY <2>3, <2>10, <3>1, <3>2 DEF DoneInv, ChannelSelected
  <2>11. CASE Write
    BY <2>3, <2>11 DEF Write, boardSide, DoneInv, Done, ChannelSelected
  <2>12. CASE WriteFails
    BY <2>10, <2>12 DEF WriteFails, Fail, boardSide
  <2>13. CASE GetLine
    <3>1. hpc = "read" /\ UNCHANGED <<on, mux, op, pressure>> /\ hpc' = "check"
      BY <2>13 DEF GetLine, boardSide
    <3>2. up # << >>
      BY <2>13 DEF GetLine, LineEnds
    <3>3. Done
      BY <2>3, <3>1, <3>2 DEF DoneInv
    <3>4. QED
      BY <2>3, <3>1, <3>3 DEF DoneInv, Done, ChannelSelected
  <2>14. CASE Timeout
    <3>1. hpc = "read" /\ UNCHANGED <<on, mux>> /\ up' = << >>
      BY <2>14 DEF Timeout, boardSide
    <3>2. CASE op.kind = "relay"
      BY <2>10, <2>14, <3>1, <3>2 DEF Timeout, TimedOut, Fail
    <3>3. CASE op.kind # "relay"
      <4>1. hpc' = "check" /\ UNCHANGED <<op, pressure>>
        BY <2>14, <3>3 DEF Timeout, TimedOut
      <4>2. buffer_read'[3] = buffer_read[3] \/ Done
        <5>1. CASE up = << >>
          <6>1. buffer_read' = Received(0, FALSE)
            BY <2>14, <5>1, EmptySeq DEF Timeout
          <6>2. QED
            BY <6>1 DEF Received
        <5>2. CASE up # << >>
          BY <2>3, <3>1, <5>2 DEF DoneInv
        <5>3. QED
          BY <5>1, <5>2
      <4>3. QED
        BY <2>3, <3>1, <4>1, <4>2 DEF DoneInv, Done, ChannelSelected
    <3>4. QED
      BY <3>2, <3>3
  <2>15. CASE Succeed
    <3>1. hpc = "check" /\ UNCHANGED <<on, mux, buffer_read>> /\ Matches
      BY <2>15 DEF Succeed, boardSide
    <3>2. Done
      <4>1. 3 \in 1 .. Compared(op)
        BY DEF Compared
      <4>2. buffer_read[3] = op.frame[3]
        BY <3>1, <4>1 DEF Matches
      <4>3. QED
        BY <2>3, <3>1, <4>2 DEF DoneInv
    <3>3. CASE Enabling
      <4>1. op = SelectChannel(pressure.channel) /\ op.kind = "ask"
            /\ op.frame[2] = "C" /\ op.frame[3] = "S"
        BY <1>1, <3>1, <3>3, OpShapes DEF Enabling
      <4>2. mux.address = pressure.channel
        BY <3>2, <4>1 DEF Done
      <4>3. buffer_read[3] = "S"
        BY <3>1, <4>1 DEF Matches, Compared
      <4>4. /\ op' = EnableMux /\ hpc' = "try" /\ pressure' = pressure
            /\ pressure.state = "opening"
        BY <2>15, <3>3 DEF Succeed, Begin, Enabling
      <4>5. op'.frame[3] = "E"
        BY <4>4, Shapes
      <4>6. QED
        BY <3>1, <4>2, <4>3, <4>4, <4>5 DEF DoneInv, ChannelSelected
    <3>4. CASE ~Enabling
      <4>1. /\ op' = Idle /\ hpc' = "idle"
            /\ pressure' = IF pressure.state = "opening"
                           THEN [pressure EXCEPT !.state = "open"] ELSE pressure
        BY <2>15, <3>4 DEF Succeed
      <4>2. Idle # EnableMux
        BY FramesFramed DEF Exchanges
      <4>3. CASE pressure.state = "opening"
        <5>1. op = EnableMux /\ op.kind = "ask" /\ op.frame[2] = "C" /\ op.frame[3] = "E"
          BY <1>1, <3>1, <3>4, <4>3, OpShapes DEF Enabling
        <5>2. mux.address = pressure.channel /\ mux.enabled
          BY <2>3, <3>2, <5>1 DEF Done, DoneInv
        <5>3. mux = [address |-> pressure.channel, enabled |-> TRUE]
          BY <1>1, <5>2
        <5>4. pressure'.channel = pressure.channel
          BY <1>1, <4>1, <4>3
        <5>5. QED
          BY <3>1, <4>1, <4>2, <5>3, <5>4 DEF DoneInv, ChannelSelected
      <4>4. CASE pressure.state # "opening"
        BY <2>3, <3>1, <4>1, <4>2, <4>4 DEF DoneInv, ChannelSelected
      <4>5. QED
        BY <4>3, <4>4
    <3>5. QED
      BY <3>3, <3>4
  <2>16. CASE Retry
    <3>1. CASE tries' > MaxTries
      BY <2>10, <2>16, <3>1 DEF Retry, Fail, boardSide
    <3>2. CASE ~(tries' > MaxTries)
      BY <2>3, <2>16, <3>2 DEF Retry, boardSide, DoneInv, Done, ChannelSelected
    <3>3. QED
      BY <3>1, <3>2
  <2>17. QED
    BY <1>2, <2>4, <2>5, <2>6, <2>7, <2>8, <2>9, <2>11, <2>12, <2>13, <2>14, <2>15,
       <2>16 DEF Next, Firmware, Host
<1>3. CASE UNCHANGED vars
  BY <1>3 DEF vars, boardSide, hostSide, TwoLost, DoneInv, Done, ChannelSelected
<1>4. QED
  BY <1>2, <1>3

LEMMA InitDone == Init => TwoLost
<1> SUFFICES ASSUME Init PROVE DoneInv
  BY DEF TwoLost
<1>1. op = Idle /\ hpc = "idle" /\ pressure.state = "closed"
  BY DEF Init
<1>2. Idle # EnableMux
  BY FramesFramed DEF Exchanges
<1>3. QED
  BY <1>1, <1>2 DEF DoneInv, ChannelSelected

(* While no more than two bytes were lost, the multiplexer shows the       *)
(* channel of the pressure object as long as that object is open: with     *)
(* MaxLost at two, as in the run, always.                                  *)
THEOREM ChannelKept == Spec => [](lost <= 2 => ChannelSelected)
<1>1. Init => LinkInv /\ TwoLost
  BY InitLink, InitDone
<1>2. LinkInv /\ TwoLost /\ [Next]_vars => LinkInv' /\ TwoLost'
  BY LinkStep, DoneStep
<1>3. TwoLost => (lost <= 2 => ChannelSelected)
  BY DEF TwoLost, DoneInv
<1>4. QED
  BY <1>1, <1>2, <1>3, PTL DEF Spec

-----------------------------------------------------------------------------
(* Refinement                                                              *)

boardCall == IF op # Idle /\ op.kind = "relay"
             THEN [relay |-> op.frame[3],
                   command |-> IF op.frame[5] = "n" THEN "on" ELSE "off"]
             ELSE Idle

boardReturned == IF returned["relay"] \in {"none", "ok"} THEN returned["relay"]
                 ELSE "error"

LEMMA BoardIdle ==
    ASSUME LinkTypeOK, OpInv
    PROVE  /\ hpc # "idle" /\ op.kind = "relay" =>
                 /\ boardCall \in Board!Calls /\ boardCall # Idle
                 /\ boardCall = [relay |-> op.frame[3],
                                 command |-> IF op.frame[5] = "n" THEN "on" ELSE "off"]
           /\ hpc = "idle" \/ op.kind = "ask" => boardCall = Idle
<1>1. CASE hpc # "idle" /\ op.kind = "relay"
  <2>1. op # Idle /\ op.frame[3] \in Relays
    BY <1>1, OpShapes DEF LinkTypeOK
  <2>2. boardCall = [relay |-> op.frame[3],
                     command |-> IF op.frame[5] = "n" THEN "on" ELSE "off"]
    BY <1>1, <2>1 DEF boardCall
  <2>3. boardCall \in [relay : Relays, command : {"on", "off"}]
    BY <2>1, <2>2
  <2>4. QED
    BY <1>1, <2>2, <2>3, LinkAssumption DEF Board!Calls
<1>2. QED
  BY <1>1 DEF boardCall, LinkTypeOK

\* The contract in terms of boardCall and boardReturned
LEMMA BoardIs ==
    /\ Board!boardVars = <<on, boardCall, boardReturned>>
    /\ \A c : Board!Call(c) <=> /\ boardCall = Idle /\ boardCall' = c
                                /\ UNCHANGED <<on, boardReturned>>
    /\ \A c : Board!Commanded(c) = IF c.command = "on" THEN on \union {c.relay}
                                                       ELSE on \ {c.relay}
    /\ Board!Switch <=> /\ boardCall # Idle /\ on' = Board!Commanded(boardCall)
                        /\ UNCHANGED <<boardCall, boardReturned>>
    /\ Board!Return <=> /\ boardCall # Idle /\ on = Board!Commanded(boardCall)
                        /\ boardCall' = Idle /\ boardReturned' = "ok"
                        /\ UNCHANGED on
    /\ Board!Throw <=> /\ boardCall # Idle /\ boardCall' = Idle
                       /\ boardReturned' = "error" /\ UNCHANGED on
    /\ Board!Init <=> on = {} /\ boardCall = Idle /\ boardReturned = "none"
BY DEF Board!boardVars, Board!Call, Board!Commanded, Board!Switch, Board!Return,
       Board!Throw, Board!Init, boardCall, boardReturned

LEMMA BoardStutters ==
    ASSUME UNCHANGED <<on, boardCall, boardReturned>>
    PROVE  [Board!Next]_(Board!boardVars)
BY DEF Board!boardVars, boardCall, boardReturned

\* An exception ends the call, if a relay was called for.
LEMMA FailThrows ==
    ASSUME LinkTypeOK, OpInv, hpc # "idle", UNCHANGED on,
           NEW e \in {"write", "timeout", "tries"}, Fail(e)
    PROVE  [Board!Next]_(Board!boardVars)
<1>1. op.kind \in {"relay", "ask"}
  BY OpFacts
<1>2. boardCall' = Idle
  BY DEF Fail, boardCall
<1>3. CASE op.kind = "relay"
  <2>1. returned'["relay"] = e
    BY <1>1, <1>3, FailReturned
  <2>2. boardReturned' = "error"
    BY <2>1 DEF boardReturned
  <2>3. boardCall # Idle
    BY <1>3, BoardIdle
  <2>4. Board!Throw
    BY <1>2, <2>2, <2>3, BoardIs
  <2>5. QED
    BY <2>4 DEF Board!Next
<1>4. CASE op.kind = "ask"
  <2>1. returned'["relay"] = returned["relay"]
    BY <1>1, <1>4, FailReturned
  <2>2. boardReturned' = boardReturned
    BY <2>1 DEF boardReturned
  <2>3. boardCall = Idle
    BY <1>4, BoardIdle
  <2>4. QED
    BY <1>2, <2>2, <2>3, BoardStutters
<1>5. QED
  BY <1>1, <1>3, <1>4

LEMMA BoardSucceed ==
    ASSUME LinkTypeOK, OpInv, DoneInv, Succeed
    PROVE  [Board!Next]_(Board!boardVars)
<1>1. hpc = "check" /\ UNCHANGED on /\ Matches
  BY DEF Succeed, boardSide
<1>2. op.kind \in {"relay", "ask"}
  BY <1>1, OpFacts
<1>3. Done
  <2>1. 3 \in 1 .. Compared(op)
    BY DEF Compared
  <2>2. buffer_read[3] = op.frame[3]
    BY <1>1, <2>1 DEF Matches
  <2>3. QED
    BY <1>1, <2>2 DEF DoneInv
<1>4. CASE Enabling
  <2>1. op.kind = "ask"
    BY <1>1, <1>4, OpShapes DEF Enabling
  <2>2. op' = EnableMux /\ returned' = returned
    BY <1>4 DEF Succeed, Begin
  <2>3. boardCall = Idle /\ boardCall' = Idle /\ boardReturned' = boardReturned
    BY <1>1, <2>1, <2>2, BoardIdle, Shapes DEF boardCall, boardReturned
  <2>4. QED
    BY <1>1, <2>3, BoardStutters
<1>5. CASE ~Enabling
  <2>1. op' = Idle /\ returned' = [returned EXCEPT ![op.kind] = "ok"]
    BY <1>5 DEF Succeed
  <2>2. boardCall' = Idle
    BY <2>1 DEF boardCall
  <2>3. CASE op.kind = "relay"
    <3>1. boardReturned' = "ok"
      BY <2>1, <2>3 DEF boardReturned, LinkTypeOK
    <3>2. /\ boardCall # Idle
          /\ boardCall = [relay |-> op.frame[3],
                          command |-> IF op.frame[5] = "n" THEN "on" ELSE "off"]
      BY <1>1, <2>3, BoardIdle
    <3>3. on = Board!Commanded(boardCall)
      <4>1. op.frame[3] \in on <=> op.frame[5] = "n"
        BY <1>3, <2>3 DEF Done
      <4>2. boardCall.relay = op.frame[3]
            /\ (boardCall.command = "on" <=> op.frame[5] = "n")
        BY <3>2
      <4>3. Board!Commanded(boardCall) = IF boardCall.command = "on"
                THEN on \union {boardCall.relay} ELSE on \ {boardCall.relay}
        BY BoardIs
      <4>4. QED
        BY <4>1, <4>2, <4>3
    <3>4. Board!Return
      BY <1>1, <2>2, <3>1, <3>2, <3>3, BoardIs
    <3>5. QED
      BY <3>4 DEF Board!Next
  <2>4. CASE op.kind = "ask"
    <3>1. boardReturned' = boardReturned
      BY <2>1, <2>4 DEF boardReturned, LinkTypeOK
    <3>2. boardCall = Idle
      BY <2>4, BoardIdle
    <3>3. QED
      BY <1>1, <2>2, <3>1, <3>2, BoardStutters
  <2>5. QED
    BY <1>2, <2>3, <2>4
<1>6. QED
  BY <1>4, <1>5

LEMMA BoardExecute ==
    ASSUME LinkTypeOK, OpInv, LineInv, lost <= 2, Execute
    PROVE  [Board!Next]_(Board!boardVars)
<1>1. boardCall' = boardCall /\ boardReturned' = boardReturned
  BY DEF Execute, hostSide, boardCall, boardReturned
<1>2. CASE UNCHANGED on
  BY <1>1, <1>2, BoardStutters
<1>3. CASE /\ op \in RelayCalls
           /\ on' = IF op.frame[5] = "n" THEN on \union {op.frame[3]}
                                         ELSE on \ {op.frame[3]}
  <2>1. op # Idle /\ op.kind = "relay"
    BY <1>3, FramesFramed, Shapes DEF Exchanges
  <2>2. /\ boardCall # Idle
        /\ boardCall = [relay |-> op.frame[3],
                        command |-> IF op.frame[5] = "n" THEN "on" ELSE "off"]
    BY <2>1, BoardIdle DEF LinkTypeOK
  <2>3. boardCall.relay = op.frame[3] /\ (boardCall.command = "on" <=> op.frame[5] = "n")
    BY <2>2
  <2>4. on' = Board!Commanded(boardCall)
    BY <1>3, <2>3, BoardIs
  <2>5. Board!Switch
    BY <1>1, <2>2, <2>4, BoardIs
  <2>6. QED
    BY <2>5 DEF Board!Next
<1>4. QED
  BY <1>2, <1>3, Executed

\* Every step of the protocol is a step of the board's contract, or none.
LEMMA BoardStep ==
    ASSUME LinkInv, TwoLost, [Next]_vars, lost' <= 2
    PROVE  [Board!Next]_(Board!boardVars)
<1> USE DEF LinkInv
<1>1. LinkTypeOK /\ lost \in Nat
  BY DEF LossTolerance, LinkTypeOK
<1>2. LinkTypeOK' /\ OpInv'
  BY LinkStep DEF LossTolerance
<1>3. CASE UNCHANGED <<on, op, returned>>
  <2>1. boardCall' = boardCall /\ boardReturned' = boardReturned
    BY <1>3 DEF boardCall, boardReturned
  <2>2. QED
    BY <1>3, <2>1, BoardStutters
<1>4. CASE UNCHANGED vars
  BY <1>3, <1>4 DEF vars, boardSide, hostSide
<1>5. CASE Next
  <2>1. lost <= 2 /\ DoneInv
    BY <1>1, <1>5, LostGrows DEF TwoLost
  <2>2. CASE Deliver \/ Lose \/ Skip \/ Discard \/ ClosePressure \/ Write \/ GetLine
    BY <1>3, <2>2 DEF Deliver, Lose, Skip, Discard, ClosePressure, Write, GetLine,
                      boardSide, hostSide
  <2>3. CASE Execute
    BY <1>1, <2>1, <2>3, BoardExecute
  <2>4. CASE BeginCall \/ OpenPressure
    <3>1. hpc = "idle" /\ hpc' = "try" /\ UNCHANGED <<on, returned>>
      BY <2>4 DEF BeginCall, OpenPressure, Begin, boardSide
    <3>2. boardCall = Idle /\ boardReturned' = boardReturned
      BY <1>1, <3>1, BoardIdle DEF boardReturned
    <3>3. CASE op'.kind = "relay"
      <4>1. boardCall' \in Board!Calls
        <5>1. op' \in RelayCalls
          <6>1. op' \in RelayCalls \union AnalogReads
                   \union {SelectChannel(n) : n \in MuxChannels}
            BY <2>4 DEF BeginCall, OpenPressure, Begin, RelayCalls, AnalogReads
          <6>2. QED
            BY <3>3, <6>1, Shapes
        <5>2. QED
          BY <3>3, <5>1, Shapes, FramesFramed DEF boardCall, Board!Calls, Exchanges
      <4>2. Board!Call(boardCall')
        BY <3>1, <3>2, BoardIs
      <4>3. QED
        BY <4>1, <4>2 DEF Board!Next
    <3>4. CASE op'.kind # "relay"
      <4>1. boardCall' = Idle
        BY <3>4 DEF boardCall
      <4>2. QED
        BY <3>1, <3>2, <4>1, BoardStutters
    <3>5. QED
      BY <3>3, <3>4
  <2>5. CASE WriteFails
    <3>1. hpc = "try" /\ UNCHANGED on /\ Fail("write")
      BY <2>5 DEF WriteFails, boardSide
    <3>2. QED
      BY <1>1, <3>1, FailThrows
  <2>6. CASE Timeout
    <3>1. hpc = "read" /\ UNCHANGED on /\ TimedOut
      BY <2>6 DEF Timeout, boardSide
    <3>2. CASE op.kind = "relay"
      BY <1>1, <3>1, <3>2, FailThrows DEF TimedOut
    <3>3. CASE op.kind # "relay"
      BY <1>3, <3>1, <3>3 DEF TimedOut
    <3>4. QED
      BY <3>2, <3>3
  <2>7. CASE Succeed
    BY <1>1, <2>1, <2>7, BoardSucceed
  <2>8. CASE Retry
    <3>1. hpc = "check" /\ UNCHANGED on
      BY <2>8 DEF Retry, boardSide
    <3>2. CASE tries' > MaxTries
      BY <1>1, <2>8, <3>1, <3>2, FailThrows DEF Retry
    <3>3. CASE ~(tries' > MaxTries)
      BY <1>3, <2>8, <3>1, <3>3 DEF Retry
    <3>4. QED
      BY <3>2, <3>3
  <2>9. QED
    BY <1>5, <2>2, <2>3, <2>4, <2>5, <2>6, <2>7, <2>8 DEF Next, Firmware, Host
<1>6. QED
  BY <1>4, <1>5

LEMMA BoardInit == Init => Board!Init
BY BoardIs DEF Init, boardCall, boardReturned

(* set_relay() keeps the contract of the board while the line loses at     *)
(* most two bytes: if it returns, the relay is as commanded; if it throws, *)
(* as commanded or as before; and no other relay ever moves.  Four losses  *)
(* break it: a write cut after "$R0" and three bytes lost of the next      *)
(* command can make a command for relay 0 of one for relay 1.              *)
THEOREM ContractKept ==
    ASSUME MaxLost <= 2
    PROVE  Spec => RelayContract
<1>1. Init => LinkInv /\ TwoLost /\ Board!Init
  BY InitLink, InitDone, BoardInit
<1>2. LinkInv /\ TwoLost /\ [Next]_vars => LinkInv' /\ TwoLost'
  BY LinkStep, DoneStep
<1>3. LinkInv => lost <= 2
  BY LinkAssumption DEF LinkInv, LossTolerance, LinkTypeOK
<1>4. LinkInv /\ TwoLost /\ LinkInv' /\ [Next]_vars => [Board!Next]_(Board!boardVars)
  <2>1. LinkInv' => lost' <= 2
    BY LinkAssumption DEF LinkInv, LossTolerance, LinkTypeOK
  <2>2. QED
    BY <2>1, BoardStep
<1>5. QED
  BY <1>1, <1>2, <1>4, PTL DEF Spec, RelayContract, Board!Spec
=============================================================================
