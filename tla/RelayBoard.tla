------------------------------ MODULE RelayBoard ------------------------------
(***************************************************************************)
(* What set_relay() (src/staticlibs/arduino-botoneira/botoneira.cpp)       *)
(* promises to the angle plugins, whatever happens on the serial line: if  *)
(* it returns, the relay is as commanded; if it throws, the relay is as    *)
(* before or as commanded, and nobody knows which.  No other relay moves,  *)
(* and none moves when no call is under way.                               *)
(*                                                                         *)
(* ArduinoLink.tla, the protocol, implements this specification; Axis.tla  *)
(* uses it.                                                                *)
(***************************************************************************)
CONSTANTS
    Relays,
    Idle          \* no call under way

VARIABLES
    on,           \* the relays that are on
    call,         \* the call under way
    returned      \* how the last call ended: "none", "ok" or "error"

boardVars == <<on, call, returned>>

Calls == [relay : Relays, command : {"on", "off"}]

Commanded(c) == IF c.command = "on" THEN on \union {c.relay} ELSE on \ {c.relay}

Call(c) ==
    /\ call = Idle
    /\ call' = c
    /\ UNCHANGED <<on, returned>>

Switch ==
    /\ call # Idle
    /\ on' = Commanded(call)
    /\ UNCHANGED <<call, returned>>

Return ==
    /\ call # Idle
    /\ on = Commanded(call)
    /\ call' = Idle
    /\ returned' = "ok"
    /\ UNCHANGED on

Throw ==
    /\ call # Idle
    /\ call' = Idle
    /\ returned' = "error"
    /\ UNCHANGED on

\* setup() switches all relays off.
Init == on = {} /\ call = Idle /\ returned = "none"

Next == (\E c \in Calls : Call(c)) \/ Switch \/ Return \/ Throw

Spec == Init /\ [][Next]_boardVars
=============================================================================
