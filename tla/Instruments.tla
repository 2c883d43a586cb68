----------------------------- MODULE Instruments -----------------------------
(***************************************************************************)
(* Four parts of the program that share no state: the plugins and their    *)
(* settings, the balance, the angles over USB and the encoder boards.      *)
(* Since no step of one depends on another, it is enough to let one of     *)
(* them move in each behaviour.                                            *)
(***************************************************************************)
EXTENDS Plugins, Force, AnglesLink, EncoderBoard

VARIABLE subject    \* the part that moves

instrumentVars == <<subject, pluginVars, forceVars, angleVars, boardVars>>

\* A part that does not move has any one of its initial states.
InstrumentsInit ==
    /\ subject \in {"plugins", "force", "angles", "board"}
    /\ PluginsInit
    /\ subject # "plugins" => factories = CHOOSE i \in Installations : TRUE
    /\ ForceInit
    /\ subject # "force" =>
         /\ balance = CHOOSE b \in Balances : TRUE
         /\ load = CHOOSE l \in balance.loads : TRUE
    /\ AnglesInit
    /\ subject # "angles" => position = CHOOSE p \in [Encoders -> Positions] : TRUE
    /\ BoardInit
    /\ subject # "board" => shaft = CHOOSE s \in Shafts : TRUE

InstrumentsNext ==
    /\ UNCHANGED subject
    /\ \/ /\ subject = "plugins" /\ PluginsNext
          /\ UNCHANGED <<forceVars, angleVars, boardVars>>
       \/ /\ subject = "force" /\ ForceNext
          /\ UNCHANGED <<pluginVars, angleVars, boardVars>>
       \/ /\ subject = "angles" /\ AnglesNext
          /\ UNCHANGED <<pluginVars, forceVars, boardVars>>
       \/ /\ subject = "board" /\ BoardNext
          /\ UNCHANGED <<pluginVars, forceVars, angleVars>>

\* Of the four only the angles have to go on.
InstrumentsSpec ==
    /\ InstrumentsInit
    /\ [][InstrumentsNext]_instrumentVars
    /\ WF_instrumentVars(subject = "angles" /\ Program /\ InstrumentsNext)
    /\ WF_instrumentVars(subject = "angles" /\ (Answer \/ Lose \/ SendRest) /\ InstrumentsNext)

-----------------------------------------------------------------------------
\* What the encoders tell is where they are, over USB and over the board.
EncodersTrue == OwnAngles /\ BoardTrue
=============================================================================
