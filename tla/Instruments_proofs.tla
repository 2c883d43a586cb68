-------------------------- MODULE Instruments_proofs --------------------------
(***************************************************************************)
(* What PluginManager and the dialogs keep, for any plugins and any number *)
(* of runs and dialogs: the devices that stay open are those of            *)
(* constructors that threw (OpenInv), and the hardware of a run is the one *)
(* that its dialog showed (ModelsInv, HardwareInv).  What the encoders     *)
(* tell: Gray code is taken back (GrayTakenBack), one answer at most is on *)
(* its way (AnglesInv), and the bytes of a board are those of its position *)
(* (BoardInv).  What the balance tells: invert() finds the inverse of any  *)
(* matrix that has one (InverseInverts), so that the first guess of read() *)
(* is right without a quadratic part, and Newton's loop leaves it (and the *)
(* forces of the reference, whatever the calibration) alone (ForceInv).    *)
(* The doubles are the fractions of Rational, whose laws are proved first. *)
(***************************************************************************)
EXTENDS Instruments, FiniteSetTheorems, SequenceTheorems, WellFoundedInduction, TLAPS

\* The factories are a list, and the next one of a run is in it.
ListInv ==
    /\ factories \in Seq({factories[i] : i \in DOMAIN factories})
    /\ Len(factories) > 0
    /\ creating \in 0 .. Len(factories)
    /\ creating # 0 => used # NoModel

OpenInv ==
    \A o \in open : \/ [run |-> o.run, plugin |-> o.plugin] \in threw
                    \/ o.run = starts /\ used # NoModel

LEMMA PluginList ==
    ASSUME ListInv
    PROVE  Plugin = 1 .. Len(factories) /\ Len(factories) \in Nat
BY DEF ListInv, Plugin

\* The dialogs leave a run and what it has opened alone.
Dialog == UNCHANGED <<factories, used, creating, hardware, open, threw, starts>>

LEMMA DialogSteps ==
    ASSUME AcceptPreferences \/ AcceptReference \/ AcceptMeasurement
    PROVE  Dialog
BY DEF AcceptPreferences, AcceptReference, AcceptMeasurement, Accepted,
       AcceptMeasurementWith, Dialog

LEMMA ListStep == ListInv /\ [PluginsNext]_pluginVars => ListInv'
<1> SUFFICES ASSUME ListInv, [PluginsNext]_pluginVars PROVE ListInv'
  OBVIOUS
<1> USE DEF ListInv
<1>0. Len(factories) \in Nat
  BY PluginList
<1>1. CASE Dialog
  BY <1>1 DEF Dialog
<1>2. ASSUME NEW model, Start(model) PROVE ListInv'
  BY <1>0, <1>2 DEF Start
<1>3. CASE Create
  <2>1. creating \in 1 .. Len(factories) /\ UNCHANGED <<factories, used>>
    BY <1>3, PluginList DEF Create
  <2>2. creating' \in 0 .. Len(factories)
    BY <1>0, <1>3, <2>1 DEF Create
  <2>3. QED
    BY <2>1, <2>2
<1>4. CASE CreateThrows \/ Destroy \/ Restart
  BY <1>0, <1>4 DEF CreateThrows, Destroy, Restart
<1>5. CASE UNCHANGED pluginVars
  BY <1>5 DEF pluginVars
<1>6. QED
  BY <1>1, <1>2, <1>3, <1>4, <1>5, DialogSteps DEF PluginsNext

LEMMA OpenStep == ListInv /\ OpenInv /\ [PluginsNext]_pluginVars => OpenInv'
<1> SUFFICES ASSUME ListInv, OpenInv, [PluginsNext]_pluginVars, NEW o \in open'
             PROVE  \/ [run |-> o.run, plugin |-> o.plugin] \in threw'
                    \/ o.run = starts' /\ used' # NoModel
  BY DEF OpenInv
<1> USE DEF OpenInv
<1>1. CASE Dialog \/ UNCHANGED pluginVars
  BY <1>1 DEF Dialog, pluginVars
<1>2. ASSUME NEW model, Start(model)
      PROVE  [run |-> o.run, plugin |-> o.plugin] \in threw'
  BY <1>2 DEF Start
<1>3. CASE Create
  <2>1. used # NoModel /\ UNCHANGED <<used, threw, starts>>
    <3>1. creating # 0
      BY <1>3, PluginList DEF Create
    <3>2. QED
      BY <1>3, <3>1 DEF Create, ListInv
  <2>2. o \in open \/ o.run = starts
    BY <1>3 DEF Create, OpenBy
  <2>3. QED
    BY <2>1, <2>2
<1>4. CASE CreateThrows
  <2>1. CASE o \in open \ Closed
    BY <1>4, <2>1 DEF CreateThrows, Closed
  <2>2. CASE o \notin open \ Closed
    <3>1. o.run = starts /\ o.plugin = creating
      BY <1>4, <2>2 DEF CreateThrows, OpenBy
    <3>2. QED
      BY <1>4, <3>1 DEF CreateThrows
  <2>3. QED
    BY <2>1, <2>2
<1>5. CASE Destroy
  BY <1>5 DEF Destroy, Closed
<1>6. CASE Restart
  BY <1>6 DEF Restart
<1>7. QED
  BY <1>1, <1>2, <1>3, <1>4, <1>5, <1>6, DialogSteps DEF PluginsNext

(* Between two runs only devices of constructors that threw are open, for  *)
(* any plugins and any sequence of failures.  (getListVariableHardware and *)
(* destroyListVariableHardware)                                            *)
THEOREM NothingElseOpen == PluginsSpec => []OnlyThrownOpen
<1>1. PluginsInit => ListInv /\ OpenInv
  <2> SUFFICES ASSUME PluginsInit PROVE ListInv /\ OpenInv
    OBVIOUS
  <2>1. factories \in Seq({factories[i] : i \in DOMAIN factories}) /\ factories # <<>>
    BY PluginsAssumption DEF PluginsInit
  <2>2. Len(factories) \in Nat /\ Len(factories) > 0
    BY <2>1
  <2>3. QED
    BY <2>1, <2>2 DEF PluginsInit, ListInv, OpenInv
<1>2. ListInv /\ OpenInv => OnlyThrownOpen
  BY DEF OpenInv, OnlyThrownOpen
<1>3. QED
  BY <1>1, <1>2, ListStep, OpenStep, PTL DEF PluginsSpec

-----------------------------------------------------------------------------
(* The hardware of a run                                                   *)

\* What a dialog accepts: the calibration it showed, a channel that exists,
\* and for a measurement with forces the calibration of its reference.
ModelOK(model) ==
    model # NoModel =>
        /\ model.config.matrix = model.shown
        /\ model.config.channel \in Actives
        /\ model.kind = "measurement" /\ Named("Forces") # {} =>
              model.allowed \/ model.shown = model.zeroMatrix

ModelsInv == ModelOK(reference) /\ ModelOK(measurement) /\ ModelOK(used)

\* The list grows with the factories, each with the settings of the model.
HardwareInv ==
    /\ \E S : hardware \in Seq(S)
    /\ Len(hardware) = IF creating # 0 THEN creating - 1
                       ELSE IF used # NoModel THEN Len(factories) ELSE 0
    /\ \A i \in 1 .. Len(hardware) :
          /\ hardware[i].general = factories[i].meta.general
          /\ hardware[i].config = used.config
          /\ hardware[i].zeroed => used.kind = "measurement"
          /\ i \in Controlable => hardware[i].start = used.start[i]

(* Whatever is stored, the dialogs show a channel of the multiplexer.      *)
LEMMA ChannelExists == ChosenChannels \subseteq Actives
<1>1. FirstActive \in Actives
  <2>1. 2 \in Actives /\ \A d \in Actives : 2 <= d
    BY DEF Actives
  <2>2. QED
    BY <2>1 DEF FirstActive
<1>2. ShownChannel \in Actives
  <2>1. 1 \notin Actives
    BY DEF Actives
  <2>2. QED
    BY <1>1, <2>1 DEF ShownChannel, Setting
<1>3. 6 \in Actives
  BY DEF Actives
<1>4. QED
  BY <1>2, <1>3 DEF ChosenChannels

(* The enumerator that is kept is the one whose name was shown.            *)
LEMMA ItemShown ==
    ASSUME NEW item \in ChosenItems
    PROVE  item - 1 = MatrixItems[item]
<1>1. item \in {1, 2}
  BY DEF ChosenItems, MatrixItems
<1>2. QED
  BY <1>1 DEF MatrixItems, MIDDLE, FLOOR

LEMMA ModelsStep == ModelsInv /\ [PluginsNext]_pluginVars => ModelsInv'
<1> SUFFICES ASSUME ModelsInv, [PluginsNext]_pluginVars PROVE ModelsInv'
  OBVIOUS
<1> USE DEF ModelsInv
<1>1. factories' = factories
  BY DEF PluginsNext, AcceptPreferences, AcceptReference, AcceptMeasurement,
         AcceptMeasurementWith, Start, Create, CreateThrows, Destroy, Restart, pluginVars
<1>2. \A model : ModelOK(model) => ModelOK(model)'
  BY <1>1 DEF ModelOK, Named, Plugin
<1>3. CASE AcceptPreferences \/ Create \/ UNCHANGED pluginVars
  BY <1>1, <1>3 DEF AcceptPreferences, Create, pluginVars, ModelOK, Named, Plugin
<1>4. CASE AcceptReference
  <2>1. PICK dvm_time \in ChosenDvmTimes, item \in ChosenItems,
             chosen \in ChosenChannels, spins \in StartSpins :
          reference' = [kind |-> "reference",
                        config |-> Config(dvm_time, item, chosen),
                        shown |-> MatrixItems[item],
                        start |-> Starts(spins), spins |-> spins]
    BY <1>4 DEF AcceptReference
  <2>2. reference'.config.matrix = reference'.shown
    BY <2>1, ItemShown DEF Config
  <2>3. reference'.config.channel \in Actives
    BY <2>1, ChannelExists DEF Config
  <2>4. reference'.kind # "measurement"
    BY <2>1
  <2>5. ModelOK(reference)'
    BY <2>2, <2>3, <2>4 DEF ModelOK
  <2>6. UNCHANGED <<measurement, used>>
    BY <1>4 DEF AcceptReference
  <2>7. QED
    BY <1>1, <2>5, <2>6 DEF ModelOK, Named, Plugin
<1>5. CASE AcceptMeasurement
  <2>1. PICK dvm_time \in ChosenDvmTimes, item \in ChosenItems,
             chosen \in ChosenChannels :
          \E spins, control :
            AcceptMeasurementWith(Config(dvm_time, item, chosen), MatrixItems[item],
                                  spins, control)
    BY <1>5 DEF AcceptMeasurement
  <2>2. measurement'.config.matrix = measurement'.shown
    BY <2>1, ItemShown DEF Config, AcceptMeasurementWith
  <2>3. measurement'.config.channel \in Actives
    BY <2>1, ChannelExists DEF Config, AcceptMeasurementWith
  <2>4. Named("Forces") # {} => measurement'.allowed
                                \/ measurement'.config.matrix = measurement'.zeroMatrix
    BY <2>1 DEF AcceptMeasurementWith, MatrixAgrees
  <2>5. ModelOK(measurement)'
    BY <1>1, <2>2, <2>3, <2>4 DEF ModelOK, Named, Plugin
  <2>6. UNCHANGED <<reference, used>>
    BY <2>1 DEF AcceptMeasurementWith
  <2>7. QED
    BY <1>1, <2>5, <2>6 DEF ModelOK, Named, Plugin
<1>6. CASE Start(reference) \/ Start(measurement)
  BY <1>1, <1>6 DEF Start, ModelOK, Named, Plugin
<1>7. CASE CreateThrows \/ Destroy \/ Restart
  BY <1>1, <1>7 DEF CreateThrows, Destroy, Restart, ModelOK, Named, Plugin
<1>8. QED
  BY <1>3, <1>4, <1>5, <1>6, <1>7 DEF PluginsNext

LEMMA HardwareStep == ListInv /\ HardwareInv /\ [PluginsNext]_pluginVars => HardwareInv'
<1> SUFFICES ASSUME ListInv, HardwareInv, [PluginsNext]_pluginVars PROVE HardwareInv'
  OBVIOUS
<1> USE DEF HardwareInv
<1>1. CASE Dialog \/ UNCHANGED pluginVars
  BY <1>1 DEF Dialog, pluginVars, Controlable, Plugin
<1>2. ASSUME NEW model, Start(model) PROVE HardwareInv'
  BY <1>2 DEF Start
<1>3. CASE Create
  <2>1. /\ creating \in 1 .. Len(factories) /\ Len(factories) \in Nat
        /\ hardware' = Append(hardware, Hardware(creating))
        /\ UNCHANGED <<factories, used>>
        /\ creating' = IF creating = Len(factories) THEN 0 ELSE creating + 1
    BY <1>3, PluginList DEF Create
  <2>2. PICK S : hardware \in Seq(S)
    OBVIOUS
  <2>3. /\ hardware' \in Seq(S \union {Hardware(creating)})
        /\ Len(hardware') = creating
        /\ \A i \in 1 .. creating - 1 : hardware'[i] = hardware[i]
        /\ hardware'[creating] = Hardware(creating)
    <3>1. hardware \in Seq(S \union {Hardware(creating)}) /\ Len(hardware) = creating - 1
      BY <2>1, <2>2
    <3>2. QED
      BY <2>1, <3>1
  <2>4. /\ Hardware(creating).general = factories[creating].meta.general
        /\ Hardware(creating).config = used.config
        /\ Hardware(creating).zeroed => used.kind = "measurement"
        /\ creating \in Controlable => Hardware(creating).start = used.start[creating]
    BY DEF Hardware, Controlable
  <2>5. used # NoModel
    BY <2>1 DEF ListInv
  <2>6. \A i \in 1 .. Len(hardware') :
          /\ hardware'[i].general = factories'[i].meta.general
          /\ hardware'[i].config = used'.config
          /\ hardware'[i].zeroed => used'.kind = "measurement"
          /\ i \in Controlable' => hardware'[i].start = used'.start[i]
    BY <2>1, <2>3, <2>4 DEF Controlable, Plugin
  <2>7. Len(hardware') = IF creating' # 0 THEN creating' - 1
                         ELSE IF used' # NoModel THEN Len(factories') ELSE 0
    BY <2>1, <2>3, <2>5
  <2>8. QED
    BY <2>3, <2>6, <2>7
<1>4. CASE CreateThrows \/ Destroy \/ Restart
  <2>1. hardware' = <<>> /\ creating' = 0 /\ used' = NoModel
    BY <1>4 DEF CreateThrows, Destroy, Restart
  <2>2. QED
    BY <2>1
<1>5. QED
  BY <1>1, <1>2, <1>3, <1>4, DialogSteps DEF PluginsNext

LEMMA PluginsInitial == PluginsInit => ListInv /\ HardwareInv
<1> SUFFICES ASSUME PluginsInit PROVE ListInv /\ HardwareInv
  OBVIOUS
<1>1. factories \in Seq({factories[i] : i \in DOMAIN factories}) /\ factories # <<>>
  BY PluginsAssumption DEF PluginsInit
<1>2. Len(factories) \in Nat /\ Len(factories) > 0
  BY <1>1
<1>3. QED
  BY <1>1, <1>2 DEF PluginsInit, ListInv, HardwareInv

(* A run is done with what its dialog accepted and showed, whatever the    *)
(* plugins are and whatever has been stored since.  (accept() of the two   *)
(* dialogs, CreateVariableHardware(), set_zero())                          *)
THEOREM HardwareAsAccepted == PluginsSpec => []AsAccepted
<1>1. PluginsInit => ModelsInv
  BY DEF PluginsInit, ModelsInv, ModelOK
<1>2. ListInv /\ ModelsInv /\ HardwareInv => AsAccepted
  <2> SUFFICES ASSUME ListInv, ModelsInv, HardwareInv, InUse PROVE AsAccepted
    BY DEF AsAccepted
  <2>1. DOMAIN hardware = Plugin /\ Plugin = 1 .. Len(hardware)
    BY PluginList DEF HardwareInv, InUse
  <2>2. \A i \in Plugin : /\ hardware[i].general = factories[i].meta.general
                          /\ hardware[i].config = used.config
                          /\ hardware[i].zeroed => used.kind = "measurement"
    BY <2>1 DEF HardwareInv
  <2>3. [i \in DOMAIN hardware |-> hardware[i].general]
          = [i \in Plugin |-> factories[i].meta.general]
    BY <2>1, <2>2
  <2>4. ASSUME NEW i \in Named("Forces")
        PROVE  /\ hardware[i].config.matrix = used.shown
               /\ hardware[i].zeroed /\ ~used.allowed => used.shown = used.zeroMatrix
    BY <2>2 DEF Named, ModelsInv, ModelOK, InUse
  <2>5. ASSUME NEW i \in Named("Pressure")
        PROVE  hardware[i].config.channel \in Actives
    BY <2>2 DEF Named, ModelsInv, ModelOK, InUse
  <2>6. QED
    BY <2>3, <2>4, <2>5 DEF AsAccepted
<1>3. QED
  BY PluginsInitial, <1>1, <1>2, ListStep, ModelsStep, HardwareStep, PTL DEF PluginsSpec

-----------------------------------------------------------------------------
(* The sweep of a measurement                                              *)

\* What the two dialogs accept: the starts are those of the last rows.
StartsOK(model) ==
    model # NoModel =>
        /\ model.start = Starts(model.spins)
        /\ \A r \in Rows : model.spins[r] \in Spin(Channel(r))

\* What the dialog of a measurement accepts as a sweep, by the row's own start.
SweepOK(model) ==
    model.kind = "measurement" /\ model.control # NoSweep =>
        LET row == model.control.row
            start == model.spins[row]
        IN  /\ row \in Rows
            /\ {start, model.control.end} \subseteq Channel(row).lower .. Channel(row).upper
            /\ IF start <= model.control.end THEN model.control.step > 0
               ELSE model.control.step < 0

ShownOK(model) == StartsOK(model) /\ SweepOK(model)
SweepsInv == ShownOK(reference) /\ ShownOK(measurement) /\ ShownOK(used)

\* The plugins are those of an installation.
InstalledInv == factories \in Installations

LEMMA InstalledStep == InstalledInv /\ [PluginsNext]_pluginVars => UNCHANGED factories
BY DEF PluginsNext, AcceptPreferences, AcceptReference, AcceptMeasurement,
       AcceptMeasurementWith, Start, Create, CreateThrows, Destroy, Restart, pluginVars

\* A range with the default in it, and a step.
ChannelOK(c) ==
    /\ {c.lower, c.upper, c.smaller_step, c.default_start} \subseteq Int
    /\ c.lower <= c.default_start /\ c.default_start <= c.upper
    /\ c.smaller_step > 0

(* What a plugin declares of a channel that can be swept.                  *)
LEMMA ChannelBounds ==
    ASSUME InstalledInv, NEW row \in Rows
    PROVE  ChannelOK(Channel(row))
<1>1. PICK i \in Controlable :
        \E k \in DOMAIN factories[i].meta.channels : row = <<i, k>>
  BY DEF Rows
<1>2. PICK k \in DOMAIN factories[i].meta.channels : row = <<i, k>>
  BY <1>1
<1>3. i \in DOMAIN factories /\ factories[i].meta.controlable
  BY DEF Controlable, Plugin
<1>4. Channel(row) = factories[i].meta.channels[k]
  BY <1>2 DEF Channel
<1>5. QED
  BY <1>2, <1>3, <1>4, ChannelsAssumption DEF InstalledInv, ChannelOK

(* A channel starts at what the last row of its name shows.               *)
LEMMA StartOfRow ==
    ASSUME NEW row \in Rows, NEW spins
    PROVE  Starts(spins)[row[1]][row[2]] = spins[LastRow(Channel(row).name)]
<1>1. PICK i \in Controlable :
        \E k \in DOMAIN factories[i].meta.channels : row = <<i, k>>
  BY DEF Rows
<1>2. PICK k \in DOMAIN factories[i].meta.channels : row = <<i, k>>
  BY <1>1
<1>3. Channel(row) = factories[i].meta.channels[k]
  BY <1>2 DEF Channel
<1>4. QED
  BY <1>2, <1>3 DEF Starts, StartsFrom

LEMMA SweepsStep == InstalledInv /\ SweepsInv /\ [PluginsNext]_pluginVars => SweepsInv'
<1> SUFFICES ASSUME InstalledInv, SweepsInv, [PluginsNext]_pluginVars PROVE SweepsInv'
  OBVIOUS
<1> USE DEF SweepsInv
<1>1. factories' = factories
  BY InstalledStep
<1>2. /\ Rows' = Rows
      /\ \A row : Channel(row)' = Channel(row)
      /\ \A spins : Starts(spins)' = Starts(spins)
  BY <1>1 DEF Rows, Controlable, Plugin, Channel, Starts, StartsFrom, LastRow, RowsNamed
<1>3. UNCHANGED reference => ShownOK(reference)'
  BY <1>2 DEF ShownOK, StartsOK, SweepOK
<1>4. UNCHANGED measurement => ShownOK(measurement)'
  BY <1>2 DEF ShownOK, StartsOK, SweepOK
<1>5. UNCHANGED used => ShownOK(used)'
  BY <1>2 DEF ShownOK, StartsOK, SweepOK
<1>6. CASE AcceptPreferences \/ Create \/ UNCHANGED pluginVars
  BY <1>3, <1>4, <1>5, <1>6 DEF AcceptPreferences, Create, pluginVars
<1>7. CASE AcceptReference
  <2>1. PICK dvm_time \in ChosenDvmTimes, item \in ChosenItems, chosen \in ChosenChannels,
             spins \in StartSpins :
          reference' = [kind |-> "reference",
                        config |-> Config(dvm_time, item, chosen),
                        shown |-> MatrixItems[item],
                        start |-> Starts(spins), spins |-> spins]
    BY <1>7 DEF AcceptReference
  <2>2. \A r \in Rows : spins[r] \in Spin(Channel(r))
    BY DEF StartSpins
  <2>3. ShownOK(reference)'
    BY <1>2, <2>1, <2>2 DEF ShownOK, StartsOK, SweepOK, Spin
  <2>4. UNCHANGED <<measurement, used>>
    BY <1>7 DEF AcceptReference
  <2>5. QED
    BY <1>4, <1>5, <2>3, <2>4
<1>8. CASE AcceptMeasurement
  <2>1. PICK dvm_time \in ChosenDvmTimes, item \in ChosenItems, chosen \in ChosenChannels,
             spins \in StartSpins :
          LET config == Config(dvm_time, item, chosen)
          IN  \/ AcceptMeasurementWith(config, MatrixItems[item], spins, NoSweep)
              \/ \E row \in Rows :
                   \E end \in Spin(Channel(row)), step \in StepSpin(Channel(row)) :
                      AcceptMeasurementWith(config, MatrixItems[item], spins,
                          [row |-> row, end |-> end,
                           step |-> Directed(spins[row], end, step)])
    BY <1>8 DEF AcceptMeasurement
  <2>2. PICK control :
          /\ AcceptMeasurementWith(Config(dvm_time, item, chosen), MatrixItems[item],
                                   spins, control)
          /\ \/ control = NoSweep
             \/ \E row \in Rows :
                  \E end \in Spin(Channel(row)), step \in StepSpin(Channel(row)) :
                     control = [row |-> row, end |-> end,
                                step |-> Directed(spins[row], end, step)]
    BY <2>1
  <2>3. /\ measurement'.start = Starts(spins) /\ measurement'.spins = spins
        /\ measurement'.control = control
        /\ UNCHANGED <<reference, used>>
    BY <2>2 DEF AcceptMeasurementWith
  <2>4. \A r \in Rows : spins[r] \in Spin(Channel(r))
    BY DEF StartSpins
  <2>5. StartsOK(measurement)'
    BY <1>2, <2>3, <2>4 DEF StartsOK, Spin
  <2>6. ASSUME control = NoSweep PROVE SweepOK(measurement)'
    BY <2>3, <2>6 DEF SweepOK
  <2>7. ASSUME NEW row \in Rows, NEW end \in Spin(Channel(row)),
               NEW step \in StepSpin(Channel(row)),
               control = [row |-> row, end |-> end,
                          step |-> Directed(spins[row], end, step)]
        PROVE  SweepOK(measurement)'
    <3>1. /\ spins[row] \in Int /\ end \in Int /\ step \in Int /\ step > 0
          /\ {spins[row], end} \subseteq Channel(row).lower .. Channel(row).upper
      BY <2>4, ChannelBounds DEF ChannelOK, Spin, StepSpin
    <3>2. IF spins[row] <= end THEN Directed(spins[row], end, step) > 0
          ELSE Directed(spins[row], end, step) < 0
      BY <3>1 DEF Directed
    <3>3. control.row = row /\ control.end = end
          /\ control.step = Directed(spins[row], end, step)
      BY <2>7
    <3>4. QED
      BY <1>2, <2>3, <3>1, <3>2, <3>3 DEF SweepOK
  <2>8. SweepOK(measurement)'
    BY <2>2, <2>6, <2>7
  <2>9. QED
    BY <1>3, <1>5, <2>3, <2>5, <2>8 DEF ShownOK
<1>9. CASE Start(reference) \/ Start(measurement)
  <2>1. UNCHANGED <<reference, measurement>> /\ used' \in {reference, measurement}
    BY <1>9 DEF Start
  <2>2. ShownOK(used)'
    BY <1>2, <2>1 DEF ShownOK, StartsOK, SweepOK
  <2>3. QED
    BY <1>3, <1>4, <2>1, <2>2
<1>10. CASE CreateThrows \/ Destroy \/ Restart
  <2>1. /\ used' = NoModel
        /\ UNCHANGED reference \/ reference' = NoModel
        /\ UNCHANGED measurement \/ measurement' = NoModel
    BY <1>10 DEF CreateThrows, Destroy, Restart
  <2>2. /\ used' = NoModel => ShownOK(used)'
        /\ reference' = NoModel => ShownOK(reference)'
        /\ measurement' = NoModel => ShownOK(measurement)'
    BY DEF ShownOK, StartsOK, SweepOK, NoModel
  <2>3. QED
    BY <1>3, <1>4, <2>1, <2>2
<1>11. QED
  BY <1>6, <1>7, <1>8, <1>9, <1>10 DEF PluginsNext

(* What every channel starts at, and how the worker sweeps, is what the    *)
(* dialog showed in the last row of the name, for any plugins, with names  *)
(* that are shared or not, and any ranges: what the worker's loop relies   *)
(* on.  (accept() of the two dialogs, getListVariableHardware())           *)
THEOREM StartsShown == PluginsSpec => []StartsAsShown
<1>1. PluginsInit => InstalledInv /\ SweepsInv
  BY DEF PluginsInit, InstalledInv, SweepsInv, ShownOK, StartsOK, SweepOK, NoModel
<1>2. ListInv /\ InstalledInv /\ SweepsInv /\ HardwareInv => StartsAsShown
  <2> SUFFICES ASSUME ListInv, SweepsInv, HardwareInv, InUse PROVE StartsAsShown
    BY DEF StartsAsShown
  <2>1. ASSUME NEW r \in Rows
        PROVE  StartOf(r) = used.spins[LastRow(Channel(r).name)]
    <3>1. r[1] \in Controlable
      BY DEF Rows
    <3>2. r[1] \in 1 .. Len(hardware)
      BY <3>1, PluginList DEF Controlable, HardwareInv, InUse
    <3>3. hardware[r[1]].start = used.start[r[1]]
      BY <3>1, <3>2 DEF HardwareInv
    <3>4. used.start = Starts(used.spins)
      BY DEF SweepsInv, ShownOK, StartsOK, InUse
    <3>5. QED
      BY <3>3, <3>4, StartOfRow DEF StartOf
  <2>2. \A r, s \in Rows : Channel(r).name = Channel(s).name => StartOf(r) = StartOf(s)
    BY <2>1
  <2>3. \A r \in Rows : IsLast(r) => StartOf(r) = used.spins[r]
    BY <2>1 DEF IsLast
  <2>4. ASSUME used.kind = "measurement", used.control # NoSweep, IsLast(used.control.row)
        PROVE  LET row == used.control.row
               IN  /\ {StartOf(row), used.control.end}
                         \subseteq Channel(row).lower .. Channel(row).upper
                   /\ IF StartOf(row) <= used.control.end THEN used.control.step > 0
                      ELSE used.control.step < 0
    BY <2>3, <2>4 DEF SweepsInv, ShownOK, SweepOK
  <2>5. QED
    BY <2>2, <2>3, <2>4 DEF StartsAsShown
<1>3. PluginsSpec => [](ListInv /\ HardwareInv)
  BY PluginsInitial, ListStep, HardwareStep, PTL DEF PluginsSpec
<1>4. InstalledInv /\ [PluginsNext]_pluginVars => InstalledInv'
  BY InstalledStep DEF InstalledInv
<1>5. QED
  BY <1>1, <1>2, <1>3, <1>4, SweepsStep, PTL DEF PluginsSpec

-----------------------------------------------------------------------------
(* Gray code                                                               *)

\* A set of numbers with 0 and the successor of each of its members is Nat.
LEMMA Induction ==
    ASSUME NEW S \in SUBSET Nat, 0 \in S, \A n \in S : n + 1 \in S
    PROVE  S = Nat
<1> DEFINE R == {ss \in Nat \X Nat : ss[1] < ss[2]}
           T == Nat \ S
<1>1. IsWellFoundedOn(R, Nat)
  BY NatLessThanWellFounded, Zenon DEF OpToRel
<1>2. SUFFICES ASSUME T # {} PROVE FALSE
  OBVIOUS
<1>3. PICK n \in T : \A m \in T : ~(<<m, n>> \in R)
  <2>1. T \subseteq Nat
    OBVIOUS
  <2>2. QED
    BY <1>1, <1>2, <2>1, WFMin
<1>4. n \in Nat /\ n # 0 /\ n - 1 \in Nat
  OBVIOUS
<1>5. n - 1 \notin S
  BY <1>4
<1>6. <<n - 1, n>> \in R
  BY <1>4
<1>7. QED
  BY <1>3, <1>4, <1>5, <1>6

\* The states of the loop of grayToBinary(), the next one, and all of it
Loops == [num : SUBSET Nat, shift : Nat \ {0}]
NextLoop(s) == [num |-> Xor(s.num, ShiftRight(s.num, s.shift)), shift |-> 2 * s.shift]
Results(f) == [s \in Loops |-> IF MoreShifts(s.shift) THEN f[NextLoop(s)] ELSE s.num]

LEMMA Shifted ==
    ASSUME NEW x \in SUBSET Nat, NEW k \in Nat
    PROVE  /\ ShiftRight(x, k) \in SUBSET Nat
           /\ \A b \in Nat : b \in ShiftRight(x, k) <=> b + k \in x
<1>1. ASSUME NEW c \in x, c >= k PROVE c - k \in Nat
  BY <1>1
<1>2. ASSUME NEW b \in Nat, b + k \in x PROVE b \in ShiftRight(x, k)
  <2>1. b + k \in {c \in x : c >= k} /\ b = (b + k) - k
    BY <1>2
  <2>2. QED
    BY <2>1 DEF ShiftRight
<1>3. ASSUME NEW b \in Nat, b \in ShiftRight(x, k) PROVE b + k \in x
  <2>1. PICK c \in x : c >= k /\ b = c - k
    BY <1>3 DEF ShiftRight
  <2>2. c \in Nat /\ b + k = c
    BY <2>1
  <2>3. QED
    BY <2>2
<1>4. QED
  BY <1>1, <1>2, <1>3 DEF ShiftRight

LEMMA NextLoops ==
    ASSUME NEW s \in Loops
    PROVE  /\ NextLoop(s) \in Loops
           /\ NextLoop(s).shift = 2 * s.shift
           /\ NextLoop(s).shift >= s.shift + 1
<1>1. s.num \in SUBSET Nat /\ s.shift \in Nat \ {0}
  BY DEF Loops
<1>2. Xor(s.num, ShiftRight(s.num, s.shift)) \in SUBSET Nat
  BY <1>1, Shifted DEF Xor
<1>3. QED
  BY <1>1, <1>2 DEF Loops, NextLoop

(* The loop ends: there is a function of its results.                      *)
LEMMA ResultsExist == \E f : f = Results(f)
<1> DEFINE Good(f, k) == \A s \in Loops : s.shift + k >= WordBits => f[s] = Results(f)[s]
           S == {k \in Nat : \E f : f = [s \in Loops |-> f[s]] /\ Good(f, k)}
<1>0. WordBits \in Nat
  BY AnglesAssumption
<1>1. 0 \in S
  <2> DEFINE f == [s \in Loops |-> s.num]
  <2>1. Good(f, 0)
    BY <1>0 DEF Results, MoreShifts, Loops
  <2>2. f = [s \in Loops |-> f[s]]
    OBVIOUS
  <2> HIDE DEF f, Good
  <2>3. QED
    BY <2>1, <2>2
<1>2. ASSUME NEW k \in S PROVE k + 1 \in S
  <2>1. PICK f : Good(f, k)
    OBVIOUS
  <2>2. k \in Nat
    OBVIOUS
  <2> DEFINE g == Results(f)
  <2>3. ASSUME NEW s \in Loops, s.shift + (k + 1) >= WordBits
        PROVE  g[s] = Results(g)[s]
    <3>1. CASE MoreShifts(s.shift)
      <4>1. g[s] = f[NextLoop(s)] /\ Results(g)[s] = g[NextLoop(s)]
        BY <3>1 DEF Results
      <4>2. NextLoop(s) \in Loops /\ NextLoop(s).shift \in Nat /\ s.shift \in Nat
        BY NextLoops DEF Loops
      <4>3. NextLoop(s).shift + k >= WordBits
        BY <1>0, <2>2, <2>3, <4>2, NextLoops
      <4>4. QED
        BY <2>1, <4>1, <4>2, <4>3
    <3>2. CASE ~MoreShifts(s.shift)
      BY <3>2 DEF Results
    <3>3. QED
      BY <3>1, <3>2
  <2>4. g = [s \in Loops |-> g[s]]
    BY DEF Results
  <2>5. Good(g, k + 1)
    BY <2>3
  <2> HIDE DEF g, Good
  <2>6. QED
    BY <2>2, <2>4, <2>5
<1>3. S = Nat
  <2>1. S \in SUBSET Nat
    OBVIOUS
  <2> HIDE DEF S
  <2>2. QED
    BY <1>1, <1>2, <2>1, Induction
<1>4. PICK f : f = [s \in Loops |-> f[s]] /\ Good(f, WordBits)
  BY <1>0, <1>3
<1>5. \A s \in Loops : f[s] = Results(f)[s]
  BY <1>0, <1>4 DEF Loops
<1>6. Results(f) = [s \in Loops |-> Results(f)[s]]
  BY DEF Results
<1>7. f = Results(f)
  BY <1>4, <1>5, <1>6
<1>8. QED
  BY <1>7

(* Two passes of the loop are one over twice the distance.                 *)
LEMMA TwiceShifted ==
    ASSUME NEW x \in SUBSET Nat, NEW k \in Nat,
           NEW y, y = Xor(x, ShiftRight(x, k))
    PROVE  Xor(y, ShiftRight(y, k)) = Xor(x, ShiftRight(x, 2 * k))
<1>1. y \in SUBSET Nat /\ \A b \in Nat : b \in y <=> ~(b \in x <=> b + k \in x)
  BY Shifted DEF Xor
<1>2. \A b \in Nat : b \in Xor(y, ShiftRight(y, k)) <=> ~(b \in y <=> b + k \in y)
  BY <1>1, Shifted DEF Xor
<1>3. ASSUME NEW b \in Nat
      PROVE  b \in Xor(x, ShiftRight(x, 2 * k)) <=> ~(b \in x <=> (b + k) + k \in x)
  <2>1. 2 * k \in Nat /\ b + 2 * k = (b + k) + k
    OBVIOUS
  <2>2. b \in ShiftRight(x, 2 * k) <=> (b + k) + k \in x
    BY <2>1, Shifted
  <2>3. QED
    BY <2>2 DEF Xor
<1>4. ASSUME NEW b \in Nat
      PROVE  b \in Xor(y, ShiftRight(y, k)) <=> b \in Xor(x, ShiftRight(x, 2 * k))
  <2>1. b + k \in Nat
    OBVIOUS
  <2>2. b + k \in y <=> ~(b + k \in x <=> (b + k) + k \in x)
    BY <1>1, <2>1
  <2>3. QED
    BY <1>1, <1>2, <1>3, <2>2
<1>5. /\ Xor(y, ShiftRight(y, k)) \in SUBSET Nat
      /\ Xor(x, ShiftRight(x, 2 * k)) \in SUBSET Nat
  <2>1. 2 * k \in Nat
    OBVIOUS
  <2>2. ShiftRight(y, k) \in SUBSET Nat /\ ShiftRight(x, 2 * k) \in SUBSET Nat
    BY <1>1, <2>1, Shifted
  <2>3. QED
    BY <1>1, <2>2 DEF Xor
<1>6. QED
  BY <1>4, <1>5

(* grayToBinary() gives back every number of a word from its Gray code.    *)
THEOREM GrayTakenBack ==
    \A x \in SUBSET (0 .. WordBits - 1) : grayToBinary(Gray(x)) = x
<1> DEFINE u == CHOOSE f : f = Results(f)
           Words == SUBSET (0 .. WordBits - 1)
           Coded(x, h) == [num |-> Xor(x, ShiftRight(x, h)), shift |-> h]
           S == {k \in Nat : \A x \in Words, h \in Nat \ {0} :
                               h + k >= WordBits => u[Coded(x, h)] = x}
<1>1. u = Results(u)
  BY ResultsExist
<1>2. \A num : grayToBinary(num) = u[[num |-> num, shift |-> 1]]
  BY DEF grayToBinary, Results, Loops, NextLoop
<1> HIDE DEF u
<1>3. WordBits \in Nat /\ Words \subseteq SUBSET Nat
  BY AnglesAssumption
<1>4. ASSUME NEW x \in Words, NEW h \in Nat \ {0}
      PROVE  /\ Coded(x, h) \in Loops
             /\ Coded(x, h).shift = h
             /\ h >= WordBits => u[Coded(x, h)] = x
             /\ h < WordBits => u[Coded(x, h)] = u[Coded(x, 2 * h)]
  <2>1. x \in SUBSET Nat
    BY <1>3
  <2>2. Coded(x, h) \in Loops /\ Coded(x, h).shift = h
    BY <2>1, Shifted DEF Loops, Xor
  <2>3. ASSUME h >= WordBits PROVE u[Coded(x, h)] = x
    <3>1. u[Coded(x, h)] = Coded(x, h).num
      BY <1>1, <1>3, <2>2, <2>3 DEF Results, MoreShifts
    <3>2. \A b \in Nat : b + h \notin x
      BY <1>3, <2>3
    <3>3. ShiftRight(x, h) = {}
      BY <2>1, <3>2, Shifted
    <3>4. QED
      BY <3>1, <3>3 DEF Xor
  <2>4. ASSUME h < WordBits PROVE u[Coded(x, h)] = u[Coded(x, 2 * h)]
    <3>1. u[Coded(x, h)] = u[NextLoop(Coded(x, h))]
      BY <1>1, <1>3, <2>2, <2>4 DEF Results, MoreShifts
    <3>2. NextLoop(Coded(x, h)) = Coded(x, 2 * h)
      BY <2>1, TwiceShifted DEF NextLoop
    <3>3. QED
      BY <3>1, <3>2
  <2>5. QED
    BY <2>2, <2>3, <2>4
<1> HIDE DEF Coded
<1>5. 0 \in S
  BY <1>4
<1>6. ASSUME NEW k \in S PROVE k + 1 \in S
  <2>1. ASSUME NEW x \in Words, NEW h \in Nat \ {0}, h + (k + 1) >= WordBits
        PROVE  u[Coded(x, h)] = x
    <3>1. 2 * h \in Nat \ {0} /\ 2 * h + k >= WordBits
      BY <1>3, <2>1
    <3>2. u[Coded(x, 2 * h)] = x
      BY <3>1
    <3>3. QED
      BY <1>3, <1>4, <3>2
  <2>2. QED
    BY <2>1
<1>7. S = Nat
  <2>1. S \in SUBSET Nat
    OBVIOUS
  <2> HIDE DEF S
  <2>2. QED
    BY <1>5, <1>6, <2>1, Induction
<1>8. ASSUME NEW x \in Words PROVE grayToBinary(Gray(x)) = x
  <2>1. u[Coded(x, 1)] = x
    BY <1>3, <1>7
  <2>2. Coded(x, 1) = [num |-> Gray(x), shift |-> 1]
    BY DEF Coded, Gray
  <2>3. QED
    BY <1>2, <2>1, <2>2
<1>9. QED
  BY <1>8

-----------------------------------------------------------------------------
(* The encoder boards                                                      *)

\* The bytes that are there are those of a position at which the shaft was
\* since the read has begun; while it stands still, of the one it has.
BoardInv ==
    /\ shaft \in Shafts
    /\ bytes \in Seq(Nat) /\ Len(bytes) <= 4
    /\ boardPc = "reading" \/ bytes # <<>> => shaft \in seen
    /\ boardPc = "reading" /\ seen = {shaft} =>
         \A i \in 1 .. Len(bytes) : bytes[i] = inb(i)
    /\ boardPc # "reading" /\ Len(bytes) = 4 /\ seen = {shaft} => angle = shaft
    /\ Shown = displayed

LEMMA NibblesApart ==
    ASSUME NEW low \in 0 .. 9, NEW high \in 0 .. 9
    PROVE  /\ Nibbles(low, high) % 16 = low
           /\ Nibbles(low, high) \div 16 = high
BY DEF Nibbles

(* write_bta() takes a number of four digits apart.                        *)
LEMMA Digits ==
    ASSUME NEW v \in Int, Abs(v) < 2000
    PROVE  /\ dig1(v) \in 0 .. 9 /\ dig2(v) \in 0 .. 9 /\ dig3(v) \in 0 .. 9
           /\ Abs(v) = dig1(v) + 10 * dig2(v) + 100 * dig3(v)
                         + (IF Abs(v) >= 1000 THEN 1000 ELSE 0)
<1>1. PICK a \in 0 .. 1999 : a = Abs(v)
  BY DEF Abs
<1> HIDE DEF Abs
<1> DEFINE tens == a \div 10
           hundreds == a \div 100
<1>2. a % 10 = a - 10 * tens /\ a % 10 \in 0 .. 9 /\ tens \in Nat
  OBVIOUS
<1>3. a % 100 = a - 100 * hundreds /\ a % 100 \in 0 .. 99 /\ hundreds \in Nat
  OBVIOUS
<1>4. dig1(v) = a % 10
  BY <1>1 DEF dig1
<1>5. dig2(v) = tens - 10 * hundreds /\ dig2(v) \in 0 .. 9
  <2>1. dig2(v) = (10 * tens - 100 * hundreds) \div 10
    BY <1>1, <1>2, <1>3, <1>4 DEF dig2
  <2>2. (10 * tens - 100 * hundreds) \div 10 = tens - 10 * hundreds
    BY <1>2, <1>3
  <2>3. tens - 10 * hundreds \in 0 .. 9
    BY <1>2, <1>3
  <2>4. QED
    BY <2>1, <2>2, <2>3
<1>6. a % 1000 = a - (IF a >= 1000 THEN 1000 ELSE 0)
  OBVIOUS
<1>7. dig3(v) = hundreds - (IF a >= 1000 THEN 10 ELSE 0) /\ dig3(v) \in 0 .. 9
  <2> DEFINE top == hundreds - (IF a >= 1000 THEN 10 ELSE 0)
  <2>1. (a % 1000) - dig2(v) * 10 - dig1(v) = 100 * top
    BY <1>2, <1>3, <1>4, <1>5, <1>6
  <2>2. dig3(v) = (100 * top) \div 100
    BY <1>1, <2>1 DEF dig3
  <2>3. top \in 0 .. 9
    BY <1>3
  <2>4. QED
    BY <2>2, <2>3
<1>8. QED
  BY <1>1, <1>2, <1>3, <1>4, <1>5, <1>7

(* What it writes is shown.                                                *)
LEMMA WriteShown ==
    ASSUME NEW v \in Int, Abs(v) < 2000,
           ports' = <<Nibbles(dig1(v), dig2(v)), Nibbles(dig3(v), dig4(v))>>
    PROVE  Shown' = v
<1>1. dig4(v) \in {0, 1, 3, 4}
  BY DEF dig4
<1>2. /\ ports'[1] % 16 = dig1(v) /\ ports'[1] \div 16 = dig2(v)
      /\ ports'[2] % 16 = dig3(v) /\ ports'[2] \div 16 = dig4(v)
  BY <1>1, Digits, NibblesApart
<1>3. PICK low \in 0 .. 999 : low = dig1(v) + 10 * dig2(v) + 100 * dig3(v)
  BY Digits
<1>4. /\ dig4(v) = 0 => Shown' = 1000 + low
      /\ dig4(v) = 1 => Shown' = -low
      /\ dig4(v) = 3 => Shown' = -(1000 + low)
      /\ dig4(v) = 4 => Shown' = low
  BY <1>1, <1>2, <1>3, SMT DEF Shown
<1>5. Abs(v) = low + (IF Abs(v) >= 1000 THEN 1000 ELSE 0)
  BY <1>3, Digits
<1>6. QED
  BY <1>3, <1>4, <1>5, SMT DEF Abs, dig4

(* The four bytes of a position of 25 bits make it up again.               *)
LEMMA BytesTogether ==
    ASSUME NEW s, Has25Bits(s)
    PROVE  s = (Byte(s, 4) % 2) * Weight[4] + Byte(s, 3) * Weight[3]
                        + Byte(s, 2) * Weight[2] + Byte(s, 1)
<1> DEFINE a == s \div 256
           b == a \div 256
           c == b \div 256
<1>1. Weight[1] = 1 /\ Weight[2] = 256 /\ Weight[3] = 65536 /\ Weight[4] = 16777216
  BY SMT DEF Weight
<1>2. a \in Nat /\ b \in Nat /\ c \in 0 .. 1
  BY SMT DEF Has25Bits
<1>3. s \div 65536 = b /\ s \div 16777216 = c /\ s \div 1 = s
  BY SMT DEF Has25Bits
<1>4. /\ Byte(s, 1) = s - 256 * a
      /\ Byte(s, 2) = a - 256 * b
      /\ Byte(s, 3) = b - 256 * c
      /\ Byte(s, 4) = c
  BY <1>1, <1>2, <1>3, SMT DEF Byte, Has25Bits
<1> HIDE DEF a, b, c
<1>5. QED
  BY <1>1, <1>2, <1>4, SMT DEF Has25Bits

LEMMA BoardInitial == BoardInit => BoardInv
<1> SUFFICES ASSUME BoardInit PROVE BoardInv
  OBVIOUS
<1>1. Shown = displayed
  BY DEF BoardInit, Shown
<1>2. QED
  BY <1>1 DEF BoardInit, BoardInv

LEMMA BoardStep == BoardInv /\ [BoardNext]_boardVars => BoardInv'
<1> SUFFICES ASSUME BoardInv, [BoardNext]_boardVars PROVE BoardInv'
  OBVIOUS
<1>0. Len(bytes) \in 0 .. 4 /\ shaft \in Nat /\ Has25Bits(shaft)
  <2>1. Has25Bits(shaft)
    BY BoardAssumption DEF BoardInv
  <2>2. shaft \in Nat
    BY <2>1, SMT DEF Has25Bits
  <2>3. Len(bytes) \in 0 .. 4
    <3>1. bytes \in Seq(Nat) /\ Len(bytes) <= 4
      BY DEF BoardInv
    <3>2. Len(bytes) \in Nat
      BY <3>1
    <3>3. \A n \in Nat : n <= 4 => n \in 0 .. 4
      OBVIOUS
    <3>4. QED
      BY <3>1, <3>2, <3>3, Zenon
  <2>4. QED
    BY <2>1, <2>2, <2>3, Zenon
<1>1. CASE OpenBoard
  <2>1. Shown' = displayed'
    BY <1>1 DEF OpenBoard, Shown
  <2>2. QED
    BY <1>1, <2>1 DEF OpenBoard, BoardInv
<1>2. CASE ReleaseBoard
  <2>1. UNCHANGED Shown
    BY <1>2 DEF ReleaseBoard, Shown
  <2>2. QED
    BY <1>2, <2>1 DEF ReleaseBoard, BoardInv
<1>3. CASE BeginRead
  <2>1. UNCHANGED Shown
    BY <1>3 DEF BeginRead, Shown
  <2>2. QED
    BY <1>3, <2>1 DEF BeginRead, BoardInv
<1>4. CASE ReadByte
  <2>1. UNCHANGED <<Shown, boardPc, shaft, seen, displayed>> /\ boardPc = "reading"
    BY <1>4 DEF ReadByte, Shown
  <2>2. PICK k \in 0 .. 3 : k = Len(bytes)
    BY <1>0, <1>4, SMTT(30) DEF ReadByte
  <2>3. bytes' = Append(bytes, inb(k + 1)) /\ inb(k + 1) \in Nat
    <3>1. PICK j \in 1 .. 4 : j = k + 1
      OBVIOUS
    <3>2. inb(j) \in Nat
      BY <1>0, SMT DEF inb, Byte, Weight
    <3>3. QED
      BY <1>4, <2>2, <3>1, <3>2 DEF ReadByte
  <2>4. bytes' \in Seq(Nat) /\ Len(bytes') = k + 1 /\ bytes' # <<>>
    BY <2>2, <2>3 DEF BoardInv
  <2>5. ASSUME seen = {shaft}, NEW i \in 1 .. k + 1
        PROVE  bytes'[i] = inb(i)
    <3>1. CASE i = k + 1
      BY <2>2, <2>3, <3>1 DEF BoardInv
    <3>2. CASE i \in 1 .. k
      <4>1. bytes'[i] = bytes[i] /\ bytes[i] = inb(i)
        BY <2>1, <2>2, <2>3, <2>5, <3>2 DEF BoardInv
      <4>2. QED
        BY <4>1
    <3>3. QED
      BY <3>1, <3>2
  <2>6. \A i : inb(i)' = inb(i)
    BY <2>1 DEF inb
  <2>7. k + 1 <= 4
    OBVIOUS
  <2> HIDE DEF inb
  <2>8. QED
    BY <2>1, <2>4, <2>5, <2>6, <2>7 DEF BoardInv
<1>5. CASE EndRead
  <2>1. UNCHANGED <<Shown, bytes, shaft, seen, displayed>> /\ boardPc = "reading"
        /\ boardPc' = "open" /\ Len(bytes) = 4
    BY <1>5 DEF EndRead, Shown
  <2>2. ASSUME seen = {shaft} PROVE angle' = shaft
    <3>1. \A i \in 1 .. 4 : bytes[i] = inb(i)
      BY <2>1, <2>2 DEF BoardInv
    <3>2. /\ bytes[4] = Byte(shaft, 4) % 2 /\ bytes[3] = Byte(shaft, 3)
          /\ bytes[2] = Byte(shaft, 2) /\ bytes[1] = Byte(shaft, 1)
      BY <3>1 DEF inb
    <3>3. QED
      BY <1>0, <1>5, <3>2, BytesTogether, Zenon DEF EndRead
  <2>3. QED
    BY <2>1, <2>2 DEF BoardInv
<1>6. CASE MoveShaft
  <2>1. UNCHANGED <<Shown, bytes, boardPc, angle, displayed>>
    BY <1>6 DEF MoveShaft, Shown
  <2>2. shaft' \in Shafts /\ seen' = seen \union {shaft'}
    BY <1>6 DEF MoveShaft
  <2>3. ASSUME shaft \in seen, seen' = {shaft'}
        PROVE  seen = {shaft} /\ UNCHANGED shaft
    BY <2>2, <2>3
  <2>4. \A i : UNCHANGED shaft => inb(i)' = inb(i)
    BY DEF inb
  <2> HIDE DEF inb
  <2>5. ASSUME boardPc = "reading", seen' = {shaft'}
        PROVE  \A i \in 1 .. Len(bytes) : bytes[i] = inb(i)'
    BY <2>3, <2>4, <2>5 DEF BoardInv
  <2>6. ASSUME boardPc # "reading", Len(bytes) = 4, seen' = {shaft'}
        PROVE  angle = shaft'
    <3>1. bytes # <<>>
      BY <2>6
    <3>2. QED
      BY <2>3, <2>6, <3>1 DEF BoardInv
  <2>7. QED
    BY <2>1, <2>2, <2>5, <2>6 DEF BoardInv
<1>7. ASSUME NEW v \in DisplayValues, Write(v) PROVE BoardInv'
  <2>1. Shown' = displayed'
    <3>1. CASE Abs(v) >= 2000
      BY <1>7, <3>1 DEF Write, Shown, BoardInv
    <3>2. CASE ~(Abs(v) >= 2000)
      <4>1. v \in Int /\ Abs(v) < 2000
        BY <3>2, BoardAssumption DEF Abs
      <4>2. /\ ports' = <<Nibbles(dig1(v), dig2(v)), Nibbles(dig3(v), dig4(v))>>
            /\ displayed' = v
        BY <1>7, <3>2 DEF Write
      <4>3. QED
        BY <4>1, <4>2, WriteShown
    <3>3. QED
      BY <3>1, <3>2
  <2>2. UNCHANGED <<boardPc, shaft, bytes, angle, seen>>
    BY <1>7 DEF Write
  <2>3. \A i : inb(i)' = inb(i)
    BY <2>2 DEF inb
  <2> HIDE DEF inb
  <2>4. QED
    BY <2>1, <2>2, <2>3 DEF BoardInv
<1>8. CASE UNCHANGED boardVars
  BY <1>8 DEF boardVars, BoardInv, Shown, inb
<1>9. QED
  BY <1>1, <1>2, <1>3, <1>4, <1>5, <1>6, <1>7, <1>8 DEF BoardNext

(* What a board shows and tells, for any positions and numbers.            *)
THEOREM BoardsAreTrue == BoardSpec => []BoardTrue
<1>1. BoardInv => BoardTrue
  BY DEF BoardInv, BoardTrue
<1>2. QED
  BY <1>1, BoardInitial, BoardStep, PTL DEF BoardSpec

-----------------------------------------------------------------------------
(* The angles over USB                                                     *)

AnglesTypes ==
    /\ asked \in Encoders /\ reads \in Nat
    /\ position \in [Encoders -> Positions]
    /\ passed \in [Encoders -> SUBSET Positions]
    /\ ok \in [Encoders -> BOOLEAN]
    /\ DOMAIN gray = Encoders /\ gray = [n \in Encoders |-> gray[n]]
    /\ anglePc \in {"off", "setup"} => reads = 0
    /\ anglePc = "waiting" => reads > 0
    /\ reads > 0 => \A n \in Encoders : position[n] \in passed[n]

\* What the converter sends for the command of a wait: NACK, or what the
\* encoder showed at a position of the call
OwnAnswer(piece) ==
    \/ piece.part = "nack"
    \/ anglePc = "setup" /\ piece.part = "done"
    \/ /\ anglePc = "waiting" /\ piece.part = "whole"
       /\ \E p \in passed[asked] : piece.gray = GrayOf[p]

\* The command of a wait is owed, or answered, or neither is there any more.
OneAnswer ==
    IF anglePc \in {"setup", "waiting"}
      THEN \/ owed = <<Command(anglePc, asked)>> /\ input = <<>>
           \/ owed = <<>> /\ input = <<>>
           \/ owed = <<>> /\ \E piece : input = <<piece>> /\ OwnAnswer(piece)
      ELSE owed = <<>> /\ input = <<>>

\* An encoder that has answered showed a position of the call.
OwnGray ==
    anglePc = "waiting" =>
        \A n \in Encoders : ok[n] => \E p \in passed[n] : gray[n] = GrayOf[p]

AnglesInv == AnglesTypes /\ (~disturbed => OneAnswer /\ OwnGray /\ OwnAngles)

LEMMA AnglesInitial == AnglesInit => AnglesInv
<1> SUFFICES ASSUME AnglesInit PROVE AnglesInv
  OBVIOUS
<1>1. AnglesTypes
  BY DEF AnglesInit, AnglesTypes, Encoders
<1>2. OneAnswer /\ OwnGray /\ OwnAngles
  BY DEF AnglesInit, OneAnswer, OwnGray, OwnAngles
<1>3. QED
  BY <1>1, <1>2 DEF AnglesInv

\* Both encoders have answered: the angles are those of the call.
LEMMA BothOwn ==
    ASSUME NEW g, NEW p \in Positions, g = GrayOf[p]
    PROVE  (IF g = NoPosition THEN NoPosition ELSE grayToBinary(g)) = p
<1>1. g = Gray(p) /\ g # NoPosition
  BY NoPositionAssumption DEF GrayOf
<1>2. p \in SUBSET (0 .. WordBits - 1)
  BY AnglesAssumption
<1>3. QED
  BY <1>1, <1>2, GrayTakenBack

\* While nothing is late or cut a wait that ends without an answer leaves
\* nothing to come.
LEMMA NoneToCome ==
    ASSUME NoAnswer, ~disturbed'
    PROVE  owed = <<>> /\ input = <<>> /\ ~disturbed
BY DEF NoAnswer

\* The end of a try, whatever it has found
LEMMA TryEnds ==
    ASSUME AnglesTypes, anglePc = "waiting",
           NEW results, results = ok', ok' \in [Encoders -> BOOLEAN], NEW t,
           gray' = [n \in Encoders |-> gray'[n]],
           EndTry(results, t),
           UNCHANGED <<reads, position, passed>>
    PROVE  /\ AnglesTypes'
           /\ owed = <<>> /\ input' = <<>>
              /\ (\A n \in Encoders : ok'[n] => \E p \in passed[n] : gray'[n] = GrayOf[p])
              => (OneAnswer /\ OwnGray /\ OwnAngles)'
<1>1. AnglesTypes'
  <2>1. asked' \in Encoders /\ anglePc' \in {"ready", "failed", "waiting"}
    BY DEF EndTry, Both, Wait, AnglesTypes, Encoders
  <2>2. QED
    BY <2>1 DEF AnglesTypes
<1>2. ASSUME owed = <<>>, input' = <<>>,
             \A n \in Encoders : ok'[n] => \E p \in passed[n] : gray'[n] = GrayOf[p]
      PROVE  (OneAnswer /\ OwnGray /\ OwnAngles)'
  <2>1. CASE results[1] /\ results[2]
    <3>1. /\ digits' = [n \in Encoders |-> Converted(n)]
          /\ anglePc' = "ready" /\ owed' = <<>>
      BY <1>2, <2>1 DEF EndTry, Both
    <3>2. ASSUME NEW n \in Encoders PROVE digits'[n] \in passed'[n]
      <4>1. PICK p \in passed[n] : gray'[n] = GrayOf[p]
        BY <1>2, <2>1 DEF Encoders
      <4>2. p \in Positions
        BY DEF AnglesTypes
      <4>3. QED
        BY <3>1, <4>1, <4>2, BothOwn DEF Converted
    <3>3. QED
      BY <1>2, <3>1, <3>2 DEF OneAnswer, OwnGray, OwnAngles
  <2>2. CASE ~(results[1] /\ results[2]) /\ t > MaxTries
    BY <1>2, <2>2 DEF EndTry, OneAnswer, OwnGray, OwnAngles
  <2>3. CASE ~(results[1] /\ results[2]) /\ ~(t > MaxTries)
    <3>1. Wait("waiting", 1)
      BY <2>3 DEF EndTry
    <3>2. owed' = <<Command("waiting", 1)>> /\ asked' = 1 /\ anglePc' = "waiting"
      BY <1>2, <3>1 DEF Wait
    <3>3. QED
      BY <1>2, <3>2 DEF OneAnswer, OwnGray, OwnAngles
  <2>4. QED
    BY <2>1, <2>2, <2>3
<1>3. QED
  BY <1>1, <1>2

LEMMA ReadSteps ==
    ASSUME AnglesInv, ReadTimesOut \/ ReadRefused \/ ReadAnswered
    PROVE  AnglesInv'
<1>0. AnglesTypes /\ anglePc = "waiting"
  BY DEF AnglesInv, ReadTimesOut, ReadRefused, ReadAnswered
<1>1. CASE ReadTimesOut
  <2>1. AnglesTypes' /\ (owed = <<>> /\ input' = <<>> /\ OwnGray
                           => (OneAnswer /\ OwnGray /\ OwnAngles)')
    <3>1. UNCHANGED <<ok, gray, reads, position, passed>> /\ EndTry(ok', tries')
      BY <1>1 DEF ReadTimesOut
    <3>2. ok' \in [Encoders -> BOOLEAN] /\ gray' = [n \in Encoders |-> gray'[n]]
      BY <1>0, <3>1 DEF AnglesTypes
    <3>3. OwnGray => \A n \in Encoders : ok'[n] => \E p \in passed[n] : gray'[n] = GrayOf[p]
      BY <1>0, <3>1 DEF OwnGray
    <3>4. QED
      BY <1>0, <3>1, <3>2, <3>3, TryEnds
  <2>2. ASSUME ~disturbed' PROVE (OneAnswer /\ OwnGray /\ OwnAngles)'
    <3>1. owed = <<>> /\ input' = <<>> /\ ~disturbed
      BY <1>1, <2>2, NoneToCome DEF ReadTimesOut
    <3>2. QED
      BY <2>1, <3>1 DEF AnglesInv
  <2>3. QED
    BY <2>1, <2>2 DEF AnglesInv
<1>2. CASE ReadRefused
  <2>1. UNCHANGED <<ok, gray, reads, position, passed, disturbed>> /\ EndTry(ok', tries')
    <3>1. UNCHANGED <<ok, gray, reads, position, passed, disturbed>> /\ EndTry(ok, tries')
      BY <1>2 DEF ReadRefused
    <3>2. QED
      BY <3>1
  <2>2. ok' \in [Encoders -> BOOLEAN] /\ gray' = [n \in Encoders |-> gray'[n]]
    BY <1>0, <2>1 DEF AnglesTypes
  <2>3. OwnGray => \A n \in Encoders : ok'[n] => \E p \in passed[n] : gray'[n] = GrayOf[p]
    BY <1>0, <2>1 DEF OwnGray
  <2>4. AnglesTypes' /\ (owed = <<>> /\ input' = <<>> /\ OwnGray
                           => (OneAnswer /\ OwnGray /\ OwnAngles)')
    BY <1>0, <2>1, <2>2, <2>3, TryEnds
  <2>5. ASSUME ~disturbed' PROVE owed = <<>> /\ input' = <<>> /\ OwnGray
    <3>1. OneAnswer /\ OwnGray
      BY <2>1, <2>5 DEF AnglesInv
    <3>2. input # <<>> /\ input' = <<>>
      BY <1>2 DEF ReadRefused, HasNack
    <3>3. QED
      BY <1>0, <3>1, <3>2 DEF OneAnswer
  <2>6. QED
    BY <2>4, <2>5 DEF AnglesInv
<1>3. CASE ReadAnswered
  <2>1. PICK r \in Parsed(input) :
           /\ ok' = [ok EXCEPT ![asked] = r[1]]
           /\ gray' = [gray EXCEPT ![asked] = r[2]]
    BY <1>3 DEF ReadAnswered
  <2>2. UNCHANGED <<reads, position, passed, disturbed>> /\ input' = <<>> /\ input # <<>>
    BY <1>3 DEF ReadAnswered
  <2>3. r[1] \in BOOLEAN
    <3>1. r = <<TRUE, input[1].gray>> \/ r = <<FALSE, {}>> \/ r = <<TRUE, NoPosition>>
      BY DEF Parsed
    <3>2. \A a, b : <<a, b>>[1] = a
      OBVIOUS
    <3>3. r[1] = TRUE \/ r[1] = FALSE
      BY <3>1, <3>2, Zenon
    <3>4. QED
      BY <3>3, Zenon
  <2>4. ok' \in [Encoders -> BOOLEAN] /\ gray' = [n \in Encoders |-> gray'[n]]
        /\ DOMAIN gray' = Encoders
    BY <1>0, <2>1, <2>3 DEF AnglesTypes
  <2>5. ASSUME ~disturbed'
        PROVE  /\ owed = <<>>
               /\ \A n \in Encoders : ok'[n] => \E p \in passed[n] : gray'[n] = GrayOf[p]
    <3>1. OneAnswer /\ OwnGray
      BY <2>2, <2>5 DEF AnglesInv
    <3>2. owed = <<>> /\ \E piece : input = <<piece>> /\ OwnAnswer(piece)
      BY <1>0, <2>2, <3>1 DEF OneAnswer
    <3>3. PICK piece : input = <<piece>> /\ OwnAnswer(piece)
      BY <3>2
    <3>4. piece.part = "whole" /\ \E p \in passed[asked] : piece.gray = GrayOf[p]
      <4>1. ~HasNack(input)
        BY <1>3 DEF ReadAnswered
      <4>2. piece.part # "nack"
        BY <3>3, <4>1 DEF HasNack
      <4>3. QED
        BY <1>0, <3>3, <4>2 DEF OwnAnswer
    <3>5. r = <<TRUE, piece.gray>>
      BY <3>3, <3>4 DEF Parsed
    <3>6. gray'[asked] = piece.gray /\ asked \in Encoders
      BY <1>0, <2>1, <3>5 DEF AnglesTypes
    <3>7. ASSUME NEW n \in Encoders, ok'[n]
          PROVE  \E p \in passed[n] : gray'[n] = GrayOf[p]
      <4>1. CASE n = asked
        BY <3>4, <3>6, <4>1
      <4>2. CASE n # asked
        <5>1. ok'[n] = ok[n] /\ gray'[n] = gray[n]
          BY <1>0, <2>1, <4>2 DEF AnglesTypes
        <5>2. QED
          BY <1>0, <3>1, <3>7, <5>1 DEF OwnGray
      <4>3. QED
        BY <4>1, <4>2
    <3>8. QED
      BY <3>2, <3>7
  <2>6. CASE asked = 1
    <3>1. anglePc' = "waiting" /\ asked' = 2 /\ owed' = Append(owed, Command("waiting", 2))
      BY <1>3, <2>6 DEF ReadAnswered, Wait
    <3>2. AnglesTypes'
      BY <1>0, <2>2, <2>4, <3>1 DEF AnglesTypes, Encoders
    <3>3. ASSUME ~disturbed' PROVE (OneAnswer /\ OwnGray /\ OwnAngles)'
      <4>1. owed' = <<Command("waiting", 2)>>
        BY <2>5, <3>1, <3>3
      <4>2. OneAnswer'
        BY <2>2, <3>1, <4>1 DEF OneAnswer
      <4>3. OwnGray' /\ OwnAngles'
        BY <2>2, <2>5, <3>1, <3>3 DEF OwnGray, OwnAngles
      <4>4. QED
        BY <4>2, <4>3
    <3>4. QED
      BY <3>2, <3>3 DEF AnglesInv
  <2>7. CASE asked # 1
    <3>1. EndTry(ok', tries')
      BY <1>3, <2>7 DEF ReadAnswered
    <3>2. QED
      BY <1>0, <2>2, <2>4, <2>5, <3>1, TryEnds DEF AnglesInv
  <2>8. QED
    BY <2>6, <2>7
<1>4. QED
  BY <1>1, <1>2, <1>3

LEMMA ConstructSteps ==
    ASSUME AnglesInv,
           \/ AnglesConstructFails \/ AnglesConstruct
           \/ SetupAnswered \/ SetupTimesOut \/ ReadCalled
    PROVE  AnglesInv'
<1>0. AnglesTypes
  BY DEF AnglesInv
<1>1. CASE AnglesConstructFails
  <2>1. AnglesTypes'
    BY <1>0, <1>1 DEF AnglesConstructFails, AnglesTypes, converterVars
  <2>2. ASSUME ~disturbed' PROVE (OneAnswer /\ OwnGray /\ OwnAngles)'
    BY <1>1, <2>2 DEF AnglesInv, AnglesConstructFails, converterVars, OneAnswer, OwnGray,
                      OwnAngles
  <2>3. QED
    BY <2>1, <2>2 DEF AnglesInv
<1>2. CASE AnglesConstruct
  <2>1. AnglesTypes'
    BY <1>0, <1>2 DEF AnglesConstruct, Wait, AnglesTypes, Encoders
  <2>2. ASSUME ~disturbed' PROVE (OneAnswer /\ OwnGray /\ OwnAngles)'
    <3>1. owed = <<>> /\ input = <<>>
      BY <1>2, <2>2 DEF AnglesInv, AnglesConstruct, OneAnswer
    <3>2. owed' = <<Command("setup", 1)>> /\ input' = <<>> /\ anglePc' = "setup" /\ asked' = 1
      BY <1>2, <3>1 DEF AnglesConstruct, Wait
    <3>3. QED
      BY <3>2 DEF OneAnswer, OwnGray, OwnAngles
  <2>3. QED
    BY <2>1, <2>2 DEF AnglesInv
<1>3. CASE SetupAnswered
  <2>1. AnglesTypes'
    BY <1>0, <1>3 DEF SetupAnswered, Wait, AnglesTypes, Encoders
  <2>2. ASSUME ~disturbed' PROVE (OneAnswer /\ OwnGray /\ OwnAngles)'
    <3>1. OneAnswer /\ OwnAngles /\ anglePc = "setup" /\ input # <<>> /\ input' = <<>>
      BY <1>3, <2>2 DEF AnglesInv, SetupAnswered
    <3>2. owed = <<>>
      BY <3>1 DEF OneAnswer
    <3>3. CASE asked = 1
      <4>1. owed' = <<Command("setup", 2)>> /\ anglePc' = "setup" /\ asked' = 2
        BY <1>3, <3>2, <3>3 DEF SetupAnswered, Wait
      <4>2. QED
        BY <3>1, <4>1 DEF OneAnswer, OwnGray, OwnAngles
    <3>4. CASE asked # 1
      <4>1. owed' = <<>> /\ anglePc' = "ready"
        BY <1>3, <3>2, <3>4 DEF SetupAnswered
      <4>2. reads' = 0
        BY <1>0, <1>3 DEF SetupAnswered, AnglesTypes
      <4>3. QED
        BY <3>1, <4>1, <4>2 DEF OneAnswer, OwnGray, OwnAngles
    <3>5. QED
      BY <3>3, <3>4
  <2>3. QED
    BY <2>1, <2>2 DEF AnglesInv
<1>4. CASE SetupTimesOut
  <2>1. AnglesTypes'
    BY <1>0, <1>4 DEF SetupTimesOut, AnglesTypes
  <2>2. ASSUME ~disturbed' PROVE (OneAnswer /\ OwnGray /\ OwnAngles)'
    <3>1. owed = <<>> /\ input = <<>>
      BY <1>4, <2>2, NoneToCome DEF SetupTimesOut
    <3>2. reads' = 0 /\ anglePc' = "ready" /\ owed' = <<>> /\ input' = <<>>
      BY <1>0, <1>4, <3>1 DEF SetupTimesOut, AnglesTypes
    <3>3. QED
      BY <3>2 DEF OneAnswer, OwnGray, OwnAngles
  <2>3. QED
    BY <2>1, <2>2 DEF AnglesInv
<1>5. CASE ReadCalled
  <2>1. /\ reads' = reads + 1 /\ anglePc' = "waiting" /\ asked' = 1
        /\ ok' = [n \in Encoders |-> FALSE] /\ gray' = [n \in Encoders |-> {}]
        /\ passed' = [n \in Encoders |-> {position[n]}]
        /\ owed' = Append(owed, Command("waiting", 1))
        /\ UNCHANGED <<position, input, disturbed>>
    BY <1>5 DEF ReadCalled, Wait
  <2>2. AnglesTypes'
    BY <1>0, <2>1 DEF AnglesTypes, Encoders
  <2>3. ASSUME ~disturbed' PROVE (OneAnswer /\ OwnGray /\ OwnAngles)'
    <3>1. owed = <<>> /\ input = <<>>
      BY <1>5, <2>1, <2>3 DEF AnglesInv, ReadCalled, OneAnswer
    <3>2. owed' = <<Command("waiting", 1)>> /\ input' = <<>>
      BY <2>1, <3>1
    <3>3. QED
      BY <2>1, <3>2 DEF OneAnswer, OwnGray, OwnAngles
  <2>4. QED
    BY <2>2, <2>3 DEF AnglesInv
<1>6. QED
  BY <1>1, <1>2, <1>3, <1>4, <1>5

LEMMA ConverterSteps ==
    ASSUME AnglesInv, Converter
    PROVE  AnglesInv'
<1>0. AnglesTypes
  BY DEF AnglesInv
<1>1. CASE Answer \/ Refuse \/ Lose
  <2>1. UNCHANGED <<anglePc, asked, ok, gray, digits, reads, position, passed, disturbed>>
        /\ owed # <<>>
    BY <1>1 DEF Answer, Refuse, Lose, Send, Answering, programVars
  <2>2. AnglesTypes'
    BY <1>0, <2>1 DEF AnglesTypes
  <2>3. ASSUME ~disturbed' PROVE (OneAnswer /\ OwnGray /\ OwnAngles)'
    <3>1. OneAnswer /\ OwnGray /\ OwnAngles
      BY <2>1, <2>3 DEF AnglesInv
    <3>2. /\ anglePc \in {"setup", "waiting"}
          /\ owed = <<Command(anglePc, asked)>> /\ input = <<>>
      BY <2>1, <3>1 DEF OneAnswer
    <3>3. Head(owed) = Command(anglePc, asked) /\ Tail(owed) = <<>>
      BY <3>2
    <3>4. owed' = <<>> /\ (input' = <<>> \/ \E piece : input' = <<piece>> /\ OwnAnswer(piece))
      <4>1. CASE Answer
        <5> DEFINE part == IF anglePc = "waiting" THEN "whole" ELSE "done"
        <5>1. Send(<<Piece(part, asked)>>, <<>>)
          BY <3>3, <4>1 DEF Answer, Command
        <5>2. input' = <<Piece(part, asked)>> /\ owed' = <<>>
          BY <3>2, <3>3, <5>1 DEF Send
        <5>3. Piece(part, asked).part = part /\ Piece(part, asked).gray = GrayOf[position[asked]]
          BY DEF Piece
        <5>4. anglePc = "waiting" => position[asked] \in passed[asked]
          BY <1>0 DEF AnglesTypes
        <5>5. OwnAnswer(Piece(part, asked))
          BY <3>2, <5>3, <5>4 DEF OwnAnswer
        <5>6. QED
          BY <5>2, <5>5
      <4>2. CASE Refuse
        <5>1. input' = <<Piece("nack", 1)>> /\ owed' = <<>>
          BY <3>2, <3>3, <4>2 DEF Refuse, Send
        <5>2. OwnAnswer(Piece("nack", 1))
          BY DEF OwnAnswer, Piece
        <5>3. QED
          BY <5>1, <5>2
      <4>3. CASE Lose
        BY <3>2, <3>3, <4>3 DEF Lose, Send
      <4>4. QED
        BY <1>1, <4>1, <4>2, <4>3
    <3>5. \A piece : OwnAnswer(piece)' <=> OwnAnswer(piece)
      BY <2>1 DEF OwnAnswer
    <3>6. OneAnswer'
      BY <2>1, <3>2, <3>4, <3>5 DEF OneAnswer
    <3>7. QED
      BY <2>1, <3>1, <3>6 DEF OwnGray, OwnAngles
  <2>4. QED
    BY <2>2, <2>3 DEF AnglesInv
<1>2. CASE Cut
  BY <1>0, <1>2 DEF Cut, Send, programVars, AnglesTypes, AnglesInv
<1>3. CASE SendRest
  <2>1. UNCHANGED <<anglePc, asked, ok, gray, digits, reads, position, passed, disturbed>>
    BY <1>3 DEF SendRest, Send, programVars
  <2>2. ASSUME ~disturbed PROVE FALSE
    <3>1. owed = <<Command(anglePc, asked)>> /\ anglePc \in {"setup", "waiting"}
      BY <1>3, <2>2 DEF SendRest, AnglesInv, OneAnswer
    <3>2. Head(owed) = Command(anglePc, asked) /\ Head(owed).what = "rest"
      BY <1>3, <3>1 DEF SendRest
    <3>3. QED
      BY <3>1, <3>2 DEF Command
  <2>3. QED
    BY <1>0, <2>1, <2>2 DEF AnglesInv, AnglesTypes
<1>4. ASSUME NEW n \in Encoders, Turn(n) PROVE AnglesInv'
  <2>1. UNCHANGED <<anglePc, asked, ok, gray, digits, reads, owed, input, disturbed>>
    BY <1>4 DEF Turn, programVars
  <2>2. PICK p \in Positions : position' = [position EXCEPT ![n] = p]
    BY <1>4 DEF Turn
  <2>3. position'[n] = p /\ passed' = [passed EXCEPT ![n] = @ \union {p}]
    BY <1>0, <1>4, <2>2 DEF Turn, AnglesTypes
  <2>4. \A m \in Encoders : passed[m] \subseteq passed'[m]
    BY <1>0, <2>3 DEF AnglesTypes
  <2>5. AnglesTypes'
    <3>1. position' \in [Encoders -> Positions] /\ passed' \in [Encoders -> SUBSET Positions]
      BY <1>0, <2>2, <2>3 DEF AnglesTypes
    <3>2. reads > 0 => \A m \in Encoders : position'[m] \in passed'[m]
      BY <1>0, <2>2, <2>3 DEF AnglesTypes
    <3>3. QED
      BY <1>0, <2>1, <3>1, <3>2 DEF AnglesTypes
  <2>6. ASSUME ~disturbed' PROVE (OneAnswer /\ OwnGray /\ OwnAngles)'
    <3>1. OneAnswer /\ OwnGray /\ OwnAngles
      BY <2>1, <2>6 DEF AnglesInv
    <3>2. \A piece : OwnAnswer(piece) => OwnAnswer(piece)'
      BY <1>0, <2>1, <2>4 DEF OwnAnswer, AnglesTypes
    <3>3. OneAnswer'
      BY <2>1, <3>1, <3>2 DEF OneAnswer
    <3>4. OwnGray' /\ OwnAngles'
      BY <2>1, <2>4, <3>1 DEF OwnGray, OwnAngles
    <3>5. QED
      BY <3>3, <3>4
  <2>7. QED
    BY <2>5, <2>6 DEF AnglesInv
<1>5. QED
  BY <1>1, <1>2, <1>3, <1>4 DEF Converter

LEMMA AnglesStep == AnglesInv /\ [AnglesNext]_angleVars => AnglesInv'
<1> SUFFICES ASSUME AnglesInv, [AnglesNext]_angleVars PROVE AnglesInv'
  OBVIOUS
<1>1. CASE UNCHANGED angleVars
  BY <1>1 DEF angleVars, programVars, converterVars, AnglesInv, AnglesTypes, OneAnswer,
              OwnAnswer, OwnGray, OwnAngles
<1>2. QED
  BY <1>1, ConstructSteps, ReadSteps, ConverterSteps DEF AnglesNext, Program

(* What the encoders tell over USB, for any positions, bounds and faults.  *)
THEOREM AnglesAreOwn == AnglesSpec => []OwnAngles
<1>1. AnglesInv => OwnAngles
  BY DEF AnglesInv, OwnAngles
<1>2. QED
  BY <1>1, AnglesInitial, AnglesStep, PTL DEF AnglesSpec

-----------------------------------------------------------------------------
(* Fractions: their sums, products and order, from Euclid's algorithm on   *)

\* f takes the turns t from wherever they lead until it is outside M.
Leads(S, M, t, f) == f = [s \in S |-> IF s \in M THEN f[t[s]] ELSE s]

\* The turns of a loop add up to a function, however long the loop runs.
LEMMA LoopExists ==
    ASSUME NEW S, NEW M \in SUBSET S, NEW t \in [M -> S]
    PROVE  \E f : Leads(S, M, t, f)
<1> DEFINE Path(s, n, g) ==
              /\ g \in [0 .. n -> S] /\ g[0] = s
              /\ \A i \in 0 .. n - 1 : g[i] \in M /\ g[i + 1] = t[g[i]]
           EndsIn(s, e) == \E n \in Nat : \E g : Path(s, n, g) /\ g[n] = e
           Ends(s) == {e \in S \ M : EndsIn(s, e)}
           f == [s \in S |-> CHOOSE e : e \in Ends(s)]
<1>1. ASSUME NEW s \in S \ M PROVE Ends(s) = {s}
  <2>1. Path(s, 0, [i \in 0 .. 0 |-> s]) /\ [i \in 0 .. 0 |-> s][0] = s
    OBVIOUS
  <2>2. s \in Ends(s)
    BY <2>1
  <2>3. ASSUME NEW e \in Ends(s) PROVE e = s
    <3>0. PICK n \in Nat : \E g : Path(s, n, g) /\ g[n] = e
      OBVIOUS
    <3>1. PICK g : Path(s, n, g) /\ g[n] = e
      BY <3>0
    <3>2. n = 0
      BY <3>1
    <3>3. QED
      BY <3>1, <3>2
  <2>4. QED
    BY <2>2, <2>3
<1>2. ASSUME NEW s \in M PROVE Ends(s) = Ends(t[s])
  <2>1. ASSUME NEW e \in Ends(s) PROVE e \in Ends(t[s])
    <3>0. PICK n \in Nat : \E g : Path(s, n, g) /\ g[n] = e
      BY <2>1
    <3>1. PICK g : Path(s, n, g) /\ g[n] = e
      BY <3>0
    <3>2. n # 0
      BY <2>1, <3>1
    <3>3. PICK m \in Nat : n = m + 1
      <4>1. n - 1 \in Nat /\ n = (n - 1) + 1
        BY <3>2
      <4>2. QED
        BY <4>1
    <3> DEFINE h == [i \in 0 .. m |-> g[i + 1]]
    <3>4. Path(t[s], m, h) /\ h[m] = e
      BY <3>1, <3>3
    <3>5. QED
      BY <2>1, <3>4
  <2>2. ASSUME NEW e \in Ends(t[s]) PROVE e \in Ends(s)
    <3>0. PICK m \in Nat : \E g : Path(t[s], m, g) /\ g[m] = e
      BY <2>2
    <3>1. PICK g : Path(t[s], m, g) /\ g[m] = e
      BY <3>0
    <3> DEFINE h == [i \in 0 .. m + 1 |-> IF i = 0 THEN s ELSE g[i - 1]]
    <3>2. h \in [0 .. m + 1 -> S] /\ h[0] = s /\ h[m + 1] = e
      BY <3>1
    <3>3. ASSUME NEW i \in 0 .. m PROVE h[i] \in M /\ h[i + 1] = t[h[i]]
      <4>1. CASE i = 0
        BY <3>1, <4>1
      <4>2. CASE i # 0
        <5>1. i - 1 \in 0 .. m - 1 /\ h[i] = g[i - 1] /\ h[i + 1] = g[(i - 1) + 1]
          BY <4>2
        <5>2. QED
          BY <3>1, <5>1
      <4>3. QED
        BY <4>1, <4>2
    <3>4. m + 1 \in Nat /\ (m + 1) - 1 = m
      OBVIOUS
    <3> HIDE DEF h
    <3>5. Path(s, m + 1, h)
      BY <3>2, <3>3, <3>4
    <3>6. EndsIn(s, e)
      BY <3>2, <3>4, <3>5, Zenon
    <3>7. QED
      BY <2>2, <3>6
  <2>3. QED
    BY <2>1, <2>2
<1> HIDE DEF Ends
<1>3. ASSUME NEW s \in S PROVE f[s] = IF s \in M THEN f[t[s]] ELSE s
  <2>1. CASE s \in M
    <3>1. t[s] \in S
      BY <2>1
    <3>2. f[t[s]] = CHOOSE e : e \in Ends(t[s])
      BY <3>1
    <3>3. f[s] = CHOOSE e : e \in Ends(s)
      OBVIOUS
    <3>4. QED
      BY <1>2, <2>1, <3>2, <3>3
  <2>2. CASE s \notin M
    <3>1. f[s] = CHOOSE e : e \in {s}
      BY <1>1, <2>2
    <3>2. QED
      BY <2>2, <3>1
  <2>3. QED
    BY <2>1, <2>2
<1>4. f = [s \in S |-> IF s \in M THEN f[t[s]] ELSE s]
  <2>1. f = [s \in S |-> f[s]]
    OBVIOUS
  <2> HIDE DEF f
  <2>2. QED
    BY <1>3, <2>1
<1>5. Leads(S, M, t, f)
  BY <1>4 DEF Leads
<1>6. QED
  BY <1>5

\* A loop ends outside M in what it keeps, when each turn takes from a
\* measure.
LEMMA LoopEnds ==
    ASSUME NEW S, NEW M \in SUBSET S, NEW t \in [M -> S], NEW f, Leads(S, M, t, f),
           NEW I \in SUBSET S, \A s \in I \cap M : t[s] \in I,
           NEW measure \in [S -> Nat], \A s \in I \cap M : measure[t[s]] < measure[s],
           NEW s \in I
    PROVE  f[s] \in I \ M
<1> DEFINE P(n) == \A z \in I : measure[z] < n => f[z] \in I \ M
           N == {n \in Nat : P(n)}
<1>1. 0 \in N
  OBVIOUS
<1>2. ASSUME NEW n \in N PROVE n + 1 \in N
  <2>1. ASSUME NEW z \in I, measure[z] < n + 1 PROVE f[z] \in I \ M
    <3>1. CASE z \in M
      <4>1. t[z] \in I /\ measure[t[z]] < n
        BY <2>1, <3>1
      <4>2. f[z] = f[t[z]]
        BY <3>1 DEF Leads
      <4>3. QED
        BY <4>1, <4>2
    <3>2. CASE z \notin M
      BY <3>2 DEF Leads
    <3>3. QED
      BY <3>1, <3>2
  <2>2. QED
    BY <2>1
<1> HIDE DEF N, P
<1>3. N = Nat
  <2>1. N \subseteq Nat
    BY DEF N
  <2>2. QED
    BY <1>1, <1>2, <2>1, Induction
<1>4. PICK n \in Nat : n = measure[s] + 1
  <2>1. measure[s] \in Nat
    OBVIOUS
  <2>2. QED
    BY <2>1
<1>5. P(n)
  BY <1>3 DEF N
<1>6. measure[s] < n
  BY <1>4
<1> HIDE DEF N
<1>7. QED
  BY <1>5, <1>6 DEF P

\* A common factor is taken out of an equation.
LEMMA Cancel ==
    ASSUME NEW a \in Int, NEW b \in Int, NEW c \in Int, c # 0, a * c = b * c
    PROVE  a = b
BY Z3

\* A common factor is taken out of an inequality.
LEMMA CancelLess ==
    ASSUME NEW a \in Int, NEW b \in Int, NEW c \in Int, c > 0, a * c < b * c
    PROVE  a < b
BY Z3

\* A product is zero for a factor that is zero.
LEMMA NoFactor ==
    ASSUME NEW a \in Int, NEW b \in Int, a * b = 0
    PROVE  a = 0 \/ b = 0
BY Z3

\* What a number divided by b and the rest are.
LEMMA Divided ==
    ASSUME NEW a \in Int, NEW b \in Int, b > 0
    PROVE  /\ a \div b \in Int /\ a % b \in 0 .. b - 1
           /\ a = b * (a \div b) + (a % b)
BY Z3

\* The quotient and the rest are the only ones.
LEMMA Quotient ==
    ASSUME NEW b \in Int, b > 0, NEW q \in Int, NEW r \in 0 .. b - 1
    PROVE  (b * q + r) \div b = q /\ (b * q + r) % b = r
<1> DEFINE a == b * q + r
<1>1. a \in Int /\ a \div b \in Int /\ a % b \in 0 .. b - 1 /\ a = b * (a \div b) + (a % b)
  BY Divided
<1> HIDE DEF a
<1>2. PICK e \in Int, s \in 0 .. b - 1 : e = a \div b /\ s = a % b
  BY <1>1
<1>3. b * q + r = b * e + s
  BY <1>1, <1>2 DEF a
<1>4. b * (q - e) = s - r
  BY <1>3, Z3
<1>5. q = e
  <2>1. CASE q > e
    <3>1. q - e >= 1
      BY <2>1
    <3>2. b * (q - e) >= b
      BY <3>1, Z3
    <3>3. QED
      BY <1>4, <3>2
  <2>2. CASE q < e
    <3>1. e - q >= 1
      BY <2>2
    <3>2. b * (e - q) >= b
      BY <3>1, Z3
    <3>3. b * (q - e) <= -b
      BY <3>2, Z3
    <3>4. QED
      BY <1>4, <3>3
  <2>3. QED
    BY <2>1, <2>2
<1>6. QED
  BY <1>2, <1>3, <1>5 DEF a

\* There is what Euclid's algorithm computes.
LEMMA EuclidExists ==
    \E f : f = [p \in Nat \X Nat |-> IF p[2] # 0 THEN f[<<p[2], p[1] % p[2]>>] ELSE p]
<1> DEFINE S == Nat \X Nat
           M == {p \in S : p[2] # 0}
           t == [p \in M |-> <<p[2], p[1] % p[2]>>]
<1>1. t \in [M -> S]
  <2>1. ASSUME NEW p \in M PROVE p[2] \in Nat /\ p[1] % p[2] \in Nat
    <3>1. p[1] \in Int /\ p[2] \in Int /\ p[2] > 0
      OBVIOUS
    <3>2. QED
      BY <3>1, Divided
  <2>2. QED
    BY <2>1
<1>2. PICK f : Leads(S, M, t, f)
  BY <1>1, LoopExists
<1>3. f = [p \in S |-> IF p \in M THEN f[t[p]] ELSE p]
  BY <1>2, Zenon DEF Leads
<1>4. \A p \in S : (IF p \in M THEN f[t[p]] ELSE p)
                     = IF p[2] # 0 THEN f[<<p[2], p[1] % p[2]>>] ELSE p
  OBVIOUS
<1>5. f = [p \in S |-> IF p[2] # 0 THEN f[<<p[2], p[1] % p[2]>>] ELSE p]
  BY <1>3, <1>4
<1>6. QED
  BY <1>5

\* Euclid's algorithm, one division.
LEMMA EuclidStep ==
    ASSUME NEW a \in Nat, NEW b \in Nat
    PROVE  CommonDivisor(a, b) = IF b = 0 THEN a ELSE CommonDivisor(b, a % b)
<1> DEFINE f == CHOOSE f : f = [p \in Nat \X Nat |->
                    IF p[2] # 0 THEN f[<<p[2], p[1] % p[2]>>] ELSE p]
<1>1. f = [p \in Nat \X Nat |-> IF p[2] # 0 THEN f[<<p[2], p[1] % p[2]>>] ELSE p]
  BY EuclidExists, Zenon
<1>2. CommonDivisor(a, b) = f[<<a, b>>][1]
  BY DEF CommonDivisor
<1>3. CommonDivisor(b, a % b) = f[<<b, a % b>>][1]
  BY DEF CommonDivisor
<1> HIDE DEF f
<1>4. f[<<a, b>>] = IF b # 0 THEN f[<<b, a % b>>] ELSE <<a, b>>
  BY <1>1
<1>5. QED
  BY <1>2, <1>3, <1>4

\* c divides a.
Divides(c, a) == \E q \in Int : a = c * q

\* What Euclid's algorithm ends with divides both numbers.
LEMMA DivisorDivides ==
    ASSUME NEW a \in Nat, NEW b \in Nat, a # 0 \/ b # 0
    PROVE  /\ CommonDivisor(a, b) \in Nat \ {0}
           /\ Divides(CommonDivisor(a, b), a) /\ Divides(CommonDivisor(a, b), b)
<1> DEFINE P(x, y) == /\ CommonDivisor(x, y) \in Nat \ {0}
                      /\ Divides(CommonDivisor(x, y), x) /\ Divides(CommonDivisor(x, y), y)
           N == {n \in Nat : \A x, y \in Nat : y < n /\ (x # 0 \/ y # 0) => P(x, y)}
<1>1. 0 \in N
  OBVIOUS
<1>2. ASSUME NEW n \in N PROVE n + 1 \in N
  <2>1. ASSUME NEW x \in Nat, NEW y \in Nat, y < n + 1, x # 0 \/ y # 0
        PROVE  P(x, y)
    <3>1. CASE y = 0
      <4>1. CommonDivisor(x, y) = x
        BY <3>1, EuclidStep
      <4>2. x = x * 1 /\ y = x * 0
        BY <3>1
      <4>3. QED
        BY <2>1, <3>1, <4>1, <4>2 DEF Divides
    <3>2. CASE y # 0
      <4>1. /\ x \div y \in Int /\ x % y \in 0 .. y - 1
            /\ x = y * (x \div y) + (x % y)
        BY <3>2, Divided
      <4>2. x % y \in Nat /\ x % y < n
        BY <2>1, <4>1
      <4>3. P(y, x % y)
        BY <3>2, <4>2
      <4>4. CommonDivisor(x, y) = CommonDivisor(y, x % y)
        BY <3>2, EuclidStep
      <4>5. PICK g \in Nat \ {0} : g = CommonDivisor(x, y)
        BY <4>3, <4>4
      <4>6. PICK r \in Int : y = g * r
        BY <4>3, <4>4, <4>5 DEF Divides
      <4>7. PICK s \in Int : x % y = g * s
        BY <4>3, <4>4, <4>5 DEF Divides
      <4>8. PICK q \in Int : q = x \div y
        BY <4>1
      <4>9. x = g * (r * q + s)
        <5>1. x = (g * r) * q + g * s
          BY <4>1, <4>6, <4>7, <4>8
        <5>2. QED
          BY <5>1, Z3
      <4>10. QED
        BY <4>3, <4>4, <4>5, <4>6, <4>9 DEF Divides
    <3>3. QED
      BY <3>1, <3>2
  <2> HIDE DEF P
  <2>2. QED
    BY <2>1
<1> HIDE DEF P, N
<1>3. N = Nat
  <2>1. N \subseteq Nat
    BY DEF N
  <2>2. QED
    BY <1>1, <1>2, <2>1, Induction
<1>4. b + 1 \in N /\ b < b + 1
  BY <1>3
<1>5. P(a, b)
  BY <1>4 DEF N
<1>6. QED
  BY <1>5 DEF P

\* The divisor of two multiples.
LEMMA DivisorScaled ==
    ASSUME NEW a \in Nat, NEW b \in Nat, a # 0 \/ b # 0, NEW k \in Nat \ {0}
    PROVE  CommonDivisor(k * a, k * b) = k * CommonDivisor(a, b)
<1> DEFINE P(x, y) == CommonDivisor(k * x, k * y) = k * CommonDivisor(x, y)
           N == {n \in Nat : \A x, y \in Nat : y < n => P(x, y)}
<1>1. 0 \in N
  OBVIOUS
<1>2. ASSUME NEW n \in N PROVE n + 1 \in N
  <2>1. ASSUME NEW x \in Nat, NEW y \in Nat, y < n + 1
        PROVE  P(x, y)
    <3>1. k * x \in Nat /\ k * y \in Nat /\ (k * y = 0 <=> y = 0)
      BY Z3
    <3>2. CASE y = 0
      BY <3>1, <3>2, EuclidStep
    <3>3. CASE y # 0
      <4>1. /\ x \div y \in Int /\ x % y \in 0 .. y - 1
            /\ x = y * (x \div y) + (x % y)
        BY <3>3, Divided
      <4>2. x % y \in Nat /\ x % y < n
        BY <2>1, <4>1
      <4>3. P(y, x % y)
        BY <3>3, <4>2
      <4>4. CommonDivisor(x, y) = CommonDivisor(y, x % y)
        BY <3>3, EuclidStep
      <4>5. CommonDivisor(k * x, k * y) = CommonDivisor(k * y, (k * x) % (k * y))
        BY <3>1, <3>3, EuclidStep
      <4>6. (k * x) % (k * y) = k * (x % y)
        <5>1. PICK q \in Int, r \in Int : q = x \div y /\ r = x % y
          BY <4>1
        <5>2. k * x = (k * y) * q + k * r
          <6>1. x = y * q + r
            BY <4>1, <5>1
          <6>2. QED
            BY <6>1, Z3
        <5>3. k * y > 0 /\ k * r \in 0 .. k * y - 1
          <6>1. r >= 0 /\ y - r >= 1 /\ k >= 1
            BY <4>1, <5>1
          <6>2. k * (y - r) >= k
            BY <6>1, Z3
          <6>3. k * y - k * r >= 1 /\ k * r >= 0
            BY <6>1, <6>2, Z3
          <6>4. QED
            BY <6>3
        <5>4. ((k * y) * q + k * r) % (k * y) = k * r
          <6>1. PICK c \in Int, e \in Int : c = k * y /\ e = k * r
            BY <3>1, <5>1
          <6>2. c > 0 /\ e \in 0 .. c - 1
            BY <5>3, <6>1
          <6>3. (c * q + e) % c = e
            BY <5>1, <6>2, Quotient
          <6>4. QED
            BY <6>1, <6>3
        <5>5. QED
          BY <5>1, <5>2, <5>4
      <4>7. QED
        BY <4>3, <4>4, <4>5, <4>6
    <3>4. QED
      BY <3>2, <3>3
  <2> HIDE DEF P
  <2>2. QED
    BY <2>1
<1> HIDE DEF P, N
<1>3. N = Nat
  <2>1. N \subseteq Nat
    BY DEF N
  <2>2. QED
    BY <1>1, <1>2, <2>1, Induction
<1>4. b + 1 \in N /\ b < b + 1
  BY <1>3
<1>5. P(a, b)
  BY <1>4 DEF N
<1>6. QED
  BY <1>5 DEF P

\* A sign, and a number without it.
LEMMA SignOf ==
    ASSUME NEW n \in Int
    PROVE  \E s \in {1, -1} : n = s * Magnitude(n) /\ Magnitude(n) = s * n
                              /\ Magnitude(n) \in Nat /\ (n = 0 <=> Magnitude(n) = 0)
<1>1. CASE n < 0
  BY <1>1 DEF Magnitude
<1>2. CASE n >= 0
  BY <1>2 DEF Magnitude
<1>3. QED
  BY <1>1, <1>2

\* What Frac() divides by.
LEMMA FracParts ==
    ASSUME NEW n \in Int, NEW d \in Int \ {0}
    PROVE  \E g \in Nat \ {0}, u \in Int, v \in Int \ {0} :
              /\ g = CommonDivisor(Magnitude(n), Magnitude(d))
              /\ n = g * u /\ d = g * v
              /\ Frac(n, d) = IF d < 0 THEN <<-u, -v>> ELSE <<u, v>>
<1>1. PICK g \in Nat \ {0} : /\ g = CommonDivisor(Magnitude(n), Magnitude(d))
                             /\ Divides(g, Magnitude(n)) /\ Divides(g, Magnitude(d))
  <2>1. Magnitude(n) \in Nat /\ Magnitude(d) \in Nat /\ Magnitude(d) # 0
    BY SignOf
  <2>2. QED
    BY <2>1, DivisorDivides
<1>2. ASSUME NEW m \in Int, Divides(g, Magnitude(m))
      PROVE  \E q \in Int : m = g * q /\ m \div g = q
  <2>1. PICK w \in Int : Magnitude(m) = g * w
    BY <1>2 DEF Divides
  <2>2. PICK s \in {1, -1} : m = s * Magnitude(m)
    BY SignOf
  <2>3. PICK q \in Int : q = s * w
    BY <2>2
  <2>4. m = g * q
    BY <2>1, <2>2, <2>3, Z3
  <2>5. (g * q + 0) \div g = q
    BY Quotient
  <2>6. QED
    BY <2>4, <2>5
<1>3. PICK u \in Int : n = g * u /\ n \div g = u
  BY <1>1, <1>2
<1>4. PICK v \in Int : d = g * v /\ d \div g = v
  BY <1>1, <1>2
<1>5. v # 0
  BY <1>4
<1>6. Frac(n, d) = IF d < 0 THEN <<-u, -v>> ELSE <<u, v>>
  <2>1. Frac(n, d) = <<(IF d < 0 THEN -1 ELSE 1) * u, (IF d < 0 THEN -1 ELSE 1) * v>>
    BY <1>1, <1>3, <1>4 DEF Frac
  <2>2. QED
    BY <2>1
<1>7. QED
  BY <1>1, <1>3, <1>4, <1>5, <1>6

\* Frac() leaves the value as it is, and the denominator is positive.
LEMMA FracValue ==
    ASSUME NEW n \in Int, NEW d \in Int \ {0}
    PROVE  \E p \in Int, q \in Nat \ {0} : Frac(n, d) = <<p, q>> /\ p * d = n * q
<1>1. PICK g \in Nat \ {0}, u \in Int, v \in Int \ {0} :
              /\ g = CommonDivisor(Magnitude(n), Magnitude(d))
              /\ n = g * u /\ d = g * v
              /\ Frac(n, d) = IF d < 0 THEN <<-u, -v>> ELSE <<u, v>>
  BY FracParts
<1>2. d < 0 <=> v < 0
  BY <1>1, Z3
<1>3. u * d = n * v
  BY <1>1, Z3
<1>4. CASE d < 0
  <2>1. (-u) * d = n * (-v) /\ -v \in Nat \ {0} /\ -u \in Int
    BY <1>2, <1>3, <1>4, Z3
  <2>2. QED
    BY <1>1, <1>4, <2>1
<1>5. CASE d >= 0
  BY <1>1, <1>2, <1>3, <1>5
<1>6. QED
  BY <1>4, <1>5

\* A common factor makes no difference.
LEMMA FracScaled ==
    ASSUME NEW n \in Int, NEW d \in Int \ {0}, NEW k \in Int \ {0}
    PROVE  Frac(k * n, k * d) = Frac(n, d)
<1>1. PICK g \in Nat \ {0}, u \in Int, v \in Int \ {0} :
              /\ g = CommonDivisor(Magnitude(n), Magnitude(d))
              /\ n = g * u /\ d = g * v
              /\ Frac(n, d) = IF d < 0 THEN <<-u, -v>> ELSE <<u, v>>
  BY FracParts
<1>2. PICK kn \in Int, kd \in Int \ {0} : kn = k * n /\ kd = k * d
  <2>1. k * n \in Int /\ k * d \in Int /\ k * d # 0
    BY Z3
  <2>2. QED
    BY <2>1
<1>3. PICK h \in Nat \ {0}, x \in Int, y \in Int \ {0} :
              /\ h = CommonDivisor(Magnitude(kn), Magnitude(kd))
              /\ kn = h * x /\ kd = h * y
              /\ Frac(kn, kd) = IF kd < 0 THEN <<-x, -y>> ELSE <<x, y>>
  BY FracParts
<1>4. PICK s \in {1, -1}, a \in Nat \ {0} : k = s * a /\ a = Magnitude(k)
  <2>1. PICK s \in {1, -1} : k = s * Magnitude(k) /\ Magnitude(k) \in Nat /\ Magnitude(k) # 0
    BY SignOf
  <2>2. QED
    BY <2>1
<1>5. h = a * g
  <2>1. ASSUME NEW m \in Int PROVE Magnitude(k * m) = a * Magnitude(m)
    <3>1. PICK t \in {1, -1}, b \in Nat : m = t * b /\ b = Magnitude(m)
      <4>1. PICK t \in {1, -1} : m = t * Magnitude(m) /\ Magnitude(m) \in Nat
        BY SignOf
      <4>2. QED
        BY <4>1
    <3>2. a * b \in Nat
      BY Z3
    <3>3. k * m = (s * t) * (a * b)
      BY <1>4, <3>1, Z3
    <3>4. PICK w \in Nat : w = a * b
      BY <3>2
    <3>5. k * m = w \/ k * m = -w
      BY <3>3, <3>4
    <3>6. Magnitude(k * m) = w
      BY <3>5 DEF Magnitude
    <3>7. QED
      BY <3>1, <3>4, <3>6
  <2>2. Magnitude(kn) = a * Magnitude(n) /\ Magnitude(kd) = a * Magnitude(d)
    BY <1>2, <2>1
  <2>3. Magnitude(n) \in Nat /\ Magnitude(d) \in Nat /\ Magnitude(d) # 0
    BY SignOf
  <2>4. CommonDivisor(a * Magnitude(n), a * Magnitude(d))
          = a * CommonDivisor(Magnitude(n), Magnitude(d))
    BY <2>3, DivisorScaled
  <2>5. QED
    BY <1>1, <1>3, <2>2, <2>4
<1>6. x = s * u /\ y = s * v
  <2>1. h * x = h * (s * u)
    BY <1>1, <1>2, <1>3, <1>4, <1>5, Z3
  <2>2. h * y = h * (s * v)
    BY <1>1, <1>2, <1>3, <1>4, <1>5, Z3
  <2>3. ASSUME NEW b \in Int, NEW c \in Int, h * b = h * c PROVE b = c
    <3>1. b * h = c * h
      BY <2>3, Z3
    <3>2. QED
      BY <3>1, Cancel
  <2>4. QED
    BY <2>1, <2>2, <2>3
<1>7. kd < 0 <=> (s = 1 <=> d < 0)
  BY <1>2, <1>4, Z3
<1>8. CASE s = 1
  <2>1. x = u /\ y = v
    BY <1>6, <1>8
  <2>2. QED
    BY <1>1, <1>2, <1>3, <1>7, <1>8, <2>1
<1>9. CASE s = -1
  <2>1. x = -u /\ y = -v /\ -x = u /\ -y = v
    BY <1>6, <1>9
  <2>2. kd < 0 <=> ~(d < 0)
    BY <1>7, <1>9
  <2>3. QED
    BY <1>1, <1>2, <1>3, <2>1, <2>2
<1>10. QED
  BY <1>8, <1>9

\* Equal values give the same fraction: lowest terms are the only ones.
LEMMA FracEqual ==
    ASSUME NEW m \in Int, NEW n \in Int, NEW c \in Int \ {0}, NEW d \in Int \ {0},
           m * d = n * c
    PROVE  Frac(m, c) = Frac(n, d)
<1>1. Frac(d * m, d * c) = Frac(m, c) /\ Frac(c * n, c * d) = Frac(n, d)
  BY FracScaled
<1>2. d * m = c * n /\ d * c = c * d
  BY Z3
<1>3. QED
  BY <1>1, <1>2

\* What Frac() gives is in lowest terms.
LEMMA FracIn ==
    ASSUME NEW n \in Int, NEW d \in Int \ {0}
    PROVE  Frac(n, d) \in Fractions
<1>1. PICK p \in Int, q \in Nat \ {0} : Frac(n, d) = <<p, q>> /\ p * d = n * q
  BY FracValue
<1>2. Frac(p, q) = Frac(n, d)
  BY <1>1, FracEqual
<1>3. QED
  BY <1>1, <1>2 DEF Fractions

\* A fraction has a numerator and a denominator.
LEMMA FractionIs ==
    ASSUME NEW x \in Fractions
    PROVE  /\ x[1] \in Int /\ x[2] \in Nat \ {0} /\ x[2] \in Int \ {0}
           /\ x = <<x[1], x[2]>> /\ Frac(x[1], x[2]) = x
BY DEF Fractions

\* Two fractions of the same value are the same one.
LEMMA SameFraction ==
    ASSUME NEW x \in Fractions, NEW y \in Fractions, x[1] * y[2] = y[1] * x[2]
    PROVE  x = y
<1>1. /\ x[1] \in Int /\ x[2] \in Int \ {0} /\ Frac(x[1], x[2]) = x
      /\ y[1] \in Int /\ y[2] \in Int \ {0} /\ Frac(y[1], y[2]) = y
  BY FractionIs
<1>2. Frac(x[1], x[2]) = Frac(y[1], y[2])
  BY <1>1, FracEqual
<1>3. QED
  BY <1>1, <1>2

\* The sum of two fractions, whatever they are written with.
LEMMA PlusFrac ==
    ASSUME NEW a \in Int, NEW b \in Int \ {0}, NEW c \in Int, NEW d \in Int \ {0}
    PROVE  Plus(Frac(a, b), Frac(c, d)) = Frac(a * d + c * b, b * d)
<1>1. PICK p \in Int, q \in Nat \ {0} : Frac(a, b) = <<p, q>> /\ p * b = a * q
  BY FracValue
<1>2. PICK r \in Int, s \in Nat \ {0} : Frac(c, d) = <<r, s>> /\ r * d = c * s
  BY FracValue
<1>3. Plus(Frac(a, b), Frac(c, d)) = Frac(p * s + r * q, q * s)
  BY <1>1, <1>2 DEF Plus
<1>4. PICK m \in Int, n \in Int : m = p * s + r * q /\ n = a * d + c * b
  OBVIOUS
<1>5. PICK e \in Int \ {0}, f \in Int \ {0} : e = q * s /\ f = b * d
  <2>1. q * s \in Int /\ q * s # 0 /\ b * d \in Int /\ b * d # 0
    BY NoFactor
  <2>2. QED
    BY <2>1
<1>6. m * f = n * e
  <2>1. m * f = (p * b) * (s * d) + (r * d) * (q * b)
    BY <1>4, <1>5, Z3
  <2>2. n * e = (a * q) * (s * d) + (c * s) * (q * b)
    BY <1>4, <1>5, Z3
  <2>3. QED
    BY <1>1, <1>2, <2>1, <2>2
<1>7. QED
  BY <1>3, <1>4, <1>5, <1>6, FracEqual

\* And the product.
LEMMA TimesFrac ==
    ASSUME NEW a \in Int, NEW b \in Int \ {0}, NEW c \in Int, NEW d \in Int \ {0}
    PROVE  Times(Frac(a, b), Frac(c, d)) = Frac(a * c, b * d)
<1>1. PICK p \in Int, q \in Nat \ {0} : Frac(a, b) = <<p, q>> /\ p * b = a * q
  BY FracValue
<1>2. PICK r \in Int, s \in Nat \ {0} : Frac(c, d) = <<r, s>> /\ r * d = c * s
  BY FracValue
<1>3. Times(Frac(a, b), Frac(c, d)) = Frac(p * r, q * s)
  BY <1>1, <1>2 DEF Times
<1>4. PICK m \in Int, n \in Int : m = p * r /\ n = a * c
  OBVIOUS
<1>5. PICK e \in Int \ {0}, f \in Int \ {0} : e = q * s /\ f = b * d
  <2>1. q * s \in Int /\ q * s # 0 /\ b * d \in Int /\ b * d # 0
    BY NoFactor
  <2>2. QED
    BY <2>1
<1>6. m * f = n * e
  <2>1. m * f = (p * b) * (r * d)
    BY <1>4, <1>5, Z3
  <2>2. n * e = (a * q) * (c * s)
    BY <1>4, <1>5, Z3
  <2>3. QED
    BY <1>1, <1>2, <2>1, <2>2
<1>7. QED
  BY <1>3, <1>4, <1>5, <1>6, FracEqual

\* A fraction by its two parts.
LEMMA PartsOf ==
    ASSUME NEW x \in Fractions
    PROVE  \E a \in Int, b \in Int \ {0} : x = Frac(a, b) /\ x = <<a, b>> /\ b > 0
<1>1. x[1] \in Int /\ x[2] \in Int \ {0} /\ x[2] > 0 /\ x = <<x[1], x[2]>> /\ x = Frac(x[1], x[2])
  BY FractionIs
<1>2. QED
  BY <1>1

\* A product of denominators is one.
LEMMA Products ==
    ASSUME NEW a \in Int \ {0}, NEW b \in Int \ {0}
    PROVE  a * b \in Int \ {0} /\ a * b = b * a
BY NoFactor, Z3

\* Sums and products are fractions, in either order.
LEMMA FieldTypes ==
    ASSUME NEW x \in Fractions, NEW y \in Fractions
    PROVE  /\ Plus(x, y) \in Fractions /\ Plus(x, y) = Plus(y, x)
           /\ Times(x, y) \in Fractions /\ Times(x, y) = Times(y, x)
<1>1. PICK a \in Int, b \in Int \ {0} : x = Frac(a, b)
  BY PartsOf
<1>2. PICK c \in Int, d \in Int \ {0} : y = Frac(c, d)
  BY PartsOf
<1>3. b * d \in Int \ {0} /\ d * b = b * d
  BY Products
<1>4. a * d + c * b \in Int /\ a * c \in Int
  OBVIOUS
<1>5. Plus(x, y) = Frac(a * d + c * b, b * d) /\ Plus(y, x) = Frac(c * b + a * d, d * b)
  BY <1>1, <1>2, PlusFrac
<1>6. Times(x, y) = Frac(a * c, b * d) /\ Times(y, x) = Frac(c * a, d * b)
  BY <1>1, <1>2, TimesFrac
<1>7. a * d + c * b = c * b + a * d /\ a * c = c * a
  BY Z3
<1>8. QED
  BY <1>3, <1>4, <1>5, <1>6, <1>7, FracIn

\* The brackets of a sum do not matter.
LEMMA PlusAssociative ==
    ASSUME NEW x \in Fractions, NEW y \in Fractions, NEW z \in Fractions
    PROVE  Plus(Plus(x, y), z) = Plus(x, Plus(y, z))
<1>1. PICK a \in Int, b \in Int \ {0} : x = Frac(a, b)
  BY PartsOf
<1>2. PICK c \in Int, d \in Int \ {0} : y = Frac(c, d)
  BY PartsOf
<1>3. PICK e \in Int, f \in Int \ {0} : z = Frac(e, f)
  BY PartsOf
<1>4. b * d \in Int \ {0} /\ d * f \in Int \ {0}
  BY Products
<1>5. a * d + c * b \in Int /\ c * f + e * d \in Int
  OBVIOUS
<1>6. Plus(x, y) = Frac(a * d + c * b, b * d) /\ Plus(y, z) = Frac(c * f + e * d, d * f)
  <2>1. Plus(x, y) = Frac(a * d + c * b, b * d)
    BY <1>1, <1>2, PlusFrac
  <2>2. Plus(y, z) = Frac(c * f + e * d, d * f)
    BY <1>2, <1>3, PlusFrac
  <2>3. QED
    BY <2>1, <2>2
<1>7. Plus(Plus(x, y), z) = Frac((a * d + c * b) * f + e * (b * d), (b * d) * f)
  BY <1>3, <1>4, <1>5, <1>6, PlusFrac
<1>8. Plus(x, Plus(y, z)) = Frac(a * (d * f) + (c * f + e * d) * b, b * (d * f))
  BY <1>1, <1>4, <1>5, <1>6, PlusFrac
<1>9. (a * d + c * b) * f + e * (b * d) = a * (d * f) + (c * f + e * d) * b
  BY Z3
<1>10. (b * d) * f = b * (d * f)
  BY Z3
<1>11. QED
  BY <1>7, <1>8, <1>9, <1>10

\* Nor those of a product.
LEMMA TimesAssociative ==
    ASSUME NEW x \in Fractions, NEW y \in Fractions, NEW z \in Fractions
    PROVE  Times(Times(x, y), z) = Times(x, Times(y, z))
<1>1. PICK a \in Int, b \in Int \ {0} : x = Frac(a, b)
  BY PartsOf
<1>2. PICK c \in Int, d \in Int \ {0} : y = Frac(c, d)
  BY PartsOf
<1>3. PICK e \in Int, f \in Int \ {0} : z = Frac(e, f)
  BY PartsOf
<1>4. b * d \in Int \ {0} /\ d * f \in Int \ {0}
  BY Products
<1>5. a * c \in Int /\ c * e \in Int
  OBVIOUS
<1>6. Times(x, y) = Frac(a * c, b * d) /\ Times(y, z) = Frac(c * e, d * f)
  BY <1>1, <1>2, <1>3, TimesFrac
<1>7. Times(Times(x, y), z) = Frac((a * c) * e, (b * d) * f)
  BY <1>3, <1>4, <1>5, <1>6, TimesFrac
<1>8. Times(x, Times(y, z)) = Frac(a * (c * e), b * (d * f))
  BY <1>1, <1>4, <1>5, <1>6, TimesFrac
<1>9. (a * c) * e = a * (c * e) /\ (b * d) * f = b * (d * f)
  BY Z3
<1>10. QED
  BY <1>7, <1>8, <1>9

\* A product with a sum is the sum of the products.
LEMMA TimesPlus ==
    ASSUME NEW x \in Fractions, NEW y \in Fractions, NEW z \in Fractions
    PROVE  Times(x, Plus(y, z)) = Plus(Times(x, y), Times(x, z))
<1>1. PICK a \in Int, b \in Int \ {0} : x = Frac(a, b)
  BY PartsOf
<1>2. PICK c \in Int, d \in Int \ {0} : y = Frac(c, d)
  BY PartsOf
<1>3. PICK e \in Int, f \in Int \ {0} : z = Frac(e, f)
  BY PartsOf
<1>4. b * d \in Int \ {0} /\ d * f \in Int \ {0} /\ b * f \in Int \ {0}
  BY Products
<1>5. a * c \in Int /\ a * e \in Int /\ c * f + e * d \in Int
  OBVIOUS
<1>6. /\ Plus(y, z) = Frac(c * f + e * d, d * f)
      /\ Times(x, y) = Frac(a * c, b * d) /\ Times(x, z) = Frac(a * e, b * f)
  <2>1. Plus(y, z) = Frac(c * f + e * d, d * f)
    BY <1>2, <1>3, PlusFrac
  <2>2. Times(x, y) = Frac(a * c, b * d)
    BY <1>1, <1>2, TimesFrac
  <2>3. Times(x, z) = Frac(a * e, b * f)
    BY <1>1, <1>3, TimesFrac
  <2>4. QED
    BY <2>1, <2>2, <2>3
<1>7. Times(x, Plus(y, z)) = Frac(a * (c * f + e * d), b * (d * f))
  BY <1>1, <1>4, <1>5, <1>6, TimesFrac
<1>8. Plus(Times(x, y), Times(x, z))
        = Frac((a * c) * (b * f) + (a * e) * (b * d), (b * d) * (b * f))
  BY <1>4, <1>5, <1>6, PlusFrac
<1>9. (a * c) * (b * f) + (a * e) * (b * d) = b * (a * (c * f + e * d))
  BY Z3
<1>10. (b * d) * (b * f) = b * (b * (d * f))
  BY Z3
<1>11. a * (c * f + e * d) \in Int /\ b * (d * f) \in Int \ {0}
  BY <1>4, <1>5, Products
<1>12. Frac(b * (a * (c * f + e * d)), b * (b * (d * f)))
          = Frac(a * (c * f + e * d), b * (d * f))
  BY <1>11, FracScaled
<1>13. QED
  BY <1>7, <1>8, <1>9, <1>10, <1>12

\* Whole numbers are fractions.
LEMMA WholeIn ==
    ASSUME NEW n \in Int
    PROVE  Whole(n) \in Fractions /\ Frac(n, 1) = Whole(n)
<1>1. PICK g \in Nat \ {0}, u \in Int, v \in Int \ {0} :
              /\ g = CommonDivisor(Magnitude(n), Magnitude(1))
              /\ n = g * u /\ 1 = g * v
              /\ Frac(n, 1) = IF 1 < 0 THEN <<-u, -v>> ELSE <<u, v>>
  <2>1. 1 \in Int \ {0}
    OBVIOUS
  <2>2. QED
    BY <2>1, FracParts
<1>2. v > 0
  BY <1>1, Z3
<1>3. g = 1
  <2>1. CASE g >= 2
    <3>1. g * v >= 2 * v
      BY <1>2, <2>1, Z3
    <3>2. QED
      BY <1>1, <1>2, <3>1
  <2>2. QED
    BY <2>1
<1>4. n = u /\ v = 1
  BY <1>1, <1>3
<1>5. Frac(n, 1) = <<n, 1>>
  BY <1>1, <1>4
<1>6. QED
  BY <1>5, FracIn DEF Whole

\* So are zero and one.
LEMMA ZeroOne ==
    /\ Zero \in Fractions /\ One \in Fractions /\ Zero # One
    /\ Zero = Frac(0, 1) /\ One = Frac(1, 1)
<1>1. Zero # One
  BY DEF Zero, One, Whole
<1>2. QED
  BY <1>1, WholeIn DEF Zero, One

\* Zero is the fraction with a numerator of 0.
LEMMA IsZero ==
    ASSUME NEW x \in Fractions
    PROVE  x = Zero <=> x[1] = 0
<1>1. x = Zero => x[1] = 0
  BY DEF Zero, Whole
<1>2. ASSUME x[1] = 0 PROVE x = Zero
  <2>1. x[1] * Zero[2] = Zero[1] * x[2]
    BY <1>2, FractionIs DEF Zero, Whole
  <2>2. QED
    BY <2>1, ZeroOne, SameFraction
<1>3. QED
  BY <1>1, <1>2

\* Whatever its denominator is written as.
LEMMA FracZero ==
    ASSUME NEW d \in Int \ {0}
    PROVE  Frac(0, d) = Zero
<1>1. 0 * 1 = 0 * d
  BY Z3
<1>2. QED
  BY <1>1, ZeroOne, FracEqual

\* The negative of a fraction, whatever it is written with.
LEMMA NegFrac ==
    ASSUME NEW a \in Int, NEW b \in Int \ {0}
    PROVE  Neg(Frac(a, b)) = Frac(-a, b)
<1>1. PICK g \in Nat \ {0}, u \in Int, v \in Int \ {0} :
              /\ g = CommonDivisor(Magnitude(a), Magnitude(b))
              /\ a = g * u /\ b = g * v
              /\ Frac(a, b) = IF b < 0 THEN <<-u, -v>> ELSE <<u, v>>
  BY FracParts
<1>2. -a \in Int
  OBVIOUS
<1>3. PICK h \in Nat \ {0}, x \in Int, y \in Int \ {0} :
              /\ h = CommonDivisor(Magnitude(-a), Magnitude(b))
              /\ -a = h * x /\ b = h * y
              /\ Frac(-a, b) = IF b < 0 THEN <<-x, -y>> ELSE <<x, y>>
  BY <1>2, FracParts
<1>4. Magnitude(-a) = Magnitude(a)
  BY DEF Magnitude
<1>5. h = g
  BY <1>1, <1>3, <1>4
<1>6. y = v
  <2>1. g * v = g * y
    BY <1>1, <1>3, <1>5
  <2>2. y * g = v * g
    BY <2>1, Z3
  <2>3. QED
    BY <2>2, Cancel
<1>7. x = -u
  <2>1. -(g * u) = g * x
    BY <1>1, <1>3, <1>5
  <2>2. x * g = (-u) * g /\ -u \in Int
    BY <2>1, Z3
  <2>3. QED
    BY <2>1, <2>2, Cancel
<1>8. QED
  BY <1>1, <1>3, <1>6, <1>7 DEF Neg

\* What the negative, zero and one do.
LEMMA NegIn ==
    ASSUME NEW x \in Fractions
    PROVE  /\ Neg(x) \in Fractions /\ Neg(Neg(x)) = x
           /\ Plus(x, Neg(x)) = Zero /\ Plus(x, Zero) = x
           /\ Times(x, Zero) = Zero /\ Times(x, One) = x
<1>1. PICK a \in Int, b \in Int \ {0} : x = Frac(a, b)
  BY PartsOf
<1>2. -a \in Int /\ b * b \in Int \ {0} /\ b * 1 \in Int \ {0}
  BY Products
<1>3. Neg(x) = Frac(-a, b)
  BY <1>1, NegFrac
<1>4. Neg(x) \in Fractions
  BY <1>2, <1>3, FracIn
<1>5. Neg(Neg(x)) = x
  BY FractionIs DEF Neg
<1>6. Plus(x, Neg(x)) = Zero
  <2>1. Plus(x, Neg(x)) = Frac(a * b + (-a) * b, b * b)
    BY <1>1, <1>2, <1>3, PlusFrac, SMTT(30)
  <2>2. a * b + (-a) * b = 0
    BY Z3
  <2>3. QED
    BY <1>2, <2>1, <2>2, FracZero
<1>7. Plus(x, Zero) = x
  <2>1. Plus(x, Zero) = Frac(a * 1 + 0 * b, b * 1)
    <3>1. 0 \in Int /\ 1 \in Int \ {0} /\ Zero = Frac(0, 1)
      BY ZeroOne
    <3>2. QED
      BY <1>1, <3>1, PlusFrac
  <2>2. a * 1 + 0 * b = a /\ b * 1 = b
    OBVIOUS
  <2>3. QED
    BY <1>1, <2>1, <2>2
<1>8. Times(x, Zero) = Zero
  <2>1. Times(x, Zero) = Frac(a * 0, b * 1)
    <3>1. 0 \in Int /\ 1 \in Int \ {0} /\ Zero = Frac(0, 1)
      BY ZeroOne
    <3>2. QED
      BY <1>1, <3>1, TimesFrac
  <2>2. a * 0 = 0
    OBVIOUS
  <2>3. QED
    BY <1>2, <2>1, <2>2, FracZero
<1>9. Times(x, One) = x
  <2>1. Times(x, One) = Frac(a * 1, b * 1)
    <3>1. 1 \in Int /\ 1 \in Int \ {0} /\ One = Frac(1, 1)
      BY ZeroOne
    <3>2. QED
      BY <1>1, <3>1, TimesFrac
  <2>2. a * 1 = a /\ b * 1 = b
    OBVIOUS
  <2>3. QED
    BY <1>1, <2>1, <2>2
<1>10. QED
  BY <1>4, <1>5, <1>6, <1>7, <1>8, <1>9

\* The sign of a factor is that of the product.
LEMMA NegTimes ==
    ASSUME NEW x \in Fractions, NEW y \in Fractions
    PROVE  Times(Neg(x), y) = Neg(Times(x, y)) /\ Neg(Plus(x, y)) = Plus(Neg(x), Neg(y))
<1>1. PICK a \in Int, b \in Int \ {0} : x = Frac(a, b)
  BY PartsOf
<1>2. PICK c \in Int, d \in Int \ {0} : y = Frac(c, d)
  BY PartsOf
<1>3. b * d \in Int \ {0} /\ a * c \in Int /\ -a \in Int /\ -c \in Int /\ a * d + c * b \in Int
  BY Products
<1>4. Neg(x) = Frac(-a, b) /\ Neg(y) = Frac(-c, d)
  BY <1>1, <1>2, NegFrac
<1>5. Times(Neg(x), y) = Neg(Times(x, y))
  <2>1. Times(Neg(x), y) = Frac((-a) * c, b * d)
    BY <1>2, <1>3, <1>4, TimesFrac
  <2>2. Times(x, y) = Frac(a * c, b * d)
    BY <1>1, <1>2, TimesFrac
  <2>3. Neg(Times(x, y)) = Frac(-(a * c), b * d)
    BY <1>3, <2>2, NegFrac
  <2>4. (-a) * c = -(a * c)
    BY Z3
  <2>5. QED
    BY <2>1, <2>3, <2>4
<1>6. Neg(Plus(x, y)) = Plus(Neg(x), Neg(y))
  <2>1. Plus(Neg(x), Neg(y)) = Frac((-a) * d + (-c) * b, b * d)
    BY <1>3, <1>4, PlusFrac
  <2>2. Plus(x, y) = Frac(a * d + c * b, b * d)
    BY <1>1, <1>2, PlusFrac
  <2>3. Neg(Plus(x, y)) = Frac(-(a * d + c * b), b * d)
    BY <1>3, <2>2, NegFrac
  <2>4. (-a) * d + (-c) * b = -(a * d + c * b)
    BY Z3
  <2>5. QED
    BY <2>1, <2>3, <2>4
<1>7. QED
  BY <1>5, <1>6

\* What a fraction is divided by, the other fraction takes with it.
LEMMA OverIs ==
    ASSUME NEW x \in Fractions, NEW y \in Fractions, y # Zero
    PROVE  /\ Over(x, y) \in Fractions /\ Over(One, y) \in Fractions
           /\ Over(x, y) = Times(x, Over(One, y))
           /\ Times(y, Over(One, y)) = One
<1>1. PICK a \in Int, b \in Int \ {0} : a = x[1] /\ b = x[2] /\ x = Frac(x[1], x[2])
  BY FractionIs
<1>2. PICK c \in Int, d \in Int \ {0} : c = y[1] /\ d = y[2] /\ y = Frac(y[1], y[2])
  BY FractionIs
<1>a. x = Frac(a, b)
  BY <1>1
<1>b. y = Frac(c, d)
  BY <1>2
<1>3. c # 0
  BY <1>2, IsZero
<1>4. Over(x, y) = Frac(a * d, b * c)
  BY <1>1, <1>2 DEF Over
<1>5. Over(One, y) = Frac(d, c)
  <2>1. Over(One, y) = Frac(1 * d, 1 * c)
    BY <1>2 DEF Over, One, Whole
  <2>2. 1 * d = d /\ 1 * c = c
    OBVIOUS
  <2>3. QED
    BY <2>1, <2>2
<1>6. b * c \in Int \ {0} /\ a * d \in Int /\ d * c \in Int \ {0}
  BY <1>3, Products
<1>7. Over(x, y) \in Fractions /\ Over(One, y) \in Fractions
  BY <1>3, <1>4, <1>5, <1>6, FracIn
<1>8. Times(x, Over(One, y)) = Frac(a * d, b * c)
  BY <1>a, <1>3, <1>5, TimesFrac
<1>9. Times(y, Over(One, y)) = One
  <2>1. Times(y, Over(One, y)) = Frac(c * d, d * c)
    BY <1>b, <1>3, <1>5, TimesFrac
  <2>2. (c * d) * 1 = 1 * (d * c)
    BY Z3
  <2>3. Frac(c * d, d * c) = Frac(1, 1)
    BY <1>6, <2>2, FracEqual
  <2>4. QED
    BY <2>1, <2>3, ZeroOne
<1>10. QED
  BY <1>4, <1>7, <1>8, <1>9

\* Fractions are in one order.
LEMMA ExceedsOrder ==
    ASSUME NEW x \in Fractions, NEW y \in Fractions, NEW z \in Fractions
    PROVE  /\ ~Exceeds(x, x)
           /\ Exceeds(x, y) \/ x = y \/ Exceeds(y, x)
           /\ Exceeds(x, y) /\ Exceeds(y, z) => Exceeds(x, z)
<1>1. PICK a \in Int, b \in Int : a = x[1] /\ b = x[2] /\ b > 0
  BY FractionIs
<1>2. PICK c \in Int, d \in Int : c = y[1] /\ d = y[2] /\ d > 0
  BY FractionIs
<1>3. PICK e \in Int, f \in Int : e = z[1] /\ f = z[2] /\ f > 0
  BY FractionIs
<1>4. ~Exceeds(x, x)
  BY <1>1 DEF Exceeds
<1>5. Exceeds(x, y) \/ x = y \/ Exceeds(y, x)
  <2>1. PICK m \in Int, n \in Int : m = a * d /\ n = c * b
    OBVIOUS
  <2>2. CASE m = n
    BY <1>1, <1>2, <2>1, <2>2, SameFraction
  <2>3. CASE m # n
    BY <1>1, <1>2, <2>1, <2>3 DEF Exceeds
  <2>4. QED
    BY <2>2, <2>3
<1>6. ASSUME Exceeds(x, y), Exceeds(y, z) PROVE Exceeds(x, z)
  <2>1. a * d > c * b /\ c * f > e * d
    BY <1>1, <1>2, <1>3, <1>6 DEF Exceeds
  <2>2. (a * d) * f > (c * b) * f
    BY <1>3, <2>1, Z3
  <2>3. (c * f) * b > (e * d) * b
    BY <1>1, <2>1, Z3
  <2>4. (e * b) * d < (a * f) * d
    BY <2>2, <2>3, Z3
  <2>5. e * b < a * f
    BY <1>2, <2>4, CancelLess
  <2>6. QED
    BY <1>1, <1>3, <2>5 DEF Exceeds
<1>7. QED
  BY <1>4, <1>5, <1>6

\* No absolute value is below that of zero, which is its own.
LEMMA AbsoluteIs ==
    ASSUME NEW x \in Fractions
    PROVE  /\ Absolute(x) \in Fractions /\ ~Exceeds(Zero, Absolute(x))
           /\ Absolute(x) = Zero => x = Zero
<1>1. PICK a \in Int, b \in Int : a = x[1] /\ b = x[2] /\ b > 0 /\ x = <<a, b>>
  BY FractionIs
<1>2. Absolute(x) = x \/ Absolute(x) = Neg(x)
  BY <1>1 DEF Absolute, Neg, Magnitude
<1>3. Absolute(x) \in Fractions
  BY <1>2, NegIn
<1>4. Magnitude(a) \in Nat /\ (Magnitude(a) = 0 <=> a = 0)
  BY DEF Magnitude
<1>5. ~Exceeds(Zero, Absolute(x))
  <2>1. Exceeds(Zero, Absolute(x)) <=> 0 * b > Magnitude(a) * 1
    BY <1>1 DEF Exceeds, Zero, Whole, Absolute
  <2>2. QED
    BY <1>4, <2>1
<1>6. ASSUME Absolute(x) = Zero PROVE x = Zero
  <2>1. Magnitude(a) = 0
    BY <1>1, <1>6 DEF Absolute, Zero, Whole
  <2>2. QED
    BY <1>1, <1>4, <2>1, IsZero
<1>7. QED
  BY <1>3, <1>5, <1>6

-----------------------------------------------------------------------------
(* Sums                                                                    *)

\* Induction on finite sets, by one element.
LEMMA SetInduction ==
    ASSUME NEW S, IsFiniteSet(S), NEW A \in SUBSET SUBSET S,
           \A T \in SUBSET S : (\A x \in T : T \ {x} \in A) => T \in A
    PROVE  A = SUBSET S
<1> DEFINE N == {n \in Nat : \A T \in SUBSET S : Cardinality(T) = n => T \in A}
<1>1. \A T \in SUBSET S : IsFiniteSet(T) /\ Cardinality(T) \in Nat
  BY FS_Subset, FS_CardinalityType
<1>2. 0 \in N
  <2>1. ASSUME NEW T \in SUBSET S, Cardinality(T) = 0 PROVE T \in A
    <3>1. T = {}
      BY <1>1, <2>1, FS_EmptySet
    <3>2. QED
      BY <3>1
  <2>2. QED
    BY <2>1
<1>3. ASSUME NEW n \in N PROVE n + 1 \in N
  <2>1. ASSUME NEW T \in SUBSET S, Cardinality(T) = n + 1 PROVE T \in A
    <3>1. ASSUME NEW x \in T PROVE T \ {x} \in A
      <4>1. Cardinality(T \ {x}) = n
        <5>1. Cardinality(T \ {x}) = Cardinality(T) - 1
          BY <1>1, FS_RemoveElement
        <5>2. QED
          BY <2>1, <5>1
      <4>2. QED
        BY <4>1
    <3>2. QED
      BY <3>1
  <2>2. QED
    BY <2>1
<1> HIDE DEF N
<1>4. N = Nat
  <2>1. N \subseteq Nat
    BY DEF N
  <2>2. QED
    BY <1>2, <1>3, <2>1, Induction
<1>5. ASSUME NEW T \in SUBSET S PROVE T \in A
  BY <1>1, <1>4 DEF N
<1>6. QED
  BY <1>5

\* Some element, as the fold of a sum takes it.
First(T) == CHOOSE x \in T : TRUE

\* g has the sums of f over the subsets of S.
Sums(f, S, g) ==
    g = [T \in SUBSET S |-> IF T = {} THEN Zero ELSE Plus(f[First(T)], g[T \ {First(T)}])]

\* There is such a function.
LEMMA SumsExist ==
    ASSUME NEW S, IsFiniteSet(S), NEW f, \A x \in S : f[x] \in Fractions
    PROVE  \E g \in [SUBSET S -> Fractions] : Sums(f, S, g)
<1> DEFINE D(n) == {T \in SUBSET S : Cardinality(T) <= n}
           Is(g, T) == g[T] = IF T = {} THEN Zero ELSE Plus(f[First(T)], g[T \ {First(T)}])
           N == {n \in Nat : \E g \in [D(n) -> Fractions] : \A T \in D(n) : Is(g, T)}
<1>1. \A T \in SUBSET S : IsFiniteSet(T) /\ Cardinality(T) \in Nat
                          /\ (Cardinality(T) = 0 <=> T = {})
  BY FS_Subset, FS_CardinalityType, FS_EmptySet
<1>2. 0 \in N
  <2>1. \A T \in D(0) : T = {}
    BY <1>1
  <2>2. [T \in D(0) |-> Zero] \in [D(0) -> Fractions]
    BY ZeroOne
  <2>3. \A T \in D(0) : Is([R \in D(0) |-> Zero], T)
    BY <2>1
  <2> HIDE DEF D, Is
  <2>4. QED
    BY <2>2, <2>3
<1>3. ASSUME NEW n \in N PROVE n + 1 \in N
  <2>1. PICK g \in [D(n) -> Fractions] : \A T \in D(n) : Is(g, T)
    OBVIOUS
  <2> DEFINE h == [T \in D(n + 1) |->
                     IF T \in D(n) THEN g[T] ELSE Plus(f[First(T)], g[T \ {First(T)}])]
  <2>2. ASSUME NEW T \in D(n + 1), T # {}
        PROVE  /\ First(T) \in T /\ f[First(T)] \in Fractions
               /\ T \ {First(T)} \in D(n) /\ T \ {First(T)} \in D(n + 1)
    <3>1. First(T) \in T
      BY <2>2 DEF First
    <3>2. Cardinality(T \ {First(T)}) = Cardinality(T) - 1
      BY <1>1, <3>1, FS_RemoveElement
    <3>3. Cardinality(T) \in Nat /\ Cardinality(T) <= n + 1
      BY <1>1
    <3>4. QED
      BY <3>1, <3>2, <3>3
  <2>3. ASSUME NEW T \in D(n + 1), T \notin D(n) PROVE T # {}
    BY <1>1, <2>3
  <2>4. h \in [D(n + 1) -> Fractions]
    <3>1. ASSUME NEW T \in D(n + 1), T \notin D(n)
          PROVE  Plus(f[First(T)], g[T \ {First(T)}]) \in Fractions
      BY <2>2, <2>3, <3>1, FieldTypes
    <3> HIDE DEF D
    <3>2. QED
      BY <3>1
  <2>5. ASSUME NEW T \in D(n + 1) PROVE Is(h, T)
    <3> HIDE DEF D
    <3>1. CASE T = {}
      <4>1. T \in D(n)
        BY <1>1, <3>1 DEF D
      <4>2. QED
        BY <2>1, <3>1, <4>1
    <3>2. CASE T # {}
      <4>1. T \ {First(T)} \in D(n) /\ T \ {First(T)} \in D(n + 1)
        BY <2>2, <3>2
      <4>2. h[T \ {First(T)}] = g[T \ {First(T)}]
        BY <4>1
      <4>3. h[T] = Plus(f[First(T)], g[T \ {First(T)}])
        BY <2>1, <3>2
      <4>4. QED
        BY <3>2, <4>2, <4>3
    <3>3. QED
      BY <3>1, <3>2
  <2> HIDE DEF D, Is, h
  <2>6. QED
    BY <2>4, <2>5
<1> HIDE DEF N
<1>4. N = Nat
  <2>1. N \subseteq Nat
    BY DEF N
  <2>2. QED
    BY <1>2, <1>3, <2>1, Induction
<1>5. PICK n \in Nat : n = Cardinality(S)
  BY FS_CardinalityType
<1>6. D(n) = SUBSET S
  BY <1>5, FS_Subset
<1>7. PICK g \in [D(n) -> Fractions] : \A T \in D(n) : Is(g, T)
  BY <1>4 DEF N
<1>8. g \in [SUBSET S -> Fractions] /\ \A T \in SUBSET S : Is(g, T)
  BY <1>6, <1>7
<1>9. Sums(f, S, g)
  BY <1>8 DEF Sums
<1>10. QED
  BY <1>8, <1>9

\* It says the same of every set that a subset is in.
LEMMA SumsAgree ==
    ASSUME NEW S, NEW R, NEW f, NEW e, NEW g, NEW h, Sums(f, S, g), Sums(e, R, h),
           NEW T, T \subseteq S, T \subseteq R, IsFiniteSet(T), \A x \in T : f[x] = e[x]
    PROVE  g[T] = h[T]
<1> DEFINE A == {U \in SUBSET T : g[U] = h[U]}
<1>1. ASSUME NEW U \in SUBSET T, \A x \in U : U \ {x} \in A PROVE U \in A
  <2>1. U \in SUBSET S /\ U \in SUBSET R
    OBVIOUS
  <2>2. /\ g[U] = IF U = {} THEN Zero ELSE Plus(f[First(U)], g[U \ {First(U)}])
        /\ h[U] = IF U = {} THEN Zero ELSE Plus(e[First(U)], h[U \ {First(U)}])
    <3>1. g[U] = IF U = {} THEN Zero ELSE Plus(f[First(U)], g[U \ {First(U)}])
      BY <2>1, Zenon DEF Sums
    <3>2. h[U] = IF U = {} THEN Zero ELSE Plus(e[First(U)], h[U \ {First(U)}])
      BY <2>1, Zenon DEF Sums
    <3>3. QED
      BY <3>1, <3>2
  <2>3. CASE U = {}
    BY <2>2, <2>3
  <2>4. CASE U # {}
    <3>1. First(U) \in U
      BY <2>4 DEF First
    <3>2. QED
      BY <1>1, <2>2, <2>4, <3>1
  <2>5. QED
    BY <2>3, <2>4
<1> HIDE DEF A
<1>2. A \in SUBSET SUBSET T
  BY DEF A
<1>3. A = SUBSET T
  BY <1>1, <1>2, SetInduction
<1>4. QED
  BY <1>3 DEF A

\* Sum() is what it says of the whole set.
LEMMA SumIs ==
    ASSUME NEW S, IsFiniteSet(S), NEW f, \A x \in S : f[x] \in Fractions
    PROVE  \E g \in [SUBSET S -> Fractions] : Sums(f, S, g) /\ Sum(f, S) = g[S]
<1> DEFINE g == CHOOSE g : Sums(f, S, g)
<1>1. PICK h \in [SUBSET S -> Fractions] : Sums(f, S, h)
  BY SumsExist
<1>2. Sums(f, S, g)
  BY <1>1
<1>3. Sum(f, S) = g[S]
  BY DEF Sum, FoldFunctionOnSet, MapThenFoldSet, Sums, First
<1> HIDE DEF g
<1>4. g[S] = h[S]
  BY <1>1, <1>2, SumsAgree
<1>5. QED
  BY <1>1, <1>3, <1>4

\* The sum over a set, of what is first in it and of the rest.
LEMMA SumStep ==
    ASSUME NEW S, IsFiniteSet(S), NEW f, \A x \in S : f[x] \in Fractions
    PROVE  /\ Sum(f, S) \in Fractions
           /\ S = {} => Sum(f, S) = Zero
           /\ S # {} => First(S) \in S /\ Sum(f, S) = Plus(f[First(S)], Sum(f, S \ {First(S)}))
<1>1. PICK g \in [SUBSET S -> Fractions] : Sums(f, S, g) /\ Sum(f, S) = g[S]
  BY SumIs
<1>2. S \in SUBSET S
  OBVIOUS
<1>3. Sum(f, S) \in Fractions
  BY <1>1, <1>2
<1>4. g[S] = IF S = {} THEN Zero ELSE Plus(f[First(S)], g[S \ {First(S)}])
  BY <1>1, <1>2, Zenon DEF Sums
<1>5. ASSUME S # {}
      PROVE  First(S) \in S /\ Sum(f, S) = Plus(f[First(S)], Sum(f, S \ {First(S)}))
  <2>1. First(S) \in S
    BY <1>5 DEF First
  <2> DEFINE R == S \ {First(S)}
  <2>2. IsFiniteSet(R) /\ R \subseteq S /\ \A x \in R : f[x] \in Fractions
    BY FS_Subset
  <2> HIDE DEF R
  <2>3. PICK h \in [SUBSET R -> Fractions] : Sums(f, R, h) /\ Sum(f, R) = h[R]
    BY <2>2, SumIs
  <2>4. g[R] = h[R]
    BY <1>1, <2>2, <2>3, SumsAgree
  <2>5. QED
    BY <1>1, <1>4, <1>5, <2>1, <2>3, <2>4 DEF R
<1>6. QED
  BY <1>1, <1>3, <1>4, <1>5

\* Equal terms have equal sums.
LEMMA SumEqual ==
    ASSUME NEW S, IsFiniteSet(S), NEW f, \A x \in S : f[x] \in Fractions,
           NEW e, \A x \in S : e[x] = f[x]
    PROVE  Sum(e, S) = Sum(f, S)
<1>1. PICK g \in [SUBSET S -> Fractions] : Sums(f, S, g) /\ Sum(f, S) = g[S]
  BY SumIs
<1>2. PICK h \in [SUBSET S -> Fractions] : Sums(e, S, h) /\ Sum(e, S) = h[S]
  BY SumIs
<1>3. g[S] = h[S]
  BY <1>1, <1>2, SumsAgree
<1>4. QED
  BY <1>1, <1>2, <1>3

\* The order of a sum does not matter: any element may be the first.
LEMMA SumSplit ==
    ASSUME NEW S, IsFiniteSet(S), NEW f, \A x \in S : f[x] \in Fractions, NEW y \in S
    PROVE  Sum(f, S) = Plus(f[y], Sum(f, S \ {y}))
<1> DEFINE A == {T \in SUBSET S : \A x \in T : Sum(f, T) = Plus(f[x], Sum(f, T \ {x}))}
<1>1. ASSUME NEW T \in SUBSET S, \A x \in T : T \ {x} \in A PROVE T \in A
  <2>1. ASSUME NEW x \in T PROVE Sum(f, T) = Plus(f[x], Sum(f, T \ {x}))
    <3> DEFINE c == First(T)
    <3>0. \A U \in SUBSET S : IsFiniteSet(U) /\ \A z \in U : f[z] \in Fractions
      BY FS_Subset
    <3>1. c \in T /\ Sum(f, T) = Plus(f[c], Sum(f, T \ {c}))
      BY <2>1, <3>0, SumStep
    <3> HIDE DEF c
    <3>2. CASE x = c
      BY <3>1, <3>2
    <3>3. CASE x # c
      <4> DEFINE R == (T \ {c}) \ {x}
      <4>1. R = (T \ {x}) \ {c} /\ R \in SUBSET S
        OBVIOUS
      <4>2. Sum(f, T \ {c}) = Plus(f[x], Sum(f, R))
        BY <1>1, <3>1, <3>3
      <4>3. Sum(f, T \ {x}) = Plus(f[c], Sum(f, R))
        BY <1>1, <3>1, <3>3, <4>1
      <4> HIDE DEF R
      <4>4. Sum(f, R) \in Fractions /\ f[x] \in Fractions /\ f[c] \in Fractions
        BY <3>0, <3>1, <4>1, SumStep
      <4>5. PICK s \in Fractions, a \in Fractions, b \in Fractions :
                s = Sum(f, R) /\ a = f[c] /\ b = f[x]
        BY <4>4
      <4>6. Plus(a, Plus(b, s)) = Plus(b, Plus(a, s))
        <5>1. Plus(Plus(a, b), s) = Plus(a, Plus(b, s))
          BY PlusAssociative
        <5>2. Plus(Plus(b, a), s) = Plus(b, Plus(a, s))
          BY PlusAssociative
        <5>3. Plus(a, b) = Plus(b, a)
          BY FieldTypes
        <5>4. QED
          BY <5>1, <5>2, <5>3
      <4>7. QED
        BY <3>1, <4>2, <4>3, <4>5, <4>6
    <3>4. QED
      BY <3>2, <3>3
  <2>2. QED
    BY <2>1
<1> HIDE DEF A
<1>2. A \in SUBSET SUBSET S
  BY DEF A
<1>3. A = SUBSET S
  BY <1>1, <1>2, SetInduction
<1>4. S \in A
  BY <1>3
<1>5. QED
  BY <1>4 DEF A

\* Nothing but zeros sums up to zero.
LEMMA SumZero ==
    ASSUME NEW S, IsFiniteSet(S), NEW f, \A x \in S : f[x] = Zero
    PROVE  Sum(f, S) = Zero
<1> DEFINE A == {T \in SUBSET S : Sum(f, T) = Zero}
<1>1. ASSUME NEW T \in SUBSET S, \A x \in T : T \ {x} \in A PROVE T \in A
  <2>1. IsFiniteSet(T) /\ \A x \in T : f[x] \in Fractions
    BY FS_Subset, ZeroOne
  <2>2. CASE T = {}
    BY <2>1, <2>2, SumStep
  <2>3. CASE T # {}
    <3>1. First(T) \in T /\ Sum(f, T) = Plus(f[First(T)], Sum(f, T \ {First(T)}))
      BY <2>1, <2>3, SumStep
    <3>2. Sum(f, T \ {First(T)}) = Zero /\ f[First(T)] = Zero
      BY <1>1, <3>1
    <3>3. Plus(Zero, Zero) = Zero
      BY ZeroOne, NegIn
    <3>4. QED
      BY <3>1, <3>2, <3>3
  <2>4. QED
    BY <2>2, <2>3
<1> HIDE DEF A
<1>2. A \in SUBSET SUBSET S
  BY DEF A
<1>3. A = SUBSET S
  BY <1>1, <1>2, SetInduction
<1>4. S \in A
  BY <1>3
<1>5. QED
  BY <1>4 DEF A

\* Sums add up term by term.
LEMMA SumPlus ==
    ASSUME NEW S, IsFiniteSet(S),
           NEW f, \A x \in S : f[x] \in Fractions, NEW e, \A x \in S : e[x] \in Fractions,
           NEW g, \A x \in S : g[x] = Plus(f[x], e[x])
    PROVE  Sum(g, S) = Plus(Sum(f, S), Sum(e, S))
<1> DEFINE A == {T \in SUBSET S : Sum(g, T) = Plus(Sum(f, T), Sum(e, T))}
<1>1. ASSUME NEW T \in SUBSET S, \A x \in T : T \ {x} \in A PROVE T \in A
  <2>1. IsFiniteSet(T) /\ \A x \in T : f[x] \in Fractions /\ e[x] \in Fractions
    BY FS_Subset
  <2>2. \A x \in T : g[x] \in Fractions
    BY <2>1, FieldTypes
  <2>3. CASE T = {}
    <3>1. Sum(g, T) = Zero /\ Sum(f, T) = Zero /\ Sum(e, T) = Zero
      BY <2>1, <2>2, <2>3, SumStep
    <3>2. Plus(Zero, Zero) = Zero
      BY ZeroOne, NegIn
    <3>3. QED
      BY <3>1, <3>2
  <2>4. CASE T # {}
    <3> DEFINE c == First(T)
               R == T \ {First(T)}
    <3>1. c \in T /\ Sum(g, T) = Plus(g[c], Sum(g, R))
      BY <2>1, <2>2, <2>4, SumStep
    <3>2. Sum(f, T) = Plus(f[c], Sum(f, R))
      BY <2>1, <2>4, SumStep
    <3>3. Sum(e, T) = Plus(e[c], Sum(e, R))
      BY <2>1, <2>4, SumStep
    <3>4. Sum(g, R) = Plus(Sum(f, R), Sum(e, R))
      BY <1>1, <3>1
    <3>5. Sum(f, R) \in Fractions /\ Sum(e, R) \in Fractions
      <4>1. IsFiniteSet(R) /\ \A x \in R : f[x] \in Fractions /\ e[x] \in Fractions
        BY <2>1, FS_Subset
      <4>2. QED
        BY <4>1, SumStep
    <3> HIDE DEF c, R
    <3>6. PICK p \in Fractions, q \in Fractions, u \in Fractions, v \in Fractions :
              p = f[c] /\ q = e[c] /\ u = Sum(f, R) /\ v = Sum(e, R)
      BY <2>1, <3>1, <3>5
    <3>7. Plus(Plus(p, q), Plus(u, v)) = Plus(Plus(p, u), Plus(q, v))
      <4>1. Plus(u, v) \in Fractions /\ Plus(q, v) \in Fractions
        BY FieldTypes
      <4>2. Plus(Plus(p, q), Plus(u, v)) = Plus(p, Plus(q, Plus(u, v)))
        BY <4>1, PlusAssociative
      <4>3. Plus(Plus(p, u), Plus(q, v)) = Plus(p, Plus(u, Plus(q, v)))
        BY <4>1, PlusAssociative
      <4>4. Plus(Plus(q, u), v) = Plus(q, Plus(u, v))
        BY PlusAssociative
      <4>5. Plus(Plus(u, q), v) = Plus(u, Plus(q, v))
        BY PlusAssociative
      <4>6. Plus(q, u) = Plus(u, q)
        BY FieldTypes
      <4>7. QED
        BY <4>2, <4>3, <4>4, <4>5, <4>6
    <3>8. QED
      BY <3>1, <3>2, <3>3, <3>4, <3>6, <3>7
  <2>5. QED
    BY <2>3, <2>4
<1> HIDE DEF A
<1>2. A \in SUBSET SUBSET S
  BY DEF A
<1>3. A = SUBSET S
  BY <1>1, <1>2, SetInduction
<1>4. S \in A
  BY <1>3
<1>5. QED
  BY <1>4 DEF A

\* A common factor of the terms is one of the sum.
LEMMA SumTimes ==
    ASSUME NEW S, IsFiniteSet(S), NEW f, \A x \in S : f[x] \in Fractions,
           NEW k \in Fractions, NEW g, \A x \in S : g[x] = Times(k, f[x])
    PROVE  Sum(g, S) = Times(k, Sum(f, S))
<1> DEFINE A == {T \in SUBSET S : Sum(g, T) = Times(k, Sum(f, T))}
<1>1. ASSUME NEW T \in SUBSET S, \A x \in T : T \ {x} \in A PROVE T \in A
  <2>1. IsFiniteSet(T) /\ \A x \in T : f[x] \in Fractions
    BY FS_Subset
  <2>2. \A x \in T : g[x] \in Fractions
    BY <2>1, FieldTypes
  <2>3. CASE T = {}
    <3>1. Sum(g, T) = Zero /\ Sum(f, T) = Zero
      BY <2>1, <2>2, <2>3, SumStep
    <3>2. Times(k, Zero) = Zero
      BY NegIn
    <3>3. QED
      BY <3>1, <3>2
  <2>4. CASE T # {}
    <3> DEFINE c == First(T)
               R == T \ {First(T)}
    <3>1. c \in T /\ Sum(g, T) = Plus(g[c], Sum(g, R))
      BY <2>1, <2>2, <2>4, SumStep
    <3>2. Sum(f, T) = Plus(f[c], Sum(f, R))
      BY <2>1, <2>4, SumStep
    <3>3. Sum(g, R) = Times(k, Sum(f, R))
      BY <1>1, <3>1
    <3>4. Sum(f, R) \in Fractions
      <4>1. IsFiniteSet(R) /\ \A x \in R : f[x] \in Fractions
        BY <2>1, FS_Subset
      <4>2. QED
        BY <4>1, SumStep
    <3> HIDE DEF c, R
    <3>5. Times(k, Plus(f[c], Sum(f, R))) = Plus(Times(k, f[c]), Times(k, Sum(f, R)))
      BY <2>1, <3>1, <3>4, TimesPlus
    <3>6. QED
      BY <3>1, <3>2, <3>3, <3>5
  <2>5. QED
    BY <2>3, <2>4
<1> HIDE DEF A
<1>2. A \in SUBSET SUBSET S
  BY DEF A
<1>3. A = SUBSET S
  BY <1>1, <1>2, SetInduction
<1>4. S \in A
  BY <1>3
<1>5. QED
  BY <1>4 DEF A

\* Sums of sums in either order.
LEMMA SumSwap ==
    ASSUME NEW S, IsFiniteSet(S), NEW R, IsFiniteSet(R),
           NEW m, \A x \in S : \A y \in R : m[x][y] \in Fractions
    PROVE  Sum([x \in S |-> Sum([y \in R |-> m[x][y]], R)], S)
             = Sum([y \in R |-> Sum([x \in S |-> m[x][y]], S)], R)
<1> DEFINE Row(x) == Sum([y \in R |-> m[x][y]], R)
           Col(T, y) == Sum([x \in S |-> m[x][y]], T)
           A == {T \in SUBSET S : Sum([x \in S |-> Row(x)], T)
                                    = Sum([y \in R |-> Col(T, y)], R)}
<1>0. \A x \in S : Row(x) \in Fractions
  <2>1. ASSUME NEW x \in S PROVE Row(x) \in Fractions
    <3>1. \A y \in R : [z \in R |-> m[x][z]][y] \in Fractions
      OBVIOUS
    <3>2. QED
      BY <3>1, SumStep
  <2>2. QED
    BY <2>1
<1>1. ASSUME NEW T \in SUBSET S, \A x \in T : T \ {x} \in A PROVE T \in A
  <2>1. IsFiniteSet(T)
    BY FS_Subset
  <2>2. ASSUME NEW y \in R, NEW U \in SUBSET S
        PROVE  /\ IsFiniteSet(U) /\ Col(U, y) \in Fractions
               /\ U = {} => Col(U, y) = Zero
               /\ U # {} => Col(U, y) = Plus(m[First(U)][y], Col(U \ {First(U)}, y))
    <3>1. IsFiniteSet(U) /\ \A x \in U : [z \in S |-> m[z][y]][x] \in Fractions
      BY FS_Subset
    <3>2. U # {} => First(U) \in U /\ First(U) \in S
      BY DEF First
    <3>3. U # {} => [z \in S |-> m[z][y]][First(U)] = m[First(U)][y]
      BY <3>2
    <3>4. QED
      BY <3>1, <3>3, SumStep
  <2>3. \A x \in T : [z \in S |-> Row(z)][x] = Row(x) /\ Row(x) \in Fractions
    BY <1>0
  <2>4. CASE T = {}
    <3>1. Sum([x \in S |-> Row(x)], T) = Zero
      BY <2>1, <2>3, <2>4, SumStep
    <3>2. \A y \in R : [z \in R |-> Col(T, z)][y] = Zero
      BY <2>2, <2>4
    <3>3. Sum([y \in R |-> Col(T, y)], R) = Zero
      BY <3>2, SumZero
    <3>4. QED
      BY <3>1, <3>3
  <2>5. CASE T # {}
    <3> DEFINE c == First(T)
               U == T \ {First(T)}
    <3>1. c \in T /\ Sum([x \in S |-> Row(x)], T) = Plus(Row(c), Sum([x \in S |-> Row(x)], U))
      <4> HIDE DEF Row
      <4>1. \A x \in T : [z \in S |-> Row(z)][x] \in Fractions
        BY <2>3
      <4>2. QED
        BY <2>1, <2>3, <2>5, <4>1, SumStep
    <3>2. Sum([x \in S |-> Row(x)], U) = Sum([y \in R |-> Col(U, y)], R)
      BY <1>1, <3>1
    <3> HIDE DEF c, U
    <3>3. U \in SUBSET S /\ c \in S
      BY <3>1 DEF U
    <3>4. \A y \in R : /\ m[c][y] \in Fractions /\ Col(U, y) \in Fractions
                       /\ Col(T, y) = Plus(m[c][y], Col(U, y))
      BY <2>2, <2>5, <3>3 DEF c, U
    <3>5. Sum([y \in R |-> Col(T, y)], R)
            = Plus(Sum([y \in R |-> m[c][y]], R), Sum([y \in R |-> Col(U, y)], R))
      <4> DEFINE g == [y \in R |-> Col(T, y)]
                 f == [y \in R |-> m[c][y]]
                 e == [y \in R |-> Col(U, y)]
      <4>1. \A y \in R : g[y] = Plus(f[y], e[y]) /\ f[y] \in Fractions /\ e[y] \in Fractions
        <5> HIDE DEF Col
        <5>1. QED
          BY <3>4
      <4> HIDE DEF g, f, e
      <4>2. Sum(g, R) = Plus(Sum(f, R), Sum(e, R))
        BY <4>1, SumPlus
      <4>3. QED
        BY <4>2 DEF g, f, e
    <3>6. QED
      BY <3>1, <3>2, <3>5
  <2>6. QED
    BY <2>4, <2>5
<1> HIDE DEF A
<1>2. A \in SUBSET SUBSET S
  BY DEF A
<1>3. A = SUBSET S
  BY <1>1, <1>2, SetInduction
<1>4. S \in A
  BY <1>3
<1>5. QED
  BY <1>4 DEF A

\* The operations stay within the fractions.
LEMMA FieldClosed ==
    /\ \A x, y \in Fractions : Plus(x, y) \in Fractions /\ Times(x, y) \in Fractions
    /\ \A x \in Fractions : Neg(x) \in Fractions
    /\ Zero \in Fractions /\ One \in Fractions
BY FieldTypes, NegIn, ZeroOne

\* The laws of sums and products.
LEMMA Ring ==
    /\ \A x, y \in Fractions : Plus(x, y) = Plus(y, x) /\ Times(x, y) = Times(y, x)
    /\ \A x, y, z \in Fractions :
         /\ Plus(Plus(x, y), z) = Plus(x, Plus(y, z))
         /\ Times(x, Plus(y, z)) = Plus(Times(x, y), Times(x, z))
    /\ \A x \in Fractions : /\ Plus(x, Zero) = x /\ Plus(x, Neg(x)) = Zero /\ Neg(Neg(x)) = x
                            /\ Times(x, Zero) = Zero /\ Times(x, One) = x
<1>1. \A x, y \in Fractions : Plus(x, y) = Plus(y, x) /\ Times(x, y) = Times(y, x)
  BY FieldTypes
<1>2. \A x, y, z \in Fractions : Plus(Plus(x, y), z) = Plus(x, Plus(y, z))
  BY PlusAssociative
<1>3. \A x, y, z \in Fractions : Times(x, Plus(y, z)) = Plus(Times(x, y), Times(x, z))
  BY TimesPlus
<1>4. \A x \in Fractions : /\ Plus(x, Zero) = x /\ Plus(x, Neg(x)) = Zero /\ Neg(Neg(x)) = x
                          /\ Times(x, Zero) = Zero /\ Times(x, One) = x
  BY NegIn
<1>5. QED
  BY <1>1, <1>2, <1>3, <1>4

\* A sum is zero for a term that is the negative of the other.
LEMMA ZeroSum ==
    ASSUME NEW x \in Fractions, NEW y \in Fractions
    PROVE  Plus(x, y) = Zero <=> y = Neg(x)
<1>1. ASSUME Plus(x, y) = Zero PROVE y = Neg(x)
  <2>1. Neg(x) \in Fractions
    BY FieldClosed
  <2>2. Plus(Plus(Neg(x), x), y) = Plus(Neg(x), Plus(x, y))
    BY <2>1, Ring
  <2>3. Plus(Neg(x), x) = Zero
    BY <2>1, Ring
  <2>4. Plus(Zero, y) = y /\ Plus(Neg(x), Zero) = Neg(x)
    BY <2>1, FieldClosed, Ring
  <2>5. QED
    BY <1>1, <2>2, <2>3, <2>4
<1>2. QED
  BY <1>1, Ring

\* Zero has no sign.
LEMMA NegZero == Neg(Zero) = Zero
BY FieldClosed, Ring, ZeroSum

\* Two signs take each other away.
LEMMA TimesNeg ==
    ASSUME NEW x \in Fractions, NEW y \in Fractions
    PROVE  /\ Times(Neg(x), y) = Neg(Times(x, y)) /\ Times(x, Neg(y)) = Neg(Times(x, y))
           /\ Times(Neg(x), Neg(y)) = Times(x, y)
<1>1. Neg(x) \in Fractions /\ Neg(y) \in Fractions /\ Times(x, y) \in Fractions
  BY FieldClosed
<1>2. Times(Neg(x), y) = Neg(Times(x, y))
  BY NegTimes
<1>3. Times(Neg(y), x) = Neg(Times(y, x)) /\ Times(x, y) = Times(y, x)
  BY NegTimes, Ring
<1>4. Times(x, Neg(y)) = Neg(Times(x, y))
  BY <1>1, <1>3, Ring
<1>5. Times(Neg(x), Neg(y)) = Neg(Times(x, Neg(y)))
  BY <1>1, NegTimes
<1>6. QED
  BY <1>1, <1>2, <1>4, <1>5, Ring

\* The middle ones of four change places.
LEMMA PlusFour ==
    ASSUME NEW p \in Fractions, NEW q \in Fractions, NEW u \in Fractions, NEW v \in Fractions
    PROVE  Plus(Plus(p, q), Plus(u, v)) = Plus(Plus(p, u), Plus(q, v))
<1>1. Plus(u, v) \in Fractions /\ Plus(q, v) \in Fractions
  BY FieldClosed
<1>2. Plus(Plus(p, q), Plus(u, v)) = Plus(p, Plus(q, Plus(u, v)))
  BY <1>1, Ring
<1>3. Plus(Plus(p, u), Plus(q, v)) = Plus(p, Plus(u, Plus(q, v)))
  BY <1>1, Ring
<1>4. Plus(Plus(q, u), v) = Plus(q, Plus(u, v)) /\ Plus(Plus(u, q), v) = Plus(u, Plus(q, v))
  BY Ring
<1>5. Plus(q, u) = Plus(u, q)
  BY Ring
<1>6. QED
  BY <1>2, <1>3, <1>4, <1>5

\* The row of the pivot, divided by it: x and y change sides.
LEMMA PivotRow ==
    ASSUME NEW g \in Fractions, g # Zero,
           NEW x \in Fractions, NEW y \in Fractions, NEW r \in Fractions
    PROVE  Plus(Plus(Times(g, x), r), y) = Zero
             <=> Plus(Plus(Times(Over(One, g), y), Times(Over(One, g), r)), x) = Zero
<1>1. PICK h \in Fractions : h = Over(One, g) /\ Times(g, h) = One
  BY OverIs
<1> DEFINE old == Plus(Plus(Times(g, x), r), y)
           new == Plus(Plus(Times(h, y), Times(h, r)), x)
<1>2. PICK gx \in Fractions, hy \in Fractions, hr \in Fractions :
          gx = Times(g, x) /\ hy = Times(h, y) /\ hr = Times(h, r)
  BY FieldClosed
<1>3. Times(h, gx) = x
  <2>1. Times(Times(h, g), x) = Times(h, Times(g, x))
    BY TimesAssociative
  <2>2. Times(h, g) = One /\ Times(One, x) = x
    BY <1>1, FieldClosed, Ring
  <2>3. QED
    BY <1>2, <2>1, <2>2
<1>4. Times(h, old) = new
  <2>1. Plus(gx, r) \in Fractions
    BY FieldClosed
  <2>2. Times(h, Plus(Plus(gx, r), y)) = Plus(Plus(x, hr), hy)
    BY <1>2, <1>3, <2>1, Ring
  <2>3. Plus(Plus(x, hr), hy) = Plus(x, Plus(hy, hr)) /\ Plus(hy, hr) \in Fractions
    BY FieldClosed, Ring
  <2>4. QED
    BY <1>2, <2>2, <2>3, Ring
<1>5. old \in Fractions
  BY FieldClosed
<1>6. Times(g, new) = old
  <2>1. Times(Times(g, h), old) = Times(g, Times(h, old))
    BY <1>5, TimesAssociative
  <2>2. Times(One, old) = old
    BY <1>5, FieldClosed, Ring
  <2>3. QED
    BY <1>1, <1>4, <2>1, <2>2
<1>7. Times(h, Zero) = Zero /\ Times(g, Zero) = Zero
  BY Ring
<1>8. old = Zero <=> new = Zero
  BY <1>4, <1>6, <1>7
<1>9. QED
  BY <1>1, <1>8

\* The other rows: what the pivot had there is put in from its row.
LEMMA OtherRow ==
    ASSUME NEW g \in Fractions, g # Zero, NEW x \in Fractions, NEW y \in Fractions,
           NEW r \in Fractions, Plus(Plus(Times(g, x), r), y) = Zero,
           NEW b \in Fractions, NEW s \in Fractions
    PROVE  Plus(Times(b, x), s)
             = Plus(Times(Over(b, Neg(g)), y), Plus(Times(Over(b, Neg(g)), r), s))
<1>1. Neg(g) \in Fractions /\ Neg(g) # Zero
  <2>1. Neg(Neg(g)) = g
    BY Ring
  <2>2. QED
    BY <2>1, FieldClosed, NegZero
<1>2. PICK h \in Fractions : h = Over(One, Neg(g)) /\ Times(Neg(g), h) = One
  BY <1>1, OverIs
<1>3. PICK c \in Fractions : c = Over(b, Neg(g)) /\ c = Times(b, h)
  BY <1>1, <1>2, OverIs
<1>4. Times(c, g) = Neg(b)
  <2>1. Times(Times(b, h), Neg(g)) = Times(b, Times(h, Neg(g)))
    BY <1>1, TimesAssociative
  <2>2. Times(h, Neg(g)) = One
    BY <1>1, <1>2, Ring
  <2>3. Times(c, Neg(g)) = b
    BY <1>3, <2>1, <2>2, Ring
  <2>4. Times(c, Neg(g)) = Neg(Times(c, g))
    BY TimesNeg
  <2>5. Neg(Neg(Times(c, g))) = Times(c, g)
    BY FieldClosed, Ring
  <2>6. QED
    BY <2>3, <2>4, <2>5
<1>5. PICK bx \in Fractions, cy \in Fractions, cr \in Fractions :
          bx = Times(b, x) /\ cy = Times(c, y) /\ cr = Times(c, r)
  BY FieldClosed
<1>6. Times(c, Times(g, x)) = Neg(bx)
  <2>1. Times(Times(c, g), x) = Times(c, Times(g, x))
    BY TimesAssociative
  <2>2. Times(Neg(b), x) = Neg(bx)
    BY <1>5, NegTimes
  <2>3. QED
    BY <1>4, <2>1, <2>2
<1>7. Plus(Plus(Neg(bx), cr), cy) = Zero
  <2>1. PICK gx \in Fractions : gx = Times(g, x)
    BY FieldClosed
  <2>2. Plus(gx, r) \in Fractions
    BY FieldClosed
  <2>3. Times(c, Plus(Plus(gx, r), y)) = Plus(Plus(Times(c, gx), cr), cy)
    BY <1>5, <2>2, Ring
  <2>4. Times(c, Zero) = Zero
    BY Ring
  <2>5. QED
    BY <1>6, <2>1, <2>3, <2>4
<1>8. bx = Plus(cr, cy)
  <2>1. Neg(bx) \in Fractions /\ Plus(cr, cy) \in Fractions /\ Neg(Neg(bx)) = bx
    BY FieldClosed, Ring
  <2>2. Plus(Neg(bx), Plus(cr, cy)) = Zero
    BY <1>7, <2>1, Ring
  <2>3. QED
    BY <2>1, <2>2, ZeroSum
<1>9. Plus(Plus(cr, cy), s) = Plus(cy, Plus(cr, s))
  <2>1. Plus(cr, cy) = Plus(cy, cr)
    BY Ring
  <2>2. QED
    BY <2>1, Ring
<1>10. QED
  BY <1>3, <1>5, <1>8, <1>9

-----------------------------------------------------------------------------
(* Vectors                                                                 *)

\* The negated terms have the negated sum.
LEMMA SumNeg ==
    ASSUME NEW S, IsFiniteSet(S), NEW f, \A x \in S : f[x] \in Fractions,
           NEW g, \A x \in S : g[x] = Neg(f[x])
    PROVE  Sum(g, S) = Neg(Sum(f, S))
<1>1. Neg(One) \in Fractions /\ Sum(f, S) \in Fractions
  BY FieldClosed, SumStep
<1>2. ASSUME NEW x \in Fractions PROVE Times(Neg(One), x) = Neg(x)
  <2>1. Times(Neg(One), x) = Neg(Times(One, x))
    BY FieldClosed, NegTimes
  <2>2. Times(One, x) = x
    BY FieldClosed, Ring
  <2>3. QED
    BY <2>1, <2>2
<1>3. \A x \in S : g[x] = Times(Neg(One), f[x])
  BY <1>2
<1>4. Sum(g, S) = Times(Neg(One), Sum(f, S))
  BY <1>1, <1>3, SumTimes
<1>5. QED
  BY <1>1, <1>2, <1>4

\* Two terms may change places.
LEMMA SumExchanged ==
    ASSUME NEW S, IsFiniteSet(S), NEW f, \A x \in S : f[x] \in Fractions,
           NEW a \in S, NEW b \in S, a # b,
           NEW g, g[a] = f[b], g[b] = f[a], \A x \in S \ {a, b} : g[x] = f[x]
    PROVE  Sum(g, S) = Sum(f, S)
<1> DEFINE R == (S \ {a}) \ {b}
<1>1. IsFiniteSet(S \ {a}) /\ IsFiniteSet(R) /\ b \in S \ {a}
  BY FS_Subset
<1>2. \A x \in S : g[x] \in Fractions
  OBVIOUS
<1>3. PICK s \in Fractions : s = Sum(f, R)
  BY <1>1, SumStep
<1>4. Sum(g, R) = s
  BY <1>1, <1>3, SumEqual
<1> HIDE DEF R
<1>5. Sum(f, S) = Plus(f[a], Plus(f[b], s))
  <2>1. Sum(f, S) = Plus(f[a], Sum(f, S \ {a}))
    BY SumSplit
  <2>2. Sum(f, S \ {a}) = Plus(f[b], s)
    BY <1>1, <1>3, SumSplit DEF R
  <2>3. QED
    BY <2>1, <2>2
<1>6. Sum(g, S) = Plus(f[b], Plus(f[a], s))
  <2>1. Sum(g, S) = Plus(g[a], Sum(g, S \ {a}))
    BY <1>2, SumSplit
  <2>2. Sum(g, S \ {a}) = Plus(g[b], s)
    BY <1>1, <1>2, <1>4, SumSplit DEF R
  <2>3. QED
    BY <2>1, <2>2
<1>7. PICK u \in Fractions, v \in Fractions : u = f[a] /\ v = f[b]
  OBVIOUS
<1>8. Plus(u, Plus(v, s)) = Plus(v, Plus(u, s))
  <2>1. Plus(Plus(u, v), s) = Plus(u, Plus(v, s)) /\ Plus(Plus(v, u), s) = Plus(v, Plus(u, s))
    BY PlusAssociative
  <2>2. Plus(u, v) = Plus(v, u)
    BY Ring
  <2>3. QED
    BY <2>1, <2>2
<1>9. QED
  BY <1>5, <1>6, <1>7, <1>8

\* There are finitely many channels.
LEMMA ChannelSet ==
    /\ NumChannels \in Nat \ {0} /\ Channels = 1 .. NumChannels
    /\ IsFiniteSet(Channels) /\ \A k \in Channels : IsFiniteSet(Channels \ {k})
<1>1. NumChannels \in Nat \ {0}
  BY ForceAssumption
<1>2. IsFiniteSet(Channels)
  BY <1>1, FS_Interval DEF Channels
<1>3. QED
  BY <1>1, <1>2, FS_Subset DEF Channels

\* Known() is there for TLC only.
LEMMA KnownIs ==
    ASSUME NEW v, v = [i \in Channels |-> v[i]]
    PROVE  Known(v) = v
<1> DEFINE S == {v[i] : i \in Channels}
<1>1. NumChannels \in Nat /\ Channels = 1 .. NumChannels
  BY ChannelSet
<1>2. v \in [1 .. NumChannels -> S]
  BY <1>1
<1> HIDE DEF S
<1>3. v \in Seq(S) /\ Len(v) = NumChannels
  BY <1>1, <1>2, SeqDef, LenProperties
<1>4. QED
  BY <1>3 DEF Known

\* A row times a vector.
Dot(v, x) == Sum([j \in Channels |-> Times(v[j], x[j])], Channels)

\* The same without the term of channel k.
Rest(v, x, k) == Sum([j \in Channels |-> Times(v[j], x[j])], Channels \ {k})

\* A row times a vector is a term and the rest.
LEMMA DotIs ==
    ASSUME NEW v \in Vectors, NEW x \in Vectors
    PROVE  /\ Dot(v, x) \in Fractions
           /\ \A k \in Channels :
                /\ Rest(v, x, k) \in Fractions
                /\ Dot(v, x) = Plus(Times(v[k], x[k]), Rest(v, x, k))
<1> DEFINE f == [j \in Channels |-> Times(v[j], x[j])]
<1>1. \A j \in Channels : f[j] = Times(v[j], x[j]) /\ f[j] \in Fractions
  BY FieldClosed DEF Vectors
<1>2. Dot(v, x) = Sum(f, Channels) /\ \A k \in Channels : Rest(v, x, k) = Sum(f, Channels \ {k})
  BY DEF Dot, Rest
<1> HIDE DEF f
<1>3. Dot(v, x) \in Fractions
  BY <1>1, <1>2, ChannelSet, SumStep
<1>4. ASSUME NEW k \in Channels
      PROVE  /\ Rest(v, x, k) \in Fractions
             /\ Dot(v, x) = Plus(Times(v[k], x[k]), Rest(v, x, k))
  <2>1. IsFiniteSet(Channels \ {k}) /\ \A j \in Channels \ {k} : f[j] \in Fractions
    BY <1>1, ChannelSet
  <2>2. Sum(f, Channels \ {k}) \in Fractions
    BY <2>1, SumStep
  <2>3. Sum(f, Channels) = Plus(f[k], Sum(f, Channels \ {k}))
    BY <1>1, ChannelSet, SumSplit
  <2>4. QED
    BY <1>1, <1>2, <2>2, <2>3
<1>5. QED
  BY <1>3, <1>4

\* The terms tell the sum.
LEMMA DotEqual ==
    ASSUME NEW v \in Vectors, NEW x \in Vectors, NEW w, NEW z,
           \A j \in Channels : Times(w[j], z[j]) = Times(v[j], x[j])
    PROVE  Dot(w, z) = Dot(v, x)
<1> DEFINE f == [j \in Channels |-> Times(v[j], x[j])]
           g == [j \in Channels |-> Times(w[j], z[j])]
<1>1. \A j \in Channels : f[j] \in Fractions /\ g[j] = f[j]
  BY FieldClosed DEF Vectors
<1> HIDE DEF f, g
<1>2. Sum(g, Channels) = Sum(f, Channels)
  BY <1>1, ChannelSet, SumEqual
<1>3. QED
  BY <1>2 DEF f, g, Dot

\* So they do when two of them change places.
LEMMA DotExchanged ==
    ASSUME NEW v \in Vectors, NEW x \in Vectors, NEW w, NEW z,
           NEW a \in Channels, NEW b \in Channels, a # b,
           Times(w[a], z[a]) = Times(v[b], x[b]), Times(w[b], z[b]) = Times(v[a], x[a]),
           \A j \in Channels \ {a, b} : Times(w[j], z[j]) = Times(v[j], x[j])
    PROVE  Dot(w, z) = Dot(v, x)
<1> DEFINE f == [j \in Channels |-> Times(v[j], x[j])]
           g == [j \in Channels |-> Times(w[j], z[j])]
<1>1. \A j \in Channels : f[j] \in Fractions
  BY FieldClosed DEF Vectors
<1>2. g[a] = f[b] /\ g[b] = f[a] /\ \A j \in Channels \ {a, b} : g[j] = f[j]
  OBVIOUS
<1> HIDE DEF f, g
<1>3. Sum(g, Channels) = Sum(f, Channels)
  BY <1>1, <1>2, ChannelSet, SumExchanged
<1>4. QED
  BY <1>3 DEF f, g, Dot

\* And when all of them are negated.
LEMMA DotNeg ==
    ASSUME NEW v \in Vectors, NEW x \in Vectors, NEW w, NEW z,
           \A j \in Channels : Times(w[j], z[j]) = Neg(Times(v[j], x[j]))
    PROVE  Dot(w, z) = Neg(Dot(v, x))
<1> DEFINE f == [j \in Channels |-> Times(v[j], x[j])]
           g == [j \in Channels |-> Times(w[j], z[j])]
<1>1. \A j \in Channels : f[j] \in Fractions /\ g[j] = Neg(f[j])
  BY FieldClosed DEF Vectors
<1> HIDE DEF f, g
<1>2. Sum(g, Channels) = Neg(Sum(f, Channels))
  BY <1>1, ChannelSet, SumNeg
<1>3. QED
  BY <1>2 DEF f, g, Dot

\* What c times the row v adds to the row u.
LEMMA RestAdded ==
    ASSUME NEW v \in Vectors, NEW u \in Vectors, NEW x \in Vectors, NEW k \in Channels,
           NEW c \in Fractions, NEW w,
           \A j \in Channels \ {k} : w[j] = Plus(Times(c, v[j]), u[j])
    PROVE  Rest(w, x, k) = Plus(Times(c, Rest(v, x, k)), Rest(u, x, k))
<1> DEFINE f == [j \in Channels |-> Times(v[j], x[j])]
           e == [j \in Channels |-> Times(u[j], x[j])]
           h == [j \in Channels |-> Times(c, f[j])]
           g == [j \in Channels |-> Times(w[j], x[j])]
           R == Channels \ {k}
<1>1. ASSUME NEW j \in R
      PROVE  /\ f[j] \in Fractions /\ e[j] \in Fractions /\ h[j] \in Fractions
             /\ h[j] = Times(c, f[j]) /\ g[j] = Plus(h[j], e[j])
  <2>1. PICK p \in Fractions, q \in Fractions, t \in Fractions :
            p = v[j] /\ q = u[j] /\ t = x[j]
    BY DEF Vectors
  <2>2. Times(c, p) \in Fractions /\ Times(p, t) \in Fractions /\ Times(q, t) \in Fractions
    BY FieldClosed
  <2>3. Times(Plus(Times(c, p), q), t) = Plus(Times(Times(c, p), t), Times(q, t))
    <3>1. Plus(Times(c, p), q) \in Fractions
      BY <2>2, FieldClosed
    <3>2. Times(t, Plus(Times(c, p), q)) = Plus(Times(t, Times(c, p)), Times(t, q))
      BY <2>2, Ring
    <3>3. QED
      BY <2>2, <3>1, <3>2, Ring
  <2>4. Times(Times(c, p), t) = Times(c, Times(p, t))
    BY TimesAssociative
  <2>5. w[j] = Plus(Times(c, p), q)
    BY <2>1
  <2>6. f[j] = Times(p, t) /\ e[j] = Times(q, t) /\ g[j] = Times(w[j], t)
        /\ h[j] = Times(c, Times(p, t))
    BY <2>1
  <2>7. Times(c, Times(p, t)) \in Fractions
    BY <2>2, FieldClosed
  <2> HIDE DEF f, e, h, g
  <2>8. QED
    BY <2>2, <2>3, <2>4, <2>5, <2>6, <2>7
<1> HIDE DEF f, e, h, g
<1>2. IsFiniteSet(R)
  BY ChannelSet
<1> HIDE DEF R
<1>3. Sum(g, R) = Plus(Sum(h, R), Sum(e, R))
  BY <1>1, <1>2, SumPlus
<1>4. Sum(h, R) = Times(c, Sum(f, R))
  BY <1>1, <1>2, SumTimes
<1>5. QED
  BY <1>3, <1>4 DEF f, e, g, R, Rest

\* A row of which every entry, but that of the pivot, is divided.
LEMMA RestScaled ==
    ASSUME NEW v \in Vectors, NEW x \in Vectors, NEW k \in Channels, NEW c \in Fractions, NEW w,
           \A j \in Channels \ {k} : w[j] = Times(c, v[j])
    PROVE  Rest(w, x, k) = Times(c, Rest(v, x, k))
<1> DEFINE f == [j \in Channels |-> Times(v[j], x[j])]
           g == [j \in Channels |-> Times(w[j], x[j])]
           R == Channels \ {k}
<1>1. ASSUME NEW j \in R
      PROVE  f[j] \in Fractions /\ g[j] = Times(c, f[j])
  <2>1. PICK p \in Fractions, t \in Fractions : p = v[j] /\ t = x[j]
    BY DEF Vectors
  <2>2. Times(Times(c, p), t) = Times(c, Times(p, t)) /\ Times(p, t) \in Fractions
    BY FieldClosed, TimesAssociative
  <2>3. QED
    BY <2>1, <2>2
<1> HIDE DEF f, g
<1>2. IsFiniteSet(R)
  BY ChannelSet
<1> HIDE DEF R
<1>3. Sum(g, R) = Times(c, Sum(f, R))
  BY <1>1, <1>2, SumTimes
<1>4. QED
  BY <1>3 DEF f, g, R, Rest

-----------------------------------------------------------------------------
(* The search for the pivot                                                *)

\* Where step k of invert() looks for its pivot.
Block(k) == (k .. NumChannels) \X (k .. NumChannels)

\* p comes before q in the search for the pivot.
Before(m, p, q) ==
    LET a == Absolute(m[p[1]][p[2]])
        b == Absolute(m[q[1]][q[2]])
    IN  Exceeds(a, b)
        \/ (a = b /\ (p[2] < q[2] \/ (p[2] = q[2] /\ p[1] <= q[1])))

\* It looks at the row and the column k first.
LEMMA BlockIn ==
    ASSUME NEW k \in Channels
    PROVE  /\ IsFiniteSet(Block(k)) /\ <<k, k>> \in Block(k)
           /\ \A p \in Block(k) : /\ p[1] \in Channels /\ p[2] \in Channels
                                  /\ p[1] >= k /\ p[2] >= k
                                  /\ p[1] \in Int /\ p[2] \in Int
<1>1. NumChannels \in Nat /\ Channels = 1 .. NumChannels
  BY ChannelSet
<1>2. IsFiniteSet(k .. NumChannels)
  BY <1>1, FS_Interval
<1>3. IsFiniteSet(Block(k))
  BY <1>2, FS_Product DEF Block
<1>4. QED
  BY <1>1, <1>3 DEF Block

\* A matrix has rows, and they have entries.
LEMMA EntryIn ==
    ASSUME NEW m \in Matrices, NEW i \in Channels, NEW j \in Channels
    PROVE  m[i] \in Vectors /\ m[i][j] \in Fractions
BY DEF Matrices, Vectors

\* The search goes by one order.
LEMMA BeforeOrder ==
    ASSUME NEW m \in Matrices, NEW k \in Channels,
           NEW p \in Block(k), NEW q \in Block(k), NEW r \in Block(k)
    PROVE  /\ Before(m, p, p)
           /\ Before(m, p, q) \/ Before(m, q, p)
           /\ Before(m, p, q) /\ Before(m, q, r) => Before(m, p, r)
<1>1. PICK a \in Fractions, b \in Fractions, c \in Fractions :
          /\ a = Absolute(m[p[1]][p[2]]) /\ b = Absolute(m[q[1]][q[2]])
          /\ c = Absolute(m[r[1]][r[2]])
  BY AbsoluteIs, BlockIn, EntryIn
<1>2. /\ Before(m, p, p) <=> Exceeds(a, a) \/ p[2] < p[2] \/ p[1] <= p[1]
      /\ Before(m, p, q)
           <=> Exceeds(a, b) \/ (a = b /\ (p[2] < q[2] \/ (p[2] = q[2] /\ p[1] <= q[1])))
      /\ Before(m, q, p)
           <=> Exceeds(b, a) \/ (b = a /\ (q[2] < p[2] \/ (q[2] = p[2] /\ q[1] <= p[1])))
      /\ Before(m, q, r)
           <=> Exceeds(b, c) \/ (b = c /\ (q[2] < r[2] \/ (q[2] = r[2] /\ q[1] <= r[1])))
      /\ Before(m, p, r)
           <=> Exceeds(a, c) \/ (a = c /\ (p[2] < r[2] \/ (p[2] = r[2] /\ p[1] <= r[1])))
  BY <1>1, Zenon DEF Before
<1>3. PICK p1 \in Int, p2 \in Int, q1 \in Int, q2 \in Int, r1 \in Int, r2 \in Int :
          p1 = p[1] /\ p2 = p[2] /\ q1 = q[1] /\ q2 = q[2] /\ r1 = r[1] /\ r2 = r[2]
  BY BlockIn
<1>4. Before(m, p, p)
  BY <1>2, <1>3
<1>5. Before(m, p, q) \/ Before(m, q, p)
  <2>1. Exceeds(a, b) \/ a = b \/ Exceeds(b, a)
    BY ExceedsOrder
  <2>2. p2 < q2 \/ (p2 = q2 /\ p1 <= q1) \/ q2 < p2 \/ (q2 = p2 /\ q1 <= p1)
    OBVIOUS
  <2>3. QED
    BY <1>2, <1>3, <2>1, <2>2
<1>6. ASSUME Before(m, p, q), Before(m, q, r) PROVE Before(m, p, r)
  <2>1. Exceeds(a, b) /\ Exceeds(b, c) => Exceeds(a, c)
    BY ExceedsOrder
  <2>2. QED
    BY <1>2, <1>3, <1>6, <2>1
<1>7. QED
  BY <1>4, <1>5, <1>6

\* There is a first one, and the search finds it.
LEMMA PivotIs ==
    ASSUME NEW m \in Matrices, NEW k \in Channels
    PROVE  /\ Pivot(m, k) \in Block(k)
           /\ \A q \in Block(k) : Before(m, Pivot(m, k), q)
<1> DEFINE A == {T \in SUBSET Block(k) : T = {} \/ \E p \in T : \A q \in T : Before(m, p, q)}
<1>1. ASSUME NEW T \in SUBSET Block(k), \A x \in T : T \ {x} \in A PROVE T \in A
  <2>1. CASE T = {}
    BY <2>1
  <2>2. CASE T # {}
    <3>1. PICK x \in T : TRUE
      BY <2>2
    <3>2. T \ {x} \in A /\ Before(m, x, x)
      BY <1>1, BeforeOrder
    <3>3. CASE T \ {x} = {}
      <4>1. \A q \in T : q = x
        BY <3>3
      <4>2. QED
        BY <3>2, <4>1
    <3>4. CASE T \ {x} # {}
      <4>1. PICK p \in T \ {x} : \A q \in T \ {x} : Before(m, p, q)
        BY <3>2, <3>4
      <4>2. CASE Before(m, p, x)
        <5>1. \A q \in T : Before(m, p, q)
          BY <4>1, <4>2
        <5>2. QED
          BY <5>1
      <4>3. CASE Before(m, x, p)
        <5>1. \A q \in T : Before(m, x, q)
          <6>1. ASSUME NEW q \in T \ {x} PROVE Before(m, x, q)
            <7>1. Before(m, p, q) /\ p \in Block(k) /\ q \in Block(k) /\ x \in Block(k)
              BY <4>1
            <7>2. QED
              BY <4>3, <7>1, BeforeOrder
          <6>2. QED
            BY <3>2, <6>1
        <5>2. QED
          BY <5>1
      <4>4. Before(m, p, x) \/ Before(m, x, p)
        BY BeforeOrder
      <4>5. QED
        BY <4>2, <4>3, <4>4
    <3>5. QED
      BY <3>3, <3>4
  <2>3. QED
    BY <2>1, <2>2
<1> HIDE DEF A
<1>2. A \in SUBSET SUBSET Block(k)
  BY DEF A
<1>3. A = SUBSET Block(k)
  BY <1>1, <1>2, BlockIn, SetInduction
<1>4. PICK p \in Block(k) : \A q \in Block(k) : Before(m, p, q)
  <2>1. Block(k) \in A /\ Block(k) # {}
    BY <1>3, BlockIn
  <2>2. QED
    BY <2>1 DEF A
<1>5. Pivot(m, k) = CHOOSE s \in Block(k) : \A q \in Block(k) : Before(m, s, q)
  BY DEF Pivot, Block, Before
<1>6. QED
  BY <1>4, <1>5

\* A pivot of zero leaves nothing but zeros to look at.
LEMMA PivotZero ==
    ASSUME NEW m \in Matrices, NEW k \in Channels,
           m[Pivot(m, k)[1]][Pivot(m, k)[2]] = Zero
    PROVE  \A i \in k .. NumChannels : \A j \in k .. NumChannels : m[i][j] = Zero
<1> SUFFICES ASSUME NEW i \in k .. NumChannels, NEW j \in k .. NumChannels
             PROVE  m[i][j] = Zero
  OBVIOUS
<1>1. <<i, j>> \in Block(k) /\ Pivot(m, k) \in Block(k)
  BY PivotIs DEF Block
<1>2. Before(m, Pivot(m, k), <<i, j>>)
  BY <1>1, PivotIs
<1>3. Absolute(Zero) = Zero
  BY DEF Absolute, Zero, Whole, Magnitude
<1>4. Exceeds(Zero, Absolute(m[i][j])) \/ Zero = Absolute(m[i][j])
  BY <1>2, <1>3 DEF Before
<1>5. m[i][j] \in Fractions
  <2>1. i \in Channels /\ j \in Channels
    BY <1>1, BlockIn
  <2>2. QED
    BY <2>1, EntryIn
<1>6. QED
  BY <1>4, <1>5, AbsoluteIs

-----------------------------------------------------------------------------
(* invert(): the swaps                                                     *)

(* A matrix m stands for the equations m p + y = 0.  Step k of invert()    *)
(* moves the variable of its column to the other side: after l steps the   *)
(* first l of y and of p have changed places (Mix, Solves), and after all  *)
(* of them the equations are m y + p = 0: solved for p (Solved).           *)
(* A swap of rows or columns changes the order, and a sign, of y or of p   *)
(* (Turned); undoing the swaps backwards takes that back, of rows on the   *)
(* columns.  The pivot is never zero as long as every y has a p (Onto),    *)
(* which holds at first if the matrix has an inverse, and stays so.        *)

\* A swap as invert() does it: one of the two changes its sign.
Turned(v, k, r) == IF r = k THEN v ELSE [v EXCEPT ![k] = v[r], ![r] = Neg(v[k])]

\* What the matrix is applied to when the first l of y and p have changed
\* places.
Mix(y, p, l) == [j \in Channels |-> IF j <= l THEN y[j] ELSE p[j]]

\* The equations after l steps.
Solves(m, l, p, y) ==
    \A i \in Channels : Plus(Dot(m[i], Mix(y, p, l)), Mix(p, y, l)[i]) = Zero

\* Variables that have changed sides are variables still.
LEMMA MixIn ==
    ASSUME NEW y \in Vectors, NEW p \in Vectors, NEW l \in Nat
    PROVE  Mix(y, p, l) \in Vectors
BY DEF Mix, Vectors

\* What a turned vector consists of.
LEMMA TurnIs ==
    ASSUME NEW v \in Vectors, NEW k \in Channels, NEW r \in Channels
    PROVE  /\ Turned(v, k, r) \in Vectors
           /\ r # k => Turned(v, k, r)[k] = v[r] /\ Turned(v, k, r)[r] = Neg(v[k])
           /\ \A j \in Channels \ {k, r} : Turned(v, k, r)[j] = v[j]
<1>1. \A j \in Channels : v[j] \in Fractions /\ Neg(v[j]) \in Fractions
  BY FieldClosed DEF Vectors
<1>2. QED
  BY <1>1 DEF Turned, Vectors

\* Every vector comes from one that is turned.
LEMMA TurnOnto ==
    ASSUME NEW w \in Vectors, NEW k \in Channels, NEW r \in Channels
    PROVE  \E v \in Vectors : Turned(v, k, r) = w
<1>1. CASE r = k
  BY <1>1 DEF Turned
<1>2. CASE r # k
  <2> DEFINE v == [w EXCEPT ![r] = w[k], ![k] = Neg(w[r])]
  <2>1. \A j \in Channels : w[j] \in Fractions /\ Neg(w[j]) \in Fractions /\ Neg(Neg(w[j])) = w[j]
    BY FieldClosed, Ring DEF Vectors
  <2>2. v \in Vectors /\ v[r] = w[k] /\ v[k] = Neg(w[r])
        /\ \A j \in Channels \ {k, r} : v[j] = w[j]
    BY <1>2, <2>1 DEF Vectors
  <2> HIDE DEF v
  <2>3. \A j \in Channels : Turned(v, k, r)[j] = w[j]
    <3>1. /\ Turned(v, k, r)[k] = v[r] /\ Turned(v, k, r)[r] = Neg(v[k])
          /\ \A j \in Channels \ {k, r} : Turned(v, k, r)[j] = v[j]
      BY <1>2, <2>2, TurnIs
    <3>2. QED
      BY <2>1, <2>2, <3>1
  <2>4. Turned(v, k, r) \in Vectors
    BY <2>2, TurnIs
  <2>5. Turned(v, k, r) = w
    BY <2>3, <2>4 DEF Vectors
  <2>6. QED
    BY <2>2, <2>5
<1>3. QED
  BY <1>1, <1>2

\* The row that a swap negates.
LEMMA RowNegated ==
    ASSUME NEW v \in Vectors
    PROVE  /\ [j \in Channels |-> Neg(v[j])] \in Vectors
           /\ Known([j \in Channels |-> Neg(v[j])]) = [j \in Channels |-> Neg(v[j])]
           /\ \A x \in Vectors : Dot([j \in Channels |-> Neg(v[j])], x) = Neg(Dot(v, x))
<1> DEFINE w == [j \in Channels |-> Neg(v[j])]
<1>1. w \in Vectors
  BY FieldClosed DEF Vectors
<1>2. Known(w) = w
  BY KnownIs
<1>3. ASSUME NEW x \in Vectors PROVE Dot(w, x) = Neg(Dot(v, x))
  <2>1. \A j \in Channels : Times(w[j], x[j]) = Neg(Times(v[j], x[j]))
    BY NegTimes DEF Vectors
  <2> HIDE DEF w
  <2>2. QED
    BY <2>1, DotNeg
<1>4. QED
  BY <1>1, <1>2, <1>3

\* What the rows are after a swap.
LEMMA SwapRowsIs ==
    ASSUME NEW m \in Matrices, NEW k \in Channels, NEW r \in Channels, r # k
    PROVE  /\ SwapRows(m, k, r) \in Matrices
           /\ SwapRows(m, k, r)[k] = m[r]
           /\ SwapRows(m, k, r)[r] = [j \in Channels |-> Neg(m[k][j])]
           /\ \A i \in Channels \ {k, r} : SwapRows(m, k, r)[i] = m[i]
<1>1. PICK w \in Vectors : /\ w = [j \in Channels |-> Neg(m[k][j])]
                           /\ w = Known([j \in Channels |-> Neg(m[k][j])])
  BY EntryIn, RowNegated
<1>2. SwapRows(m, k, r) = [m EXCEPT ![k] = m[r], ![r] = w]
  BY <1>1, Zenon DEF SwapRows
<1>3. QED
  BY <1>1, <1>2 DEF Matrices

\* What they are after it is undone.
LEMMA UnswapRowsIs ==
    ASSUME NEW m \in Matrices, NEW k \in Channels, NEW r \in Channels, r # k
    PROVE  /\ UnswapRows(m, k, r) \in Matrices
           /\ UnswapRows(m, k, r)[k] = [j \in Channels |-> Neg(m[r][j])]
           /\ UnswapRows(m, k, r)[r] = m[k]
           /\ \A i \in Channels \ {k, r} : UnswapRows(m, k, r)[i] = m[i]
<1>1. PICK w \in Vectors : /\ w = [j \in Channels |-> Neg(m[r][j])]
                           /\ w = Known([j \in Channels |-> Neg(m[r][j])])
  BY EntryIn, RowNegated
<1>2. UnswapRows(m, k, r) = [m EXCEPT ![k] = w, ![r] = m[k]]
  BY <1>1, Zenon DEF UnswapRows
<1>3. QED
  BY <1>1, <1>2 DEF Matrices

\* What the columns are after a swap.
LEMMA SwapColumnsIs ==
    ASSUME NEW m \in Matrices, NEW k \in Channels, NEW c \in Channels, c # k
    PROVE  /\ SwapColumns(m, k, c) \in Matrices
           /\ \A i \in Channels :
                /\ SwapColumns(m, k, c)[i][k] = m[i][c]
                /\ SwapColumns(m, k, c)[i][c] = Neg(m[i][k])
                /\ \A j \in Channels \ {k, c} : SwapColumns(m, k, c)[i][j] = m[i][j]
<1> DEFINE s == [i \in Channels |-> [m[i] EXCEPT ![k] = m[i][c], ![c] = Neg(m[i][k])]]
<1>1. SwapColumns(m, k, c) = s
  <2>1. Known(s) = s
    BY KnownIs
  <2>2. QED
    BY <2>1 DEF SwapColumns
<1>2. ASSUME NEW i \in Channels
      PROVE  /\ s[i] \in Vectors /\ s[i][k] = m[i][c] /\ s[i][c] = Neg(m[i][k])
             /\ \A j \in Channels \ {k, c} : s[i][j] = m[i][j]
  <2>1. m[i] \in Vectors /\ m[i][c] \in Fractions /\ Neg(m[i][k]) \in Fractions
    BY FieldClosed, EntryIn
  <2>2. QED
    BY <2>1 DEF Vectors
<1>3. s \in Matrices
  <2>1. s = [i \in Channels |-> s[i]]
    OBVIOUS
  <2> HIDE DEF s
  <2>2. QED
    BY <1>2, <2>1 DEF Matrices
<1> HIDE DEF s
<1>4. QED
  BY <1>1, <1>2, <1>3

\* What they are after it is undone.
LEMMA UnswapColumnsIs ==
    ASSUME NEW m \in Matrices, NEW k \in Channels, NEW c \in Channels, c # k
    PROVE  /\ UnswapColumns(m, k, c) \in Matrices
           /\ \A i \in Channels :
                /\ UnswapColumns(m, k, c)[i][k] = Neg(m[i][c])
                /\ UnswapColumns(m, k, c)[i][c] = m[i][k]
                /\ \A j \in Channels \ {k, c} : UnswapColumns(m, k, c)[i][j] = m[i][j]
<1> DEFINE s == [i \in Channels |-> [m[i] EXCEPT ![k] = Neg(m[i][c]), ![c] = m[i][k]]]
<1>1. UnswapColumns(m, k, c) = s
  <2>1. Known(s) = s
    BY KnownIs
  <2>2. QED
    BY <2>1 DEF UnswapColumns
<1>2. ASSUME NEW i \in Channels
      PROVE  /\ s[i] \in Vectors /\ s[i][k] = Neg(m[i][c]) /\ s[i][c] = m[i][k]
             /\ \A j \in Channels \ {k, c} : s[i][j] = m[i][j]
  <2>1. m[i] \in Vectors /\ m[i][k] \in Fractions /\ Neg(m[i][c]) \in Fractions
    BY FieldClosed, EntryIn
  <2>2. QED
    BY <2>1 DEF Vectors
<1>3. s \in Matrices
  <2>1. s = [i \in Channels |-> s[i]]
    OBVIOUS
  <2> HIDE DEF s
  <2>2. QED
    BY <1>2, <2>1 DEF Matrices
<1> HIDE DEF s
<1>4. QED
  BY <1>1, <1>2, <1>3

\* The same is said of a row and of what is negated on both sides.
LEMMA SidesNegated ==
    ASSUME NEW x \in Fractions, NEW y \in Fractions
    PROVE  /\ Plus(x, y) = Zero <=> Plus(Neg(x), Neg(y)) = Zero
           /\ Plus(x, Neg(y)) = Zero <=> Plus(Neg(x), y) = Zero
<1>1. Neg(x) \in Fractions /\ Neg(y) \in Fractions /\ Neg(Neg(x)) = x /\ Neg(Neg(y)) = y
  BY FieldClosed, Ring
<1>2. QED
  BY <1>1, ZeroSum

\* A swap of rows turns y.
LEMMA SwapRowsSolves ==
    ASSUME NEW m \in Matrices, NEW p \in Vectors, NEW y \in Vectors, NEW l \in Nat,
           NEW k \in Channels, NEW r \in Channels, k > l, r > l
    PROVE  Solves(m, l, p, y) <=> Solves(SwapRows(m, k, r), l, p, Turned(y, k, r))
<1>1. CASE r = k
  BY <1>1 DEF SwapRows, Turned
<1>2. CASE r # k
  <2> DEFINE s == SwapRows(m, k, r)
             t == Turned(y, k, r)
             o == Mix(p, y, l)
             u == Mix(p, t, l)
             z == Mix(y, p, l)
  <2>0. k \in Int /\ r \in Int /\ \A j \in Channels : j \in Int
    BY ChannelSet
  <2>1. t \in Vectors /\ t[k] = y[r] /\ t[r] = Neg(y[k]) /\ \A j \in Channels \ {k, r} : t[j] = y[j]
    BY <1>2, TurnIs
  <2>2. Mix(t, p, l) = z
    BY <2>0, <2>1 DEF Mix
  <2>3. u[k] = o[r] /\ u[r] = Neg(o[k]) /\ \A j \in Channels \ {k, r} : u[j] = o[j]
    BY <2>0, <2>1 DEF Mix
  <2>4. /\ s[k] = m[r] /\ s[r] = [j \in Channels |-> Neg(m[k][j])]
        /\ \A i \in Channels \ {k, r} : s[i] = m[i]
    BY <1>2, SwapRowsIs
  <2>5. z \in Vectors /\ o \in Vectors
    BY MixIn
  <2> HIDE DEF s, t, o, u, z
  <2>6. Dot(s[r], z) = Neg(Dot(m[k], z))
    BY <2>4, <2>5, EntryIn, RowNegated
  <2>7. Plus(Dot(s[k], z), u[k]) = Zero <=> Plus(Dot(m[r], z), o[r]) = Zero
    BY <2>3, <2>4
  <2>8. Plus(Dot(s[r], z), u[r]) = Zero <=> Plus(Dot(m[k], z), o[k]) = Zero
    <3>1. Dot(m[k], z) \in Fractions /\ o[k] \in Fractions
      BY <2>5, DotIs, EntryIn DEF Vectors
    <3>2. QED
      BY <2>3, <2>6, <3>1, SidesNegated
  <2>9. \A i \in Channels \ {k, r} :
            Plus(Dot(s[i], z), u[i]) = Zero <=> Plus(Dot(m[i], z), o[i]) = Zero
    BY <2>3, <2>4
  <2>10. Solves(m, l, p, y) <=> \A i \in Channels : Plus(Dot(m[i], z), o[i]) = Zero
    BY DEF Solves, z, o
  <2>11. Solves(s, l, p, t) <=> \A i \in Channels : Plus(Dot(s[i], z), u[i]) = Zero
    BY <2>2 DEF Solves, u
  <2>12. QED
    BY <2>7, <2>8, <2>9, <2>10, <2>11 DEF s, t
<1>3. QED
  BY <1>1, <1>2

\* A swap of columns turns p.
LEMMA SwapColumnsSolves ==
    ASSUME NEW m \in Matrices, NEW p \in Vectors, NEW y \in Vectors, NEW l \in Nat,
           NEW k \in Channels, NEW c \in Channels, k > l, c > l
    PROVE  Solves(m, l, p, y) <=> Solves(SwapColumns(m, k, c), l, Turned(p, k, c), y)
<1>1. CASE c = k
  BY <1>1 DEF SwapColumns, Turned
<1>2. CASE c # k
  <2> DEFINE s == SwapColumns(m, k, c)
             t == Turned(p, k, c)
             o == Mix(p, y, l)
             u == Mix(y, t, l)
             z == Mix(y, p, l)
  <2>0. k \in Int /\ c \in Int /\ \A j \in Channels : j \in Int
    BY ChannelSet
  <2>1. t \in Vectors /\ t[k] = p[c] /\ t[c] = Neg(p[k]) /\ \A j \in Channels \ {k, c} : t[j] = p[j]
    BY <1>2, TurnIs
  <2>2. Mix(t, y, l) = o
    BY <2>0, <2>1 DEF Mix
  <2>3. u[k] = z[c] /\ u[c] = Neg(z[k]) /\ \A j \in Channels \ {k, c} : u[j] = z[j]
    BY <2>0, <2>1 DEF Mix
  <2>4. \A i \in Channels :
          /\ s[i][k] = m[i][c] /\ s[i][c] = Neg(m[i][k])
          /\ \A j \in Channels \ {k, c} : s[i][j] = m[i][j]
    BY <1>2, SwapColumnsIs
  <2>5. z \in Vectors
    BY MixIn
  <2> HIDE DEF s, t, o, u, z
  <2>6. ASSUME NEW i \in Channels PROVE Dot(s[i], u) = Dot(m[i], z)
    <3>1. m[i] \in Vectors /\ m[i][k] \in Fractions /\ z[k] \in Fractions
      BY <2>5, EntryIn DEF Vectors
    <3>2. Times(s[i][k], u[k]) = Times(m[i][c], z[c])
      BY <2>3, <2>4
    <3>3. Times(s[i][c], u[c]) = Times(m[i][k], z[k])
      BY <2>3, <2>4, <3>1, TimesNeg
    <3>4. \A j \in Channels \ {k, c} : Times(s[i][j], u[j]) = Times(m[i][j], z[j])
      BY <2>3, <2>4
    <3>5. PICK v \in Vectors, x \in Vectors : v = m[i] /\ x = z
      BY <2>5, <3>1
    <3>6. PICK w : w = s[i]
      OBVIOUS
    <3>7. /\ Times(w[k], u[k]) = Times(v[c], x[c]) /\ Times(w[c], u[c]) = Times(v[k], x[k])
          /\ \A j \in Channels \ {k, c} : Times(w[j], u[j]) = Times(v[j], x[j])
      BY <3>2, <3>3, <3>4, <3>5, <3>6
    <3>8. k # c
      BY <1>2
    <3>9. Dot(w, u) = Dot(v, x)
      BY <3>7, <3>8, DotExchanged
    <3>10. QED
      BY <3>5, <3>6, <3>9
  <2>7. Solves(m, l, p, y) <=> \A i \in Channels : Plus(Dot(m[i], z), o[i]) = Zero
    BY DEF Solves, z, o
  <2>8. Solves(s, l, t, y) <=> \A i \in Channels : Plus(Dot(s[i], u), o[i]) = Zero
    BY <2>2 DEF Solves, u
  <2>9. QED
    BY <2>6, <2>7, <2>8 DEF s, t
<1>3. QED
  BY <1>1, <1>2

-----------------------------------------------------------------------------
(* invert(): the elimination                                               *)

\* All equations are solved: y gives p.
Solved(m, p, y) == \A i \in Channels : Plus(Dot(m[i], y), p[i]) = Zero

\* After the last step nothing else is said.
LEMMA SolvedIs ==
    ASSUME NEW p \in Vectors, NEW y \in Vectors, NEW m
    PROVE  Solves(m, NumChannels, p, y) <=> Solved(m, p, y)
<1>1. \A j \in Channels : j <= NumChannels
  BY ChannelSet
<1>2. Mix(y, p, NumChannels) = y /\ Mix(p, y, NumChannels) = p
  BY <1>1 DEF Mix, Vectors
<1>3. QED
  BY <1>2 DEF Solves, Solved

\* A swap of rows is undone by one of columns.
LEMMA UnswapColumnsSolves ==
    ASSUME NEW m \in Matrices, NEW p \in Vectors, NEW y \in Vectors,
           NEW k \in Channels, NEW c \in Channels
    PROVE  Solved(m, p, Turned(y, k, c)) <=> Solved(UnswapColumns(m, k, c), p, y)
<1>1. CASE c = k
  BY <1>1 DEF UnswapColumns, Turned
<1>2. CASE c # k
  <2> DEFINE s == UnswapColumns(m, k, c)
             t == Turned(y, k, c)
  <2>1. t \in Vectors /\ t[k] = y[c] /\ t[c] = Neg(y[k]) /\ \A j \in Channels \ {k, c} : t[j] = y[j]
    BY <1>2, TurnIs
  <2>2. \A i \in Channels :
          /\ s[i][k] = Neg(m[i][c]) /\ s[i][c] = m[i][k]
          /\ \A j \in Channels \ {k, c} : s[i][j] = m[i][j]
    BY <1>2, UnswapColumnsIs
  <2> HIDE DEF s, t
  <2>3. ASSUME NEW i \in Channels PROVE Dot(s[i], y) = Dot(m[i], t)
    <3>1. m[i] \in Vectors /\ m[i][c] \in Fractions /\ y[k] \in Fractions
      BY EntryIn DEF Vectors
    <3>2. Times(s[i][k], y[k]) = Times(m[i][c], t[c])
      BY <2>1, <2>2, <3>1, TimesNeg
    <3>3. Times(s[i][c], y[c]) = Times(m[i][k], t[k])
      BY <2>1, <2>2
    <3>4. \A j \in Channels \ {k, c} : Times(s[i][j], y[j]) = Times(m[i][j], t[j])
      BY <2>1, <2>2
    <3>5. PICK v \in Vectors, x \in Vectors : v = m[i] /\ x = t
      BY <2>1, <3>1
    <3>6. PICK w : w = s[i]
      OBVIOUS
    <3>7. /\ Times(w[k], y[k]) = Times(v[c], x[c]) /\ Times(w[c], y[c]) = Times(v[k], x[k])
          /\ \A j \in Channels \ {k, c} : Times(w[j], y[j]) = Times(v[j], x[j])
      BY <3>2, <3>3, <3>4, <3>5, <3>6
    <3>8. k # c
      BY <1>2
    <3>9. Dot(w, y) = Dot(v, x)
      BY <3>7, <3>8, DotExchanged
    <3>10. QED
      BY <3>5, <3>6, <3>9
  <2>4. QED
    BY <2>3 DEF Solved, s, t
<1>3. QED
  BY <1>1, <1>2

\* A swap of columns is undone by one of rows.
LEMMA UnswapRowsSolves ==
    ASSUME NEW m \in Matrices, NEW p \in Vectors, NEW y \in Vectors,
           NEW k \in Channels, NEW r \in Channels
    PROVE  Solved(m, Turned(p, k, r), y) <=> Solved(UnswapRows(m, k, r), p, y)
<1>1. CASE r = k
  BY <1>1 DEF UnswapRows, Turned
<1>2. CASE r # k
  <2> DEFINE s == UnswapRows(m, k, r)
             t == Turned(p, k, r)
  <2>1. t \in Vectors /\ t[k] = p[r] /\ t[r] = Neg(p[k]) /\ \A j \in Channels \ {k, r} : t[j] = p[j]
    BY <1>2, TurnIs
  <2>2. /\ s[k] = [j \in Channels |-> Neg(m[r][j])] /\ s[r] = m[k]
        /\ \A i \in Channels \ {k, r} : s[i] = m[i]
    BY <1>2, UnswapRowsIs
  <2> HIDE DEF s, t
  <2>3. Dot(s[k], y) = Neg(Dot(m[r], y))
    BY <2>2, EntryIn, RowNegated
  <2>4. Plus(Dot(s[k], y), p[k]) = Zero <=> Plus(Dot(m[r], y), t[r]) = Zero
    <3>1. Dot(m[r], y) \in Fractions /\ p[k] \in Fractions
      BY DotIs, EntryIn DEF Vectors
    <3>2. QED
      BY <2>1, <2>3, <3>1, SidesNegated
  <2>5. Plus(Dot(s[r], y), p[r]) = Zero <=> Plus(Dot(m[k], y), t[k]) = Zero
    BY <2>1, <2>2
  <2>6. \A i \in Channels \ {k, r} :
            Plus(Dot(s[i], y), p[i]) = Zero <=> Plus(Dot(m[i], y), t[i]) = Zero
    BY <2>1, <2>2
  <2>7. QED
    BY <2>4, <2>5, <2>6 DEF Solved, s, t
<1>3. QED
  BY <1>1, <1>2

\* The rest does not depend on the term of the pivot.
LEMMA RestSame ==
    ASSUME NEW v \in Vectors, NEW x \in Vectors, NEW k \in Channels,
           NEW z, \A j \in Channels \ {k} : z[j] = x[j]
    PROVE  Rest(v, z, k) = Rest(v, x, k)
<1> DEFINE f == [j \in Channels |-> Times(v[j], x[j])]
           g == [j \in Channels |-> Times(v[j], z[j])]
<1>1. \A j \in Channels \ {k} : f[j] \in Fractions /\ g[j] = f[j]
  BY FieldClosed DEF Vectors
<1> HIDE DEF f, g
<1>2. Sum(g, Channels \ {k}) = Sum(f, Channels \ {k})
  BY <1>1, ChannelSet, SumEqual
<1>3. QED
  BY <1>2 DEF f, g, Rest

\* What Eliminate() does to each entry, for a pivot that is not zero.
LEMMA EliminateIs ==
    ASSUME NEW m \in Matrices, NEW k \in Channels, NEW g, g = m[k][k], g # Zero
    PROVE  /\ Eliminate(m, k) \in Matrices
           /\ Eliminate(m, k)[k][k] = Over(One, g)
           /\ \A j \in Channels \ {k} : Eliminate(m, k)[k][j] = Times(Over(One, g), m[k][j])
           /\ \A i \in Channels \ {k} :
                /\ Over(m[i][k], Neg(g)) \in Fractions
                /\ Eliminate(m, k)[i][k] = Over(m[i][k], Neg(g))
                /\ \A j \in Channels \ {k} :
                     Eliminate(m, k)[i][j] = Plus(Times(Over(m[i][k], Neg(g)), m[k][j]), m[i][j])
<1> DEFINE c == [i \in Channels |-> Over(m[i][k], Neg(g))]
           e(i, j) == CASE i = k /\ j = k -> Over(One, g)
                        [] i = k /\ j # k -> Over(m[k][j], g)
                        [] i # k /\ j = k -> c[i]
                        [] OTHER -> Plus(Times(c[i], m[k][j]), m[i][j])
           row(i) == [j \in Channels |-> e(i, j)]
           s == [i \in Channels |-> row(i)]
<1>1. Known(c) = c
  BY KnownIs
<1>2. \A i \in Channels : Known(row(i)) = row(i)
  <2>1. ASSUME NEW i \in Channels PROVE Known(row(i)) = row(i)
    BY KnownIs
  <2>2. QED
    BY <2>1
<1>3. [i \in Channels |-> Known(row(i))] = s
  BY <1>2
<1>4. Known(s) = s
  BY KnownIs
<1>5. Eliminate(m, k) = s
  <2>1. Eliminate(m, k) = Known([i \in Channels |-> Known(row(i))])
    BY <1>1 DEF Eliminate
  <2>2. QED
    BY <1>3, <1>4, <2>1
<1>6. g \in Fractions /\ Neg(g) \in Fractions /\ Neg(g) # Zero
  <2>1. g \in Fractions
    BY EntryIn
  <2>2. Neg(Neg(g)) = g /\ Neg(g) \in Fractions
    BY <2>1, FieldClosed, Ring
  <2>3. QED
    BY <2>1, <2>2, NegZero
<1>7. ASSUME NEW i \in Channels, NEW j \in Channels
      PROVE  /\ Over(m[i][k], Neg(g)) \in Fractions /\ Over(One, g) \in Fractions
             /\ Over(m[k][j], g) = Times(Over(One, g), m[k][j])
             /\ Plus(Times(Over(m[i][k], Neg(g)), m[k][j]), m[i][j]) \in Fractions
             /\ Times(Over(One, g), m[k][j]) \in Fractions
  <2>1. PICK a \in Fractions, b \in Fractions, d \in Fractions :
            a = m[i][k] /\ b = m[k][j] /\ d = m[i][j]
    BY EntryIn
  <2>2. PICK q \in Fractions : q = Over(a, Neg(g))
    BY <1>6, OverIs
  <2>3. PICK h \in Fractions : h = Over(One, g) /\ Over(b, g) = Times(b, h)
    BY <1>6, OverIs
  <2>4. Times(b, h) = Times(h, b) /\ Times(h, b) \in Fractions
        /\ Times(q, b) \in Fractions
    BY FieldClosed, Ring
  <2>5. Plus(Times(q, b), d) \in Fractions
    BY <2>4, FieldClosed
  <2>6. QED
    BY <2>1, <2>2, <2>3, <2>4, <2>5
<1>8. ASSUME NEW i \in Channels, NEW j \in Channels
      PROVE  /\ s[i][j] \in Fractions
             /\ i = k /\ j = k => s[i][j] = Over(One, g)
             /\ i = k /\ j # k => s[i][j] = Times(Over(One, g), m[k][j])
             /\ i # k /\ j = k => s[i][j] = Over(m[i][k], Neg(g))
             /\ i # k /\ j # k => s[i][j] = Plus(Times(Over(m[i][k], Neg(g)), m[k][j]), m[i][j])
  <2>1. s[i][j] = e(i, j) /\ c[i] = Over(m[i][k], Neg(g))
    OBVIOUS
  <2>2. CASE i = k /\ j = k
    BY <1>7, <2>1, <2>2
  <2>3. CASE i = k /\ j # k
    BY <1>7, <2>1, <2>3
  <2>4. CASE i # k /\ j = k
    BY <1>7, <2>1, <2>4
  <2>5. CASE i # k /\ j # k
    BY <1>7, <2>1, <2>5
  <2>6. QED
    BY <2>2, <2>3, <2>4, <2>5
<1>9. s = [i \in Channels |-> s[i]] /\ \A i \in Channels : s[i] = [j \in Channels |-> s[i][j]]
  OBVIOUS
<1> HIDE DEF s
<1>10. s \in Matrices
  BY <1>8, <1>9 DEF Matrices, Vectors
<1>11. QED
  BY <1>5, <1>7, <1>8, <1>10

\* Eliminating lets channel k change sides and says the same otherwise.
LEMMA EliminateSolves ==
    ASSUME NEW m \in Matrices, NEW p \in Vectors, NEW y \in Vectors,
           NEW k \in Channels, m[k][k] # Zero
    PROVE  Solves(m, k - 1, p, y) <=> Solves(Eliminate(m, k), k, p, y)
<1> DEFINE g == m[k][k]
           s == Eliminate(m, k)
           z == Mix(y, p, k - 1)
           o == Mix(p, y, k - 1)
           zz == Mix(y, p, k)
           oo == Mix(p, y, k)
<1>1. k \in Nat /\ k - 1 \in Nat /\ \A j \in Channels : j \in Int
  BY ChannelSet
<1>2. z \in Vectors /\ o \in Vectors /\ zz \in Vectors /\ oo \in Vectors
  BY <1>1, MixIn
<1>3. /\ z[k] = p[k] /\ o[k] = y[k] /\ zz[k] = y[k] /\ oo[k] = p[k]
      /\ \A j \in Channels \ {k} : zz[j] = z[j] /\ oo[j] = o[j]
  <2>1. /\ k <= k /\ ~(k <= k - 1)
        /\ \A j \in Channels \ {k} : j <= k <=> j <= k - 1
    BY <1>1
  <2>2. \A v, w : \A l : \A j \in Channels : Mix(v, w, l)[j] = IF j <= l THEN v[j] ELSE w[j]
    BY DEF Mix
  <2>3. \A v, w : /\ Mix(v, w, k - 1)[k] = w[k] /\ Mix(v, w, k)[k] = v[k]
                  /\ \A j \in Channels \ {k} : Mix(v, w, k)[j] = Mix(v, w, k - 1)[j]
    BY <2>1, <2>2
  <2>4. QED
    BY <2>3
<1>4. /\ s \in Matrices /\ s[k][k] = Over(One, g)
      /\ \A j \in Channels \ {k} : s[k][j] = Times(Over(One, g), m[k][j])
      /\ \A i \in Channels \ {k} :
           /\ Over(m[i][k], Neg(g)) \in Fractions /\ s[i][k] = Over(m[i][k], Neg(g))
           /\ \A j \in Channels \ {k} :
                s[i][j] = Plus(Times(Over(m[i][k], Neg(g)), m[k][j]), m[i][j])
  BY EliminateIs
<1>5. Solves(m, k - 1, p, y) <=> \A i \in Channels : Plus(Dot(m[i], z), o[i]) = Zero
  BY DEF Solves
<1>6. Solves(s, k, p, y) <=> \A i \in Channels : Plus(Dot(s[i], zz), oo[i]) = Zero
  BY DEF Solves
<1>7. g \in Fractions /\ g # Zero
  BY EntryIn
<1> HIDE DEF g, s, z, o, zz, oo
<1>8. PICK x \in Fractions, u \in Fractions, h \in Fractions, r \in Fractions :
          x = p[k] /\ u = y[k] /\ h = Over(One, g) /\ r = Rest(m[k], z, k)
  <2>1. Over(One, g) \in Fractions
    BY <1>7, OverIs
  <2>2. Rest(m[k], z, k) \in Fractions
    BY <1>2, DotIs, EntryIn
  <2>3. QED
    BY <2>1, <2>2 DEF Vectors
<1>9. Dot(m[k], z) = Plus(Times(g, x), r)
  BY <1>2, <1>3, <1>8, DotIs, EntryIn DEF g
<1>10. Dot(s[k], zz) = Plus(Times(h, u), Times(h, r))
  <2>1. Dot(s[k], zz) = Plus(Times(s[k][k], zz[k]), Rest(s[k], zz, k))
    BY <1>2, <1>4, DotIs, EntryIn
  <2>2. Rest(s[k], zz, k) = Times(h, Rest(m[k], zz, k))
    <3> DEFINE v == m[k]
               w == s[k]
    <3>1. v \in Vectors /\ \A j \in Channels \ {k} : w[j] = Times(h, v[j])
      BY <1>4, <1>8, EntryIn
    <3> HIDE DEF v, w
    <3>2. Rest(w, zz, k) = Times(h, Rest(v, zz, k))
      BY <1>2, <3>1, RestScaled
    <3>3. QED
      BY <3>2 DEF v, w
  <2>3. Rest(m[k], zz, k) = r
    BY <1>2, <1>3, <1>8, EntryIn, RestSame
  <2>4. QED
    BY <1>3, <1>4, <1>8, <2>1, <2>2, <2>3
<1>11. Plus(Dot(m[k], z), o[k]) = Zero <=> Plus(Dot(s[k], zz), oo[k]) = Zero
  BY <1>3, <1>7, <1>8, <1>9, <1>10, PivotRow
<1>12. ASSUME NEW i \in Channels \ {k}, Plus(Dot(m[k], z), o[k]) = Zero
       PROVE  Dot(m[i], z) = Dot(s[i], zz) /\ o[i] = oo[i]
  <2>1. PICK b \in Fractions, t \in Fractions, c \in Fractions :
            b = m[i][k] /\ t = Rest(m[i], z, k) /\ c = Over(b, Neg(g))
    BY <1>2, <1>4, DotIs, EntryIn
  <2>2. Dot(m[i], z) = Plus(Times(b, x), t)
    BY <1>2, <1>3, <1>8, <2>1, DotIs, EntryIn
  <2>3. Dot(s[i], zz) = Plus(Times(c, u), Rest(s[i], zz, k))
    BY <1>2, <1>3, <1>4, <1>8, <2>1, DotIs, EntryIn
  <2>4. Rest(s[i], zz, k) = Plus(Times(c, Rest(m[k], zz, k)), Rest(m[i], zz, k))
    <3> DEFINE v == m[k]
               a == m[i]
               w == s[i]
    <3>1. \A j \in Channels \ {k} : w[j] = Plus(Times(c, v[j]), a[j])
      BY <1>4, <2>1
    <3>2. v \in Vectors /\ a \in Vectors
      BY EntryIn
    <3> HIDE DEF v, a, w
    <3>3. Rest(w, zz, k) = Plus(Times(c, Rest(v, zz, k)), Rest(a, zz, k))
      BY <1>2, <3>1, <3>2, RestAdded
    <3>4. QED
      BY <3>3 DEF v, a, w
  <2>5. Rest(m[k], zz, k) = r /\ Rest(m[i], zz, k) = t
    BY <1>2, <1>3, <1>8, <2>1, EntryIn, RestSame
  <2>6. Plus(Plus(Times(g, x), r), u) = Zero
    BY <1>3, <1>8, <1>9, <1>12
  <2>7. Plus(Times(b, x), t) = Plus(Times(c, u), Plus(Times(c, r), t))
    BY <1>7, <2>1, <2>6, OtherRow
  <2>8. QED
    BY <1>3, <2>2, <2>3, <2>4, <2>5, <2>7
<1>13. QED
  BY <1>5, <1>6, <1>11, <1>12 DEF s

-----------------------------------------------------------------------------
(* invert(): a step, and its pivot                                         *)

\* Matrices stay matrices.
LEMMA SwapsIn ==
    ASSUME NEW m \in Matrices, NEW k \in Channels, NEW r \in Channels
    PROVE  /\ SwapRows(m, k, r) \in Matrices /\ SwapColumns(m, k, r) \in Matrices
           /\ UnswapRows(m, k, r) \in Matrices /\ UnswapColumns(m, k, r) \in Matrices
<1>1. CASE r = k
  BY <1>1 DEF SwapRows, SwapColumns, UnswapRows, UnswapColumns
<1>2. CASE r # k
  BY <1>2, SwapRowsIs, SwapColumnsIs, UnswapRowsIs, UnswapColumnsIs
<1>3. QED
  BY <1>1, <1>2

\* A step gives a matrix and says where its pivot was.
LEMMA StepIn ==
    ASSUME NEW m \in Matrices, NEW k \in Channels
    PROVE  /\ PivotStep(m, k).m \in Matrices
           /\ PivotStep(m, k) = [m |-> PivotStep(m, k).m, pivot |-> Pivot(m, k)]
           /\ Pivot(m, k) \in Int \X Int
<1> DEFINE p == Pivot(m, k)
           s == SwapColumns(SwapRows(m, k, p[1]), k, p[2])
<1>1. p \in Block(k) /\ p[1] \in Channels /\ p[2] \in Channels
  BY BlockIn, PivotIs
<1>2. s \in Matrices
  BY <1>1, SwapsIn
<1>3. Eliminate(s, k) \in Matrices
  <2>1. CASE s[k][k] = Zero
    BY <1>2, <2>1 DEF Eliminate
  <2>2. CASE s[k][k] # Zero
    BY <1>2, <2>2, EliminateIs
  <2>3. QED
    BY <2>1, <2>2
<1>4. PivotStep(m, k) = [m |-> Eliminate(s, k), pivot |-> p]
  BY DEF PivotStep
<1>5. p \in Int \X Int
  <2>1. k .. NumChannels \subseteq Int
    BY ChannelSet
  <2>2. QED
    BY <1>1, <2>1 DEF Block
<1>6. QED
  BY <1>3, <1>4, <1>5

\* What a step of Gauss and Jordan does to the solutions.
LEMMA StepSolves ==
    ASSUME NEW m \in Matrices, NEW k \in Channels, NEW p \in Vectors, NEW y \in Vectors,
           NEW r, NEW c, Pivot(m, k) = <<r, c>>, m[r][c] # Zero
    PROVE  Solves(m, k - 1, p, y)
             <=> Solves(PivotStep(m, k).m, k, Turned(p, k, c), Turned(y, k, r))
<1> DEFINE a == SwapRows(m, k, r)
           s == SwapColumns(a, k, c)
<1>0. /\ r \in Channels /\ c \in Channels /\ k \in Nat /\ k - 1 \in Nat
      /\ k > k - 1 /\ r > k - 1 /\ c > k - 1
  <2>1. <<r, c>> \in Block(k)
    BY PivotIs
  <2>2. /\ <<r, c>>[1] \in Channels /\ <<r, c>>[2] \in Channels
        /\ <<r, c>>[1] >= k /\ <<r, c>>[2] >= k
    BY <2>1, BlockIn
  <2>3. QED
    BY <2>2, ChannelSet
<1>1. a \in Matrices /\ s \in Matrices
  BY <1>0, SwapsIn
<1>2. Turned(p, k, c) \in Vectors /\ Turned(y, k, r) \in Vectors
  BY <1>0, TurnIs
<1>3. s[k][k] = m[r][c]
  <2>1. a[k] = m[r]
    <3>1. CASE r = k
      BY <3>1 DEF SwapRows
    <3>2. CASE r # k
      BY <1>0, <3>2, SwapRowsIs
    <3>3. QED
      BY <3>1, <3>2
  <2>2. s[k][k] = a[k][c]
    <3>1. CASE c = k
      BY <3>1 DEF SwapColumns
    <3>2. CASE c # k
      BY <1>0, <1>1, <3>2, SwapColumnsIs
    <3>3. QED
      BY <3>1, <3>2
  <2>3. QED
    BY <2>1, <2>2
<1>4. PivotStep(m, k).m = Eliminate(s, k)
  BY DEF PivotStep
<1> HIDE DEF a, s
<1>5. Solves(m, k - 1, p, y) <=> Solves(a, k - 1, p, Turned(y, k, r))
  BY <1>0, SwapRowsSolves DEF a
<1>6. Solves(a, k - 1, p, Turned(y, k, r)) <=> Solves(s, k - 1, Turned(p, k, c), Turned(y, k, r))
  BY <1>0, <1>1, <1>2, SwapColumnsSolves DEF s
<1>7. Solves(s, k - 1, Turned(p, k, c), Turned(y, k, r))
        <=> Solves(Eliminate(s, k), k, Turned(p, k, c), Turned(y, k, r))
  BY <1>1, <1>2, <1>3, EliminateSolves
<1>8. QED
  BY <1>4, <1>5, <1>6, <1>7

\* The two swaps of a step undone.
LEMMA UnswapSolves ==
    ASSUME NEW m \in Matrices, NEW k \in Channels, NEW p \in Vectors, NEW y \in Vectors,
           NEW r \in Channels, NEW c \in Channels
    PROVE  /\ Unswap(m, k, <<r, c>>) \in Matrices
           /\ Solved(m, Turned(p, k, c), Turned(y, k, r)) <=> Solved(Unswap(m, k, <<r, c>>), p, y)
<1> DEFINE a == UnswapColumns(m, k, r)
           s == UnswapRows(a, k, c)
<1>1. a \in Matrices /\ s \in Matrices /\ Turned(p, k, c) \in Vectors /\ Turned(y, k, r) \in Vectors
  BY SwapsIn, TurnIs
<1>2. Unswap(m, k, <<r, c>>) = s
  BY DEF Unswap
<1>3. Solved(m, Turned(p, k, c), Turned(y, k, r)) <=> Solved(a, Turned(p, k, c), y)
  BY <1>1, UnswapColumnsSolves
<1>4. Solved(a, Turned(p, k, c), y) <=> Solved(s, p, y)
  BY <1>1, UnswapRowsSolves
<1>5. QED
  BY <1>1, <1>2, <1>3, <1>4

\* Every y has a p.
Onto(m, l) == \A y \in Vectors : \E p \in Vectors : Solves(m, l, p, y)

\* As long as that is so, the search finds a pivot that is not zero.
LEMMA OntoPivot ==
    ASSUME NEW m \in Matrices, NEW k \in Channels, Onto(m, k - 1)
    PROVE  m[Pivot(m, k)[1]][Pivot(m, k)[2]] # Zero
<1> SUFFICES ASSUME m[Pivot(m, k)[1]][Pivot(m, k)[2]] = Zero PROVE FALSE
  OBVIOUS
<1> DEFINE y == [j \in Channels |-> IF j = k THEN One ELSE Zero]
<1>1. y \in Vectors
  BY FieldClosed DEF Vectors
<1>2. PICK p \in Vectors : Solves(m, k - 1, p, y)
  BY <1>1 DEF Onto
<1> DEFINE z == Mix(y, p, k - 1)
<1>3. k \in Nat /\ k - 1 \in Nat /\ \A j \in Channels : j \in Int
  BY ChannelSet
<1>4. z \in Vectors
  BY <1>1, <1>3, MixIn
<1>5. Mix(p, y, k - 1)[k] = One
  BY <1>3 DEF Mix
<1>6. Plus(Dot(m[k], z), One) = Zero
  BY <1>2, <1>5 DEF Solves
<1>7. ASSUME NEW j \in Channels PROVE Times(m[k][j], z[j]) = Zero
  <2>1. m[k][j] \in Fractions /\ z[j] \in Fractions
    BY <1>4, EntryIn DEF Vectors
  <2>2. CASE j <= k - 1
    <3>1. z[j] = Zero
      BY <1>3, <2>2 DEF Mix
    <3>2. QED
      BY <2>1, <3>1, Ring
  <2>3. CASE ~(j <= k - 1)
    <3>1. j \in k .. NumChannels /\ k \in k .. NumChannels
      BY <2>3, ChannelSet
    <3>2. m[k][j] = Zero
      BY <3>1, PivotZero
    <3>3. Times(Zero, z[j]) = Zero
      <4>1. \A t \in Fractions : Times(Zero, t) = Zero
        BY FieldClosed, Ring
      <4>2. QED
        BY <2>1, <4>1
    <3>4. QED
      BY <3>2, <3>3
  <2>4. QED
    BY <2>2, <2>3
<1> HIDE DEF z
<1>8. Dot(m[k], z) = Zero
  <2>1. \A j \in Channels : [i \in Channels |-> Times(m[k][i], z[i])][j] = Zero
    BY <1>7
  <2>2. QED
    BY <2>1, ChannelSet, SumZero DEF Dot
<1>9. Plus(Zero, One) = One
  BY FieldClosed, Ring
<1>10. QED
  BY <1>6, <1>8, <1>9, ZeroOne

\* And it stays so.
LEMMA OntoStep ==
    ASSUME NEW m \in Matrices, NEW k \in Channels, Onto(m, k - 1)
    PROVE  Onto(PivotStep(m, k).m, k)
<1>1. PICK r \in Channels, c \in Channels : Pivot(m, k) = <<r, c>>
  <2>1. Pivot(m, k) \in Block(k) /\ Pivot(m, k)[1] \in Channels /\ Pivot(m, k)[2] \in Channels
    BY BlockIn, PivotIs
  <2>2. Pivot(m, k) = <<Pivot(m, k)[1], Pivot(m, k)[2]>>
    BY <2>1 DEF Block
  <2>3. QED
    BY <2>1, <2>2
<1>2. m[r][c] # Zero
  BY <1>1, OntoPivot
<1>3. ASSUME NEW w \in Vectors PROVE \E q \in Vectors : Solves(PivotStep(m, k).m, k, q, w)
  <2>1. PICK y \in Vectors : Turned(y, k, r) = w
    BY TurnOnto
  <2>2. PICK p \in Vectors : Solves(m, k - 1, p, y)
    BY DEF Onto
  <2>3. Turned(p, k, c) \in Vectors
    BY TurnIs
  <2>4. QED
    BY <1>1, <1>2, <2>1, <2>2, <2>3, StepSolves
<1>4. QED
  BY <1>3 DEF Onto

\* A sequence of values of which each gives the next one.
Iterates(N, S, a, G, f) ==
    f \in [0 .. N -> S] /\ f[0] = a /\ \A k \in 1 .. N : f[k] = G[k][f[k - 1]]

\* There is such a sequence.
LEMMA Iterated ==
    ASSUME NEW N \in Nat, NEW S, NEW a \in S, NEW G \in [1 .. N -> [S -> S]]
    PROVE  \E f : Iterates(N, S, a, G, f)
<1> DEFINE M == {n \in Nat : n <= N =>
                   \E f \in [0 .. n -> S] : f[0] = a /\ \A k \in 1 .. n : f[k] = G[k][f[k - 1]]}
<1>1. 0 \in M
  <2>1. [k \in 0 .. 0 |-> a] \in [0 .. 0 -> S] /\ [k \in 0 .. 0 |-> a][0] = a
    OBVIOUS
  <2>2. 1 .. 0 = {}
    OBVIOUS
  <2>3. QED
    BY <2>1, <2>2
<1>2. ASSUME NEW n \in M PROVE n + 1 \in M
  <2>1. SUFFICES ASSUME n + 1 <= N
                 PROVE  \E f \in [0 .. n + 1 -> S] :
                          f[0] = a /\ \A k \in 1 .. n + 1 : f[k] = G[k][f[k - 1]]
    OBVIOUS
  <2>2. PICK f \in [0 .. n -> S] : f[0] = a /\ \A k \in 1 .. n : f[k] = G[k][f[k - 1]]
    BY <2>1
  <2> DEFINE b == G[n + 1][f[n]]
             g == [k \in 0 .. n + 1 |-> IF k = n + 1 THEN b ELSE f[k]]
  <2>3. b \in S
    <3>1. f[n] \in S /\ n + 1 \in 1 .. N
      BY <2>1, <2>2
    <3>2. QED
      BY <3>1
  <2>4. g \in [0 .. n + 1 -> S] /\ g[0] = a
    BY <2>2, <2>3
  <2>5. ASSUME NEW k \in 1 .. n + 1 PROVE g[k] = G[k][g[k - 1]]
    <3>1. CASE k = n + 1
      <4>1. n \in 0 .. n + 1 /\ n + 1 \in 0 .. n + 1 /\ n # n + 1 /\ k - 1 = n
        BY <3>1
      <4>2. g[k] = b /\ g[k - 1] = f[n]
        BY <3>1, <4>1
      <4>3. QED
        BY <3>1, <4>2
    <3>2. CASE k # n + 1
      <4>1. k \in 1 .. n /\ k - 1 \in 0 .. n
        BY <3>2
      <4>2. g[k] = f[k] /\ g[k - 1] = f[k - 1]
        BY <4>1
      <4>3. QED
        BY <2>2, <4>1, <4>2
    <3>3. QED
      BY <3>1, <3>2
  <2> HIDE DEF g, b
  <2>6. QED
    BY <2>4, <2>5
<1> HIDE DEF M
<1>3. M = Nat
  <2>1. M \subseteq Nat
    BY DEF M
  <2>2. QED
    BY <1>1, <1>2, <2>1, Induction
<1>4. QED
  BY <1>3 DEF M, Iterates

-----------------------------------------------------------------------------
(* invert(): forth and back                                                *)

\* The way forth of invert(): the matrix after each step.
Steps(a, f) ==
    f = [k \in 0 .. NumChannels |->
           IF k = 0 THEN [m |-> a, pivot |-> <<1, 1>>] ELSE PivotStep(f[k - 1].m, k)]

\* The way back: the matrix after the swaps of each step are undone.
Backs(f, b) ==
    b = [k \in 0 .. NumChannels |->
           IF k = NumChannels THEN f[k].m ELSE Unswap(b[k + 1], k + 1, f[k + 1].pivot)]

\* What a step leaves.
StepRecords == [m : Matrices, pivot : Int \X Int]

\* Channels are numbered from 1, and steps from 0.
LEMMA ChannelNumbers ==
    /\ NumChannels \in Nat \ {0} /\ NumChannels \in 0 .. NumChannels /\ 0 \in 0 .. NumChannels
    /\ \A k \in Channels : k \in 1 .. NumChannels /\ k \in 0 .. NumChannels
                           /\ k - 1 \in 0 .. NumChannels /\ k \in Nat /\ k - 1 # NumChannels
                           /\ (k - 1) + 1 = k /\ k # 0
    /\ \A k \in 0 .. NumChannels :
         k \in Nat /\ (k = 0 \/ (k \in Channels /\ k - 1 \in 0 .. NumChannels))
BY ChannelSet

\* What holds at 0 and from one to the next holds for all channels.
LEMMA Upward ==
    ASSUME NEW M \in SUBSET (0 .. NumChannels), 0 \in M,
           \A k \in Channels : k - 1 \in M => k \in M
    PROVE  M = 0 .. NumChannels
<1> DEFINE L == {n \in Nat : n <= NumChannels => n \in M}
<1>1. 0 \in L
  OBVIOUS
<1>2. ASSUME NEW n \in L PROVE n + 1 \in L
  <2>1. ASSUME n + 1 <= NumChannels PROVE n + 1 \in M
    <3>1. n \in M /\ n + 1 \in Channels /\ (n + 1) - 1 = n
      BY <2>1, ChannelSet
    <3>2. QED
      BY <3>1
  <2>2. QED
    BY <2>1
<1> HIDE DEF L
<1>3. L = Nat
  <2>1. L \subseteq Nat
    BY DEF L
  <2>2. QED
    BY <1>1, <1>2, <2>1, Induction
<1>4. ASSUME NEW n \in 0 .. NumChannels PROVE n \in M
  <2>1. n \in L /\ n <= NumChannels
    BY <1>3, ChannelSet
  <2>2. QED
    BY <2>1 DEF L
<1>5. QED
  BY <1>4

\* What holds at the end and from one to the one before holds for all.
LEMMA Downward ==
    ASSUME NEW M \in SUBSET (0 .. NumChannels), NumChannels \in M,
           \A k \in Channels : k \in M => k - 1 \in M
    PROVE  M = 0 .. NumChannels
<1> DEFINE L == {n \in 0 .. NumChannels : NumChannels - n \in M}
<1>1. NumChannels \in Nat
  BY ChannelSet
<1>2. 0 \in L
  BY <1>1
<1>3. ASSUME NEW k \in Channels, k - 1 \in L PROVE k \in L
  <2>1. k \in Nat /\ k <= NumChannels /\ k >= 1
    BY ChannelSet
  <2>2. NumChannels - (k - 1) \in M /\ NumChannels - (k - 1) \in Channels
    BY <1>1, <1>3, <2>1, ChannelSet
  <2>3. (NumChannels - (k - 1)) - 1 = NumChannels - k
    BY <1>1, <2>1
  <2>4. NumChannels - k \in M
    BY <2>2, <2>3
  <2>5. QED
    BY <1>1, <2>1, <2>4
<1> HIDE DEF L
<1>4. L = 0 .. NumChannels
  <2>1. L \in SUBSET (0 .. NumChannels)
    BY DEF L
  <2>2. QED
    BY <1>2, <1>3, <2>1, Upward
<1>5. ASSUME NEW n \in 0 .. NumChannels PROVE n \in M
  <2>1. NumChannels - n \in L
    BY <1>1, <1>4
  <2>2. NumChannels - (NumChannels - n) = n
    BY <1>1
  <2>3. QED
    BY <2>1, <2>2 DEF L
<1>6. QED
  BY <1>5

\* The steps can be taken.
LEMMA StepsExist ==
    ASSUME NEW a \in Matrices
    PROVE  \E f : Steps(a, f)
<1> DEFINE R == [m |-> a, pivot |-> <<1, 1>>]
           G == [k \in 1 .. NumChannels |-> [x \in StepRecords |-> PivotStep(x.m, k)]]
<1>1. NumChannels \in Nat /\ R \in StepRecords
  BY ChannelSet DEF StepRecords
<1>2. G \in [1 .. NumChannels -> [StepRecords -> StepRecords]]
  <2>1. ASSUME NEW x \in StepRecords, NEW k \in 1 .. NumChannels
        PROVE  PivotStep(x.m, k) \in StepRecords
    <3>1. x.m \in Matrices /\ k \in Channels
      BY ChannelSet DEF StepRecords
    <3>2. QED
      BY <3>1, StepIn DEF StepRecords
  <2>2. QED
    BY <2>1
<1> HIDE DEF R, G
<1>3. PICK f : Iterates(NumChannels, StepRecords, R, G, f)
  BY <1>1, <1>2, Iterated
<1>4. ASSUME NEW k \in 0 .. NumChannels
      PROVE  f[k] = IF k = 0 THEN R ELSE PivotStep(f[k - 1].m, k)
  <2>1. CASE k = 0
    BY <1>3, <2>1 DEF Iterates
  <2>2. CASE k # 0
    <3>1. k \in 1 .. NumChannels /\ k - 1 \in 0 .. NumChannels
      BY <1>1, <2>2
    <3>2. f[k - 1] \in StepRecords /\ f[k] = G[k][f[k - 1]]
      BY <1>3, <3>1 DEF Iterates
    <3>3. G[k][f[k - 1]] = PivotStep(f[k - 1].m, k)
      BY <3>1, <3>2 DEF G
    <3>4. QED
      BY <2>2, <3>2, <3>3
  <2>3. QED
    BY <2>1, <2>2
<1>5. f = [k \in 0 .. NumChannels |-> IF k = 0 THEN R ELSE PivotStep(f[k - 1].m, k)]
  BY <1>3, <1>4 DEF Iterates
<1>6. QED
  BY <1>5 DEF Steps, R

\* What the steps are.
LEMMA StepsAre ==
    ASSUME NEW a \in Matrices, NEW f, Steps(a, f)
    PROVE  /\ f[0].m = a
           /\ \A k \in 0 .. NumChannels : f[k].m \in Matrices
           /\ \A k \in Channels :
                f[k] = PivotStep(f[k - 1].m, k) /\ f[k].pivot = Pivot(f[k - 1].m, k)
<1> DEFINE M == {k \in 0 .. NumChannels : f[k].m \in Matrices}
<1>1. f[0] = [m |-> a, pivot |-> <<1, 1>>]
  BY ChannelNumbers, Zenon DEF Steps
<1>2. ASSUME NEW k \in Channels PROVE f[k] = PivotStep(f[k - 1].m, k)
  BY ChannelNumbers, Zenon DEF Steps
<1>3. 0 \in M
  <2>1. f[0].m = a
    BY <1>1
  <2>2. QED
    BY <2>1, ChannelNumbers
<1>4. ASSUME NEW k \in Channels, k - 1 \in M PROVE k \in M
  <2>1. PivotStep(f[k - 1].m, k).m \in Matrices
    BY <1>4, StepIn
  <2>2. QED
    BY <1>2, <2>1, ChannelNumbers
<1> HIDE DEF M
<1>5. M = 0 .. NumChannels
  <2>1. M \in SUBSET (0 .. NumChannels)
    BY DEF M
  <2>2. QED
    BY <1>3, <1>4, <2>1, Upward
<1>6. \A k \in 0 .. NumChannels : f[k].m \in Matrices
  BY <1>5 DEF M
<1>7. ASSUME NEW k \in Channels PROVE f[k].pivot = Pivot(f[k - 1].m, k)
  <2>1. PivotStep(f[k - 1].m, k).pivot = Pivot(f[k - 1].m, k)
    BY DEF PivotStep
  <2>2. QED
    BY <1>2, <2>1
<1>8. QED
  BY <1>1, <1>2, <1>6, <1>7

\* The pivot is in a row and a column of the matrix.
LEMMA PivotChannels ==
    ASSUME NEW m \in Matrices, NEW k \in Channels
    PROVE  \E r \in Channels, c \in Channels : Pivot(m, k) = <<r, c>>
<1>1. Pivot(m, k) \in Block(k) /\ Pivot(m, k)[1] \in Channels /\ Pivot(m, k)[2] \in Channels
  BY BlockIn, PivotIs
<1>2. Pivot(m, k) = <<Pivot(m, k)[1], Pivot(m, k)[2]>>
  BY <1>1 DEF Block
<1>3. QED
  BY <1>1, <1>2

\* Undoing swaps leaves a matrix.
LEMMA UnswapIn ==
    ASSUME NEW m \in Matrices, NEW n \in Matrices, NEW k \in Channels
    PROVE  Unswap(m, k, Pivot(n, k)) \in Matrices
<1>1. PICK r \in Channels, c \in Channels : Pivot(n, k) = <<r, c>>
  BY PivotChannels
<1>2. UnswapColumns(m, k, r) \in Matrices
  BY SwapsIn
<1>3. UnswapRows(UnswapColumns(m, k, r), k, c) \in Matrices
  BY <1>2, SwapsIn
<1>4. Unswap(m, k, <<r, c>>) = UnswapRows(UnswapColumns(m, k, r), k, c)
  BY DEF Unswap
<1>5. QED
  BY <1>1, <1>3, <1>4

\* The swaps can be undone.
LEMMA BacksExist ==
    ASSUME NEW a \in Matrices, NEW f, Steps(a, f)
    PROVE  \E b : Backs(f, b)
<1> DEFINE N == NumChannels
           G == [k \in 1 .. N |-> [x \in Matrices |->
                   Unswap(x, (N - k) + 1, f[(N - k) + 1].pivot)]]
<1>1. N \in Nat /\ f[N].m \in Matrices
  BY ChannelNumbers, StepsAre
<1>2. G \in [1 .. N -> [Matrices -> Matrices]]
  <2>1. ASSUME NEW m \in Matrices, NEW k \in 1 .. N
        PROVE  Unswap(m, (N - k) + 1, f[(N - k) + 1].pivot) \in Matrices
    <3>1. PICK i \in Channels : i = (N - k) + 1
      BY ChannelSet
    <3>2. f[i].pivot = Pivot(f[i - 1].m, i) /\ f[i - 1].m \in Matrices
      BY ChannelNumbers, StepsAre
    <3>3. QED
      BY <3>1, <3>2, UnswapIn
  <2>2. QED
    BY <2>1
<1> HIDE DEF G
<1>3. PICK g : Iterates(N, Matrices, f[N].m, G, g)
  BY <1>1, <1>2, Iterated
<1> DEFINE b == [k \in 0 .. N |-> g[N - k]]
<1>4. ASSUME NEW k \in 0 .. N
      PROVE  b[k] = IF k = N THEN f[k].m ELSE Unswap(b[k + 1], k + 1, f[k + 1].pivot)
  <2>1. CASE k = N
    <3>1. N - k = 0
      BY <1>1, <2>1
    <3>2. QED
      BY <1>3, <2>1, <3>1 DEF Iterates
  <2>2. CASE k # N
    <3>1. /\ N - k \in 1 .. N /\ (N - k) - 1 \in 0 .. N /\ k + 1 \in 0 .. N
          /\ (N - k) - 1 = N - (k + 1) /\ (N - (N - k)) + 1 = k + 1
      BY <1>1, <2>2
    <3>2. PICK n \in 1 .. N : n = N - k
      BY <3>1
    <3>3. g[n] = G[n][g[n - 1]] /\ g[n - 1] \in Matrices
      BY <1>3, <3>1, <3>2 DEF Iterates
    <3>4. G[n][g[n - 1]] = Unswap(g[n - 1], (N - n) + 1, f[(N - n) + 1].pivot)
      BY <3>3 DEF G
    <3>5. b[k] = g[n] /\ b[k + 1] = g[n - 1] /\ (N - n) + 1 = k + 1
      BY <3>1, <3>2
    <3> HIDE DEF b
    <3>6. QED
      BY <2>2, <3>3, <3>4, <3>5
  <2>3. QED
    BY <2>1, <2>2
<1>5. b = [k \in 0 .. N |-> b[k]]
  OBVIOUS
<1> HIDE DEF b
<1>6. b = [k \in 0 .. N |-> IF k = N THEN f[k].m ELSE Unswap(b[k + 1], k + 1, f[k + 1].pivot)]
  BY <1>4, <1>5
<1>7. QED
  BY <1>6 DEF Backs

\* What the way back consists of.
LEMMA BacksAre ==
    ASSUME NEW a \in Matrices, NEW f, Steps(a, f), NEW b, Backs(f, b)
    PROVE  /\ b[NumChannels] = f[NumChannels].m
           /\ \A k \in 0 .. NumChannels : b[k] \in Matrices
           /\ \A k \in Channels : b[k - 1] = Unswap(b[k], k, Pivot(f[k - 1].m, k))
<1> DEFINE M == {k \in 0 .. NumChannels : b[k] \in Matrices}
<1>1. b[NumChannels] = f[NumChannels].m
  BY ChannelNumbers, Zenon DEF Backs
<1>2. ASSUME NEW k \in Channels PROVE b[k - 1] = Unswap(b[k], k, Pivot(f[k - 1].m, k))
  <2>1. k - 1 \in 0 .. NumChannels /\ k - 1 # NumChannels /\ (k - 1) + 1 = k
    BY ChannelNumbers
  <2>2. b[k - 1] = IF k - 1 = NumChannels THEN f[k - 1].m
                   ELSE Unswap(b[(k - 1) + 1], (k - 1) + 1, f[(k - 1) + 1].pivot)
    BY <2>1, Zenon DEF Backs
  <2>3. f[k].pivot = Pivot(f[k - 1].m, k)
    BY StepsAre
  <2>4. QED
    BY <2>1, <2>2, <2>3
<1>3. NumChannels \in M
  <2>1. NumChannels \in 0 .. NumChannels
    BY ChannelNumbers
  <2>2. f[NumChannels].m \in Matrices
    BY <2>1, StepsAre
  <2>3. QED
    BY <1>1, <2>1, <2>2
<1>4. ASSUME NEW k \in Channels, k \in M PROVE k - 1 \in M
  <2>1. f[k - 1].m \in Matrices
    BY ChannelNumbers, StepsAre
  <2>2. Unswap(b[k], k, Pivot(f[k - 1].m, k)) \in Matrices
    BY <1>4, <2>1, UnswapIn
  <2>3. QED
    BY <1>2, <2>2, ChannelNumbers
<1> HIDE DEF M
<1>5. M = 0 .. NumChannels
  <2>1. M \in SUBSET (0 .. NumChannels)
    BY DEF M
  <2>2. QED
    BY <1>3, <1>4, <2>1, Downward
<1>6. \A k \in 0 .. NumChannels : b[k] \in Matrices
  BY <1>5 DEF M
<1>7. QED
  BY <1>1, <1>2, <1>6

\* invert() goes forth and back.
LEMMA InvertRuns ==
    ASSUME NEW a \in Matrices
    PROVE  \E f, b : Steps(a, f) /\ Backs(f, b) /\ invert(a) = b[0]
<1> DEFINE f == CHOOSE f : Steps(a, f)
           b == CHOOSE b : Backs(f, b)
<1>1. Steps(a, f)
  BY StepsExist
<1>2. invert(a) = b[0]
  BY DEF invert, Steps, Backs
<1> HIDE DEF f
<1>3. Backs(f, b)
  BY <1>1, BacksExist
<1>4. QED
  BY <1>1, <1>2, <1>3

\* invert() says of p and y what the matrix does, with the sides changed.
LEMMA InvertIs ==
    ASSUME NEW a \in Matrices
    PROVE  /\ invert(a) \in Matrices
           /\ Onto(a, 0) => \A p \in Vectors : \A y \in Vectors :
                              Solves(a, 0, p, y) <=> Solved(invert(a), p, y)
<1>1. PICK f, b : Steps(a, f) /\ Backs(f, b) /\ invert(a) = b[0]
  BY InvertRuns
<1>2. /\ f[0].m = a
      /\ \A k \in 0 .. NumChannels : f[k].m \in Matrices
      /\ \A k \in Channels : f[k] = PivotStep(f[k - 1].m, k)
  BY <1>1, StepsAre
<1>3. /\ b[NumChannels] = f[NumChannels].m
      /\ \A k \in 0 .. NumChannels : b[k] \in Matrices
      /\ \A k \in Channels : b[k - 1] = Unswap(b[k], k, Pivot(f[k - 1].m, k))
  BY <1>1, BacksAre
<1>4. ASSUME Onto(a, 0)
      PROVE  \A p \in Vectors : \A y \in Vectors : Solves(a, 0, p, y) <=> Solved(invert(a), p, y)
  <2> DEFINE O == {k \in 0 .. NumChannels : Onto(f[k].m, k)}
             M == {k \in 0 .. NumChannels : \A p \in Vectors : \A y \in Vectors :
                     Solves(f[k].m, k, p, y) <=> Solved(b[k], p, y)}
  <2>1. O = 0 .. NumChannels
    <3>1. 0 \in O
      BY <1>2, <1>4, ChannelNumbers
    <3>2. ASSUME NEW k \in Channels, k - 1 \in O PROVE k \in O
      <4>1. f[k - 1].m \in Matrices /\ Onto(f[k - 1].m, k - 1) /\ f[k] = PivotStep(f[k - 1].m, k)
        BY <1>2, <3>2, ChannelNumbers
      <4>2. Onto(f[k].m, k)
        BY <4>1, OntoStep
      <4>3. QED
        BY <4>2, ChannelNumbers
    <3> HIDE DEF O
    <3>3. O \in SUBSET (0 .. NumChannels)
      BY DEF O
    <3>4. QED
      BY <3>1, <3>2, <3>3, Upward
  <2>2. NumChannels \in M
    BY <1>3, ChannelNumbers, SolvedIs
  <2>3. ASSUME NEW k \in Channels, k \in M PROVE k - 1 \in M
    <3>1. f[k - 1].m \in Matrices /\ Onto(f[k - 1].m, k - 1) /\ f[k] = PivotStep(f[k - 1].m, k)
          /\ b[k] \in Matrices
      BY <1>2, <1>3, <2>1, ChannelNumbers
    <3>2. PICK r \in Channels, c \in Channels : Pivot(f[k - 1].m, k) = <<r, c>>
      BY <3>1, PivotChannels
    <3>3. f[k - 1].m[r][c] # Zero
      BY <3>1, <3>2, OntoPivot
    <3>4. ASSUME NEW p \in Vectors, NEW y \in Vectors
          PROVE  Solves(f[k - 1].m, k - 1, p, y) <=> Solved(b[k - 1], p, y)
      <4>1. Turned(p, k, c) \in Vectors /\ Turned(y, k, r) \in Vectors
        BY TurnIs
      <4>2. Solves(f[k - 1].m, k - 1, p, y) <=> Solves(f[k].m, k, Turned(p, k, c), Turned(y, k, r))
        BY <3>1, <3>2, <3>3, StepSolves
      <4>3. Solves(f[k].m, k, Turned(p, k, c), Turned(y, k, r))
              <=> Solved(b[k], Turned(p, k, c), Turned(y, k, r))
        BY <2>3, <4>1
      <4>4. Solved(b[k], Turned(p, k, c), Turned(y, k, r))
              <=> Solved(Unswap(b[k], k, <<r, c>>), p, y)
        BY <3>1, UnswapSolves
      <4>5. QED
        BY <1>3, <3>2, <4>2, <4>3, <4>4
    <3>5. QED
      BY <3>4, ChannelNumbers
  <2>4. M \in SUBSET (0 .. NumChannels)
    OBVIOUS
  <2> HIDE DEF M
  <2>5. M = 0 .. NumChannels
    BY <2>2, <2>3, <2>4, Downward
  <2>6. 0 \in M
    BY <2>5, ChannelNumbers
  <2>7. QED
    BY <1>1, <1>2, <2>6 DEF M
<1>5. invert(a) \in Matrices
  BY <1>1, <1>3, ChannelNumbers
<1>6. QED
  BY <1>4, <1>5

-----------------------------------------------------------------------------
(* invert(): the inverse                                                   *)

\* A column as a vector.
Column(m, j) == [i \in Channels |-> m[i][j]]

\* The columns for rows.
Transposed(m) == [j \in Channels |-> Column(m, j)]

\* Columns are vectors, and the transposed matrix is a matrix.
LEMMA ColumnIn ==
    ASSUME NEW m \in Matrices
    PROVE  /\ \A j \in Channels : Column(m, j) \in Vectors
           /\ Transposed(m) \in Matrices
<1>1. \A i \in Channels : \A j \in Channels : m[i][j] \in Fractions
  BY EntryIn
<1>2. \A j \in Channels : Column(m, j) \in Vectors
  BY <1>1 DEF Column, Vectors
<1>3. QED
  BY <1>2 DEF Transposed, Matrices

\* A product consists of rows times columns.
LEMMA ProductIs ==
    ASSUME NEW a \in Matrices, NEW b \in Matrices
    PROVE  /\ Product(a, b) \in Matrices
           /\ \A i \in Channels : \A j \in Channels :
                Product(a, b)[i][j] = Dot(a[i], Column(b, j))
<1>1. ASSUME NEW i \in Channels, NEW j \in Channels
      PROVE  /\ Product(a, b)[i][j] = Dot(a[i], Column(b, j))
             /\ Product(a, b)[i][j] \in Fractions
  <2>1. Product(a, b)[i][j] = Sum([k \in Channels |-> Times(a[i][k], b[k][j])], Channels)
    BY DEF Product
  <2>2. [k \in Channels |-> Times(a[i][k], b[k][j])]
          = [k \in Channels |-> Times(a[i][k], Column(b, j)[k])]
    BY DEF Column
  <2>3. Dot(a[i], Column(b, j)) \in Fractions
    BY ColumnIn, DotIs, EntryIn
  <2>4. QED
    BY <2>1, <2>2, <2>3 DEF Dot
<1>2. /\ Product(a, b) = [i \in Channels |-> Product(a, b)[i]]
      /\ \A i \in Channels : Product(a, b)[i] = [j \in Channels |-> Product(a, b)[i][j]]
  BY DEF Product
<1>3. Product(a, b) \in Matrices
  BY <1>1, <1>2 DEF Matrices, Vectors
<1>4. QED
  BY <1>1, <1>3

\* A row times a vector is the vector times the row.
LEMMA DotSymmetric ==
    ASSUME NEW v \in Vectors, NEW x \in Vectors
    PROVE  Dot(v, x) = Dot(x, v)
<1>1. \A j \in Channels : Times(x[j], v[j]) = Times(v[j], x[j])
  BY Ring DEF Vectors
<1>2. QED
  BY <1>1, DotEqual

\* b first and then a are their product.
LEMMA DotDot ==
    ASSUME NEW a \in Matrices, NEW b \in Matrices, NEW y \in Vectors, NEW i \in Channels
    PROVE  Dot(a[i], [j \in Channels |-> Dot(b[j], y)]) = Dot(Product(a, b)[i], y)
<1> DEFINE t == [l \in Channels |-> [j \in Channels |-> Times(Times(a[i][j], b[j][l]), y[l])]]
           u == [j \in Channels |-> [l \in Channels |-> t[l][j]]]
<1>1. ASSUME NEW j \in Channels, NEW l \in Channels
      PROVE  /\ t[l][j] \in Fractions /\ u[j][l] = t[l][j]
             /\ t[l][j] = Times(a[i][j], Times(b[j][l], y[l]))
             /\ t[l][j] = Times(y[l], Times(a[i][j], b[j][l]))
             /\ Times(b[j][l], y[l]) \in Fractions /\ Times(a[i][j], b[j][l]) \in Fractions
  <2>1. PICK p \in Fractions, q \in Fractions, s \in Fractions :
            p = a[i][j] /\ q = b[j][l] /\ s = y[l]
    BY EntryIn DEF Vectors
  <2>2. Times(p, q) \in Fractions /\ Times(q, s) \in Fractions
    BY FieldClosed
  <2>3. Times(Times(p, q), s) = Times(p, Times(q, s)) /\ Times(Times(p, q), s) \in Fractions
        /\ Times(Times(p, q), s) = Times(s, Times(p, q))
    BY <2>2, FieldClosed, Ring, TimesAssociative
  <2>4. t[l][j] = Times(Times(p, q), s)
    BY <2>1
  <2>5. u[j][l] = t[l][j]
    OBVIOUS
  <2> HIDE DEF t, u
  <2>6. QED
    BY <2>1, <2>2, <2>3, <2>4, <2>5
<1> DEFINE x == [j \in Channels |-> Dot(b[j], y)]
<1>2. \A j \in Channels : a[i][j] \in Fractions /\ x[j] = Dot(b[j], y) /\ x[j] \in Fractions
  BY DotIs, EntryIn
<1>3. x \in Vectors /\ x = [j \in Channels |-> Dot(b[j], y)]
  BY <1>2 DEF Vectors
<1> HIDE DEF x, t, u
<1>4. ASSUME NEW j \in Channels
      PROVE  Times(a[i][j], x[j]) = Sum([l \in Channels |-> t[l][j]], Channels)
  <2> DEFINE f == [l \in Channels |-> Times(b[j][l], y[l])]
             g == [l \in Channels |-> t[l][j]]
  <2>1. \A l \in Channels : f[l] \in Fractions /\ g[l] = Times(a[i][j], f[l])
    BY <1>1
  <2>2. x[j] = Sum(f, Channels)
    BY <1>2 DEF Dot
  <2> HIDE DEF f, g
  <2>3. Sum(g, Channels) = Times(a[i][j], Sum(f, Channels))
    BY <1>2, <2>1, ChannelSet, SumTimes
  <2>4. QED
    BY <2>2, <2>3 DEF g
<1>5. ASSUME NEW l \in Channels
      PROVE  Times(Product(a, b)[i][l], y[l]) = Sum([j \in Channels |-> t[l][j]], Channels)
  <2> DEFINE f == [j \in Channels |-> Times(a[i][j], b[j][l])]
             g == [j \in Channels |-> t[l][j]]
  <2>1. \A j \in Channels : f[j] \in Fractions /\ g[j] = Times(y[l], f[j])
    BY <1>1
  <2>2. Product(a, b)[i][l] = Sum(f, Channels)
    BY DEF Product
  <2>3. y[l] \in Fractions /\ Product(a, b)[i][l] \in Fractions
    BY EntryIn, ProductIs DEF Vectors
  <2> HIDE DEF f, g
  <2>4. Sum(g, Channels) = Times(y[l], Sum(f, Channels))
    BY <2>1, <2>3, ChannelSet, SumTimes
  <2>5. Times(y[l], Product(a, b)[i][l]) = Times(Product(a, b)[i][l], y[l])
    BY <2>3, Ring
  <2>6. QED
    BY <2>2, <2>4, <2>5 DEF g
<1>6. Dot(a[i], x)
        = Sum([j \in Channels |-> Sum([l \in Channels |-> t[l][j]], Channels)], Channels)
  <2>1. [j \in Channels |-> Times(a[i][j], x[j])]
          = [j \in Channels |-> Sum([l \in Channels |-> t[l][j]], Channels)]
    BY <1>4
  <2>2. QED
    BY <2>1 DEF Dot
<1>7. Dot(Product(a, b)[i], y)
        = Sum([l \in Channels |-> Sum([j \in Channels |-> t[l][j]], Channels)], Channels)
  <2>1. [l \in Channels |-> Times(Product(a, b)[i][l], y[l])]
          = [l \in Channels |-> Sum([j \in Channels |-> t[l][j]], Channels)]
    BY <1>5
  <2>2. QED
    BY <2>1 DEF Dot
<1>8. Sum([l \in Channels |-> Sum([j \in Channels |-> t[l][j]], Channels)], Channels)
        = Sum([j \in Channels |-> Sum([l \in Channels |-> t[l][j]], Channels)], Channels)
  <2>1. \A l \in Channels : \A j \in Channels : t[l][j] \in Fractions
    BY <1>1
  <2>2. PICK S : S = Channels /\ IsFiniteSet(S)
    BY ChannelSet
  <2>3. Sum([l \in S |-> Sum([j \in S |-> t[l][j]], S)], S)
          = Sum([j \in S |-> Sum([l \in S |-> t[l][j]], S)], S)
    BY <2>1, <2>2, SumSwap
  <2>4. QED
    BY <2>2, <2>3
<1>9. QED
  BY <1>3, <1>6, <1>7, <1>8

\* The identity is symmetric and changes no vector.
LEMMA IdentityIs ==
    /\ Identity \in Matrices
    /\ \A i \in Channels : \A j \in Channels :
         Identity[i][j] = Identity[j][i] /\ Identity[i][j] = IF i = j THEN One ELSE Zero
    /\ \A y \in Vectors : \A i \in Channels : Dot(Identity[i], y) = y[i]
<1>1. /\ Identity \in Matrices
      /\ \A i \in Channels : \A j \in Channels :
           Identity[i][j] = Identity[j][i] /\ Identity[i][j] = IF i = j THEN One ELSE Zero
  BY FieldClosed DEF Identity, Matrices, Vectors
<1>2. ASSUME NEW y \in Vectors, NEW i \in Channels PROVE Dot(Identity[i], y) = y[i]
  <2>1. PICK v \in Vectors : v = Identity[i]
    BY <1>1, EntryIn
  <2>2. Dot(v, y) = Plus(Times(v[i], y[i]), Rest(v, y, i))
    BY DotIs
  <2>3. Rest(v, y, i) = Zero
    <3>1. ASSUME NEW j \in Channels \ {i}
          PROVE  [l \in Channels |-> Times(v[l], y[l])][j] = Zero
      <4>1. v[j] = Zero /\ y[j] \in Fractions
        BY <1>1, <2>1 DEF Vectors
      <4>2. \A x \in Fractions : Times(Zero, x) = Zero
        BY FieldClosed, Ring
      <4>3. QED
        BY <4>1, <4>2
    <3>2. QED
      BY <3>1, ChannelSet, SumZero DEF Rest
  <2>4. PICK x \in Fractions : x = y[i]
    BY DEF Vectors
  <2>5. Plus(Times(One, x), Zero) = x
    <3>1. Times(One, x) = x
      BY FieldClosed, Ring
    <3>2. QED
      BY <3>1, Ring
  <2>6. v[i] = One
    BY <1>1, <2>1
  <2>7. QED
    BY <2>1, <2>2, <2>3, <2>4, <2>5, <2>6
<1>3. QED
  BY <1>1, <1>2

\* The sign of a vector is that of what a row makes of it.
LEMMA NegatedVector ==
    ASSUME NEW v \in Vectors, NEW x \in Vectors, NEW p, p = [j \in Channels |-> Neg(x[j])]
    PROVE  p \in Vectors /\ Dot(v, p) = Neg(Dot(v, x))
<1>1. p \in Vectors
  BY FieldClosed DEF Vectors
<1>2. \A j \in Channels : Times(v[j], p[j]) = Neg(Times(v[j], x[j]))
  BY TimesNeg DEF Vectors
<1>3. QED
  BY <1>1, <1>2, DotNeg

\* What is still to be solved is the matrix itself.
LEMMA SolvesFirst ==
    ASSUME NEW p \in Vectors, NEW y \in Vectors, NEW m
    PROVE  Solves(m, 0, p, y) <=> \A i \in Channels : Plus(Dot(m[i], p), y[i]) = Zero
<1>1. \A j \in Channels : ~(j <= 0)
  BY ChannelSet
<1>2. Mix(y, p, 0) = p /\ Mix(p, y, 0) = y
  BY <1>1 DEF Mix, Vectors
<1>3. QED
  BY <1>2 DEF Solves

\* With an inverse every y has a p.
LEMMA RegularOnto ==
    ASSUME NEW a \in Matrices, NEW b \in Matrices, Product(a, b) = Identity
    PROVE  Onto(a, 0)
<1> SUFFICES ASSUME NEW y \in Vectors PROVE \E p \in Vectors : Solves(a, 0, p, y)
  BY DEF Onto
<1> DEFINE x == [j \in Channels |-> Dot(b[j], y)]
           p == [j \in Channels |-> Neg(x[j])]
<1>1. x \in Vectors
  BY DotIs, EntryIn DEF Vectors
<1>2. ASSUME NEW i \in Channels PROVE Plus(Dot(a[i], p), y[i]) = Zero
  <2>1. Dot(a[i], x) = y[i]
    BY DotDot, IdentityIs
  <2> HIDE DEF x
  <2>2. p \in Vectors /\ Dot(a[i], p) = Neg(Dot(a[i], x))
    BY <1>1, EntryIn, NegatedVector
  <2>3. PICK s \in Fractions : s = y[i]
    BY DEF Vectors
  <2>4. Plus(Neg(s), s) = Zero
    BY FieldClosed, Ring
  <2>5. QED
    BY <2>1, <2>2, <2>3, <2>4
<1>3. p \in Vectors
  <2> HIDE DEF x
  <2>1. QED
    BY <1>1, NegatedVector
<1> HIDE DEF p
<1>4. QED
  BY <1>2, <1>3, SolvesFirst

(* If a matrix has an inverse, invert() finds one.                         *)
THEOREM InverseInverts ==
    ASSUME NEW a \in Matrices, NEW b \in Matrices, Product(a, b) = Identity
    PROVE  Product(a, invert(a)) = Identity
<1> DEFINE w == invert(a)
<1>1. /\ w \in Matrices
      /\ \A p \in Vectors : \A y \in Vectors : Solves(a, 0, p, y) <=> Solved(w, p, y)
  BY InvertIs, RegularOnto
<1> HIDE DEF w
<1>2. ASSUME NEW i \in Channels, NEW j \in Channels PROVE Product(a, w)[i][j] = Identity[i][j]
  <2> DEFINE x == Column(w, j)
             p == [l \in Channels |-> Neg(x[l])]
             y == Identity[j]
  <2>1. x \in Vectors /\ y \in Vectors
    BY <1>1, ColumnIn, EntryIn, IdentityIs
  <2>2. Solved(w, p, y)
    <3>1. ASSUME NEW l \in Channels PROVE Plus(Dot(w[l], y), p[l]) = Zero
      <4>1. Dot(w[l], y) = w[l][j]
        BY <1>1, <2>1, DotSymmetric, EntryIn, IdentityIs
      <4>2. p[l] = Neg(w[l][j])
        BY DEF Column
      <4>3. QED
        BY <1>1, <4>1, <4>2, EntryIn, Ring
    <3>2. QED
      BY <3>1 DEF Solved
  <2>3. p \in Vectors /\ Dot(a[i], p) = Neg(Dot(a[i], x))
    <3> HIDE DEF x
    <3>1. QED
      BY <2>1, EntryIn, NegatedVector
  <2>4. Plus(Dot(a[i], p), y[i]) = Zero
    <3> HIDE DEF p, y, x
    <3>1. Solves(a, 0, p, y)
      BY <1>1, <2>1, <2>2, <2>3
    <3>2. QED
      BY <2>1, <2>3, <3>1, SolvesFirst
  <2>5. y[i] = Identity[i][j]
    BY IdentityIs
  <2> HIDE DEF p, y, x
  <2>6. PICK d \in Fractions, e \in Fractions : d = Dot(a[i], x) /\ e = y[i]
    BY <2>1, DotIs, EntryIn DEF Vectors
  <2>7. Neg(d) \in Fractions /\ Neg(Neg(d)) = d
    BY FieldClosed, Ring
  <2>8. e = d
    BY <2>3, <2>4, <2>6, <2>7, ZeroSum
  <2>9. Product(a, w)[i][j] = Dot(a[i], x)
    BY <1>1, ProductIs DEF x
  <2>10. QED
    BY <2>5, <2>6, <2>8, <2>9
<1>3. Product(a, w) \in Matrices /\ Identity \in Matrices
  BY <1>1, IdentityIs, ProductIs
<1>4. Product(a, w) = Identity
  BY <1>2, <1>3 DEF Matrices, Vectors
<1>5. QED
  BY <1>4 DEF w

-----------------------------------------------------------------------------
(* The balance                                                             *)

\* What a calibration makes of the forces F.
Response(b, F) ==
    [i \in Channels |->
       Plus(Sum([j \in Channels |-> Times(b.coe.lin[j][i], F[j])], Channels),
            Sum([p \in Pairs |-> Times(b.coe.qua[p][i], Times(F[p[2]], F[p[1]]))], Pairs))]

\* The types, and that a reading starts at the first channel.
ForceTypes ==
    /\ balance \in Balances /\ load \in Vectors /\ zeroOf \in Vectors
    /\ forcePc \in {"off", "reading", "guess", "newton", "read", "failed"}
    /\ channel \in Channels /\ (forcePc \notin {"reading", "failed"} => channel = 1)
    /\ mat \in Matrices
    /\ dvm \in Vectors /\ dvm_si \in Vectors /\ dvm_si_zero \in Vectors /\ forces \in Vectors

\* The responses are those of the load and of the reference.
ReadingInv ==
    /\ dvm_si_zero = Response(balance, zeroOf)
    /\ forcePc \notin {"off", "failed"} => mat = invert(balance.coe.lin)
    /\ forcePc = "reading" => \A i \in Channels : i < channel => dvm[i] = Voltage(i)
    /\ forcePc = "guess" => \A i \in Channels : dvm[i] = Voltage(i)
    /\ forcePc \in {"newton", "read"} => dvm_si = Response(balance, load)

\* The guess is right already, and Newton's method leaves it alone.
ForcesInv ==
    forcePc \in {"newton", "read"} =>
        /\ load = zeroOf => forces = NoForces
        /\ IsLinear /\ IsRegular => forces = [i \in Channels |-> Minus(load[i], zeroOf[i])]

\* All that is kept.
ForceInv == ForceTypes /\ ReadingInv /\ ForcesInv

\* There are finitely many pairs, of channels.
LEMMA PairSet ==
    /\ IsFiniteSet(Pairs)
    /\ \A p \in Pairs : p[1] \in Channels /\ p[2] \in Channels
<1>1. IsFiniteSet(Channels \X Channels)
  BY ChannelSet, FS_Product
<1>2. QED
  BY <1>1, FS_Subset DEF Pairs

\* No force is one of zero on every channel.
LEMMA NoForcesIn ==
    /\ NoForces \in Vectors /\ NoMatrix \in Matrices
    /\ \A i \in Channels : NoForces[i] = Zero
BY FieldClosed DEF NoForces, NoMatrix, Vectors, Matrices

\* No force has no effect.
LEMMA DotZero ==
    ASSUME NEW v \in Vectors
    PROVE  Dot(v, NoForces) = Zero
<1>1. \A j \in Channels : [l \in Channels |-> Times(v[l], NoForces[l])][j] = Zero
  <2>1. ASSUME NEW j \in Channels PROVE Times(v[j], NoForces[j]) = Zero
    BY NoForcesIn, Ring DEF Vectors
  <2>2. QED
    BY <2>1
<1>2. QED
  BY <1>1, ChannelSet, SumZero DEF Dot

\* The effect of a difference is the difference of the effects.
LEMMA DotMinus ==
    ASSUME NEW v \in Vectors, NEW x \in Vectors, NEW z \in Vectors
    PROVE  /\ [j \in Channels |-> Minus(x[j], z[j])] \in Vectors
           /\ Dot(v, [j \in Channels |-> Minus(x[j], z[j])]) = Minus(Dot(v, x), Dot(v, z))
<1> DEFINE d == [j \in Channels |-> Minus(x[j], z[j])]
           f == [j \in Channels |-> Times(v[j], x[j])]
           e == [j \in Channels |-> Neg(Times(v[j], z[j]))]
           h == [j \in Channels |-> Times(v[j], z[j])]
           g == [j \in Channels |-> Times(v[j], d[j])]
<1>1. ASSUME NEW j \in Channels
      PROVE  /\ d[j] \in Fractions /\ f[j] \in Fractions /\ e[j] \in Fractions /\ h[j] \in Fractions
             /\ g[j] = Plus(f[j], e[j]) /\ e[j] = Neg(h[j])
  <2>1. PICK a \in Fractions, b \in Fractions, c \in Fractions :
            a = v[j] /\ b = x[j] /\ c = z[j]
    BY DEF Vectors
  <2>2. Neg(c) \in Fractions /\ Times(a, b) \in Fractions /\ Times(a, c) \in Fractions
        /\ Neg(Times(a, c)) \in Fractions
    BY FieldClosed
  <2>3. Times(a, Plus(b, Neg(c))) = Plus(Times(a, b), Neg(Times(a, c)))
    BY <2>2, Ring, TimesNeg
  <2>4. Plus(b, Neg(c)) \in Fractions
    BY <2>2, FieldClosed
  <2>5. d[j] = Plus(b, Neg(c)) /\ f[j] = Times(a, b) /\ e[j] = Neg(Times(a, c))
        /\ h[j] = Times(a, c) /\ g[j] = Times(a, d[j])
    BY <2>1 DEF Minus
  <2> HIDE DEF d, f, e, h, g
  <2>6. QED
    BY <2>2, <2>3, <2>4, <2>5
<1>2. d \in Vectors
  <2>1. d = [j \in Channels |-> d[j]]
    OBVIOUS
  <2> HIDE DEF d
  <2>2. QED
    BY <1>1, <2>1 DEF Vectors
<1> HIDE DEF d, f, e, h, g
<1>3. Sum(g, Channels) = Plus(Sum(f, Channels), Sum(e, Channels))
  BY <1>1, ChannelSet, SumPlus
<1>4. Sum(e, Channels) = Neg(Sum(h, Channels))
  BY <1>1, ChannelSet, SumNeg
<1>5. Dot(v, d) = Minus(Dot(v, x), Dot(v, z))
  BY <1>3, <1>4 DEF Dot, Minus, f, h, g
<1>6. QED
  BY <1>2, <1>5 DEF d

\* The difference of two fractions.
LEMMA MinusIs ==
    /\ \A x, y \in Fractions : Minus(x, y) \in Fractions
    /\ \A x \in Fractions : Minus(x, x) = Zero /\ Minus(x, Zero) = x
<1>1. \A x, y \in Fractions : Plus(x, Neg(y)) \in Fractions
  BY FieldClosed
<1>2. \A x \in Fractions : Plus(x, Neg(x)) = Zero /\ Plus(x, Neg(Zero)) = x
  BY NegZero, Ring
<1>3. QED
  BY <1>1, <1>2 DEF Minus

\* A response is a vector.
LEMMA ResponseIn ==
    ASSUME NEW b \in Balances, NEW F \in Vectors
    PROVE  Response(b, F) \in Vectors
<1> SUFFICES ASSUME NEW i \in Channels PROVE Response(b, F)[i] \in Fractions
  BY DEF Response, Vectors
<1> DEFINE f == [j \in Channels |-> Times(b.coe.lin[j][i], F[j])]
           g == [p \in Pairs |-> Times(b.coe.qua[p][i], Times(F[p[2]], F[p[1]]))]
<1>1. \A j \in Channels : F[j] \in Fractions
  BY DEF Vectors
<1>2. \A j \in Channels : f[j] \in Fractions
  <2>1. b.coe.lin \in Matrices
    BY ForceAssumption
  <2>2. QED
    BY <1>1, <2>1, FieldClosed, EntryIn
<1>3. \A p \in Pairs : g[p] \in Fractions
  <2>1. ASSUME NEW p \in Pairs PROVE g[p] \in Fractions
    <3>1. b.coe.qua \in [Pairs -> Vectors]
      BY ForceAssumption
    <3>2. b.coe.qua[p][i] \in Fractions
      BY <3>1 DEF Vectors
    <3>3. Times(F[p[2]], F[p[1]]) \in Fractions
      BY <1>1, FieldClosed, PairSet
    <3>4. QED
      BY <3>2, <3>3, FieldClosed
  <2>2. QED
    BY <2>1
<1>4. Response(b, F)[i] = Plus(Sum(f, Channels), Sum(g, Pairs))
  BY DEF Response
<1> HIDE DEF f, g
<1>5. Sum(f, Channels) \in Fractions /\ Sum(g, Pairs) \in Fractions
  BY <1>2, <1>3, ChannelSet, PairSet, SumStep
<1>6. QED
  BY <1>4, <1>5, FieldClosed

\* There is no response without a force.
LEMMA ResponseZero ==
    ASSUME NEW b \in Balances
    PROVE  Response(b, NoForces) = NoForces
<1>1. ASSUME NEW i \in Channels PROVE Response(b, NoForces)[i] = Zero
  <2> DEFINE f == [j \in Channels |-> Times(b.coe.lin[j][i], NoForces[j])]
             g == [p \in Pairs |-> Times(b.coe.qua[p][i], Times(NoForces[p[2]], NoForces[p[1]]))]
  <2>0. b.coe.lin \in Matrices /\ b.coe.qua \in [Pairs -> Vectors]
    BY ForceAssumption
  <2>1. \A j \in Channels : f[j] = Zero
    <3>1. ASSUME NEW j \in Channels PROVE Times(b.coe.lin[j][i], NoForces[j]) = Zero
      <4>1. b.coe.lin[j][i] \in Fractions
        BY <2>0, EntryIn
      <4>2. QED
        BY <4>1, NoForcesIn, Ring
    <3>2. QED
      BY <3>1
  <2>2. \A p \in Pairs : g[p] = Zero
    <3>1. ASSUME NEW p \in Pairs
          PROVE  Times(b.coe.qua[p][i], Times(NoForces[p[2]], NoForces[p[1]])) = Zero
      <4>1. b.coe.qua[p][i] \in Fractions
        BY <2>0 DEF Vectors
      <4>2. NoForces[p[2]] = Zero /\ NoForces[p[1]] = Zero
        BY NoForcesIn, PairSet
      <4>3. Times(Zero, Zero) = Zero
        BY FieldClosed, Ring
      <4>4. QED
        BY <4>1, <4>2, <4>3, Ring
    <3>2. QED
      BY <3>1
  <2>3. Response(b, NoForces)[i] = Plus(Sum(f, Channels), Sum(g, Pairs))
    BY DEF Response
  <2> HIDE DEF f, g
  <2>4. Sum(f, Channels) = Zero /\ Sum(g, Pairs) = Zero
    BY <2>1, <2>2, ChannelSet, PairSet, SumZero
  <2>5. QED
    BY <2>3, <2>4, FieldClosed, Ring
<1>2. QED
  BY <1>1 DEF Response, NoForces

\* Without a quadratic part only the linear one answers.
LEMMA ResponseLinear ==
    ASSUME NEW b \in Balances, \A p \in Pairs : b.coe.qua[p] = NoForces, NEW F \in Vectors,
           NEW i \in Channels
    PROVE  Response(b, F)[i] = Dot(Column(b.coe.lin, i), F)
<1> DEFINE f == [j \in Channels |-> Times(b.coe.lin[j][i], F[j])]
           g == [p \in Pairs |-> Times(b.coe.qua[p][i], Times(F[p[2]], F[p[1]]))]
           e == [j \in Channels |-> Times(Column(b.coe.lin, i)[j], F[j])]
<1>1. \A p \in Pairs : g[p] = Zero
  <2>1. ASSUME NEW p \in Pairs PROVE Times(b.coe.qua[p][i], Times(F[p[2]], F[p[1]])) = Zero
    <3>1. b.coe.qua[p][i] = Zero
      BY NoForcesIn
    <3>2. Times(F[p[2]], F[p[1]]) \in Fractions
      BY FieldClosed, PairSet DEF Vectors
    <3>3. \A x \in Fractions : Times(Zero, x) = Zero
      BY FieldClosed, Ring
    <3>4. QED
      BY <3>1, <3>2, <3>3
  <2>2. QED
    BY <2>1
<1>2. e = f
  BY DEF Column
<1>3. Response(b, F)[i] = Plus(Sum(f, Channels), Sum(g, Pairs))
  BY DEF Response
<1>4. Dot(Column(b.coe.lin, i), F) = Sum(e, Channels)
  BY DEF Dot
<1> HIDE DEF f, g, e
<1>5. Sum(g, Pairs) = Zero
  BY <1>1, PairSet, SumZero
<1>6. Dot(Column(b.coe.lin, i), F) \in Fractions
  <2>1. b.coe.lin \in Matrices
    BY ForceAssumption
  <2>2. QED
    BY <2>1, ColumnIn, DotIs
<1>7. QED
  BY <1>2, <1>3, <1>4, <1>5, <1>6, Ring

\* A matrix takes a vector to one, and no force to none.
LEMMA ApplyIs ==
    ASSUME NEW m \in Matrices, NEW x \in Vectors
    PROVE  /\ Apply(m, x) \in Vectors
           /\ x = NoForces => Apply(m, x) = NoForces
<1> DEFINE a == [i \in Channels |-> Dot(m[i], x)]
<1>1. Apply(m, x) = a
  <2>1. Known(a) = a
    BY KnownIs
  <2>2. QED
    BY <2>1 DEF Apply, Dot
<1>2. a \in Vectors
  <2>1. \A i \in Channels : Dot(m[i], x) \in Fractions
    BY DotIs, EntryIn
  <2>2. QED
    BY <2>1 DEF Vectors
<1>3. ASSUME x = NoForces PROVE a = NoForces
  <2>1. \A i \in Channels : Dot(m[i], x) = Zero
    BY <1>3, DotZero, EntryIn
  <2>2. QED
    BY <2>1 DEF NoForces
<1>4. QED
  BY <1>1, <1>2, <1>3

\* calc_jacobi() gives a matrix.
LEMMA JacobiIn ==
    ASSUME balance \in Balances, NEW F \in Vectors
    PROVE  calc_jacobi(F) \in Matrices
<1> DEFINE e(i, j) == Plus(balance.coe.lin[j][i],
                           Sum([p \in Pairs |-> Times(Times(balance.coe.qua[p][i], F[p[2]]),
                                                      Whole(Multiplicity(j, p)))], Pairs))
           row(i) == [j \in Channels |-> e(i, j)]
           s == [i \in Channels |-> row(i)]
<1>1. \A i \in Channels : Known(row(i)) = row(i)
  <2>1. ASSUME NEW i \in Channels PROVE Known(row(i)) = row(i)
    BY KnownIs
  <2>2. QED
    BY <2>1
<1>2. [i \in Channels |-> Known(row(i))] = s
  BY <1>1
<1>3. Known(s) = s
  BY KnownIs
<1>4. calc_jacobi(F) = s
  BY <1>2, <1>3 DEF calc_jacobi
<1>5. ASSUME NEW i \in Channels, NEW j \in Channels PROVE e(i, j) \in Fractions
  <2> DEFINE g == [p \in Pairs |-> Times(Times(balance.coe.qua[p][i], F[p[2]]),
                                         Whole(Multiplicity(j, p)))]
  <2>1. balance.coe.lin \in Matrices /\ balance.coe.qua \in [Pairs -> Vectors]
    BY ForceAssumption
  <2>2. ASSUME NEW p \in Pairs
        PROVE  Times(Times(balance.coe.qua[p][i], F[p[2]]), Whole(Multiplicity(j, p))) \in Fractions
    <3>1. balance.coe.qua[p][i] \in Fractions /\ F[p[2]] \in Fractions
      BY <2>1, PairSet DEF Vectors
    <3>2. Multiplicity(j, p) \in Int
      BY DEF Multiplicity
    <3>3. Whole(Multiplicity(j, p)) \in Fractions
      BY <3>2, WholeIn
    <3>4. QED
      BY <3>1, <3>3, FieldClosed
  <2>3. \A p \in Pairs : g[p] \in Fractions
    BY <2>2
  <2>4. e(i, j) = Plus(balance.coe.lin[j][i], Sum(g, Pairs))
    OBVIOUS
  <2> HIDE DEF g
  <2>5. Sum(g, Pairs) \in Fractions /\ balance.coe.lin[j][i] \in Fractions
    BY <2>1, <2>3, EntryIn, PairSet, SumStep
  <2>6. QED
    BY <2>4, <2>5, FieldClosed
<1> HIDE DEF e
<1>6. s \in Matrices
  BY <1>5 DEF Matrices, Vectors
<1>7. QED
  BY <1>4, <1>6

\* The initial guess of read().
LEMMA GuessIs ==
    ASSUME NEW m \in Matrices, NEW e \in Vectors, NEW F,
           F = [i \in Channels |->
                  Sum([j \in Channels |-> Times(m[j][i], e[j])], Channels)]
    PROVE  F \in Vectors /\ F = [i \in Channels |-> Dot(Column(m, i), e)]
<1>1. ASSUME NEW i \in Channels
      PROVE  F[i] = Dot(Column(m, i), e) /\ F[i] \in Fractions
  <2>1. [j \in Channels |-> Times(m[j][i], e[j])]
          = [j \in Channels |-> Times(Column(m, i)[j], e[j])]
    BY DEF Column
  <2>2. Dot(Column(m, i), e) \in Fractions
    BY ColumnIn, DotIs
  <2>3. QED
    BY <2>1, <2>2 DEF Dot
<1>2. QED
  BY <1>1 DEF Vectors

\* The transposed inverse takes back what the transposed matrix does.
LEMMA GuessInverts ==
    ASSUME NEW a \in Matrices, NEW w \in Matrices, Product(a, w) = Identity,
           NEW d \in Vectors, NEW i \in Channels
    PROVE  Dot(Column(w, i), [j \in Channels |-> Dot(Column(a, j), d)]) = d[i]
<1> DEFINE t == Transposed(w)
           u == Transposed(a)
<1>1. /\ t \in Matrices /\ u \in Matrices
      /\ \A j \in Channels : t[j] = Column(w, j) /\ u[j] = Column(a, j)
  BY ColumnIn DEF Transposed
<1>2. \A l \in Channels : Column(u, l) = a[l]
  <2>1. ASSUME NEW l \in Channels PROVE Column(u, l) = a[l]
    <3>1. \A j \in Channels : u[j][l] = a[l][j]
      BY <1>1 DEF Column
    <3>2. a[l] \in Vectors
      BY EntryIn
    <3>3. QED
      BY <3>1, <3>2 DEF Column, Vectors
  <2>2. QED
    BY <2>1
<1> HIDE DEF t, u
<1>3. ASSUME NEW l \in Channels PROVE Product(t, u)[i][l] = Identity[i][l]
  <2>1. Product(t, u)[i][l] = Dot(Column(w, i), a[l])
    BY <1>1, <1>2, ProductIs
  <2>2. Dot(Column(w, i), a[l]) = Dot(a[l], Column(w, i))
    BY ColumnIn, DotSymmetric, EntryIn
  <2>3. Dot(a[l], Column(w, i)) = Identity[l][i]
    BY ProductIs
  <2>4. QED
    BY <2>1, <2>2, <2>3, IdentityIs
<1>4. Product(t, u)[i] = Identity[i]
  <2>1. Product(t, u)[i] \in Vectors /\ Identity[i] \in Vectors
    BY <1>1, EntryIn, IdentityIs, ProductIs
  <2>2. QED
    BY <1>3, <2>1 DEF Vectors
<1>5. Dot(t[i], [j \in Channels |-> Dot(u[j], d)]) = d[i]
  BY <1>1, <1>4, DotDot, IdentityIs
<1>6. [j \in Channels |-> Dot(u[j], d)] = [j \in Channels |-> Dot(Column(a, j), d)]
  BY <1>1
<1>7. QED
  BY <1>1, <1>5, <1>6

\* The two cases in which the forces are known, with what is read then.
LEMMA GuessRight ==
    ASSUME NEW b \in Balances, NEW F \in Vectors, NEW G \in Vectors,
           NEW e, e = [j \in Channels |-> Minus(Response(b, F)[j], Response(b, G)[j])]
    PROVE  /\ e \in Vectors
           /\ F = G => \A m \in Matrices : [i \in Channels |-> Dot(Column(m, i), e)] = NoForces
           /\ (\A p \in Pairs : b.coe.qua[p] = NoForces)
                 /\ Product(b.coe.lin, b.inverse) = Identity =>
                [i \in Channels |-> Dot(Column(invert(b.coe.lin), i), e)]
                  = [i \in Channels |-> Minus(F[i], G[i])]
<1>0. b.coe.lin \in Matrices /\ b.inverse \in Matrices
  BY ForceAssumption
<1>1. \A j \in Channels : Response(b, F)[j] \in Fractions /\ Response(b, G)[j] \in Fractions
  BY ResponseIn DEF Vectors
<1>2. e \in Vectors
  BY <1>1, MinusIs DEF Vectors
<1>3. ASSUME F = G, NEW m \in Matrices PROVE [i \in Channels |-> Dot(Column(m, i), e)] = NoForces
  <2>1. e = NoForces
    BY <1>1, <1>3, MinusIs DEF NoForces
  <2>2. \A i \in Channels : Dot(Column(m, i), e) = Zero
    BY <2>1, ColumnIn, DotZero
  <2>3. QED
    BY <2>2 DEF NoForces
<1>4. ASSUME \A p \in Pairs : b.coe.qua[p] = NoForces, Product(b.coe.lin, b.inverse) = Identity
      PROVE  [i \in Channels |-> Dot(Column(invert(b.coe.lin), i), e)]
               = [i \in Channels |-> Minus(F[i], G[i])]
  <2> DEFINE d == [i \in Channels |-> Minus(F[i], G[i])]
             a == b.coe.lin
  <2>1. d \in Vectors
    BY DotMinus
  <2>2. invert(a) \in Matrices /\ Product(a, invert(a)) = Identity
    BY <1>0, <1>4, InverseInverts, InvertIs
  <2>3. ASSUME NEW j \in Channels PROVE e[j] = Dot(Column(a, j), d)
    <3>1. Response(b, F)[j] = Dot(Column(a, j), F) /\ Response(b, G)[j] = Dot(Column(a, j), G)
      BY <1>4, ResponseLinear
    <3>2. Dot(Column(a, j), d) = Minus(Dot(Column(a, j), F), Dot(Column(a, j), G))
      BY <1>0, ColumnIn, DotMinus
    <3>3. QED
      BY <3>1, <3>2
  <2>4. e = [j \in Channels |-> Dot(Column(a, j), d)]
    <3> HIDE DEF d, a
    <3>1. QED
      BY <1>2, <2>3 DEF Vectors
  <2> HIDE DEF d
  <2>5. \A i \in Channels : Dot(Column(invert(a), i), e) = d[i]
    BY <1>0, <2>1, <2>2, <2>4, GuessInverts
  <2>6. [i \in Channels |-> Dot(Column(invert(a), i), e)] = d
    BY <2>1, <2>5 DEF Vectors
  <2>7. QED
    BY <2>6 DEF d
<1>5. QED
  BY <1>2, <1>3, <1>4

\* A pass of Newton's loop is nothing where the forces are known.
LEMMA ResidualZero ==
    ASSUME NEW b \in Balances, NEW F \in Vectors, NEW G \in Vectors, NEW H \in Vectors, NEW r,
           r = [i \in Channels |-> Minus(Response(b, H)[i],
                                         Minus(Response(b, F)[i], Response(b, G)[i]))]
    PROVE  /\ r \in Vectors
           /\ F = G /\ H = NoForces => r = NoForces
           /\ (\A p \in Pairs : b.coe.qua[p] = NoForces)
                 /\ H = [i \in Channels |-> Minus(F[i], G[i])] => r = NoForces
<1>1. \A j \in Channels : /\ Response(b, F)[j] \in Fractions /\ Response(b, G)[j] \in Fractions
                          /\ Response(b, H)[j] \in Fractions
  BY ResponseIn DEF Vectors
<1>2. r \in Vectors
  BY <1>1, MinusIs DEF Vectors
<1>3. ASSUME F = G, H = NoForces PROVE r = NoForces
  <2>1. \A j \in Channels : Response(b, H)[j] = Zero
    BY <1>3, NoForcesIn, ResponseZero
  <2>2. Minus(Zero, Zero) = Zero
    BY FieldClosed, MinusIs
  <2>3. \A i \in Channels : r[i] = Zero
    BY <1>1, <1>3, <2>1, <2>2, MinusIs
  <2>4. QED
    BY <1>2, <2>3 DEF NoForces, Vectors
<1>4. ASSUME \A p \in Pairs : b.coe.qua[p] = NoForces,
             H = [i \in Channels |-> Minus(F[i], G[i])]
      PROVE  r = NoForces
  <2>1. ASSUME NEW i \in Channels PROVE r[i] = Zero
    <3>1. PICK v \in Vectors : v = Column(b.coe.lin, i)
      BY ColumnIn, ForceAssumption
    <3>2. /\ Response(b, F)[i] = Dot(v, F) /\ Response(b, G)[i] = Dot(v, G)
          /\ Response(b, H)[i] = Dot(v, H)
      BY <1>4, <3>1, ResponseLinear
    <3>3. Dot(v, H) = Minus(Dot(v, F), Dot(v, G))
      BY <1>4, DotMinus
    <3>4. Dot(v, H) \in Fractions
      BY DotIs
    <3>5. r[i] = Minus(Dot(v, H), Dot(v, H))
      BY <3>2, <3>3
    <3>6. QED
      BY <3>4, <3>5, MinusIs
  <2>2. QED
    BY <1>2, <2>1 DEF NoForces, Vectors
<1>5. QED
  BY <1>2, <1>3, <1>4

\* The definitions of the model that are responses of the calibration.
LEMMA ResponsesAre ==
    /\ \A zero : ZeroResponse(zero) = Response(balance, zero)
    /\ \A i \in Channels : Voltage(i) = Over(Response(balance, load)[i], NewtonPerVolt[i])
    /\ \A F : calc_function(F)
                = [i \in Channels |-> Minus(Response(balance, F)[i],
                                            Minus(dvm_si[i], dvm_si_zero[i]))]
BY DEF ZeroResponse, Voltage, calc_function, Linear, Quadratic, Response

\* A voltage is a fraction, and times the newtons per volt it is the response.
LEMMA VoltageIs ==
    ASSUME balance \in Balances, load \in Vectors, NEW i \in Channels
    PROVE  /\ Voltage(i) \in Fractions
           /\ Times(NewtonPerVolt[i], Voltage(i)) = Response(balance, load)[i]
<1>1. PICK x \in Fractions, n \in Fractions :
          x = Response(balance, load)[i] /\ n = NewtonPerVolt[i] /\ n # Zero
  BY ForceAssumption, ResponseIn DEF Vectors
<1>2. Voltage(i) = Over(x, n)
  BY <1>1, ResponsesAre
<1>3. /\ Over(x, n) \in Fractions /\ Over(One, n) \in Fractions
      /\ Over(x, n) = Times(x, Over(One, n)) /\ Times(n, Over(One, n)) = One
  BY <1>1, OverIs
<1>4. Times(n, Over(x, n)) = x
  <2>1. PICK o \in Fractions : o = Over(One, n)
    BY <1>3
  <2>2. Times(n, Times(x, o)) = Times(Times(x, o), n)
    BY <2>1, FieldClosed, Ring
  <2>3. Times(Times(x, o), n) = Times(x, Times(o, n))
    BY <2>1, TimesAssociative
  <2>4. Times(o, n) = One /\ Times(x, One) = x
    BY <1>3, <2>1, Ring
  <2>5. QED
    BY <1>3, <2>1, <2>2, <2>3, <2>4
<1>5. QED
  BY <1>1, <1>2, <1>3, <1>4

\* The object before its constructor has run.
LEMMA ForceInitial == ForceInit => ForceInv
<1> SUFFICES ASSUME ForceInit PROVE ForceInv
  OBVIOUS
<1>1. balance \in Balances /\ load \in Vectors
  BY ForceAssumption DEF ForceInit
<1>2. 1 \in Channels
  BY ForceAssumption DEF Channels
<1>3. ForceTypes
  BY <1>1, <1>2, NoForcesIn DEF ForceInit, ForceTypes
<1>4. dvm_si_zero = Response(balance, zeroOf)
  BY <1>1, ResponseZero DEF ForceInit
<1>5. QED
  BY <1>3, <1>4 DEF ForceInit, ForceInv, ReadingInv, ForcesInv

\* A step of the constructor, of read() or of Newton's method keeps it.
LEMMA ForceStep == ForceInv /\ [ForceNext]_forceVars => ForceInv'
<1> SUFFICES ASSUME ForceInv, [ForceNext]_forceVars PROVE ForceInv'
  OBVIOUS
<1>0. ForceTypes /\ ReadingInv /\ ForcesInv
  BY DEF ForceInv
<1>a. ASSUME UNCHANGED <<balance, load>>
      PROVE  \A i \in Channels : Voltage(i)' = Voltage(i)
  BY <1>a DEF Voltage, Linear, Quadratic
<1>b. ASSUME UNCHANGED balance PROVE IsLinear' = IsLinear /\ IsRegular' = IsRegular
  BY <1>b DEF IsLinear, IsRegular
<1>1. CASE ForceConstructFails \/ ReadChannelFails
  <2>1. ForceTypes'
    BY <1>0, <1>1 DEF ForceTypes, ForceConstructFails, ReadChannelFails
  <2>2. ReadingInv' /\ ForcesInv'
    BY <1>0, <1>1 DEF ReadingInv, ForcesInv, ForceConstructFails, ReadChannelFails
  <2>3. QED
    BY <2>1, <2>2 DEF ForceInv
<1>2. CASE ForceConstruct
  <2>1. /\ balance \in Balances /\ balance' = balance /\ channel' = channel /\ channel = 1
        /\ forcePc' = "reading" /\ mat' = invert(balance.coe.lin)
        /\ balance.coe.lin \in Matrices /\ balance.zeros \subseteq Vectors
    BY <1>0, <1>2, ForceAssumption DEF ForceConstruct, ForceTypes
  <2>2. mat' \in Matrices
    BY <2>1, InvertIs
  <2>3. zeroOf' \in Vectors /\ dvm_si_zero' = Response(balance, zeroOf')
    <3>1. CASE UNCHANGED <<zeroOf, dvm_si_zero>>
      BY <1>0, <3>1 DEF ForceTypes, ReadingInv
    <3>2. CASE \E zero \in balance.zeros : zeroOf' = zero /\ dvm_si_zero' = ZeroResponse(zero)
      BY <2>1, <3>2, ResponsesAre
    <3>3. QED
      BY <1>2, <3>1, <3>2 DEF ForceConstruct
  <2>4. dvm_si_zero' \in Vectors
    BY <2>1, <2>3, ResponseIn
  <2>5. ForceTypes'
    BY <1>0, <1>2, <2>1, <2>2, <2>3, <2>4 DEF ForceTypes, ForceConstruct
  <2>6. ReadingInv' /\ ForcesInv'
    BY <2>1, <2>3 DEF ReadingInv, ForcesInv, Channels
  <2>7. QED
    BY <2>5, <2>6 DEF ForceInv
<1>3. CASE ReadChannel
  <2>1. /\ UNCHANGED <<balance, load, zeroOf, mat, dvm_si, dvm_si_zero, forces>>
        /\ channel \in Channels /\ forcePc = "reading" /\ dvm \in Vectors
        /\ dvm' = [dvm EXCEPT ![channel] = Voltage(channel)]
        /\ channel \in 1 .. NumChannels /\ NumChannels \in Nat
    BY <1>0, <1>3, ForceAssumption DEF ReadChannel, ForceTypes, Channels
  <2>2. dvm' \in Vectors
    BY <1>0, <2>1, VoltageIs DEF ForceTypes, Vectors
  <2>3. /\ channel' \in Channels
        /\ forcePc' \in {"reading", "guess"} /\ (forcePc' = "guess" => channel' = 1)
    BY <1>3, <2>1 DEF ReadChannel, Channels
  <2>4. ForceTypes'
    BY <1>0, <2>1, <2>2, <2>3 DEF ForceTypes
  <2>5. \A i \in Channels : i < channel \/ i = channel => dvm'[i] = Voltage(i)'
    <3>1. \A i \in Channels : i < channel => dvm[i] = Voltage(i)
      BY <1>0, <2>1 DEF ReadingInv
    <3>2. \A i \in Channels : dvm'[i] = IF i = channel THEN Voltage(channel) ELSE dvm[i]
      BY <2>1 DEF Vectors
    <3>3. QED
      BY <1>a, <2>1, <3>1, <3>2 DEF Channels
  <2>6. /\ forcePc' = "reading" => channel' = channel + 1
        /\ forcePc' = "guess" => channel = NumChannels
    BY <1>3, <2>1 DEF ReadChannel
  <2>7. ASSUME NEW i \in Channels, forcePc' = "guess" \/ i < channel'
        PROVE  dvm'[i] = Voltage(i)'
    <3>1. i < channel \/ i = channel
      BY <2>1, <2>3, <2>6, <2>7 DEF Channels
    <3>2. QED
      BY <2>5, <3>1
  <2>8. ReadingInv' /\ ForcesInv'
    BY <1>0, <2>1, <2>3, <2>7 DEF ReadingInv, ForcesInv
  <2>9. QED
    BY <2>4, <2>8 DEF ForceInv
<1>4. CASE Guess
  <2>1. /\ UNCHANGED <<balance, load, zeroOf, mat, dvm_si_zero, channel, dvm>>
        /\ balance \in Balances /\ load \in Vectors /\ zeroOf \in Vectors
        /\ mat = invert(balance.coe.lin) /\ mat \in Matrices
        /\ forcePc = "guess" /\ forcePc' = "newton"
        /\ dvm_si_zero = Response(balance, zeroOf)
        /\ \A i \in Channels : dvm[i] = Voltage(i)
    BY <1>0, <1>4 DEF Guess, ForceTypes, ReadingInv
  <2>2. dvm_si' = Response(balance, load)
    <3>1. dvm_si' = [i \in Channels |-> Response(balance, load)[i]]
      BY <1>4, <2>1, VoltageIs DEF Guess
    <3>2. QED
      BY <3>1 DEF Response
  <2>3. dvm_si' \in Vectors
    BY <2>1, <2>2, ResponseIn
  <2> DEFINE e == [j \in Channels |-> Minus(Response(balance, load)[j],
                                            Response(balance, zeroOf)[j])]
  <2>4. forces' = [i \in Channels |-> Sum([j \in Channels |-> Times(mat[j][i], e[j])], Channels)]
    <3>1. \A j \in Channels : Minus(dvm_si'[j], dvm_si_zero[j]) = e[j]
      BY <2>1, <2>2
    <3>2. \A i \in Channels :
            [j \in Channels |-> Times(mat[j][i], Minus(dvm_si'[j], dvm_si_zero[j]))]
              = [j \in Channels |-> Times(mat[j][i], e[j])]
      BY <3>1
    <3>3. forces' = [i \in Channels |->
                       Sum([j \in Channels |-> Times(mat[j][i], Minus(dvm_si'[j], dvm_si_zero[j]))],
                           Channels)]
      BY <1>4 DEF Guess
    <3> HIDE DEF e
    <3>4. QED
      BY <3>2, <3>3
  <2>5. PICK v : v = e /\ v = [j \in Channels |-> Minus(Response(balance, load)[j],
                                                         Response(balance, zeroOf)[j])]
    OBVIOUS
  <2> HIDE DEF e
  <2>6. /\ v \in Vectors
        /\ load = zeroOf => \A m \in Matrices : [i \in Channels |-> Dot(Column(m, i), v)] = NoForces
        /\ IsLinear /\ IsRegular =>
             [i \in Channels |-> Dot(Column(invert(balance.coe.lin), i), v)]
               = [i \in Channels |-> Minus(load[i], zeroOf[i])]
    BY <2>1, <2>5, GuessRight DEF IsLinear, IsRegular
  <2>7. forces' \in Vectors /\ forces' = [i \in Channels |-> Dot(Column(mat, i), v)]
    <3>0. PICK F : F = forces'
      OBVIOUS
    <3>1. PICK m \in Matrices, x \in Vectors : m = mat /\ x = v
      BY <2>1, <2>6
    <3>2. F = [i \in Channels |-> Sum([j \in Channels |-> Times(m[j][i], x[j])], Channels)]
      BY <2>4, <2>5, <3>0, <3>1
    <3>3. F \in Vectors /\ F = [i \in Channels |-> Dot(Column(m, i), x)]
      BY <3>2, GuessIs
    <3>4. QED
      BY <3>0, <3>1, <3>3
  <2>8. ForceTypes'
    BY <1>0, <2>1, <2>3, <2>7 DEF ForceTypes
  <2>9. ForcesInv'
    BY <1>b, <2>1, <2>6, <2>7 DEF ForcesInv
  <2>10. ReadingInv'
    BY <2>1, <2>2 DEF ReadingInv
  <2>11. QED
    BY <2>8, <2>9, <2>10 DEF ForceInv
<1>5. CASE NewtonPass
  <2>1. /\ UNCHANGED <<balance, load, zeroOf, mat, dvm_si, dvm_si_zero, channel, dvm>>
        /\ balance \in Balances /\ load \in Vectors /\ zeroOf \in Vectors /\ forces \in Vectors
        /\ mat = invert(balance.coe.lin) /\ forcePc = "newton" /\ forcePc' \in {"newton", "read"}
        /\ dvm_si_zero = Response(balance, zeroOf) /\ dvm_si = Response(balance, load)
        /\ residual' = calc_function(forces)
    BY <1>0, <1>5 DEF NewtonPass, ForceTypes, ReadingInv
  <2>2. PICK w \in Matrices : w = invert(calc_jacobi(forces))
    BY <2>1, InvertIs, JacobiIn
  <2>3. residual' = [i \in Channels |-> Minus(Response(balance, forces)[i],
                                              Minus(Response(balance, load)[i],
                                                    Response(balance, zeroOf)[i]))]
    BY <2>1, ResponsesAre
  <2>4. /\ residual' \in Vectors
        /\ load = zeroOf /\ forces = NoForces => residual' = NoForces
        /\ IsLinear /\ forces = [i \in Channels |-> Minus(load[i], zeroOf[i])]
             => residual' = NoForces
    <3>1. PICK r : r = residual'
      OBVIOUS
    <3>2. QED
      BY <2>1, <2>3, <3>1, ResidualZero DEF IsLinear
  <2>5. PICK s : s = Apply(w, residual')
    OBVIOUS
  <2>6. s \in Vectors /\ (residual' = NoForces => s = NoForces)
    <3>1. PICK r \in Vectors : r = residual'
      BY <2>4
    <3>2. QED
      BY <2>5, <3>1, ApplyIs
  <2>7. forces' = [i \in Channels |-> Minus(forces[i], s[i])]
    BY <1>5, <2>2, <2>5 DEF NewtonPass
  <2>8. forces' \in Vectors
    BY <2>1, <2>6, <2>7, MinusIs DEF Vectors
  <2>9. s = NoForces => forces' = forces
    <3>1. ASSUME s = NoForces PROVE \A i \in Channels : forces'[i] = forces[i]
      BY <2>1, <2>7, <3>1, MinusIs, NoForcesIn DEF Vectors
    <3>2. QED
      BY <2>1, <2>8, <3>1 DEF Vectors
  <2>10. ForceTypes'
    BY <1>0, <2>1, <2>8 DEF ForceTypes
  <2>11. ReadingInv'
    BY <2>1 DEF ReadingInv
  <2>12. ForcesInv'
    BY <1>0, <1>b, <2>1, <2>4, <2>6, <2>9 DEF ForcesInv
  <2>13. QED
    BY <2>10, <2>11, <2>12 DEF ForceInv
<1>6. CASE ReadAgain
  <2>1. /\ UNCHANGED <<balance, channel, zeroOf, mat, dvm, dvm_si, dvm_si_zero, forces>>
        /\ load' \in Vectors /\ forcePc' = "reading" /\ channel = 1
    BY <1>0, <1>6, ForceAssumption DEF ReadAgain, ForceTypes
  <2>2. ForceTypes'
    BY <1>0, <2>1 DEF ForceTypes
  <2>3. ReadingInv' /\ ForcesInv'
    BY <1>0, <1>6, <2>1 DEF ReadAgain, ReadingInv, ForcesInv, Channels
  <2>4. QED
    BY <2>2, <2>3 DEF ForceInv
<1>7. CASE UNCHANGED forceVars
  <2>1. ForceTypes'
    BY <1>0, <1>7 DEF ForceTypes, forceVars
  <2>2. UNCHANGED <<balance, load, forcePc, zeroOf, mat, dvm, dvm_si, dvm_si_zero, forces, channel>>
    BY <1>7 DEF forceVars
  <2>3. ReadingInv'
    BY <1>0, <1>a, <2>2 DEF ReadingInv
  <2>4. ForcesInv'
    BY <1>0, <1>b, <2>2 DEF ForcesInv
  <2>5. QED
    BY <2>1, <2>3, <2>4 DEF ForceInv
<1>8. QED
  BY <1>1, <1>2, <1>3, <1>4, <1>5, <1>6, <1>7 DEF ForceNext

\* What is kept says what the forces are.
LEMMA ForceInvSays == ForceInv => ForcesTrue
<1> SUFFICES ASSUME ForceInv, forcePc = "read" PROVE ForcesTrue
  BY DEF ForcesTrue, LoadRecovered, TareReadsZero
<1>1. /\ balance \in Balances /\ load \in Vectors /\ zeroOf \in Vectors
      /\ mat = invert(balance.coe.lin)
      /\ load = zeroOf => forces = NoForces
      /\ IsLinear /\ IsRegular => forces = [i \in Channels |-> Minus(load[i], zeroOf[i])]
  BY DEF ForceInv, ForceTypes, ReadingInv, ForcesInv
<1>2. IsRegular => Product(balance.coe.lin, mat) = Identity
  <2>1. balance.coe.lin \in Matrices /\ balance.inverse \in Matrices
    BY <1>1, ForceAssumption
  <2>2. QED
    BY <1>1, <2>1, InverseInverts DEF IsRegular
<1>3. QED
  BY <1>1, <1>2 DEF ForcesTrue, LoadRecovered, TareReadsZero

(* What read() gives is the load beyond that of the reference, for every    *)
(* calibration that has an inverse and no quadratic part, for any number   *)
(* of channels; and the load of the reference reads as no force at all,    *)
(* whatever the calibration.                                               *)
THEOREM ForcesAreTrue == ForceSpec => []ForcesTrue
BY ForceInitial, ForceStep, ForceInvSays, PTL DEF ForceSpec
-----------------------------------------------------------------------------
(* The four together                                                       *)

(* Every step of the four is one of each or leaves it alone.               *)
LEMMA Apart ==
    ASSUME [InstrumentsNext]_instrumentVars
    PROVE  /\ [PluginsNext]_pluginVars
           /\ [ForceNext]_forceVars
           /\ [AnglesNext]_angleVars
           /\ [BoardNext]_boardVars
BY DEF InstrumentsNext, instrumentVars

(* The encoders tell where they are, whatever the other parts do.          *)
THEOREM EncodersAreTrue == InstrumentsSpec => []EncodersTrue
<1>1. InstrumentsInit => AnglesInv /\ BoardInv
  BY AnglesInitial, BoardInitial DEF InstrumentsInit
<1>2. AnglesInv /\ BoardInv /\ [InstrumentsNext]_instrumentVars => (AnglesInv /\ BoardInv)'
  BY Apart, AnglesStep, BoardStep
<1>3. AnglesInv /\ BoardInv => EncodersTrue
  BY DEF AnglesInv, BoardInv, BoardTrue, EncodersTrue, OwnAngles
<1>4. QED
  BY <1>1, <1>2, <1>3, PTL DEF InstrumentsSpec

(* The forces are true, whatever the other parts do.                       *)
THEOREM ForcesTrueAmongOthers == InstrumentsSpec => []ForcesTrue
<1>1. InstrumentsInit => ForceInv
  BY ForceInitial DEF InstrumentsInit
<1>2. ForceInv /\ [InstrumentsNext]_instrumentVars => ForceInv'
  BY Apart, ForceStep
<1>3. QED
  BY <1>1, <1>2, ForceInvSays, PTL DEF InstrumentsSpec

(* The plugins among the other instruments are those of PluginsSpec.       *)
THEOREM PluginsAmongOthers == InstrumentsSpec => PluginsSpec
<1>1. InstrumentsInit => PluginsInit
  BY DEF InstrumentsInit
<1>2. [InstrumentsNext]_instrumentVars => [PluginsNext]_pluginVars
  BY Apart
<1>3. QED
  BY <1>1, <1>2, PTL DEF InstrumentsSpec, PluginsSpec
=============================================================================
