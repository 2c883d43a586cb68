------------------------------- MODULE Plugins -------------------------------
(***************************************************************************)
(* The plugins as the program sees them: what each VariableMeta says, the  *)
(* settings (QSettings), what the dialogs of preferences, references and   *)
(* measurements accept, and PluginManager, which makes the hardware of a   *)
(* run one plugin after the other and closes it again.  The Arduino        *)
(* plugin, which has no model and no hardware, is passed over by every     *)
(* list and left out.  An angle or a percentage is counted in tenths.      *)
(***************************************************************************)
EXTENDS Integers, Sequences, FiniteSets

CONSTANTS
    Installations,  \* what the directory of the plugins may hold
    DvmTimes,       \* the times of the combo box that are chosen
    MaxEdits,       \* bound on the start values that are changed in a dialog
    MaxDialogs,     \* bound on the dialogs that are accepted
    MaxStarts       \* bound on the runs that are started

ASSUME PluginsAssumption ==
    /\ DvmTimes \subseteq 1 .. 6
    /\ {MaxEdits, MaxDialogs, MaxStarts} \subseteq Nat
    /\ \A f \in Installations : f \in Seq({f[i] : i \in DOMAIN f}) /\ f # <<>>

\* Every plugin declares for its channels a range with the default in it, and
\* a step.  Names may be shared, although "each variable has a name and is
\* unique" (common/variable.h:11): the default build has Alpha, Beta and Angles.
ASSUME ChannelsAssumption ==
    \A f \in Installations : \A i \in DOMAIN f : \A k \in DOMAIN f[i].meta.channels :
        LET c == f[i].meta.channels[k]
        IN  /\ {c.lower, c.upper, c.smaller_step, c.default_start} \subseteq Int
            /\ c.lower <= c.default_start /\ c.default_start <= c.upper
            /\ f[i].meta.controlable => c.smaller_step > 0

VARIABLES
    factories,      \* fact_list, in the order of the file names
    stored,         \* QSettings
    reference,      \* the last reference that was accepted
    measurement,    \* the last measurement that was accepted
    used,           \* history: the model that the run was started with
    creating,       \* the next factory of getListVariableHardware(), or 0
    hardware,       \* the list it returns
    open,           \* the devices that are open: [run, plugin, device]
    threw,          \* history: the constructors that threw: [run, plugin]
    dialogs, starts \* the dialogs and the runs so far

pluginVars == <<factories, stored, reference, measurement, used, creating, hardware,
                open, threw, dialogs, starts>>

(***************************************************************************)
(* VariableMeta.  One record for each channel, one for each plugin.        *)
(***************************************************************************)
Bounds(name, lower, upper, smaller, step, start) ==
    [name |-> name, lower |-> lower, upper |-> upper, smaller_step |-> smaller,
     default_step |-> step, default_start |-> start]

Measured(name) == Bounds(name, 0, 0, 0, 0, 0)

Meta(general, controlable, channels) ==
    [general |-> general, controlable |-> controlable, has_zero |-> general = "Forces",
     channels |-> channels]

TimeMeta == Meta("Time", FALSE, <<Measured("Time")>>)
ForceMeta == Meta("Forces", FALSE, <<Measured("Fx"), Measured("Fy"), Measured("Fz"),
                                     Measured("Mx"), Measured("My"), Measured("Mz")>>)
AlphaMeta == Meta("Alpha", TRUE, <<Bounds("Alpha", -300, 300, 1, 10, 0)>>)
BetaMeta == Meta("Beta", TRUE, <<Bounds("Beta", -1650, 1650, 2, 50, 0)>>)
AnglesMeta == Meta("Angles", TRUE, <<Bounds("Alpha", -300, 300, 1, 10, 0),
                                     Bounds("Beta", -1650, 1650, 2, 10, 0)>>)
MotorMeta == Meta("Motor", TRUE, <<Bounds("Motor", 0, 1000, 10, 10, 0)>>)
PressureMeta == Meta("Pressure", FALSE, <<Measured("Pressure")>>)
TemperatureMeta == Meta("Temperature", FALSE, <<Measured("Temperature")>>)

\* The virtual plugins say what the real ones say, but for the range of Beta.
VirtualForceMeta == ForceMeta
VirtualAlphaMeta == AlphaMeta
VirtualBetaMeta == Meta("Beta", TRUE, <<Bounds("Beta", -1800, 1800, 2, 50, 0)>>)
VirtualMotorMeta == MotorMeta
VirtualPressureMeta == PressureMeta
VirtualTemperatureMeta == TemperatureMeta

(***************************************************************************)
(* The factories: the sets of devices that the constructor of the hardware *)
(* may leave open, when it returns and when it throws.  A missing board is *)
(* not noticed by the constructors that only open it.                      *)
(***************************************************************************)
Factory(meta, opens, throws) == [meta |-> meta, opens |-> opens, throws |-> throws]

TimeFactory == Factory(TimeMeta, {{}}, {})
ForceFactory == Factory(ForceMeta, {{"gpib"}}, {{}})
AlphaFactory == Factory(AlphaMeta, {{"board", "alpha"}, {"alpha"}}, {{"board"}, {}})
BetaFactory == Factory(BetaMeta, {{"board", "beta"}, {"beta"}}, {{"board"}, {}})
AnglesFactory == Factory(AnglesMeta, {{"board", "angles"}, {"angles"}}, {{"board"}, {}})
MotorFactory == Factory(MotorMeta, {{"motor"}}, {{}, {"motor"}})
PressureFactory == Factory(PressureMeta, {{"board"}}, {{"board"}, {}})
TemperatureFactory == Factory(TemperatureMeta, {{"board"}, {}}, {})

\* A virtual device opens nothing and its constructor does not throw.
Virtual(meta) == Factory(meta, {{}}, {})
VirtualForceFactory == Virtual(VirtualForceMeta)
VirtualAlphaFactory == Virtual(VirtualAlphaMeta)
VirtualBetaFactory == Virtual(VirtualBetaMeta)
VirtualMotorFactory == Virtual(VirtualMotorMeta)
VirtualPressureFactory == Virtual(VirtualPressureMeta)
VirtualTemperatureFactory == Virtual(VirtualTemperatureMeta)

Plugin == DOMAIN factories
Named(general) == {i \in Plugin : factories[i].meta.general = general}
Controlable == {i \in Plugin : factories[i].meta.controlable}
Rows == UNION {{<<i, k>> : k \in DOMAIN factories[i].meta.channels} : i \in Controlable}
Channel(row) == factories[row[1]].meta.channels[row[2]]

\* The rows are made plugin by plugin; a name may have several.
RowsNamed(name) == {r \in Rows : Channel(r).name = name}
Above(r, s) == r[1] < s[1] \/ (r[1] = s[1] /\ r[2] < s[2])
FirstRow(name) == CHOOSE r \in RowsNamed(name) : \A s \in RowsNamed(name) : s = r \/ Above(r, s)
LastRow(name) == CHOOSE r \in RowsNamed(name) : \A s \in RowsNamed(name) : s = r \/ Above(s, r)

(***************************************************************************)
(* The settings, and what the dialogs show of them.                        *)
(***************************************************************************)
MIDDLE == 0
FLOOR == 1
Unset == -1

NothingStored == [dvm_time |-> Unset, matrix |-> Unset, allow |-> FALSE,
                  channel |-> Unset, sensor |-> Unset]

Setting(value, default) == IF value = Unset THEN default ELSE value

\* combo_matrix: what is shown as the first item and as the second one.
MatrixItemsFloorFirst == <<FLOOR, MIDDLE>>
MatrixItems == <<MIDDLE, FLOOR>>

\* actives[]; the default, channel 1, is not one of them.
Actives == 2 .. 6
FirstActive == CHOOSE c \in Actives : \A d \in Actives : c <= d
ShownChannel ==
    IF Setting(stored.channel, 1) \in Actives THEN stored.channel ELSE FirstActive

\* The user leaves what is shown or chooses something else, if there is a tab.
ChosenDvmTimes == DvmTimes \union {Setting(stored.dvm_time, 4)}
ChosenItems == IF Named("Forces") = {} THEN {1} ELSE DOMAIN MatrixItems
ChosenChannels == {ShownChannel} \union (IF Named("Pressure") = {} THEN {} ELSE {6})

Accepted ==
    /\ creating = 0
    /\ dialogs < MaxDialogs
    /\ dialogs' = dialogs + 1

\* There is a tab for the plugin, otherwise its settings stay.
Kept(general, setting, chosen) ==
    IF Named(general) = {} THEN stored[setting] ELSE chosen

AcceptPreferences ==
    /\ Accepted
    /\ \E dvm_time \in ChosenDvmTimes, item \in ChosenItems, allow \in BOOLEAN,
          channel \in ChosenChannels, sensor \in {0, 1} :
         stored' = [dvm_time |-> Kept("Forces", "dvm_time", dvm_time),
                    matrix |-> Kept("Forces", "matrix", MatrixItems[item]),
                    allow |-> Kept("Forces", "allow", allow),
                    channel |-> Kept("Pressure", "channel", channel),
                    sensor |-> Kept("Temperature", "sensor", sensor)]
    /\ UNCHANGED <<factories, reference, measurement, used, creating, hardware, open,
                   threw, starts>>

(***************************************************************************)
(* The dialogs of references and measurements.                             *)
(***************************************************************************)
NoModel == [kind |-> "none"]

\* measurement_accept_config(): the enumerator is the index of the item.
Config(dvm_time, item, channel) ==
    [dvm_time |-> dvm_time, matrix |-> item - 1, channel |-> channel]

\* The spin boxes keep a value inside its range: what is shown, and its end.
Spin(c) == {c.default_start, c.upper}
StepSpin(c) == {c.smaller_step}

\* What the spin boxes of the start values show, those of all rows, when the
\* dialog is accepted.
Edited(spins) == {r \in Rows : spins[r] # Channel(r).default_start}
StartSpins ==
    {spins \in [Rows -> UNION {Spin(Channel(r)) : r \in Rows}] :
        /\ \A r \in Rows : spins[r] \in Spin(Channel(r))
        /\ Cardinality(Edited(spins)) <= MaxEdits}

\* Every row sets the starts of all channels that have its name, one row
\* after the other: the last one stays.
StartsFrom(spins, RowOf(_)) ==
    [i \in Controlable |-> [k \in DOMAIN factories[i].meta.channels |->
                              spins[RowOf(factories[i].meta.channels[k].name)]]]
StartsOfFirstRows(spins) == StartsFrom(spins, FirstRow)
Starts(spins) == StartsFrom(spins, LastRow)

AcceptReference ==
    /\ Accepted
    /\ \E dvm_time \in ChosenDvmTimes, item \in ChosenItems, channel \in ChosenChannels,
          spins \in StartSpins :
         reference' = [kind |-> "reference",
                       config |-> Config(dvm_time, item, channel),
                       shown |-> MatrixItems[item],
                       start |-> Starts(spins), spins |-> spins]
    /\ UNCHANGED <<factories, stored, measurement, used, creating, hardware, open, threw,
                   starts>>

\* ForceModel::measurement_accept_config() with the model of the reference.
MatrixAgrees(matrix) == stored.allow \/ matrix = reference.config.matrix

\* if( start > end ){ step = -step; }
Directed(start, end, step) == IF start > end THEN -step ELSE step

AcceptMeasurementWith(config, shown, spins, control) ==
    /\ Named("Forces") # {} => MatrixAgrees(config.matrix)
    /\ measurement' = [kind |-> "measurement", config |-> config, shown |-> shown,
                       start |-> Starts(spins), spins |-> spins,
                       control |-> control, allowed |-> stored.allow,
                       zeroMatrix |-> reference.config.matrix]
    /\ UNCHANGED <<factories, stored, reference, used, creating, hardware, open, threw,
                   starts>>

NoSweep == [row |-> <<>>, end |-> 0, step |-> 0]

AcceptMeasurement ==
    /\ Accepted
    /\ reference # NoModel
    /\ \E dvm_time \in ChosenDvmTimes, item \in ChosenItems, channel \in ChosenChannels,
          spins \in StartSpins :
         LET config == Config(dvm_time, item, channel)
         IN  \/ AcceptMeasurementWith(config, MatrixItems[item], spins, NoSweep)
             \/ \E row \in Rows :
                  \E end \in Spin(Channel(row)), step \in StepSpin(Channel(row)) :
                     AcceptMeasurementWith(config, MatrixItems[item], spins,
                         [row |-> row, end |-> end,
                          step |-> Directed(spins[row], end, step)])

(***************************************************************************)
(* PluginManager: the hardware of a run.                                   *)
(***************************************************************************)
Start(model) ==
    /\ creating = 0 /\ used = NoModel
    /\ model # NoModel
    /\ starts < MaxStarts
    /\ starts' = starts + 1
    /\ used' = model
    /\ creating' = 1
    /\ UNCHANGED <<factories, stored, reference, measurement, hardware, open, threw, dialogs>>

OpenBy(i, devices) == {[run |-> starts, plugin |-> i, device |-> d] : d \in devices}

\* CreateVariableHardware(), the start values, set_zero().
Hardware(i) ==
    LET meta == factories[i].meta
    IN  [general |-> meta.general,
         config |-> used.config,
         sensor |-> Setting(stored.sensor, 1),
         start |-> IF meta.controlable THEN used.start[i] ELSE <<>>,
         zeroed |-> meta.has_zero /\ used.kind = "measurement"]

Create ==
    /\ creating \in Plugin
    /\ \E devices \in factories[creating].opens :
         open' = open \union OpenBy(creating, devices)
    /\ hardware' = Append(hardware, Hardware(creating))
    /\ creating' = IF creating = Len(factories) THEN 0 ELSE creating + 1
    /\ UNCHANGED <<factories, stored, reference, measurement, used, threw, dialogs, starts>>

\* What the constructors before have opened is closed: qDeleteAll(variables).
ClosedNone == {}
Closed == {o \in open : o.run = starts}

\* Of the one that throws no destructor runs.
CreateThrows ==
    /\ creating \in Plugin
    /\ \E devices \in factories[creating].throws :
         open' = (open \ Closed) \union OpenBy(creating, devices)
    /\ threw' = threw \union {[run |-> starts, plugin |-> creating]}
    /\ hardware' = <<>>
    /\ used' = NoModel
    /\ creating' = 0
    /\ UNCHANGED <<factories, stored, reference, measurement, dialogs, starts>>

\* destroyListVariableHardware()
Destroy ==
    /\ creating = 0 /\ used # NoModel
    /\ open' = open \ Closed
    /\ hardware' = <<>>
    /\ used' = NoModel
    /\ UNCHANGED <<factories, stored, reference, measurement, creating, threw, dialogs, starts>>

\* The program is started again: the settings are what remains.
Restart ==
    /\ creating = 0
    /\ reference' = NoModel /\ measurement' = NoModel /\ used' = NoModel
    /\ hardware' = <<>> /\ open' = {} /\ threw' = {}
    /\ UNCHANGED <<factories, stored, creating, dialogs, starts>>

PluginsInit ==
    /\ factories \in Installations
    /\ stored = NothingStored
    /\ reference = NoModel /\ measurement = NoModel /\ used = NoModel
    /\ creating = 0 /\ hardware = <<>>
    /\ open = {} /\ threw = {}
    /\ dialogs = 0 /\ starts = 0

PluginsNext ==
    \/ AcceptPreferences \/ AcceptReference \/ AcceptMeasurement
    \/ Start(reference) \/ Start(measurement)
    \/ Create \/ CreateThrows \/ Destroy \/ Restart

PluginsSpec == PluginsInit /\ [][PluginsNext]_pluginVars

-----------------------------------------------------------------------------
InUse == creating = 0 /\ used # NoModel

\* The hardware of a run is that of the dialog, whatever the preferences and
\* other dialogs have become since: one for each plugin, the calibration by
\* the name that was shown, a channel of the multiplexer that exists, and,
\* unless the user allowed it, the calibration that its zero was taken with.
AsAccepted ==
    InUse =>
        /\ [i \in DOMAIN hardware |-> hardware[i].general]
             = [i \in Plugin |-> factories[i].meta.general]
        /\ \A i \in Named("Forces") :
              /\ hardware[i].config.matrix = used.shown
              /\ hardware[i].zeroed /\ ~used.allowed => used.shown = used.zeroMatrix
        /\ \A i \in Named("Pressure") : hardware[i].config.channel \in Actives

\* A run starts with what its dialog showed, and the worker sweeps what it
\* showed: channels of one name start at one value, whichever of their plugins
\* set_initial() and set_m() drive; a row that is the last of its name is obeyed;
\* and a sweep by such a row leads, by steps that are not 0, from the value that
\* the worker takes as its start (measurethread.cpp:27-34) to the end shown.
StartOf(row) == hardware[row[1]].start[row[2]]
IsLast(row) == row = LastRow(Channel(row).name)

StartsAsShown ==
    InUse =>
        /\ \A r, s \in Rows : Channel(r).name = Channel(s).name => StartOf(r) = StartOf(s)
        /\ \A r \in Rows : IsLast(r) => StartOf(r) = used.spins[r]
        /\ used.kind = "measurement" /\ used.control # NoSweep /\ IsLast(used.control.row) =>
              LET row == used.control.row
              IN  /\ {StartOf(row), used.control.end}
                        \subseteq Channel(row).lower .. Channel(row).upper
                  /\ IF StartOf(row) <= used.control.end THEN used.control.step > 0
                     ELSE used.control.step < 0

\* When no run is on, the only devices that are open are those of the
\* constructors that threw.
OnlyThrownOpen ==
    creating = 0 /\ used = NoModel =>
        \A o \in open : [run |-> o.run, plugin |-> o.plugin] \in threw
=============================================================================
