-------------------------------- MODULE Project -------------------------------
(***************************************************************************)
(* The contents of a project: the references and measurements with their   *)
(* settings, zeros and tables (ReferenceModel, MeasurementsModel, Data),   *)
(* how the dialogs and the samples fill them, the XML they are saved to    *)
(* and loaded from, and the averages of the CSV export and of the plots.   *)
(* When a run may start or end, and what is deleted under it, is the       *)
(* subject of AeroISTWindow; here one run at a time sends samples.         *)
(*                                                                         *)
(* An XML element is the record of what it contains, by tag; a number is a *)
(* multiple of a small unit, and its text keeps some digits of it.         *)
(***************************************************************************)
EXTENDS Integers, SequencesExt

CONSTANTS
    Columns,          \* names of the variables of all plugins
    First,            \* the first column of the first plugin
    ZeroColumns,      \* those of the plugin with has_zero(), Force
    Confs, ReferenceConfs,   \* settings that the two dialogs may leave
    Samples(_),       \* samples that the worker may send as the n-th row
    Raw(_),           \* the raw value of a value
    MATRIX_ALLOW,     \* different matrices are allowed (a preference)
    Digit10, Digit15, \* what the 10th and the 15th digit of a number weigh
    Second,           \* how many units of settling_time are a second
    NaN,
    MaxReferences, MaxMeasurements, MaxReferenceRows, MaxRows  \* bounds of the model

ReferenceConf(matrix, n, start) ==
    [matrix |-> matrix, measures_per_iteration |-> n, start |-> start]
Conf(matrix, n, start, settling, end, step, control, iterations) ==
    [matrix |-> matrix, measures_per_iteration |-> n, start |-> start,
     settling_time |-> settling, end |-> end, step |-> step, control |-> control,
     iterations |-> iterations]

ASSUME ProjectAssumption ==
    /\ First \in Columns
    /\ ZeroColumns \subseteq Columns
    /\ MaxRows \in Nat /\ MaxReferenceRows \in 0 .. MaxRows
    /\ \A n \in 1 .. MaxRows : \A s \in Samples(n) :
          s \in [Columns -> Int] /\ \A c \in Columns : Raw(s[c]) \in Int
    /\ \A c \in Confs \cup ReferenceConfs : c.measures_per_iteration \in Nat \ {0}
    /\ \A c \in ReferenceConfs :
          c = ReferenceConf(c.matrix, c.measures_per_iteration, c.start)
    /\ \A c \in Confs :
          /\ c = Conf(c.matrix, c.measures_per_iteration, c.start, c.settling_time,
                      c.end, c.step, c.control, c.iterations)
          /\ c.settling_time \in Int
    /\ {Digit10, Digit15, Second} \subseteq Nat \ {0}
    /\ NaN \notin Int

VARIABLES
    references, measurements,     \* reference_list, measure_list
    running,          \* whose samples arrive
    file,             \* the last saved project: its elements, in order, by tag
    saved, taken      \* the lists when it was saved; for each measurement, its
                      \* reference when it was taken: name, matrix, averages
                      \* (history)

projectVars == <<references, measurements, running, file, saved, taken>>

-----------------------------------------------------------------------------
(* Tables: Data, rowCount(), GetMeasure()                                  *)

EmptyTable == [c \in Columns |-> <<>>]
RowCount(m) == Len(m.data[First])
RowIndices(m) == 1 .. RowCount(m)

AppendRow(table, row) == [c \in Columns |-> Append(table[c], row[c])]

GetMeasureWithoutRaw(m, s) == [m EXCEPT !.data = AppendRow(@, s)]
GetMeasure(m, s) ==
    [m EXCEPT !.data = AppendRow(@, s),
              !.raw = AppendRow(@, [c \in Columns |-> Raw(s[c])])]

\* The loops over the values of a group: their sum, the least, the greatest
Loop(s) ==
    LET upTo[i \in 0 .. Len(s)] ==
            IF i = 0 THEN [sum |-> 0, min |-> s[1], max |-> s[1]]
            ELSE [sum |-> upTo[i - 1].sum + s[i],
                  min |-> IF s[i] < upTo[i - 1].min THEN s[i] ELSE upTo[i - 1].min,
                  max |-> IF s[i] > upTo[i - 1].max THEN s[i] ELSE upTo[i - 1].max]
    IN  upTo[Len(s)]

\* The average of a column, 0 / 0 when there is none
Average(s) == IF s = <<>> THEN NaN ELSE Loop(s).sum \div Len(s)

-----------------------------------------------------------------------------
(* Averages of the groups: save_avg_csv() and CurveNew::accept()           *)

\* for (row = 0; row < rows - rows%N; row += N)
GroupStarts(rows, n) == {r \in 0 .. rows - 1 : r % n = 0 /\ r < rows - (rows % n)}

\* data(): 0 for a row that does not exist
Cell(m, c, r) == IF r \in RowIndices(m) THEN m.data[c][r] ELSE 0

AvgCsvOfFirst(m) ==
    LET N == m.conf.measures_per_iteration
    IN  [r \in GroupStarts(RowCount(m), N) |->
          [c \in Columns |-> Average([i \in 1 .. N |-> Cell(m, c, i)])]]
save_avg_csv(m) ==
    LET N == m.conf.measures_per_iteration
    IN  [r \in GroupStarts(RowCount(m), N) |->
          [c \in Columns |-> Average([i \in 1 .. N |-> Cell(m, c, r + i)])]]

\* A curve of one column: the average and the interval of each group
curve(m, c) ==
    LET N == m.conf.measures_per_iteration
        Group(r) == [i \in 1 .. N |-> m.data[c][r + i]]
    IN  [r \in GroupStarts(RowCount(m), N) |->
          [avg |-> Average(Group(r)), min |-> Loop(Group(r)).min,
           max |-> Loop(Group(r)).max]]

-----------------------------------------------------------------------------
(* Numbers as text                                                         *)

Rounded(x, digit) == digit * ((2 * x + digit) \div (2 * digit))
\* QString::number() and QVariant::toString()
Number(x, digit) == IF x = NaN THEN NaN ELSE Rounded(x, digit)
\* QString::toInt(): 0 for the text of a number that is not whole
toInt(x) == IF x % Second = 0 THEN x ELSE 0

-----------------------------------------------------------------------------
(* ReferenceModel: save_xml() and load_xml()                               *)

\* One item per row, the columns of S in each
Items(m, table, S) ==
    [r \in RowIndices(m) |-> [c \in S |-> Number(table[c][r], Digit15)]]

SaveReference(ref) ==
    [name |-> ref.name, options |-> ref.conf.matrix,
     measures_per_iteration |-> ref.conf.measures_per_iteration,
     start_values |-> ref.conf.start,
     data |-> Items(ref, ref.data, ZeroColumns),
     raw_data |-> Items(ref, ref.raw, ZeroColumns)]

NewReferenceModel ==
    [name |-> NaN, conf |-> ReferenceConf(NaN, NaN, NaN),
     data |-> EmptyTable, raw |-> EmptyTable]

\* A row is inserted for each item; the columns that the item does not have
\* stay 0, and so do the raw values.
InsertItems(m, items) ==
    [m EXCEPT !.data = [c \in Columns |-> [r \in DOMAIN items |->
                          IF c \in DOMAIN items[r] THEN items[r][c] ELSE 0]],
              !.raw = [c \in Columns |-> [r \in DOMAIN items |-> 0]]]

SetRawInData(m, items) ==
    [m EXCEPT !.data = [c \in Columns |-> [r \in RowIndices(m) |->
        IF r \in DOMAIN items /\ c \in DOMAIN items[r] THEN items[r][c]
        ELSE @[c][r]]]]
\* The rows of raw_data are those that data has inserted.
SetRawItems(m, items) ==
    [m EXCEPT !.raw = [c \in Columns |-> [r \in RowIndices(m) |->
        IF r \in DOMAIN items /\ c \in DOMAIN items[r] THEN items[r][c]
        ELSE @[c][r]]]]

LoadTables(m, e) == SetRawItems(InsertItems(m, e.data), e.raw_data)

LoadReference(e) ==
    LoadTables([NewReferenceModel EXCEPT
                  !.name = e.name,
                  !.conf = ReferenceConf(e.options, e.measures_per_iteration,
                                         e.start_values)], e)

-----------------------------------------------------------------------------
(* MeasurementsModel: save_xml() and load_xml()                            *)

ZeroText(m) == [c \in ZeroColumns |-> Number(m.zero[c], Digit10)]

SaveMeasurement(m) ==
    [name |-> m.name, options |-> m.conf.matrix,
     measures_per_iteration |-> m.conf.measures_per_iteration,
     settling_time |-> m.conf.settling_time, end |-> m.conf.end,
     step |-> m.conf.step, start_values |-> m.conf.start,
     control_type |-> m.conf.control, iterations |-> m.conf.iterations,
     data_reference |-> [reference_name |-> m.ref_name, item |-> ZeroText(m)],
     data |-> Items(m, m.data, Columns), raw_data |-> Items(m, m.raw, Columns)]

NewMeasurementModel ==
    [name |-> NaN, ref_name |-> NaN, zero |-> [c \in ZeroColumns |-> 0],
     conf |-> Conf(NaN, NaN, NaN, 0, 0, 0, NaN, 0),
     data |-> EmptyTable, raw |-> EmptyTable]

LoadMeasurement(e) ==
    LoadTables([NewMeasurementModel EXCEPT
                  !.name = e.name,
                  !.ref_name = e.data_reference.reference_name,
                  !.zero = e.data_reference.item,
                  !.conf = Conf(e.options, e.measures_per_iteration, e.start_values,
                                toInt(e.settling_time), e.end, e.step,
                                e.control_type, e.iterations)], e)

(* The lists: save_xml() and load_xml() by elementsByTagName               *)

SaveLists(refs, measures) ==
    [reference |-> [i \in DOMAIN refs |-> SaveReference(refs[i])],
     measurement |-> [i \in DOMAIN measures |-> SaveMeasurement(measures[i])]]

LoadedReferences ==
    [i \in DOMAIN file.reference |-> LoadReference(file.reference[i])]
LoadedMeasurements ==
    [i \in DOMAIN file.measurement |-> LoadMeasurement(file.measurement[i])]

-----------------------------------------------------------------------------
(* Actions                                                                 *)

Nothing == <<"nothing", 0>>

\* ReferencePreferences::accept(); its run starts at once
NewReference ==
    /\ running = Nothing
    /\ Len(references) < MaxReferences
    /\ \E c \in ReferenceConfs :
          references' = Append(references,
             [NewReferenceModel EXCEPT !.name = "name", !.conf = c])
    /\ running' = <<"reference", Len(references')>>
    /\ UNCHANGED <<measurements, file, saved, taken>>

\* "The reference matrix and the measurement matrix are different."
MatrixUnchecked(c, ref) == TRUE
MatrixAccepted(c, ref) == MATRIX_ALLOW \/ c.matrix = ref.conf.matrix

\* MeasurementsPreferences::accept(): the zero is the average of the rows that
\* the reference has by now.
NewMeasurement ==
    /\ Len(measurements) < MaxMeasurements
    /\ \E i \in DOMAIN references, c \in Confs :
          LET ref == references[i]
              zero == [z \in ZeroColumns |-> Average(ref.data[z])]
          IN
          /\ MatrixAccepted(c, ref)
          /\ measurements' = Append(measurements,
                [NewMeasurementModel EXCEPT
                   !.name = "name", !.ref_name = ref.name, !.conf = c,
                   !.zero = zero])
          /\ taken' = Append(taken,
                [name |-> ref.name, matrix |-> ref.conf.matrix, zero |-> zero])
    /\ UNCHANGED <<references, running, file, saved>>

StartMeasurement ==
    /\ running = Nothing
    /\ \E i \in DOMAIN measurements :
          /\ RowCount(measurements[i]) = 0
          /\ running' = <<"measurement", i>>
    /\ UNCHANGED <<references, measurements, file, saved, taken>>

EndRun ==
    /\ running # Nothing
    /\ running' = Nothing
    /\ UNCHANGED <<references, measurements, file, saved, taken>>

ReferenceSample ==
    /\ running[1] = "reference"
    /\ RowCount(references[running[2]]) < MaxReferenceRows
    /\ \E s \in Samples(RowCount(references[running[2]]) + 1) :
          references' = [references EXCEPT ![running[2]] = GetMeasure(@, s)]
    /\ UNCHANGED <<measurements, running, file, saved, taken>>

MeasurementSample ==
    /\ running[1] = "measurement"
    /\ RowCount(measurements[running[2]]) < MaxRows
    /\ \E s \in Samples(RowCount(measurements[running[2]]) + 1) :
          measurements' = [measurements EXCEPT ![running[2]] = GetMeasure(@, s)]
    /\ UNCHANGED <<references, running, file, saved, taken>>

\* Where the running model is after the one at i of its list is gone
RunningAfter(kind, i) ==
    IF running[1] = kind /\ running[2] > i THEN <<kind, running[2] - 1>> ELSE running

DeleteReference ==
    /\ \E i \in DOMAIN references :
          /\ running # <<"reference", i>>
          /\ references' = RemoveAt(references, i)
          /\ running' = RunningAfter("reference", i)
    /\ UNCHANGED <<measurements, file, saved, taken>>

DeleteMeasurement ==
    /\ \E i \in DOMAIN measurements :
          /\ running # <<"measurement", i>>
          /\ measurements' = RemoveAt(measurements, i)
          /\ taken' = RemoveAt(taken, i)
          /\ running' = RunningAfter("measurement", i)
    /\ UNCHANGED <<references, file, saved>>

Save ==
    /\ file' = SaveLists(references, measurements)
    /\ saved' = [references |-> references, measurements |-> measurements, taken |-> taken]
    /\ UNCHANGED <<references, measurements, running, taken>>

\* Clear Project; also Load Project when no file is chosen or it cannot be read
Clear ==
    /\ references' = <<>>
    /\ measurements' = <<>>
    /\ taken' = <<>>
    /\ running' = Nothing
    /\ UNCHANGED <<file, saved>>

\* Load Project: clears, then reads the file
Load ==
    /\ references' = LoadedReferences
    /\ measurements' = LoadedMeasurements
    /\ taken' = saved.taken
    /\ running' = Nothing
    /\ UNCHANGED <<file, saved>>

ProjectInit ==
    /\ references = <<>> /\ measurements = <<>> /\ taken = <<>>
    /\ running = Nothing
    /\ file = SaveLists(<<>>, <<>>)
    /\ saved = [references |-> <<>>, measurements |-> <<>>, taken |-> <<>>]

ProjectNext ==
    \/ NewReference \/ NewMeasurement \/ StartMeasurement \/ EndRun
    \/ ReferenceSample \/ MeasurementSample
    \/ DeleteReference \/ DeleteMeasurement
    \/ Save \/ Clear \/ Load

ProjectSpec == ProjectInit /\ [][ProjectNext]_projectVars

-----------------------------------------------------------------------------
(* Properties                                                              *)

Models == ToSet(references) \cup ToSet(measurements)

\* Every table has as many values as raw values in every column, so that
\* rowCount(), which looks at the first column only, speaks for all of them:
\* samples, loaded rows and deleted models keep it so.
Rectangular ==
    /\ \A m \in Models : \A c \in Columns :
          Len(m.data[c]) = RowCount(m) /\ Len(m.raw[c]) = RowCount(m)
    /\ running # Nothing =>
          running[2] \in DOMAIN (IF running[1] = "reference" THEN references ELSE measurements)

Close(x, y, digit) == x = y \/ (NaN \notin {x, y} /\ x - y \in -digit .. digit)

SameTable(t, u, S) ==
    \A c \in S : /\ Len(t[c]) = Len(u[c])
                 /\ \A r \in DOMAIN t[c] : Close(t[c][r], u[c][r], Digit15)

SameReference(x, y) ==
    /\ <<x.name, x.conf>> = <<y.name, y.conf>>
    /\ SameTable(x.data, y.data, ZeroColumns)
    /\ SameTable(x.raw, y.raw, ZeroColumns)

SameMeasurement(x, y) ==
    /\ <<x.name, x.ref_name>> = <<y.name, y.ref_name>>
    /\ [x.conf EXCEPT !.settling_time = 0] = [y.conf EXCEPT !.settling_time = 0]
    /\ \A c \in ZeroColumns : Close(x.zero[c], y.zero[c], Digit10)
    /\ SameTable(x.data, y.data, Columns)
    /\ SameTable(x.raw, y.raw, Columns)

Pairwise(s, t, Same(_, _)) ==
    Len(s) = Len(t) /\ \A i \in DOMAIN s : Same(s[i], t[i])

\* What is read back from a file is what was in the project when it was saved,
\* in its order, up to the digits of the text: the settings but for the
\* settling time, the zeros, the tables that the models show.
RoundTrip ==
    /\ Pairwise(LoadedReferences, saved.references, SameReference)
    /\ Pairwise(LoadedMeasurements, saved.measurements, SameMeasurement)

\* The tables survive everything that is done to them: every column is as long
\* as the others, and a file gives back what was saved.
TablesKept == Rectangular /\ RoundTrip

\* The zero of a measurement is the average of the rows that its reference had
\* when it was taken, also after the reference got more rows, was deleted, and
\* after any number of saves and loads; and both have the same matrix.
ZeroOfReference ==
    /\ Len(taken) = Len(measurements)
    /\ \A i \in DOMAIN measurements :
          /\ measurements[i].ref_name = taken[i].name
          /\ MATRIX_ALLOW \/ measurements[i].conf.matrix = taken[i].matrix
          /\ \A z \in ZeroColumns :
                Close(measurements[i].zero[z], taken[i].zero[z], Digit10)

\* The averages of the CSV export and of a curve agree, lie inside their
\* interval, and there is one for each whole group of samples.
AveragesAgree ==
    \A m \in ToSet(measurements) : \A c \in Columns :
        LET csv == save_avg_csv(m)
            cur == curve(m, c)
        IN  /\ DOMAIN csv = DOMAIN cur
            /\ Cardinality(DOMAIN csv) = RowCount(m) \div m.conf.measures_per_iteration
            /\ \A r \in DOMAIN csv : /\ csv[r][c] = cur[r].avg
                                     /\ cur[r].avg \in cur[r].min .. cur[r].max
=============================================================================
