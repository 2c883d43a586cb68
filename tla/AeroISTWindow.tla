---------------------------- MODULE AeroISTWindow ----------------------------
(***************************************************************************)
(* The main window of AeroIST (src/aeroist/aeroistwindow.cpp) with the     *)
(* worker of MeasureThread.tla: starting, stopping and cleaning up runs,   *)
(* the lists of measurements and references, the project file, and closing.*)
(*                                                                         *)
(* The GUI thread is one event loop.  A handler is one action, except that *)
(* every dialog it opens with exec() runs a nested event loop: there the   *)
(* handler is cut in two, the rest of it is a frame pushed on "modal", and *)
(* what the worker has posted is processed in between.  The user reaches   *)
(* the top dialog only.                                                    *)
(***************************************************************************)
EXTENDS MeasureThread

CONSTANTS
    Measures,     \* addresses a MeasurementsModel may get
    References,   \* addresses a ReferenceModel may get
    RefConfs,     \* settings of references: one iteration, no control
    NULL,
    MaxRows       \* bound on the rows of a model read from a file

ASSUME WindowAssumption ==
    /\ RefConfs \subseteq Confs
    /\ \A c \in RefConfs : c.control = NoControl /\ c.iterations = 1
    /\ NULL \notin Measures \union References
    /\ Measures \intersect References = {}
    /\ MaxRows \in Nat

VARIABLES
    thread_status,
    m_test,             \* "null", "live", or "dangling": deleted, not nulled
    m_thread,           \* "null" or "live"
    measures,           \* measure_list
    refs,               \* reference_list
    selected,           \* current index of listView
    settings,           \* what the dialog left in each model
    rows,               \* rowCount of each model
    measurementThread,  \* measurement last given to ThreadButton
    referenceThread,    \* reference last created
    sink,               \* model that MeasureDone is connected to
    modal,              \* the open dialogs, innermost last
    modified,           \* isWindowModified()
    stale,              \* the project differs from its file (history)
    project_filename,   \* "" or "chosen"
    app                 \* "running", "closed" or "crashed"

threadVars  == <<thread_status, m_test, m_thread>>
listVars    == <<measures, refs, selected, settings, rows>>
runVars     == <<measurementThread, referenceThread, sink>>
projectVars == <<modified, stale, project_filename>>
windowVars  == <<threadVars, listVars, runVars, modal, projectVars, app>>
vars        == <<workerVars, windowVars>>

-----------------------------------------------------------------------------
Models == Measures \union References

Frames == {"message", "openError", "readyError", "refOpenError",
           "refReadyError", "newMeasure", "newReference", "saveFile",
           "loadConfirm", "loadFile", "unconfirmed", "closeRunning",
           "closeModified"}

Open(f) == modal' = Append(modal, f)
Top     == modal[Len(modal)]
Below   == SubSeq(modal, 1, Len(modal) - 1)
Close   == modal' = Below

\* The user can act on the main window, or on the dialog f.
AtWindow == app = "running" /\ modal = << >>
At(f)    == app = "running" /\ modal # << >> /\ Top = f

TouchUnmarked == stale' = TRUE /\ UNCHANGED <<modified, project_filename>>
Touch == modified' = TRUE /\ stale' = TRUE /\ UNCHANGED project_filename

\* A deleted model takes its connections with it: the samples still queued
\* for it, or emitted later, reach nobody.
DisconnectNot(S) == UNCHANGED sink
Disconnect(S) == sink' = IF sink \in S THEN NULL ELSE sink

\* delete m_test of a handler that gives up starting a run
DeleteNothing == UNCHANGED <<app, m_test, workerVars>>
DeleteUnstarted ==
    /\ app' = IF m_test = "dangling" THEN "crashed" ELSE app
    /\ m_test' = IF m_test = "live" THEN "dangling" ELSE m_test
    /\ IF m_test = "live" THEN Destroy ELSE UNCHANGED workerVars

-----------------------------------------------------------------------------
(* ThreadButton: start and stop                                            *)

\* "Thread busy"
ThreadBusy ==
    /\ AtWindow
    /\ selected # NULL
    /\ thread_status = "REFERENCE_RUNNING"
    /\ Open("message")
    /\ UNCHANGED <<workerVars, threadVars, listVars, runVars, projectVars, app>>

\* The handler returns at (m_thread && m_test); the same click is connected
\* to m_test's slot stop().
StopClicked ==
    /\ AtWindow
    /\ selected # NULL
    /\ thread_status = "MEASURE_RUNNING"
    /\ m_thread = "live" /\ m_test # "null"
    /\ Len(inbox) < MaxInbox
    /\ Post([slot |-> "stop"])
    /\ UNCHANGED windowVars

\* rowCount() == 0, the condition of starting
AnyMeasure == TRUE
EmptyMeasure == rows[selected] = 0

StartingAgain == AtWindow /\ selected # NULL
Starting ==
    /\ AtWindow
    /\ selected # NULL
    /\ thread_status = "STOPPED"
    /\ m_thread = "null" \/ m_test = "null"

\* "Measure is not empty"
StartRefused ==
    /\ Starting
    /\ ~EmptyMeasure
    /\ measurementThread' = selected
    /\ Open("message")
    /\ UNCHANGED <<workerVars, threadVars, listVars, referenceThread, sink,
                   projectVars, app>>

\* The constructor throws: m_test keeps its old value.
StartFails ==
    /\ Starting
    /\ EmptyMeasure
    /\ measurementThread' = selected
    /\ ConstructFails
    /\ Open("openError")
    /\ UNCHANGED <<threadVars, listVars, referenceThread, sink, projectVars, app>>

StartNotReady ==
    /\ Starting
    /\ EmptyMeasure
    /\ measurementThread' = selected
    /\ Construct(settings[selected])
    /\ m_test' = "live"
    /\ Open("readyError")
    /\ UNCHANGED <<thread_status, m_thread, listVars, referenceThread, sink,
                   projectVars, app>>

StartMeasure ==
    /\ Starting
    /\ EmptyMeasure
    /\ measurementThread' = selected
    /\ ConstructAt(settings[selected], "started")
    /\ m_test' = "live"
    /\ m_thread' = "live"
    /\ sink' = selected
    /\ thread_status' = "MEASURE_RUNNING"
    /\ UNCHANGED <<listVars, referenceThread, modal, projectVars, app>>

OpenErrorClosed ==
    /\ At("openError") \/ At("readyError")
    /\ Close
    /\ DeleteUnstarted
    /\ UNCHANGED <<thread_status, m_thread, listVars, runVars, projectVars>>

ThreadButton == \/ ThreadBusy \/ StopClicked \/ StartRefused \/ StartFails
                \/ StartNotReady \/ StartMeasure \/ OpenErrorClosed

\* enabled while a run without control is under way
ManualButtonClicked ==
    /\ AtWindow
    /\ thread_status = "MEASURE_RUNNING"
    /\ conf.control = NoControl
    /\ Len(inbox) < MaxInbox
    /\ \E h \in Values : Post([slot |-> "manual_control", hash |-> h])
    /\ UNCHANGED windowVars

-----------------------------------------------------------------------------
(* Events posted by the worker.  They are processed in any event loop, the *)
(* nested ones included.                                                   *)

Take(t) == /\ app = "running"
           /\ outbox # << >>
           /\ Head(outbox).type = t
           /\ outbox' = Tail(outbox)

workerButOutbox == <<pc, conf, current, k, l, m_stop, man_control, man_hash,
                     progress, setpoint, inbox, emitted, outcome>>

\* MeasureDone: GetMeasure of the connected model appends a row.  Of an
\* endless run the model here only keeps that its table is not empty.
Receives(a) == a = sink

GetMeasure ==
    /\ Take("MeasureDone")
    /\ rows' = [a \in Models |-> IF ~Receives(a) THEN rows[a]
                                 ELSE IF Endless THEN 1 ELSE rows[a] + 1]
    /\ stale' = (stale \/ sink # NULL)
    /\ UNCHANGED <<workerButOutbox, threadVars, measures, refs, selected,
                   settings, runVars, modal, modified, project_filename, app>>

\* newData: setWindowModified(true)
NewData ==
    /\ Take("newData")
    /\ modified' = TRUE
    /\ UNCHANGED <<workerButOutbox, threadVars, listVars, runVars, modal,
                   stale, project_filename, app>>

\* message: a box with its own event loop
Message ==
    /\ Take("message")
    /\ Open("message")
    /\ UNCHANGED <<workerButOutbox, threadVars, listVars, runVars, projectVars,
                   app>>

\* finished: ThreadButton_cleanup or ReferenceButton_cleanup, then cleanup()
Cleanup ==
    /\ Take("finished")
    /\ thread_status # "STOPPED"
    /\ thread_status' = "STOPPED"
    /\ m_test' = "null"
    /\ m_thread' = "null"
    /\ sink' = NULL
    /\ Delete
    /\ UNCHANGED <<listVars, measurementThread, referenceThread, modal,
                   projectVars, app>>

PostedEvents == GetMeasure \/ NewData \/ Message \/ Cleanup

MessageClosed ==
    /\ At("message")
    /\ Close
    /\ UNCHANGED <<workerVars, threadVars, listVars, runVars, projectVars, app>>

-----------------------------------------------------------------------------
(* The lists of measurements and references                                *)

Select ==
    /\ AtWindow
    /\ selected' \in measures
    /\ UNCHANGED <<workerVars, threadVars, measures, refs, settings, rows,
                   runVars, modal, projectVars, app>>

NewMeasure ==
    /\ AtWindow
    /\ Open("newMeasure")
    /\ UNCHANGED <<workerVars, threadVars, listVars, runVars, projectVars, app>>

NewMeasureRejected ==
    /\ At("newMeasure")
    /\ Close
    /\ UNCHANGED <<workerVars, threadVars, listVars, runVars, projectVars, app>>

\* accept() closes the dialog only when there is a reference
NewMeasureAccepted ==
    /\ At("newMeasure")
    /\ refs # {}
    /\ \E a \in Measures \ measures, c \in Confs :
          /\ measures' = measures \union {a}
          /\ selected' = a
          /\ settings' = [settings EXCEPT ![a] = c]
    /\ Touch
    /\ Close
    /\ UNCHANGED <<workerVars, threadVars, refs, rows, runVars, app>>

\* "Measuring is being done. Stop it to delete."
DeleteMeasureRefused ==
    /\ AtWindow
    /\ selected # NULL
    /\ selected = measurementThread /\ thread_status = "MEASURE_RUNNING"
    /\ Open("message")
    /\ UNCHANGED <<workerVars, threadVars, listVars, runVars, projectVars, app>>

\* The view moves the current index to a neighbour.
NoNeighbour(M) == {NULL}
Neighbour(M) == IF M = {} THEN {NULL} ELSE M

\* The rows of a deleted
\* model are forgotten: a new model at the same address starts empty.
DeleteMeasure ==
    /\ AtWindow
    /\ selected # NULL
    /\ ~(selected = measurementThread /\ thread_status = "MEASURE_RUNNING")
    /\ measures' = measures \ {selected}
    /\ selected' \in Neighbour(measures')
    /\ rows' = [rows EXCEPT ![selected] = 0]
    /\ Disconnect({selected})
    /\ Touch
    /\ UNCHANGED <<workerVars, threadVars, refs, settings, measurementThread,
                   referenceThread, modal, app>>

DeleteReferenceRefused ==
    /\ AtWindow
    /\ referenceThread \in refs /\ thread_status = "REFERENCE_RUNNING"
    /\ Open("message")
    /\ UNCHANGED <<workerVars, threadVars, listVars, runVars, projectVars, app>>

DeleteReference ==
    /\ AtWindow
    /\ \E a \in refs :
          /\ ~(a = referenceThread /\ thread_status = "REFERENCE_RUNNING")
          /\ refs' = refs \ {a}
          /\ rows' = [rows EXCEPT ![a] = 0]
          /\ Disconnect({a})
    /\ Touch
    /\ UNCHANGED <<workerVars, threadVars, measures, selected, settings,
                   measurementThread, referenceThread, modal, app>>

Lists == \/ Select \/ NewMeasure \/ NewMeasureRejected \/ NewMeasureAccepted
         \/ DeleteMeasureRefused \/ DeleteMeasure
         \/ DeleteReferenceRefused \/ DeleteReference

-----------------------------------------------------------------------------
(* New reference: the dialog, and the run it starts                        *)

NewReferenceBusy ==
    /\ AtWindow
    /\ m_thread = "live" /\ m_test # "null"
    /\ Open("message")
    /\ UNCHANGED <<workerVars, threadVars, listVars, runVars, projectVars, app>>

NewReference ==
    /\ AtWindow
    /\ m_thread = "null" \/ m_test = "null"
    /\ thread_status = "STOPPED"
    /\ referenceThread' \in References \ refs
    /\ Open("newReference")
    /\ UNCHANGED <<workerVars, threadVars, listVars, measurementThread, sink,
                   projectVars, app>>

NewReferenceRejected ==
    /\ At("newReference")
    /\ Close
    /\ UNCHANGED <<workerVars, threadVars, listVars, runVars, projectVars, app>>

AddReference(c) ==
    /\ At("newReference")
    /\ refs' = refs \union {referenceThread}
    /\ settings' = [settings EXCEPT ![referenceThread] = c]
    /\ UNCHANGED <<measures, selected, rows>>

ReferenceFails ==
    /\ \E c \in RefConfs : AddReference(c)
    /\ ConstructFails
    /\ modal' = Append(Below, "refOpenError")
    /\ UNCHANGED <<threadVars, runVars, projectVars, app>>

ReferenceNotReady ==
    /\ \E c \in RefConfs : AddReference(c) /\ Construct(c)
    /\ m_test' = "live"
    /\ modal' = Append(Below, "refReadyError")
    /\ UNCHANGED <<thread_status, m_thread, runVars, projectVars, app>>

StartReference ==
    /\ \E c \in RefConfs : AddReference(c) /\ ConstructAt(c, "started")
    /\ m_test' = "live"
    /\ m_thread' = "live"
    /\ sink' = referenceThread
    /\ thread_status' = "REFERENCE_RUNNING"
    /\ Touch
    /\ Close
    /\ UNCHANGED <<measurementThread, referenceThread, app>>

\* reference_list->deleteMeasure(index); delete m_test
ReferenceErrorClosed ==
    /\ At("refOpenError") \/ At("refReadyError")
    /\ refs' = refs \ {referenceThread}
    /\ Close
    /\ DeleteUnstarted
    /\ UNCHANGED <<thread_status, m_thread, measures, selected, settings, rows,
                   runVars, projectVars>>

ReferenceActions ==
    \/ NewReferenceBusy \/ NewReference \/ NewReferenceRejected
    \/ ReferenceFails \/ ReferenceNotReady \/ StartReference
    \/ ReferenceErrorClosed

-----------------------------------------------------------------------------
(* The project: clear, save, load                                          *)

\* measure_list->clear(); reference_list->clear(): whatever is running
ClearLists ==
    /\ measures' = {}
    /\ refs' = {}
    /\ selected' = NULL
    /\ rows' = [a \in Models |-> 0]
    /\ Disconnect(Models)
    /\ Touch
    /\ UNCHANGED <<settings, measurementThread, referenceThread>>

ClearProject ==
    /\ AtWindow
    /\ ClearLists
    /\ UNCHANGED <<workerVars, threadVars, modal, app>>

\* save_xml: the flag is reset only if the file could be opened
WriteProject ==
    \/ modified' = FALSE /\ stale' = FALSE
    \/ UNCHANGED <<modified, stale>>

SaveProject ==
    /\ AtWindow
    /\ project_filename # ""
    /\ WriteProject
    /\ UNCHANGED <<workerVars, threadVars, listVars, runVars, modal,
                   project_filename, app>>

\* Save without a file name, and Save as
AskFileName ==
    /\ AtWindow
    /\ Open("saveFile")
    /\ UNCHANGED <<workerVars, threadVars, listVars, runVars, projectVars, app>>

\* A cancelled dialog returns "": save_xml then writes to ".xml".
FileNameGiven ==
    /\ At("saveFile")
    /\ project_filename' \in {"", "chosen"}
    /\ WriteProject
    /\ Close
    /\ UNCHANGED <<workerVars, threadVars, listVars, runVars, app>>

\* A modified project is replaced only after a question.
LoadAsked ==
    /\ AtWindow
    /\ modified
    /\ Open("loadConfirm")
    /\ UNCHANGED <<workerVars, threadVars, listVars, runVars, projectVars, app>>

LoadDeclined ==
    /\ At("loadConfirm") \/ At("loadFile")
    /\ Close
    /\ UNCHANGED <<workerVars, threadVars, listVars, runVars, projectVars, app>>

\* The project is cleared before the file is chosen.
LoadCleared ==
    /\ \/ AtWindow /\ ~modified /\ Open("loadFile")
       \/ At("loadConfirm") /\ modal' = Append(Below, "loadFile")
    /\ ClearLists
    /\ UNCHANGED <<workerVars, threadVars, app>>

\* No such file, no valid schema; or a file that the schema does not accept
LoadComplains ==
    /\ At("loadFile")
    /\ \E f \in {"message", "unconfirmed"} : modal' = Append(Below, f)
    /\ UNCHANGED <<workerVars, threadVars, listVars, runVars, projectVars, app>>

\* The models of a file share their settings and their number of rows here.
LoadXml ==
    /\ At("loadFile") \/ At("unconfirmed")
    /\ \E M \in SUBSET (Measures \ measures), R \in SUBSET (References \ refs),
          c \in Confs, r \in RefConfs, n \in 0 .. MaxRows :
          /\ measures' = measures \union M
          /\ refs' = refs \union R
          /\ settings' = [a \in Models |-> IF a \in M THEN c
                                           ELSE IF a \in R THEN r
                                           ELSE settings[a]]
          /\ rows' = [a \in Models |-> IF a \in M \union R THEN n ELSE rows[a]]
    /\ modified' = FALSE
    /\ stale' = FALSE
    /\ project_filename' = "chosen"
    /\ Close
    /\ UNCHANGED <<workerVars, threadVars, selected, runVars, app>>

Project == \/ ClearProject \/ SaveProject \/ AskFileName \/ FileNameGiven
           \/ LoadAsked \/ LoadDeclined \/ LoadCleared \/ LoadComplains
           \/ LoadXml

-----------------------------------------------------------------------------
(* closeEvent: at most two questions, the second about unsaved data        *)

Quit == app' = "closed" /\ modal' = << >>

\* The second question, over the frames in fs, or none
LeaveOrAsk(fs) == IF modified THEN modal' = Append(fs, "closeModified") /\ UNCHANGED app
                  ELSE Quit

CloseEvent ==
    /\ \/ AtWindow /\ thread_status # "STOPPED" /\ Open("closeRunning") /\ UNCHANGED app
       \/ AtWindow /\ thread_status = "STOPPED" /\ LeaveOrAsk(modal)
       \/ At("closeRunning") /\ LeaveOrAsk(Below)
       \/ At("closeModified") /\ Quit
       \/ (At("closeRunning") \/ At("closeModified")) /\ Close /\ UNCHANGED app
    /\ UNCHANGED <<workerVars, threadVars, listVars, runVars, projectVars>>

WorkerStep == app = "running" /\ Worker /\ UNCHANGED windowVars

\* The process has exited or been aborted.
Exited == app # "running" /\ UNCHANGED vars

WindowInit ==
    /\ Init
    /\ thread_status = "STOPPED"
    /\ m_test = "null"
    /\ m_thread = "null"
    /\ measures = {}
    /\ refs = {}
    /\ selected = NULL
    /\ settings = [a \in Models |-> conf]
    /\ rows = [a \in Models |-> 0]
    /\ measurementThread = NULL
    /\ referenceThread = NULL
    /\ sink = NULL
    /\ modal = << >>
    /\ modified = FALSE
    /\ stale = FALSE
    /\ project_filename = ""
    /\ app = "running"

User == \/ ThreadButton \/ ManualButtonClicked \/ MessageClosed \/ Lists
        \/ ReferenceActions \/ Project \/ CloseEvent

WindowNext == User \/ PostedEvents \/ WorkerStep \/ Exited

WindowSpec == WindowInit /\ [][WindowNext]_vars

\* The worker is scheduled and its hardware calls return; some event loop of
\* the GUI thread, nested or not, always runs.  The user need not do anything.
WindowFairSpec == WindowSpec /\ WF_vars(WorkerStep) /\ WF_vars(PostedEvents)

-----------------------------------------------------------------------------
(* Properties                                                              *)

WindowTypeOK ==
    /\ TypeOK
    /\ thread_status \in {"STOPPED", "MEASURE_RUNNING", "REFERENCE_RUNNING"}
    /\ m_test \in {"null", "live", "dangling"}
    /\ m_thread \in {"null", "live"}
    /\ measures \subseteq Measures
    /\ refs \subseteq References
    /\ selected \in measures \union {NULL}
    /\ settings \in [Models -> Confs]
    /\ rows \in [Models -> Nat]
    /\ measurementThread \in Measures \union {NULL}
    /\ referenceThread \in References \union {NULL}
    /\ sink \in measures \union refs \union {NULL}
    /\ modal \in Seq(Frames)
    /\ modified \in BOOLEAN
    /\ stale \in BOOLEAN
    /\ project_filename \in {"", "chosen"}
    /\ app \in {"running", "closed", "crashed"}

(* The status, the two pointers and the worker tell the same story: a run  *)
(* is shown exactly while there is a thread with a live worker in it, and  *)
(* a thread that has ended is about to be cleaned up, once.                *)
FinishedPending == {i \in DOMAIN outbox : outbox[i].type = "finished"}

StatusAgrees ==
    /\ thread_status # "STOPPED" <=> m_thread = "live"
    /\ thread_status # "STOPPED" => m_test = "live" /\ pc \notin {"none", "built"}
    /\ thread_status = "STOPPED" =>
          /\ outbox = << >>
          /\ pc \in {"none", "built"}
          /\ pc = "built" => m_test = "live" /\ modal # << >>
    /\ pc = "ended" <=> FinishedPending # {}
    /\ \A i, j \in FinishedPending : i = j

(* m_test is only deleted, and only overwritten, when no thread is inside  *)
(* it: the claim of the comment at aeroistwindow.cpp:248.                  *)
WorkerNotPulled ==
    [][/\ m_test = "live" /\ m_test' # "live" => pc \in {"built", "ended"}
       /\ pc' \in {"built", "started"} /\ pc' # pc => pc = "none"]_vars

(* The window is a GUI thread as MeasureThread.tla supposes it: no order of *)
(* clicks, dialogs and posted events makes it construct, post to, take from *)
(* or delete the object of a run when the worker is not ready for that, and *)
(* no worker is pulled.                                                    *)
WorkerEnvironment == Spec /\ WorkerNotPulled

(* When a run is cleaned up its model has a row for every sample, unless   *)
(* the model was deleted under it.                                         *)
AllRowsDelivered ==
    [][thread_status # "STOPPED" /\ thread_status' = "STOPPED"
          => sink = NULL \/ Endless \/ rows[sink] = emitted]_vars

(* A window that does not show the modified mark has nothing to save, but  *)
(* for a sample whose newData is still in the queue.                       *)
CleanMeansSaved ==
    stale /\ ~modified =>
        \E i \in DOMAIN outbox : outbox[i].type = "newData"

(* As long as the running measurement exists the Stop button is enabled.   *)
StopEnabled ==
    thread_status = "MEASURE_RUNNING" /\ sink # NULL => selected # NULL

(* What the window shows is what the worker does: the status and, while a  *)
(* measurement is running, a Stop button that can be pressed; and what it  *)
(* points to exists.                                                       *)
StatusShown == WindowTypeOK /\ StatusAgrees /\ StopEnabled

(* The measurement that is being done cannot be deleted under its run, as  *)
(* the message at aeroistwindow.cpp:369 says: "Measuring is being done.    *)
(* Stop it to delete."                                                     *)
RunningMeasureKept ==
    thread_status = "MEASURE_RUNNING" => sink \in measures

(* A stop clicked during a run ends the run, unless the program ends first.*)
StopEnds ==
    thread_status = "MEASURE_RUNNING" /\ (\E i \in DOMAIN inbox : inbox[i].slot = "stop")
       ~> thread_status = "STOPPED" \/ app # "running"

(* A failure of the hardware is reported and the run is cleaned up, even   *)
(* behind a dialog that nobody closes.                                     *)
ErrorReported ==
    /\ pc = "failed" ~> \/ "message" \in {modal[i] : i \in DOMAIN modal}
                        \/ app # "running"
    /\ outcome = "error" ~> thread_status = "STOPPED" \/ app # "running"
=============================================================================
