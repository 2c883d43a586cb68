------------------------ MODULE AeroISTWindow_proofs ------------------------
(***************************************************************************)
(* Proofs about the main window of AeroISTWindow.tla, for any models, any  *)
(* settings and any bounds: it is an environment the worker of             *)
(* MeasureThread.tla allows for (WindowIsEnvironment), so that what is     *)
(* proved of the worker holds in the program; and what the window shows,   *)
(* saves and deletes agrees with what the worker does.                     *)
(***************************************************************************)
EXTENDS AeroISTWindow, MeasureThread_proofs, SequenceTheorems

\* Dialogs of the start of a run: nothing is running, nothing lies over them.
StartDialogs == {"openError", "readyError", "refOpenError", "refReadyError",
                 "newReference"}

Shown(F) == \E i \in 1 .. Len(modal) : modal[i] \in F

\* Only messages lie over another dialog.
DialogInv ==
    /\ \A i \in 2 .. Len(modal) : modal[i] = "message"
    /\ Shown(StartDialogs) => Len(modal) <= 1 /\ thread_status = "STOPPED"

\* m_test, m_thread, the status and the dialogs tell where the object is.
StatusInv ==
    /\ thread_status # "STOPPED" <=> m_thread = "live"
    /\ thread_status # "STOPPED" => m_test = "live" /\ pc \notin {"none", "built"}
    /\ thread_status = "STOPPED" =>
          outbox = << >> /\ sink = NULL /\ pc \in {"none", "built"}
    /\ pc = "built" <=> Shown({"readyError", "refReadyError"})
    /\ pc = "built" => m_test = "live"
    /\ pc = "none" => m_test # "live"

\* "finished" is the last event of a run, and the rows of a sample are marked
\* as unsaved after they have come.
OutboxInv ==
    /\ \A i \in 1 .. Len(outbox) : outbox[i].type = "finished" =>
          i = Len(outbox) /\ pc = "ended"
    /\ pc = "ended" => outbox # << >> /\ outbox[Len(outbox)].type = "finished"
    /\ \A i \in 1 .. Len(outbox) : outbox[i].type = "MeasureDone" =>
          i + 1 <= Len(outbox) /\ outbox[i + 1].type = "newData"

\* The model of the run is the one it was started for, and exists.
ModelInv ==
    /\ thread_status = "MEASURE_RUNNING" /\ sink # NULL =>
          sink = measurementThread /\ selected # NULL
    /\ Shown({"newReference"}) => referenceThread \in References \ refs
    /\ Shown({"refOpenError", "refReadyError"}) =>
          referenceThread \in References /\ rows[referenceThread] = 0
    /\ \A a \in Models \ (measures \union refs) : rows[a] = 0

\* The samples in q are, in order, those from the one after r to the e-th.
Underway(r, e, q) ==
    /\ r <= e
    /\ \A i \in 1 .. Len(q) : q[i].type = "MeasureDone" => r < q[i].n /\ q[i].n <= e
    /\ \A i, j \in 1 .. Len(q) :
          i < j /\ q[i].type = "MeasureDone" /\ q[j].type = "MeasureDone"
             => q[i].n < q[j].n
    /\ \A m \in r + 1 .. e : \E i \in 1 .. Len(q) :
          q[i].type = "MeasureDone" /\ q[i].n = m

\* The samples that are on their way are those the model lacks.
RowsInv == sink # NULL /\ ~Endless => Underway(rows[sink], emitted, outbox)

WindowInv == /\ WindowTypeOK /\ DialogInv /\ StatusInv /\ OutboxInv
             /\ ModelInv /\ RowsInv /\ CleanMeansSaved

-----------------------------------------------------------------------------
(* Dialogs                                                                 *)

\* A step that leaves the dialogs of a start as they are
DialogsKept ==
    /\ modal' \in Seq(Frames)
    /\ \A i \in 2 .. Len(modal') : modal'[i] = "message"
    /\ \A F \in SUBSET StartDialogs : Shown(F)' <=> Shown(F)
    /\ Shown(StartDialogs)' => Len(modal') <= 1

LEMMA Opens ==
    ASSUME modal \in Seq(Frames), NEW f \in Frames, Open(f)
    PROVE  /\ modal' \in Seq(Frames)
           /\ Len(modal) \in Nat /\ Len(modal') = Len(modal) + 1
           /\ \A i \in 1 .. Len(modal) : modal'[i] = modal[i]
           /\ modal'[Len(modal) + 1] = f
BY DEF Open

LEMMA BelowFacts ==
    ASSUME modal \in Seq(Frames), modal # << >>
    PROVE  /\ Below \in Seq(Frames)
           /\ Len(modal) \in Nat /\ Len(modal) >= 1 /\ Len(Below) = Len(modal) - 1
           /\ \A i \in 1 .. Len(modal) - 1 : Below[i] = modal[i]
<1>1. PICK n \in Nat : n = Len(modal) - 1
  <2>1. Len(modal) \in Nat /\ Len(modal) # 0
    BY EmptySeq, LenProperties
  <2>2. Len(modal) - 1 \in Nat
    BY <2>1
  <2>3. QED
    BY <2>2
<1>2. /\ Len(modal) \in Nat /\ Len(modal) = n + 1
      /\ \A i \in 1 .. n : modal[i] \in Frames
  BY <1>1, LenProperties, ElementOfSeq
<1>3. /\ SubSeq(modal, 1, n) \in Seq(Frames)
      /\ Len(SubSeq(modal, 1, n)) = IF 1 <= n THEN n - 1 + 1 ELSE 0
      /\ \A i \in 1 .. n - 1 + 1 : SubSeq(modal, 1, n)[i] = modal[1 + i - 1]
  BY <1>2, SubSeqProperties
<1>4. QED
  BY <1>1, <1>2, <1>3 DEF Below

LEMMA Closes ==
    ASSUME modal \in Seq(Frames), modal # << >>, Close
    PROVE  /\ modal' \in Seq(Frames)
           /\ Len(modal) \in Nat /\ Len(modal) >= 1 /\ Len(modal') = Len(modal) - 1
           /\ \A i \in 1 .. Len(modal) - 1 : modal'[i] = modal[i]
BY BelowFacts DEF Close

LEMMA Replaces ==
    ASSUME modal \in Seq(Frames), modal # << >>, NEW f \in Frames,
           modal' = Append(Below, f)
    PROVE  /\ modal' \in Seq(Frames)
           /\ Len(modal) \in Nat /\ Len(modal) >= 1 /\ Len(modal') = Len(modal)
           /\ \A i \in 1 .. Len(modal) - 1 : modal'[i] = modal[i]
           /\ modal'[Len(modal)] = f
<1> DEFINE b == Below
<1>1. /\ b \in Seq(Frames) /\ Len(modal) \in Nat /\ Len(modal) >= 1
      /\ Len(b) = Len(modal) - 1
      /\ \A i \in 1 .. Len(modal) - 1 : b[i] = modal[i]
  BY BelowFacts
<1>2. modal' = Append(b, f)
  OBVIOUS
<1> HIDE DEF b
<1>3. QED
  BY <1>1, <1>2

\* The dialog the user acts on
LEMMA AtTop ==
    ASSUME modal \in Seq(Frames), NEW f, At(f)
    PROVE  /\ modal # << >> /\ Len(modal) \in Nat /\ Len(modal) >= 1
           /\ modal[Len(modal)] = f
           /\ f \in Frames
BY DEF At, Top

LEMMA OpenKeeps ==
    ASSUME modal \in Seq(Frames), DialogInv, NEW f \in Frames \ StartDialogs, Open(f),
           modal = << >> \/ (f = "message" /\ thread_status # "STOPPED")
    PROVE  DialogsKept
<1>1. /\ modal' \in Seq(Frames)
      /\ Len(modal) \in Nat /\ Len(modal') = Len(modal) + 1
      /\ \A i \in 1 .. Len(modal) : modal'[i] = modal[i]
      /\ modal'[Len(modal) + 1] = f
  BY Opens
<1>2. \A i \in 2 .. Len(modal') : modal'[i] = "message"
  BY <1>1 DEF DialogInv
<1>3. \A F \in SUBSET StartDialogs : Shown(F)' <=> Shown(F)
  BY <1>1 DEF Shown
<1>4. Shown(StartDialogs)' => Len(modal') <= 1
  BY <1>1, <1>3 DEF DialogInv, Shown
<1>5. QED
  BY <1>1, <1>2, <1>3, <1>4 DEF DialogsKept

LEMMA CloseKeeps ==
    ASSUME modal \in Seq(Frames), DialogInv, NEW f, f \notin StartDialogs, At(f), Close
    PROVE  DialogsKept
<1>1. modal # << >> /\ modal[Len(modal)] = f
  BY AtTop
<1>2. /\ modal' \in Seq(Frames)
      /\ Len(modal) \in Nat /\ Len(modal) >= 1 /\ Len(modal') = Len(modal) - 1
      /\ \A i \in 1 .. Len(modal) - 1 : modal'[i] = modal[i]
  BY <1>1, Closes
<1>3. \A i \in 2 .. Len(modal') : modal'[i] = "message"
  BY <1>2 DEF DialogInv
<1>4. \A F \in SUBSET StartDialogs : Shown(F)' <=> Shown(F)
  <2>1. ASSUME NEW F \in SUBSET StartDialogs, NEW i \in 1 .. Len(modal), modal[i] \in F
        PROVE  i \in 1 .. Len(modal) - 1
    BY <1>1, <1>2, <2>1
  <2>2. QED
    BY <1>2, <2>1 DEF Shown
<1>5. Shown(StartDialogs)' => Len(modal') <= 1
  BY <1>2, <1>4 DEF DialogInv
<1>6. QED
  BY <1>2, <1>3, <1>4, <1>5 DEF DialogsKept

LEMMA ReplaceKeeps ==
    ASSUME modal \in Seq(Frames), DialogInv, NEW f, f \notin StartDialogs \union {"message"},
           At(f), NEW g \in Frames \ StartDialogs, modal' = Append(Below, g)
    PROVE  DialogsKept
<1>1. modal # << >> /\ modal[Len(modal)] = f
  BY AtTop
<1>2. /\ modal' \in Seq(Frames)
      /\ Len(modal) \in Nat /\ Len(modal) >= 1 /\ Len(modal') = Len(modal)
      /\ \A i \in 1 .. Len(modal) - 1 : modal'[i] = modal[i]
      /\ modal'[Len(modal)] = g
  BY <1>1, Replaces
<1>3. Len(modal) <= 1
  <2>1. ~(Len(modal) \in 2 .. Len(modal))
    BY <1>1 DEF DialogInv
  <2>2. QED
    BY <1>2, <2>1
<1>4. \A F \in SUBSET StartDialogs : Shown(F)' <=> Shown(F)
  <2>1. \A i \in 1 .. Len(modal) : modal[i] = f /\ modal'[i] = g
    BY <1>1, <1>2, <1>3
  <2>2. QED
    BY <1>2, <2>1 DEF Shown
<1>5. QED
  BY <1>2, <1>3, <1>4 DEF DialogsKept

LEMMA SameKeeps ==
    ASSUME modal \in Seq(Frames), DialogInv, modal' = modal
    PROVE  DialogsKept
BY DEF DialogInv, DialogsKept, Shown

LEMMA NoneKeeps ==
    ASSUME modal \in Seq(Frames), DialogInv, modal' = << >>,
           modal = << >> \/ \E f : f \notin StartDialogs \union {"message"} /\ At(f)
    PROVE  DialogsKept
<1>1. /\ modal' \in Seq(Frames) /\ Len(modal') = 0
  OBVIOUS
<1>2. \A F \in SUBSET StartDialogs : ~Shown(F)
  <2>1. CASE modal = << >>
    BY <2>1 DEF Shown
  <2>2. ASSUME NEW f, f \notin StartDialogs \union {"message"}, At(f)
        PROVE  \A F \in SUBSET StartDialogs : ~Shown(F)
    <3>1. Len(modal) \in Nat /\ Len(modal) >= 1 /\ modal[Len(modal)] = f
      BY <2>2, AtTop
    <3>2. ~(Len(modal) \in 2 .. Len(modal))
      BY <2>2, <3>1 DEF DialogInv
    <3>3. \A i \in 1 .. Len(modal) : modal[i] = f
      BY <3>1, <3>2
    <3>4. QED
      BY <2>2, <3>3 DEF Shown
  <2>3. QED
    BY <2>1, <2>2
<1>3. QED
  BY <1>1, <1>2 DEF DialogsKept, Shown

\* The dialog of a start is the only one.
LEMMA OnlyOne ==
    ASSUME modal \in Seq(Frames), DialogInv, NEW f \in StartDialogs, At(f)
    PROVE  /\ Len(modal) <= 1 /\ thread_status = "STOPPED"
           /\ \A F : Shown(F) <=> f \in F
<1>1. Len(modal) \in Nat /\ Len(modal) >= 1 /\ modal[Len(modal)] = f
  BY AtTop
<1>2. Shown(StartDialogs)
  BY <1>1 DEF Shown
<1>3. Len(modal) <= 1 /\ thread_status = "STOPPED"
  BY <1>2 DEF DialogInv
<1>4. \A i \in 1 .. Len(modal) : modal[i] = f
  BY <1>1, <1>3
<1>5. QED
  BY <1>1, <1>3, <1>4 DEF Shown

LEMMA BecomesOnly ==
    ASSUME modal \in Seq(Frames), NEW f \in Frames,
           \/ modal = << >> /\ Open(f)
           \/ modal # << >> /\ Len(modal) <= 1 /\ modal' = Append(Below, f)
    PROVE  /\ modal' \in Seq(Frames) /\ Len(modal') \in Nat /\ Len(modal') <= 1
           /\ \A F : Shown(F)' <=> f \in F
<1>1. modal' \in Seq(Frames) /\ Len(modal') = 1 /\ modal'[1] = f
  <2>1. CASE modal = << >> /\ Open(f)
    BY <2>1 DEF Open
  <2>2. CASE modal # << >> /\ Len(modal) <= 1 /\ modal' = Append(Below, f)
    BY <2>2, Replaces
  <2>3. QED
    BY <2>1, <2>2
<1>2. QED
  BY <1>1 DEF Shown

LEMMA BecomesNone ==
    ASSUME modal \in Seq(Frames), modal # << >>, Len(modal) <= 1, Close
    PROVE  /\ modal' \in Seq(Frames) /\ Len(modal') \in Nat /\ Len(modal') <= 1
           /\ \A F : ~Shown(F)'
<1>1. modal' \in Seq(Frames) /\ Len(modal') = 0
  BY Closes
<1>2. QED
  BY <1>1 DEF Shown

-----------------------------------------------------------------------------
(* The worker in the window                                                *)

\* A run starts when there is no object.
LEMMA NoObject ==
    ASSUME WindowInv, thread_status = "STOPPED",
           modal = << >> \/ \E f \in {"openError", "refOpenError", "newReference"} : At(f)
    PROVE  pc = "none" /\ m_test # "live" /\ outbox = << >> /\ sink = NULL
<1>1. modal \in Seq(Frames) /\ DialogInv
  BY DEF WindowInv, WindowTypeOK
<1>2. ~Shown({"readyError", "refReadyError"})
  <2>1. CASE modal = << >>
    BY <2>1 DEF Shown
  <2>2. ASSUME NEW f \in {"openError", "refOpenError", "newReference"}, At(f)
        PROVE  ~Shown({"readyError", "refReadyError"})
    BY <1>1, <2>2, OnlyOne DEF StartDialogs
  <2>3. QED
    BY <2>1, <2>2
<1>3. QED
  BY <1>2 DEF WindowInv, StatusInv

LEMMA Unready ==
    ASSUME WindowInv, NEW f \in {"readyError", "refReadyError"}, At(f)
    PROVE  /\ pc = "built" /\ m_test = "live" /\ thread_status = "STOPPED"
           /\ outbox = << >> /\ sink = NULL
<1>1. modal \in Seq(Frames) /\ DialogInv
  BY DEF WindowInv, WindowTypeOK
<1>2. thread_status = "STOPPED" /\ Shown({"readyError", "refReadyError"})
  BY <1>1, OnlyOne DEF StartDialogs
<1>3. QED
  BY <1>2 DEF WindowInv, StatusInv

LEMMA Settings ==
    ASSUME WindowTypeOK, selected # NULL
    PROVE  selected \in Measures /\ settings[selected] \in Confs
BY DEF WindowTypeOK, Models

\* delete m_test after a message about a device: it deletes an object that was
\* not ready, or none.
LEMMA DeletesUnstarted ==
    ASSUME WindowInv, DeleteUnstarted,
           \E f \in {"openError", "readyError", "refOpenError", "refReadyError"} : At(f)
    PROVE  /\ thread_status = "STOPPED" /\ outbox = << >> /\ sink = NULL
           /\ \/ pc = "built" /\ Destroy
              \/ pc = "none" /\ UNCHANGED workerVars
           /\ pc' = "none" /\ m_test' \in {"null", "dangling"}
           /\ app' \in {"crashed", app}
<1>1. modal \in Seq(Frames) /\ DialogInv /\ m_test \in {"null", "live", "dangling"}
  BY DEF WindowInv, WindowTypeOK
<1>2. CASE \E f \in {"readyError", "refReadyError"} : At(f)
  BY <1>2, Unready DEF DeleteUnstarted, Destroy, Delete
<1>3. CASE \E f \in {"openError", "refOpenError"} : At(f)
  <2>1. thread_status = "STOPPED"
    BY <1>1, <1>3, OnlyOne DEF StartDialogs
  <2>2. pc = "none" /\ m_test # "live" /\ outbox = << >> /\ sink = NULL
    BY <1>3, <2>1, NoObject
  <2>3. UNCHANGED workerVars /\ m_test' = m_test /\ app' \in {"crashed", app}
    BY <2>2 DEF DeleteUnstarted
  <2>4. QED
    BY <1>1, <2>1, <2>2, <2>3 DEF workerVars
<1>4. QED
  BY <1>2, <1>3

\* What a step of the window is for the worker
LEMMA WorkerView ==
    ASSUME WindowInv, WindowNext
    PROVE  [Next]_workerVars
<1>1. WindowTypeOK
  BY DEF WindowInv
<1>2. CASE UNCHANGED workerVars
  BY <1>2
<1>3. ASSUME NEW s \in Slot, Len(inbox) < MaxInbox, Post(s)
      PROVE  [Next]_workerVars
  <2>1. CASE pc \in Running
    BY <1>3, <2>1 DEF Next, Environment, GuiPost
  <2>2. CASE pc \notin Running
    BY <1>3, <2>2 DEF Post, workerVars
  <2>3. QED
    BY <2>1, <2>2
<1>4. ASSUME pc = "none", ConstructFails
      PROVE  [Next]_workerVars
  BY <1>4 DEF Next, Environment, FailedRun
<1>5. ASSUME pc = "none", NEW c \in Confs, NEW p \in {"built", "started"},
             ConstructAt(c, p)
      PROVE  [Next]_workerVars
  BY <1>5 DEF Next, Environment, NewRun
<1>6. CASE StartFails \/ StartNotReady \/ StartMeasure
  <2>1. thread_status = "STOPPED" /\ modal = << >> /\ selected # NULL
    BY <1>6 DEF StartFails, StartNotReady, StartMeasure, Starting, AtWindow
  <2>2. pc = "none" /\ settings[selected] \in Confs
    BY <1>1, <2>1, NoObject, Settings
  <2>3. QED
    BY <1>4, <1>5, <1>6, <2>2 DEF StartFails, StartNotReady, StartMeasure, Construct
<1>7. CASE ReferenceFails \/ ReferenceNotReady \/ StartReference
  <2>1. At("newReference")
    BY <1>7 DEF ReferenceFails, ReferenceNotReady, StartReference, AddReference
  <2>2. thread_status = "STOPPED"
    BY <2>1, OnlyOne DEF StartDialogs, WindowInv, WindowTypeOK
  <2>3. pc = "none" /\ RefConfs \subseteq Confs
    BY <2>1, <2>2, NoObject, WindowAssumption
  <2>4. QED
    BY <1>4, <1>5, <1>7, <2>3 DEF ReferenceFails, ReferenceNotReady, StartReference,
                                  Construct
<1>8. CASE OpenErrorClosed \/ ReferenceErrorClosed
  <2>1. (pc = "built" /\ Destroy) \/ UNCHANGED workerVars
    BY <1>8, DeletesUnstarted DEF OpenErrorClosed, ReferenceErrorClosed
  <2>2. QED
    BY <2>1 DEF Next, Environment, NotReady
<1>9. CASE StopClicked
  <2>1. [slot |-> "stop"] \in Slot
    BY DEF Slot
  <2>2. QED
    BY <1>3, <1>9, <2>1 DEF StopClicked
<1>10. CASE ManualButtonClicked
  <2>1. \A h \in Values : [slot |-> "manual_control", hash |-> h] \in Slot
    BY DEF Slot
  <2>2. QED
    BY <1>3, <1>10, <2>1 DEF ManualButtonClicked
<1>11. CASE GetMeasure \/ NewData \/ Message
  <2>1. GuiTakes
    BY <1>11 DEF GetMeasure, NewData, Message, Take, GuiTakes, workerButOutbox, workerVars
  <2>2. QED
    BY <2>1 DEF Next, Environment
<1>12. CASE Cleanup
  <2>1. GuiDelete
    BY <1>12 DEF Cleanup, Take, GuiDelete
  <2>2. QED
    BY <2>1 DEF Next, Environment
<1>13. CASE WorkerStep
  BY <1>13 DEF WorkerStep, Next
<1>14. CASE ThreadBusy \/ StartRefused
  BY <1>2, <1>14 DEF ThreadBusy, StartRefused
<1>15. CASE MessageClosed \/ Lists \/ CloseEvent \/ Exited
  BY <1>2, <1>15 DEF MessageClosed, Lists, Select, NewMeasure, NewMeasureRejected,
        NewMeasureAccepted, DeleteMeasureRefused, DeleteMeasure, DeleteReferenceRefused,
        DeleteReference, CloseEvent, Exited, vars
<1>16. CASE NewReferenceBusy \/ NewReference \/ NewReferenceRejected
  BY <1>2, <1>16 DEF NewReferenceBusy, NewReference, NewReferenceRejected
<1>17. CASE Project
  BY <1>2, <1>17 DEF Project, ClearProject, SaveProject, AskFileName, FileNameGiven,
        LoadAsked, LoadDeclined, LoadCleared, LoadComplains, LoadXml
<1>18. QED
  BY <1>6, <1>7, <1>8, <1>9, <1>10, <1>11, <1>12, <1>13, <1>14, <1>15, <1>16, <1>17
     DEF WindowNext, User, PostedEvents, ThreadButton, ReferenceActions

-----------------------------------------------------------------------------
(* What the worker posts                                                   *)

LEMMA TailOutbox ==
    ASSUME TypeOK, outbox # << >>
    PROVE  /\ Len(outbox) \in Nat /\ Len(outbox) >= 1
           /\ Len(Tail(outbox)) = Len(outbox) - 1
           /\ \A i \in 1 .. Len(outbox) - 1 : Tail(outbox)[i] = outbox[i + 1]
           /\ Head(outbox) = outbox[1]
BY DEF TypeOK

LEMMA PostedOutbox ==
    ASSUME TypeOK, NEW e, outbox' = Append(outbox, e)
    PROVE  /\ Len(outbox) \in Nat /\ Len(outbox') = Len(outbox) + 1
           /\ \A i \in 1 .. Len(outbox) : outbox'[i] = outbox[i]
           /\ outbox'[Len(outbox) + 1] = e
<1>1. outbox \in Seq([type : EventType, n : Nat])
  BY DEF TypeOK
<1>2. QED
  BY <1>1

LEMMA SampledOutbox ==
    ASSUME TypeOK, NEW d, NEW e, outbox' = outbox \o <<d, e>>
    PROVE  /\ Len(outbox) \in Nat /\ Len(outbox') = Len(outbox) + 2
           /\ \A i \in 1 .. Len(outbox) : outbox'[i] = outbox[i]
           /\ outbox'[Len(outbox) + 1] = d
           /\ outbox'[Len(outbox) + 2] = e
<1>1. outbox \in Seq([type : EventType, n : Nat])
  BY DEF TypeOK
<1>2. QED
  BY <1>1

\* How the queue of the GUI thread changes
LEMMA OutboxSteps ==
    ASSUME [Next]_workerVars
    PROVE  \/ /\ Read /\ emitted' = Count /\ conf' = conf
              /\ outbox' = outbox \o <<Done(Count), Event("newData")>>
              /\ pc = "read" /\ pc' = "events"
           \/ /\ outbox' = Append(outbox, Event("message")) /\ pc = "failed" /\ pc' = "quit"
              /\ UNCHANGED <<emitted, conf>>
           \/ /\ outbox' = Append(outbox, Event("finished"))
              /\ pc = "returned" /\ pc' = "ended"
              /\ UNCHANGED <<emitted, conf>>
           \/ outbox' = outbox /\ pc' # "ended" /\ pc # "ended" /\ UNCHANGED <<emitted, conf>>
           \/ outbox' = outbox /\ pc' = pc /\ UNCHANGED <<emitted, conf>>
           \/ outbox' = outbox /\ pc \in {"none", "built"} /\ pc' # "ended"
           \/ /\ outbox # << >> /\ Head(outbox).type # "finished" /\ pc' = pc
              /\ outbox' = Tail(outbox) /\ UNCHANGED <<emitted, conf>>
           \/ /\ outbox # << >> /\ Head(outbox).type = "finished" /\ pc' = "none"
              /\ outbox' = Tail(outbox)
<1>1. CASE Read
  BY <1>1 DEF Read, GroupDone, Throw
<1>2. CASE SetInitial \/ SetChannel \/ Events \/ Advance \/ SetFinal \/ Return
  BY <1>2 DEF SetInitial, SetChannel, Events, Advance, SetFinal, Return, Throw,
              LoopAgain, GroupDone, SetFinals
<1>3. CASE Catch \/ ThreadFinished
  BY <1>3 DEF Catch, ThreadFinished
<1>4. CASE NewRun \/ FailedRun \/ NotReady
  BY <1>4 DEF NewRun, FailedRun, NotReady, ConstructAt, ConstructFails, Destroy, Delete
<1>5. CASE GuiPost
  BY <1>5 DEF GuiPost, Post
<1>6. CASE GuiTakes \/ GuiDelete
  BY <1>6 DEF GuiTakes, GuiDelete, Delete
<1>7. CASE UNCHANGED workerVars
  BY <1>7 DEF workerVars
<1>8. QED
  BY <1>1, <1>2, <1>3, <1>4, <1>5, <1>6, <1>7 DEF Next, Worker, Environment

LEMMA OutboxStep ==
    ASSUME TypeOK, OutboxInv, [Next]_workerVars
    PROVE  OutboxInv'
<1>1. Len(outbox) \in Nat
  BY DEF TypeOK
<1>2. pc # "ended" => \A i \in 1 .. Len(outbox) : outbox[i].type # "finished"
  BY DEF OutboxInv
<1>3. CASE outbox' = outbox /\ pc \in {"none", "built"} /\ pc' # "ended"
  BY <1>2, <1>3 DEF OutboxInv
<1>4. CASE outbox' = outbox /\ pc' # "ended" /\ pc # "ended"
  BY <1>2, <1>4 DEF OutboxInv
<1>5. CASE outbox' = outbox /\ pc' = pc
  BY <1>5 DEF OutboxInv
<1>6. CASE /\ outbox' = outbox \o <<Done(Count), Event("newData")>>
           /\ pc = "read" /\ pc' = "events"
  <2>1. /\ Len(outbox') = Len(outbox) + 2
        /\ \A i \in 1 .. Len(outbox) : outbox'[i] = outbox[i]
        /\ outbox'[Len(outbox) + 1] = Done(Count)
        /\ outbox'[Len(outbox) + 2] = Event("newData")
    BY <1>6, SampledOutbox
  <2>2. Done(Count).type = "MeasureDone" /\ Event("newData").type = "newData"
    BY DEF Done, Event
  <2>3. ASSUME NEW i \in 1 .. Len(outbox')
        PROVE  /\ outbox'[i].type # "finished"
               /\ outbox'[i].type = "MeasureDone" =>
                     i + 1 <= Len(outbox') /\ outbox'[i + 1].type = "newData"
    <3>1. i \in 1 .. Len(outbox) \/ i = Len(outbox) + 1 \/ i = Len(outbox) + 2
      BY <1>1, <2>1
    <3>2. CASE i \in 1 .. Len(outbox)
      <4>1. outbox'[i] = outbox[i] /\ outbox[i].type # "finished"
        BY <1>2, <1>6, <2>1, <3>2
      <4>2. outbox[i].type = "MeasureDone" =>
               i + 1 \in 1 .. Len(outbox) /\ outbox[i + 1].type = "newData"
        BY <1>1, <3>2 DEF OutboxInv
      <4>3. QED
        BY <1>1, <2>1, <4>1, <4>2
    <3>3. CASE i = Len(outbox) + 1
      BY <1>1, <2>1, <2>2, <3>3
    <3>4. CASE i = Len(outbox) + 2
      BY <2>1, <2>2, <3>4
    <3>5. QED
      BY <3>1, <3>2, <3>3, <3>4
  <2>4. QED
    BY <1>6, <2>3 DEF OutboxInv
<1>7. ASSUME NEW t \in {"message", "finished"}, outbox' = Append(outbox, Event(t)),
             pc # "ended", pc' = "ended" <=> t = "finished"
      PROVE  OutboxInv'
  <2>1. /\ Len(outbox') = Len(outbox) + 1
        /\ \A i \in 1 .. Len(outbox) : outbox'[i] = outbox[i]
        /\ outbox'[Len(outbox) + 1] = Event(t)
    BY <1>7, PostedOutbox
  <2>2. Event(t).type = t
    BY DEF Event
  <2>3. ASSUME NEW i \in 1 .. Len(outbox')
        PROVE  /\ outbox'[i].type = "finished" => i = Len(outbox') /\ t = "finished"
               /\ outbox'[i].type = "MeasureDone" =>
                     i + 1 <= Len(outbox') /\ outbox'[i + 1].type = "newData"
    <3>1. CASE i \in 1 .. Len(outbox)
      <4>1. outbox'[i] = outbox[i] /\ outbox[i].type # "finished"
        BY <1>2, <1>7, <2>1, <3>1
      <4>2. outbox[i].type = "MeasureDone" =>
               i + 1 \in 1 .. Len(outbox) /\ outbox[i + 1].type = "newData"
        BY <1>1, <3>1 DEF OutboxInv
      <4>3. QED
        BY <1>1, <2>1, <4>1, <4>2
    <3>2. CASE i = Len(outbox) + 1
      BY <1>7, <2>1, <2>2, <3>2
    <3>3. QED
      BY <1>1, <2>1, <3>1, <3>2
  <2>4. outbox' # << >> /\ outbox'[Len(outbox')].type = t
    BY <1>1, <2>1, <2>2, EmptySeq
  <2>5. QED
    BY <1>7, <2>3, <2>4 DEF OutboxInv
<1>8. CASE /\ outbox # << >> /\ Head(outbox).type # "finished" /\ pc' = pc
           /\ outbox' = Tail(outbox)
  <2>1. /\ Len(outbox) >= 1 /\ Len(outbox') = Len(outbox) - 1
        /\ \A i \in 1 .. Len(outbox') : outbox'[i] = outbox[i + 1]
        /\ Head(outbox) = outbox[1]
    BY <1>8, TailOutbox
  <2>2. ASSUME NEW i \in 1 .. Len(outbox')
        PROVE  /\ outbox'[i].type = "finished" => i = Len(outbox') /\ pc' = "ended"
               /\ outbox'[i].type = "MeasureDone" =>
                     i + 1 <= Len(outbox') /\ outbox'[i + 1].type = "newData"
    <3>1. i + 1 \in 1 .. Len(outbox) /\ outbox'[i] = outbox[i + 1]
      BY <1>1, <2>1
    <3>2. /\ outbox[i + 1].type = "finished" => i + 1 = Len(outbox) /\ pc = "ended"
          /\ outbox[i + 1].type = "MeasureDone" =>
                i + 1 + 1 <= Len(outbox) /\ outbox[i + 1 + 1].type = "newData"
      BY <3>1 DEF OutboxInv
    <3>3. i + 1 + 1 <= Len(outbox) =>
             i + 1 \in 1 .. Len(outbox') /\ outbox'[i + 1] = outbox[i + 1 + 1]
      BY <1>1, <2>1
    <3>4. outbox[i + 1].type = "finished" => i = Len(outbox') /\ pc' = "ended"
      <4>1. PICK n \in Nat, m \in Nat : n = Len(outbox) /\ m = Len(outbox')
        BY <1>1, <2>1
      <4>2. m = n - 1 /\ i \in 1 .. m /\ (outbox[i + 1].type = "finished" => i + 1 = n)
        BY <2>1, <3>2, <4>1
      <4>3. QED
        BY <1>8, <3>2, <4>1, <4>2
    <3>5. outbox[i + 1].type = "MeasureDone" =>
             i + 1 <= Len(outbox') /\ outbox'[i + 1].type = "newData"
      BY <1>1, <2>1, <3>2, <3>3
    <3>6. QED
      BY <3>1, <3>4, <3>5
  <2>3. ASSUME pc = "ended"
        PROVE  outbox' # << >> /\ outbox'[Len(outbox')].type = "finished"
    <3>1. outbox[Len(outbox)].type = "finished" /\ outbox[1].type # "finished"
      BY <1>8, <2>1, <2>3 DEF OutboxInv
    <3>2. Len(outbox') >= 1 /\ outbox'[Len(outbox')] = outbox[Len(outbox)]
      BY <1>1, <2>1, <3>1
    <3>3. QED
      BY <3>1, <3>2, EmptySeq
  <2>4. QED
    BY <1>8, <2>2, <2>3 DEF OutboxInv
<1>9. CASE /\ outbox # << >> /\ Head(outbox).type = "finished" /\ pc' = "none"
           /\ outbox' = Tail(outbox)
  <2>1. /\ Len(outbox) >= 1 /\ Len(outbox') = Len(outbox) - 1
        /\ Head(outbox) = outbox[1]
    BY <1>9, TailOutbox
  <2>2. 1 \in 1 .. Len(outbox) /\ outbox[1].type = "finished"
    BY <1>1, <1>9, <2>1
  <2>3. 1 = Len(outbox)
    BY <2>2 DEF OutboxInv
  <2>4. ~(\E i \in 1 .. Len(outbox') : TRUE)
    <3>1. PICK n \in Nat, m \in Int : n = Len(outbox) /\ m = Len(outbox')
      BY <1>1, <2>1
    <3>2. m = n - 1 /\ n = 1
      BY <2>1, <2>3, <3>1
    <3>3. QED
      BY <3>1, <3>2
  <2>5. QED
    BY <1>9, <2>4 DEF OutboxInv
<1>10. QED
  BY <1>3, <1>4, <1>5, <1>6, <1>7, <1>8, <1>9, OutboxSteps

-----------------------------------------------------------------------------
(* The status and the dialogs                                              *)

\* The handlers that show or close a dialog of the start of a run
StartSteps == \/ StartFails \/ StartNotReady \/ OpenErrorClosed
              \/ NewReference \/ NewReferenceRejected \/ ReferenceFails
              \/ ReferenceNotReady \/ StartReference \/ ReferenceErrorClosed

\* The steps that neither create nor delete an object
Plain == \/ ThreadBusy \/ StopClicked \/ StartRefused \/ ManualButtonClicked
         \/ MessageClosed \/ Lists \/ NewReferenceBusy \/ Project \/ CloseEvent
         \/ GetMeasure \/ NewData \/ Message

LEMMA WindowSteps ==
    ASSUME WindowNext
    PROVE  \/ Plain \/ StartMeasure \/ Cleanup \/ WorkerStep \/ StartSteps
           \/ UNCHANGED vars
BY DEF WindowNext, User, PostedEvents, ThreadButton, ReferenceActions, Plain,
       StartSteps, Exited

LEMMA PlainWorker ==
    ASSUME Plain
    PROVE  /\ UNCHANGED <<thread_status, m_test, m_thread, pc, conf, emitted>>
           /\ sink' \in {sink, NULL}
           /\ \/ outbox' = outbox
              \/ /\ GetMeasure \/ NewData \/ Message
                 /\ outbox # << >> /\ outbox' = Tail(outbox)
                 /\ Head(outbox).type # "finished"
<1>1. CASE ThreadBusy \/ StartRefused \/ MessageClosed \/ NewReferenceBusy \/ CloseEvent
  BY <1>1 DEF ThreadBusy, StartRefused, MessageClosed, NewReferenceBusy, CloseEvent,
              workerVars, threadVars, runVars
<1>2. CASE StopClicked \/ ManualButtonClicked
  BY <1>2 DEF StopClicked, ManualButtonClicked, Post, windowVars, threadVars, runVars
<1>3. CASE Lists
  BY <1>3 DEF Lists, Select, NewMeasure, NewMeasureRejected, NewMeasureAccepted,
              DeleteMeasureRefused, DeleteMeasure, DeleteReferenceRefused,
              DeleteReference, Disconnect, workerVars, threadVars, runVars
<1>4. CASE ClearProject \/ LoadCleared
  BY <1>4 DEF ClearProject, LoadCleared, ClearLists, Disconnect, workerVars, threadVars
<1>5. CASE Project /\ ~(ClearProject \/ LoadCleared)
  BY <1>5 DEF Project, SaveProject, AskFileName, FileNameGiven, LoadAsked, LoadDeclined,
              LoadComplains, LoadXml, workerVars, threadVars, runVars
<1>6. CASE GetMeasure \/ NewData \/ Message
  BY <1>6 DEF GetMeasure, NewData, Message, Take, workerButOutbox, threadVars, runVars
<1>7. QED
  BY <1>1, <1>2, <1>3, <1>4, <1>5, <1>6 DEF Plain

LEMMA CloseEventDialogs ==
    ASSUME modal \in Seq(Frames), DialogInv, CloseEvent
    PROVE  DialogsKept
<1>1. {"closeRunning", "closeModified"} \subseteq Frames \ StartDialogs
  BY DEF Frames, StartDialogs
<1>2. CASE modal = << >> /\ (Open("closeRunning") \/ Open("closeModified"))
  BY <1>1, <1>2, OpenKeeps
<1>3. CASE /\ modal' = << >>
           /\ modal = << >> \/ At("closeRunning") \/ At("closeModified")
  BY <1>1, <1>3, NoneKeeps
<1>4. CASE At("closeRunning") /\ modal' = Append(Below, "closeModified")
  BY <1>1, <1>4, ReplaceKeeps
<1>5. CASE (At("closeRunning") \/ At("closeModified")) /\ Close
  BY <1>1, <1>5, CloseKeeps
<1>6. QED
  BY <1>2, <1>3, <1>4, <1>5 DEF CloseEvent, LeaveOrAsk, Quit, AtWindow, Open

LEMMA PlainDialogs ==
    ASSUME WindowInv, Plain
    PROVE  DialogsKept
<1>1. modal \in Seq(Frames) /\ DialogInv
  BY DEF WindowInv, WindowTypeOK
<1>2. {"message", "newMeasure", "saveFile", "loadConfirm", "loadFile", "unconfirmed"}
         \subseteq Frames \ StartDialogs
  BY DEF Frames, StartDialogs
<1>3. ASSUME NEW f \in {"message", "newMeasure", "saveFile", "loadConfirm", "loadFile"},
             AtWindow, Open(f)
      PROVE  DialogsKept
  BY <1>1, <1>2, <1>3, OpenKeeps DEF AtWindow
<1>4. ASSUME NEW f \in {"message", "newMeasure", "saveFile", "loadConfirm", "loadFile",
                        "unconfirmed"},
             At(f), Close
      PROVE  DialogsKept
  BY <1>1, <1>2, <1>4, CloseKeeps
<1>5. CASE modal' = modal
  BY <1>1, <1>5, SameKeeps
<1>6. CASE Message
  <2>1. outbox # << >> /\ Open("message")
    BY <1>6 DEF Message, Take
  <2>2. thread_status # "STOPPED"
    BY <2>1 DEF WindowInv, StatusInv
  <2>3. QED
    BY <1>1, <1>2, <2>1, <2>2, OpenKeeps
<1>7. CASE LoadCleared \/ LoadComplains
  <2>1. CASE AtWindow /\ Open("loadFile")
    BY <1>3, <2>1
  <2>2. CASE At("loadConfirm") /\ modal' = Append(Below, "loadFile")
    BY <1>1, <1>2, <2>2, ReplaceKeeps
  <2>3. ASSUME NEW f \in {"message", "unconfirmed"},
               At("loadFile"), modal' = Append(Below, f)
        PROVE  DialogsKept
    BY <1>1, <1>2, <2>3, ReplaceKeeps
  <2>4. QED
    BY <1>7, <2>1, <2>2, <2>3 DEF LoadCleared, LoadComplains
<1>8. CASE ThreadBusy \/ StartRefused \/ NewReferenceBusy
  BY <1>3, <1>8 DEF ThreadBusy, StartRefused, Starting, NewReferenceBusy
<1>9. CASE MessageClosed
  BY <1>4, <1>9 DEF MessageClosed
<1>10. CASE StopClicked \/ ManualButtonClicked \/ GetMeasure \/ NewData
  BY <1>5, <1>10 DEF StopClicked, ManualButtonClicked, GetMeasure, NewData, windowVars
<1>11. CASE Select \/ DeleteMeasure \/ DeleteReference
  BY <1>5, <1>11 DEF Select, DeleteMeasure, DeleteReference
<1>12. CASE NewMeasure \/ DeleteMeasureRefused \/ DeleteReferenceRefused
  BY <1>3, <1>12 DEF NewMeasure, DeleteMeasureRefused, DeleteReferenceRefused
<1>13. CASE NewMeasureRejected \/ NewMeasureAccepted
  BY <1>4, <1>13 DEF NewMeasureRejected, NewMeasureAccepted
<1>14. CASE ClearProject \/ SaveProject
  BY <1>5, <1>14 DEF ClearProject, SaveProject
<1>15. CASE AskFileName \/ LoadAsked
  BY <1>3, <1>15 DEF AskFileName, LoadAsked
<1>16. CASE FileNameGiven \/ LoadDeclined \/ LoadXml
  BY <1>4, <1>16 DEF FileNameGiven, LoadDeclined, LoadXml
<1>17. CASE CloseEvent
  BY <1>1, <1>17, CloseEventDialogs
<1>18. QED
  BY <1>6, <1>7, <1>8, <1>9, <1>10, <1>11, <1>12, <1>13, <1>14, <1>15, <1>16, <1>17
     DEF Plain, Lists, Project

LEMMA LastEvent ==
    ASSUME TypeOK, OutboxInv, outbox # << >>, Head(outbox).type = "finished"
    PROVE  pc = "ended" /\ Tail(outbox) = << >> /\ Len(outbox) <= 1
<1> DEFINE t == Tail(outbox)
<1>1. /\ Len(outbox) \in Nat /\ Len(outbox) >= 1
      /\ Len(t) = Len(outbox) - 1 /\ Head(outbox) = outbox[1]
      /\ t \in Seq([type : EventType, n : Nat])
  BY TailOutbox DEF TypeOK
<1> HIDE DEF t
<1>2. 1 \in 1 .. Len(outbox) /\ outbox[1].type = "finished"
  BY <1>1
<1>3. pc = "ended" /\ 1 = Len(outbox)
  BY <1>2 DEF OutboxInv
<1>4. PICK n \in Nat, m \in Int : n = Len(outbox) /\ m = Len(t)
  BY <1>1
<1>5. m = n - 1 /\ n = 1
  BY <1>1, <1>3, <1>4
<1>6. t = << >>
  BY <1>1, <1>4, <1>5, EmptySeq
<1>7. pc = "ended" /\ Len(outbox) <= 1
  BY <1>3, <1>4, <1>5
<1>8. QED
  BY <1>6, <1>7 DEF t

LEMMA WorkerRuns ==
    ASSUME Worker
    PROVE  pc \notin {"none", "built", "ended"} /\ pc' \notin {"none", "built"}
BY DEF Worker, SetInitial, SetChannel, Read, Events, Advance, SetFinal, Catch, Return,
       ThreadFinished, Throw, LoopAgain, GroupDone, SetFinals

\* The dialogs of a start, one by one
LEMMA StartDialogSteps ==
    ASSUME WindowInv, StartSteps
    PROVE  /\ modal' \in Seq(Frames) /\ Len(modal') \in Nat /\ Len(modal') <= 1
           /\ thread_status = "STOPPED" /\ outbox' = << >> /\ sink = NULL
           /\ \/ /\ StartFails /\ UNCHANGED <<pc, threadVars, sink>>
                 /\ pc = "none" /\ \A F : Shown(F)' <=> "openError" \in F
              \/ /\ StartNotReady /\ UNCHANGED <<thread_status, m_thread, sink>>
                 /\ m_test' = "live" /\ pc' = "built" /\ \A F : Shown(F)' <=> "readyError" \in F
              \/ /\ NewReference /\ UNCHANGED <<pc, threadVars, sink>>
                 /\ pc = "none" /\ \A F : Shown(F)' <=> "newReference" \in F
              \/ /\ ReferenceFails /\ UNCHANGED <<pc, threadVars, sink>>
                 /\ pc = "none" /\ \A F : Shown(F)' <=> "refOpenError" \in F
              \/ /\ ReferenceNotReady /\ UNCHANGED <<thread_status, m_thread, sink>>
                 /\ m_test' = "live" /\ pc' = "built"
                 /\ \A F : Shown(F)' <=> "refReadyError" \in F
              \/ /\ NewReferenceRejected /\ UNCHANGED <<pc, threadVars, sink>>
                 /\ pc = "none" /\ \A F : ~Shown(F)'
              \/ /\ StartReference /\ \A F : ~Shown(F)'
                 /\ pc' = "started" /\ thread_status' = "REFERENCE_RUNNING"
                 /\ m_test' = "live" /\ m_thread' = "live"
              \/ /\ OpenErrorClosed \/ ReferenceErrorClosed
                 /\ UNCHANGED <<thread_status, m_thread, sink>>
                 /\ pc' = "none" /\ m_test' \in {"null", "dangling"} /\ \A F : ~Shown(F)'
<1>1. modal \in Seq(Frames) /\ DialogInv
  BY DEF WindowInv, WindowTypeOK
<1>2. StartDialogs \subseteq Frames
  BY DEF StartDialogs, Frames
<1>3. CASE StartFails \/ StartNotReady
  <2>1. modal = << >> /\ thread_status = "STOPPED"
    BY <1>3 DEF StartFails, StartNotReady, Starting, AtWindow
  <2>2. pc = "none" /\ outbox = << >> /\ sink = NULL
    BY <2>1, NoObject
  <2>3. CASE StartFails
    <3>1. /\ modal' \in Seq(Frames) /\ Len(modal') \in Nat /\ Len(modal') <= 1
          /\ \A F : Shown(F)' <=> "openError" \in F
      BY <1>1, <2>1, <2>3, BecomesOnly DEF StartFails, Frames
    <3>2. UNCHANGED <<pc, threadVars, sink, outbox>>
      BY <2>3 DEF StartFails, ConstructFails
    <3>3. QED
      BY <2>1, <2>2, <2>3, <3>1, <3>2
  <2>4. CASE StartNotReady
    <3>1. /\ modal' \in Seq(Frames) /\ Len(modal') \in Nat /\ Len(modal') <= 1
          /\ \A F : Shown(F)' <=> "readyError" \in F
      BY <1>1, <2>1, <2>4, BecomesOnly DEF StartNotReady, Frames
    <3>2. /\ UNCHANGED <<thread_status, m_thread, sink, outbox>> /\ m_test' = "live"
          /\ pc' = "built"
      BY <2>4 DEF StartNotReady, Construct, ConstructAt
    <3>3. QED
      BY <2>1, <2>2, <2>4, <3>1, <3>2
  <2>5. QED
    BY <1>3, <2>3, <2>4
<1>4. CASE NewReference
  <2>1. modal = << >> /\ thread_status = "STOPPED"
    BY <1>4 DEF NewReference, AtWindow
  <2>2. pc = "none" /\ outbox = << >> /\ sink = NULL
    BY <2>1, NoObject
  <2>3. /\ modal' \in Seq(Frames) /\ Len(modal') \in Nat /\ Len(modal') <= 1
        /\ \A F : Shown(F)' <=> "newReference" \in F
    BY <1>1, <1>4, <2>1, BecomesOnly DEF NewReference, Frames
  <2>4. UNCHANGED <<pc, threadVars, sink, outbox>>
    BY <1>4 DEF NewReference, workerVars
  <2>5. QED
    BY <1>4, <2>1, <2>2, <2>3, <2>4
<1>5. CASE NewReferenceRejected \/ ReferenceFails \/ ReferenceNotReady \/ StartReference
  <2>1. At("newReference")
    BY <1>5 DEF NewReferenceRejected, ReferenceFails, ReferenceNotReady, StartReference,
                AddReference
  <2>2. Len(modal) <= 1 /\ thread_status = "STOPPED" /\ modal # << >>
    BY <1>1, <2>1, OnlyOne DEF StartDialogs, At
  <2>3. pc = "none" /\ outbox = << >> /\ sink = NULL
    BY <2>1, <2>2, NoObject
  <2>4. CASE NewReferenceRejected
    <3>1. /\ modal' \in Seq(Frames) /\ Len(modal') \in Nat /\ Len(modal') <= 1
          /\ \A F : ~Shown(F)'
      BY <1>1, <2>2, <2>4, BecomesNone DEF NewReferenceRejected
    <3>2. UNCHANGED <<pc, threadVars, sink, outbox>>
      BY <2>4 DEF NewReferenceRejected, workerVars, runVars
    <3>3. QED
      BY <2>2, <2>3, <2>4, <3>1, <3>2
  <2>5. CASE ReferenceFails
    <3>1. /\ modal' \in Seq(Frames) /\ Len(modal') \in Nat /\ Len(modal') <= 1
          /\ \A F : Shown(F)' <=> "refOpenError" \in F
      BY <1>1, <2>2, <2>5, BecomesOnly DEF ReferenceFails, Frames
    <3>2. UNCHANGED <<pc, threadVars, sink, outbox>>
      BY <2>5 DEF ReferenceFails, ConstructFails, runVars
    <3>3. QED
      BY <2>2, <2>3, <2>5, <3>1, <3>2
  <2>6. CASE ReferenceNotReady
    <3>1. /\ modal' \in Seq(Frames) /\ Len(modal') \in Nat /\ Len(modal') <= 1
          /\ \A F : Shown(F)' <=> "refReadyError" \in F
      BY <1>1, <2>2, <2>6, BecomesOnly DEF ReferenceNotReady, Frames
    <3>2. /\ UNCHANGED <<thread_status, m_thread, sink, outbox>> /\ m_test' = "live"
          /\ pc' = "built"
      BY <2>6 DEF ReferenceNotReady, Construct, ConstructAt, runVars
    <3>3. QED
      BY <2>2, <2>3, <2>6, <3>1, <3>2
  <2>7. CASE StartReference
    <3>1. /\ modal' \in Seq(Frames) /\ Len(modal') \in Nat /\ Len(modal') <= 1
          /\ \A F : ~Shown(F)'
      BY <1>1, <2>2, <2>7, BecomesNone DEF StartReference
    <3>2. /\ pc' = "started" /\ thread_status' = "REFERENCE_RUNNING"
          /\ m_test' = "live" /\ m_thread' = "live" /\ outbox' = outbox
      BY <2>7 DEF StartReference, ConstructAt
    <3>3. QED
      BY <2>2, <2>3, <2>7, <3>1, <3>2
  <2>8. QED
    BY <1>5, <2>4, <2>5, <2>6, <2>7
<1>6. CASE OpenErrorClosed \/ ReferenceErrorClosed
  <2>1. PICK f \in {"openError", "readyError", "refOpenError", "refReadyError"} : At(f)
    BY <1>6 DEF OpenErrorClosed, ReferenceErrorClosed
  <2>2. /\ thread_status = "STOPPED" /\ outbox = << >> /\ sink = NULL
        /\ \/ pc = "built" /\ Destroy
           \/ pc = "none" /\ UNCHANGED workerVars
        /\ pc' = "none" /\ m_test' \in {"null", "dangling"}
    BY <1>6, <2>1, DeletesUnstarted DEF OpenErrorClosed, ReferenceErrorClosed
  <2>3. outbox' = outbox
    BY <2>2 DEF Destroy, workerVars
  <2>4. Len(modal) <= 1 /\ modal # << >>
    BY <1>1, <2>1, OnlyOne DEF StartDialogs, At
  <2>5. /\ modal' \in Seq(Frames) /\ Len(modal') \in Nat /\ Len(modal') <= 1
        /\ \A F : ~Shown(F)'
    BY <1>1, <1>6, <2>4, BecomesNone DEF OpenErrorClosed, ReferenceErrorClosed
  <2>6. UNCHANGED <<thread_status, m_thread, sink>>
    BY <1>6 DEF OpenErrorClosed, ReferenceErrorClosed, runVars
  <2>7. QED
    BY <1>6, <2>2, <2>3, <2>5, <2>6
<1>7. QED
  BY <1>3, <1>4, <1>5, <1>6 DEF StartSteps

\* Every step, for the status and the dialogs
LEMMA StatusStep ==
    ASSUME WindowInv, [WindowNext]_vars
    PROVE  modal' \in Seq(Frames) /\ DialogInv' /\ StatusInv'
<1>1. modal \in Seq(Frames) /\ DialogInv /\ StatusInv /\ TypeOK /\ OutboxInv
  BY DEF WindowInv, WindowTypeOK
<1>2. {"readyError", "refReadyError"} \in SUBSET StartDialogs
  BY DEF StartDialogs
<1>3. CASE Plain
  <2>1. DialogsKept
    BY <1>3, PlainDialogs
  <2>2. /\ UNCHANGED <<thread_status, m_test, m_thread, pc>>
        /\ sink' \in {sink, NULL}
        /\ outbox = << >> => outbox' = << >>
    BY <1>3, PlainWorker
  <2>3. DialogInv'
    BY <1>1, <2>1, <2>2 DEF DialogInv, DialogsKept
  <2>4. StatusInv'
    BY <1>1, <1>2, <2>1, <2>2 DEF StatusInv, DialogsKept
  <2>5. QED
    BY <2>1, <2>3, <2>4 DEF DialogsKept
<1>4. CASE StartMeasure
  <2>1. /\ modal = << >> /\ modal' = modal
        /\ thread_status' = "MEASURE_RUNNING" /\ m_test' = "live"
        /\ m_thread' = "live" /\ pc' = "started"
    BY <1>4 DEF StartMeasure, Starting, AtWindow, ConstructAt
  <2>2. modal' \in Seq(Frames) /\ \A F : ~Shown(F)'
    BY <1>1, <2>1 DEF Shown
  <2>3. QED
    BY <1>1, <2>1, <2>2 DEF DialogInv, StatusInv
<1>5. CASE Cleanup
  <2>1. /\ outbox # << >> /\ Head(outbox).type = "finished" /\ outbox' = Tail(outbox)
        /\ modal' = modal /\ thread_status' = "STOPPED" /\ m_test' = "null"
        /\ m_thread' = "null" /\ sink' = NULL /\ pc' = "none"
    BY <1>5 DEF Cleanup, Take, Delete
  <2>2. pc = "ended" /\ outbox' = << >>
    BY <1>1, <2>1, LastEvent
  <2>3. ~Shown({"readyError", "refReadyError"})'
    BY <1>1, <2>1, <2>2 DEF StatusInv, Shown
  <2>4. DialogInv'
    BY <1>1, <2>1 DEF DialogInv, Shown
  <2>5. QED
    BY <1>1, <2>1, <2>2, <2>3, <2>4 DEF StatusInv
<1>6. CASE WorkerStep
  <2>1. /\ UNCHANGED <<modal, thread_status, m_test, m_thread, sink>>
        /\ pc \notin {"none", "built"} /\ pc' \notin {"none", "built"}
    BY <1>6, WorkerRuns DEF WorkerStep, windowVars, threadVars, runVars
  <2>2. DialogInv'
    BY <1>1, <2>1 DEF DialogInv, Shown
  <2>3. StatusInv'
    BY <1>1, <2>1 DEF StatusInv, Shown
  <2>4. QED
    BY <1>1, <2>1, <2>2, <2>3
<1>7. CASE StartSteps
  <2>1. /\ modal' \in Seq(Frames) /\ Len(modal') \in Nat /\ Len(modal') <= 1
        /\ thread_status = "STOPPED" /\ outbox' = << >> /\ sink = NULL
    BY <1>7, StartDialogSteps
  <2>2. \A i \in 2 .. Len(modal') : modal'[i] = "message"
    BY <2>1
  <2>3. Shown(StartDialogs)' => thread_status' = "STOPPED"
    BY <1>7, StartDialogSteps DEF threadVars
  <2>4. StatusInv'
    BY <1>1, <1>7, <2>1, StartDialogSteps DEF StatusInv, threadVars
  <2>5. QED
    BY <2>1, <2>2, <2>3, <2>4 DEF DialogInv
<1>8. CASE UNCHANGED vars
  BY <1>1, <1>8 DEF vars, workerVars, windowVars, threadVars, runVars, DialogInv,
                    StatusInv, Shown
<1>9. QED
  BY <1>3, <1>4, <1>5, <1>6, <1>7, <1>8, WindowSteps

-----------------------------------------------------------------------------
(* The lists, and the model of the run                                     *)

ListsInv ==
    /\ measures \subseteq Measures
    /\ refs \subseteq References
    /\ selected \in measures \union {NULL}
    /\ settings \in [Models -> Confs]
    /\ rows \in [Models -> Nat]
    /\ measurementThread \in Measures \union {NULL}
    /\ referenceThread \in References \union {NULL}
    /\ sink \in measures \union refs \union {NULL}
    /\ thread_status = "MEASURE_RUNNING" /\ sink # NULL =>
          sink = measurementThread /\ selected # NULL
    /\ \A a \in Models \ (measures \union refs) : rows[a] = 0

LEMMA ListsHold ==
    ASSUME WindowInv
    PROVE  ListsInv
BY DEF WindowInv, WindowTypeOK, ModelInv, ListsInv

\* While a run is about to start the user can do nothing else.
LEMMA PlainNotStarting ==
    ASSUME WindowInv, Plain
    PROVE  ~Shown(StartDialogs)
<1>1. /\ modal \in Seq(Frames) /\ DialogInv
      /\ Shown(StartDialogs) => outbox = << >> /\ thread_status = "STOPPED"
  BY DEF WindowInv, WindowTypeOK, DialogInv, StatusInv
<1>2. CASE AtWindow
  BY <1>2 DEF AtWindow, Shown
<1>3. ASSUME NEW f, f \notin StartDialogs, At(f)
      PROVE  ~Shown(StartDialogs)
  <2>1. Len(modal) \in Nat /\ Len(modal) >= 1 /\ modal[Len(modal)] = f
    BY <1>1, <1>3, AtTop
  <2>2. ASSUME Shown(StartDialogs)
        PROVE  FALSE
    <3>1. PICK i \in 1 .. Len(modal) : modal[i] \in StartDialogs
      BY <2>2 DEF Shown
    <3>2. i = Len(modal)
      BY <1>1, <2>1, <2>2, <3>1 DEF DialogInv
    <3>3. QED
      BY <1>3, <2>1, <3>1, <3>2
  <2>3. QED
    BY <2>2
<1>4. CASE outbox # << >>
  BY <1>1, <1>4
<1>5. \A f \in {"message", "newMeasure", "saveFile", "loadConfirm", "loadFile",
                "unconfirmed", "closeRunning", "closeModified"} : f \notin StartDialogs
  BY DEF StartDialogs
<1>6. CASE ThreadBusy \/ StartRefused \/ NewReferenceBusy
  BY <1>2, <1>6 DEF ThreadBusy, StartRefused, Starting, NewReferenceBusy
<1>7. CASE StopClicked \/ ManualButtonClicked
  BY <1>2, <1>7 DEF StopClicked, ManualButtonClicked
<1>8. CASE MessageClosed \/ CloseEvent
  BY <1>2, <1>3, <1>5, <1>8 DEF MessageClosed, CloseEvent
<1>9. CASE Lists
  BY <1>2, <1>3, <1>5, <1>9 DEF Lists, Select, NewMeasure, NewMeasureRejected,
        NewMeasureAccepted, DeleteMeasureRefused, DeleteMeasure, DeleteReferenceRefused,
        DeleteReference
<1>10. CASE Project
  BY <1>2, <1>3, <1>5, <1>10 DEF Project, ClearProject, SaveProject, AskFileName,
        FileNameGiven, LoadAsked, LoadDeclined, LoadCleared, LoadComplains, LoadXml
<1>11. CASE GetMeasure \/ NewData \/ Message
  BY <1>4, <1>11 DEF GetMeasure, NewData, Message, Take
<1>12. QED
  BY <1>6, <1>7, <1>8, <1>9, <1>10, <1>11 DEF Plain

LEMMA DeleteLists ==
    ASSUME ListsInv, DeleteMeasure \/ DeleteReference
    PROVE  ListsInv' /\ (sink' # NULL => sink' = sink /\ rows'[sink] = rows[sink])
<1>1. /\ NULL \notin Measures \union References /\ Measures \intersect References = {}
      /\ Models = Measures \union References
  BY WindowAssumption DEF Models
<1>2. CASE DeleteMeasure
  <2>1. /\ selected # NULL /\ selected \in measures
        /\ measures' = measures \ {selected} /\ refs' = refs
        /\ selected' \in Neighbour(measures')
        /\ rows' = [rows EXCEPT ![selected] = 0]
        /\ sink' = IF sink \in {selected} THEN NULL ELSE sink
        /\ UNCHANGED <<settings, measurementThread, referenceThread, thread_status>>
    BY <1>2 DEF DeleteMeasure, Disconnect, ListsInv, threadVars
  <2>2. selected' \in measures' \union {NULL}
        /\ (measures' # {} => selected' \in measures')
    BY <2>1 DEF Neighbour
  <2>3. /\ measures' \subseteq Measures /\ refs' \subseteq References
        /\ settings' \in [Models -> Confs] /\ rows' \in [Models -> Nat]
        /\ measurementThread' \in Measures \union {NULL}
        /\ referenceThread' \in References \union {NULL}
        /\ sink' \in measures' \union refs' \union {NULL}
    BY <2>1 DEF ListsInv
  <2>4. ASSUME thread_status' = "MEASURE_RUNNING", sink' # NULL
        PROVE  sink' = measurementThread' /\ selected' # NULL
    <3>1. sink' = sink /\ sink # selected /\ sink = measurementThread
      BY <2>1, <2>4 DEF ListsInv
    <3>2. sink \in measures'
      BY <1>1, <2>1, <2>4, <3>1 DEF ListsInv
    <3>3. QED
      BY <1>1, <2>1, <2>2, <2>3, <3>1, <3>2
  <2>5. \A a \in Models \ (measures' \union refs') : rows'[a] = 0
    BY <1>1, <2>1 DEF ListsInv
  <2>6. sink' # NULL => sink' = sink /\ rows'[sink] = rows[sink]
    BY <1>1, <2>1 DEF ListsInv
  <2>7. QED
    BY <2>2, <2>3, <2>4, <2>5, <2>6 DEF ListsInv
<1>3. CASE DeleteReference
  <2>1. PICK a \in refs : /\ refs' = refs \ {a}
                          /\ rows' = [rows EXCEPT ![a] = 0]
                          /\ sink' = IF sink \in {a} THEN NULL ELSE sink
    BY <1>3 DEF DeleteReference, Disconnect
  <2>2. UNCHANGED <<measures, selected, settings, measurementThread, referenceThread,
                    thread_status>>
    BY <1>3 DEF DeleteReference, threadVars
  <2>3. /\ refs' \subseteq References /\ rows' \in [Models -> Nat]
        /\ sink' \in measures' \union refs' \union {NULL}
    BY <1>1, <2>1, <2>2 DEF ListsInv
  <2>4. \A b \in Models \ (measures' \union refs') : rows'[b] = 0
    BY <1>1, <2>1, <2>2 DEF ListsInv
  <2>5. sink' # NULL => sink' = sink /\ rows'[sink] = rows[sink]
    BY <1>1, <2>1 DEF ListsInv
  <2>6. QED
    BY <2>1, <2>2, <2>3, <2>4, <2>5 DEF ListsInv
<1>4. QED
  BY <1>2, <1>3

LEMMA PlainLists ==
    ASSUME WindowInv, Plain
    PROVE  /\ ListsInv'
           /\ ~GetMeasure /\ sink' # NULL => sink' = sink /\ rows'[sink] = rows[sink]
<1>1. /\ NULL \notin Measures \union References /\ Measures \intersect References = {}
      /\ Models = Measures \union References /\ RefConfs \subseteq Confs
      /\ MaxRows \in Nat
  BY WindowAssumption DEF Models
<1>2. ListsInv /\ thread_status' = thread_status
  BY ListsHold, PlainWorker
<1>3. CASE UNCHANGED <<listVars, runVars>>
  BY <1>2, <1>3 DEF listVars, runVars, ListsInv
<1>4. CASE StartRefused
  <2>1. /\ thread_status = "STOPPED" /\ measurementThread' = selected /\ selected # NULL
        /\ UNCHANGED <<listVars, referenceThread, sink>>
    BY <1>4 DEF StartRefused, Starting
  <2>2. QED
    BY <1>2, <2>1 DEF listVars, ListsInv
<1>5. CASE Select
  BY <1>1, <1>2, <1>5 DEF Select, runVars, ListsInv
<1>6. CASE NewMeasureAccepted
  <2>1. PICK a \in Measures \ measures, c \in Confs :
           /\ measures' = measures \union {a} /\ selected' = a
           /\ settings' = [settings EXCEPT ![a] = c]
    BY <1>6 DEF NewMeasureAccepted
  <2>2. UNCHANGED <<refs, rows, runVars>>
    BY <1>6 DEF NewMeasureAccepted
  <2>3. settings' \in [Models -> Confs]
    BY <1>1, <1>2, <2>1 DEF ListsInv
  <2>4. QED
    BY <1>1, <1>2, <2>1, <2>2, <2>3 DEF runVars, ListsInv
<1>7. CASE DeleteMeasure \/ DeleteReference
  BY <1>2, <1>7, DeleteLists
<1>8. CASE ClearProject \/ LoadCleared
  <2>1. /\ measures' = {} /\ refs' = {} /\ selected' = NULL
        /\ rows' = [a \in Models |-> 0]
        /\ sink' = IF sink \in Models THEN NULL ELSE sink
        /\ UNCHANGED <<settings, measurementThread, referenceThread>>
    BY <1>8 DEF ClearProject, LoadCleared, ClearLists, Disconnect
  <2>2. sink' = NULL
    BY <1>1, <1>2, <2>1 DEF ListsInv
  <2>3. QED
    BY <1>1, <1>2, <2>1, <2>2 DEF ListsInv
<1>9. CASE LoadXml
  <2>1. PICK M \in SUBSET (Measures \ measures), R \in SUBSET (References \ refs),
             c \in Confs, r \in RefConfs, n \in 0 .. MaxRows :
           /\ measures' = measures \union M
           /\ refs' = refs \union R
           /\ settings' = [a \in Models |-> IF a \in M THEN c
                                            ELSE IF a \in R THEN r
                                            ELSE settings[a]]
           /\ rows' = [a \in Models |-> IF a \in M \union R THEN n ELSE rows[a]]
    BY <1>9 DEF LoadXml
  <2>2. UNCHANGED <<selected, runVars>>
    BY <1>9 DEF LoadXml
  <2>3. settings' \in [Models -> Confs] /\ rows' \in [Models -> Nat]
    BY <1>1, <1>2, <2>1 DEF ListsInv
  <2>4. \A a \in Models \ (measures' \union refs') : rows'[a] = 0
    BY <1>1, <1>2, <2>1 DEF ListsInv
  <2>5. sink # NULL => rows'[sink] = rows[sink]
    BY <1>1, <1>2, <2>1 DEF ListsInv
  <2>6. QED
    BY <1>1, <1>2, <2>1, <2>2, <2>3, <2>4, <2>5 DEF runVars, ListsInv
<1>10. CASE GetMeasure
  <2>1. /\ rows' = [a \in Models |-> IF ~Receives(a) THEN rows[a]
                                     ELSE IF Endless THEN 1 ELSE rows[a] + 1]
        /\ UNCHANGED <<measures, refs, selected, settings, runVars>>
    BY <1>10 DEF GetMeasure
  <2>2. rows' \in [Models -> Nat]
    BY <1>2, <2>1 DEF ListsInv
  <2>3. \A a \in Models \ (measures' \union refs') : rows'[a] = 0
    <3>1. ASSUME NEW a \in Models \ (measures \union refs)
          PROVE  rows'[a] = 0
      <4>1. a # sink
        BY <1>1, <1>2 DEF ListsInv
      <4>2. QED
        BY <1>2, <2>1, <4>1 DEF Receives, ListsInv
    <3>2. QED
      BY <2>1, <3>1
  <2>4. QED
    BY <1>2, <1>10, <2>1, <2>2, <2>3 DEF runVars, ListsInv
<1>11. CASE NewData \/ Message
  BY <1>3, <1>11 DEF NewData, Message
<1>12. CASE ThreadBusy \/ StopClicked \/ ManualButtonClicked \/ MessageClosed
            \/ NewReferenceBusy \/ CloseEvent
  BY <1>3, <1>12 DEF ThreadBusy, StopClicked, ManualButtonClicked, MessageClosed,
                     NewReferenceBusy, CloseEvent, windowVars
<1>13. CASE NewMeasure \/ NewMeasureRejected \/ DeleteMeasureRefused
            \/ DeleteReferenceRefused
  BY <1>3, <1>13 DEF NewMeasure, NewMeasureRejected, DeleteMeasureRefused,
                     DeleteReferenceRefused
<1>14. CASE SaveProject \/ AskFileName \/ FileNameGiven \/ LoadAsked \/ LoadDeclined
            \/ LoadComplains
  BY <1>3, <1>14 DEF SaveProject, AskFileName, FileNameGiven, LoadAsked, LoadDeclined,
                     LoadComplains
<1>15. QED
  BY <1>4, <1>5, <1>6, <1>7, <1>8, <1>9, <1>10, <1>11, <1>12, <1>13, <1>14
     DEF Plain, Lists, Project

\* A reference is created, tried, and kept once its run has started.
StartModels ==
    /\ Shown({"newReference"}) => referenceThread \in References \ refs
    /\ Shown({"refOpenError", "refReadyError"}) =>
          referenceThread \in References /\ rows[referenceThread] = 0

LEMMA AddsReference ==
    ASSUME WindowInv, NEW c \in RefConfs, AddReference(c),
           UNCHANGED <<measurementThread, referenceThread>>,
           sink' \in {NULL, referenceThread}, thread_status' # "MEASURE_RUNNING"
    PROVE  /\ ListsInv' /\ referenceThread' \in References /\ rows'[referenceThread] = 0
<1>1. /\ NULL \notin Measures \union References /\ Measures \intersect References = {}
      /\ Models = Measures \union References /\ RefConfs \subseteq Confs
  BY WindowAssumption DEF Models
<1>2. ListsInv /\ modal \in Seq(Frames) /\ DialogInv /\ ModelInv
  BY ListsHold DEF WindowInv, WindowTypeOK
<1>3. /\ At("newReference") /\ refs' = refs \union {referenceThread}
      /\ settings' = [settings EXCEPT ![referenceThread] = c]
      /\ UNCHANGED <<measures, selected, rows>>
  BY DEF AddReference
<1>4. Shown({"newReference"})
  BY <1>2, <1>3, OnlyOne DEF StartDialogs
<1>5. referenceThread \in References \ refs
  BY <1>2, <1>4 DEF ModelInv
<1>6. rows[referenceThread] = 0
  BY <1>1, <1>2, <1>5 DEF ListsInv
<1>7. settings' \in [Models -> Confs]
  BY <1>1, <1>2, <1>3, <1>5 DEF ListsInv
<1>8. QED
  BY <1>1, <1>2, <1>3, <1>5, <1>6, <1>7 DEF ListsInv

LEMMA StartLists ==
    ASSUME WindowInv, StartSteps
    PROVE  ListsInv' /\ StartModels'
<1>1. /\ NULL \notin Measures \union References /\ Measures \intersect References = {}
      /\ Models = Measures \union References
  BY WindowAssumption DEF Models
<1>2. ListsInv /\ modal \in Seq(Frames) /\ DialogInv /\ ModelInv
  BY ListsHold DEF WindowInv, WindowTypeOK
<1>3. sink = NULL /\ thread_status = "STOPPED"
  BY StartDialogSteps
<1>4. CASE /\ StartFails \/ StartNotReady
           /\ ~Shown({"newReference"})' /\ ~Shown({"refOpenError", "refReadyError"})'
  <2>1. /\ measurementThread' = selected /\ selected # NULL
        /\ UNCHANGED <<listVars, referenceThread, sink>>
    BY <1>4 DEF StartFails, StartNotReady, Starting
  <2>2. ListsInv'
    BY <1>2, <1>3, <2>1 DEF listVars, ListsInv
  <2>3. ~Shown({"newReference"})' /\ ~Shown({"refOpenError", "refReadyError"})'
    BY <1>4
  <2>4. QED
    BY <2>2, <2>3 DEF StartModels
<1>5. CASE NewReference /\ ~Shown({"refOpenError", "refReadyError"})'
  <2>1. /\ referenceThread' \in References \ refs
        /\ UNCHANGED <<listVars, thread_status, measurementThread, sink>>
    BY <1>5 DEF NewReference, threadVars
  <2>2. ListsInv'
    BY <1>2, <1>3, <2>1 DEF listVars, ListsInv
  <2>3. ~Shown({"refOpenError", "refReadyError"})'
    BY <1>5
  <2>4. QED
    BY <2>1, <2>2, <2>3 DEF StartModels, listVars
<1>6. CASE NewReferenceRejected /\ ~Shown({"newReference"})' /\ ~Shown({"refOpenError", "refReadyError"})'
  <2>1. UNCHANGED <<listVars, thread_status, runVars>>
    BY <1>6 DEF NewReferenceRejected, threadVars
  <2>2. ListsInv'
    BY <1>2, <2>1 DEF listVars, runVars, ListsInv
  <2>3. ~Shown({"newReference"})' /\ ~Shown({"refOpenError", "refReadyError"})'
    BY <1>6
  <2>4. QED
    BY <2>2, <2>3 DEF StartModels
<1>7. CASE (ReferenceFails \/ ReferenceNotReady) /\ ~Shown({"newReference"})'
  <2>1. PICK c \in RefConfs : AddReference(c)
    BY <1>7 DEF ReferenceFails, ReferenceNotReady
  <2>2. UNCHANGED <<thread_status, runVars>>
    BY <1>7 DEF ReferenceFails, ReferenceNotReady, threadVars
  <2>3. ListsInv' /\ referenceThread' \in References /\ rows'[referenceThread] = 0
    BY <1>3, <2>1, <2>2, AddsReference DEF runVars
  <2>4. ~Shown({"newReference"})'
    BY <1>7
  <2>5. QED
    BY <2>2, <2>3, <2>4 DEF StartModels, runVars
<1>8. CASE StartReference /\ ~Shown({"newReference"})' /\ ~Shown({"refOpenError", "refReadyError"})'
  <2>1. PICK c \in RefConfs : AddReference(c)
    BY <1>8 DEF StartReference
  <2>2. /\ thread_status' = "REFERENCE_RUNNING" /\ sink' = referenceThread
        /\ UNCHANGED <<measurementThread, referenceThread>>
    BY <1>8 DEF StartReference
  <2>3. ListsInv'
    BY <2>1, <2>2, AddsReference
  <2>4. ~Shown({"newReference"})' /\ ~Shown({"refOpenError", "refReadyError"})'
    BY <1>8
  <2>5. QED
    BY <2>3, <2>4 DEF StartModels
<1>9. CASE /\ OpenErrorClosed \/ ReferenceErrorClosed
           /\ ~Shown({"newReference"})' /\ ~Shown({"refOpenError", "refReadyError"})'
  <2>1. ~Shown({"newReference"})' /\ ~Shown({"refOpenError", "refReadyError"})'
    BY <1>9
  <2>2. CASE OpenErrorClosed
    <3>1. UNCHANGED <<listVars, runVars, thread_status>>
      BY <2>2 DEF OpenErrorClosed
    <3>2. ListsInv'
      BY <1>2, <3>1 DEF listVars, runVars, ListsInv
    <3>3. QED
      BY <2>1, <3>2 DEF StartModels
  <2>3. CASE ReferenceErrorClosed
    <3>1. /\ refs' = refs \ {referenceThread}
          /\ UNCHANGED <<thread_status, measures, selected, settings, rows, runVars>>
      BY <2>3 DEF ReferenceErrorClosed
    <3>2. Shown({"refOpenError", "refReadyError"})
      <4>1. At("refOpenError") \/ At("refReadyError")
        BY <2>3 DEF ReferenceErrorClosed
      <4>2. QED
        BY <1>2, <4>1, OnlyOne DEF StartDialogs
    <3>3. rows[referenceThread] = 0
      BY <1>2, <3>2 DEF ModelInv
    <3>4. ListsInv'
      BY <1>1, <1>2, <1>3, <3>1, <3>3 DEF runVars, ListsInv
    <3>5. QED
      BY <2>1, <3>4 DEF StartModels
  <2>4. QED
    BY <1>9, <2>2, <2>3
<1>10. QED
  BY <1>4, <1>5, <1>6, <1>7, <1>8, <1>9, StartDialogSteps

\* Every step, for the lists and the models
LEMMA ListsStep ==
    ASSUME WindowInv, [WindowNext]_vars
    PROVE  ListsInv' /\ ModelInv'
<1>1. ListsInv /\ ModelInv
  BY ListsHold DEF WindowInv
<1>2. /\ {"newReference"} \in SUBSET StartDialogs
      /\ {"refOpenError", "refReadyError"} \in SUBSET StartDialogs
  BY DEF StartDialogs
<1>3. ListsInv' /\ StartModels' => ModelInv'
  BY DEF ListsInv, StartModels, ModelInv
<1>4. StartModels
  BY <1>1 DEF StartModels, ModelInv
<1>5. CASE Plain
  <2>1. ~Shown(StartDialogs) /\ ListsInv'
    BY <1>5, PlainNotStarting, PlainLists
  <2>2. \A F \in SUBSET StartDialogs : Shown(F)' <=> Shown(F)
    BY <1>5, PlainDialogs DEF DialogsKept
  <2>3. ~Shown({"newReference"})' /\ ~Shown({"refOpenError", "refReadyError"})'
    BY <1>2, <2>1, <2>2 DEF Shown
  <2>4. QED
    BY <1>3, <2>1, <2>3 DEF StartModels
<1>6. CASE StartMeasure
  <2>1. /\ measurementThread' = selected /\ selected # NULL /\ sink' = selected
        /\ modal = << >> /\ UNCHANGED <<listVars, referenceThread, modal>>
    BY <1>6 DEF StartMeasure, Starting, AtWindow
  <2>2. ListsInv'
    BY <1>1, <2>1 DEF listVars, ListsInv
  <2>3. \A F : ~Shown(F)'
    BY <2>1 DEF Shown
  <2>4. QED
    BY <1>3, <2>2, <2>3 DEF StartModels
<1>7. CASE Cleanup
  <2>1. /\ sink' = NULL /\ thread_status' = "STOPPED"
        /\ UNCHANGED <<listVars, measurementThread, referenceThread, modal>>
    BY <1>7 DEF Cleanup
  <2>2. ListsInv'
    BY <1>1, <2>1 DEF listVars, ListsInv
  <2>3. StartModels'
    BY <1>4, <2>1 DEF StartModels, Shown, listVars
  <2>4. QED
    BY <1>3, <2>2, <2>3
<1>8. CASE UNCHANGED windowVars
  <2>1. ListsInv'
    BY <1>1, <1>8 DEF windowVars, threadVars, listVars, runVars, ListsInv
  <2>2. StartModels'
    BY <1>4, <1>8 DEF windowVars, listVars, runVars, StartModels, Shown
  <2>3. QED
    BY <1>3, <2>1, <2>2
<1>9. CASE StartSteps
  BY <1>3, <1>9, StartLists
<1>10. CASE WorkerStep \/ UNCHANGED vars
  BY <1>8, <1>10 DEF WorkerStep, vars
<1>11. QED
  BY <1>5, <1>6, <1>7, <1>9, <1>10, WindowSteps

-----------------------------------------------------------------------------
(* The project, and the type                                               *)

\* What a step leaves of the modified mark: it is set, or the data is saved,
\* or nothing changes.
MarkKept ==
    /\ thread_status' \in {thread_status, "STOPPED", "MEASURE_RUNNING", "REFERENCE_RUNNING"}
    /\ m_test' \in {m_test, "null", "live", "dangling"}
    /\ m_thread' \in {m_thread, "null", "live"}
    /\ app' \in {app, "crashed", "closed"}
    /\ project_filename' \in {project_filename, "", "chosen"}
    /\ \/ modified' = TRUE /\ stale' \in {stale, TRUE}
       \/ modified' = FALSE /\ stale' = FALSE
       \/ modified' = modified /\ stale' = stale

LEMMA PlainMark ==
    ASSUME Plain, ~GetMeasure
    PROVE  MarkKept
<1> USE DEF MarkKept
<1>1. CASE ThreadBusy \/ StartRefused \/ MessageClosed \/ NewReferenceBusy
  BY <1>1 DEF ThreadBusy, StartRefused, MessageClosed, NewReferenceBusy, threadVars,
              projectVars
<1>2. CASE StopClicked \/ ManualButtonClicked
  BY <1>2 DEF StopClicked, ManualButtonClicked, windowVars, threadVars, projectVars
<1>3. CASE CloseEvent
  BY <1>3 DEF CloseEvent, LeaveOrAsk, Quit, threadVars, projectVars
<1>4. CASE Select \/ NewMeasure \/ NewMeasureRejected \/ DeleteMeasureRefused
           \/ DeleteReferenceRefused
  BY <1>4 DEF Select, NewMeasure, NewMeasureRejected, DeleteMeasureRefused,
              DeleteReferenceRefused, threadVars, projectVars
<1>5. CASE NewMeasureAccepted \/ DeleteMeasure \/ DeleteReference
  BY <1>5 DEF NewMeasureAccepted, DeleteMeasure, DeleteReference, Touch, threadVars
<1>6. CASE ClearProject \/ LoadCleared
  BY <1>6 DEF ClearProject, LoadCleared, ClearLists, Touch, threadVars
<1>7. CASE SaveProject \/ FileNameGiven \/ LoadXml
  BY <1>7 DEF SaveProject, FileNameGiven, LoadXml, WriteProject, threadVars
<1>8. CASE AskFileName \/ LoadAsked \/ LoadDeclined \/ LoadComplains
  BY <1>8 DEF AskFileName, LoadAsked, LoadDeclined, LoadComplains, threadVars,
              projectVars
<1>9. CASE NewData \/ Message
  BY <1>9 DEF NewData, Message, threadVars, projectVars
<1>10. QED
  BY <1>1, <1>2, <1>3, <1>4, <1>5, <1>6, <1>7, <1>8, <1>9 DEF Plain, Lists, Project

LEMMA MarkStep ==
    ASSUME [WindowNext]_vars, ~GetMeasure
    PROVE  MarkKept
<1> USE DEF MarkKept
<1>1. CASE Plain
  BY <1>1, PlainMark
<1>2. CASE StartMeasure \/ Cleanup
  BY <1>2 DEF StartMeasure, Cleanup, projectVars
<1>3. CASE WorkerStep \/ UNCHANGED vars
  BY <1>3 DEF WorkerStep, vars, windowVars, threadVars, projectVars
<1>4. CASE StartFails \/ StartNotReady \/ NewReference \/ NewReferenceRejected
  BY <1>4 DEF StartFails, StartNotReady, NewReference, NewReferenceRejected, threadVars,
              projectVars
<1>5. CASE ReferenceFails \/ ReferenceNotReady
  BY <1>5 DEF ReferenceFails, ReferenceNotReady, threadVars, projectVars
<1>6. CASE StartReference
  BY <1>6 DEF StartReference, Touch
<1>7. CASE OpenErrorClosed \/ ReferenceErrorClosed
  BY <1>7 DEF OpenErrorClosed, ReferenceErrorClosed, DeleteUnstarted, projectVars
<1>8. QED
  BY <1>1, <1>2, <1>3, <1>4, <1>5, <1>6, <1>7, WindowSteps DEF StartSteps

LEMMA TypesStep ==
    ASSUME WindowInv, [WindowNext]_vars
    PROVE  WindowTypeOK'
<1>1. WindowTypeOK
  BY DEF WindowInv
<1>2. TypeOK'
  <2>1. CASE WindowNext
    BY <1>1, <2>1, WorkerView, TypeStep DEF WindowTypeOK
  <2>2. CASE UNCHANGED vars
    BY <1>1, <2>2, TypeStep DEF WindowTypeOK, vars
  <2>3. QED
    BY <2>1, <2>2
<1>3. modal' \in Seq(Frames) /\ ListsInv'
  BY StatusStep, ListsStep
<1>4. CASE GetMeasure
  <2>1. /\ stale' = (stale \/ sink # NULL)
        /\ UNCHANGED <<thread_status, m_test, m_thread, modified, project_filename, app>>
    BY <1>4 DEF GetMeasure, threadVars
  <2>2. QED
    BY <1>1, <1>2, <1>3, <2>1 DEF WindowTypeOK, ListsInv
<1>5. CASE ~GetMeasure
  <2>1. MarkKept
    BY <1>5, MarkStep
  <2>2. /\ thread_status' \in {"STOPPED", "MEASURE_RUNNING", "REFERENCE_RUNNING"}
        /\ m_test' \in {"null", "live", "dangling"}
        /\ m_thread' \in {"null", "live"}
        /\ app' \in {"running", "closed", "crashed"}
        /\ project_filename' \in {"", "chosen"}
    BY <1>1, <2>1 DEF MarkKept, WindowTypeOK
  <2>3. modified' \in BOOLEAN /\ stale' \in BOOLEAN
    <3>1. modified \in BOOLEAN /\ stale \in BOOLEAN
      BY <1>1 DEF WindowTypeOK
    <3>2. QED
      BY <2>1, <3>1, Zenon DEF MarkKept
  <2>4. QED
    BY <1>2, <1>3, <2>2, <2>3 DEF WindowTypeOK, ListsInv
<1>6. QED
  BY <1>4, <1>5

\* Only these steps change the queue of the GUI thread.
LEMMA OutboxCases ==
    ASSUME WindowInv, [WindowNext]_vars
    PROVE  \/ outbox' = outbox
           \/ GetMeasure \/ NewData \/ Message \/ Cleanup \/ WorkerStep
<1>1. CASE Plain
  BY <1>1, PlainWorker
<1>2. CASE StartMeasure
  BY <1>2 DEF StartMeasure, ConstructAt
<1>3. CASE StartSteps
  BY <1>3, StartDialogSteps DEF WindowInv, StatusInv
<1>4. CASE UNCHANGED vars
  BY <1>4 DEF vars, workerVars
<1>5. QED
  BY <1>1, <1>2, <1>3, <1>4, WindowSteps

\* What the worker posts
LEMMA WorkerPosts ==
    ASSUME Worker
    PROVE  /\ conf' = conf
           /\ \/ outbox' = outbox /\ emitted' = emitted
              \/ /\ emitted' = Count
                 /\ outbox' = outbox \o <<Done(Count), Event("newData")>>
              \/ /\ \E t \in {"message", "finished"} : outbox' = Append(outbox, Event(t))
                 /\ emitted' = emitted
<1>1. CASE Read
  BY <1>1 DEF Read
<1>2. CASE SetInitial \/ SetChannel \/ Events \/ Advance \/ SetFinal \/ Return
  BY <1>2 DEF SetInitial, SetChannel, Events, Advance, SetFinal, Return
<1>3. CASE Catch \/ ThreadFinished
  BY <1>3 DEF Catch, ThreadFinished
<1>4. QED
  BY <1>1, <1>2, <1>3 DEF Worker

\* The data of a sample is marked as soon as its newData comes.
LEMMA MarkedStep ==
    ASSUME WindowInv, [WindowNext]_vars
    PROVE  CleanMeansSaved'
<1> DEFINE Marks(q) == \E i \in 1 .. Len(q) : q[i].type = "newData"
<1>1. /\ WindowTypeOK /\ TypeOK /\ OutboxInv /\ CleanMeansSaved
      /\ modified \in BOOLEAN /\ stale \in BOOLEAN
  BY DEF WindowInv, WindowTypeOK
<1>2. WindowTypeOK' /\ TypeOK' /\ modified' \in BOOLEAN /\ stale' \in BOOLEAN
  BY TypesStep DEF WindowTypeOK
<1>3. /\ Len(outbox) \in Nat /\ DOMAIN outbox = 1 .. Len(outbox)
      /\ Len(outbox') \in Nat /\ DOMAIN outbox' = 1 .. Len(outbox')
  <2>1. outbox \in Seq([type : EventType, n : Nat])
    BY <1>1 DEF TypeOK
  <2>2. outbox' \in Seq([type : EventType, n : Nat])
    BY <1>2 DEF TypeOK
  <2>3. QED
    BY <2>1, <2>2
<1>4. stale = TRUE /\ modified = FALSE => Marks(outbox)
  BY <1>1, <1>3 DEF CleanMeansSaved
<1> SUFFICES ASSUME stale' = TRUE, modified' = FALSE
             PROVE  Marks(outbox')
  BY <1>2, <1>3 DEF CleanMeansSaved
<1>5. ASSUME outbox # << >>, outbox' = Tail(outbox)
      PROVE  /\ Len(outbox) >= 1 /\ Len(outbox') = Len(outbox) - 1
             /\ \A i \in 1 .. Len(outbox) - 1 : outbox'[i] = outbox[i + 1]
             /\ Head(outbox) = outbox[1]
  BY <1>1, <1>5, TailOutbox
<1>6. CASE GetMeasure
  <2>1. outbox # << >> /\ Head(outbox).type = "MeasureDone" /\ outbox' = Tail(outbox)
    BY <1>6 DEF GetMeasure, Take
  <2>2. 1 \in 1 .. Len(outbox) /\ outbox[1].type = "MeasureDone"
    BY <1>3, <1>5, <2>1
  <2>3. 1 + 1 <= Len(outbox) /\ outbox[1 + 1].type = "newData"
    BY <1>1, <2>2 DEF OutboxInv
  <2>4. 1 \in 1 .. Len(outbox) - 1 /\ 1 \in 1 .. Len(outbox')
    BY <1>3, <1>5, <2>1, <2>3
  <2>5. QED
    BY <1>5, <2>1, <2>3, <2>4
<1>7. CASE ~GetMeasure
  <2>1. stale = TRUE /\ modified = FALSE
    BY <1>1, <1>7, MarkStep, Zenon DEF MarkKept
  <2>2. PICK j \in 1 .. Len(outbox) : outbox[j].type = "newData"
    BY <1>4, <2>1
  <2>3. CASE outbox' = outbox
    BY <2>2, <2>3
  <2>4. CASE NewData
    BY <2>4 DEF NewData
  <2>5. CASE Message \/ Cleanup
    <3>1. /\ outbox # << >> /\ outbox' = Tail(outbox)
          /\ Head(outbox).type \in {"message", "finished"}
      BY <2>5 DEF Message, Cleanup, Take
    <3>2. j # 1
      BY <1>5, <2>2, <3>1
    <3>3. j - 1 \in 1 .. Len(outbox) - 1 /\ j - 1 \in 1 .. Len(outbox')
      BY <1>3, <1>5, <2>2, <3>1, <3>2
    <3>4. outbox'[j - 1] = outbox[j - 1 + 1] /\ j - 1 + 1 = j
      BY <1>5, <3>1, <3>3
    <3>5. QED
      BY <2>2, <3>3, <3>4
  <2>6. CASE WorkerStep
    <3>1. CASE outbox' = outbox \o <<Done(Count), Event("newData")>>
      <4>1. Len(outbox') = Len(outbox) + 2 /\ outbox'[j] = outbox[j]
        BY <1>1, <3>1, SampledOutbox
      <4>2. QED
        BY <1>3, <2>2, <4>1
    <3>2. ASSUME NEW e, outbox' = Append(outbox, e)
          PROVE  Marks(outbox')
      <4>1. Len(outbox') = Len(outbox) + 1 /\ outbox'[j] = outbox[j]
        BY <1>1, <3>2, PostedOutbox
      <4>2. QED
        BY <1>3, <2>2, <4>1
    <3>3. QED
      BY <2>3, <2>6, <3>1, <3>2, WorkerPosts DEF WorkerStep
  <2>7. QED
    BY <1>7, <2>3, <2>4, <2>5, <2>6, OutboxCases
<1>8. QED
  BY <1>6, <1>7

-----------------------------------------------------------------------------
(* The rows of a run                                                       *)

PostedTypes == [type : EventType, n : Nat]

LEMMA UnderwayNone == Underway(0, 0, << >>)
BY DEF Underway

LEMMA PostedElements ==
    ASSUME NEW q \in Seq(PostedTypes)
    PROVE  /\ Len(q) \in Nat
           /\ \A i \in 1 .. Len(q) : q[i] \in PostedTypes /\ q[i].n \in Nat
<1>1. Len(q) \in Nat /\ \A i \in 1 .. Len(q) : q[i] \in PostedTypes
  BY ElementOfSeq, LenProperties
<1>2. QED
  BY <1>1 DEF PostedTypes

LEMMA UnderwaySkip ==
    ASSUME NEW q \in Seq(PostedTypes), NEW r \in Nat, NEW e \in Nat, Underway(r, e, q),
           q # << >>, Head(q).type # "MeasureDone"
    PROVE  Underway(r, e, Tail(q))
<1> DEFINE t == Tail(q)
<1>1. /\ Len(q) \in Nat /\ Len(q) >= 1 /\ Len(t) = Len(q) - 1 /\ Len(t) \in Nat
      /\ \A i \in 1 .. Len(t) : t[i] = q[i + 1] /\ i + 1 \in 1 .. Len(q)
      /\ Head(q) = q[1]
  OBVIOUS
<1> HIDE DEF t
<1>2. \A i \in 1 .. Len(t) : t[i].type = "MeasureDone" => r < t[i].n /\ t[i].n <= e
  BY <1>1 DEF Underway
<1>3. \A i, j \in 1 .. Len(t) :
         i < j /\ t[i].type = "MeasureDone" /\ t[j].type = "MeasureDone" => t[i].n < t[j].n
  BY <1>1 DEF Underway
<1>4. ASSUME NEW m \in r + 1 .. e
      PROVE  \E i \in 1 .. Len(t) : t[i].type = "MeasureDone" /\ t[i].n = m
  <2>1. PICK i \in 1 .. Len(q) : q[i].type = "MeasureDone" /\ q[i].n = m
    BY DEF Underway
  <2>2. i # 1
    BY <1>1, <2>1
  <2>3. i - 1 \in 1 .. Len(t)
    BY <1>1, <2>2
  <2>4. t[i - 1] = q[i - 1 + 1] /\ i - 1 + 1 = i
    BY <1>1, <2>3
  <2>5. QED
    BY <2>1, <2>3, <2>4
<1>5. Underway(r, e, t)
  BY <1>2, <1>3, <1>4 DEF Underway
<1>6. QED
  BY <1>5 DEF t

LEMMA UnderwayNext ==
    ASSUME NEW q \in Seq(PostedTypes), NEW r \in Nat, NEW e \in Nat, Underway(r, e, q),
           q # << >>, Head(q).type = "MeasureDone"
    PROVE  Head(q).n = r + 1 /\ Underway(r + 1, e, Tail(q))
<1> DEFINE t == Tail(q)
<1>1. /\ Len(q) \in Nat /\ Len(q) >= 1 /\ Len(t) = Len(q) - 1 /\ Len(t) \in Nat
      /\ \A i \in 1 .. Len(t) : t[i] = q[i + 1] /\ i + 1 \in 1 .. Len(q)
      /\ Head(q) = q[1] /\ 1 \in 1 .. Len(q)
      /\ \A i \in 1 .. Len(q) : q[i].n \in Nat
  <2>1. \A i \in 1 .. Len(q) : q[i].n \in Nat
    BY PostedElements
  <2>2. QED
    BY <2>1
<1> HIDE DEF t
<1>2. r < q[1].n /\ q[1].n <= e
  BY <1>1 DEF Underway
<1>3. q[1].n = r + 1
  <2>1. PICK i \in 1 .. Len(q) : q[i].type = "MeasureDone" /\ q[i].n = r + 1
    <3>1. r + 1 \in r + 1 .. e
      BY <1>1, <1>2
    <3>2. QED
      BY <3>1 DEF Underway
  <2>2. CASE i = 1
    BY <2>1, <2>2
  <2>3. CASE i # 1
    <3>1. q[1].n < q[i].n
      BY <1>1, <2>1, <2>3 DEF Underway
    <3>2. QED
      BY <1>1, <1>2, <2>1, <3>1
  <2>4. QED
    BY <2>2, <2>3
<1>4. ASSUME NEW i \in 1 .. Len(t), t[i].type = "MeasureDone"
      PROVE  r + 1 < t[i].n /\ t[i].n <= e
  <2>1. t[i] = q[i + 1] /\ i + 1 \in 1 .. Len(q) /\ 1 < i + 1
    BY <1>1
  <2>2. q[1].n < q[i + 1].n /\ q[i + 1].n <= e
    BY <1>1, <1>4, <2>1 DEF Underway
  <2>3. QED
    BY <1>3, <2>1, <2>2
<1>5. \A i, j \in 1 .. Len(t) :
         i < j /\ t[i].type = "MeasureDone" /\ t[j].type = "MeasureDone" => t[i].n < t[j].n
  <2>1. ASSUME NEW i \in 1 .. Len(t), NEW j \in 1 .. Len(t), i < j,
               t[i].type = "MeasureDone", t[j].type = "MeasureDone"
        PROVE  t[i].n < t[j].n
    <3>1. /\ i + 1 \in 1 .. Len(q) /\ j + 1 \in 1 .. Len(q) /\ i + 1 < j + 1
          /\ t[i] = q[i + 1] /\ t[j] = q[j + 1]
      BY <1>1, <2>1
    <3>2. QED
      BY <2>1, <3>1 DEF Underway
  <2>2. QED
    BY <2>1
<1>6. ASSUME NEW m \in r + 1 + 1 .. e
      PROVE  \E i \in 1 .. Len(t) : t[i].type = "MeasureDone" /\ t[i].n = m
  <2>1. PICK i \in 1 .. Len(q) : q[i].type = "MeasureDone" /\ q[i].n = m
    BY DEF Underway
  <2>2. i # 1
    BY <1>3, <2>1
  <2>3. i - 1 \in 1 .. Len(t)
    BY <1>1, <2>2
  <2>4. t[i - 1] = q[i - 1 + 1] /\ i - 1 + 1 = i
    BY <1>1, <2>3
  <2>5. QED
    BY <2>1, <2>3, <2>4
<1>7. Underway(r + 1, e, t)
  BY <1>1, <1>2, <1>3, <1>4, <1>5, <1>6 DEF Underway
<1>8. QED
  BY <1>1, <1>3, <1>7 DEF t

LEMMA UnderwayPosted ==
    ASSUME NEW q \in Seq(PostedTypes), NEW r \in Nat, NEW e \in Nat, Underway(r, e, q),
           NEW v, v.type # "MeasureDone"
    PROVE  Underway(r, e, Append(q, v))
<1> DEFINE t == Append(q, v)
<1>1. /\ Len(q) \in Nat /\ Len(t) = Len(q) + 1
      /\ \A i \in 1 .. Len(q) : t[i] = q[i]
      /\ t[Len(q) + 1] = v
  OBVIOUS
<1> HIDE DEF t
<1>2. \A i \in 1 .. Len(t) : t[i].type = "MeasureDone" =>
         i \in 1 .. Len(q) /\ t[i] = q[i]
  BY <1>1
<1>3. ASSUME NEW m \in r + 1 .. e
      PROVE  \E i \in 1 .. Len(t) : t[i].type = "MeasureDone" /\ t[i].n = m
  <2>1. PICK i \in 1 .. Len(q) : q[i].type = "MeasureDone" /\ q[i].n = m
    BY DEF Underway
  <2>2. i \in 1 .. Len(t) /\ t[i] = q[i]
    BY <1>1
  <2>3. QED
    BY <2>1, <2>2
<1>4. \A i, j \in 1 .. Len(t) :
         i < j /\ t[i].type = "MeasureDone" /\ t[j].type = "MeasureDone" => t[i].n < t[j].n
  BY <1>2 DEF Underway
<1>5. Underway(r, e, t)
  BY <1>2, <1>3, <1>4 DEF Underway
<1>6. QED
  BY <1>5 DEF t

LEMMA UnderwaySampled ==
    ASSUME NEW q \in Seq(PostedTypes), NEW r \in Nat, NEW e \in Nat, Underway(r, e, q)
    PROVE  Underway(r, e + 1, q \o <<Done(e + 1), Event("newData")>>)
<1> DEFINE t == q \o <<Done(e + 1), Event("newData")>>
<1>1. /\ Len(q) \in Nat /\ Len(t) = Len(q) + 2
      /\ \A i \in 1 .. Len(q) : t[i] = q[i]
      /\ t[Len(q) + 1] = Done(e + 1) /\ t[Len(q) + 2] = Event("newData")
      /\ \A i \in 1 .. Len(q) : q[i].n \in Nat
  <2>1. \A i \in 1 .. Len(q) : q[i].n \in Nat
    BY PostedElements
  <2>2. QED
    BY <2>1
<1> HIDE DEF t
<1>2. /\ Done(e + 1).type = "MeasureDone" /\ Done(e + 1).n = e + 1
      /\ Event("newData").type = "newData"
  BY DEF Done, Event
<1>3. \A i \in 1 .. Len(t) : t[i].type = "MeasureDone" =>
         i \in 1 .. Len(q) \/ (i = Len(q) + 1 /\ t[i].n = e + 1)
  <2>1. \A i \in 1 .. Len(t) :
           i \in 1 .. Len(q) \/ i = Len(q) + 1 \/ i = Len(q) + 2
    BY <1>1
  <2>2. QED
    BY <1>1, <1>2, <2>1
<1>4. \A i \in 1 .. Len(t) : t[i].type = "MeasureDone" => r < t[i].n /\ t[i].n <= e + 1
  BY <1>1, <1>3 DEF Underway
<1>5. \A i, j \in 1 .. Len(t) :
         i < j /\ t[i].type = "MeasureDone" /\ t[j].type = "MeasureDone" => t[i].n < t[j].n
  <2>1. ASSUME NEW i \in 1 .. Len(t), NEW j \in 1 .. Len(t), i < j,
               t[i].type = "MeasureDone", t[j].type = "MeasureDone"
        PROVE  t[i].n < t[j].n
    <3>1. CASE j \in 1 .. Len(q)
      BY <1>1, <2>1, <3>1 DEF Underway
    <3>2. CASE j = Len(q) + 1 /\ t[j].n = e + 1
      <4>1. i \in 1 .. Len(q)
        BY <1>1, <2>1, <3>2
      <4>2. t[i].n <= e /\ t[i].n \in Nat
        BY <1>1, <2>1, <4>1 DEF Underway
      <4>3. QED
        BY <3>2, <4>2
    <3>3. QED
      BY <1>3, <2>1, <3>1, <3>2
  <2>2. QED
    BY <2>1
<1>6. ASSUME NEW m \in r + 1 .. e + 1
      PROVE  \E i \in 1 .. Len(t) : t[i].type = "MeasureDone" /\ t[i].n = m
  <2>1. CASE m = e + 1
    BY <1>1, <1>2, <2>1
  <2>2. CASE m # e + 1
    <3>1. m \in r + 1 .. e
      BY <2>2
    <3>2. PICK i \in 1 .. Len(q) : q[i].type = "MeasureDone" /\ q[i].n = m
      BY <3>1 DEF Underway
    <3>3. i \in 1 .. Len(t) /\ t[i] = q[i]
      BY <1>1
    <3>4. QED
      BY <3>2, <3>3
  <2>3. QED
    BY <2>1, <2>2
<1>7. Underway(r, e + 1, t)
  BY <1>4, <1>5, <1>6 DEF Underway
<1>8. QED
  BY <1>7 DEF t

\* Every step, for the rows
LEMMA RowsStep ==
    ASSUME WindowInv, [WindowNext]_vars
    PROVE  RowsInv'
<1>1. /\ WindowTypeOK /\ TypeOK /\ RowsInv /\ OutboxInv /\ ListsInv
      /\ emitted \in Nat /\ outbox \in Seq(PostedTypes) /\ rows \in [Models -> Nat]
      /\ sink # NULL => sink \in Models /\ rows[sink] \in Nat
  <2>1. WindowTypeOK /\ TypeOK /\ RowsInv /\ OutboxInv /\ ListsInv
    BY ListsHold DEF WindowInv, WindowTypeOK
  <2>2. emitted \in Nat /\ outbox \in Seq(PostedTypes)
    BY <2>1 DEF TypeOK, PostedTypes
  <2>3. rows \in [Models -> Nat] /\ (sink # NULL => sink \in Models)
    BY <2>1 DEF ListsInv, Models
  <2>4. QED
    BY <2>1, <2>2, <2>3
<1>2. TypeOK' /\ ListsInv' /\ emitted' \in Nat
  BY TypesStep, ListsStep DEF WindowTypeOK, TypeOK
<1>3. ASSUME sink' # NULL, sink' = sink, rows'[sink] = rows[sink], conf' = conf,
             Underway(rows[sink], emitted, outbox) =>
                Underway(rows[sink], emitted', outbox')
      PROVE  RowsInv'
  BY <1>1, <1>3 DEF RowsInv, Endless
<1>4. ASSUME sink' # NULL, rows'[sink'] = 0, emitted' = 0, outbox' = << >>
      PROVE  RowsInv'
  BY <1>4, UnderwayNone DEF RowsInv
<1>5. CASE sink' = NULL
  BY <1>5 DEF RowsInv
<1>6. CASE GetMeasure
  <2>1. /\ outbox # << >> /\ Head(outbox).type = "MeasureDone" /\ outbox' = Tail(outbox)
        /\ rows' = [a \in Models |-> IF ~Receives(a) THEN rows[a]
                                     ELSE IF Endless THEN 1 ELSE rows[a] + 1]
        /\ UNCHANGED <<conf, emitted, sink>>
    BY <1>6 DEF GetMeasure, Take, workerButOutbox, runVars
  <2>2. SUFFICES ASSUME sink # NULL, ~Endless
                 PROVE  Underway(rows'[sink], emitted, outbox')
    BY <2>1 DEF RowsInv, Endless
  <2>3. rows'[sink] = rows[sink] + 1
    BY <1>1, <2>1, <2>2 DEF Receives
  <2>4. Underway(rows[sink], emitted, outbox)
    BY <1>1, <2>2 DEF RowsInv
  <2>5. QED
    BY <1>1, <2>1, <2>2, <2>3, <2>4, UnderwayNext
<1>7. CASE Plain /\ ~GetMeasure /\ sink' # NULL
  <2>1. sink' = sink /\ rows'[sink] = rows[sink]
    BY <1>7, PlainLists
  <2>2. conf' = conf /\ emitted' = emitted
    BY <1>7, PlainWorker
  <2>3. CASE outbox' = outbox
    BY <1>3, <1>7, <2>1, <2>2, <2>3
  <2>4. CASE NewData \/ Message
    <3>1. /\ outbox # << >> /\ outbox' = Tail(outbox)
          /\ Head(outbox).type # "MeasureDone"
      BY <2>4 DEF NewData, Message, Take
    <3>2. Underway(rows[sink], emitted, outbox) => Underway(rows[sink], emitted', outbox')
      BY <1>1, <1>7, <2>1, <2>2, <3>1, UnderwaySkip
    <3>3. QED
      BY <1>3, <1>7, <2>1, <2>2, <3>2
  <2>5. QED
    BY <1>7, <2>3, <2>4, PlainWorker
<1>8. CASE StartMeasure
  <2>1. /\ thread_status = "STOPPED" /\ modal = << >> /\ rows[selected] = 0
        /\ sink' = selected /\ rows' = rows /\ emitted' = 0 /\ outbox' = outbox
    BY <1>8 DEF StartMeasure, Starting, AtWindow, EmptyMeasure, ConstructAt, Fresh, listVars
  <2>2. outbox = << >>
    BY <2>1, NoObject
  <2>3. QED
    BY <1>4, <1>5, <2>1, <2>2
<1>9. CASE StartReference
  <2>1. PICK c \in RefConfs : AddReference(c)
    BY <1>9 DEF StartReference
  <2>2. /\ sink' = referenceThread /\ emitted' = 0 /\ thread_status' = "REFERENCE_RUNNING"
        /\ UNCHANGED <<measurementThread, referenceThread>>
    BY <1>9 DEF StartReference, ConstructAt, Fresh
  <2>3. rows'[referenceThread] = 0
    BY <2>1, <2>2, AddsReference
  <2>4. outbox' = << >>
    BY <1>9, StartDialogSteps DEF StartSteps
  <2>5. QED
    BY <1>4, <1>5, <2>2, <2>3, <2>4
<1>10. CASE StartSteps /\ ~StartReference
  <2>1. sink = NULL /\ sink' = sink
    BY <1>10, StartDialogSteps
  <2>2. QED
    BY <1>5, <2>1
<1>11. CASE Cleanup
  BY <1>5, <1>11 DEF Cleanup
<1>12. CASE WorkerStep /\ sink' # NULL
  <2>1. sink' = sink /\ rows' = rows /\ Worker
    BY <1>12 DEF WorkerStep, windowVars, listVars, runVars
  <2>2. conf' = conf
    BY <2>1, WorkerPosts
  <2>3. CASE outbox' = outbox /\ emitted' = emitted
    BY <1>3, <1>12, <2>1, <2>2, <2>3
  <2>4. ASSUME NEW t \in {"message", "finished"}, outbox' = Append(outbox, Event(t)),
               emitted' = emitted
        PROVE  RowsInv'
    <3>1. Event(t).type # "MeasureDone"
      BY DEF Event
    <3>2. Underway(rows[sink], emitted, outbox) => Underway(rows[sink], emitted', outbox')
      BY <1>1, <1>12, <2>1, <2>4, <3>1, UnderwayPosted
    <3>3. QED
      BY <1>3, <1>12, <2>1, <2>2, <3>2
  <2>5. CASE /\ outbox' = outbox \o <<Done(Count), Event("newData")>>
             /\ emitted' = Count
    <3>1. CASE Endless
      BY <2>2, <3>1 DEF RowsInv, Endless
    <3>2. CASE ~Endless
      <4>1. Count = emitted + 1
        BY <3>2 DEF Count
      <4>2. Underway(rows[sink], emitted, outbox) =>
               Underway(rows[sink], emitted', outbox')
        BY <1>1, <1>12, <2>1, <2>5, <4>1, UnderwaySampled
      <4>3. QED
        BY <1>3, <1>12, <2>1, <2>2, <4>2
    <3>3. QED
      BY <3>1, <3>2
  <2>6. QED
    BY <2>1, <2>3, <2>4, <2>5, WorkerPosts
<1>13. CASE UNCHANGED vars
  BY <1>1, <1>13 DEF vars, workerVars, windowVars, listVars, runVars, RowsInv, Endless
<1>14. QED
  BY <1>5, <1>6, <1>7, <1>8, <1>9, <1>10, <1>11, <1>12, <1>13, WindowSteps

-----------------------------------------------------------------------------
(* The invariant of the window                                             *)

LEMMA WindowStarts == WindowInit => WindowInv
<1> SUFFICES ASSUME WindowInit PROVE WindowInv
  OBVIOUS
<1>1. TypeOK /\ outbox = << >> /\ pc = "none" /\ conf \in Confs
  BY InitType DEF WindowInit, Init
<1>2. modal = << >> /\ modal \in Seq(Frames) /\ Len(modal) = 0
  <2>1. modal = << >>
    BY DEF WindowInit
  <2>2. QED
    BY <2>1
<1>3. WindowTypeOK
  <2>1. settings \in [Models -> Confs] /\ rows \in [Models -> Nat]
    BY <1>1 DEF WindowInit
  <2>2. QED
    BY <1>1, <1>2, <2>1 DEF WindowInit, WindowTypeOK
<1>4. \A F : ~Shown(F)
  BY <1>2 DEF Shown
<1>5. DialogInv /\ StatusInv
  <2>1. thread_status = "STOPPED" /\ m_thread = "null" /\ m_test = "null" /\ sink = NULL
    BY DEF WindowInit
  <2>2. \A i \in 2 .. Len(modal) : modal[i] = "message"
    BY <1>2
  <2>3. QED
    BY <1>1, <1>4, <2>1, <2>2 DEF DialogInv, StatusInv
<1>6. OutboxInv
  BY <1>1 DEF OutboxInv
<1>7. ModelInv /\ RowsInv /\ CleanMeansSaved
  BY <1>4 DEF WindowInit, ModelInv, RowsInv, CleanMeansSaved
<1>8. QED
  BY <1>3, <1>5, <1>6, <1>7 DEF WindowInv

LEMMA WindowStep ==
    ASSUME WindowInv, [WindowNext]_vars
    PROVE  WindowInv'
<1>1. OutboxInv'
  <2>1. TypeOK /\ OutboxInv
    BY DEF WindowInv, WindowTypeOK
  <2>2. [Next]_workerVars
    BY WorkerView DEF vars
  <2>3. QED
    BY <2>1, <2>2, OutboxStep
<1>2. QED
  BY <1>1, TypesStep, StatusStep, ListsStep, RowsStep, MarkedStep DEF WindowInv

(* The window, its dialogs, the worker, the queue between them and the     *)
(* lists stay in step, whatever the user clicks and in whatever order the  *)
(* events of the worker are processed.                                     *)
THEOREM WindowInvariant == WindowSpec => []WindowInv
BY WindowStarts, WindowStep, PTL DEF WindowSpec

(* What the window shows is what the worker does.                          *)
THEOREM ShowsStatus == WindowSpec => []StatusShown
<1>1. ASSUME WindowInv
      PROVE  StatusShown
  <2>1. /\ WindowTypeOK /\ StatusInv /\ OutboxInv /\ ModelInv
        /\ Len(outbox) \in Nat /\ DOMAIN outbox = 1 .. Len(outbox)
        /\ Len(modal) \in Nat
    <3>1. WindowTypeOK /\ TypeOK /\ StatusInv /\ OutboxInv /\ ModelInv
      BY <1>1 DEF WindowInv, WindowTypeOK
    <3>2. outbox \in Seq([type : EventType, n : Nat]) /\ modal \in Seq(Frames)
      BY <3>1 DEF WindowTypeOK, TypeOK
    <3>3. QED
      BY <3>1, <3>2
  <2>2. \A i, j \in FinishedPending : i = j
    <3>1. \A i \in FinishedPending : i = Len(outbox)
      BY <2>1 DEF FinishedPending, OutboxInv
    <3>2. QED
      BY <3>1
  <2>3. pc = "ended" <=> FinishedPending # {}
    <3>1. ASSUME pc = "ended"
          PROVE  FinishedPending # {}
      <4>1. outbox # << >> /\ outbox[Len(outbox)].type = "finished"
        BY <2>1, <3>1 DEF OutboxInv
      <4>2. Len(outbox) # 0
        BY <2>1, <4>1, EmptySeq DEF WindowTypeOK, TypeOK
      <4>3. Len(outbox) \in FinishedPending
        BY <2>1, <4>1, <4>2 DEF FinishedPending
      <4>4. QED
        BY <4>3
    <3>2. QED
      BY <2>1, <3>1 DEF FinishedPending, OutboxInv
  <2>4. pc = "built" => modal # << >>
    BY <2>1 DEF StatusInv, Shown
  <2>5. StatusAgrees
    BY <2>1, <2>2, <2>3, <2>4 DEF StatusAgrees, StatusInv
  <2>6. StopEnabled
    BY <2>1 DEF StopEnabled, ModelInv
  <2>7. QED
    BY <2>1, <2>5, <2>6 DEF StatusShown
<1>2. QED
  BY <1>1, WindowInvariant, PTL

(* A window without the modified mark has nothing to save.                 *)
THEOREM NothingToSave == WindowSpec => []CleanMeansSaved
<1>1. WindowInv => CleanMeansSaved
  BY DEF WindowInv
<1>2. QED
  BY <1>1, WindowInvariant, PTL

(* When a run is cleaned up, no sample of it is missing from its model.    *)
THEOREM RowsDelivered == WindowSpec => AllRowsDelivered
<1>1. ASSUME WindowInv, [WindowNext]_vars
      PROVE  [thread_status # "STOPPED" /\ thread_status' = "STOPPED"
                 => sink = NULL \/ Endless \/ rows[sink] = emitted]_vars
  <2>1. /\ TypeOK /\ OutboxInv /\ RowsInv /\ ListsInv
        /\ emitted \in Nat /\ Len(outbox) \in Nat
    <3>1. TypeOK /\ OutboxInv /\ RowsInv /\ ListsInv
      BY <1>1, ListsHold DEF WindowInv, WindowTypeOK
    <3>2. emitted \in Nat /\ outbox \in Seq([type : EventType, n : Nat])
      BY <3>1 DEF TypeOK
    <3>3. QED
      BY <3>1, <3>2
  <2>2. SUFFICES ASSUME thread_status # "STOPPED", thread_status' = "STOPPED",
                        sink # NULL, ~Endless
                 PROVE  rows[sink] = emitted
    OBVIOUS
  <2>3. Cleanup
    <3>1. ~Plain /\ ~StartSteps
      BY <1>1, <2>2, PlainWorker, StartDialogSteps
    <3>2. ~StartMeasure
      BY <2>2 DEF StartMeasure
    <3>3. ~WorkerStep /\ ~UNCHANGED vars
      BY <2>2 DEF WorkerStep, vars, windowVars, threadVars
    <3>4. QED
      BY <1>1, <3>1, <3>2, <3>3, WindowSteps
  <2>4. outbox # << >> /\ Head(outbox).type = "finished"
    BY <2>3 DEF Cleanup, Take
  <2>5. Len(outbox) <= 1 /\ Head(outbox) = outbox[1]
    BY <2>1, <2>4, LastEvent, TailOutbox
  <2>6. \A i \in 1 .. Len(outbox) : outbox[i].type # "MeasureDone"
    <3>1. \A i \in 1 .. Len(outbox) : i = 1
      BY <2>1, <2>5
    <3>2. QED
      BY <2>4, <2>5, <3>1
  <2>7. Underway(rows[sink], emitted, outbox) /\ rows[sink] \in Nat
    BY <2>1, <2>2 DEF RowsInv, ListsInv, Models
  <2>8. ~(emitted \in rows[sink] + 1 .. emitted)
    BY <2>6, <2>7 DEF Underway
  <2>9. QED
    BY <2>1, <2>7, <2>8 DEF Underway
<1>2. QED
  BY <1>1, WindowInvariant, PTL DEF WindowSpec, AllRowsDelivered

-----------------------------------------------------------------------------
(* The worker in the program                                               *)

(* No thread is inside the object when it is deleted or overwritten.       *)
THEOREM NotPulled == WindowSpec => WorkerNotPulled
<1>1. ASSUME WindowInv, [WindowNext]_vars
      PROVE  [/\ m_test = "live" /\ m_test' # "live" => pc \in {"built", "ended"}
              /\ pc' \in {"built", "started"} /\ pc' # pc => pc = "none"]_vars
  <2>1. /\ TypeOK /\ OutboxInv /\ StatusInv /\ [Next]_workerVars
    BY <1>1, WorkerView DEF WindowInv, WindowTypeOK, vars
  <2>2. ASSUME pc' \in {"built", "started"}, pc' # pc
        PROVE  pc = "none"
    <3>1. ~Worker
      BY <2>2 DEF Worker, SetInitial, SetChannel, Read, Events, Advance, SetFinal, Catch,
                  Return, ThreadFinished, Throw
    <3>2. ~(FailedRun \/ NotReady \/ GuiPost \/ GuiTakes \/ GuiDelete)
      BY <2>2 DEF FailedRun, ConstructFails, NotReady, Destroy, Delete, GuiPost, Post,
                  GuiTakes, GuiDelete
    <3>3. NewRun
      BY <2>1, <2>2, <3>1, <3>2 DEF Next, Environment, workerVars
    <3>4. QED
      BY <3>3 DEF NewRun
  <2>3. ASSUME m_test = "live", m_test' # "live"
        PROVE  pc \in {"built", "ended"}
    <3>1. ~Plain
      BY <2>3, PlainWorker
    <3>2. CASE StartMeasure
      BY <2>3, <3>2 DEF StartMeasure
    <3>3. CASE Cleanup
      BY <2>1, <3>3, LastEvent DEF Cleanup, Take
    <3>4. CASE StartSteps
      <4>1. CASE OpenErrorClosed \/ ReferenceErrorClosed
        <5>1. pc \in {"built", "none"}
          BY <1>1, <4>1, DeletesUnstarted DEF OpenErrorClosed, ReferenceErrorClosed
        <5>2. QED
          BY <2>1, <2>3, <5>1 DEF StatusInv
      <4>2. QED
        BY <1>1, <2>3, <3>4, <4>1, StartDialogSteps DEF threadVars
    <3>5. CASE WorkerStep \/ UNCHANGED vars
      BY <2>3, <3>5 DEF WorkerStep, vars, windowVars, threadVars
    <3>6. QED
      BY <1>1, <3>1, <3>2, <3>3, <3>4, <3>5, WindowSteps
  <2>4. QED
    BY <2>2, <2>3
<1>2. QED
  BY <1>1, WindowInvariant, PTL DEF WindowSpec, WorkerNotPulled

(* The window is an environment MeasureThread.tla allows for.              *)
THEOREM WindowIsEnvironment == WindowSpec => WorkerEnvironment
<1>1. WindowInit => Init
  BY DEF WindowInit
<1>2. WindowInv /\ [WindowNext]_vars => [Next]_workerVars
  BY WorkerView DEF vars
<1>3. QED
  BY <1>1, <1>2, WindowInvariant, NotPulled, PTL DEF WindowSpec, WorkerEnvironment, Spec

(* So a run started from the window samples on its grid, in whole groups,  *)
(* with the commands of the user held, as many times as its range has      *)
(* points in reach, and with a bar that goes forward.                      *)
THEOREM RunsTrue ==
    WindowSpec => /\ [](SampledOnGrid /\ WholeGroups /\ ManualHeld /\ RowCount)
                  /\ GroupsKept /\ ProgressForward
BY WindowIsEnvironment, OnGrid, Whole, Manual, RowsCounted, KeepsGroups,
   ProgressGoesOn, PTL
   DEF WorkerEnvironment
=============================================================================
