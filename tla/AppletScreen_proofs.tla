------------------------- MODULE AppletScreen_proofs -------------------------
(***************************************************************************)
(* Proofs about AppletScreen for any keys, any dialogs and any bounds.     *)
(*                                                                         *)
(* Assigning `_task` drops the task before.  That nothing is lost by it    *)
(* rests on which tasks and dialogs can be there together (`Together`): a  *)
(* task that runs has its dialog, a file chooser has none.                 *)
(*                                                                         *)
(* The second half is about what the page shows: that it is what its key   *)
(* holds (`ContentsInv`), that its key is the one that was read            *)
(* (`KeyInv`), and what both mean for a secret a dialog fills in by itself *)
(* (`DefaultsInv`).                                                        *)
(***************************************************************************)
EXTENDS AppletScreen, TLAPS

\* What is assumed of the constants.  A dialog that goes with a file chooser
\* has a button that is off while the view loads: the chooser takes the slot
\* of the load.
ChoosersAssumption == \A form \in Forms : form.file # "none" => form.off # "never"

Assumptions ==
  /\ KeysAssumption /\ ScreenAssumption /\ FormsAssumption /\ ChoosersAssumption
  /\ NoTask \notin Tasks

Together ==
  task # NoTask =>
    /\ task.op = "run" => dialog.phase = "working" /\ dialog.form = task.form
    /\ task.op = "file" => dialog = Closed

\* A key was changed no more often than dialogs were used, one less while
\* one of them has yet to do its work.
Pending ==
  \/ dialog.phase = "input"
  \/ task # NoTask /\ (task.op = "file" \/ (task.op = "run" /\ task.res = "running"))
Budget == \A k \in Keys : version[k] <= inputs /\ (Pending => version[k] < inputs)

Inv ==
  /\ TypeOK /\ LoadingIsTask /\ Together /\ Budget
  /\ ~Busy => WorkingIsTask

-----------------------------------------------------------------------------
\* A task that starts is a task.
LEMMA TaskType ==
  ASSUME NEW op \in {"load", "run", "file", "export"}, NEW form \in FormType \cup {NoForm}, NEW with \in Secrets,
         Assumptions
  PROVE  /\ Task(op, form, with) \in Tasks /\ Task(op, form, with) # NoTask
         /\ Task(op, form, with).op = op /\ Task(op, form, with).form = form
         /\ Task(op, form, with).res = "running"
<1>1. Nothing \in Infos
  BY DEF Assumptions, ScreenAssumption, Nothing, Infos, Sockets
<1>2. Task(op, form, with) \in Tasks
  BY <1>1 DEF Task, Tasks
<1> QED BY <1>2 DEF Assumptions, Task

\* What load() does to the flag and the task keeps the two together.
LEMMA LoadIsTask ==
  ASSUME Assumptions, Inv, Load
  PROVE  /\ loading' \in BOOLEAN /\ task' \in Tasks \cup {NoTask}
         /\ LoadingIsTask'
         /\ task' = task \/ (~loading /\ task' # NoTask /\ task'.op = "load")
<1>1. CASE UNCHANGED <<loading, task>>
  BY <1>1 DEF Inv, TypeOK, LoadingIsTask
<1>2. CASE ~loading /\ loading' = TRUE /\ task' = Task("load", NoForm, "wrong")
  <2>1. "wrong" \in Secrets /\ NoForm \in FormType \cup {NoForm}
    BY DEF Secrets
  <2> QED BY <1>2, <2>1, TaskType DEF LoadingIsTask
<1> QED BY <1>1, <1>2 DEF Load

LEMMA InitInv ==
  ASSUME Assumptions, Init
  PROVE  Inv
<1>1. loading \in BOOLEAN /\ task \in Tasks \cup {NoTask} /\ (task # NoTask => task.op = "load") /\ LoadingIsTask
  <2>1. "wrong" \in Secrets /\ NoForm \in FormType \cup {NoForm}
    BY DEF Secrets
  <2>2. CASE Ready
    BY <2>1, <2>2, TaskType DEF Init, LoadingIsTask
  <2>3. CASE ~Ready
    BY <2>3 DEF Init, LoadingIsTask, Ready
  <2> QED BY <2>2, <2>3
<1>2. KeyTypeOK
  BY DEF Init, KeyInit, KeyTypeOK
<1>3. Nothing \in Infos /\ Closed \in Dialogs /\ Closed.phase = "closed"
  BY DEF Assumptions, ScreenAssumption, Nothing, Infos, Sockets, Closed, Dialogs
<1>4. /\ version \in [Keys -> 0..MaxInputs] /\ tries \in [Keys -> 0..MaxTries]
      /\ secret \in [Keys -> {"factory", "own"}] /\ inputs \in 0..MaxInputs
  BY DEF Init, Assumptions, ScreenAssumption
<1>5. TypeOK
  BY <1>1, <1>2, <1>3, <1>4 DEF Init, TypeOK
<1>6. Budget
  <2>1. ~Pending
    BY <1>1, <1>3 DEF Init, Pending
  <2>2. \A k \in Keys : version[k] <= inputs
    <3>1. version = [k \in Keys |-> 0] /\ inputs = 0
      BY DEF Init
    <3>2. \A k \in Keys : version[k] = 0
      BY <3>1
    <3>3. 0 <= 0
      OBVIOUS
    <3> QED BY <3>1, <3>2, <3>3, Zenon
  <2> QED BY <2>1, <2>2 DEF Budget
<1> QED BY <1>1, <1>3, <1>5, <1>6 DEF Inv, Together, WorkingIsTask, Init

-----------------------------------------------------------------------------
\* The background half: a task that ran has its answer.
LEMMA AnswerKeeps ==
  ASSUME Assumptions, Inv, Background, task # NoTask, task.res = "running",
         task' \in Tasks, task'.op = task.op, task'.form = task.form, task'.res # "running",
         secret' \in [Keys -> {"factory", "own"}], version' \in [Keys -> 0..MaxInputs],
         tries' \in [Keys -> 0..MaxTries], spent' \in BOOLEAN, unread' \in BOOLEAN,
         \A k \in Keys : version'[k] <= inputs,
         task.op # "run" => version' = version
  PROVE  Inv'
<1>1. task' # NoTask
  BY DEF Assumptions
<1>2. TypeOK'
  BY DEF Background, keyVars, Inv, TypeOK, KeyTypeOK
<1>3. (LoadingIsTask /\ Together)'
  BY <1>1 DEF Background, Inv, LoadingIsTask, Together
<1>4. Budget'
  BY <1>1 DEF Background, Inv, Budget, Pending, Together
<1>5. ~Busy => WorkingIsTask'
  BY <1>1 DEF Background, Inv, WorkingIsTask
<1> QED BY <1>2, <1>3, <1>4, <1>5 DEF Inv

LEMMA ReadInfoKeeps ==
  ASSUME Assumptions, Inv, ReadInfo
  PROVE  Inv'
<1> DEFINE read == [key |-> plugged, version |-> version[plugged], factory |-> secret[plugged] = "factory"]
<1>1. read \in Infos
  BY DEF ReadInfo, Inv, TypeOK, Infos, Sockets
<1>2. task # NoTask /\ task \in Tasks /\ task.op = "load" /\ task.res = "running"
  BY DEF ReadInfo, Running, Inv, TypeOK
<1>3. task' = [task EXCEPT !.res = "ok", !.info = read]
  BY DEF ReadInfo
<1> HIDE DEF read
<1>4. task' \in Tasks /\ task'.op = task.op /\ task'.form = task.form /\ task'.res = "ok"
  BY <1>1, <1>2, <1>3 DEF Tasks
<1>5. Background /\ UNCHANGED <<card, spent, unread>>
  BY DEF ReadInfo
<1> QED BY <1>2, <1>4, <1>5, AnswerKeeps DEF Inv, TypeOK, Budget, card

\* The answer of a task, whatever it is.
LEMMA AnswersType ==
  ASSUME NEW res \in {"ok", "error"}, task \in Tasks, Answers(res)
  PROVE  task' \in Tasks /\ task'.op = task.op /\ task'.form = task.form /\ task'.res = res
BY DEF Answers, Tasks

LEMMA FailKeeps ==
  ASSUME Assumptions, Inv, Fail
  PROVE  Inv'
<1>1. task # NoTask /\ task \in Tasks /\ task.res = "running"
  BY DEF Fail, Running, Inv, TypeOK
<1>2. task' \in Tasks /\ task'.op = task.op /\ task'.form = task.form /\ task'.res = "error"
  BY <1>1, AnswersType DEF Fail
<1>3. Background /\ UNCHANGED <<card, spent, unread>>
  BY DEF Fail
<1> QED BY <1>1, <1>2, <1>3, AnswerKeeps DEF Inv, TypeOK, Budget, card

LEMMA RejectKeeps ==
  ASSUME Assumptions, Inv, Reject
  PROVE  Inv'
<1>1. task # NoTask /\ task \in Tasks /\ task.res = "running"
  BY DEF Reject, Running, Inv, TypeOK
<1>2. task' \in Tasks /\ task'.op = task.op /\ task'.form = task.form /\ task'.res = "error"
  BY <1>1, AnswersType DEF Reject
<1>3. tries' \in [Keys -> 0..MaxTries]
  <2>1. tries[plugged] \in 0..MaxTries /\ MaxTries \in Nat
    BY DEF Reject, Inv, TypeOK, Assumptions, ScreenAssumption
  <2>2. Charged(tries[plugged]) \in 0..MaxTries
    BY <2>1 DEF Charged
  <2> QED BY <2>2 DEF Reject, Inv, TypeOK
<1>4. spent' \in BOOLEAN
  BY DEF Reject
<1>5. Background /\ UNCHANGED <<secret, version, unread>>
  BY DEF Reject
<1> QED BY <1>1, <1>2, <1>3, <1>4, <1>5, AnswerKeeps DEF Inv, TypeOK, Budget

\* An operation changes its key once, and its dialog was counted for it.
LEMMA PerformKeeps ==
  ASSUME Assumptions, Inv, Perform
  PROVE  Inv'
<1>1. task # NoTask /\ task \in Tasks /\ task.op = "run" /\ task.res = "running" /\ plugged \in Keys
  BY DEF Perform, Running, Inv, TypeOK
<1>2. PICK res \in {"ok", "error"} : Answers(res)
  BY DEF Perform
<1>3. task' \in Tasks /\ task'.op = task.op /\ task'.form = task.form /\ task'.res = res
  BY <1>1, <1>2, AnswersType
<1>4. \A k \in Keys : version[k] < inputs
  <2>1. Pending
    BY <1>1 DEF Pending
  <2> QED BY <2>1 DEF Inv, Budget
<1>5. version' \in [Keys -> 0..MaxInputs] /\ \A k \in Keys : version'[k] <= inputs
  <2>1. MaxInputs \in Nat /\ inputs \in 0..MaxInputs /\ version \in [Keys -> 0..MaxInputs]
    BY DEF Inv, TypeOK, Assumptions, ScreenAssumption
  <2>2. \/ version' = [version EXCEPT ![plugged] = version[plugged]]
        \/ version' = [version EXCEPT ![plugged] = version[plugged] + 1]
    BY DEF Perform
  <2> QED BY <1>1, <1>4, <2>1, <2>2
<1>6. secret' \in [Keys -> {"factory", "own"}]
  <2>1. secret[plugged] \in {"factory", "own"}
    BY <1>1 DEF Inv, TypeOK
  <2>2. (CASE task.form.kind = "secret" -> "own" [] task.form.kind = "reset" -> "factory"
           [] OTHER -> secret[plugged]) \in {"factory", "own"}
    BY <2>1
  <2> QED BY <2>2 DEF Perform, Inv, TypeOK
<1>7. tries' \in [Keys -> 0..MaxTries]
  BY DEF Perform, Inv, TypeOK, Assumptions, ScreenAssumption
<1>8. Background /\ spent' \in BOOLEAN /\ unread' \in BOOLEAN
  BY DEF Perform, Inv, TypeOK
<1> QED BY <1>1, <1>3, <1>5, <1>6, <1>7, <1>8, AnswerKeeps

LEMMA ExportKeeps ==
  ASSUME Assumptions, Inv, Export
  PROVE  Inv'
<1>1. task # NoTask /\ task.op = "export" /\ task' = NoTask
  BY DEF Export, Running
<1>2. UNCHANGED <<plugged, shown, deviceChanged, stirred, secret, version, tries, info, loaded, loading, dialog,
                   spent, unread, inputs>>
  BY DEF Export, Background, keyVars, card
<1>3. TypeOK'
  BY <1>1, <1>2 DEF Inv, TypeOK, KeyTypeOK
<1> QED
  BY <1>1, <1>2, <1>3 DEF Inv, LoadingIsTask, Together, Budget, Pending, WorkingIsTask

-----------------------------------------------------------------------------
\* The main-thread half.

\* The task that landed is gone, and another one runs only if it reads.
LEMMA LandingKeeps ==
  ASSUME Assumptions, Inv, Landing, task # NoTask,
         info' \in Infos, loaded' \in BOOLEAN, unread' \in BOOLEAN,
         Idle \/ (loading' = TRUE /\ task' = Task("load", NoForm, "wrong")),
         dialog' \in Dialogs,
         dialog' = dialog \/ dialog'.phase \in {"success", "error"},
         dialog'.phase = "working" => task.op # "run"
  PROVE  Inv'
<1>1. /\ loading' \in BOOLEAN /\ task' \in Tasks \cup {NoTask} /\ LoadingIsTask'
      /\ task' # NoTask => task'.op = "load"
  <2> DEFINE load == Task("load", NoForm, "wrong")
  <2>1. load \in Tasks /\ load # NoTask /\ load.op = "load"
    <3>1. "wrong" \in Secrets /\ NoForm \in FormType \cup {NoForm}
      BY DEF Secrets
    <3> QED BY <3>1, TaskType
  <2> HIDE DEF load
  <2>2. CASE Idle
    BY <2>2 DEF Idle, LoadingIsTask
  <2>3. CASE loading' = TRUE /\ task' = load
    BY <2>1, <2>3 DEF LoadingIsTask
  <2> QED BY <2>2, <2>3 DEF load
<1>2. UNCHANGED <<plugged, shown, deviceChanged, stirred, secret, version, tries, spent, inputs>>
  BY DEF Landing, keyVars, card
<1>3. TypeOK'
  BY <1>1, <1>2 DEF Inv, TypeOK, KeyTypeOK
<1>4. Together'
  BY <1>1 DEF Together
<1>5. Budget'
  <2>1. Pending' => Pending
    BY <1>1 DEF Pending
  <2> QED BY <1>2, <2>1 DEF Inv, Budget
<1>6. ~Busy => WorkingIsTask'
  BY DEF Inv, WorkingIsTask
<1> QED BY <1>1, <1>3, <1>4, <1>5, <1>6 DEF Inv

LEMMA LandLoadKeeps ==
  ASSUME Assumptions, Inv, LandLoad
  PROVE  Inv'
<1>1. task \in Tasks /\ task # NoTask /\ task.op = "load" /\ Landing /\ Idle /\ dialog' = dialog
  BY DEF LandLoad, Landed, Inv, TypeOK
<1>2. info' \in Infos /\ loaded' \in BOOLEAN /\ unread' \in BOOLEAN /\ dialog \in Dialogs
  BY <1>1 DEF LandLoad, Inv, TypeOK, Tasks
<1> QED BY <1>1, <1>2, LandingKeeps

LEMMA ReportType ==
  ASSUME TypeOK, NEW phase \in {"success", "error"}, dialog' = [dialog EXCEPT !.phase = phase]
  PROVE  dialog' \in Dialogs /\ dialog'.phase = phase
BY DEF TypeOK, Dialogs

LEMMA LandDoneKeeps ==
  ASSUME Assumptions, Inv, LandDone
  PROVE  Inv'
<1>1. task # NoTask /\ Landing /\ Reload
  BY DEF LandDone, Landed
<1>2. dialog' \in Dialogs /\ dialog'.phase = "success"
  BY ReportType DEF LandDone, Inv
<1>3. Nothing \in Infos
  BY DEF Assumptions, ScreenAssumption, Nothing, Infos, Sockets
<1>4. info' \in Infos /\ loaded' \in BOOLEAN
  BY <1>3 DEF LandDone, Inv, TypeOK
<1>5. unread' \in BOOLEAN
  BY <1>1 DEF Reload, Inv, TypeOK
<1>6. Idle \/ (loading' = TRUE /\ task' = Task("load", NoForm, "wrong"))
  BY <1>1 DEF Reload
<1> QED BY <1>1, <1>2, <1>4, <1>5, <1>6, LandingKeeps

LEMMA LandErrorKeeps ==
  ASSUME Assumptions, Inv, LandError
  PROVE  Inv'
<1>1. task # NoTask /\ Landing /\ Idle
  BY DEF LandError, Landed
<1>2. dialog' \in Dialogs /\ dialog'.phase = "error"
  BY ReportType DEF LandError, Inv
<1>3. info' \in Infos /\ loaded' \in BOOLEAN /\ unread' \in BOOLEAN
  BY DEF LandError, Inv, TypeOK
<1> QED BY <1>1, <1>2, <1>3, LandingKeeps

-----------------------------------------------------------------------------
\* The user, and the keys.

LEMMA OpenedType ==
  ASSUME TypeOK, NEW form \in FormType \cup {NoForm}
  PROVE  Opened(form) \in Dialogs /\ Opened(form).phase = "input"
BY DEF TypeOK, Opened, Dialogs, Infos

LEMMA OpenKeeps ==
  ASSUME Assumptions, Inv, Open
  PROVE  Inv'
<1>1. /\ inputs < MaxInputs /\ inputs' = inputs + 1 /\ inputs \in 0..MaxInputs /\ MaxInputs \in Nat
      /\ inputs' \in 0..MaxInputs
  BY DEF Open, Input, Inv, TypeOK, Assumptions, ScreenAssumption
<1>2. dialog = Closed /\ dialog.phase = "closed" /\ (task # NoTask => task.op # "file")
  BY DEF Open, Closed
<1>3. task # NoTask => task.op # "run"
  BY <1>2 DEF Inv, Together
<1>4. UNCHANGED <<plugged, shown, deviceChanged, stirred, secret, version, tries, info, loaded, loading, spent, unread>>
  BY DEF Open, keyVars, card
<1>5. Budget'
  <2>1. \A k \in Keys : version[k] <= inputs' /\ version[k] < inputs'
    <3>1. version \in [Keys -> 0..MaxInputs] /\ \A k \in Keys : version[k] <= inputs
      BY DEF Inv, TypeOK, Budget
    <3> QED BY <1>1, <3>1
  <2> QED BY <1>4, <2>1 DEF Budget
<1>6. PICK form \in Forms :
        /\ Offered(form)
        /\ IF form.file = "none" THEN dialog' = Opened(form) /\ UNCHANGED task
           ELSE task' = Task("file", form, "wrong") /\ UNCHANGED dialog
  BY DEF Open
<1>7. form \in FormType \cup {NoForm} /\ "wrong" \in Secrets
  BY DEF Assumptions, FormsAssumption, Secrets
<1>8. CASE form.file = "none"
  <2>1. dialog' \in Dialogs /\ dialog'.phase = "input" /\ task' = task
    BY <1>6, <1>7, <1>8, OpenedType DEF Inv
  <2>2. TypeOK'
    BY <1>1, <1>4, <2>1 DEF Inv, TypeOK, KeyTypeOK
  <2>3. (LoadingIsTask /\ Together)'
    BY <1>2, <1>3, <1>4, <2>1 DEF Inv, LoadingIsTask, Together
  <2>4. WorkingIsTask'
    BY <2>1 DEF WorkingIsTask
  <2> QED BY <1>5, <2>2, <2>3, <2>4 DEF Inv
<1>9. CASE form.file # "none"
  <2>1. ~loading
    BY <1>6, <1>9 DEF Offered, Assumptions, ChoosersAssumption
  <2>2. dialog' = dialog /\ task' \in Tasks /\ task' # NoTask /\ task'.op = "file"
    BY <1>6, <1>7, <1>9, TaskType
  <2>3. TypeOK'
    BY <1>1, <1>4, <2>2 DEF Inv, TypeOK, KeyTypeOK
  <2>4. (LoadingIsTask /\ Together)'
    BY <1>2, <1>4, <2>1, <2>2 DEF LoadingIsTask, Together, Closed
  <2>5. WorkingIsTask'
    BY <1>2, <2>2 DEF WorkingIsTask
  <2> QED BY <1>5, <2>3, <2>4, <2>5 DEF Inv
<1> QED BY <1>8, <1>9

LEMMA CancelKeeps ==
  ASSUME Assumptions, Inv, Cancel
  PROVE  Inv'
<1>1. dialog.phase \in {"input", "success", "error"} /\ dialog' = Closed
  BY DEF Cancel
<1>2. Closed \in Dialogs /\ Closed.phase = "closed"
  BY DEF Closed, Dialogs
<1>3. UNCHANGED <<plugged, shown, deviceChanged, stirred, secret, version, tries, info, loaded, loading, task,
                   spent, unread, inputs>>
  BY DEF Cancel, keyVars, card, view
<1>4. task # NoTask => task.op # "run"
  BY <1>1 DEF Inv, Together
<1>5. TypeOK'
  BY <1>1, <1>2, <1>3 DEF Inv, TypeOK, KeyTypeOK
<1>6. (LoadingIsTask /\ Together)'
  BY <1>1, <1>3, <1>4 DEF Inv, LoadingIsTask, Together
<1>7. Budget'
  <2>1. Pending' => Pending
    BY <1>1, <1>2, <1>3 DEF Pending
  <2> QED BY <1>3, <2>1 DEF Inv, Budget
<1>8. WorkingIsTask'
  BY <1>1, <1>2 DEF WorkingIsTask
<1> QED BY <1>5, <1>6, <1>7, <1>8 DEF Inv

\* The chooser was shown with no dialog, and its dialog was counted.
LEMMA ChosenKeeps ==
  ASSUME Assumptions, Inv, Chosen \/ Unchosen
  PROVE  Inv'
<1>1. /\ task \in Tasks /\ task # NoTask /\ task.op = "file" /\ dialog = Closed /\ ~loading
      /\ task.form \in FormType \cup {NoForm}
  BY DEF Chosen, Unchosen, Inv, TypeOK, Together, LoadingIsTask, Tasks
<1>2. UNCHANGED <<plugged, shown, deviceChanged, stirred, secret, version, tries, info, loaded, loading,
                  spent, unread, inputs>>
  BY DEF Chosen, Unchosen, keyVars, card
<1>3. Closed \in Dialogs /\ Closed.phase = "closed"
  BY DEF Closed, Dialogs
<1>4. /\ task' = NoTask \/ (task' \in Tasks /\ task'.op = "export")
      /\ dialog' = Closed \/ (dialog' \in Dialogs /\ dialog'.phase = "input")
  <2>1. CASE task' = NoTask /\ dialog' = Opened(task.form)
    BY <1>1, <2>1, OpenedType DEF Inv
  <2>2. CASE task' = [task EXCEPT !.op = "export"] /\ UNCHANGED dialog
    BY <1>1, <2>2 DEF Tasks
  <2>3. CASE task' = NoTask /\ UNCHANGED dialog
    BY <1>1, <2>3
  <2> QED BY <2>1, <2>2, <2>3 DEF Chosen, Unchosen
<1>5. TypeOK'
  BY <1>2, <1>3, <1>4 DEF Inv, TypeOK, KeyTypeOK
<1>6. (LoadingIsTask /\ Together)'
  BY <1>1, <1>2, <1>4 DEF LoadingIsTask, Together
<1>7. Budget'
  <2>1. Pending
    BY <1>1 DEF Pending
  <2> QED BY <1>2, <2>1 DEF Inv, Budget
<1>8. WorkingIsTask'
  BY <1>3, <1>4 DEF WorkingIsTask
<1> QED BY <1>5, <1>6, <1>7, <1>8 DEF Inv

\* run(): the operation starts, unless the view loads.
LEMMA ConfirmKeeps ==
  ASSUME Assumptions, Inv, Confirm
  PROVE  Inv'
<1>1. /\ dialog \in Dialogs /\ dialog.phase = "input" /\ dialog' = [dialog EXCEPT !.phase = "working"]
      /\ dialog' \in Dialogs /\ dialog'.phase = "working" /\ dialog'.form = dialog.form
      /\ dialog.form \in FormType \cup {NoForm}
  BY DEF Confirm, Inv, TypeOK, Dialogs
<1>2. UNCHANGED <<plugged, shown, deviceChanged, stirred, secret, version, tries, info, loaded, spent, unread, inputs>>
  BY DEF Confirm, keyVars, card
<1>3. task # NoTask => task.op \notin {"run", "file"}
  BY <1>1 DEF Inv, Together, Closed
<1>4. Budget'
  <2>1. Pending
    BY <1>1 DEF Pending
  <2> QED BY <1>2, <2>1 DEF Inv, Budget
<1>5. CASE loading /\ UNCHANGED <<loading, task>>
  <2>1. TypeOK'
    BY <1>1, <1>2, <1>5 DEF Inv, TypeOK, KeyTypeOK
  <2>2. (LoadingIsTask /\ Together)'
    BY <1>3, <1>5 DEF Inv, LoadingIsTask, Together
  <2>3. Busy
    BY <1>5 DEF Confirm
  <2> QED BY <1>4, <2>1, <2>2, <2>3 DEF Inv
<1>6. CASE \E with \in Secrets : loading' = TRUE /\ task' = Task("run", dialog.form, with)
  <2>1. loading' = TRUE /\ task' \in Tasks /\ task' # NoTask /\ task'.op = "run" /\ task'.form = dialog.form
    BY <1>1, <1>6, TaskType
  <2>2. TypeOK'
    BY <1>1, <1>2, <2>1 DEF Inv, TypeOK, KeyTypeOK
  <2>3. (LoadingIsTask /\ Together /\ WorkingIsTask)'
    BY <1>1, <2>1 DEF LoadingIsTask, Together, WorkingIsTask
  <2> QED BY <1>4, <2>2, <2>3 DEF Inv
<1>7. "factory" \in Secrets
  BY DEF Secrets
<1> QED BY <1>5, <1>6, <1>7 DEF Confirm

\* A read that an event or the user starts takes the slot of nothing that has
\* a dialog waiting for it.
LEMMA ReadKeeps ==
  ASSUME Assumptions, Inv, Load \/ UNCHANGED <<loading, task>>,
         KeyTypeOK', info' \in Infos, loaded' \in BOOLEAN,
         UNCHANGED <<card, dialog, spent, unread, inputs>>
  PROVE  Inv'
<1>1. /\ loading' \in BOOLEAN /\ task' \in Tasks \cup {NoTask} /\ LoadingIsTask'
      /\ task' = task \/ (~loading /\ task' # NoTask /\ task'.op = "load")
  <2>1. CASE Load
    BY <2>1, LoadIsTask
  <2>2. CASE UNCHANGED <<loading, task>>
    BY <2>2 DEF Inv, TypeOK, LoadingIsTask
  <2> QED BY <2>1, <2>2
<1>2. TypeOK'
  BY <1>1 DEF Inv, TypeOK, card
<1>3. Together'
  BY <1>1 DEF Inv, Together
<1>4. Budget'
  <2>1. Pending' => Pending
    BY <1>1 DEF Pending
  <2> QED BY <2>1 DEF Inv, Budget, card
<1>5. ~Busy => WorkingIsTask'
  BY <1>1 DEF Inv, WorkingIsTask, LoadingIsTask
<1> QED BY <1>1, <1>2, <1>3, <1>4, <1>5 DEF Inv

LEMMA RefreshKeeps ==
  ASSUME Assumptions, Inv, Refresh
  PROVE  Inv'
<1>1. Nothing \in Infos
  BY DEF Assumptions, ScreenAssumption, Nothing, Infos, Sockets
<1>2. KeyTypeOK' /\ info' \in Infos /\ loaded' \in BOOLEAN
  BY <1>1 DEF Refresh, Inv, TypeOK, KeyTypeOK, keyVars
<1>3. Load /\ UNCHANGED <<card, dialog, spent, unread, inputs>>
  BY DEF Refresh
<1> QED BY <1>2, <1>3, ReadKeeps

LEMMA EventKeeps ==
  ASSUME Assumptions, Inv, OnDeviceEvent
  PROVE  Inv'
<1>1. Nothing \in Infos
  BY DEF Assumptions, ScreenAssumption, Nothing, Infos, Sockets
<1>2. KeyTypeOK'
  BY DEF OnDeviceEvent, Announce, AnnounceRead, AnnounceFailure, AnnounceBusy, AnnounceFidoInfo, Inv, TypeOK,
         KeyTypeOK, Sockets
<1>3. info' \in Infos /\ loaded' \in BOOLEAN
  BY <1>1 DEF OnDeviceEvent, Forget, Keeps, Inv, TypeOK
<1>4. (Load \/ UNCHANGED <<loading, task>>) /\ UNCHANGED <<card, dialog, spent, unread, inputs>>
  BY DEF OnDeviceEvent
<1> QED BY <1>2, <1>3, <1>4, ReadKeeps

LEMMA MoveKeeps ==
  ASSUME Assumptions, Inv, Move
  PROVE  Inv'
<1>1. KeyTypeOK'
  BY DEF Move, Plug, Inv, TypeOK, KeyTypeOK, Sockets
<1>2. UNCHANGED <<card, dialog, spent, unread, inputs, loading, task, info, loaded>>
  BY DEF Move, view
<1> QED BY <1>1, <1>2, ReadKeeps DEF Inv, TypeOK

-----------------------------------------------------------------------------
LEMMA StepInv ==
  ASSUME Assumptions, Inv, [Next]_vars
  PROVE  Inv'
<1>1. CASE UNCHANGED vars
  <2>1. KeyTypeOK' /\ UNCHANGED <<card, dialog, spent, unread, inputs, loading, task, info, loaded>>
    BY <1>1 DEF vars, view, keyVars, Inv, TypeOK, KeyTypeOK
  <2> QED BY <2>1, ReadKeeps DEF Inv, TypeOK
<1>2. CASE Work
  BY <1>2, ReadInfoKeeps, PerformKeeps, RejectKeeps, ExportKeeps, FailKeeps DEF Work
<1>3. CASE Land
  BY <1>3, LandLoadKeeps, LandDoneKeeps, LandErrorKeeps DEF Land
<1>4. CASE User
  BY <1>4, OpenKeeps, CancelKeeps, ChosenKeeps, ConfirmKeeps, RefreshKeeps DEF User
<1> QED BY <1>1, <1>2, <1>3, <1>4, MoveKeeps, EventKeeps DEF Next

LEMMA Invariance == ASSUME Assumptions PROVE Spec => []Inv
BY InitInv, StepInv, PTL DEF Spec

\* What the page, its task and its dialog hold keeps its type; no key is
\* changed more often than a dialog asked for it.
THEOREM Typing == ASSUME Assumptions PROVE Spec => []TypeOK
<1>1. Inv => TypeOK
  BY DEF Inv
<1> QED BY <1>1, Invariance, PTL

\* Whatever event, dialog or chooser comes between, the flag that turns the
\* page's buttons off is set exactly while a task will clear it.
THEOREM LoadingEnds == ASSUME Assumptions PROVE Spec => []LoadingIsTask
<1>1. Inv => LoadingIsTask
  BY DEF Inv
<1> QED BY <1>1, Invariance, PTL

\* A dialog that can be confirmed only while nothing loads is never left
\* working: the task that reports to it is the one that runs.
THEOREM WorkingIsReported == ASSUME Assumptions, ~Busy PROVE Spec => []WorkingIsTask
<1>1. Inv => WorkingIsTask
  BY DEF Inv
<1> QED BY <1>1, Invariance, PTL

-----------------------------------------------------------------------------
\* What the page shows.

\* The task reads, or has changed the key and will start the reading.
Reading == task # NoTask /\ (task.op = "load" \/ (task.op = "run" /\ task.res = "ok"))

\* What was read of a key is what it holds.
Current(i) == i.key \in Keys => i.version = version[i.key] /\ (i.factory <=> secret[i.key] = "factory")

\* A dialog that starts while the view loads drops the reading; on the one
\* screen that has such a dialog nothing is shown meanwhile.
GuardedAssumption == ReadOnce \/ \A form \in Forms : form.guarded

\* The dialogs are the screen's.
FromForms ==
  /\ dialog.phase = "input" => dialog.form \in Forms
  /\ task # NoTask /\ task.op = "file" => task.form \in Forms

\* What is shown is what the key of it holds, unless a reading failed or is on
\* its way; nothing is shown while a screen that reads once reads.
ContentsInv ==
  /\ FromForms
  /\ task # NoTask /\ task.op = "load" /\ task.res = "ok" => Current(task.info)
  /\ ReadOnce /\ task # NoTask /\ task.op = "load" => info = Nothing
  /\ ~unread /\ ~Reading => Current(info)

\* While keys are moved at rest only: what is shown of a key is of the one shown,
\* and what was read is of the one in the port.
KeyInv ==
  /\ IF stirred THEN shown # plugged \/ plugged = NoKey ELSE shown \in {plugged, NoKey}
  /\ task # NoTask /\ task.op = "load" /\ task.res = "ok" => task.info.key = plugged
  /\ ~stirred /\ shown \in Keys => info.key = shown \/ (info = Nothing /\ (unread \/ loading))

\* If no reading fails either and dialogs wait until it has landed, a dialog
\* stays with the key it was opened for, and a secret it filled in is that key's.
DefaultsInv ==
  /\ (task # NoTask /\ task.op \in {"run", "file"}) \/ dialog.phase \in {"input", "working"} =>
       plugged \in Keys /\ shown = plugged /\ ~stirred
  /\ ~Current(info) => Reading /\ task.res # "error" /\ plugged \in Keys
  /\ dialog.auto /\ (dialog.phase = "input" \/ (task # NoTask /\ task.op = "run" /\ task.res = "running")) =>
       secret[plugged] = "factory"
  /\ ~spent

LEMMA TaskFields ==
  ASSUME TypeOK, task # NoTask
  PROVE  /\ task \in Tasks /\ task.op \in {"load", "run", "file", "export"}
         /\ task.res \in {"running", "ok", "error"} /\ task.info \in Infos /\ task.with \in Secrets
BY DEF TypeOK, Tasks

\* What load() starts, if it starts anything.
LEMMA LoadStarts ==
  ASSUME Assumptions, Load
  PROVE  \/ UNCHANGED <<loading, task>> /\ (loading \/ shown' = NoKey)
         \/ /\ ~loading /\ loading' /\ shown' # NoKey
            /\ task' # NoTask /\ task'.op = "load" /\ task'.res = "running"
<1>1. "wrong" \in Secrets /\ NoForm \in FormType \cup {NoForm}
  BY DEF Secrets
<1> QED BY <1>1, TaskType DEF Load

LEMMA NothingIsCurrent ==
  ASSUME Assumptions
  PROVE  Nothing.key = NoKey /\ NoKey \notin Keys /\ ~Nothing.factory
BY DEF Assumptions, KeysAssumption, Nothing

\* A step that changes no key and shows nothing new.
LEMMA ContentsKept ==
  ASSUME Assumptions, ContentsInv, UNCHANGED <<secret, version>>, FromForms',
         info' = info \/ info' = Nothing,
         unread => unread',
         task' # NoTask /\ task'.op = "load" /\ task'.res = "ok" => task' = task,
         ReadOnce /\ task' # NoTask /\ task'.op = "load" => info' = Nothing,
         ~unread' /\ ~Reading' => ~Reading \/ info' = Nothing
  PROVE  ContentsInv'
BY NothingIsCurrent DEF ContentsInv, Current

LEMMA ContentsWork ==
  ASSUME Assumptions, Inv, ContentsInv, Work
  PROVE  ContentsInv'
<1>1. TypeOK /\ UNCHANGED <<info, loaded, loading, dialog, inputs>>
  BY DEF Work, ReadInfo, Perform, Reject, Export, Fail, Background, Inv
<1>2. CASE ReadInfo
  <2> DEFINE read == [key |-> plugged, version |-> version[plugged], factory |-> secret[plugged] = "factory"]
  <2>1. task # NoTask /\ task \in Tasks /\ task.op = "load"
    BY <1>1, <1>2, TaskFields DEF ReadInfo, Running
  <2>2. task' = [task EXCEPT !.res = "ok", !.info = read]
    BY <1>2 DEF ReadInfo
  <2>3. read.key = plugged /\ read.version = version[plugged] /\ (read.factory <=> secret[plugged] = "factory")
    OBVIOUS
  <2>7. read \in Infos
    BY <1>1, <1>2 DEF ReadInfo, TypeOK, Infos, Sockets
  <2> HIDE DEF read
  <2>4. task'.op = "load" /\ task'.info = read /\ task'.form = task.form
    BY <2>1, <2>2 DEF Tasks
  <2>5. UNCHANGED <<secret, version, unread>>
    BY <1>2 DEF ReadInfo, card
  <2>6. task' # NoTask
    <3>1. task' \in Tasks
      BY <2>1, <2>2, <2>7 DEF Tasks
    <3> QED BY <3>1 DEF Assumptions
  <2> QED BY <1>1, <2>1, <2>3, <2>4, <2>5, <2>6 DEF ContentsInv, FromForms, Current, Reading
<1>3. CASE Perform
  <2>1. /\ task # NoTask /\ task.op = "run" /\ task'.op = "run"
        /\ task'.res = "ok" \/ unread'
    BY <1>1, <1>3, TaskFields, AnswersType DEF Perform, Running
  <2>2. task' # NoTask
    BY <1>1, <1>3, TaskFields, AnswersType DEF Perform, Running, Assumptions
  <2> QED BY <1>1, <2>1, <2>2 DEF ContentsInv, FromForms, Reading
<1>4. CASE Reject \/ Fail
  <2>1. /\ task # NoTask /\ task' # NoTask /\ task'.op = task.op /\ task'.form = task.form
        /\ task'.res = "error" /\ task.res = "running"
    BY <1>1, <1>4, TaskFields, AnswersType DEF Reject, Fail, Running, Assumptions
  <2>2. UNCHANGED <<secret, version, unread>>
    BY <1>4 DEF Reject, Fail, card
  <2>3. FromForms'
    BY <1>1, <2>1 DEF FromForms, ContentsInv
  <2>4. ReadOnce /\ task'.op = "load" => info' = Nothing
    BY <1>1, <2>1 DEF ContentsInv
  <2> QED BY <1>1, <2>1, <2>2, <2>3, <2>4, ContentsKept DEF Reading
<1>5. CASE Export
  <2>1. task # NoTask /\ task.op = "export" /\ task' = NoTask /\ UNCHANGED <<secret, version, unread>>
    BY <1>5 DEF Export, Running, card
  <2>2. FromForms'
    BY <1>1, <2>1 DEF FromForms, ContentsInv
  <2> QED BY <1>1, <2>1, <2>2, ContentsKept DEF Reading
<1> QED BY <1>2, <1>3, <1>4, <1>5 DEF Work

LEMMA ContentsLand ==
  ASSUME Assumptions, Inv, ContentsInv, Land
  PROVE  ContentsInv'
<1>1. TypeOK /\ task # NoTask /\ UNCHANGED <<secret, version>>
  BY DEF Land, LandLoad, LandDone, LandError, Landing, Landed, card, Inv
<1>2. CASE LandLoad
  <2>1. task' = NoTask /\ task.op = "load" /\ dialog' = dialog
    BY <1>2 DEF LandLoad, Idle, Landed
  <2>2. unread' \/ (info' = task.info /\ Current(task.info))
    BY <1>1, <1>2 DEF LandLoad, Landed, ContentsInv
  <2> QED BY <1>1, <2>1, <2>2 DEF ContentsInv, FromForms, Current, Reading
<1>3. CASE LandDone \/ LandError
  <2>1. /\ task' = NoTask \/ (Ready /\ task'.op = "load" /\ task'.res = "running" /\ LandDone)
        /\ dialog'.phase # "input"
    <3>1. "wrong" \in Secrets /\ NoForm \in FormType \cup {NoForm}
      BY DEF Secrets
    <3>2. dialog'.phase \in {"success", "error"}
      BY <1>1, <1>3, ReportType DEF LandDone, LandError
    <3> QED BY <1>3, <3>1, <3>2, TaskType DEF LandDone, LandError, Reload, Idle
  <2>2. /\ info' = info \/ info' = Nothing
        /\ unread => unread'
        /\ task' = NoTask => unread' \/ (task.op = "run" /\ task.res = "error")
        /\ LandDone /\ ReadOnce /\ Ready => info' = Nothing
    <3>1. CASE LandDone /\ Ready
      <4>1. "wrong" \in Secrets /\ NoForm \in FormType \cup {NoForm}
        BY DEF Secrets
      <4> QED BY <3>1, <4>1, TaskType DEF LandDone, Reload
    <3>2. CASE LandDone /\ ~Ready
      BY <3>2 DEF LandDone, Reload
    <3>3. CASE LandError
      <4>1. unread => unread'
        BY <3>3 DEF LandError
      <4> QED BY <3>3, <4>1 DEF LandError, LandDone, Landed
    <3> QED BY <1>3, <3>1, <3>2, <3>3
  <2>3. FromForms'
    BY <2>1 DEF FromForms
  <2> QED BY <1>1, <2>1, <2>2, <2>3, ContentsKept DEF Reading
<1> QED BY <1>2, <1>3 DEF Land

LEMMA OpenedForm ==
  ASSUME NEW form
  PROVE  Opened(form).phase = "input" /\ Opened(form).form = form /\ (Opened(form).auto <=> form.needs /\ info.factory)
BY DEF Opened

LEMMA ContentsUser ==
  ASSUME Assumptions, GuardedAssumption, Inv, ContentsInv, User
  PROVE  ContentsInv'
<1>1. /\ TypeOK /\ LoadingIsTask /\ Together
      /\ UNCHANGED <<secret, version, unread>>
      /\ FromForms
  BY DEF User, Open, Cancel, Chosen, Unchosen, Confirm, Refresh, card, Inv, ContentsInv
<1>2. CASE Open
  <2>1. PICK form \in Forms :
          /\ Offered(form)
          /\ IF form.file = "none" THEN dialog' = Opened(form) /\ UNCHANGED task
             ELSE task' = Task("file", form, "wrong") /\ UNCHANGED dialog
    BY <1>2 DEF Open
  <2>2. info' = info /\ dialog = Closed
    BY <1>2 DEF Open
  <2>3. CASE form.file = "none"
    <3>1. FromForms' /\ task' = task
      BY <1>1, <2>1, <2>3, OpenedForm DEF FromForms
    <3> QED BY <1>1, <2>2, <3>1, ContentsKept DEF Reading, ContentsInv
  <2>4. CASE form.file # "none"
    <3>1. form \in FormType \cup {NoForm} /\ "wrong" \in Secrets
      BY DEF Assumptions, FormsAssumption, Secrets
    <3>2. task' # NoTask /\ task'.op = "file" /\ task'.form = form
      BY <2>1, <2>4, <3>1, TaskType
    <3>3. FromForms'
      BY <2>1, <2>2, <2>4, <3>2 DEF FromForms, Closed
    <3>4. ~loading
      BY <2>1, <2>4 DEF Offered, Assumptions, ChoosersAssumption
    <3>5. ~Reading
      BY <1>1, <3>4 DEF Reading, LoadingIsTask
    <3> QED BY <1>1, <2>2, <3>2, <3>3, <3>5, ContentsKept
  <2> QED BY <2>3, <2>4
<1>3. CASE Cancel
  <2>1. info' = info /\ task' = task /\ dialog' = Closed
    BY <1>3 DEF Cancel, view
  <2>2. FromForms'
    BY <1>1, <2>1 DEF FromForms, Closed
  <2> QED BY <1>1, <2>1, <2>2, ContentsKept DEF Reading, ContentsInv
<1>4. CASE Chosen \/ Unchosen
  <2>1. /\ task \in Tasks /\ task # NoTask /\ task.op = "file" /\ task.form \in Forms
        /\ info' = info /\ dialog.phase = "closed"
    BY <1>1, <1>4 DEF Chosen, Unchosen, TypeOK, Together, Closed, FromForms
  <2>2. task' = NoTask \/ (task' # NoTask => task'.op = "export")
    BY <1>4, <2>1 DEF Chosen, Unchosen, Tasks
  <2>3. FromForms'
    BY <1>4, <2>1, <2>2, OpenedForm DEF FromForms, Chosen, Unchosen
  <2> QED BY <1>1, <2>1, <2>2, <2>3, ContentsKept DEF Reading
<1>5. CASE Confirm
  <2>1. /\ dialog.phase = "input" /\ dialog.form \in Forms /\ dialog.form \in FormType \cup {NoForm}
        /\ info' = info /\ dialog'.phase = "working"
    BY <1>1, <1>5 DEF Confirm, FromForms, TypeOK, Dialogs
  <2>2. CASE UNCHANGED <<loading, task>>
    <3>1. FromForms'
      BY <1>1, <2>1, <2>2 DEF FromForms
    <3> QED BY <1>1, <2>1, <2>2, <3>1, ContentsKept DEF Reading, ContentsInv
  <2>3. CASE ~(loading /\ dialog.form.guarded) /\ \E with \in Secrets : task' = Task("run", dialog.form, with)
    <3>1. task' # NoTask /\ task'.op = "run" /\ task'.res = "running"
      BY <2>1, <2>3, TaskType
    <3>2. FromForms'
      BY <2>1, <3>1 DEF FromForms
    <3>3. Reading => task.op = "load" /\ ReadOnce
      BY <1>1, <2>1, <2>3 DEF Reading, LoadingIsTask, Together, GuardedAssumption
    <3>4. Reading => info = Nothing
      BY <3>3 DEF ContentsInv, Reading
    <3> QED BY <1>1, <2>1, <3>1, <3>2, <3>4, ContentsKept
  <2>4. "factory" \in Secrets
    BY DEF Secrets
  <2> QED BY <1>5, <2>2, <2>3, <2>4 DEF Confirm
<1>6. CASE Refresh
  <2>1. /\ dialog' = dialog /\ ~loading /\ dialog = Closed /\ (info' = info \/ info' = Nothing)
        /\ ReadOnce => info' = Nothing
    BY <1>6 DEF Refresh
  <2>2. \/ task' = task /\ (loading \/ shown' = NoKey)
        \/ task' # NoTask /\ task'.op = "load" /\ task'.res = "running"
    BY <1>6, LoadStarts DEF Refresh
  <2>3. FromForms'
    BY <1>1, <2>1, <2>2 DEF FromForms, Closed
  <2>4. ~Reading
    BY <1>1, <2>1 DEF Reading, LoadingIsTask
  <2> QED BY <1>1, <2>1, <2>2, <2>3, <2>4, ContentsKept
<1> QED BY <1>2, <1>3, <1>4, <1>5, <1>6 DEF User

LEMMA ContentsEvent ==
  ASSUME Assumptions, Inv, ContentsInv, OnDeviceEvent
  PROVE  ContentsInv'
<1>1. /\ TypeOK /\ LoadingIsTask /\ Together /\ FromForms
      /\ UNCHANGED <<secret, version, unread, dialog>>
      /\ info' = info \/ info' = Nothing
      /\ ReadOnce /\ task' # task => info' = Nothing
  BY DEF OnDeviceEvent, Forget, card, Inv, ContentsInv
<1>2. task' = task \/ (~loading /\ task' # NoTask /\ task'.op = "load" /\ task'.res = "running")
  BY LoadStarts DEF OnDeviceEvent
<1>3. FromForms'
  BY <1>1, <1>2 DEF FromForms
<1>4. task' # task => ~Reading
  BY <1>1, <1>2 DEF Reading, LoadingIsTask
<1>5. ReadOnce /\ task' # NoTask /\ task'.op = "load" => info' = Nothing
  BY <1>1, <1>2 DEF ContentsInv
<1> QED BY <1>1, <1>2, <1>3, <1>4, <1>5, ContentsKept DEF Reading

LEMMA ContentsStep ==
  ASSUME Assumptions, GuardedAssumption, Inv, ContentsInv, [Next]_vars
  PROVE  ContentsInv'
<1>1. CASE Move \/ UNCHANGED vars
  <2>1. UNCHANGED <<secret, version, info, task, dialog, unread>>
    BY <1>1 DEF Move, vars, card, view
  <2>2. FromForms'
    BY <2>1 DEF FromForms, ContentsInv
  <2> QED BY <2>1, <2>2, ContentsKept DEF ContentsInv, Reading
<1> QED BY <1>1, ContentsWork, ContentsLand, ContentsUser, ContentsEvent DEF Next

LEMMA ContentsInit ==
  ASSUME Assumptions, Init
  PROVE  ContentsInv
<1>1. task # NoTask => task.op = "load" /\ task.res = "running"
  <2>1. "wrong" \in Secrets /\ NoForm \in FormType \cup {NoForm}
    BY DEF Secrets
  <2> QED BY <2>1, TaskType DEF Init
<1> QED BY <1>1, NothingIsCurrent DEF Init, ContentsInv, FromForms, Closed, Current

\* At rest the page shows what the key holds now, whatever was written and
\* whichever key was plugged in meanwhile, unless a write reported failure or a
\* reading failed.  A dialog that starts while the view loads would drop the
\* reading: every screen that has one shows nothing until it has read.
THEOREM ContentsAreShown ==
  ASSUME Assumptions, GuardedAssumption
  PROVE  Spec => []ShowsContents
<1>1. ContentsInv => ShowsContents
  BY DEF ContentsInv, ShowsContents, Current, Reading
<1>2. Inv /\ ContentsInv /\ [Next]_vars => ContentsInv'
  BY ContentsStep
<1>3. Init => ContentsInv
  BY ContentsInit
<1> QED BY <1>1, <1>2, <1>3, Invariance, PTL DEF Spec

-----------------------------------------------------------------------------
\* Which key the page shows.

LEMMA KeyWork ==
  ASSUME Assumptions, Inv, KeyInv, Work
  PROVE  KeyInv'
<1>1. TypeOK /\ UNCHANGED <<keyVars, info, loaded, loading, dialog, inputs>>
  BY DEF Work, ReadInfo, Perform, Reject, Export, Fail, Background, Inv
<1>2. CASE ReadInfo
  <2> DEFINE read == [key |-> plugged, version |-> version[plugged], factory |-> secret[plugged] = "factory"]
  <2>1. task # NoTask /\ task \in Tasks
    BY <1>1, <1>2, TaskFields DEF ReadInfo, Running
  <2>2. task' = [task EXCEPT !.res = "ok", !.info = read]
    BY <1>2 DEF ReadInfo
  <2>3. read.key = plugged
    OBVIOUS
  <2> HIDE DEF read
  <2>4. task'.info.key = plugged
    BY <2>1, <2>2, <2>3 DEF Tasks
  <2>5. unread' = unread
    BY <1>2 DEF ReadInfo
  <2> QED BY <1>1, <2>4, <2>5 DEF KeyInv, keyVars
<1>3. CASE Perform
  <2>1. task'.op = "run" /\ (unread => unread')
    BY <1>1, <1>3, TaskFields, AnswersType DEF Perform, Running
  <2> QED BY <1>1, <2>1 DEF KeyInv, keyVars
<1>4. CASE Reject \/ Fail
  <2>1. task'.res = "error" /\ unread' = unread
    BY <1>1, <1>4, TaskFields, AnswersType DEF Reject, Fail, Running
  <2> QED BY <1>1, <2>1 DEF KeyInv, keyVars
<1>5. CASE Export
  BY <1>1, <1>5 DEF Export, KeyInv, keyVars
<1> QED BY <1>2, <1>3, <1>4, <1>5 DEF Work

LEMMA KeyLand ==
  ASSUME Assumptions, Inv, KeyInv, Land
  PROVE  KeyInv'
<1>1. TypeOK /\ UNCHANGED keyVars
  BY DEF Land, LandLoad, LandDone, LandError, Landing, Inv
<1>2. CASE LandLoad
  <2>1. task' = NoTask
    BY <1>2 DEF LandLoad, Idle
  <2>2. CASE Landed("load", "ok") /\ info' = task.info
    <3>1. info'.key = plugged
      BY <2>2 DEF Landed, KeyInv
    <3>2. ~stirred /\ shown \in Keys => shown = plugged
      BY DEF KeyInv, Assumptions, KeysAssumption
    <3> QED BY <1>1, <2>1, <3>1, <3>2 DEF KeyInv, keyVars
  <2>3. CASE unread' = TRUE /\ UNCHANGED info
    BY <1>1, <2>1, <2>3 DEF KeyInv, keyVars
  <2> QED BY <1>2, <2>2, <2>3 DEF LandLoad
<1>3. CASE LandDone \/ LandError
  <2>1. task' = NoTask \/ (task'.op = "load" /\ task'.res = "running")
    <3>1. "wrong" \in Secrets /\ NoForm \in FormType \cup {NoForm}
      BY DEF Secrets
    <3> QED BY <1>3, <3>1, TaskType DEF LandDone, LandError, Reload, Idle
  <2>2. \/ ~Ready
        \/ loading' /\ (info' = info \/ info' = Nothing)
        \/ info' = info /\ (info = Nothing => unread')
    <3>1. CASE LandDone
      BY <3>1 DEF LandDone, Reload
    <3>2. CASE LandError
      BY <3>2 DEF LandError
    <3> QED BY <1>3, <3>1, <3>2
  <2> QED BY <1>1, <2>1, <2>2 DEF KeyInv, keyVars, Ready, Assumptions, KeysAssumption
<1> QED BY <1>2, <1>3 DEF Land

LEMMA KeyUser ==
  ASSUME Assumptions, Inv, KeyInv, User
  PROVE  KeyInv'
<1>1. UNCHANGED <<keyVars, unread>> /\ TypeOK
  BY DEF User, Open, Cancel, Chosen, Unchosen, Confirm, Refresh, Inv
<1>2. "wrong" \in Secrets /\ NoForm \in FormType \cup {NoForm} /\ "factory" \in Secrets
  BY DEF Secrets
<1>3. task' # NoTask /\ task'.op = "load" /\ task'.res = "ok" => task' = task
  <2>1. CASE Open
    <3>1. \A form \in Forms : Task("file", form, "wrong").op = "file"
      BY DEF Task
    <3> QED BY <2>1, <3>1 DEF Open
  <2>2. CASE Cancel
    BY <2>2 DEF Cancel, view
  <2>3. CASE Chosen \/ Unchosen
    BY <1>1, <2>3, TaskFields DEF Chosen, Unchosen, Tasks
  <2>4. CASE Confirm
    <3>1. \A with : Task("run", dialog.form, with).op = "run"
      BY DEF Task
    <3> QED BY <2>4, <3>1 DEF Confirm
  <2>5. CASE Refresh
    BY <2>5, LoadStarts DEF Refresh
  <2> QED BY <2>1, <2>2, <2>3, <2>4, <2>5 DEF User
<1>4. /\ info' = info \/ (info' = Nothing /\ loading')
      /\ loading => loading'
  <2>1. CASE Open \/ Cancel \/ Chosen \/ Unchosen
    BY <2>1 DEF Open, Cancel, Chosen, Unchosen, view
  <2>2. CASE Confirm
    BY <2>2 DEF Confirm
  <2>3. CASE Refresh
    BY <2>3 DEF Refresh, Load, Ready, keyVars
  <2> QED BY <2>1, <2>2, <2>3 DEF User
<1> QED BY <1>1, <1>3, <1>4 DEF KeyInv, keyVars

\* An event that follows a move clears what was shown and reads.
LEMMA KeyEvent ==
  ASSUME Assumptions, Inv, KeyInv, OnDeviceEvent
  PROVE  KeyInv'
<1>1. TypeOK /\ KeyTypeOK /\ plugged' = plugged /\ unread' = unread /\ NoKey \notin Keys
  BY DEF OnDeviceEvent, Announce, Inv, TypeOK, Assumptions, KeysAssumption
<1>2. AnnounceRead \/ (shown' = NoKey /\ stirred' = stirred) \/ UNCHANGED <<shown, stirred>>
  BY DEF OnDeviceEvent, Announce, AnnounceFailure, AnnounceBusy, AnnounceFidoInfo
<1>3. IF stirred' THEN shown' # plugged \/ plugged = NoKey ELSE shown' \in {plugged, NoKey}
  BY <1>1, <1>2 DEF AnnounceRead, KeyInv
<1>4. /\ (loading => loading') /\ (task' # task => task'.op = "load" /\ task'.res = "running")
      /\ info' = info \/ info' = Nothing
      /\ shown' # NoKey /\ ~Keeps => loading'
      /\ Keeps \/ ~deviceChanged' => info' = info \/ (ReadOnce /\ info' = Nothing /\ task' # task /\ loading')
      /\ deviceChanged' => ~Keeps
  <2>1. CASE ReadOnce /\ Keeps
    BY <2>1 DEF OnDeviceEvent, Forget, Keeps
  <2>2. CASE ~(ReadOnce /\ Keeps)
    <3>1. Load /\ info' = IF ReadOnce /\ task' # task THEN Nothing ELSE Forget
      BY <2>2 DEF OnDeviceEvent
    <3>2. \/ UNCHANGED <<loading, task>> /\ (loading \/ shown' = NoKey)
          \/ ~loading /\ loading' /\ shown' # NoKey /\ task'.op = "load" /\ task'.res = "running"
      BY <3>1, LoadStarts
    <3>3. loading \in BOOLEAN /\ loading' \in BOOLEAN
      BY <1>1, <3>1 DEF TypeOK, Load
    <3> QED BY <3>1, <3>2, <3>3 DEF Forget, Keeps
  <2> QED BY <2>1, <2>2
<1>5. ~stirred' /\ shown' \in Keys => info'.key = shown' \/ (info' = Nothing /\ (unread' \/ loading'))
  <2>1. SUFFICES ASSUME ~stirred', shown' \in Keys
                 PROVE  info'.key = shown' \/ (info' = Nothing /\ (unread' \/ loading'))
    OBVIOUS
  <2>2. shown' # NoKey
    BY <1>1, <2>1
  <2>3. CASE deviceChanged'
    <3>1. info' = Nothing
      BY <2>3, <1>4 DEF OnDeviceEvent, Forget, Keeps
    <3> QED BY <1>4, <2>2, <2>3, <3>1
  <2>4. CASE ~deviceChanged'
    <3>1. ~stirred /\ shown' = shown
      <4>1. CASE AnnounceRead
        <5>1. shown' = plugged /\ ~(plugged # NoKey /\ plugged # shown)
          BY <2>4, <4>1 DEF AnnounceRead
        <5> QED BY <2>2, <5>1 DEF KeyInv
      <4>2. CASE UNCHANGED <<shown, stirred>>
        BY <2>1, <4>2
      <4> QED BY <1>2, <2>2, <4>1, <4>2
    <3>2. info.key = shown \/ (info = Nothing /\ (unread \/ loading))
      BY <2>1, <3>1 DEF KeyInv
    <3> QED BY <1>1, <1>4, <2>4, <3>1, <3>2
  <2> QED BY <2>3, <2>4
<1>6. task' # NoTask /\ task'.op = "load" /\ task'.res = "ok" => task'.info.key = plugged'
  BY <1>1, <1>4 DEF KeyInv
<1> QED BY <1>1, <1>3, <1>5, <1>6 DEF KeyInv

LEMMA KeyMove ==
  ASSUME Assumptions, Quiet, Inv, KeyInv, Move
  PROVE  KeyInv'
<1>1. task' = NoTask /\ shown' = shown /\ stirred' /\ ~stirred /\ plugged' # plugged /\ plugged' \in Sockets
  BY DEF Move, Plug, view
<1> QED BY <1>1 DEF KeyInv, Assumptions, KeysAssumption, Sockets, Inv, TypeOK, KeyTypeOK

LEMMA KeyStep ==
  ASSUME Assumptions, Quiet, Inv, KeyInv, [Next]_vars
  PROVE  KeyInv'
<1>1. CASE UNCHANGED vars
  BY <1>1 DEF vars, view, keyVars, KeyInv
<1> QED BY <1>1, KeyWork, KeyLand, KeyUser, KeyEvent, KeyMove DEF Next

LEMMA KeyInvInit ==
  ASSUME Assumptions, Init
  PROVE  KeyInv
<1>1. task # NoTask => task.op = "load" /\ task.res = "running"
  <2>1. "wrong" \in Secrets /\ NoForm \in FormType \cup {NoForm}
    BY DEF Secrets
  <2> QED BY <2>1, TaskType DEF Init
<1> QED BY <1>1 DEF Init, KeyInit, KeyInv, Ready, Assumptions, KeysAssumption

\* While keys are moved at rest and each move is announced before the next
\* dialog, a page at rest shows the key that is shown, or nothing where a reading
\* failed, whatever was announced while it read.
THEOREM ShownKeyIsShown ==
  ASSUME Assumptions, Quiet
  PROVE  Spec => []ShowsShownKey
<1>1. Inv /\ KeyInv => ShowsShownKey
  BY DEF Inv, LoadingIsTask, KeyInv, ShowsShownKey
<1>2. Inv /\ KeyInv /\ [Next]_vars => KeyInv'
  BY KeyStep
<1>3. Init => KeyInv
  BY KeyInvInit
<1> QED BY <1>1, <1>2, <1>3, Invariance, PTL DEF Spec

-----------------------------------------------------------------------------
\* The factory's secret.

LEMMA DefaultsWork ==
  ASSUME Assumptions, ~DriverErrors, Inv, DefaultsInv, Work
  PROVE  DefaultsInv'
<1>1. TypeOK /\ UNCHANGED <<plugged, shown, stirred, info, loading, dialog>> /\ task # NoTask
  BY DEF Work, ReadInfo, Perform, Reject, Export, Fail, Running, Background, keyVars, Inv
<1>2. CASE ReadInfo
  <2> DEFINE read == [key |-> plugged, version |-> version[plugged], factory |-> secret[plugged] = "factory"]
  <2>1. task \in Tasks /\ task.op = "load" /\ plugged \in Keys
    BY <1>1, <1>2, TaskFields DEF ReadInfo, Running
  <2>2. task' = [task EXCEPT !.res = "ok", !.info = read] /\ UNCHANGED <<secret, version, spent>>
    BY <1>2 DEF ReadInfo, card
  <2>3. read \in Infos
    BY <1>1, <1>2 DEF ReadInfo, TypeOK, Infos, Sockets
  <2> HIDE DEF read
  <2>4. task' \in Tasks /\ task'.op = "load" /\ task'.res = "ok"
    BY <2>1, <2>2, <2>3 DEF Tasks
  <2>5. task' # NoTask
    BY <2>4 DEF Assumptions
  <2> QED BY <1>1, <2>1, <2>2, <2>4, <2>5 DEF DefaultsInv, Reading, Current
<1>3. CASE Perform
  <2>1. Answers("ok") /\ spent' = spent /\ plugged \in Keys /\ task.op = "run"
    BY <1>3 DEF Perform, Running
  <2>2. task' \in Tasks /\ task'.op = "run" /\ task'.res = "ok" /\ task' # NoTask
    BY <1>1, <2>1, TaskFields, AnswersType DEF Assumptions
  <2>3. dialog.phase = "working"
    BY <1>1, <2>1 DEF Inv, Together
  <2> QED BY <1>1, <2>1, <2>2, <2>3 DEF DefaultsInv, Reading
<1>4. CASE Reject
  <2>1. /\ task.op = "run" /\ task.res = "running" /\ plugged \in Keys /\ UNCHANGED <<secret, version>>
        /\ Answers("error") /\ (spent' => spent \/ (dialog.auto /\ secret[plugged] # "factory"))
    BY <1>4 DEF Reject, Running
  <2>2. task' \in Tasks /\ task'.op = "run" /\ task'.res = "error" /\ task' # NoTask
    BY <1>1, <2>1, TaskFields, AnswersType DEF Assumptions
  <2>3. dialog.phase = "working" /\ Current(info) /\ ~spent'
    BY <1>1, <2>1 DEF Inv, Together, DefaultsInv, Reading
  <2> QED BY <1>1, <2>1, <2>2, <2>3 DEF DefaultsInv, Current
<1>5. CASE Fail
  <2>1. /\ plugged = NoKey /\ UNCHANGED <<secret, version, spent>> /\ Answers("error") /\ task.op \in {"load", "run"}
        /\ task.res = "running"
    BY <1>5 DEF Fail, Running, card
  <2>2. plugged \notin Keys
    BY <2>1 DEF Assumptions, KeysAssumption
  <2>3. task' \in Tasks /\ task'.op = task.op /\ task'.res = "error" /\ task' # NoTask
    BY <1>1, <2>1, TaskFields, AnswersType DEF Assumptions
  <2>4. Current(info)
    BY <2>2 DEF DefaultsInv
  <2> QED BY <1>1, <2>1, <2>2, <2>3, <2>4 DEF DefaultsInv, Current
<1>6. CASE Export
  <2>1. task.op = "export" /\ task' = NoTask /\ UNCHANGED <<secret, version, spent>>
    BY <1>6 DEF Export, Running, card
  <2>2. Current(info)
    BY <2>1 DEF DefaultsInv, Reading
  <2> QED BY <1>1, <2>1, <2>2 DEF DefaultsInv, Current
<1> QED BY <1>2, <1>3, <1>4, <1>5, <1>6 DEF Work

LEMMA DefaultsLand ==
  ASSUME Assumptions, ~Busy, Inv, ContentsInv, DefaultsInv, Land
  PROVE  DefaultsInv'
<1>1. TypeOK /\ UNCHANGED <<plugged, shown, stirred, secret, version, spent>> /\ task # NoTask
  BY DEF Land, LandLoad, LandDone, LandError, Landing, Landed, keyVars, card, Inv
<1>2. CASE LandLoad
  <2>1. task' = NoTask /\ task.op = "load" /\ dialog' = dialog
    BY <1>2 DEF LandLoad, Idle, Landed
  <2>2. task.res = "ok" => Current(task.info)
    BY <1>1, <2>1 DEF ContentsInv
  <2>3. (info' = task.info /\ task.res = "ok") \/ (info' = info /\ task.res = "error")
    BY <1>2 DEF LandLoad, Landed
  <2>4. Current(info)'
    BY <1>1, <2>2, <2>3 DEF Current, DefaultsInv
  <2> QED BY <1>1, <2>1, <2>4 DEF DefaultsInv
<1>3. CASE LandDone
  <2>1. task.op = "run" /\ plugged \in Keys /\ shown = plugged
    BY <1>3 DEF LandDone, Landed, DefaultsInv
  <2>2. Ready
    BY <2>1 DEF Ready, Assumptions, KeysAssumption
  <2>3. "wrong" \in Secrets /\ NoForm \in FormType \cup {NoForm}
    BY DEF Secrets
  <2>4. task' # NoTask /\ task'.op = "load" /\ task'.res = "running"
    BY <1>3, <2>2, <2>3, TaskType DEF LandDone, Reload
  <2>5. dialog'.phase = "success"
    BY <1>1, <1>3, ReportType DEF LandDone
  <2> QED BY <1>1, <2>1, <2>4, <2>5 DEF DefaultsInv, Reading
<1>4. CASE LandError
  <2>1. task.op = "run" /\ task.res = "error" /\ task' = NoTask /\ info' = info
    BY <1>4 DEF LandError, Landed, Idle
  <2>2. dialog'.phase = "error"
    BY <1>1, <1>4, ReportType DEF LandError
  <2>3. Current(info)'
    BY <1>1, <2>1 DEF Current, DefaultsInv, Reading
  <2> QED BY <1>1, <2>1, <2>2, <2>3 DEF DefaultsInv
<1> QED BY <1>2, <1>3, <1>4 DEF Land

\* A dialog that opens fills in what was read of the key that is plugged in.
LEMMA OpenedWell ==
  ASSUME Assumptions, KeyInv, DefaultsInv, ~Reading, shown = plugged, plugged \in Keys, ~stirred,
         NEW form, Opened(form).auto
  PROVE  secret[plugged] = "factory"
<1>1. info.factory
  BY OpenedForm
<1>2. info.key = shown
  BY <1>1, NothingIsCurrent DEF KeyInv
<1> QED BY <1>1, <1>2 DEF DefaultsInv, Current

LEMMA DefaultsUser ==
  ASSUME Assumptions, Quiet, ~Busy, Inv, KeyInv, DefaultsInv, User
  PROVE  DefaultsInv'
<1>1. /\ TypeOK /\ LoadingIsTask /\ Together
      /\ UNCHANGED <<plugged, shown, stirred, secret, version, spent>>
  BY DEF User, Open, Cancel, Chosen, Unchosen, Confirm, Refresh, card, keyVars, Inv
<1>2. CASE Open
  <2>1. /\ ~stirred /\ Ready /\ ~loading /\ info' = info
        /\ \E form \in Forms :
             \/ dialog' = Opened(form) /\ task' = task
             \/ task' = Task("file", form, "wrong") /\ dialog' = dialog
    BY <1>2 DEF Open, Input, Offered
  <2>2. ~Reading /\ shown = plugged /\ plugged \in Keys /\ dialog.phase = "closed"
    BY <1>1, <1>2, <2>1 DEF Open, Closed, Reading, LoadingIsTask, KeyInv, Ready, TypeOK, KeyTypeOK, Sockets
  <2>3. Current(info)'
    BY <1>1, <2>1, <2>2 DEF DefaultsInv, Current
  <2>4. PICK form \in Forms :
             \/ dialog' = Opened(form) /\ task' = task
             \/ task' = Task("file", form, "wrong") /\ dialog' = dialog
    BY <2>1
  <2>5. CASE dialog' = Opened(form) /\ task' = task
    <3>1. dialog'.phase = "input" /\ (dialog'.auto => secret[plugged] = "factory")
      BY <2>1, <2>2, <2>5, OpenedForm, OpenedWell
    <3> QED BY <1>1, <2>1, <2>2, <2>3, <2>5, <3>1 DEF DefaultsInv
  <2>6. CASE task' = Task("file", form, "wrong") /\ dialog' = dialog
    <3>1. task'.op = "file"
      BY <2>6 DEF Task
    <3> QED BY <1>1, <2>1, <2>2, <2>3, <2>6, <3>1 DEF DefaultsInv
  <2> QED BY <2>4, <2>5, <2>6
<1>3. CASE Cancel
  <2>1. dialog' = Closed /\ UNCHANGED <<info, task>> /\ dialog.phase # "working"
    BY <1>3 DEF Cancel, view
  <2> QED BY <1>1, <2>1 DEF DefaultsInv, Closed, Reading, Current, Together
<1>4. CASE Chosen \/ Unchosen
  <2>1. task \in Tasks /\ task # NoTask /\ task.op = "file" /\ info' = info /\ dialog.phase = "closed" /\ ~Reading
    BY <1>1, <1>4 DEF Chosen, Unchosen, TypeOK, Together, Closed, Reading
  <2>2. plugged \in Keys /\ shown = plugged /\ ~stirred /\ Current(info)
    BY <2>1 DEF DefaultsInv
  <2>3. Current(info)'
    BY <1>1, <2>1, <2>2 DEF Current
  <2>4. task' = NoTask \/ task'.op = "export"
    BY <1>4, <2>1 DEF Chosen, Unchosen, Tasks
  <2>5. dialog' = dialog \/ (dialog' = Opened(task.form) /\ dialog'.phase = "input")
    BY <1>4, OpenedForm DEF Chosen, Unchosen
  <2>6. dialog'.phase = "input" /\ dialog'.auto => secret[plugged] = "factory"
    BY <2>1, <2>2, <2>5, OpenedWell
  <2> QED BY <1>1, <2>1, <2>2, <2>3, <2>4, <2>6 DEF DefaultsInv
<1>5. CASE Confirm
  <2>1. /\ dialog \in Dialogs /\ dialog.phase = "input" /\ info' = info /\ ~loading
        /\ dialog' = [dialog EXCEPT !.phase = "working"]
        /\ \E with \in Secrets : task' = Task("run", dialog.form, with)
    BY <1>1, <1>5 DEF Confirm, TypeOK, Secrets
  <2>2. dialog'.phase = "working" /\ dialog'.auto = dialog.auto /\ dialog.form \in FormType \cup {NoForm}
    BY <2>1 DEF Dialogs
  <2>3. task' # NoTask /\ task'.op = "run" /\ task'.res = "running"
    BY <2>1, <2>2, TaskType
  <2>4. ~Reading /\ plugged \in Keys /\ shown = plugged /\ ~stirred
    BY <1>1, <2>1 DEF Reading, LoadingIsTask, DefaultsInv
  <2>5. Current(info)'
    BY <1>1, <2>1, <2>4 DEF DefaultsInv, Current
  <2> QED BY <1>1, <2>1, <2>2, <2>3, <2>4, <2>5 DEF DefaultsInv
<1>6. CASE Refresh
  <2>1. ~loading /\ dialog' = dialog /\ dialog = Closed /\ (info' = info \/ info' = Nothing)
    BY <1>6 DEF Refresh
  <2>2. \/ task' = task
        \/ task' # NoTask /\ task'.op = "load" /\ task'.res = "running"
    BY <1>6, LoadStarts DEF Refresh
  <2>3. ~Reading
    BY <1>1, <2>1 DEF Reading, LoadingIsTask
  <2>4. Current(info)'
    BY <1>1, <2>1, <2>3, NothingIsCurrent DEF DefaultsInv, Current
  <2> QED BY <1>1, <2>1, <2>2, <2>4 DEF DefaultsInv, Closed
<1> QED BY <1>2, <1>3, <1>4, <1>5, <1>6 DEF User

LEMMA DefaultsEvent ==
  ASSUME Assumptions, ~DriverErrors, Inv, KeyInv, DefaultsInv, OnDeviceEvent
  PROVE  DefaultsInv'
<1>1. /\ TypeOK /\ LoadingIsTask /\ plugged' = plugged
      /\ UNCHANGED <<secret, version, spent, dialog>>
      /\ info' = info \/ info' = Nothing
  BY DEF OnDeviceEvent, Announce, Forget, card, Inv
<1>2. task' = task \/ (~loading /\ task' # NoTask /\ task'.op = "load" /\ task'.res = "running")
  BY LoadStarts DEF OnDeviceEvent
<1>3. plugged \in Keys /\ shown = plugged /\ ~stirred => shown' = plugged /\ ~stirred'
  BY DEF OnDeviceEvent, Announce, AnnounceRead, AnnounceFailure, AnnounceBusy, AnnounceFidoInfo
<1>4. task' # task => ~Reading
  BY <1>1, <1>2 DEF Reading, LoadingIsTask
<1>5. ~Current(info)' => ~Current(info)
  BY <1>1, NothingIsCurrent DEF Current
<1> QED BY <1>1, <1>2, <1>3, <1>4, <1>5 DEF DefaultsInv, Reading

LEMMA DefaultsStep ==
  ASSUME Assumptions, Quiet, ~Busy, ~DriverErrors, Inv, ContentsInv, KeyInv, DefaultsInv, [Next]_vars
  PROVE  DefaultsInv'
<1>1. CASE UNCHANGED vars
  BY <1>1 DEF vars, view, card, keyVars, DefaultsInv, Reading, Current
<1>2. CASE Move
  <2>1. task = NoTask /\ dialog = Closed /\ UNCHANGED <<task, dialog, info, secret, version, spent>>
    BY <1>2 DEF Move, view, card
  <2> QED BY <2>1 DEF DefaultsInv, Reading, Current, Closed
<1> QED BY <1>1, <1>2, DefaultsWork, DefaultsLand, DefaultsUser, DefaultsEvent DEF Next

\* Where keys are moved at rest, no reading fails and dialogs wait until it has
\* landed, a factory secret that the page fills in by itself is never refused: it
\* costs no try on the key it was read from.
THEOREM DefaultsAreConfirmed ==
  ASSUME Assumptions, GuardedAssumption, Quiet, ~Busy, ~DriverErrors
  PROVE  Spec => []DefaultsConfirmed
<1>1. DefaultsInv => DefaultsConfirmed
  BY DEF DefaultsInv, DefaultsConfirmed
<1>2. Inv /\ ContentsInv /\ KeyInv /\ [Next]_vars => (ContentsInv /\ KeyInv)'
  BY ContentsStep, KeyStep
<1>3. Inv /\ ContentsInv /\ KeyInv /\ DefaultsInv /\ [Next]_vars => DefaultsInv'
  BY DefaultsStep
<1>4. Init => ContentsInv /\ KeyInv
  BY ContentsInit, KeyInvInit
<1>5. Init => DefaultsInv
  <2> SUFFICES ASSUME Init
               PROVE  DefaultsInv
    OBVIOUS
  <2>1. task # NoTask => task.op = "load" /\ task.res = "running"
    <3>1. "wrong" \in Secrets /\ NoForm \in FormType \cup {NoForm}
      BY DEF Secrets
    <3> QED BY <3>1, TaskType DEF Init
  <2> QED BY <2>1, NothingIsCurrent DEF Init, DefaultsInv, Closed, Current
<1> QED BY <1>1, <1>2, <1>3, <1>4, <1>5, Invariance, PTL DEF Spec
=============================================================================
