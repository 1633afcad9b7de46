------------------------- MODULE FirmwareUpdate_proofs -------------------------
(***************************************************************************)
(* Proofs about FirmwareUpdate for all boards, images and keys.            *)
(*                                                                         *)
(* Between the review of an image and its write lie a dialog, a restart of *)
(* the worker and several readings of the file.  `PageInv` says what the   *)
(* dialog and the task carry from one to the next, whatever happens to the *)
(* file; `SameImage` says that the review still describes the file and the *)
(* board, as long as no other program replaces the file during an          *)
(* operation.                                                              *)
(***************************************************************************)
EXTENDS FirmwareUpdate, TLAPS

Actions == {"inspect", "sign", "check", "flash", "reboot", "bootsel"}
Stages == {"start", "digest", "seal", "sealing", "probe", "request", "wait", "assess",
           "load", "restart", "done", "error"}

Reviews == [serial : Boards, hash : Images, mismatch : BOOLEAN, allowed : BOOLEAN]
Requests ==
  [action : Actions, serial : Boards, path : Paths, agreed : BOOLEAN, accepted : BOOLEAN,
   review : Reviews \cup {None}]
Tasks ==
  [action : Actions, serial : Boards, path : Paths, agreed : BOOLEAN, accepted : BOOLEAN,
   review : Reviews \cup {None}, stage : Stages,
   meta : Images \cup {None}, hash : Images \cup {None}, restarted : BOOLEAN]
Selections ==
  [path : Paths, image : [meta : Images, hash : Images] \cup {None}, assessment : Reviews \cup {None}]

Typed ==
  /\ TypeOK /\ file \in [Paths -> Images \cup {None}]
  /\ task \in Tasks \cup {None} /\ dialog \in Requests \cup {None} /\ selection \in Selections

\* A review of the board it is for that allows the write.
Reviewed(x) == x.review \in Reviews /\ x.review.serial = x.serial /\ x.review.allowed

\* What the worker has by a stage.
Progress(t) ==
  /\ t.stage = "digest" => t.meta \in Images
  /\ t.action = "check" /\ t.stage \in {"probe", "request", "wait", "assess", "done"} =>
       t.meta \in Images /\ t.hash \in Images
  /\ t.action \in {"inspect", "sign"} /\ t.stage = "done" => t.meta \in Images /\ t.hash \in Images
  /\ t.action = "check" =>
       /\ t.agreed /\ ~t.accepted
       /\ t.stage = "done" => t.review \in Reviews /\ t.review.serial = t.serial
  /\ t.action = "flash" => Reviewed(t) /\ t.agreed /\ (t.review.mismatch => t.accepted)

\* What was agreed to was said of this board, and the fields still name it.
Consented(x) ==
  /\ x.agreed => <<"erase", x.serial>> \in said
  /\ x.accepted => <<"mismatch", x.serial>> \in said
  /\ x.action \in {"check", "flash"} => x.path = field.path /\ x.serial = field.serial

\* A task or a dialog, never both.
OneAtATime ==
  /\ Loading => dialog = None /\ Progress(task) /\ Consented(task)
  /\ dialog # None =>
       /\ dialog.action = "flash" /\ ~dialog.accepted /\ (dialog.agreed => Reviewed(dialog))
       /\ Consented(dialog)

Shown ==
  /\ selection.image # None => selection.path = field.path
  /\ selection.assessment # None => selection.assessment.serial = field.serial

\* The signed copy is made only while it can still be removed.
Sealed ==
  /\ closing => file["signed"] = None
  /\ Loading /\ task.stage = "seal" /\ ~closing => file[task.path] # None
  /\ Loading /\ task.stage = "sealing" => ~closing /\ file[task.path] # None

\* A board that was written has not come up again before it was seen to return.
Restarts ==
  Loading /\ task.action = "flash" /\ task.review.hash \notin Nukes /\ ~task.restarted =>
    /\ task.stage = "restart" => mode[task.serial] # "normal"
    /\ task.stage # "done"

PageInv == Typed /\ OneAtATime /\ Shown /\ Sealed /\ Restarts

\* What a review says is still so.
Holds(r) ==
  /\ r.mismatch = Mismatch(r.serial, r.hash) /\ r.allowed = Allowed(r.serial, r.hash)
  /\ bound[r.serial] # "nuke"

\* The file is one and the same while the worker reads it, and the board is the
\* one that was assessed.
SameImage ==
  /\ Loading /\ task.stage = "digest" => file[task.path] \in {task.meta, None}
  /\ Loading /\ task.action = "check" =>
       /\ task.stage \in {"probe", "request", "wait", "assess"} => task.hash = task.meta
       /\ task.stage = "done" => Holds(task.review)
  /\ Loading /\ task.action = "flash" =>
       /\ task.stage \in {"start", "load"} => Holds(task.review)
       /\ task.stage = "load" => file[task.path] \in {task.review.hash, None}
  /\ dialog # None /\ dialog.agreed => Holds(dialog.review)

LEMMA TaskParts ==
  ASSUME Typed, Loading
  PROVE  /\ task \in Tasks
         /\ task.action \in Actions /\ task.serial \in Boards /\ task.path \in Paths
         /\ task.agreed \in BOOLEAN /\ task.accepted \in BOOLEAN /\ task.review \in Reviews \cup {None}
         /\ task.stage \in Stages /\ task.meta \in Images \cup {None} /\ task.hash \in Images \cup {None}
         /\ task.restarted \in BOOLEAN
<1>1. task \in Tasks
  BY DEF Typed, Loading
<1> QED BY <1>1 DEF Tasks

\* A step of the worker that moves the task to another stage.
LEMMA StageMoves ==
  ASSUME Typed, Loading, NEW s \in Stages, To(s)
  PROVE  /\ task' \in Tasks /\ task'.stage = s
         /\ task'.action = task.action /\ task'.serial = task.serial /\ task'.path = task.path
         /\ task'.agreed = task.agreed /\ task'.accepted = task.accepted /\ task'.review = task.review
         /\ task'.meta = task.meta /\ task'.hash = task.hash /\ task'.restarted = task.restarted
<1>1. task \in Tasks
  BY TaskParts
<1> QED BY <1>1 DEF To, Tasks

\* A step that leaves the page alone and gives the task nothing new keeps what
\* the page and the task say.
LEMMA MovesOn ==
  ASSUME PageInv, Loading, NEW s \in Stages, To(s), UNCHANGED <<pageVars, said>>,
         s # "digest",
         task.action = "check" /\ s \in {"probe", "request", "wait", "assess"} =>
           task.meta \in Images /\ task.hash \in Images,
         task.action \in {"inspect", "sign", "check"} => s # "done"
  PROVE  OneAtATime' /\ Shown'
<1>1. Typed /\ OneAtATime /\ Shown
  BY DEF PageInv
<1>2. dialog = None /\ Progress(task) /\ Consented(task)
  BY <1>1 DEF OneAtATime
<1> DEFINE t == task
<1>3. /\ task'.stage = s
      /\ task'.action = task.action /\ task'.serial = task.serial /\ task'.path = task.path
      /\ task'.agreed = task.agreed /\ task'.accepted = task.accepted /\ task'.review = task.review
      /\ task'.meta = task.meta /\ task'.hash = task.hash
  BY <1>1, StageMoves
<1>4. Progress(task')
  BY <1>2, <1>3 DEF Progress, Reviewed
<1>5. Consented(task)'
  BY <1>2, <1>3 DEF Consented, pageVars
<1>6. dialog' = None
  BY <1>2 DEF pageVars
<1>7. Shown'
  BY <1>1 DEF Shown, pageVars
<1>8. Progress(task)'
  BY <1>4 DEF Progress, Reviewed, Reviews
<1> QED BY <1>5, <1>6, <1>7, <1>8 DEF OneAtATime

\* The types of what a step of a worker leaves alone.
LEMMA TypedStays ==
  ASSUME Typed, UNCHANGED <<flash, mode, bound, file, closing, pageVars, said, asks>>,
         task' \in Tasks \cup {None}
  PROVE  Typed'
BY DEF Typed, TypeOK, pageVars, Tasks, Reviews, Requests, Selections

-----------------------------------------------------------------------------
\* Boards, the file, and the end of the program.

LEMMA BoardStep ==
  ASSUME FirmwareAssumption, PageInv, BoardMoves
  PROVE  PageInv'
<1> USE DEF PageInv
<1>1. PICK b \in Boards : Leave(b) \/ Return(b) \/ Replug(b)
  BY DEF BoardMoves
<1>2. UNCHANGED <<file, closing, pageVars, said, asks>>
  BY <1>1 DEF Leave, Return, Replug, Outside
<1>3. \/ task' = task
      \/ Loading /\ task.serial = b /\ task' = [task EXCEPT !.restarted = TRUE]
  BY <1>1 DEF Leave, Return, Replug
<1>4. CASE Loading
  <2>1. task \in Tasks /\ Progress(task) /\ Consented(task) /\ dialog = None
    BY <1>4, TaskParts DEF OneAtATime
  <2>2. /\ task' \in Tasks
        /\ task'.action = task.action /\ task'.serial = task.serial /\ task'.path = task.path
        /\ task'.agreed = task.agreed /\ task'.accepted = task.accepted /\ task'.review = task.review
        /\ task'.meta = task.meta /\ task'.hash = task.hash /\ task'.stage = task.stage
        /\ task'.restarted = task.restarted \/ (task.serial = b /\ task'.restarted)
    BY <1>3, <2>1 DEF Tasks
  <2>3. Typed'
    BY <1>1, <1>2, <2>2 DEF Typed, TypeOK, pageVars, Leave, Return, Replug, Tasks, Reviews, Requests, Selections
  <2>4. OneAtATime'
    <3>1. Progress(task)'
      BY <2>1, <2>2 DEF Progress, Reviewed, Reviews
    <3>2. Consented(task)'
      BY <1>2, <2>1, <2>2 DEF Consented, pageVars
    <3> QED BY <1>2, <2>1, <3>1, <3>2 DEF OneAtATime, pageVars
  <2>5. Shown' /\ Sealed'
    BY <1>2, <1>4, <2>2 DEF Shown, Sealed, pageVars, Loading
  <2>6. Restarts'
    <3>1. SUFFICES ASSUME task'.action = "flash", task'.review.hash \notin Nukes, ~task'.restarted
                   PROVE  (task'.stage = "restart" => mode'[task'.serial] # "normal") /\ task'.stage # "done"
      BY DEF Restarts
    <3>2. ~task.restarted /\ task'.serial = task.serial
      BY <2>2, <3>1
    <3>3. (task.stage = "restart" => mode[task.serial] # "normal") /\ task.stage # "done"
      BY <1>4, <2>2, <3>1, <3>2 DEF Restarts
    <3>4. Return(b) => b # task.serial
      BY <1>4, <2>1, <3>1 DEF Return, Tasks
    <3>5. mode[task.serial] # "normal" => mode'[task.serial] # "normal"
      BY <1>1, <2>1, <3>4 DEF Leave, Return, Replug, Typed, TypeOK, Tasks
    <3> QED BY <2>2, <3>3, <3>5
  <2> QED BY <2>3, <2>4, <2>5, <2>6
<1>5. CASE ~Loading
  <2>1. task' = task
    BY <1>3, <1>5
  <2>2. Typed'
    BY <1>1, <1>2, <2>1 DEF Typed, TypeOK, pageVars, Leave, Return, Replug, Tasks, Reviews, Requests, Selections
  <2>3. OneAtATime' /\ Shown' /\ Sealed' /\ Restarts'
    BY <1>2, <1>5, <2>1 DEF OneAtATime, Consented, Reviewed, Reviews, Shown, Sealed, Restarts, pageVars, Loading
  <2> QED BY <2>2, <2>3
<1> QED BY <1>4, <1>5

LEMMA ReplaceStep ==
  ASSUME FirmwareAssumption, PageInv, Replace
  PROVE  PageInv'
<1> USE DEF PageInv
<1>1. PICK i \in Images : file' = [file EXCEPT !["fw"] = i]
  BY DEF Replace
<1>2. /\ UNCHANGED <<boardVars, closing, pageVars, task, said, asks>>
      /\ file' \in [Paths -> Images \cup {None}] /\ file'["fw"] = i /\ file'["signed"] = file["signed"]
      /\ i # None
  BY <1>1 DEF Replace, Typed, Paths, FirmwareAssumption
<1>3. Typed'
  BY <1>2 DEF Typed, TypeOK, boardVars, pageVars, Tasks, Reviews, Requests, Selections
<1>4. OneAtATime' /\ Shown' /\ Restarts'
  BY <1>2 DEF OneAtATime, Progress, Consented, Reviewed, Reviews, Shown, Restarts, boardVars, pageVars, Loading
<1>5. Sealed'
  <2>1. Loading => task.path \in Paths
    BY TaskParts
  <2> QED BY <1>2, <2>1 DEF Sealed, Loading, Paths
<1> QED BY <1>3, <1>4, <1>5

LEMMA CleanupStep ==
  ASSUME FirmwareAssumption, PageInv, Cleanup
  PROVE  PageInv'
<1> USE DEF PageInv
<1>1. /\ UNCHANGED <<boardVars, pageVars, task, said, asks>> /\ closing'
      /\ file' = [file EXCEPT !["signed"] = None] /\ file' \in [Paths -> Images \cup {None}]
      /\ file'["fw"] = file["fw"] /\ file'["signed"] = None
  BY DEF Cleanup, Typed, Paths
<1>2. Typed'
  BY <1>1 DEF Cleanup, Typed, TypeOK, boardVars, pageVars, Tasks, Reviews, Requests, Selections
<1>3. OneAtATime' /\ Shown' /\ Restarts'
  BY <1>1 DEF OneAtATime, Progress, Consented, Reviewed, Reviews, Shown, Restarts, boardVars, pageVars, Loading
<1>4. Sealed'
  BY <1>1 DEF Sealed, Cleanup, HoldsArtifacts, Loading
<1> QED BY <1>2, <1>3, <1>4

-----------------------------------------------------------------------------
\* The page.

\* A request as it is started.
LEMMA StartedTask ==
  ASSUME NEW r \in Requests, Run(r)
  PROVE  /\ task' \in Tasks /\ task'.stage = "start" /\ ~task'.restarted
         /\ task'.action = r.action /\ task'.serial = r.serial /\ task'.path = r.path
         /\ task'.agreed = r.agreed /\ task'.accepted = r.accepted /\ task'.review = r.review
BY DEF Run, Requests, Tasks, Stages

LEMMA RequestType ==
  ASSUME Typed, NEW a \in Actions
  PROVE  /\ Request(a) \in Requests /\ Request(a).action = a /\ Request(a).serial = field.serial
         /\ Request(a).path = field.path /\ ~Request(a).agreed /\ ~Request(a).accepted
BY DEF Typed, TypeOK, Request, Requests

\* A task that was just started is consistent when its request is.
LEMMA RunStep ==
  ASSUME FirmwareAssumption, PageInv, NEW r \in Requests, Run(r),
         UNCHANGED <<boardVars, file, closing>>, dialog' = None,
         selection' \in Selections, field' \in [serial : Boards, path : Paths],
         said' \subseteq {"erase", "mismatch"} \X Boards, asks' \in 0..MaxAsks,
         Shown',
         r.agreed => <<"erase", r.serial>> \in said',
         r.accepted => <<"mismatch", r.serial>> \in said',
         r.action \in {"check", "flash"} => r.path = field'.path /\ r.serial = field'.serial,
         r.action = "check" => r.agreed /\ ~r.accepted,
         r.action = "flash" => Reviewed(r) /\ r.agreed /\ (r.review.mismatch => r.accepted)
  PROVE  PageInv'
<1> USE DEF PageInv
<1>1. /\ task' \in Tasks /\ task'.stage = "start" /\ ~task'.restarted
      /\ task'.action = r.action /\ task'.serial = r.serial /\ task'.path = r.path
      /\ task'.agreed = r.agreed /\ task'.accepted = r.accepted /\ task'.review = r.review
  BY StartedTask
<1>2. Typed'
  BY <1>1 DEF Typed, TypeOK, boardVars, Tasks, Reviews, Requests, Selections
<1>3. OneAtATime'
  <2>1. Progress(task)'
    BY <1>1 DEF Progress, Reviewed, Reviews
  <2>2. Consented(task)'
    BY <1>1 DEF Consented
  <2> QED BY <2>1, <2>2 DEF OneAtATime
<1>4. Sealed' /\ Restarts'
  BY <1>1 DEF Sealed, Restarts, Loading, boardVars
<1> QED BY <1>2, <1>3, <1>4

LEMMA FieldStep ==
  ASSUME FirmwareAssumption, PageInv, TypePath \/ TypeSerial
  PROVE  PageInv'
<1> USE DEF PageInv
<1>1. /\ ~Loading /\ dialog = None /\ UNCHANGED <<boardVars, file, closing, dialog, task, said, asks>>
  BY DEF TypePath, TypeSerial, Idle
<1>2. field \in [serial : Boards, path : Paths] /\ selection \in Selections
  BY DEF Typed, TypeOK
<1>3. field' \in [serial : Boards, path : Paths] /\ selection' \in Selections /\ Shown'
  <2>1. CASE TypePath
    <3>1. PICK p \in Paths : field' = [field EXCEPT !.path = p] /\ selection' = FileChanged(p)
      BY <2>1 DEF TypePath
    <3>2. selection' \in Selections
      BY <1>2, <3>1 DEF FileChanged, NoSelection, Selections
    <3>3. CASE selection.path = p
      BY <1>2, <3>1, <3>3 DEF FileChanged, Shown, Selections
    <3>4. CASE selection.path # p
      BY <1>2, <3>1, <3>4 DEF FileChanged, NoSelection, Shown, Selections
    <3> QED BY <1>2, <3>1, <3>2, <3>3, <3>4
  <2>2. CASE TypeSerial
    <3>1. PICK b \in Boards : field' = [field EXCEPT !.serial = b] /\ selection' = DeviceChanged(b)
      BY <2>2 DEF TypeSerial
    <3>2. CASE selection.assessment # None /\ selection.assessment.serial # b
      BY <1>2, <3>1, <3>2 DEF DeviceChanged, Shown, Selections
    <3>3. CASE ~(selection.assessment # None /\ selection.assessment.serial # b)
      BY <1>2, <3>1, <3>3 DEF DeviceChanged, Shown, Selections
    <3> QED BY <3>2, <3>3, <3>1, <1>2
  <2> QED BY <2>1, <2>2
<1>4. Typed'
  BY <1>1, <1>3 DEF Typed, TypeOK, boardVars, Selections
<1>5. OneAtATime' /\ Sealed' /\ Restarts'
  BY <1>1 DEF OneAtATime, Sealed, Restarts, Loading, boardVars
<1> QED BY <1>3, <1>4, <1>5

LEMMA StartStep ==
  ASSUME FirmwareAssumption, PageInv, StartInspect \/ StartSign \/ StartFlash \/ StartRestart
  PROVE  PageInv'
<1>1. Typed /\ OneAtATime /\ Shown /\ Sealed /\ Restarts
  BY DEF PageInv
<1>2. PICK a \in Actions : Ask(a)
  BY DEF StartInspect, StartSign, StartFlash, StartRestart, Actions
<1>3. /\ ~Loading /\ dialog = None /\ UNCHANGED <<boardVars, file, closing, field>>
      /\ said' = {} /\ asks < MaxAsks /\ asks' = asks + 1
  BY <1>2 DEF Ask, Idle
<1>4. /\ field' \in [serial : Boards, path : Paths] /\ selection \in Selections
      /\ said' \subseteq {"erase", "mismatch"} \X Boards /\ asks' \in 0..MaxAsks
  BY <1>1, <1>3 DEF Typed, TypeOK, FirmwareAssumption
<1>5. CASE \E c \in Actions \ {"check", "flash"} : Run(Request(c)) /\ UNCHANGED <<selection, dialog>>
  <2>1. PICK c \in Actions \ {"check", "flash"} : Run(Request(c)) /\ UNCHANGED <<selection, dialog>>
    BY <1>5
  <2>2. Request(c) \in Requests /\ Request(c).action = c /\ ~Request(c).agreed /\ ~Request(c).accepted
    BY <1>1, RequestType
  <2>3. Shown'
    BY <1>1, <1>3, <2>1 DEF Shown
  <2> QED BY <1>3, <1>4, <2>1, <2>2, <2>3, RunStep
<1>6. CASE StartInspect
  <2>1. Run(Request("inspect")) /\ selection' = NoSelection(field.path) /\ UNCHANGED dialog
    BY <1>6 DEF StartInspect
  <2>2. /\ Request("inspect") \in Requests /\ Request("inspect").action = "inspect"
        /\ ~Request("inspect").agreed /\ ~Request("inspect").accepted
    BY <1>1, RequestType DEF Actions
  <2>3. selection' \in Selections /\ Shown'
    BY <1>3, <1>4, <2>1 DEF NoSelection, Selections, Shown
  <2> QED BY <1>3, <1>4, <2>1, <2>2, <2>3, RunStep
<1>7. CASE StartFlash
  <2>1. dialog' = Request("flash") /\ UNCHANGED <<selection, task>>
    BY <1>7 DEF StartFlash
  <2>2. /\ dialog' \in Requests /\ dialog'.action = "flash" /\ dialog'.serial = field'.serial
        /\ dialog'.path = field'.path /\ ~dialog'.agreed /\ ~dialog'.accepted
    BY <1>1, <1>3, <2>1, RequestType DEF Actions
  <2>3. Typed'
    BY <1>1, <1>3, <1>4, <2>1, <2>2 DEF Typed, TypeOK, boardVars, Selections
  <2>4. OneAtATime'
    BY <1>3, <2>1, <2>2 DEF OneAtATime, Consented, Loading
  <2>5. Shown' /\ Sealed' /\ Restarts'
    BY <1>1, <1>3, <2>1 DEF Shown, Sealed, Restarts, Loading, boardVars
  <2> QED BY <2>3, <2>4, <2>5 DEF PageInv
<1> QED BY <1>5, <1>6, <1>7 DEF StartInspect, StartSign, StartFlash, StartRestart, Actions

LEMMA AnswerStep ==
  ASSUME FirmwareAssumption, PageInv, Confirm \/ AcceptMismatch \/ Cancel
  PROVE  PageInv'
<1>1. Typed /\ OneAtATime /\ Shown /\ Sealed /\ Restarts
  BY DEF PageInv
<1>2. /\ dialog # None /\ ~Loading /\ dialog' = None
      /\ UNCHANGED <<boardVars, file, closing, field, selection, asks>>
  BY DEF Confirm, AcceptMismatch, Cancel, Answer
<1>3. /\ dialog \in Requests /\ field \in [serial : Boards, path : Paths] /\ selection \in Selections
      /\ said \subseteq {"erase", "mismatch"} \X Boards /\ asks \in 0..MaxAsks
  BY <1>1, <1>2 DEF Typed, TypeOK
<1>4. /\ dialog.action = "flash" /\ ~dialog.accepted /\ (dialog.agreed => Reviewed(dialog))
      /\ Consented(dialog)
  BY <1>1, <1>2 DEF OneAtATime
<1>5. Shown'
  BY <1>1, <1>2 DEF Shown
<1>6. CASE Confirm
  <2> DEFINE r == [dialog EXCEPT !.action = "check", !.agreed = TRUE]
  <2>1. /\ Run(r) /\ said' = said \cup {<<"erase", dialog.serial>>}
    BY <1>6 DEF Confirm
  <2>2. /\ r \in Requests /\ r.action = "check" /\ r.serial = dialog.serial /\ r.path = dialog.path
        /\ r.agreed /\ ~r.accepted
    BY <1>3, <1>4 DEF Requests, Actions
  <2>3. /\ said' \subseteq {"erase", "mismatch"} \X Boards /\ <<"erase", r.serial>> \in said'
        /\ r.serial = field'.serial /\ r.path = field'.path
    BY <1>2, <1>3, <1>4, <2>1, <2>2 DEF Consented, Requests
  <2> HIDE DEF r
  <2> QED BY <1>2, <1>3, <1>5, <2>1, <2>2, <2>3, RunStep
<1>7. CASE AcceptMismatch
  <2> DEFINE r == [dialog EXCEPT !.accepted = TRUE]
  <2>1. /\ Run(r) /\ said' = said \cup {<<"mismatch", dialog.serial>>} /\ dialog.agreed
    BY <1>7 DEF AcceptMismatch
  <2>2. /\ r \in Requests /\ r.action = "flash" /\ r.serial = dialog.serial /\ r.path = dialog.path
        /\ r.agreed /\ r.accepted /\ r.review = dialog.review
    BY <1>3, <1>4, <2>1 DEF Requests, Actions
  <2>3. /\ said' \subseteq {"erase", "mismatch"} \X Boards
        /\ {<<"erase", r.serial>>, <<"mismatch", r.serial>>} \subseteq said'
        /\ r.serial = field'.serial /\ r.path = field'.path
    BY <1>2, <1>3, <1>4, <2>1, <2>2 DEF Consented, Requests
  <2>4. Reviewed(r)
    BY <1>4, <2>1, <2>2 DEF Reviewed
  <2> HIDE DEF r
  <2> QED BY <1>2, <1>3, <1>5, <2>1, <2>2, <2>3, <2>4, RunStep
<1>8. CASE Cancel
  <2>1. UNCHANGED <<task, said>>
    BY <1>8 DEF Cancel
  <2>2. Typed'
    BY <1>1, <1>2, <2>1 DEF Typed, TypeOK, boardVars, Selections
  <2>3. OneAtATime' /\ Sealed' /\ Restarts'
    BY <1>1, <1>2, <2>1 DEF OneAtATime, Sealed, Restarts, Loading, boardVars
  <2> QED BY <1>5, <2>2, <2>3 DEF PageInv
<1> QED BY <1>6, <1>7, <1>8

-----------------------------------------------------------------------------
\* The worker.

\* The stages a step only moves between, with no board and no file touched.
LEMMA StageStep ==
  ASSUME FirmwareAssumption, PageInv, Loading, NEW s \in Stages, To(s),
         ReadsBoards, s \notin {"digest", "seal", "restart"},
         task.action = "check" /\ s \in {"probe", "request", "wait", "assess"} =>
           task.meta \in Images /\ task.hash \in Images,
         task.action \in {"inspect", "sign", "check"} => s # "done",
         task.action = "flash" /\ task.review.hash \notin Nukes /\ s = "done" => task.restarted,
         s = "sealing" => ~closing /\ task.stage = "seal"
  PROVE  PageInv'
<1> USE DEF PageInv
<1>1. /\ task' \in Tasks /\ task'.stage = s /\ task'.action = task.action /\ task'.path = task.path
      /\ task'.review = task.review /\ task'.restarted = task.restarted
  BY StageMoves
<1>2. Typed'
  BY <1>1, TypedStays DEF ReadsBoards, Quiet, boardVars
<1>3. OneAtATime' /\ Shown'
  BY MovesOn DEF ReadsBoards, Quiet
<1>4. Sealed' /\ Restarts'
  BY <1>1 DEF Sealed, Restarts, Loading, ReadsBoards, Quiet
<1> QED BY <1>2, <1>3, <1>4

LEMMA ReadStep ==
  ASSUME FirmwareAssumption, PageInv, ReadSignature \/ ReadDigest
  PROVE  PageInv'
<1> USE DEF PageInv
<1>1. /\ Loading /\ ReadsBoards /\ task \in Tasks /\ task.action \in {"inspect", "sign", "check"}
      /\ file[task.path] \in Images /\ dialog = None /\ Progress(task) /\ Consented(task)
  <2>1. Loading /\ ReadsBoards /\ task.action \in {"inspect", "sign", "check"} /\ file[task.path] # None
    BY DEF ReadSignature, ReadDigest, Works
  <2>2. task \in Tasks /\ task.path \in Paths
    BY <2>1, TaskParts
  <2> QED BY <2>1, <2>2 DEF OneAtATime, Typed
<1>2. /\ task' \in Tasks /\ task'.action = task.action /\ task'.serial = task.serial /\ task'.path = task.path
      /\ task'.agreed = task.agreed /\ task'.accepted = task.accepted /\ task'.review = task.review
      /\ task'.stage \in {"digest", "done", "error", "seal", "probe"}
      /\ task'.meta \in Images
      /\ task'.stage # "digest" => task'.hash \in Images
      /\ task.action = "check" => task'.stage # "done"
  <2>1. CASE ReadSignature
    BY <1>1, <2>1 DEF ReadSignature, Works, Tasks, Stages
  <2>2. CASE ReadDigest
    <3>1. PICK s \in {"done", "error", "seal", "probe"} :
            /\ task' = [task EXCEPT !.hash = file[task.path], !.stage = s]
            /\ task.action = "check" => s # "done"
      BY <1>1, <2>2 DEF ReadDigest, Works
    <3>2. task.meta \in Images
      BY <1>1, <2>2 DEF ReadDigest, Works, Progress
    <3> QED BY <1>1, <3>1, <3>2 DEF Tasks, Stages
  <2> QED BY <2>1, <2>2
<1>3. Typed'
  BY <1>1, <1>2, TypedStays DEF ReadsBoards, Quiet, boardVars
<1>4. OneAtATime'
  <2>1. Progress(task)'
    BY <1>1, <1>2 DEF Progress
  <2>2. Consented(task)'
    BY <1>1, <1>2 DEF Consented, ReadsBoards, Quiet, pageVars
  <2> QED BY <1>1, <2>1, <2>2 DEF OneAtATime, ReadsBoards, Quiet, pageVars
<1>5. Shown'
  BY <1>1 DEF Shown, ReadsBoards, Quiet, pageVars
<1>6. Sealed' /\ Restarts'
  BY <1>1, <1>2, FirmwareAssumption DEF Sealed, Restarts, ReadsBoards, Quiet, FirmwareAssumption
<1> QED BY <1>3, <1>4, <1>5, <1>6

LEMMA SignStep ==
  ASSUME FirmwareAssumption, PageInv, SignOpens \/ SignEnds
  PROVE  PageInv'
<1>1. Loading /\ task.action = "sign" /\ task \in Tasks /\ Typed /\ OneAtATime /\ Shown /\ Sealed
  BY TaskParts DEF SignOpens, SignEnds, Works, PageInv
<1>2. CASE SignOpens
  <2>1. PICK s \in {"sealing", "error"} : To(s) /\ (s = "sealing" => ~closing)
    BY <1>2 DEF SignOpens, TakeArtifacts
  <2> QED BY <1>1, <1>2, <2>1, StageStep DEF SignOpens, Works, Stages
<1>3. CASE SignEnds
  <2>1. /\ task.path \in Paths /\ file[task.path] \in Images /\ ~closing
        /\ UNCHANGED <<closing, pageVars, said, asks, boardVars>>
        /\ dialog = None /\ Progress(task) /\ Consented(task)
    BY <1>1, <1>3, TaskParts DEF SignEnds, Works, Sealed, Typed, Quiet, OneAtATime
  <2>2. PICK j \in Images :
          /\ file' = [file EXCEPT !["signed"] = j]
          /\ task' = [task EXCEPT !.path = "signed", !.meta = j, !.hash = j, !.stage = "done"]
    BY <1>3, <2>1 DEF SignEnds, FirmwareAssumption
  <2>3. /\ task' \in Tasks /\ task'.action = "sign" /\ task'.stage = "done" /\ task'.serial = task.serial
        /\ task'.agreed = task.agreed /\ task'.accepted = task.accepted
        /\ task'.meta \in Images /\ task'.hash \in Images
    BY <1>1, <2>2 DEF Tasks, Paths, Stages
  <2>4. file' \in [Paths -> Images \cup {None}] /\ file'["fw"] = file["fw"] /\ file'["signed"] = j
    BY <1>1, <2>2 DEF Typed, Paths
  <2>5. Typed'
    BY <1>1, <2>1, <2>3, <2>4 DEF Typed, TypeOK, boardVars, pageVars, Selections
  <2>6. OneAtATime'
    <3>1. Progress(task)'
      BY <2>3 DEF Progress
    <3>2. Consented(task)'
      BY <2>1, <2>3 DEF Consented, pageVars
    <3> QED BY <2>1, <3>1, <3>2 DEF OneAtATime, pageVars
  <2>7. Shown' /\ Sealed' /\ Restarts'
    BY <1>1, <2>1, <2>3 DEF Shown, Sealed, Restarts, pageVars
  <2> QED BY <2>5, <2>6, <2>7 DEF PageInv
<1> QED BY <1>2, <1>3

LEMMA UpdateModeStep ==
  ASSUME FirmwareAssumption, PageInv, Probe \/ RequestUpdate \/ EntersUpdateMode
  PROVE  PageInv'
<1>1. /\ Loading /\ task \in Tasks /\ task.action \in {"check", "bootsel"} /\ Typed /\ OneAtATime
      /\ task.stage \in {"probe", "start", "request", "wait"} /\ (task.stage = "start" => task.action = "bootsel")
  BY TaskParts DEF Probe, RequestUpdate, EntersUpdateMode, Works, PageInv
<1>2. task.action = "check" => task.meta \in Images /\ task.hash \in Images
  BY <1>1 DEF OneAtATime, Progress
<1>3. PICK s \in {"assess", "done", "request", "wait"} :
        To(s) /\ (task.action = "check" => s # "done")
  BY <1>1 DEF Probe, RequestUpdate, EntersUpdateMode, After
<1>4. CASE Probe \/ EntersUpdateMode
  <2>1. ReadsBoards
    BY <1>4 DEF Probe, EntersUpdateMode
  <2> QED BY <1>1, <1>2, <1>3, <2>1, StageStep DEF Stages
<1>5. CASE RequestUpdate
  <2>1. /\ Quiet /\ UNCHANGED <<flash, mode, file>>
        /\ bound' \in {bound, [bound EXCEPT ![task.serial] = "bootsel"]}
    BY <1>5 DEF RequestUpdate
  <2>2. /\ task' \in Tasks /\ task'.stage = s /\ task'.action = task.action /\ task'.path = task.path
        /\ task'.review = task.review /\ task'.restarted = task.restarted
    BY <1>1, <1>3, StageMoves DEF Stages
  <2>3. Typed'
    BY <1>1, <2>1, <2>2 DEF Typed, TypeOK, Quiet, pageVars, Selections
  <2>4. OneAtATime' /\ Shown'
    BY <1>1, <1>2, <1>3, <2>1, MovesOn DEF Quiet, Stages
  <2>5. Sealed' /\ Restarts'
    BY <1>1, <1>3, <2>1, <2>2 DEF PageInv, Sealed, Restarts, Quiet
  <2> QED BY <2>3, <2>4, <2>5 DEF PageInv
<1> QED BY <1>4, <1>5

LEMMA AssessStep ==
  ASSUME FirmwareAssumption, PageInv, Assess
  PROVE  PageInv'
<1> DEFINE r == [serial |-> task.serial, hash |-> task.hash,
                 mismatch |-> Mismatch(task.serial, task.meta), allowed |-> Allowed(task.serial, task.meta)]
<1>1. /\ Loading /\ ReadsBoards /\ task \in Tasks /\ task.action = "check" /\ task.stage = "assess"
      /\ Typed /\ OneAtATime /\ Shown /\ Sealed
  BY TaskParts DEF Assess, Works, PageInv
<1>2. task.meta \in Images /\ task.hash \in Images /\ dialog = None /\ Progress(task) /\ Consented(task)
  BY <1>1 DEF OneAtATime, Progress
<1>3. Mismatch(task.serial, task.meta) \in BOOLEAN /\ Allowed(task.serial, task.meta) \in BOOLEAN
  BY DEF Mismatch, Allowed
<1>4. r \in Reviews /\ r.serial = task.serial
  BY <1>1, <1>2, <1>3 DEF Reviews, Tasks
<1>5. task' = [task EXCEPT !.stage = "done", !.review = r]
  BY DEF Assess
<1> HIDE DEF r
<1>6. /\ task' \in Tasks /\ task'.stage = "done" /\ task'.action = "check" /\ task'.serial = task.serial
      /\ task'.path = task.path /\ task'.agreed = task.agreed /\ task'.accepted = task.accepted /\ task'.review = r
      /\ task'.meta = task.meta /\ task'.hash = task.hash
  BY <1>1, <1>4, <1>5 DEF Tasks, Stages
<1>7. Typed'
  BY <1>1, <1>6, TypedStays DEF ReadsBoards, Quiet, boardVars
<1>8. OneAtATime'
  <2>1. Progress(task)'
    BY <1>1, <1>2, <1>4, <1>6 DEF Progress, Reviews
  <2>2. Consented(task)'
    BY <1>1, <1>2, <1>6 DEF Consented, ReadsBoards, Quiet, pageVars
  <2> QED BY <1>1, <1>2, <2>1, <2>2 DEF OneAtATime, ReadsBoards, Quiet, pageVars
<1>9. Shown' /\ Sealed' /\ Restarts'
  BY <1>1, <1>6 DEF Shown, Sealed, Restarts, ReadsBoards, Quiet, pageVars
<1> QED BY <1>7, <1>8, <1>9 DEF PageInv

LEMMA WriteStep ==
  ASSUME FirmwareAssumption, PageInv, Load \/ LoadTears
  PROVE  PageInv'
<1>1. /\ Loading /\ task \in Tasks /\ task.action = "flash" /\ task.stage = "load" /\ task.serial \in Boards
      /\ task.path \in Paths /\ Typed /\ OneAtATime /\ Shown /\ Sealed
  BY TaskParts DEF Load, LoadTears, Works, PageInv
<1>2. /\ Quiet /\ UNCHANGED <<mode, file>> /\ mode[task.serial] = "bootsel"
      /\ dialog = None /\ Progress(task) /\ Consented(task)
  BY <1>1 DEF Load, LoadTears, Answers, OneAtATime
<1>3. /\ flash' \in [Boards -> Images \cup {Empty, Torn}]
      /\ bound' \in [Boards -> {"normal", "bootsel", "nuke", None}]
  <2>1. Load => file[task.path] \in Images
    BY <1>1 DEF Load, Typed
  <2> QED BY <1>1, <2>1 DEF Load, LoadTears, Typed, TypeOK
<1>4. /\ task' \in Tasks /\ task'.stage \in {"restart", "error"} /\ task'.action = "flash"
      /\ task'.serial = task.serial /\ task'.path = task.path /\ task'.agreed = task.agreed
      /\ task'.accepted = task.accepted /\ task'.review = task.review
  BY <1>1 DEF Load, LoadTears, To, Tasks, Stages
<1>5. Typed'
  BY <1>1, <1>2, <1>3, <1>4 DEF Typed, TypeOK, Quiet, pageVars, Selections
<1>6. OneAtATime'
  <2>1. Progress(task)'
    BY <1>1, <1>2, <1>4 DEF Progress, Reviewed, Reviews
  <2>2. Consented(task)'
    BY <1>1, <1>2, <1>4 DEF Consented, Quiet, pageVars
  <2> QED BY <1>2, <2>1, <2>2 DEF OneAtATime, Quiet, pageVars
<1>7. Shown' /\ Sealed' /\ Restarts'
  BY <1>1, <1>2, <1>4 DEF Shown, Sealed, Restarts, Quiet, pageVars
<1> QED BY <1>5, <1>6, <1>7 DEF PageInv

LEMMA RebootStep ==
  ASSUME FirmwareAssumption, PageInv, Reboot
  PROVE  PageInv'
<1>1. /\ Loading /\ task \in Tasks /\ task.action = "reboot" /\ Typed /\ OneAtATime /\ Shown /\ Sealed
      /\ Quiet /\ UNCHANGED <<flash, mode, file>> /\ dialog = None /\ Progress(task) /\ Consented(task)
  BY TaskParts DEF Reboot, Works, PageInv, OneAtATime
<1>2. bound' \in [Boards -> {"normal", "bootsel", "nuke", None}]
  BY <1>1 DEF Reboot, Typed, TypeOK
<1>3. /\ task' \in Tasks /\ task'.stage = "restart" /\ task'.action = "reboot"
      /\ task'.serial = task.serial /\ task'.agreed = task.agreed /\ task'.accepted = task.accepted
  BY <1>1 DEF Reboot, Tasks, Stages
<1>4. Typed'
  BY <1>1, <1>2, <1>3 DEF Typed, TypeOK, Quiet, pageVars, Selections
<1>5. OneAtATime'
  <2>1. Progress(task)' /\ Consented(task)'
    BY <1>1, <1>3 DEF Progress, Consented, Quiet, pageVars
  <2> QED BY <1>1, <2>1 DEF OneAtATime, Quiet, pageVars
<1>6. Shown' /\ Sealed' /\ Restarts'
  BY <1>1, <1>3 DEF Shown, Sealed, Restarts, Quiet, pageVars
<1> QED BY <1>4, <1>5, <1>6 DEF PageInv

LEMMA OtherStep ==
  ASSUME FirmwareAssumption, PageInv, Review \/ SeenAgain \/ Ends
  PROVE  PageInv'
<1>1. Loading /\ ReadsBoards /\ Typed /\ OneAtATime
  BY DEF Review, SeenAgain, Ends, WaitEnds, FailTask, TimesOut, Works, PageInv
<1>2. CASE To("error") \/ To("load")
  BY <1>1, <1>2, StageStep DEF Stages
<1>3. CASE SeenAgain
  <2>1. task.action \in {"flash", "reboot"} /\ task.stage = "restart" /\ mode[task.serial] = Expected(task)
        /\ To("done")
    BY <1>3 DEF SeenAgain, Works
  <2>2. task.action = "flash" /\ task.review.hash \notin Nukes => task.restarted
    BY <1>1, <2>1 DEF PageInv, Restarts, Expected
  <2> QED BY <1>1, <2>1, <2>2, StageStep DEF Stages
<1> QED BY <1>2, <1>3 DEF Review, Ends, WaitEnds, FailTask

-----------------------------------------------------------------------------
\* The result.

LEMMA LandStep ==
  ASSUME FirmwareAssumption, PageInv, LandImage \/ LandFlash \/ LandRestart \/ LandError
  PROVE  PageInv'
<1>1. /\ Loading /\ task \in Tasks /\ Typed /\ OneAtATime /\ Shown /\ Sealed /\ task' = None
      /\ UNCHANGED <<boardVars, file, closing, said, asks, dialog>>
  BY TaskParts DEF PageInv, LandImage, LandFlash, LandRestart, LandError, Landing, pageVars
<1>2. dialog = None /\ Progress(task) /\ Consented(task)
  BY <1>1 DEF OneAtATime
<1>3. selection' \in Selections /\ field' \in [serial : Boards, path : Paths] /\ Shown'
  <2>1. CASE LandImage
    <3>1. /\ selection' = [path |-> task.path, image |-> [meta |-> task.meta, hash |-> task.hash], assessment |-> None]
          /\ field' = [field EXCEPT !.path = task.path]
          /\ task.action \in {"inspect", "sign"} /\ task.stage = "done"
      BY <2>1 DEF LandImage, Inspected, Works
    <3>2. task.meta \in Images /\ task.hash \in Images
      BY <1>2, <3>1 DEF Progress
    <3>3. field \in [serial : Boards, path : Paths] /\ task.path \in Paths
      BY <1>1 DEF Typed, TypeOK, Tasks
    <3> QED BY <3>1, <3>2, <3>3 DEF Selections, Shown
  <2>2. CASE LandFlash
    <3>1. /\ selection' = [path |-> task.path, image |-> [meta |-> task.review.hash, hash |-> task.review.hash],
                           assessment |-> task.review]
          /\ field' = field /\ task.action = "flash"
      BY <2>2 DEF LandFlash, Works
    <3>2. Reviewed(task) /\ task.path = field.path /\ task.serial = field.serial
      BY <1>2, <3>1 DEF Progress, Consented
    <3>3. field \in [serial : Boards, path : Paths] /\ task.path \in Paths /\ task.review.hash \in Images
      BY <1>1, <3>2 DEF Typed, TypeOK, Tasks, Reviewed, Reviews
    <3> QED BY <3>1, <3>2, <3>3 DEF Selections, Shown, Reviewed
  <2>3. CASE LandRestart \/ LandError
    BY <1>1, <2>3 DEF LandRestart, LandError, pageVars, Typed, TypeOK, Shown
  <2> QED BY <1>1, <2>1, <2>2, <2>3 DEF LandImage, LandFlash, LandRestart, LandError
<1>4. Typed'
  BY <1>1, <1>3 DEF Typed, TypeOK, boardVars, Selections
<1>5. OneAtATime' /\ Sealed' /\ Restarts'
  BY <1>1, <1>2 DEF OneAtATime, Sealed, Restarts, Loading
<1> QED BY <1>3, <1>4, <1>5 DEF PageInv

LEMMA LandCheckStep ==
  ASSUME FirmwareAssumption, PageInv, LandCheck
  PROVE  PageInv'
<1> DEFINE r == [action |-> "flash", serial |-> task.serial, path |-> task.path, agreed |-> task.agreed,
                 accepted |-> task.accepted, review |-> task.review]
<1>1. /\ Loading /\ task \in Tasks /\ Typed /\ OneAtATime /\ Sealed
      /\ UNCHANGED <<boardVars, file, closing, said, asks, field>>
      /\ task.action = "check" /\ task.stage = "done" /\ Inspected(task.review)
  BY TaskParts DEF PageInv, LandCheck, Landing, Works
<1>2. /\ dialog = None /\ task.agreed /\ ~task.accepted /\ task.review \in Reviews
      /\ task.review.serial = task.serial /\ task.path = field.path /\ task.serial = field.serial
      /\ <<"erase", task.serial>> \in said
  BY <1>1 DEF OneAtATime, Progress, Consented
<1>3. selection' \in Selections /\ Shown'
  <2>1. task.path \in Paths /\ task.meta \in Images \cup {None} /\ task.hash \in Images \cup {None}
    BY <1>1 DEF Tasks
  <2>2. selection' = [path |-> task.path, image |-> [meta |-> task.meta, hash |-> task.hash],
                      assessment |-> task.review]
    BY <1>1 DEF Inspected
  <2>3. task.meta \in Images /\ task.hash \in Images
    BY <1>1 DEF OneAtATime, Progress
  <2> QED BY <1>1, <1>2, <2>1, <2>2, <2>3 DEF Selections, Shown
<1>4. /\ field' \in [serial : Boards, path : Paths] /\ said' \subseteq {"erase", "mismatch"} \X Boards
      /\ asks' \in 0..MaxAsks
  BY <1>1 DEF Typed, TypeOK
<1>5. /\ r \in Requests /\ r.action = "flash" /\ r.serial = task.serial /\ r.path = task.path
      /\ r.agreed /\ ~r.accepted /\ r.review = task.review
  BY <1>1, <1>2 DEF Requests, Tasks, Actions
<1>6. CASE task.review.allowed /\ ~task.review.mismatch
  <2>1. Run(r) /\ UNCHANGED dialog
    BY <1>5, <1>6 DEF LandCheck, WriteOrConfirm
  <2>2. Reviewed(r) /\ ~r.review.mismatch
    BY <1>2, <1>5, <1>6 DEF Reviewed
  <2> HIDE DEF r
  <2>3. /\ <<"erase", r.serial>> \in said' /\ r.path = field'.path /\ r.serial = field'.serial
    BY <1>1, <1>2, <1>5
  <2> QED BY <1>1, <1>2, <1>3, <1>4, <1>5, <2>1, <2>2, <2>3, RunStep
<1>7. CASE task.review.allowed /\ task.review.mismatch
  <2>1. dialog' = r /\ task' = None
    BY <1>5, <1>7 DEF LandCheck, WriteOrConfirm
  <2>2. Reviewed(r)
    BY <1>2, <1>5, <1>7 DEF Reviewed
  <2> HIDE DEF r
  <2>3. Typed'
    BY <1>1, <1>3, <1>4, <1>5, <2>1 DEF Typed, TypeOK, boardVars, Selections
  <2>4. OneAtATime'
    BY <1>1, <1>2, <1>5, <2>1, <2>2 DEF OneAtATime, Loading, Consented, Reviewed, Reviews
  <2>5. Sealed' /\ Restarts'
    BY <1>1, <2>1 DEF Sealed, Restarts, Loading
  <2> QED BY <1>3, <2>3, <2>4, <2>5 DEF PageInv
<1>8. CASE ~task.review.allowed
  <2>1. task' = None /\ dialog' = None
    BY <1>2, <1>8 DEF LandCheck
  <2>2. Typed'
    BY <1>1, <1>3, <1>4, <2>1 DEF Typed, TypeOK, boardVars, Selections
  <2>3. OneAtATime' /\ Sealed' /\ Restarts'
    BY <1>1, <2>1 DEF OneAtATime, Sealed, Restarts, Loading
  <2> QED BY <1>3, <2>2, <2>3 DEF PageInv
<1> QED BY <1>6, <1>7, <1>8

-----------------------------------------------------------------------------
\* The invariant.

LEMMA InitPage ==
  ASSUME FirmwareAssumption, Init
  PROVE  PageInv
<1>1. Starts \ Nukes \subseteq Images
  BY DEF FirmwareAssumption
<1>2. PICK i \in Images : file = [p \in Paths |-> IF p = "fw" THEN i ELSE None]
  BY DEF Init
<1>3. /\ flash \in [Boards -> Images \cup {Empty, Torn}]
      /\ mode \in [Boards -> {"normal", "bootsel", "away"}]
      /\ bound \in [Boards -> {"normal", "bootsel", "nuke", None}]
  BY <1>1 DEF Init
<1>4. file \in [Paths -> Images \cup {None}] /\ file["fw"] = i /\ file["signed"] = None
  BY <1>2 DEF Paths
<1>5. Typed
  <2>1. /\ closing \in BOOLEAN /\ field \in [serial : Boards, path : Paths] /\ selection \in Selections
        /\ said \subseteq {"erase", "mismatch"} \X Boards /\ task = None /\ dialog = None
    BY DEF Init, NoSelection, Selections, Paths
  <2>2. asks \in 0..MaxAsks
    BY DEF Init, FirmwareAssumption
  <2> QED BY <1>3, <1>4, <2>1, <2>2 DEF Typed, TypeOK, Selections
<1>6. OneAtATime /\ Shown /\ Sealed /\ Restarts
  BY DEF Init, OneAtATime, Shown, Sealed, Restarts, Loading, NoSelection
<1> QED BY <1>5, <1>6 DEF PageInv

LEMMA StutterPage ==
  ASSUME PageInv, UNCHANGED vars
  PROVE  PageInv'
BY DEF PageInv, Typed, TypeOK, OneAtATime, Progress, Consented, Reviewed, Shown, Sealed, Restarts, Loading,
       vars, boardVars, pageVars, Tasks, Reviews, Requests, Selections

LEMMA PageStep ==
  ASSUME FirmwareAssumption, PageInv, [Next]_vars
  PROVE  PageInv'
<1>1. CASE User
  BY <1>1, FieldStep, StartStep, AnswerStep DEF User
<1>2. CASE Work
  BY <1>2, ReadStep, SignStep, UpdateModeStep, AssessStep, WriteStep, RebootStep, OtherStep DEF Work
<1>3. CASE Land
  BY <1>3, LandStep, LandCheckStep DEF Land
<1> QED BY <1>1, <1>2, <1>3, BoardStep, ReplaceStep, CleanupStep, OtherStep, StutterPage DEF Next

LEMMA PageIsConsistent ==
  ASSUME FirmwareAssumption
  PROVE  Spec => []PageInv
<1>1. Init => PageInv
  BY InitPage
<1>2. PageInv /\ [Next]_vars => PageInv'
  BY PageStep
<1> QED BY <1>1, <1>2, PTL DEF Spec

-----------------------------------------------------------------------------
\* While nobody replaces the file during an operation.

\* A review that holds does so as long as its board keeps its image and is not
\* about to erase itself.
LEMMA TaskHolds ==
  ASSUME Holds(task.review), task'.review = task.review,
         flash'[task.review.serial] = flash[task.review.serial], bound'[task.review.serial] # "nuke"
  PROVE  Holds(task.review)'
BY DEF Holds, Mismatch, Allowed, BoardKey

LEMMA DialogHolds ==
  ASSUME Holds(dialog.review), dialog' = dialog,
         flash'[dialog.review.serial] = flash[dialog.review.serial], bound'[dialog.review.serial] # "nuke"
  PROVE  Holds(dialog.review)'
BY DEF Holds, Mismatch, Allowed, BoardKey

LEMMA SameBoardStep ==
  ASSUME FirmwareAssumption, PageInv, SameImage, BoardMoves
  PROVE  SameImage'
<1>1. PICK b \in Boards : Leave(b) \/ Return(b) \/ Replug(b)
  BY DEF BoardMoves
<1>2. UNCHANGED <<file, closing, pageVars, said, asks>> /\ Typed
  BY <1>1 DEF Leave, Return, Replug, Outside, PageInv
<1>3. \A c \in Boards : bound[c] # "nuke" => flash'[c] = flash[c] /\ bound'[c] # "nuke"
  BY <1>1, <1>2 DEF Leave, Return, Replug, Typed, TypeOK, FirmwareAssumption
<1>4. CASE Loading
  <2>1. task \in Tasks /\ dialog = None /\ Progress(task)
    BY <1>4, TaskParts DEF OneAtATime, PageInv
  <2>2. /\ task'.action = task.action /\ task'.path = task.path /\ task'.review = task.review
        /\ task'.meta = task.meta /\ task'.hash = task.hash /\ task'.stage = task.stage
    BY <1>1, <2>1 DEF Leave, Return, Replug, Tasks
  <2>3. \/ task.action = "check" /\ task.stage = "done"
        \/ task.action = "flash" /\ task.stage \in {"start", "load"}
        => Holds(task.review)'
    <3>1. SUFFICES ASSUME \/ task.action = "check" /\ task.stage = "done"
                          \/ task.action = "flash" /\ task.stage \in {"start", "load"}
                   PROVE  Holds(task.review)'
      OBVIOUS
    <3>2. Holds(task.review) /\ task.review.serial \in Boards
      BY <1>4, <2>1, <3>1 DEF SameImage, Progress, Reviewed, Reviews
    <3> QED BY <1>3, <2>2, <3>2, TaskHolds DEF Holds
  <2> QED BY <1>2, <1>4, <2>1, <2>2, <2>3 DEF SameImage, pageVars, Loading
<1>5. CASE ~Loading
  <2>1. task' = task
    BY <1>1, <1>5 DEF Leave, Return, Replug
  <2>2. dialog # None /\ dialog.agreed => Holds(dialog.review)'
    <3>1. SUFFICES ASSUME dialog # None, dialog.agreed
                   PROVE  Holds(dialog.review)'
      OBVIOUS
    <3>2. Holds(dialog.review) /\ dialog.review.serial \in Boards
      BY <3>1 DEF SameImage, PageInv, OneAtATime, Reviewed, Reviews
    <3> QED BY <1>2, <1>3, <3>2, DialogHolds DEF Holds, pageVars
  <2> QED BY <1>2, <1>5, <2>1, <2>2 DEF SameImage, pageVars, Loading
<1> QED BY <1>4, <1>5

LEMMA SameFileStep ==
  ASSUME FirmwareAssumption, Replaced # "always", PageInv, SameImage, Replace \/ Cleanup
  PROVE  SameImage'
<1>1. UNCHANGED <<boardVars, task, dialog>>
  BY DEF Replace, Cleanup, pageVars
<1>2. dialog # None /\ dialog.agreed => Holds(dialog.review)'
  BY <1>1 DEF SameImage, Holds, Mismatch, Allowed, BoardKey, boardVars
<1>3. CASE Replace
  <2>1. ~Loading
    BY <1>3 DEF Replace, FirmwareAssumption
  <2> QED BY <1>1, <1>2, <2>1 DEF SameImage, Loading
<1>4. CASE Cleanup
  <2>1. Loading => task.path \in Paths
    BY TaskParts DEF PageInv
  <2>2. Loading => file'[task.path] \in {file[task.path], None}
    BY <1>4, <2>1 DEF Cleanup, PageInv, Typed
  <2>3. Loading /\ Holds(task.review) => Holds(task.review)'
    BY <1>1 DEF Holds, Mismatch, Allowed, BoardKey, boardVars
  <2> QED BY <1>1, <1>2, <2>2, <2>3 DEF SameImage, Loading
<1> QED BY <1>3, <1>4

LEMMA SameUserStep ==
  ASSUME FirmwareAssumption, PageInv, SameImage, User
  PROVE  SameImage'
<1>1. UNCHANGED <<boardVars, file>> /\ ~Loading
  BY DEF User, TypePath, TypeSerial, StartInspect, StartSign, StartFlash, StartRestart, Confirm, AcceptMismatch,
         Cancel, Ask, Idle, Answer
<1>2. CASE UNCHANGED task /\ (dialog' = None \/ dialog' = dialog \/ ~dialog'.agreed)
  <2>1. dialog' = dialog /\ dialog # None /\ dialog.agreed => Holds(dialog.review)'
    BY <1>1 DEF SameImage, Holds, Mismatch, Allowed, BoardKey, boardVars
  <2> QED BY <1>1, <1>2, <2>1 DEF SameImage, Loading
<1>3. CASE task'.stage = "start" /\ task'.action # "flash" /\ dialog' = None
  BY <1>3 DEF SameImage
<1>4. CASE AcceptMismatch
  <2>1. /\ dialog \in Requests /\ dialog.agreed /\ dialog' = None /\ Holds(dialog.review)
    BY <1>4 DEF AcceptMismatch, Answer, PageInv, Typed, SameImage
  <2>2. task'.stage = "start" /\ task'.action = "flash" /\ task'.review = dialog.review
    BY <1>4, <2>1 DEF AcceptMismatch, Run, Requests, PageInv, OneAtATime, Answer
  <2>3. Holds(task.review)'
    BY <1>1, <2>1, <2>2 DEF Holds, Mismatch, Allowed, BoardKey, boardVars
  <2> QED BY <2>1, <2>2, <2>3 DEF SameImage
<1>5. CASE TypePath \/ TypeSerial \/ Cancel \/ StartFlash
  BY <1>2, <1>5 DEF TypePath, TypeSerial, Cancel, Answer, StartFlash, Request
<1>6. CASE StartInspect \/ StartSign \/ StartRestart
  BY <1>3, <1>6 DEF StartInspect, StartSign, StartRestart, Ask, Idle, Run, Request
<1>7. CASE Confirm
  BY <1>3, <1>7 DEF Confirm, Answer, Run, PageInv, Typed, Requests
<1> QED BY <1>4, <1>5, <1>6, <1>7 DEF User


LEMMA SameWorkStep ==
  ASSUME FirmwareAssumption, PageInv, SameImage, Work \/ Ends
  PROVE  SameImage'
<1>1. Loading /\ task \in Tasks /\ Typed /\ dialog = None /\ Progress(task) /\ UNCHANGED <<closing, pageVars>>
  <2>1. Loading /\ Quiet
    BY DEF Work, Ends, WaitEnds, FailTask, TimesOut, ReadSignature, ReadDigest, SignOpens, SignEnds, Probe,
           RequestUpdate, EntersUpdateMode, Assess, Review, Load, LoadTears, Reboot, SeenAgain, Works, ReadsBoards
  <2> QED BY <2>1, TaskParts DEF PageInv, OneAtATime, Quiet
<1>2. dialog' = None
  BY <1>1 DEF pageVars
<1>3. CASE ReadSignature
  <2>1. /\ task'.action = task.action /\ task'.path = task.path /\ task'.stage = "digest"
        /\ task'.meta = file[task.path] /\ file' = file /\ task.action \in {"inspect", "sign", "check"}
    BY <1>1, <1>3 DEF ReadSignature, Works, ReadsBoards, Tasks
  <2> QED BY <1>2, <2>1 DEF SameImage
<1>4. CASE ReadDigest
  <2>1. /\ task.action \in {"inspect", "sign", "check"} /\ task.stage = "digest"
        /\ file[task.path] # None /\ file[task.path] \in {task.meta, None}
    BY <1>1, <1>4 DEF ReadDigest, Works, SameImage
  <2>2. PICK s \in {"done", "error", "seal", "probe"} :
          /\ task' = [task EXCEPT !.hash = file[task.path], !.stage = s]
          /\ task.action = "check" => s = "probe"
    BY <2>1, <1>4 DEF ReadDigest, Works
  <2>3. task'.action = task.action /\ task'.stage = s /\ task'.hash = task'.meta
    BY <1>1, <2>1, <2>2 DEF Tasks
  <2> QED BY <1>2, <2>1, <2>2, <2>3 DEF SameImage
<1>5. CASE Assess
  <2>1. task.action = "check" /\ task.stage = "assess" /\ bound[task.serial] = None /\ task.hash = task.meta
    BY <1>1, <1>5 DEF Assess, Works, Answers, SameImage
  <2>2. /\ task'.action = "check" /\ task'.stage = "done"
        /\ task'.review = [serial |-> task.serial, hash |-> task.hash,
                           mismatch |-> Mismatch(task.serial, task.meta), allowed |-> Allowed(task.serial, task.meta)]
    BY <1>1, <1>5, <2>1 DEF Assess, Tasks
  <2>3. UNCHANGED <<flash, bound>>
    BY <1>5 DEF Assess, ReadsBoards, boardVars
  <2>4. Holds(task.review)'
    BY <2>1, <2>2, <2>3 DEF Holds, Mismatch, Allowed, BoardKey, FirmwareAssumption
  <2> QED BY <1>2, <2>2, <2>4 DEF SameImage
<1>6. CASE Review
  <2>1. /\ task.action = "flash" /\ task.stage = "start" /\ Holds(task.review)
        /\ UNCHANGED <<flash, bound, file>>
        /\ To("error") \/ (To("load") /\ file[task.path] = task.review.hash)
    BY <1>1, <1>6 DEF Review, Works, SameImage, ReviewedFlash, ReadsBoards, boardVars
  <2>2. /\ task'.action = "flash" /\ task'.path = task.path /\ task'.review = task.review
        /\ task'.stage \in {"error", "load"} /\ (task'.stage = "load" => file[task.path] = task.review.hash)
    BY <1>1, <2>1 DEF To, Tasks
  <2>3. Holds(task.review)'
    BY <2>1, <2>2 DEF Holds, Mismatch, Allowed, BoardKey
  <2> QED BY <1>2, <2>1, <2>2, <2>3 DEF SameImage
<1>7. CASE Probe \/ RequestUpdate \/ EntersUpdateMode
  <2>1. PICK s \in {"assess", "done", "request", "wait"} : To(s) /\ (task.action = "check" => s # "done")
    BY <1>7 DEF Probe, RequestUpdate, EntersUpdateMode, After
  <2>2. /\ task.action \in {"check", "bootsel"}
        /\ task.action = "check" => task.stage \in {"probe", "request", "wait"}
    BY <1>7 DEF Probe, RequestUpdate, EntersUpdateMode, Works
  <2>3. /\ task'.action = task.action /\ task'.stage = s /\ task'.meta = task.meta /\ task'.hash = task.hash
    BY <1>1, <2>1 DEF To, Tasks
  <2>4. task.action = "check" => task.hash = task.meta
    BY <1>1, <2>2 DEF SameImage
  <2> QED BY <1>2, <2>1, <2>2, <2>3, <2>4 DEF SameImage
<1>8. CASE SignOpens \/ SignEnds \/ Reboot
  <2>1. task'.action \in {"sign", "reboot"} /\ task'.stage # "digest"
    BY <1>1, <1>8 DEF SignOpens, SignEnds, Reboot, Works, To, Tasks
  <2> QED BY <1>2, <2>1 DEF SameImage
<1>9. CASE Load \/ LoadTears \/ SeenAgain \/ Ends
  <2>1. /\ task'.stage \in {"restart", "done", "error"} /\ (task'.action = "check" => task'.stage = "error")
    BY <1>1, <1>9 DEF Load, LoadTears, SeenAgain, Ends, WaitEnds, FailTask, Works, To, Tasks
  <2> QED BY <1>2, <2>1 DEF SameImage
<1> QED BY <1>3, <1>4, <1>5, <1>6, <1>7, <1>8, <1>9 DEF Work

LEMMA SameLandStep ==
  ASSUME FirmwareAssumption, PageInv, SameImage, Land
  PROVE  SameImage'
<1>1. Loading /\ task \in Tasks /\ dialog = None /\ UNCHANGED boardVars
  BY TaskParts DEF Land, LandImage, LandCheck, LandFlash, LandRestart, LandError, Landing, Works, PageInv, OneAtATime
<1>2. CASE LandImage \/ LandFlash \/ LandRestart \/ LandError
  <2>1. task' = None /\ dialog' = None
    BY <1>1, <1>2 DEF LandImage, LandFlash, LandRestart, LandError, pageVars
  <2> QED BY <2>1 DEF SameImage, Loading
<1>3. CASE LandCheck
  <2>1. Holds(task.review) /\ task.action = "check"
    BY <1>1, <1>3 DEF LandCheck, Works, SameImage
  <2>2. CASE task' = None /\ dialog' = None
    BY <2>2 DEF SameImage, Loading
  <2>3. CASE task' = None /\ dialog'.review = task.review
    BY <1>1, <2>1, <2>3 DEF SameImage, Loading, Holds, Mismatch, Allowed, BoardKey, boardVars
  <2>4. CASE dialog' = None /\ task'.review = task.review /\ task'.action = "flash" /\ task'.stage = "start"
    BY <1>1, <2>1, <2>4 DEF SameImage, Loading, Holds, Mismatch, Allowed, BoardKey, boardVars
  <2> QED BY <1>1, <1>3, <2>2, <2>3, <2>4 DEF LandCheck, WriteOrConfirm, Run
<1> QED BY <1>2, <1>3 DEF Land

LEMMA SameStep ==
  ASSUME FirmwareAssumption, Replaced # "always", PageInv, SameImage, [Next]_vars
  PROVE  SameImage'
<1>1. CASE UNCHANGED vars
  BY <1>1 DEF SameImage, Loading, Holds, Mismatch, Allowed, BoardKey, vars, boardVars, pageVars
<1> QED BY <1>1, SameBoardStep, SameFileStep, SameUserStep, SameWorkStep, SameLandStep DEF Next

LEMMA ImageIsSame ==
  ASSUME FirmwareAssumption, Replaced # "always"
  PROVE  Spec => [](PageInv /\ SameImage)
<1>1. Init => PageInv /\ SameImage
  BY InitPage DEF Init, SameImage, Loading
<1>2. PageInv /\ SameImage /\ [Next]_vars => (PageInv /\ SameImage)'
  BY PageStep, SameStep
<1> QED BY <1>1, <1>2, PTL DEF Spec

-----------------------------------------------------------------------------
\* What is written.

\* Nothing but picotool's load, by a flash whose review was passed, puts an
\* image on a board or has a nuke erase it.
LEMMA OnlyLoadWrites ==
  ASSUME FirmwareAssumption, PageInv, [Next]_vars, NEW b \in Boards, NEW i \in Images, Written(b, i)
  PROVE  Load /\ Loading /\ task.serial = b /\ file[task.path] = i /\ task.action = "flash" /\ task.stage = "load"
<1>1. Typed
  BY DEF PageInv
<1>2. ~UNCHANGED <<flash, bound>>
  BY DEF Written
<1>3. CASE BoardMoves
  <2>1. PICK c \in Boards : Leave(c) \/ Return(c) \/ Replug(c)
    BY <1>3 DEF BoardMoves
  <2>2. bound'[b] = "nuke" => bound[b] = "nuke"
    BY <1>1, <2>1 DEF Leave, Return, Replug, Typed, TypeOK, FirmwareAssumption
  <2>3. flash'[b] # flash[b] => flash'[b] = Empty
    BY <1>1, <2>1 DEF Leave, Return, Replug, Typed, TypeOK
  <2> QED BY <2>2, <2>3 DEF Written, FirmwareAssumption
<1>4. ~User /\ ~Land /\ ~Replace /\ ~Cleanup /\ ~UNCHANGED vars
  BY <1>2 DEF User, TypePath, TypeSerial, StartInspect, StartSign, StartFlash, StartRestart, Confirm, AcceptMismatch,
       Cancel, Ask, Idle, Answer, Land, LandImage, LandCheck, LandFlash, LandRestart, LandError, Landing,
       Replace, Cleanup, vars, boardVars
<1>5. ~Ends /\ (Work => RequestUpdate \/ Reboot \/ Load \/ LoadTears)
  BY <1>2 DEF Ends, WaitEnds, FailTask, Work, ReadSignature, ReadDigest, SignOpens, SignEnds, Probe,
       EntersUpdateMode, Assess, Review, SeenAgain, ReadsBoards, boardVars
<1>6. CASE RequestUpdate \/ Reboot
  <2>1. Loading /\ task.serial \in Boards /\ flash' = flash
    BY <1>1, <1>6, TaskParts DEF RequestUpdate, Reboot, Works
  <2>2. bound'[b] = "nuke" => bound[b] = "nuke"
    BY <1>1, <1>6, <2>1 DEF RequestUpdate, Reboot, Typed, TypeOK
  <2> QED BY <2>1, <2>2 DEF Written
<1>7. CASE Load \/ LoadTears
  <2>1. Loading /\ task.serial \in Boards /\ task.action = "flash" /\ task.stage = "load"
    BY <1>1, <1>7, TaskParts DEF Load, LoadTears, Works
  <2>2. CASE LoadTears
    <3>1. bound' = bound /\ (flash'[b] = flash[b] \/ flash'[b] = Torn)
      BY <1>1, <2>1, <2>2 DEF LoadTears, Typed, TypeOK
    <3> QED BY <3>1 DEF Written, FirmwareAssumption
  <2>3. CASE Load
    <3>1. CASE file[task.path] \in Nukes
      <4>1. flash' = flash /\ bound' = [bound EXCEPT ![task.serial] = "nuke"]
        BY <2>3, <3>1 DEF Load
      <4> QED BY <1>1, <2>1, <2>3, <4>1 DEF Written, Typed, TypeOK
    <3>2. CASE file[task.path] \notin Nukes
      <4>1. /\ flash' = [flash EXCEPT ![task.serial] = file[task.path]]
            /\ bound' = [bound EXCEPT ![task.serial] = "normal"]
        BY <2>3, <3>2 DEF Load
      <4> QED BY <1>1, <2>1, <2>3, <4>1 DEF Written, Typed, TypeOK
    <3> QED BY <3>1, <3>2
  <2> QED BY <1>7, <2>2, <2>3
<1> QED BY <1>3, <1>4, <1>5, <1>6, <1>7 DEF Next

\* What holds when an image is written, if the file was not replaced.
LEMMA WrittenAsReviewed ==
  ASSUME FirmwareAssumption, PageInv, SameImage, [Next]_vars,
         NEW b \in Boards, NEW i \in Images, Written(b, i)
  PROVE  /\ task.review.hash = i /\ task.review.serial = b /\ Holds(task.review)
         /\ task.review.allowed /\ (task.review.mismatch => task.accepted)
<1>1. Load /\ Loading /\ task.serial = b /\ file[task.path] = i /\ task.action = "flash" /\ task.stage = "load"
  BY OnlyLoadWrites
<1>2. Reviewed(task) /\ (task.review.mismatch => task.accepted)
  BY <1>1 DEF PageInv, OneAtATime, Progress
<1>3. Holds(task.review) /\ file[task.path] \in {task.review.hash, None}
  BY <1>1 DEF SameImage
<1> QED BY <1>1, <1>2, <1>3 DEF Reviewed, FirmwareAssumption

-----------------------------------------------------------------------------
\* The theorems.

\* The boards, the files, the page and its counters keep their types.
THEOREM FirmwareTypes ==
  ASSUME FirmwareAssumption
  PROVE  Spec => []TypeOK
<1>1. PageInv => TypeOK
  BY DEF PageInv, Typed
<1> QED BY <1>1, PageIsConsistent, PTL

\* What the page says of an image is about the file in the field, and what it
\* says of a board about the board in the field.
THEOREM SelectionMatchesFields ==
  ASSUME FirmwareAssumption
  PROVE  Spec => []SelectionIsShown
<1>1. PageInv => SelectionIsShown
  BY DEF PageInv, Shown, SelectionIsShown
<1> QED BY <1>1, PageIsConsistent, PTL

\* A flash that is reported as complete was followed by a restart of its board.
THEOREM CompleteMeansRestarted ==
  ASSUME FirmwareAssumption
  PROVE  Spec => []FlashRestarts
<1>1. PageInv => FlashRestarts
  BY DEF PageInv, Restarts, FlashRestarts
<1> QED BY <1>1, PageIsConsistent, PTL

\* No signed copy is left when the application has quit.
THEOREM SignedCopiesAreRemoved ==
  ASSUME FirmwareAssumption
  PROVE  Spec => []NoImageIsLeft
<1>1. PageInv => NoImageIsLeft
  BY DEF PageInv, Sealed, NoImageIsLeft
<1> QED BY <1>1, PageIsConsistent, PTL

\* Whatever happens to the file, a board is written only after the user typed
\* the serial of that very board.
EraseIsAgreed == \A b \in Boards, i \in Images : Written(b, i) => <<"erase", b>> \in said

THEOREM OnlyNamedBoardsAreWritten ==
  ASSUME FirmwareAssumption
  PROVE  Spec => [][EraseIsAgreed]_vars
<1>1. PageInv /\ [Next]_vars => [EraseIsAgreed]_vars
  <2> SUFFICES ASSUME PageInv, [Next]_vars, NEW b \in Boards, NEW i \in Images, Written(b, i)
               PROVE  <<"erase", b>> \in said
    BY DEF EraseIsAgreed
  <2>1. Loading /\ task.serial = b /\ task.action = "flash"
    BY OnlyLoadWrites
  <2> QED BY <2>1 DEF PageInv, OneAtATime, Progress, Consented
<1> QED BY <1>1, PageIsConsistent, PTL DEF Spec

\* While no other program replaces the file during an operation, what is
\* written is the image that was assessed: its digest and its key.
THEOREM WrittenIsReviewed ==
  ASSUME FirmwareAssumption, Replaced # "always"
  PROVE  Spec => [][FlashesReviewed]_vars
<1>1. PageInv /\ SameImage /\ [Next]_vars => [FlashesReviewed]_vars
  BY WrittenAsReviewed DEF FlashesReviewed, Holds
<1> QED BY <1>1, ImageIsSame, PTL DEF Spec

\* And the write was agreed to: the erasure, and another key than the board has.
THEOREM WrittenIsAgreed ==
  ASSUME FirmwareAssumption, Replaced # "always"
  PROVE  Spec => [][WriteIsAgreed]_vars
<1>1. PageInv /\ SameImage /\ [Next]_vars => [WriteIsAgreed]_vars
  <2> SUFFICES ASSUME PageInv, SameImage, [Next]_vars, NEW b \in Boards, NEW i \in Images, Written(b, i)
               PROVE  <<"erase", b>> \in said /\ (Mismatch(b, i) => <<"mismatch", b>> \in said)
    BY DEF WriteIsAgreed
  <2>1. Loading /\ task.serial = b /\ task.action = "flash"
    BY OnlyLoadWrites
  <2>2. task.agreed /\ Consented(task)
    BY <2>1 DEF PageInv, OneAtATime, Progress
  <2>3. Mismatch(b, i) => task.accepted
    BY WrittenAsReviewed DEF Holds
  <2> QED BY <2>1, <2>2, <2>3 DEF Consented
<1> QED BY <1>1, ImageIsSame, PTL DEF Spec

\* A board with Secure Boot is only ever written with an image that one of the
\* keys in its fuses signed.
THEOREM WrittenIsTrusted ==
  ASSUME FirmwareAssumption, Replaced # "always"
  PROVE  Spec => [][TrustedIsWritten]_vars
<1>1. PageInv /\ SameImage /\ [Next]_vars => [TrustedIsWritten]_vars
  <2> SUFFICES ASSUME PageInv, SameImage, [Next]_vars, NEW b \in Boards, NEW i \in Images, Written(b, i), b \in Secure
               PROVE  KeyOf[i] \in Trust[b]
    BY DEF TrustedIsWritten
  <2>1. Allowed(b, i)
    BY WrittenAsReviewed DEF Holds
  <2> QED BY <2>1 DEF Allowed, BoardKey, Mismatch, Signed
<1> QED BY <1>1, ImageIsSame, PTL DEF Spec
=============================================================================
