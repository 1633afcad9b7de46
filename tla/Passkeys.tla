------------------------------ MODULE Passkeys ------------------------------
(***************************************************************************)
(* The Passkeys screen.                                                    *)
(*                                                                         *)
(* The view keeps the PIN that unlocked the list and reads the list again  *)
(* with it at every event of DeviceRepo.  It has one background task;      *)
(* assigning `_task` drops the one before.  A dialog shows that it works   *)
(* before the view is asked, and the view does nothing while it loads.     *)
(* When another key is announced the application drops the whole view, and *)
(* the task with it; the dialog stays.  FidoOps has the operations.        *)
(***************************************************************************)
EXTENDS KeyEvents, Naturals

CONSTANTS
  Ops,         \* what the user asks: a subset of AllOps
  Calm,        \* keys are moved, and views dropped, only with nothing under way
  Patient,     \* nothing is confirmed and no file is chosen while the view loads
  LostAnswers, \* whether an operation may be done and reported as failed
  MaxInputs,   \* bound: dialogs in one behaviour
  NoTask

AllOps == {"unlock", "delete", "setup", "change", "min", "minchange", "csr", "upload", "ea", "reset"}

PasskeysAssumption ==
  /\ Ops \subseteq AllOps /\ {Calm, Patient, LostAnswers} \subseteq BOOLEAN /\ MaxInputs \in Nat \ {0}

VARIABLES
  pin, version,       \* each key: its PIN, 0 for none; how often its passkeys changed
  unlocked, cached, list, loading, task, \* the view
  repoLoading,        \* DeviceRepo.loading, as the reset holds it
  infoTask,           \* an update_fido_info() is under way
  dialog,
  doubt, wasted, unread, erased, asked, \* history
  inputs

card == <<pin, version>>
view == <<unlocked, cached, list, loading, task>>
history == <<doubt, wasted, unread, erased, asked>>
vars == <<keyVars, card, view, repoLoading, infoTask, dialog, history, inputs>>

\* A PIN the user knows: the key it belongs to, and which of its PINs it is.
Pins == [key : Sockets, pin : 0..MaxInputs]
NoPin == [key |-> NoKey, pin |-> 0]
Lists == [key : Sockets, version : 0..MaxInputs]
Nothing == [key |-> NoKey, version |-> 0]
Closed == [phase |-> "closed", op |-> "none", with |-> NoPin, orphan |-> FALSE]

Task(what, with) == [op |-> what, stage |-> "start", res |-> "running", with |-> with, list |-> Nothing, key |-> plugged]

TypeOK ==
  /\ KeyTypeOK
  /\ pin \in [Keys -> 0..MaxInputs] /\ version \in [Keys -> 0..MaxInputs]
  /\ unlocked \in BOOLEAN /\ cached \in Pins /\ list \in Lists /\ loading \in BOOLEAN
  /\ unlocked => cached # NoPin /\ list # Nothing
  /\ task # NoTask => /\ task.op \in AllOps \cup {"refresh", "choose", "save"}
                      /\ task.stage \in {"start", "gone", "back", "second"}
                      /\ task.res \in {"running", "ok", "error"}
  /\ repoLoading \in BOOLEAN /\ infoTask \in BOOLEAN
  /\ dialog.phase \in {"closed", "input", "working", "success", "error"} /\ dialog.with \in Pins
  /\ erased \subseteq Keys /\ asked \subseteq Keys /\ inputs \in 0..MaxInputs

Init ==
  /\ KeyInit
  /\ pin \in [Keys -> 0..1] /\ version = [k \in Keys |-> 0]
  /\ unlocked = FALSE /\ cached = NoPin /\ list = Nothing /\ loading = FALSE /\ task = NoTask
  /\ repoLoading = FALSE /\ infoTask = FALSE /\ dialog = Closed
  /\ doubt = FALSE /\ wasted = FALSE /\ unread = FALSE /\ erased = {} /\ asked = {} /\ inputs = 0

-----------------------------------------------------------------------------
\* Events.

\* Mutant: the view goes on with what it had.
Drop_Kept ==
  /\ UNCHANGED <<unlocked, cached, list>> /\ loading' = FALSE /\ task' = NoTask
  /\ dialog' = [dialog EXCEPT !.orphan = dialog # Closed]

\* A new view; what the old one was doing is dropped, and its dialog is left.
Drop ==
  /\ unlocked' = FALSE /\ cached' = NoPin /\ list' = Nothing /\ loading' = FALSE /\ task' = NoTask
  /\ dialog' = [dialog EXCEPT !.orphan = dialog # Closed]

RefreshIfUnlocked ==
  IF unlocked /\ ~loading THEN loading' = TRUE /\ task' = Task("refresh", cached)
  ELSE UNCHANGED <<loading, task>>

OnEvent ==
  IF deviceChanged' THEN Drop
  ELSE RefreshIfUnlocked /\ UNCHANGED <<unlocked, cached, list, dialog>>

AtRest == task = NoTask /\ dialog = Closed

\* A refresh of the repository; not while a reset holds it.
OnDeviceEvent ==
  /\ ~repoLoading /\ UNCHANGED plugged
  /\ (AnnounceRead \/ AnnounceFailure \/ AnnounceBusy)
  /\ Calm => (deviceChanged' => AtRest) /\ (stirred => ~stirred')
  /\ OnEvent
  /\ UNCHANGED <<card, repoLoading, infoTask, history, inputs>>

OnFidoInfo ==
  /\ infoTask /\ infoTask' = FALSE /\ UNCHANGED plugged /\ AnnounceFidoInfo
  /\ Calm /\ deviceChanged => AtRest
  /\ OnEvent
  /\ UNCHANGED <<card, repoLoading, history, inputs>>

-----------------------------------------------------------------------------
\* The user.

Rest == UNCHANGED <<keyVars, card, repoLoading, infoTask, doubt, wasted, unread, erased>>

Lock ==
  /\ unlocked /\ dialog = Closed
  /\ unlocked' = FALSE /\ cached' = NoPin /\ list' = Nothing
  /\ Rest /\ UNCHANGED <<loading, task, dialog, asked, inputs>>

\* A delete takes the PIN that is kept; the reset's button is off while it loads.
Open ==
  /\ dialog = Closed /\ shown # NoKey /\ inputs < MaxInputs /\ inputs' = inputs + 1
  /\ \E op \in Ops \ {"upload", "csr"} :
       /\ op = "delete" => unlocked
       /\ op = "reset" => ~loading
       /\ dialog' = [phase |-> "input", op |-> op, orphan |-> FALSE, with |-> IF op = "delete" THEN cached ELSE NoPin]
  /\ Rest /\ UNCHANGED <<view, asked>>

Cancel ==
  /\ dialog.phase \in {"input", "success", "error"} /\ dialog' = Closed
  /\ Rest /\ UNCHANGED <<view, asked, inputs>>

\* What the user may type: the PIN of the key that is shown, or another one.
Typed(op) ==
  IF op \in {"delete"} THEN {dialog.with}
  ELSE IF op \in {"setup", "csr", "reset"} \/ shown = NoKey THEN {NoPin}
  ELSE {[key |-> shown, pin |-> pin[shown]], NoPin}

Starts(op) == loading' = TRUE /\ \E with \in Typed(op) : task' = Task(op, with)

\* The dialog works, then the view is asked: it returns early while it loads,
\* and it may be gone.
Confirm ==
  /\ dialog.phase = "input" /\ dialog.op # "reset" /\ (Patient => ~loading)
  /\ dialog' = [dialog EXCEPT !.phase = "working"]
  /\ IF loading \/ dialog.orphan THEN UNCHANGED <<loading, task>> ELSE Starts(dialog.op)
  /\ Rest /\ UNCHANGED <<unlocked, cached, list, asked, inputs>>

\* The status dialog of a reset opens only when the view begins it.
ConfirmReset ==
  /\ dialog.phase = "input" /\ dialog.op = "reset" /\ (Patient => ~loading)
  /\ IF loading \/ dialog.orphan THEN dialog' = Closed /\ UNCHANGED <<loading, task, repoLoading, asked>>
     ELSE /\ dialog' = [dialog EXCEPT !.phase = "working"] /\ Starts("reset")
          /\ repoLoading' = TRUE /\ asked' = asked \cup ({plugged} \cap Keys)
  /\ UNCHANGED <<keyVars, card, infoTask, doubt, wasted, unread, erased, unlocked, cached, list, inputs>>

\* The request has no dialog to confirm.
RequestCsr ==
  /\ "csr" \in Ops /\ dialog = Closed /\ shown # NoKey /\ inputs < MaxInputs /\ inputs' = inputs + 1
  /\ Patient => ~loading
  /\ dialog' = [Closed EXCEPT !.phase = "working", !.op = "csr"]
  /\ IF loading THEN UNCHANGED <<loading, task>> ELSE Starts("csr")
  /\ Rest /\ UNCHANGED <<unlocked, cached, list, asked>>

\* A file chooser is a task too, whatever was running; loading stays as it is.
Choose ==
  /\ "upload" \in Ops /\ dialog = Closed /\ shown # NoKey /\ inputs < MaxInputs /\ inputs' = inputs + 1
  /\ Patient => ~loading
  /\ \E op \in {"choose", "save"} : task' = Task(op, NoPin)
  /\ Rest /\ UNCHANGED <<unlocked, cached, list, loading, dialog, asked>>

Chosen ==
  /\ task # NoTask /\ task.op \in {"choose", "save"} /\ task' = NoTask
  /\ dialog' \in {dialog, [Closed EXCEPT !.phase = "input", !.op = "upload"]}
  /\ dialog' # dialog => task.op = "choose" /\ dialog = Closed
  /\ Rest /\ UNCHANGED <<unlocked, cached, list, loading, asked, inputs>>

\* Keys are moved; a reset asks for it.  Bound: its first move too comes only after
\* the last one was announced; DeviceRepo.tla has the swaps faster than that.
Move ==
  /\ \/ Plug /\ (Calm => AtRest)
     \/ /\ task # NoTask /\ task.op = "reset" /\ (Calm => task.stage # "back")
        /\ stirred => task.stage # "start"
        /\ plugged' \in Sockets \ {plugged} /\ stirred' = TRUE /\ UNCHANGED <<shown, deviceChanged>>
  /\ Calm => ~infoTask
  /\ UNCHANGED <<card, view, repoLoading, infoTask, dialog, history, inputs>>

-----------------------------------------------------------------------------
\* The background half.

Running(ops) == task # NoTask /\ task.op \in ops /\ task.res = "running"
Background == UNCHANGED <<keyVars, unlocked, cached, list, loading, repoLoading, infoTask, dialog, asked, inputs>>
Opens(k) == task.with.key = k /\ task.with.pin = pin[k] /\ pin[k] # 0

ReadList ==
  /\ Background /\ Running({"unlock", "refresh"}) /\ plugged \in Keys
  /\ IF Opens(plugged)
     THEN task' = [task EXCEPT !.res = "ok", !.list = [key |-> plugged, version |-> version[plugged]]] /\ UNCHANGED wasted
     ELSE /\ task' = [task EXCEPT !.res = "error"]
          /\ wasted' = (wasted \/ (task.op = "refresh" /\ pin[plugged] # 0))
  /\ UNCHANGED <<card, doubt, unread, erased>>

\* An operation is done, and its answer arrives or is lost.
Reports(next) ==
  \/ task' = next /\ UNCHANGED doubt
  \/ LostAnswers /\ task' = [task EXCEPT !.res = "error"] /\ doubt' = TRUE

Performed == [task EXCEPT !.res = "ok"]

Allowed(op) == plugged \in Keys /\ IF op = "setup" THEN pin[plugged] = 0 ELSE op = "csr" \/ Opens(plugged)

\* The minimum first, then the PIN: the second step may fail alone.
Perform ==
  /\ Background /\ Running(AllOps \ {"unlock", "reset"}) /\ Allowed(task.op)
  /\ LET first == task.op = "minchange" /\ task.stage = "start" IN
     /\ pin' = (IF first \/ task.op \notin {"setup", "change", "minchange"} THEN pin
                ELSE [pin EXCEPT ![plugged] = inputs])
     /\ version' = (IF task.op = "delete" THEN [version EXCEPT ![plugged] = inputs] ELSE version)
     /\ Reports(IF first THEN [task EXCEPT !.stage = "second"] ELSE [Performed EXCEPT !.with = [key |-> plugged, pin |-> pin'[plugged]]])
  /\ UNCHANGED <<wasted, unread, erased>>

Reject ==
  /\ Background /\ Running(AllOps \ {"unlock", "reset"})
  /\ DriverErrors \/ infoTask \/ ~Allowed(task.op)
  /\ task' = [task EXCEPT !.res = "error"]
  /\ UNCHANGED <<card, doubt, wasted, unread, erased>>

\* The channel is taken: the information of the key is being read.
Fail ==
  /\ Background /\ Running({"unlock", "refresh"}) /\ (plugged = NoKey \/ DriverErrors \/ infoTask)
  /\ task' = [task EXCEPT !.res = "error"]
  /\ UNCHANGED <<card, doubt, wasted, unread, erased>>

\* Mutant: any key that comes back will do.
Present_Any == plugged # NoKey

Present == plugged = task.key /\ plugged # NoKey

\* The board is polled until it was gone and is back.
Observe ==
  /\ Background /\ Running({"reset"})
  /\ \/ task.stage = "start" /\ ~Present /\ task' = [task EXCEPT !.stage = "gone"]
     \/ task.stage = "gone" /\ Present /\ task' = [task EXCEPT !.stage = "back"]
     \/ task.stage \in {"start", "gone"} /\ task' = [task EXCEPT !.res = "error"]
  /\ UNCHANGED <<card, doubt, wasted, unread, erased>>

Reset ==
  /\ Background /\ Running({"reset"}) /\ task.stage = "back"
  /\ \/ /\ plugged \in Keys
        /\ pin' = [pin EXCEPT ![plugged] = 0] /\ version' = [version EXCEPT ![plugged] = inputs]
        /\ erased' = erased \cup {plugged}
        /\ Reports(Performed)
     \/ task' = [task EXCEPT !.res = "error"] /\ UNCHANGED <<card, doubt, erased>>
  /\ UNCHANGED <<wasted, unread>>

-----------------------------------------------------------------------------
\* The main-thread half.

Landed(ops, res) == task # NoTask /\ task.op \in ops /\ task.res = res
Landing == UNCHANGED <<keyVars, card, doubt, wasted, erased, asked, inputs>>
Tells(phase) == dialog' = IF dialog.phase = "working" THEN [dialog EXCEPT !.phase = phase] ELSE dialog

\* Mutant: the PIN is not kept.
LandUnlock_Unkept ==
  /\ Landing /\ Landed({"unlock"}, "ok") /\ loading' = FALSE /\ task' = NoTask
  /\ unlocked' = TRUE /\ list' = task.list /\ unread' = FALSE
  /\ Tells("success") /\ UNCHANGED <<cached, repoLoading, infoTask>>

LandUnlock ==
  /\ Landing /\ Landed({"unlock"}, "ok") /\ loading' = FALSE /\ task' = NoTask
  /\ unlocked' = TRUE /\ cached' = task.with /\ list' = task.list /\ unread' = FALSE
  /\ Tells("success") /\ UNCHANGED <<repoLoading, infoTask>>

\* Mutant: the view goes on loading where the list cannot be read.
LandRefresh_Busy ==
  /\ Landing /\ (Landed({"refresh"}, "ok") \/ Landed({"refresh"}, "error")) /\ task' = NoTask
  /\ loading' = (task.res = "error")
  /\ list' = (IF task.res = "ok" THEN task.list ELSE list) /\ unread' = (task.res = "error")
  /\ UNCHANGED <<unlocked, cached, dialog, repoLoading, infoTask>>

\* A list that cannot be read again is left as it is, without a word.
LandRefresh ==
  /\ Landing /\ (Landed({"refresh"}, "ok") \/ Landed({"refresh"}, "error"))
  /\ loading' = FALSE /\ task' = NoTask
  /\ list' = (IF task.res = "ok" THEN task.list ELSE list) /\ unread' = (task.res = "error")
  /\ UNCHANGED <<unlocked, cached, dialog, repoLoading, infoTask>>

\* Mutant: the list is not read after a change.
Sync_NoList(open, with) ==
  infoTask' = TRUE /\ loading' = FALSE /\ task' = NoTask

\* The key's information is asked for, and the list with it: two readers of one
\* channel.
Sync(open, with) ==
  /\ infoTask' = TRUE
  /\ IF open THEN loading' = TRUE /\ task' = Task("refresh", with) ELSE loading' = FALSE /\ task' = NoTask

\* Mutant: a new PIN is not kept.
NewPin_Forgotten == cached

NewPin == IF task.op \in {"setup", "change", "minchange"} THEN task.with ELSE cached

\* Setting a PIN on a key that had none leaves a locked view locked.
LandChange ==
  /\ Landing /\ Landed({"delete", "setup", "change", "min", "minchange", "ea"}, "ok")
  /\ cached' = NewPin /\ Sync(unlocked, NewPin)
  /\ Tells("success") /\ UNCHANGED <<unlocked, list, unread, repoLoading>>

LandFile ==
  /\ Landing /\ Landed({"csr", "upload"}, "ok") /\ loading' = FALSE /\ task' = NoTask
  /\ Tells("success") /\ UNCHANGED <<unlocked, cached, list, unread, repoLoading, infoTask>>

LandReset ==
  /\ Landing /\ Landed({"reset"}, "ok")
  /\ unlocked' = FALSE /\ cached' = NoPin /\ list' = Nothing /\ Sync(FALSE, NoPin)
  /\ repoLoading' = FALSE /\ Tells("success") /\ UNCHANGED unread

\* Mutant: a reset that failed keeps the repository.
LandError_Held ==
  /\ Landing /\ Landed(AllOps, "error") /\ loading' = FALSE /\ task' = NoTask
  /\ Tells("error") /\ UNCHANGED <<unlocked, cached, list, unread, infoTask, repoLoading>>

\* Mutant: the dialog is not told.
LandError_Silent ==
  /\ Landing /\ Landed(AllOps, "error") /\ loading' = FALSE /\ task' = NoTask
  /\ repoLoading' = (repoLoading /\ task.op # "reset")
  /\ UNCHANGED <<dialog, unlocked, cached, list, unread, infoTask>>

LandError ==
  /\ Landing /\ Landed(AllOps, "error") /\ loading' = FALSE /\ task' = NoTask
  /\ repoLoading' = (repoLoading /\ task.op # "reset")
  /\ Tells("error") /\ UNCHANGED <<unlocked, cached, list, unread, infoTask>>

Work == ReadList \/ Perform \/ Reject \/ Fail \/ Observe \/ Reset
Land == LandUnlock \/ LandRefresh \/ LandChange \/ LandFile \/ LandReset \/ LandError
User == Lock \/ Open \/ Cancel \/ Confirm \/ ConfirmReset \/ RequestCsr \/ Choose \/ Chosen

Next == Work \/ Land \/ User \/ Move \/ OnDeviceEvent \/ OnFidoInfo

\* Threads, the executor and the timer of the wait go on; the user need not.
Spec == Init /\ [][Next]_vars /\ WF_vars(Work) /\ WF_vars(Land)

-----------------------------------------------------------------------------
\* `loading` is set exactly while a task will clear it: a task that is replaced
\* or dropped would leave every operation of the page refused for good.
LoadingIsTask == loading <=> task # NoTask /\ task.op \notin {"choose", "save"}

\* A dialog that works waits for a task that will report to it.
DialogsAnswered == dialog.phase = "working" => task # NoTask /\ task.op = dialog.op /\ ~dialog.orphan

\* The repository is held back from reading keys only while a reset runs.
RepoReleased == repoLoading => task # NoTask /\ task.op = "reset"

\* A reset erases no key but the one it was confirmed for, although another may
\* be plugged in while it waits.
ErasesItsKey == erased \subseteq asked

\* The kept PIN, sent at every event without the user's doing, never costs a try:
\* only where a PIN change was done and reported as failed, or the keys were
\* moved, may it be wrong.
KeptPinOpens == wasted => doubt

\* At rest an unlocked list is what the key holds, unless it could not be read.
ListIsCurrent ==
  unlocked /\ task = NoTask /\ ~stirred /\ ~unread /\ ~doubt /\ list.key = plugged /\ plugged \in Keys
    => list.version = version[plugged]

\* At rest the list is that of the key that is shown.
ListIsShownKeys == unlocked /\ task = NoTask /\ ~stirred /\ shown \in Keys => list.key = shown

\* An operation that was started leads to its report in its dialog.
Started == task # NoTask /\ task.op \in AllOps
Settled == dialog.phase # "working"
=============================================================================
