---------------------------- MODULE AppletScreen ----------------------------
(***************************************************************************)
(* A screen over one applet of the key: PIV, OpenPGP, Slots, HSM.          *)
(*                                                                         *)
(* The four view models are built alike.  They keep what they read, a flag *)
(* `loading` and one background task; assigning `_task` drops the task     *)
(* before, and with it all it would have done at its end.  A dialog fixes  *)
(* the secret it will use when it is opened; confirmed, it gives way to a  *)
(* status dialog that cannot be closed while it works, and run() starts    *)
(* the operation, unless the view loads.  What differs from screen to      *)
(* screen are the dialogs: PivForms, OpenPgpForms, SlotForms and HsmForms. *)
(***************************************************************************)
EXTENDS KeyEvents, ScreenForms, Naturals

CONSTANTS
  Forms,      \* the dialogs of the screen
  ReadOnce,   \* an event loads only while nothing is loaded (HSM)
  Quiet,      \* whether keys are moved only with no task and no dialog, and announced before the next
  Busy,       \* whether a dialog may be opened and confirmed while it loads
  MaxInputs,  \* bound: dialogs used in one behaviour
  MaxTries,   \* bound: wrong secrets a key takes
  NoForm, NoTask

ScreenAssumption ==
  /\ ReadOnce \in BOOLEAN /\ Quiet \in BOOLEAN /\ Busy \in BOOLEAN
  /\ MaxInputs \in Nat /\ MaxTries \in Nat

VARIABLES
  secret,     \* each key: "factory", or "own" for one the user has set
  version,    \* each key: how often its contents were changed
  tries,      \* each key: wrong secrets it may still take
  info,       \* what the view shows
  loaded,     \* whether a read has landed since the key was announced
  loading, task,
  dialog,
  spent,      \* history: the key that was read refused a secret the view filled in
  unread,     \* history: what is shown, or nothing, could not be read again
  inputs

card == <<secret, version, tries>>
view == <<info, loaded, loading, task>>
vars == <<keyVars, card, view, dialog, spent, unread, inputs>>

Secrets == {"factory", "own", "wrong"}
Nothing == [key |-> NoKey, version |-> 0, factory |-> FALSE]
Infos == [key : Sockets, version : 0..MaxInputs, factory : BOOLEAN]

FormsAssumption == Forms \subseteq FormType

Task(op, form, with) == [op |-> op, form |-> form, with |-> with, res |-> "running", info |-> Nothing]
Tasks == [op : {"load", "run", "file", "export"}, form : FormType \cup {NoForm}, with : Secrets,
          res : {"running", "ok", "error"}, info : Infos]
Closed == [phase |-> "closed", form |-> NoForm, auto |-> FALSE]
Dialogs == [phase : {"closed", "input", "working", "success", "error"}, form : FormType \cup {NoForm}, auto : BOOLEAN]

TypeOK ==
  /\ KeyTypeOK
  /\ secret \in [Keys -> {"factory", "own"}] /\ version \in [Keys -> 0..MaxInputs]
  /\ tries \in [Keys -> 0..MaxTries]
  /\ info \in Infos /\ loaded \in BOOLEAN /\ loading \in BOOLEAN /\ task \in Tasks \cup {NoTask}
  /\ dialog \in Dialogs /\ spent \in BOOLEAN /\ unread \in BOOLEAN /\ inputs \in 0..MaxInputs

-----------------------------------------------------------------------------
Ready == shown # NoKey

\* load(), after the fields of the view were set.
Load ==
  IF loading \/ shown' = NoKey THEN UNCHANGED <<loading, task>>
  ELSE loading' = TRUE /\ task' = Task("load", NoForm, "wrong")

Init ==
  /\ KeyInit
  /\ secret \in [Keys -> {"factory", "own"}] /\ version = [k \in Keys |-> 0]
  /\ tries = [k \in Keys |-> MaxTries]
  /\ info = Nothing /\ loaded = FALSE /\ dialog = Closed /\ spent = FALSE /\ unread = FALSE /\ inputs = 0
  /\ loading = Ready /\ task = IF Ready THEN Task("load", NoForm, "wrong") ELSE NoTask

\* Mutant: what was read outlives the key it was read from.
Forget_Keeps == info

Forget == IF deviceChanged' THEN Nothing ELSE info

\* Mutant: another key does not make the view load again.
Keeps_Changed == loaded /\ (ReadOnce => shown' # NoKey)

Keeps == loaded /\ ~deviceChanged' /\ (ReadOnce => shown' # NoKey)

\* The HSM screen loads what it has not loaded, and shows nothing meanwhile.
OnDeviceEvent ==
  /\ Announce
  /\ loaded' = Keeps
  /\ IF ReadOnce /\ Keeps THEN UNCHANGED <<loading, task>> ELSE Load
  /\ info' = IF ReadOnce /\ task' # task THEN Nothing ELSE Forget
  /\ UNCHANGED <<card, dialog, spent, unread, inputs>>

Refresh ==
  /\ ~loading /\ Ready /\ dialog = Closed
  /\ UNCHANGED <<keyVars, card, dialog, spent, unread, inputs>>
  /\ Load /\ info' = (IF ReadOnce THEN Nothing ELSE info) /\ UNCHANGED loaded

-----------------------------------------------------------------------------
\* Dialogs.

Input == inputs < MaxInputs /\ inputs' = inputs + 1 /\ (Quiet => ~stirred)

\* Mutant: the factory's secret is filled in whatever the card says.
Opened_Filled(form) == [phase |-> "input", form |-> form, auto |-> form.needs]

\* Mutant: the form of a card that was not read waits for it.
Opened_Waits(form) ==
  [phase |-> IF info = Nothing THEN "waiting" ELSE "input", form |-> form, auto |-> form.needs /\ info.factory]

\* A form takes the factory's secret, and hides the field, where the card was
\* last read to have it.
Opened(form) == [phase |-> "input", form |-> form, auto |-> form.needs /\ info.factory]

Offered(form) ==
  Ready /\ (form.off # "never" => ~loading) /\ (form.off = "unread" => info # Nothing)

Open ==
  /\ Input /\ dialog = Closed /\ (task # NoTask => task.op # "file")
  /\ \E form \in Forms :
       /\ Offered(form) /\ (loading => Busy)
       /\ IF form.file = "none" THEN dialog' = Opened(form) /\ UNCHANGED task
          ELSE task' = Task("file", form, "wrong") /\ UNCHANGED dialog
  /\ UNCHANGED <<keyVars, card, info, loaded, loading, spent, unread>>

Cancel ==
  /\ dialog.phase \in {"input", "success", "error"} /\ dialog' = Closed
  /\ UNCHANGED <<keyVars, card, view, spent, unread, inputs>>

\* The file is chosen: an import asks for its secret now.
Chosen ==
  /\ task # NoTask /\ task.op = "file"
  /\ IF task.form.file = "open" THEN dialog' = Opened(task.form) /\ task' = NoTask
     ELSE task' = [task EXCEPT !.op = "export"] /\ UNCHANGED dialog
  /\ UNCHANGED <<keyVars, card, info, loaded, loading, spent, unread, inputs>>

\* The chooser is left, or the file cannot be read.
Unchosen ==
  /\ task # NoTask /\ task.op = "file" /\ task' = NoTask
  /\ UNCHANGED <<keyVars, card, info, loaded, loading, dialog, spent, unread, inputs>>

\* The form closes, a status dialog opens, and run() is called.
Confirm ==
  /\ dialog.phase = "input" /\ (loading => Busy)
  /\ dialog' = [dialog EXCEPT !.phase = "working"]
  /\ IF loading /\ dialog.form.guarded THEN UNCHANGED <<loading, task>>
     ELSE /\ loading' = TRUE
          /\ \E with \in IF dialog.auto THEN {"factory"} ELSE Secrets : task' = Task("run", dialog.form, with)
  /\ UNCHANGED <<keyVars, card, info, loaded, spent, unread, inputs>>

-----------------------------------------------------------------------------
\* The background half.

Running(op) == task # NoTask /\ task.op = op /\ task.res = "running"
Answers(res) == task' = [task EXCEPT !.res = res]
Background == UNCHANGED <<keyVars, info, loaded, loading, dialog, inputs>>

ReadInfo ==
  /\ Background /\ Running("load") /\ plugged \in Keys
  /\ task' = [task EXCEPT !.res = "ok",
       !.info = [key |-> plugged, version |-> version[plugged], factory |-> secret[plugged] = "factory"]]
  /\ UNCHANGED <<card, spent, unread>>

Charged(n) == IF n > 0 THEN n - 1 ELSE 0

Accepts(k) == ~task.form.needs \/ (tries[k] > 0 /\ task.with = secret[k])

\* A secret is proved and the operation done in one session.
Perform ==
  /\ Background /\ Running("run") /\ plugged \in Keys /\ Accepts(plugged)
  /\ secret' = [secret EXCEPT ![plugged] =
       CASE task.form.kind = "secret" -> "own" [] task.form.kind = "reset" -> "factory" [] OTHER -> @]
  /\ version' = [version EXCEPT ![plugged] = IF task.form.kind = "use" THEN @ ELSE @ + 1]
  /\ tries' = [tries EXCEPT ![plugged] = MaxTries]
  /\ \/ Answers("ok") /\ UNCHANGED unread
     \/ DriverErrors /\ Answers("error") /\ unread' = TRUE
  /\ UNCHANGED spent

Reject ==
  /\ Background /\ Running("run") /\ plugged \in Keys /\ ~Accepts(plugged)
  /\ tries' = [tries EXCEPT ![plugged] = Charged(@)]
  /\ spent' = (spent \/ (dialog.auto /\ info.key = plugged /\ secret[plugged] # "factory"))
  /\ Answers("error")
  /\ UNCHANGED <<secret, version, unread>>

\* The exported file is written, or not, and a notification says so.
Export ==
  /\ Background /\ Running("export") /\ task' = NoTask
  /\ UNCHANGED <<card, spent, unread>>

Fail ==
  /\ Background /\ (Running("load") \/ Running("run"))
  /\ plugged = NoKey \/ DriverErrors
  /\ Answers("error")
  /\ UNCHANGED <<card, spent, unread>>

-----------------------------------------------------------------------------
\* The main-thread half.

Landed(op, res) == task # NoTask /\ task.op = op /\ task.res = res
Landing == UNCHANGED <<keyVars, card, spent, inputs>>
Idle == loading' = FALSE /\ task' = NoTask

\* Mutant: a failed read leaves the view loading.
LandLoad_Busy ==
  /\ Landing
  /\ \/ Landed("load", "ok") /\ info' = task.info /\ unread' = FALSE /\ Idle
     \/ Landed("load", "error") /\ task' = NoTask /\ unread' = TRUE /\ UNCHANGED <<info, loading>>
  /\ loaded' = TRUE /\ UNCHANGED dialog

LandLoad ==
  /\ Landing
  /\ \/ Landed("load", "ok") /\ info' = task.info /\ loaded' = TRUE /\ unread' = FALSE
     \/ Landed("load", "error") /\ loaded' = (loaded \/ ReadOnce) /\ unread' = TRUE /\ UNCHANGED info
  /\ Idle /\ UNCHANGED dialog

\* run() loads again; with no key left there is nothing to load.
Reload ==
  IF Ready THEN loading' = TRUE /\ task' = Task("load", NoForm, "wrong") /\ UNCHANGED unread
  ELSE Idle /\ unread' = TRUE

\* Mutant: the contents are not read again.
LandDone_NoReload ==
  /\ Landing /\ Landed("run", "ok") /\ Idle
  /\ dialog' = [dialog EXCEPT !.phase = "success"]
  /\ UNCHANGED <<info, loaded, unread>>

\* Mutant: the dialog is not told.
LandDone_Silent ==
  /\ Landing /\ Landed("run", "ok") /\ Reload
  /\ UNCHANGED <<info, loaded, dialog>>

LandDone ==
  /\ Landing /\ Landed("run", "ok") /\ Reload
  /\ dialog' = [dialog EXCEPT !.phase = "success"]
  /\ info' = IF ReadOnce /\ Ready THEN Nothing ELSE info
  /\ UNCHANGED loaded

\* Mutant: the error is not shown in the dialog.
LandError_Silent == Landing /\ Landed("run", "error") /\ Idle /\ UNCHANGED <<info, loaded, dialog, unread>>

\* Nothing is read after a failure, even where an event cleared the view.
LandError ==
  /\ Landing /\ Landed("run", "error") /\ Idle
  /\ dialog' = [dialog EXCEPT !.phase = "error"]
  /\ unread' = (unread \/ info = Nothing)
  /\ UNCHANGED <<info, loaded>>

-----------------------------------------------------------------------------
Work == ReadInfo \/ Perform \/ Reject \/ Export \/ Fail
Land == LandLoad \/ LandDone \/ LandError
User == Open \/ Cancel \/ Chosen \/ Unchosen \/ Confirm \/ Refresh
Move ==
  /\ Plug /\ (Quiet => task = NoTask /\ dialog = Closed)
  /\ UNCHANGED <<card, view, dialog, spent, unread, inputs>>

Next == Work \/ Land \/ User \/ Move \/ OnDeviceEvent

\* Background threads and the executor go on; the user need not.
Spec == Init /\ [][Next]_vars /\ WF_vars(Work) /\ WF_vars(Land)

-----------------------------------------------------------------------------
\* `loading` is set exactly while a task will clear it: no event, dialog or
\* dropped task leaves the screen's buttons off for good.
LoadingIsTask == loading <=> task # NoTask /\ task.op \in {"load", "run"}

\* At rest the page shows the key that is shown; it shows nothing only where a
\* read failed.
ShowsShownKey ==
  task = NoTask /\ ~stirred /\ shown \in Keys => info.key = shown \/ (unread /\ info = Nothing)

\* At rest the page shows what the key holds now, whatever was written, unless
\* a write reported failure or a read failed.
ShowsContents ==
  task = NoTask /\ ~stirred /\ ~unread /\ info.key = plugged /\ plugged \in Keys
    => info.version = version[plugged] /\ (info.factory <=> secret[plugged] = "factory")

\* A secret the view fills in by itself never costs the user a try on the key
\* it was read from.
DefaultsConfirmed == ~spent

\* A dialog that works waits for a task that will report to it.
WorkingIsTask ==
  dialog.phase = "working" => task # NoTask /\ task.op = "run" /\ task.form = dialog.form

\* An operation that was started leads to its report in its dialog.
Started == task # NoTask /\ task.op = "run"
Settled == dialog.phase # "working"
=============================================================================
