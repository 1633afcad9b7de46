------------------------------ MODULE Accounts ------------------------------
(***************************************************************************)
(* The Accounts screen and the OATH applet of the key.                     *)
(*                                                                         *)
(* AccountsViewModel keeps the list it read, the password it unlocked the  *)
(* applet with and one background task.  Starting a task drops the one in  *)
(* `_task`: what that one would have done at its end does not happen.  The *)
(* list is read again every 30 s, by a ticker that knows nothing of the    *)
(* dialogs.  A dialog that works cannot be closed; it waits for the task   *)
(* that was given its handle.                                              *)
(***************************************************************************)
EXTENDS KeyEvents, Naturals

CONSTANTS
  Ids,        \* credential ids
  Codes,      \* passwords an applet may have
  NoCode,     \* no access code; also the empty password field
  Blank,      \* a password of spaces only
  Quiet,      \* whether another key is announced only while no task runs
  LostAnswers,\* whether an answer may be lost after the command took effect
  MaxInputs,  \* bound: dialogs and buttons used in one behaviour
  NoTask, NoDialog

AccountsAssumption ==
  /\ NoCode \notin Codes /\ Blank \notin Codes /\ NoCode # Blank
  /\ Quiet \in BOOLEAN /\ LostAnswers \in BOOLEAN /\ MaxInputs \in Nat

VARIABLES
  code, creds,       \* each key's applet: access code and credentials
  accounts,          \* the list shown: whose it is, and its ids
  loaded, needsPassword, password, loading, \* AccountsViewModel
  due,               \* now / 30 # last_window
  task,              \* _task
  dialog,            \* the dialog that covers the window
  inputs

applet == <<code, creds>>
view == <<accounts, loaded, needsPassword, password, loading, due, task>>
vars == <<keyVars, applet, view, dialog, inputs>>

Passwords == Codes \cup {NoCode, Blank}
Empty == [key |-> NoKey, ids |-> {}]
Lists == [key : Sockets, ids : SUBSET Ids]

Ops == {"probe", "list", "unlock", "setcode", "calculate", "add", "rename", "delete", "reset"}
\* Operations that were given the handle of the dialog they answer.
Answering == {"unlock", "setcode", "add", "rename", "delete", "reset"}

Op(op, pw, arg) == [op |-> op, pw |-> pw, arg |-> arg, res |-> "running", list |-> Empty]
Tasks == [op : Ops, pw : Passwords, arg : Passwords \cup Ids \cup (Ids \X Ids),
          res : {"running", "locked", "ok", "error"}, list : Lists]
Dialog(kind, arg) == [kind |-> kind, phase |-> "input", arg |-> arg]
Kinds == {"unlock", "password", "add", "rename", "delete", "reset", "status"}
Phases == {"input", "refused", "working", "success", "error"}

TypeOK ==
  /\ KeyTypeOK
  /\ code \in [Keys -> Codes \cup {NoCode}] /\ creds \in [Keys -> SUBSET Ids]
  /\ accounts \in Lists /\ loaded \in BOOLEAN /\ needsPassword \in BOOLEAN
  /\ password \in Codes \cup {NoCode, Blank} /\ loading \in BOOLEAN /\ due \in BOOLEAN
  /\ task = NoTask \/ task \in Tasks
  /\ dialog = NoDialog \/ dialog \in [kind : Kinds, phase : Phases, arg : Passwords \cup Ids]
  /\ inputs \in 0..MaxInputs

-----------------------------------------------------------------------------
\* Starting a task.

Ready == shown # NoKey

\* Every start but a landing's own drops the task before.
Start(op, pw, arg) ==
  /\ loading' = TRUE
  /\ task' = Op(op, pw, arg)

\* try_initial_load(), after the fields of the view were set.
TryInitialLoad ==
  IF loaded' \/ loading \/ shown' = NoKey THEN UNCHANGED <<loading, task>>
  ELSE Start("probe", NoCode, NoCode)

Init ==
  /\ KeyInit
  /\ code \in [Keys -> {NoCode} \cup Codes] /\ creds \in [Keys -> SUBSET Ids]
  /\ accounts = Empty /\ loaded = FALSE /\ needsPassword = FALSE /\ password = NoCode
  /\ due = TRUE /\ dialog = NoDialog /\ inputs = 0
  /\ loading = (shown # NoKey)
  /\ task = IF shown # NoKey THEN Op("probe", NoCode, NoCode) ELSE NoTask

\* Mutant: the list outlives the key it was read from.
Forget_KeepsList ==
  /\ needsPassword' = FALSE /\ password' = NoCode
  /\ UNCHANGED <<accounts, loaded>>

Forget == accounts' = Empty /\ loaded' = FALSE /\ needsPassword' = FALSE /\ password' = NoCode

\* on_device_event()
OnDeviceEvent ==
  /\ Announce
  /\ Quiet /\ task # NoTask => ~deviceChanged' /\ shown' = shown
  /\ IF deviceChanged' THEN Forget ELSE UNCHANGED <<accounts, loaded, needsPassword, password>>
  /\ TryInitialLoad
  /\ UNCHANGED <<applet, due, dialog, inputs>>

Idle == loading' = FALSE /\ task' = NoTask

\* reload() after a task: with the password the view holds now.
Reload == IF Ready THEN Start("list", password', NoCode) /\ due' = FALSE ELSE Idle /\ UNCHANGED due

WindowPasses ==
  /\ ~due /\ due' = TRUE
  /\ UNCHANGED <<keyVars, applet, accounts, loaded, needsPassword, password, loading, task, dialog, inputs>>

\* Mutant: the ticker does not look whether a task runs.
Tick_AnyTime ==
  /\ loaded /\ due /\ Ready
  /\ UNCHANGED password /\ Reload
  /\ UNCHANGED <<keyVars, applet, accounts, loaded, needsPassword, dialog, inputs>>

\* The ticker and the refresh button, which is off while the view loads.
Tick ==
  /\ loaded /\ ~loading /\ due /\ Ready
  /\ UNCHANGED password /\ Reload
  /\ UNCHANGED <<keyVars, applet, accounts, loaded, needsPassword, dialog, inputs>>

-----------------------------------------------------------------------------
\* The user.

Input == inputs < MaxInputs /\ inputs' = inputs + 1

\* The page shows an unlock button instead of the list.
Locked == needsPassword /\ ~loaded

\* Rename and delete are offered while the view loads; the password too.
Open ==
  /\ Input /\ dialog = NoDialog /\ Ready
  /\ \/ Locked /\ dialog' = Dialog("unlock", NoCode)
     \/ /\ ~Locked
        /\ \/ dialog' = Dialog("password", password)
           \/ ~loading /\ dialog' \in {Dialog("add", NoCode), Dialog("reset", NoCode)}
           \/ \E id \in accounts.ids : dialog' \in {Dialog("rename", id), Dialog("delete", id)}
  /\ UNCHANGED <<keyVars, applet, view>>

\* Cancel, Done and Close: a dialog that works has no such button.
Close ==
  /\ dialog # NoDialog
  /\ dialog.phase # "working"
  /\ dialog' = NoDialog
  /\ UNCHANGED <<keyVars, applet, view, inputs>>

\* A dialog of this kind whose button may be pressed.
Offers(kind) == dialog # NoDialog /\ dialog.kind = kind /\ dialog.phase \in {"input", "refused", "error"}
Becomes(phase) == dialog' = [dialog EXCEPT !.phase = phase]

\* Mutant: a password of spaces is set as it is.
Trimmed_Kept(pw) == pw

Trimmed(pw) == IF pw = Blank THEN NoCode ELSE pw

\* trigger_confirm(): an empty field is refused.  Otherwise the prompt is set
\* to work before the view is asked, which does nothing while it loads.
Confirm(kind, pw, op, uses, arg) ==
  /\ Input /\ Offers(kind)
  /\ \/ pw = NoCode /\ Becomes("refused") /\ UNCHANGED <<loading, task>>
     \/ /\ pw # NoCode /\ Becomes("working")
        /\ IF loading THEN UNCHANGED <<loading, task>> ELSE Start(op, uses, arg)
  /\ UNCHANGED <<keyVars, applet, accounts, loaded, needsPassword, password, due>>

Unlock == \E pw \in Passwords : Confirm("unlock", pw, "unlock", pw, NoCode)

\* set_password(): proves the password the view had when the dialog opened.
SetPassword == \E pw \in Passwords : Confirm("password", pw, "setcode", dialog.arg, Trimmed(pw))

\* The Generate and Touch buttons.
Calculate ==
  /\ Input /\ dialog = NoDialog /\ Ready /\ ~Locked /\ ~loading
  /\ \E id \in accounts.ids : Start("calculate", password, id)
  /\ UNCHANGED <<keyVars, applet, accounts, loaded, needsPassword, password, due, dialog>>

\* The forms close and a status dialog takes their place.
Executed(op, arg) ==
  /\ Start(op, password, arg)
  /\ UNCHANGED <<keyVars, applet, accounts, loaded, needsPassword, password, due>>

Status == [kind |-> "status", phase |-> "working", arg |-> NoCode]

Add ==
  /\ Input /\ dialog = Dialog("add", NoCode) /\ dialog' = Status
  /\ \E id \in Ids : Executed("add", id)

Rename ==
  /\ Input /\ dialog # NoDialog /\ dialog.kind = "rename"
  /\ \E id \in Ids :
       IF id = dialog.arg THEN dialog' = NoDialog /\ UNCHANGED <<keyVars, applet, view>>
       ELSE dialog' = Status /\ Executed("rename", <<dialog.arg, id>>)

Delete == Input /\ Offers("delete") /\ Becomes("working") /\ Executed("delete", dialog.arg)

\* The confirmation closes, and nothing follows while the view loads.
Reset ==
  /\ Input /\ dialog = Dialog("reset", NoCode)
  /\ IF loading THEN dialog' = NoDialog /\ UNCHANGED <<keyVars, applet, view>>
     ELSE dialog' = Status /\ Executed("reset", NoCode)

-----------------------------------------------------------------------------
\* The background half of a task: one session with the applet.

\* oath_unlock(): SELECT tells whether a code is set, VALIDATE proves it.
Unlocks(k, pw) == code[k] \in {NoCode, pw}

Answer(res, list) == task' = [task EXCEPT !.res = res, !.list = list]
Done == \E res \in IF LostAnswers THEN {"ok", "error"} ELSE {"ok"} : Answer(res, Empty)

Effects(k) ==
  CASE task.op = "add"     -> {[ids |-> creds[k] \cup {task.arg}, code |-> code[k]]}
    [] task.op = "delete"  -> IF task.arg \in creds[k]
                              THEN {[ids |-> creds[k] \ {task.arg}, code |-> code[k]]} ELSE {}
    [] task.op = "rename"  -> IF task.arg[1] \in creds[k]
                              THEN {[ids |-> (creds[k] \ {task.arg[1]}) \cup {task.arg[2]}, code |-> code[k]]} ELSE {}
    [] task.op = "setcode" -> {[ids |-> creds[k], code |-> task.arg]}
    [] OTHER -> {}

Running == task # NoTask /\ task.res = "running"
Session == Running /\ UNCHANGED <<keyVars, accounts, loaded, needsPassword, password, loading, due, dialog, inputs>>

\* oath_password_required(); without a password the list follows at once.
Probe ==
  /\ Session /\ plugged # NoKey /\ task.op = "probe"
  /\ task' = IF code[plugged] # NoCode THEN [task EXCEPT !.res = "locked"] ELSE [task EXCEPT !.op = "list"]
  /\ UNCHANGED applet

Read ==
  /\ Session /\ plugged # NoKey /\ task.op \in {"list", "unlock"}
  /\ Unlocks(plugged, task.pw)
  /\ Answer("ok", [key |-> plugged, ids |-> creds[plugged]])
  /\ UNCHANGED applet

Compute ==
  /\ Session /\ plugged # NoKey /\ task.op = "calculate"
  /\ Unlocks(plugged, task.pw) /\ task.arg \in creds[plugged]
  /\ Answer("ok", Empty)
  /\ UNCHANGED applet

Write ==
  /\ Session /\ plugged # NoKey
  /\ Unlocks(plugged, task.pw)
  /\ \E e \in Effects(plugged) :
       creds' = [creds EXCEPT ![plugged] = e.ids] /\ code' = [code EXCEPT ![plugged] = e.code]
  /\ Done

\* oath_reset() asks for no password.
Wipe ==
  /\ Session /\ plugged # NoKey /\ task.op = "reset"
  /\ creds' = [creds EXCEPT ![plugged] = {}] /\ code' = [code EXCEPT ![plugged] = NoCode]
  /\ Done

\* A wrong password, or a command that names no credential.
Refused(k) ==
  \/ task.op \notin {"probe", "reset"} /\ ~Unlocks(k, task.pw)
  \/ task.op \in {"delete", "rename"} /\ Effects(k) = {}
  \/ task.op = "calculate" /\ task.arg \notin creds[k]

\* Also with no key in the port, or with the channel in use.
Fail ==
  /\ Session /\ Answer("error", Empty)
  /\ plugged = NoKey \/ DriverErrors \/ (plugged \in Keys /\ Refused(plugged))
  /\ UNCHANGED applet

-----------------------------------------------------------------------------
\* The main-thread half.

Landed(op, res) == task # NoTask /\ task.op \in op /\ task.res = res
Landing == UNCHANGED <<keyVars, applet, inputs>>

LandProbe ==
  /\ Landing /\ Landed({"probe"}, "locked")
  /\ needsPassword' = TRUE /\ Idle
  /\ UNCHANGED <<accounts, loaded, password, due, dialog>>

\* apply_load(): keeps the password that opened the applet.
ApplyLoad ==
  /\ Landing /\ Landed({"list", "unlock"}, "ok")
  /\ accounts' = task.list /\ loaded' = TRUE /\ needsPassword' = FALSE /\ due' = FALSE
  /\ password' = IF task.op = "unlock" THEN task.pw ELSE password
  /\ IF task.op = "unlock" THEN Becomes("success") ELSE UNCHANGED dialog
  /\ Idle

\* The computed code is shown in its row.
LandCode ==
  /\ Landing /\ Landed({"calculate"}, "ok") /\ Idle
  /\ UNCHANGED <<accounts, loaded, needsPassword, password, due, dialog>>

LandChange ==
  /\ Landing /\ Landed({"add", "rename", "delete"}, "ok")
  /\ UNCHANGED <<accounts, loaded, needsPassword, password>>
  /\ Becomes("success") /\ Reload

\* Mutant: the password dialog answers without keeping the new password.
LandPassword_Stale ==
  /\ Landing /\ Landed({"setcode"}, "ok")
  /\ UNCHANGED <<accounts, loaded, needsPassword, password>>
  /\ Becomes("success") /\ Reload

LandPassword ==
  /\ Landing /\ Landed({"setcode"}, "ok")
  /\ password' = task.arg
  /\ UNCHANGED <<accounts, loaded, needsPassword>>
  /\ Becomes("success") /\ Reload

\* The applet is empty and unprotected: the view starts over.
LandReset ==
  /\ Landing /\ Landed({"reset"}, "ok")
  /\ accounts' = Empty /\ loaded' = FALSE /\ password' = NoCode
  /\ IF Ready THEN Start("probe", NoCode, NoCode) ELSE Idle
  /\ Becomes("success") /\ UNCHANGED <<needsPassword, due>>

\* Mutant: a failed task leaves the view loading.
LandError_Busy ==
  /\ Landing /\ Landed(Ops, "error") /\ task' = NoTask
  /\ IF task.op \in Answering THEN Becomes("error") ELSE UNCHANGED dialog
  /\ UNCHANGED <<accounts, loaded, needsPassword, password, loading, due>>

\* A failed task says so in its dialog or in a notification.
LandError ==
  /\ Landing /\ Landed(Ops, "error") /\ Idle
  /\ IF task.op \in Answering THEN Becomes("error") ELSE UNCHANGED dialog
  /\ UNCHANGED <<accounts, loaded, needsPassword, password, due>>

-----------------------------------------------------------------------------
Background == Probe \/ Read \/ Compute \/ Write \/ Wipe \/ Fail
Land == LandProbe \/ ApplyLoad \/ LandCode \/ LandChange \/ LandPassword \/ LandReset \/ LandError
User == Open \/ Close \/ Unlock \/ SetPassword \/ Calculate \/ Add \/ Rename \/ Delete \/ Reset
Move == Plug /\ UNCHANGED <<applet, view, dialog, inputs>>

Next == Background \/ Land \/ User \/ Move \/ OnDeviceEvent \/ WindowPasses \/ Tick

\* A background thread and the executor's queue go on; nobody has to press a
\* button, move a key or cause an event.
Spec == Init /\ [][Next]_vars /\ WF_vars(Background) /\ WF_vars(Land)

-----------------------------------------------------------------------------
\* The view says that it loads exactly while a task runs: a task that is
\* dropped, refused or fails never leaves the screen without buttons.
LoadingIsTask == loading <=> task # NoTask

\* At rest the list is the one of the key that is shown.
ShowsShownKey == task = NoTask /\ ~stirred /\ shown \in Keys => accounts.key \in {NoKey, shown}

\* The password that is kept opens the applet whose list is shown, whatever
\* was set, removed or reset in between: the ticker can read it again.
CanReload ==
  task = NoTask /\ ~stirred /\ accounts.key \in Keys /\ accounts.key = plugged
    => code[plugged] \in {NoCode, password}

\* A task that a dialog waits for leads to its answer: neither the ticker nor an
\* event drops it.
Started == task # NoTask /\ task.op \in Answering
Settled == dialog = NoDialog \/ dialog.phase # "working"
=============================================================================
