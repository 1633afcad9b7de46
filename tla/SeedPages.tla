------------------------------ MODULE SeedPages ------------------------------
(***************************************************************************)
(* The Lock, Backup and Attestation pages, which work on the FIDO seed and *)
(* the organisation's certificate of an RS-Key, and the operations of      *)
(* hal/fido/mod.rs they run.                                               *)
(*                                                                         *)
(* The pages are built alike: a status that is read again at every event   *)
(* of DeviceRepo, one background task, and on the first two a phrase of 24 *)
(* words that stays on the screen - the key of the lock that was just      *)
(* engaged, or the seed that was exported.  An operation is one HID        *)
(* session; a page that finds the channel in use gets an error.            *)
(***************************************************************************)
EXTENDS KeyEvents, Naturals

CONSTANTS
  Pages,       \* the pages that were visited: a subset of AllPages
  Calm,        \* keys are moved only with nothing under way
  LostAnswers, \* whether an operation may be done and reported as failed
  MaxInputs,   \* bound: dialogs and buttons in one behaviour
  NoTask

AllPages == {"lock", "backup", "attestation"}

SeedAssumption ==
  /\ Pages \subseteq AllPages /\ {Calm, LostAnswers} \subseteq BOOLEAN /\ MaxInputs \in Nat

VARIABLES
  lock,      \* each key: the lock key its seed is wrapped with, 0 for none
  unlocked,  \* each key: whether the seed is in RAM until the key restarts
  seed,      \* each key: its identity, named after the key it was made on
  sealed,    \* each key: whether exports are disabled
  chain,     \* each key: the organisation's key and chain it holds, 0 for none
  made,      \* lock keys generated so far
  status, phrase, loading, task, \* each page
  dialog,    \* the dialog that covers the window
  known,     \* history: lock keys that were put on the screen
  inputs

key == <<lock, unlocked, seed, sealed, chain, made>>
page == <<status, phrase, loading, task>>
vars == <<keyVars, key, page, dialog, known, inputs>>

LockKeys == 0..MaxInputs
Chains == 1..2
Wrong == 0    \* a phrase that is no key's; a file that does not parse
Unread == [key |-> NoKey, holds |-> 0]
Closed == [phase |-> "closed", page |-> "none", op |-> "none"]

OpsOf(p) ==
  CASE p = "lock" -> {"enable", "unlock", "disable"}
    [] p = "backup" -> {"export", "finalize", "restore"}
    [] p = "attestation" -> {"import", "clear"}

Task(what, with) == [op |-> what, stage |-> "start", with |-> with, key |-> NoKey, out |-> 0]

TypeOK ==
  /\ KeyTypeOK
  /\ lock \in [Keys -> LockKeys] /\ unlocked \in [Keys -> BOOLEAN]
  /\ seed \in [Keys -> Keys] /\ sealed \in [Keys -> BOOLEAN] /\ made \in LockKeys
  /\ \A k \in Keys : unlocked[k] => lock[k] # 0
  /\ chain \in [Keys -> Chains \cup {0}]
  /\ status \in [Pages -> [key : Sockets, holds : Chains \cup {0}]] /\ loading \in [Pages -> BOOLEAN]
  /\ phrase \in [Pages -> LockKeys \cup Keys]
  /\ \A p \in Pages : task[p] # NoTask =>
       /\ task[p].op \in OpsOf(p) \cup {"load", "choose"} /\ task[p].key \in Sockets
       /\ task[p].stage \in {"start", "open", "second", "ok", "error", "refused"}
  /\ dialog.phase \in {"closed", "form", "working", "success", "error"}
  /\ known \subseteq LockKeys /\ inputs \in 0..MaxInputs

-----------------------------------------------------------------------------
\* Tasks of the pages.

\* gate(): the keys here are RS-Keys.
Ready == shown' # NoKey

\* Mutant: a load starts whatever the page is doing.
MayLoad_Always(p) == Ready

MayLoad(p) == ~loading[p] /\ Ready

Loads(ps) ==
  LET S == {p \in ps : MayLoad(p)} IN
  /\ loading' = [p \in Pages |-> p \in S \/ loading[p]]
  /\ task' = [p \in Pages |-> IF p \in S THEN Task("load", 0) ELSE task[p]]

Init ==
  /\ KeyInit
  /\ lock = [k \in Keys |-> 0] /\ unlocked = [k \in Keys |-> FALSE]
  /\ seed = [k \in Keys |-> k] /\ sealed = [k \in Keys |-> FALSE] /\ made = 0
  /\ chain \in [Keys -> IF "attestation" \in Pages THEN {0, 1} ELSE {0}]
  /\ status = [p \in Pages |-> Unread] /\ phrase = [p \in Pages |-> 0]
  /\ loading = [p \in Pages |-> shown # NoKey]
  /\ task = [p \in Pages |-> IF shown # NoKey THEN Task("load", 0) ELSE NoTask]
  /\ dialog = Closed /\ known = {} /\ inputs = 0

Idle == \A p \in Pages : task[p] = NoTask

\* Mutant: the phrase outlives the key it belongs to.
Forget_Status ==
  /\ status' = [p \in Pages |-> Unread]
  /\ UNCHANGED phrase

\* Mutant: the status outlives the key it was read from.
Forget_Phrase ==
  /\ phrase' = [p \in Pages |-> 0]
  /\ UNCHANGED status

Forget ==
  /\ status' = [p \in Pages |-> Unread]
  /\ phrase' = [p \in Pages |-> 0]

OnDeviceEvent ==
  /\ Announce
  /\ Calm /\ ~(Idle /\ dialog = Closed) => shown' = shown
  /\ IF deviceChanged' THEN Forget ELSE UNCHANGED <<status, phrase>>
  /\ Loads(Pages)
  /\ UNCHANGED <<key, dialog, known, inputs>>

\* A key that leaves the port restarts.
Move ==
  /\ Plug /\ (Calm => Idle /\ dialog = Closed)
  /\ unlocked' = [k \in Keys |-> FALSE]
  /\ UNCHANGED <<lock, seed, sealed, chain, made, page, dialog, known, inputs>>

-----------------------------------------------------------------------------
\* The user.

Input == inputs < MaxInputs /\ inputs' = inputs + 1

\* The buttons; those of the Backup page ask for nothing of the status.
Offered(p, op) ==
  /\ shown # NoKey /\ ~loading[p]
  /\ op = "enable" => status[p].holds = 0
  /\ op \in {"unlock", "disable", "clear"} => status[p].holds # 0

Open ==
  /\ Input /\ dialog = Closed
  /\ \E p \in Pages : \E op \in OpsOf(p) \ {"import"} :
       Offered(p, op) /\ dialog' = [phase |-> "form", page |-> p, op |-> op]
  /\ UNCHANGED <<keyVars, key, page, known>>

\* The file chooser takes the place of the task, without `loading`: a load that
\* starts meanwhile drops it, and the files are chosen in vain.
OpenImport ==
  /\ Input /\ dialog = Closed
  /\ \E p \in Pages \cap {"attestation"} :
       Offered(p, "import") /\ task' = [task EXCEPT ![p] = Task("choose", 0)]
  /\ UNCHANGED <<keyVars, key, status, phrase, loading, dialog, known>>

Choosing(p) == task[p] # NoTask /\ task[p].op = "choose"

\* Both files are read, or one is not or none is chosen.
Choose ==
  /\ dialog = Closed
  /\ \E p \in Pages :
       /\ Choosing(p) /\ task' = [task EXCEPT ![p] = NoTask]
       /\ dialog' \in {Closed, [phase |-> "form", page |-> p, op |-> "import"]}
  /\ UNCHANGED <<keyVars, key, status, phrase, loading, known, inputs>>

Close ==
  /\ dialog.phase \in {"form", "success", "error"} /\ dialog' = Closed
  /\ UNCHANGED <<keyVars, key, page, known, inputs>>

Refresh ==
  /\ Input /\ dialog = Closed
  /\ UNCHANGED keyVars
  /\ \E p \in Pages : ~loading[p] /\ Loads({p})
  /\ UNCHANGED <<key, status, phrase, dialog, known>>

Clear ==
  /\ dialog = Closed
  /\ \E p \in Pages : phrase[p] # 0 /\ phrase' = [phrase EXCEPT ![p] = 0]
  /\ UNCHANGED <<keyVars, key, status, loading, task, dialog, known, inputs>>

\* What the user enters: a lock key that was shown, or a wrong one; a seed;
\* a chain.
Entered(op) ==
  CASE op \in {"unlock", "disable"} -> known \cup {Wrong}
    [] op = "restore" -> Keys
    [] op = "import" -> Chains \cup {Wrong}
    [] OTHER -> {0}

\* The form gives way to a status dialog, which works from the start; the page
\* does nothing if it loads.
Confirm ==
  /\ dialog.phase = "form"
  /\ dialog' = [dialog EXCEPT !.phase = "working"]
  /\ \E with \in Entered(dialog.op) :
       IF loading[dialog.page] THEN UNCHANGED <<loading, task>>
       ELSE /\ loading' = [loading EXCEPT ![dialog.page] = TRUE]
            /\ task' = [task EXCEPT ![dialog.page] = Task(dialog.op, with)]
  /\ UNCHANGED <<keyVars, key, status, phrase, known, inputs>>

-----------------------------------------------------------------------------
\* The background half: one HID session per operation.

HasChannel(p) == task[p] # NoTask /\ task[p].stage \in {"open", "second"}
At(p, stage) == task[p] # NoTask /\ task[p].stage = stage
Stage(p, stage) == task' = [task EXCEPT ![p].stage = stage]
Session == UNCHANGED <<keyVars, seed, status, phrase, loading, dialog, known, inputs>>

\* The files are parsed before the key is opened.
Parses(p) == task[p].op = "import" => task[p].with # Wrong

\* HidTransport::open: the channel is taken or the operation is over.
OpenChannel(p) ==
  /\ Session /\ At(p, "start") /\ ~Choosing(p) /\ UNCHANGED <<lock, unlocked, sealed, chain, made>>
  /\ IF plugged = NoKey \/ (\E q \in Pages : HasChannel(q)) \/ ~Parses(p)
       THEN Stage(p, "error")
       ELSE task' = [task EXCEPT ![p].stage = "open", ![p].key = plugged]

\* A key that is pulled, a handshake, PIN or touch that fails.
Fail(p) ==
  /\ Session /\ HasChannel(p) /\ UNCHANGED <<lock, unlocked, sealed, chain, made>>
  /\ plugged # task[p].key \/ DriverErrors
  /\ Stage(p, "error")

Works(p, stage, op) == At(p, stage) /\ task[p].op = op /\ plugged = task[p].key
Wrapped(k) == lock[k] # 0 /\ ~unlocked[k]
Ends(p) == \E s \in IF LostAnswers THEN {"ok", "error"} ELSE {"ok"} : Stage(p, s)

Holds(p, k) == IF p = "attestation" THEN chain[k] ELSE IF lock[k] # 0 THEN 1 ELSE 0
ReadStatus(p, k) == task' = [task EXCEPT ![p].stage = "ok", ![p].out = [key |-> k, holds |-> Holds(p, k)]]

BackupStatus(p) ==
  /\ Session /\ Works(p, "open", "load") /\ p # "attestation" /\ UNCHANGED <<lock, unlocked, sealed, chain, made>>
  /\ ReadStatus(p, plugged)

AttStatus(p) ==
  /\ Session /\ Works(p, "open", "load") /\ p = "attestation" /\ UNCHANGED <<lock, unlocked, sealed, chain, made>>
  /\ ReadStatus(p, plugged)

AttImport(p) ==
  /\ Session /\ Works(p, "open", "import") /\ UNCHANGED <<lock, unlocked, sealed, made>>
  /\ chain' = [chain EXCEPT ![plugged] = task[p].with] /\ Ends(p)

AttClear(p) ==
  /\ Session /\ Works(p, "open", "clear") /\ UNCHANGED <<lock, unlocked, sealed, made>>
  /\ chain' = [chain EXCEPT ![plugged] = 0] /\ Ends(p)

\* lock_enable(): a key that was just made; it is returned with the answer.
LockEnable(p) ==
  /\ Session /\ Works(p, "open", "enable") /\ UNCHANGED <<sealed, chain>>
  /\ IF lock[plugged] # 0
       THEN Stage(p, "refused") /\ UNCHANGED <<lock, unlocked, made>>
       ELSE /\ made' = made + 1
            /\ lock' = [lock EXCEPT ![plugged] = made + 1]
            /\ unlocked' = [unlocked EXCEPT ![plugged] = TRUE]
            /\ \E s \in IF LostAnswers THEN {"ok", "error"} ELSE {"ok"} :
                 task' = [task EXCEPT ![p].stage = s, ![p].out = made + 1]

\* The key answers 0x3D when there is nothing to unlock.
NotLocked(k) == ~Wrapped(k)

LockUnlock(p) ==
  /\ Session /\ Works(p, "open", "unlock") /\ UNCHANGED <<lock, sealed, chain, made>>
  /\ IF NotLocked(plugged) \/ task[p].with # lock[plugged]
       THEN Stage(p, "refused") /\ UNCHANGED unlocked
       ELSE unlocked' = [unlocked EXCEPT ![plugged] = TRUE] /\ Ends(p)

\* Mutant: 0x3D ends the operation, as it does for unlock.
Tolerated_Not(k) == FALSE

Tolerated(k) == NotLocked(k)

\* lock_disable(): unlocks first, then asks for the plain seed.
DisableUnlocks(p) ==
  /\ Session /\ Works(p, "open", "disable") /\ UNCHANGED <<lock, sealed, chain, made>>
  /\ \/ Tolerated(plugged) /\ Stage(p, "second") /\ UNCHANGED unlocked
     \/ /\ ~NotLocked(plugged) /\ task[p].with = lock[plugged]
        /\ unlocked' = [unlocked EXCEPT ![plugged] = TRUE] /\ Stage(p, "second")
     \/ /\ ~Tolerated(plugged) /\ (NotLocked(plugged) \/ task[p].with # lock[plugged])
        /\ Stage(p, "refused") /\ UNCHANGED unlocked

\* Mutant: the lock goes, and the copy in RAM is kept as unlocked.
LockDisable_Ram(p) ==
  /\ Session /\ Works(p, "second", "disable") /\ UNCHANGED <<sealed, chain, made, unlocked>>
  /\ lock' = [lock EXCEPT ![plugged] = 0]
  /\ Ends(p)

LockDisable(p) ==
  /\ Session /\ Works(p, "second", "disable") /\ UNCHANGED <<sealed, chain, made>>
  /\ lock' = [lock EXCEPT ![plugged] = 0]
  /\ unlocked' = [unlocked EXCEPT ![plugged] = FALSE]
  /\ Ends(p)

BackupExport(p) ==
  /\ Session /\ Works(p, "open", "export") /\ UNCHANGED <<lock, unlocked, sealed, chain, made>>
  /\ IF sealed[plugged] \/ Wrapped(plugged)
       THEN Stage(p, "refused")
       ELSE task' = [task EXCEPT ![p].stage = "ok", ![p].out = seed[plugged]]

BackupFinalize(p) ==
  /\ Session /\ Works(p, "open", "finalize") /\ UNCHANGED <<lock, unlocked, chain, made>>
  /\ sealed' = [sealed EXCEPT ![plugged] = TRUE]
  /\ Ends(p)

\* The seed of a locked key is not replaced.
BackupRestore(p) ==
  /\ Works(p, "open", "restore")
  /\ UNCHANGED <<keyVars, lock, unlocked, sealed, chain, made, status, phrase, loading, dialog, known, inputs>>
  /\ IF lock[plugged] # 0
       THEN Stage(p, "refused") /\ UNCHANGED seed
       ELSE seed' = [seed EXCEPT ![plugged] = task[p].with] /\ Ends(p)

Operation(p) ==
  \/ OpenChannel(p) \/ Fail(p) \/ BackupStatus(p)
  \/ LockEnable(p) \/ LockUnlock(p) \/ DisableUnlocks(p) \/ LockDisable(p)
  \/ BackupExport(p) \/ BackupFinalize(p) \/ BackupRestore(p)
  \/ AttStatus(p) \/ AttImport(p) \/ AttClear(p)

-----------------------------------------------------------------------------
\* The main-thread half.

Landing == UNCHANGED <<keyVars, key, inputs>>
Becomes(phase) == dialog' = [dialog EXCEPT !.phase = phase]
Rests(p) == loading' = [loading EXCEPT ![p] = FALSE] /\ task' = [task EXCEPT ![p] = NoTask]

\* A status that could not be read is not reported.
LandLoad(p) ==
  /\ Landing /\ task[p] # NoTask /\ task[p].op = "load" /\ task[p].stage \in {"ok", "error"}
  /\ status' = IF task[p].stage = "ok" THEN [status EXCEPT ![p] = task[p].out] ELSE status
  /\ Rests(p)
  /\ UNCHANGED <<phrase, dialog, known>>

\* Success: load() at once, in place of the task that lands.
Reload(p) ==
  IF shown # NoKey
    THEN task' = [task EXCEPT ![p] = Task("load", 0)] /\ UNCHANGED loading
    ELSE Rests(p)

Units == {"unlock", "disable", "finalize", "restore", "import", "clear"}

LandPhrase(p) ==
  /\ Landing /\ At(p, "ok") /\ task[p].op \in {"enable", "export"}
  /\ phrase' = [phrase EXCEPT ![p] = task[p].out]
  /\ known' = IF p = "lock" THEN known \cup {phrase'[p]} ELSE known
  /\ Reload(p) /\ Becomes("success")
  /\ UNCHANGED status

\* Mutant: the status is not read again.
LandUnit_NoReload(p) ==
  /\ Landing /\ At(p, "ok") /\ task[p].op \in Units
  /\ Rests(p) /\ Becomes("success")
  /\ UNCHANGED <<status, phrase, known>>

LandUnit(p) ==
  /\ Landing /\ At(p, "ok") /\ task[p].op \in Units
  /\ Reload(p) /\ Becomes("success")
  /\ UNCHANGED <<status, phrase, known>>

\* Mutant: a failed operation leaves the page loading.
LandError_Busy(p) ==
  /\ Landing /\ task[p] # NoTask /\ task[p].op # "load" /\ task[p].stage \in {"error", "refused"}
  /\ task' = [task EXCEPT ![p] = NoTask] /\ Becomes("error")
  /\ UNCHANGED <<status, phrase, loading, known>>

LandError(p) ==
  /\ Landing /\ task[p] # NoTask /\ task[p].op # "load" /\ task[p].stage \in {"error", "refused"}
  /\ Rests(p) /\ Becomes("error")
  /\ UNCHANGED <<status, phrase, known>>

Land(p) == LandLoad(p) \/ LandPhrase(p) \/ LandUnit(p) \/ LandError(p)

-----------------------------------------------------------------------------
Background == \E p \in Pages : Operation(p)
Lands == \E p \in Pages : Land(p)
User == Open \/ OpenImport \/ Choose \/ Close \/ Refresh \/ Clear \/ Confirm

Next == User \/ OnDeviceEvent \/ Move \/ Background \/ Lands

\* A thread whose key answers or times out goes on, and so does the executor.
Spec ==
  /\ Init /\ [][Next]_vars
  /\ \A p \in Pages : WF_vars(Operation(p)) /\ WF_vars(Land(p))

-----------------------------------------------------------------------------
\* Properties.

\* A page says that it loads exactly while its one task runs; a file chooser is
\* none that loads.
LoadingIsTask == \A p \in Pages : loading[p] <=> task[p] # NoTask /\ ~Choosing(p)

\* The key of every lock that is engaged was put on the screen, or is about to
\* be: nothing that the pages do at an event drops the task that carries it.
LockKeyIsKnown ==
  \A k \in Keys : lock[k] # 0 =>
    \/ lock[k] \in known
    \/ \E p \in Pages : task[p] # NoTask /\ task[p].op = "enable" /\ task[p].out = lock[k]

\* At rest, and with the move of a key announced, a lock key on the screen is
\* the one of the key that is shown, unless that key's lock was disabled.
LockKeyIsItsOwn ==
  (Idle /\ ~stirred /\ shown # NoKey /\ "lock" \in Pages /\ phrase["lock"] # 0)
    => lock[shown] \in {0, phrase["lock"]}

\* At rest, and with the move of a key announced, no page shows the status of
\* a key that is not the one that is shown.
StatusIsItsOwn ==
  Idle /\ ~stirred /\ shown # NoKey => \A p \in Pages : status[p].key \in {NoKey, shown}

\* At rest, and with the move of a key announced, a status that is shown is what
\* the key holds now: every operation that reports success has it read again.
StatusIsCurrent ==
  Idle /\ ~stirred /\ shown # NoKey =>
    \A p \in Pages : status[p].key = shown => status[p].holds = Holds(p, shown)

\* A lock is disabled by its own key, also when an attempt before was cut
\* short and has left the seed unlocked.
OwnKeyDisables ==
  \A p \in Pages :
    (HasChannel(p) /\ task[p].op = "disable" /\ plugged = task[p].key /\ task[p].with = lock[plugged])
      => (task'[p].stage # "refused")
=============================================================================
