------------------------------ MODULE AuditPage ------------------------------
(***************************************************************************)
(* The Audit page: it switches the journal of the key, reads it, and has a *)
(* checkpoint of it signed.                                                *)
(*                                                                         *)
(* The status is read by a task of its own, which is marked with the key   *)
(* it was started for; the operations the user asks for are not.  A key    *)
(* either signs what it exports in one command, or is read first and asked *)
(* for the signature after; meanwhile it may be used by other programs.    *)
(***************************************************************************)
EXTENDS KeyEvents, AuditChain

CONSTANTS
  Events,      \* kinds of events the key records
  Snapshots,   \* the keys that export and sign in one command
  Ops,         \* what the user asks: a subset of {"toggle", "read", "verify"}
  Tampered,    \* whether the key or the way to it may change what is sent
  Calm,        \* keys are moved only with nothing under way
  MaxLog,      \* bound: events of a key
  MaxInputs,   \* bound: operations the user asks for
  None

AuditAssumption ==
  /\ Snapshots \subseteq Keys /\ Ops \subseteq {"toggle", "read", "verify"}
  /\ {Tampered, Calm} \subseteq BOOLEAN /\ {MaxLog, MaxInputs} \subseteq Nat

VARIABLES
  log, on,       \* each key: the events it recorded, whether it records
  statusKey,     \* status_serial
  enabled,       \* whose status it is, and whether that key records
  statusError,
  statusTask,    \* _status_task
  journal, verification, task, \* what is shown; _task
  challenge,     \* challenges made so far
  inputs

key == <<log, on>>
statusVars == <<statusKey, enabled, statusError, statusTask>>
page == <<journal, verification, task>>
vars == <<keyVars, key, statusVars, page, challenge, inputs>>

Status == [key : Keys, on : BOOLEAN]
Task(what, expect) == [op |-> what, stage |-> "start", key |-> NoKey, expect |-> expect, out |-> None,
                       since |-> [k \in Keys |-> Len(log[k])]]  \* history
StatusTask == [stage |-> "start", key |-> NoKey, current |-> TRUE, out |-> FALSE]

\* AuditViewModel.loading and status_loading.
Loading == task # None
StatusLoading == statusTask # None /\ statusTask.current

TypeOK ==
  /\ KeyTypeOK
  /\ \A k \in Keys : Len(log[k]) <= MaxLog
  /\ statusKey \in Sockets /\ enabled \in Status \cup {None} /\ statusError \in BOOLEAN
  /\ journal # None => Len(journal.entries) <= Cap /\ journal.start + Len(journal.entries) = journal.next
  /\ challenge \in 0..MaxInputs /\ inputs \in 0..MaxInputs

-----------------------------------------------------------------------------
\* Events.

Ready == shown' # NoKey

Init ==
  /\ KeyInit
  /\ log = [k \in Keys |-> <<>>] /\ on \in [Keys -> BOOLEAN]
  /\ statusKey = shown /\ enabled = None /\ statusError = FALSE
  /\ statusTask = IF shown # NoKey THEN StatusTask ELSE None
  /\ journal = None /\ verification = None /\ task = None
  /\ challenge = 0 /\ inputs = 0

AtRest == task = None /\ ~StatusLoading

\* Mutant: a status task is not outdated by another key (status_epoch).
Outdated_Never(t) == t

\* status_epoch += 1: the task goes on, and what it brings is not taken.
Outdated(t) == IF t = None THEN None ELSE [t EXCEPT !.current = FALSE]

\* Mutant: the log of the key before stays.
Forget_KeepsLog == enabled' = None /\ UNCHANGED <<journal, verification>>

\* Mutant: the status of the key before stays.
Forget_KeepsStatus == journal' = None /\ verification' = None /\ UNCHANGED enabled

Forget == enabled' = None /\ journal' = None /\ verification' = None

\* A task that is started takes the place of one that is outdated.
LoadStatus(t) ==
  IF enabled' = None /\ (statusKey # shown' \/ ~statusError) /\ ~Loading /\ (t = None \/ ~t.current) /\ Ready
    THEN statusTask' = StatusTask ELSE statusTask' = t

OnDeviceEvent ==
  /\ Announce
  /\ Calm /\ ~AtRest => shown' = shown
  /\ statusKey' = shown'
  /\ IF statusKey # shown'
       THEN Forget /\ LoadStatus(Outdated(statusTask)) /\ statusError' = FALSE
       ELSE /\ UNCHANGED <<enabled, journal, verification, statusError>>
            /\ LoadStatus(statusTask)
  /\ UNCHANGED <<key, task, challenge, inputs>>

Move == Plug /\ (Calm => AtRest) /\ UNCHANGED <<key, statusVars, page, challenge, inputs>>

\* The key is used by another program, or restarts: it records an event.
Happens ==
  /\ \E k \in Keys, e \in Events :
       k = plugged /\ on[k] /\ Len(log[k]) < MaxLog /\ log' = [log EXCEPT ![k] = Append(@, e)]
  /\ UNCHANGED <<keyVars, on, statusVars, page, challenge, inputs>>

-----------------------------------------------------------------------------
\* The user.

Input == inputs < MaxInputs /\ inputs' = inputs + 1 /\ shown # NoKey /\ ~Loading /\ ~StatusLoading

Ask ==
  /\ Input
  /\ \/ "toggle" \in Ops /\ enabled # None /\ task' = Task("toggle", ~enabled.on)
     \/ "read" \in Ops /\ task' = Task("read", None)
     \/ "verify" \in Ops /\ \E e \in Keys \cup {None} : task' = Task("verify", e)
  /\ UNCHANGED <<keyVars, key, statusVars, journal, verification, challenge>>

Retry ==
  /\ Input /\ enabled = None
  /\ UNCHANGED keyVars
  /\ statusTask' = StatusTask /\ statusError' = FALSE
  /\ UNCHANGED <<key, statusKey, enabled, page, challenge>>

-----------------------------------------------------------------------------
\* The background halves: one HID session each.

Holds(t) == t # None /\ t.stage \in {"open", "second"}
Free == ~Holds(task) /\ ~Holds(statusTask)
Opened(t) == IF plugged = NoKey \/ ~Free THEN [t EXCEPT !.stage = "error"]
                                        ELSE [t EXCEPT !.stage = "open", !.key = plugged]
Lost(t) == Holds(t) /\ (plugged # t.key \/ DriverErrors)

StatusStep == UNCHANGED <<keyVars, key, statusKey, enabled, statusError, page, challenge, inputs>>

OpenStatus == StatusStep /\ statusTask # None /\ statusTask.stage = "start" /\ statusTask' = Opened(statusTask)
FailStatus == StatusStep /\ Lost(statusTask) /\ statusTask' = [statusTask EXCEPT !.stage = "error"]
AuditStatus ==
  /\ StatusStep /\ Holds(statusTask) /\ plugged = statusTask.key
  /\ statusTask' = [statusTask EXCEPT !.stage = "ok", !.out = on[plugged]]

Step == UNCHANGED <<keyVars, statusVars, journal, verification, inputs>>
Works(stage, op) == task # None /\ task.stage = stage /\ task.op = op /\ plugged = task.key

OpenTask == Step /\ task # None /\ task.stage = "start" /\ task' = Opened(task) /\ UNCHANGED <<key, challenge>>
FailTask == Step /\ Lost(task) /\ task' = [task EXCEPT !.stage = "error"] /\ UNCHANGED <<key, challenge>>

\* audit_set_enabled(): the key says what it is set to now.
AuditSetEnabled ==
  /\ Step /\ Works("open", "toggle") /\ UNCHANGED <<log, challenge>>
  /\ on' = [on EXCEPT ![plugged] = task.expect]
  /\ task' = [task EXCEPT !.stage = "ok", !.out = task.expect]

\* What may be received in place of an export: one that is older, one with
\* other events, or one that lacks some.
Some(j) == {1} \cap DOMAIN j.entries
Received(j) ==
  IF ~Tampered THEN {j}
  ELSE {j} \cup {[j EXCEPT !.entries[i] = e] : i \in DOMAIN j.entries, e \in Events}
           \cup {[j EXCEPT !.entries = Tail(@)] : x \in Some(j)}
           \cup {[j EXCEPT !.entries = Tail(@), !.start = @ + 1] : x \in Some(j)}
           \cup {[j EXCEPT !.entries = Front(@), !.next = @ - 1] : x \in Some(j)}

\* A checkpoint may be one that was signed before, for another challenge, or
\* be shown with the number of another head.
Signed(k, c) ==
  {Checkpoint(k, log[k], c)} \cup
    (IF Tampered THEN {Checkpoint(k, SubSeq(log[k], 1, n), 0) : n \in 0..Len(log[k])} ELSE {})

Ended(ok, out) == task' = IF ok THEN [task EXCEPT !.stage = "ok", !.out = out] ELSE [task EXCEPT !.stage = "error"]

AuditLog ==
  /\ Step /\ Works("open", "read") /\ UNCHANGED <<key, challenge>>
  /\ \E j \in Received(Export(log[plugged])) : Ended(WellFormed(j), j)

\* A key without snapshots is read first.
VerifyReads ==
  /\ Step /\ Works("open", "verify") /\ plugged \notin Snapshots /\ UNCHANGED <<key, challenge>>
  /\ \E j \in Received(Export(log[plugged])) :
       task' = [task EXCEPT !.stage = IF WellFormed(j) THEN "second" ELSE "error", !.out = j]

Expected(k, e) == e \in {None, k}

\* The checkpoint is an event itself, after what it signs.
SignsWith(j, c) == Ended(TRUE, Verification(c, j, challenge + 1, Expected(c.key, task.expect)))
Recorded(k) == log' = [log EXCEPT ![k] = IF on[k] /\ Len(@) < MaxLog THEN Append(@, "checkpoint") ELSE @]

VerifySigns ==
  /\ Step /\ Works("second", "verify") /\ UNCHANGED on
  /\ challenge' = challenge + 1
  /\ \E c \in Signed(plugged, challenge + 1) : SignsWith(task.out, c)
  /\ Recorded(plugged)

VerifySnapshot ==
  /\ Step /\ Works("open", "verify") /\ plugged \in Snapshots /\ UNCHANGED on
  /\ challenge' = challenge + 1
  /\ \E j \in Received(Export(log[plugged])), c \in Signed(plugged, challenge + 1) :
       IF WellFormed(j) THEN SignsWith(j, c) ELSE Ended(FALSE, None)
  /\ Recorded(plugged)

-----------------------------------------------------------------------------
\* The main-thread halves.

LandStatus ==
  /\ statusTask # None /\ statusTask.stage \in {"ok", "error"}
  /\ statusTask' = None
  /\ IF ~statusTask.current THEN UNCHANGED <<enabled, statusError>>
     ELSE IF statusTask.stage = "ok"
       THEN enabled' = [key |-> statusTask.key, on |-> statusTask.out] /\ UNCHANGED statusError
       ELSE statusError' = TRUE /\ UNCHANGED enabled
  /\ UNCHANGED <<keyVars, key, statusKey, page, challenge, inputs>>

Landed(op) == task # None /\ task.op = op /\ task.stage = "ok" /\ task' = None
Landing == UNCHANGED <<keyVars, key, statusKey, statusError, statusTask, challenge, inputs>>

LandToggle ==
  /\ Landing /\ Landed("toggle")
  /\ enabled' = [key |-> task.key, on |-> task.out]
  /\ UNCHANGED <<journal, verification>>

\* Mutant: what was found of the log before is left on the page.
LandRead_KeepsVerification ==
  /\ Landing /\ Landed("read")
  /\ journal' = task.out
  /\ UNCHANGED <<enabled, verification>>

LandRead ==
  /\ Landing /\ Landed("read")
  /\ journal' = task.out /\ verification' = None
  /\ UNCHANGED enabled

LandVerify ==
  /\ Landing /\ Landed("verify")
  /\ journal' = task.out.journal /\ verification' = task.out
  /\ UNCHANGED enabled

LandError ==
  /\ Landing /\ task # None /\ task.stage = "error" /\ task' = None
  /\ UNCHANGED <<enabled, journal, verification>>

-----------------------------------------------------------------------------
User == Ask \/ Retry
StatusRuns == OpenStatus \/ FailStatus \/ AuditStatus \/ LandStatus
TaskRuns ==
  \/ OpenTask \/ FailTask \/ AuditSetEnabled \/ AuditLog \/ VerifyReads \/ VerifySigns \/ VerifySnapshot
  \/ LandToggle \/ LandRead \/ LandVerify \/ LandError

Next == OnDeviceEvent \/ Move \/ Happens \/ User \/ StatusRuns \/ TaskRuns

Spec == Init /\ [][Next]_vars

-----------------------------------------------------------------------------
\* Properties.

\* A log that is shown as verified is the end of what its key recorded, to
\* the event and without a gap.
VerifiedIsGenuine ==
  (verification # None /\ Authentic(verification)) =>
     \E n \in 0..Len(log[verification.key]) :
        /\ HeadOf(verification.journal) = SubSeq(log[verification.key], 1, n)
        /\ verification.journal.next = n

\* It has every event that was recorded before the user asked, and its key is
\* the one the user expected: neither an old log nor an old signature passes.
VerifiedIsCurrent ==
  (verification' # None /\ verification' # verification /\ Authentic(verification')) =>
    /\ task.expect \in {None, verification'.key}
    /\ verification'.journal.next >= task.since[verification'.key]

\* Nothing that was not changed is called a forgery: a log that was exported
\* and signed in one command verifies, the events the key dropped included.
HonestIsAuthentic ==
  ~Tampered /\ verification # None /\ verification.expected /\ verification.key \in Snapshots => Authentic(verification)

\* What is said of a log is about the log that is shown.
VerifiesWhatIsShown == verification # None => verification.journal = journal

\* At rest, and with the move of a key announced, the log and the status are
\* those of the key that is shown.
LogIsItsOwn ==
  AtRest /\ ~stirred /\ shown # NoKey /\ journal # None => IsPrefix(HeadOf(journal), log[shown])

StatusIsItsOwn == AtRest /\ ~stirred /\ enabled # None => enabled.key = shown
=============================================================================
