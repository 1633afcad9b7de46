----------------------------- MODULE DeviceRepo -----------------------------
(***************************************************************************)
(* What the application shows of the key that is plugged in.               *)
(*                                                                         *)
(* DeviceRepo (src/ui/models/device.rs) is the one copy of the key's state *)
(* that every screen reads.  Its fields change on the main thread only,    *)
(* but what they are set to was read earlier, by background tasks:         *)
(*   - refresh(), started by the application, the user and the watcher;    *)
(*   - the hot-plug watcher, which samples the USB bus once a second;      *)
(*   - the feature switch and the configuration screen, which write to the *)
(*     key, read it again and push the result (apply_fresh_state);         *)
(*   - update_fido_info(), which reads one part of the state again.        *)
(* Every read opens channels one after the other, each of which is refused *)
(* while another task has one open; keys come and go between any two.      *)
(***************************************************************************)
EXTENDS Naturals, Sequences

CONSTANTS
  Boards,        \* the keys the user owns
  PicoAll,       \* those whose HID interface is matched by chip serial
  CardSerial,    \* serial a key reports over PC/SC
  HidSerial,     \* serial it reports over FIDO
  Writers,       \* which of the two writing screens are modelled
  DriverErrors,  \* whether a driver call may fail with the key present
  MaxInputs,     \* bound: what the user does in one behaviour
  NoBoard, Busy, Many, NoSerial

ASSUME RepoAssumption ==
  /\ PicoAll \subseteq Boards
  /\ DOMAIN CardSerial = Boards /\ DOMAIN HidSerial = Boards
  /\ \A b \in Boards : NoSerial \notin {CardSerial[b], HidSerial[b]}
  /\ Writers \subseteq {"switch", "config"}
  /\ DriverErrors \in BOOLEAN
  /\ MaxInputs \in Nat
  /\ {NoBoard, Busy, Many} \cap Boards = {}
  /\ NoBoard # Busy /\ NoBoard # Many /\ Busy # Many

Tasks == {"refresh"} \cup Writers

VARIABLES
  bus,            \* FIDO interfaces in the order hidapi lists them
  inputs,         \* how many of MaxInputs are spent
  selected,       \* SELECTED: the card the last discover() chose
  screenBusy,     \* a screen's own operation is running
  status, fidoInfo, apps, error, loading, applyingApps, deviceChanged, \* DeviceRepo
  watch, last, current, \* the watcher's next step and its two samples
  at,             \* each task's next step
  expected,       \* serial a task compares with what it read
  read,           \* what it read: rescue, FIDO, GetInfo, LED and apps
  fidoTask,       \* the update_fido_info() task
  held,           \* key whose PIN, phrase or data the screens keep
  shown           \* history: the last serial shown

bound == <<bus, inputs, selected, screenBusy>>
repo == <<status, fidoInfo, apps, error, loading, applyingApps, deviceChanged>>
watcher == <<watch, last, current>>
tasks == <<at, expected, read>>
vars == <<bound, repo, watcher, tasks, fidoTask, held, shown>>

NoStatus == [card |-> NoBoard, hid |-> NoBoard]
Nothing == [card |-> NoBoard, hid |-> NoBoard, info |-> NoBoard, apps |-> NoBoard]

\* The serial comes from the rescue applet when it answered.
SerialOf(s) ==
  IF s.card \in Boards THEN CardSerial[s.card]
  ELSE IF s.hid \in Boards THEN HidSerial[s.hid] ELSE NoSerial

Serials == {CardSerial[b] : b \in Boards} \cup {HidSerial[b] : b \in Boards} \cup {NoSerial}
Present == Boards \cup {NoBoard}
Readings == Present \cup {Busy, Many}
Steps == {"idle", "dialog", "checkCard", "checkHid", "write", "card", "hid", "info", "apps", "land"}

TypeOK ==
  /\ bus \in Seq(Boards) /\ inputs \in 0..MaxInputs
  /\ selected \in Present /\ screenBusy \in BOOLEAN
  /\ status \in [card : Present, hid : Present]
  /\ fidoInfo \in Present /\ apps \in Present
  /\ error \in BOOLEAN /\ loading \in BOOLEAN
  /\ applyingApps \in BOOLEAN /\ deviceChanged \in BOOLEAN
  /\ watch \in {"seed", "wait", "sampled"} /\ last \in Present /\ current \in Present
  /\ at \in [Tasks -> Steps] /\ expected \in [Tasks -> Serials]
  /\ read \in [Tasks -> [card : Readings, hid : Present, info : Present, apps : Present]]
  /\ fidoTask \in {"idle", "read"} \cup Present
  /\ held \in Present /\ shown \in Serials

\* ApplicationRoot::new() has started the first refresh and the watcher.
Init ==
  /\ bus \in {<<>>} \cup {<<b>> : b \in Boards} /\ inputs = 0
  /\ selected = NoBoard /\ screenBusy = FALSE
  /\ status = NoStatus /\ fidoInfo = NoBoard /\ apps = NoBoard
  /\ error = FALSE /\ loading = TRUE /\ applyingApps = FALSE /\ deviceChanged = FALSE
  /\ watch = "seed" /\ last = NoBoard /\ current = NoBoard
  /\ at = [t \in Tasks |-> IF t = "refresh" THEN "card" ELSE "idle"]
  /\ expected = [t \in Tasks |-> NoSerial]
  /\ read = [t \in Tasks |-> Nothing]
  /\ fidoTask = "idle" /\ held = NoBoard /\ shown = NoSerial

-----------------------------------------------------------------------------
\* Channels.  A task that is between two sessions does not hold the guard, so
\* contention may refuse a channel and need not.

Plugged == {bus[i] : i \in 1..Len(bus)}
Fingerprint == IF bus = <<>> THEN NoBoard ELSE Head(bus)

Contended(t) ==
  \/ screenBusy
  \/ fidoTask = "read" /\ t # "fido"
  \/ \E o \in Tasks \ {t} : at[o] \notin {"idle", "dialog", "land"}

Failures == IF DriverErrors THEN {NoBoard} ELSE {}

\* PcscTransport::discover(): never chooses between two keys.
Discovered ==
  IF Len(bus) = 1 THEN Head(bus) ELSE IF bus = <<>> THEN NoBoard ELSE Many

CardReadings(t) == {Discovered} \cup Failures \cup (IF Contended(t) THEN {Busy} ELSE {})

\* HidTransport::open(): the selected Pico All, else the first interface.
HidBoard ==
  IF selected \in PicoAll
  THEN IF selected \in Plugged THEN selected ELSE NoBoard
  ELSE Fingerprint

HidReadings(t) == {HidBoard} \cup Failures \cup (IF Contended(t) THEN {NoBoard} ELSE {})

\* open_with_aid(): discovers again when nothing is selected.
Reselected == IF selected # NoBoard THEN selected ELSE IF Discovered = Many THEN NoBoard ELSE Discovered
ExtraBoard(t) ==
  IF read[t].card = NoBoard THEN HidBoard
  ELSE IF Reselected \in Plugged THEN Reselected ELSE NoBoard
ExtraReadings(t) == {ExtraBoard(t)} \cup Failures \cup (IF Contended(t) THEN {NoBoard} ELSE {})

\* read_device_details() gave an error.
ReadFailed(t) == read[t].card \in {Busy, Many} \/ {read[t].card, read[t].hid} = {NoBoard}
StatusRead(t) == [card |-> read[t].card, hid |-> read[t].hid]

-----------------------------------------------------------------------------
\* DeviceRepo's own operations.

\* A subscriber forgets what it holds when the event finds device_changed set.
Emit == held' = IF deviceChanged' THEN NoBoard ELSE held

Show(s) ==
  /\ status' = s
  /\ shown' = IF SerialOf(s) = NoSerial THEN shown ELSE SerialOf(s)

\* Mutant: the flag that keeps refreshes apart is never set.
BeginLoad_Unmarked(then) ==
  /\ error' = FALSE
  /\ at' = [then EXCEPT !["refresh"] = "card"]
  /\ expected' = [expected EXCEPT !["refresh"] = SerialOf(status)]
  /\ UNCHANGED loading

BeginLoad(then) ==
  /\ loading' = TRUE /\ error' = FALSE
  /\ at' = [then EXCEPT !["refresh"] = "card"]
  /\ expected' = [expected EXCEPT !["refresh"] = SerialOf(status)]

\* refresh(), for a caller whose own step leaves the tasks at `then'.
Refresh(then) ==
  /\ IF loading THEN at' = then /\ UNCHANGED <<loading, error, expected>>
     ELSE BeginLoad(then)
  /\ UNCHANGED <<status, fidoInfo, apps, deviceChanged, read, shown, held>>

\* set_error()
SetError ==
  /\ Show(NoStatus) /\ fidoInfo' = NoBoard /\ apps' = NoBoard
  /\ error' = TRUE

\* Mutant: the guard is released only when a state was read back.
End_KeepsGuard(t) ==
  /\ at' = [at EXCEPT ![t] = "idle"]
  /\ expected' = [expected EXCEPT ![t] = NoSerial]
  /\ read' = [read EXCEPT ![t] = Nothing]
  /\ applyingApps' = (applyingApps /\ (t # "switch" \/ ReadFailed(t)))

\* A task is over and its locals are dropped.
End(t) ==
  /\ at' = [at EXCEPT ![t] = "idle"]
  /\ expected' = [expected EXCEPT ![t] = NoSerial]
  /\ read' = [read EXCEPT ![t] = Nothing]
  /\ applyingApps' = (applyingApps /\ t # "switch")

\* Mutant: the error path returns before end_load().
EndLoad_OkOnly == loading' = ReadFailed("refresh")

EndLoad == loading' = FALSE

\* Mutant: a key that appears where none was is not a change.
ChangedFrom_Known(old, new) == old # NoSerial /\ old # new

ChangedFrom(old, new) == old # new

\* The main-thread end of refresh().
LandRefresh ==
  LET t == "refresh" IN
  /\ at[t] = "land"
  /\ \/ /\ ~ReadFailed(t)
        /\ deviceChanged' = ChangedFrom(expected[t], SerialOf(StatusRead(t)))
        /\ Show(StatusRead(t)) /\ fidoInfo' = read[t].info /\ apps' = read[t].apps
        /\ UNCHANGED error
     \/ /\ read[t].card = Busy
        /\ deviceChanged' = FALSE
        /\ UNCHANGED <<status, fidoInfo, apps, error, shown>>
     \/ /\ ReadFailed(t) /\ read[t].card # Busy
        /\ deviceChanged' = FALSE
        /\ SetError
  /\ EndLoad /\ Emit
  /\ End(t)
  /\ UNCHANGED <<bound, watcher, fidoTask>>

\* apply_fresh_state(): also spawns update_fido_info().  Bound: one such task at
\* a time, so the step waits for the one before.
ApplyFreshState(t) ==
  /\ fidoTask = "idle" /\ fidoTask' = "read"
  /\ deviceChanged' = (SerialOf(status) # SerialOf(StatusRead(t)))
  /\ Show(StatusRead(t)) /\ apps' = read[t].apps
  /\ Emit
  /\ UNCHANGED <<fidoInfo, error, loading>>

ReadFidoInfo ==
  /\ fidoTask = "read"
  /\ fidoTask' \in HidReadings("fido")
  /\ UNCHANGED <<bound, repo, watcher, tasks, held, shown>>

\* The main-thread end of update_fido_info(): device_changed keeps the value
\* that an earlier event left.
LandFidoInfo ==
  /\ fidoTask \in Present
  /\ fidoInfo' = IF fidoTask = NoBoard THEN fidoInfo ELSE fidoTask
  /\ fidoTask' = "idle"
  /\ UNCHANGED deviceChanged
  /\ Emit
  /\ UNCHANGED <<bound, status, apps, error, loading, applyingApps, watcher, tasks, shown>>

-----------------------------------------------------------------------------
\* Background reads, one session a step.

\* Mutant: SELECTED is not cleared before the readers are tried.
Selections_Uncleared(r) == IF r = Busy THEN {selected} ELSE {r}

\* What discover() leaves in SELECTED: a busy channel is refused before it is
\* cleared, and the reads that follow may fail with the card chosen.
Selections(r) ==
  CASE r = Busy -> {selected}
    [] r = Many -> {NoBoard}
    [] r = NoBoard -> {NoBoard} \cup (IF DriverErrors /\ Len(bus) = 1 THEN {Head(bus)} ELSE {})
    [] OTHER -> {r}

ReadCard(t) ==
  /\ at[t] \in {"card", "checkCard"}
  /\ \E r \in CardReadings(t) :
       /\ read' = [read EXCEPT ![t].card = r]
       /\ selected' \in Selections(r)
       /\ at' = [at EXCEPT ![t] =
                   IF at[t] = "checkCard"
                   THEN IF r \in {Busy, Many} THEN "write" ELSE "checkHid"
                   ELSE IF r \in {Busy, Many} THEN "land" ELSE "hid"]
  /\ UNCHANGED <<bus, inputs, screenBusy, repo, watcher, expected, fidoTask, held, shown>>

AfterHid(t, r) ==
  IF read[t].card = NoBoard /\ r = NoBoard THEN "land" ELSE IF t = "refresh" THEN "info" ELSE "apps"

ReadHid(t) ==
  /\ at[t] = "hid"
  /\ \E r \in HidReadings(t) :
       /\ read' = [read EXCEPT ![t].hid = r]
       /\ at' = [at EXCEPT ![t] = AfterHid(t, r)]
  /\ UNCHANGED <<bound, repo, watcher, expected, fidoTask, held, shown>>

ReadInfo(t) ==
  /\ at[t] = "info"
  /\ \E r \in HidReadings(t) : read' = [read EXCEPT ![t].info = r]
  /\ at' = [at EXCEPT ![t] = "apps"]
  /\ UNCHANGED <<bound, repo, watcher, expected, fidoTask, held, shown>>

ReadApps(t) ==
  /\ at[t] = "apps"
  /\ \E r \in ExtraReadings(t) : read' = [read EXCEPT ![t].apps = r]
  /\ selected' = IF read[t].card = NoBoard THEN selected ELSE Reselected
  /\ at' = [at EXCEPT ![t] = "land"]
  /\ UNCHANGED <<bus, inputs, screenBusy, repo, watcher, expected, fidoTask, held, shown>>

-----------------------------------------------------------------------------
\* The writing screens.


\* The serial that was shown when the dialog opened is still connected.  The
\* configuration screen passes when none was shown.
Matches(t) ==
  \/ ~ReadFailed(t) /\ SerialOf(StatusRead(t)) = expected[t]
  \/ t = "config" /\ expected[t] = NoSerial

CheckSerial(t) ==
  /\ at[t] = "checkHid"
  /\ \E r \in HidReadings(t) : read' = [read EXCEPT ![t].hid = r]
  /\ at' = [at EXCEPT ![t] = "write"]
  /\ UNCHANGED <<bound, repo, watcher, expected, fidoTask, held, shown>>

\* A declined or failed write ends the task; so does another key, on which the
\* configuration screen also refreshes.
Write(t) ==
  /\ at[t] = "write"
  /\ \/ /\ Matches(t) /\ at' = [at EXCEPT ![t] = "card"]
        /\ read' = [read EXCEPT ![t] = Nothing]
        /\ UNCHANGED <<repo, expected, held, shown>>
     \/ /\ Matches(t) \/ t = "switch"
        /\ End(t)
        /\ UNCHANGED <<status, fidoInfo, apps, error, loading, deviceChanged, held, shown>>
     \/ /\ ~Matches(t) /\ t = "config"
        /\ Refresh([at EXCEPT ![t] = "idle"])
        /\ UNCHANGED applyingApps
  /\ UNCHANGED <<bound, watcher, fidoTask>>

\* The configuration screen tries the confirmation read again and discards
\* another key's answer; the feature switch does neither.
LandWrite(t) ==
  /\ at[t] = "land"
  /\ \/ /\ ~ReadFailed(t)
        /\ t = "config" => SerialOf(StatusRead(t)) = expected[t]
        /\ End(t) /\ ApplyFreshState(t)
     \/ /\ \/ ReadFailed(t)
           \/ t = "config" /\ SerialOf(StatusRead(t)) # expected[t]
        /\ End(t)
        /\ UNCHANGED <<status, fidoInfo, apps, error, loading, deviceChanged, fidoTask, held, shown>>
     \/ /\ ReadFailed(t) /\ t = "config"
        /\ at' = [at EXCEPT ![t] = "card"]
        /\ UNCHANGED <<repo, expected, read, fidoTask, held, shown>>
  /\ UNCHANGED <<bound, watcher>>

-----------------------------------------------------------------------------
\* The hot-plug watcher.

Seed ==
  /\ watch = "seed" /\ watch' = "wait"
  /\ last' = Fingerprint
  /\ UNCHANGED <<bound, repo, tasks, current, fidoTask, held, shown>>

Sample ==
  /\ watch = "wait" /\ Fingerprint # last
  /\ watch' = "sampled" /\ current' = Fingerprint
  /\ UNCHANGED <<bound, repo, tasks, last, fidoTask, held, shown>>

\* Mutant: the sample is kept even though no refresh was started for it.
React_CommitsSkipped ==
  /\ watch = "sampled" /\ watch' = "wait"
  /\ last' = current
  /\ Refresh(at)
  /\ UNCHANGED <<bound, current, applyingApps, fidoTask>>

\* While a refresh is in flight the change is left for the next tick.
React ==
  /\ watch = "sampled" /\ watch' = "wait"
  /\ last' = IF loading THEN last ELSE current
  /\ Refresh(at)
  /\ UNCHANGED <<bound, current, applyingApps, fidoTask>>

-----------------------------------------------------------------------------
\* The user.

Input == inputs < MaxInputs /\ inputs' = inputs + 1

\* A new interface may be listed before or after those already there.
Plug(b) ==
  /\ Input /\ b \notin Plugged
  /\ bus' \in {<<b>> \o bus, Append(bus, b)}
  /\ UNCHANGED <<selected, screenBusy, repo, watcher, tasks, fidoTask, held, shown>>

Pull(b) ==
  /\ Input /\ b \in Plugged
  /\ \E i \in 1..Len(bus) :
       /\ bus[i] = b
       /\ bus' = SubSeq(bus, 1, i - 1) \o SubSeq(bus, i + 1, Len(bus))
  /\ UNCHANGED <<selected, screenBusy, repo, watcher, tasks, fidoTask, held, shown>>

RefreshDevice ==
  /\ Input /\ Refresh(at)
  /\ UNCHANGED <<bus, selected, screenBusy, watcher, applyingApps, fidoTask>>

\* application_switch::open(): the shown serial and the guard are read here.
OpenSwitch ==
  /\ Input /\ "switch" \in Writers
  /\ status # NoStatus /\ ~applyingApps /\ at["switch"] = "idle"
  /\ at' = [at EXCEPT !["switch"] = "dialog"]
  /\ expected' = [expected EXCEPT !["switch"] = SerialOf(status)]
  /\ UNCHANGED <<bus, selected, screenBusy, repo, watcher, read, fidoTask, held, shown>>

CloseSwitch ==
  /\ "switch" \in Writers /\ at["switch"] = "dialog"
  /\ \/ /\ at' = [at EXCEPT !["switch"] = "checkCard"] /\ applyingApps' = TRUE
        /\ UNCHANGED <<expected, read>>
     \/ End("switch")
  /\ UNCHANGED <<bound, status, fidoInfo, apps, error, loading, deviceChanged, watcher, fidoTask, held, shown>>

CommitConfig ==
  /\ Input /\ "config" \in Writers /\ at["config"] = "idle"
  /\ at' = [at EXCEPT !["config"] = "checkCard"]
  /\ expected' = [expected EXCEPT !["config"] = SerialOf(status)]
  /\ UNCHANGED <<bus, selected, screenBusy, repo, watcher, read, fidoTask, held, shown>>

\* A screen unlocks or reads the key behind its channel and keeps the result,
\* or a new phrase of that key, for display.
Hold ==
  /\ status # NoStatus /\ held = NoBoard
  /\ screenBusy /\ screenBusy' = FALSE
  /\ held' = HidBoard
  /\ UNCHANGED <<bus, inputs, selected, repo, watcher, tasks, fidoTask, shown>>

ScreenStarts ==
  /\ Input /\ status # NoStatus
  /\ ~screenBusy /\ screenBusy' = TRUE
  /\ UNCHANGED <<bus, selected, repo, watcher, tasks, fidoTask, held, shown>>

\* The end of a screen's operation; a PIN change asks for fresh FIDO state.
ScreenEnds ==
  /\ screenBusy /\ screenBusy' = FALSE
  /\ fidoTask' \in (IF fidoTask = "idle" THEN {"idle", "read"} ELSE {fidoTask})
  /\ UNCHANGED <<bus, inputs, selected, repo, watcher, tasks, held, shown>>

User ==
  \/ \E b \in Boards : Plug(b) \/ Pull(b)
  \/ RefreshDevice \/ OpenSwitch \/ CommitConfig \/ ScreenStarts

Background ==
  \/ \E t \in Tasks : ReadCard(t) \/ ReadHid(t) \/ ReadInfo(t) \/ ReadApps(t)
  \/ \E t \in Writers : CheckSerial(t) \/ Write(t) \/ LandWrite(t)
  \/ LandRefresh \/ ReadFidoInfo \/ LandFidoInfo
  \/ Seed \/ Sample \/ React

Next == User \/ CloseSwitch \/ Hold \/ ScreenEnds \/ Background

\* Driver calls return or time out and the main thread runs what is ready, so
\* every step but the user's is eventually taken.
Spec ==
  /\ Init /\ [][Next]_vars
  /\ \A t \in Tasks : WF_vars(ReadCard(t) \/ ReadHid(t) \/ ReadInfo(t) \/ ReadApps(t))
  /\ \A t \in Writers : WF_vars(CheckSerial(t) \/ Write(t) \/ LandWrite(t))
  /\ WF_vars(LandRefresh) /\ WF_vars(ReadFidoInfo) /\ WF_vars(LandFidoInfo)
  /\ WF_vars(Seed) /\ WF_vars(Sample) /\ WF_vars(React) /\ WF_vars(ScreenEnds)

-----------------------------------------------------------------------------

\* refresh() runs at most once at a time, and the flag that says so is taken
\* back by every way its task can end.
LoadingIsRefresh == loading = (at["refresh"] # "idle")

\* The switch's guard is held exactly while its task runs, so the dialogs of
\* the other switches stay closed and are not locked out afterwards.
ApplyingIsSwitch ==
  applyingApps = ("switch" \in Writers /\ at["switch"] \notin {"idle", "dialog"})

\* A fingerprint the watcher has accepted was followed by a refresh: one it saw
\* while a refresh was in flight is looked at again.
NoChangeDropped ==
  [][last' # last /\ watch = "sampled"
       => at["refresh"] = "idle" /\ at'["refresh"] = "card"]_vars

\* When another serial comes to be shown, the screens hold nothing of a key that
\* is not the one shown, even when an error hid the first one in between.
ForgetsOthers == shown' # shown => held' \in {NoBoard, status'.card, status'.hid}
SwapForgets == [][ForgetsOthers]_vars

\* Once the user leaves the keys alone, the watcher's sample is the key that is
\* there: no path leaves refresh() marked as running.
WatcherCatchesUp == <>[](last = Fingerprint)

\* Once the user leaves the keys alone, the key that is there is the one shown.
EveryScreenReflectsKey ==
  <>[](Len(bus) = 1 => status # NoStatus /\ status.hid \in {NoBoard, Head(bus)} /\ status.card \in {NoBoard, Head(bus)})

\* What the screens hold is forgotten only when another key is shown.
InvalidatedOnlyOnChange ==
  [][held # NoBoard /\ held' = NoBoard => shown' # shown]_vars
=============================================================================
