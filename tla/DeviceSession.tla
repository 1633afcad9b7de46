---------------------------- MODULE DeviceSession ----------------------------
(***************************************************************************)
(* Who may talk to which security key.                                     *)
(*                                                                         *)
(* Every operation of the application runs on a background thread and      *)
(* opens its own channel to a board: a PC/SC card (PcscTransport,          *)
(* CcidSession), a HID device (HidTransport) or picotool (firmware::run).  *)
(* Two statics of src/hal/transport/pcsc.rs tie them together:             *)
(*   - CARD_SESSION, a mutex that is only ever try_lock()ed: an operation  *)
(*     that finds it held ends at once with "Device busy";                 *)
(*   - SELECTED, the board the last discover() found.  It is written only  *)
(*     while CARD_SESSION is held, but it is also read without it.         *)
(*                                                                         *)
(* A worker is one such thread; boards are plugged, pulled and swapped     *)
(* between any two of its steps.                                           *)
(***************************************************************************)
EXTENDS FiniteSets

CONSTANTS
  Workers,      \* background threads that open channels
  Ports,        \* places a board can be plugged in, one PC/SC reader name each
  Boards,       \* the physical keys the user owns
  FirmwareOf,   \* FirmwareOf[b]: what identify() says of board b
  Identities,   \* answers to SELECT(rescue AID), without the status word
  Identity,     \* Identity[b]: the answer board b gives
  Nobody, NoBoard, NoTarget

Firmwares == {"PicoAll", "RSKey", "PicoFido", "Unknown"}

\* The answer of a Pico All board holds its chip serial (bytes 4..12), which
\* its HID interface reports as well.  Other boards may give equal answers.
ASSUME IdentityAssumption ==
  /\ FirmwareOf \in [Boards -> Firmwares]
  /\ Identity \in [Boards -> Identities]
  /\ \A a, b \in Boards :
       FirmwareOf[a] = "PicoAll" /\ Identity[a] = Identity[b] => a = b

ASSUME NullAssumption ==
  /\ Nobody \notin Workers
  /\ NoBoard \notin Boards

Targets == [reader : Ports, identity : Identities, firmware : Firmwares]

ASSUME NoTargetAssumption == NoTarget \notin Targets

\* identify() accepts the board's answer to SELECT(rescue AID).
Supported(b) == b \in Boards /\ FirmwareOf[b] # "Unknown"

\* Mutant: a Target without the firmware field.
TargetOf_NoFirmware(c) == [reader |-> c.reader, identity |-> Identity[c.board]]

TargetOf(c) ==
  [reader |-> c.reader, identity |-> Identity[c.board], firmware |-> FirmwareOf[c.board]]

VARIABLES
  attached,     \* attached[p]: the board in port p
  cardSession,  \* CARD_SESSION: the worker holding the guard
  selected,     \* SELECTED
  pc, op,       \* each worker's next step, and the function it is running
  listed,       \* readers a discover() has still to try
  candidates,   \* discover()'s candidate list: card handles still open
  target,       \* connect_selected()'s clone of SELECTED
  card,         \* the board behind the worker's open handle; a handle on a
                \* board that was pulled is dead: NoBoard
  steady        \* history: supported boards listed by this discover() that
                \* stayed plugged in and answered

vars == <<attached, cardSession, selected, pc, op, listed, candidates, target, card, steady>>

\* Functions whose session runs applet commands on the selected board.
AppOps == {"open_with_aid", "connect_selected"}
DiscoverOps == {"discover", "nested_discover"}
Ops == AppOps \cup DiscoverOps \cup {"hid_open", "picotool"}

\* Labels at which a worker holds the CARD_SESSION guard.
Guarded == {"forget", "list", "scan", "target", "connect", "verify", "unwrap", "find", "open", "session"}
Labels == Guarded \cup {"idle", "check", "lock"}

TypeOK ==
  /\ attached \in [Ports -> Boards \cup {NoBoard}]
  /\ cardSession \in Workers \cup {Nobody}
  /\ selected \in Targets \cup {NoTarget}
  /\ pc \in [Workers -> Labels]
  /\ op \in [Workers -> Ops]
  /\ listed \in [Workers -> SUBSET Ports]
  /\ candidates \in [Workers -> SUBSET [reader : Ports, board : Boards]]
  /\ target \in [Workers -> Targets \cup {NoTarget}]
  /\ card \in [Workers -> Boards \cup {NoBoard}]
  /\ steady \in [Workers -> SUBSET Boards]

Init ==
  /\ attached \in [Ports -> Boards \cup {NoBoard}]
  /\ \A p, q \in Ports : attached[p] = attached[q] /\ attached[p] # NoBoard => p = q
  /\ cardSession = Nobody
  /\ selected = NoTarget
  /\ pc = [w \in Workers |-> "idle"]
  /\ op = [w \in Workers |-> "discover"]
  /\ listed = [w \in Workers |-> {}]
  /\ candidates = [w \in Workers |-> {}]
  /\ target = [w \in Workers |-> NoTarget]
  /\ card = [w \in Workers |-> NoBoard]
  /\ steady = [w \in Workers |-> {}]

-----------------------------------------------------------------------------
\* The user: boards come and go.

PlugIn(p, b) ==
  /\ attached[p] = NoBoard
  /\ \A q \in Ports : attached[q] # b
  /\ attached' = [attached EXCEPT ![p] = b]
  /\ UNCHANGED <<cardSession, selected, pc, op, listed, candidates, target, card, steady>>

Pull(p) ==
  /\ attached[p] # NoBoard
  /\ attached' = [attached EXCEPT ![p] = NoBoard]
  /\ card' = [w \in Workers |-> IF card[w] = attached[p] THEN NoBoard ELSE card[w]]
  /\ steady' = [w \in Workers |-> steady[w] \ {attached[p]}]
  /\ UNCHANGED <<cardSession, selected, pc, op, listed, candidates, target>>

-----------------------------------------------------------------------------
\* The guard: lock_device(), and the drop that ends its owner's function.

\* Everything the function owns is dropped when it returns or unwinds: the
\* guard, the handles, the candidates.
Drop(w, next) ==
  /\ cardSession' = Nobody
  /\ card' = [card EXCEPT ![w] = NoBoard]
  /\ listed' = [listed EXCEPT ![w] = {}]
  /\ candidates' = [candidates EXCEPT ![w] = {}]
  /\ target' = [target EXCEPT ![w] = NoTarget]
  /\ steady' = [steady EXCEPT ![w] = {}]
  /\ pc' = [pc EXCEPT ![w] = next]

Goto(w, next) == pc' = [pc EXCEPT ![w] = next]

\* Mutant: discover() forgets the selection before it has the guard.
Start_Forgets(w, o) ==
  /\ pc[w] = "idle"
  /\ o # "nested_discover"
  /\ op' = [op EXCEPT ![w] = o]
  /\ selected' = IF o = "discover" THEN NoTarget ELSE selected
  /\ Goto(w, IF o = "open_with_aid" THEN "check" ELSE "lock")
  /\ UNCHANGED <<attached, cardSession, listed, candidates, target, card, steady>>

Start(w, o) ==
  /\ pc[w] = "idle"
  /\ o # "nested_discover"
  /\ op' = [op EXCEPT ![w] = o]
  /\ Goto(w, IF o = "open_with_aid" THEN "check" ELSE "lock")
  /\ UNCHANGED <<attached, cardSession, selected, listed, candidates, target, card, steady>>

\* What each function does once lock_device() returned a guard.
FirstStep(o) ==
  CASE o \in DiscoverOps -> "forget"
    [] o \in AppOps -> "target"
    [] o = "hid_open" -> "find"
    [] o = "picotool" -> "session"

\* Mutant: WouldBlock is treated like a poisoned mutex.
LockDevice_Ignored(w) ==
  /\ pc[w] = "lock"
  /\ cardSession' = w
  /\ Goto(w, FirstStep(op[w]))
  /\ UNCHANGED <<attached, selected, op, listed, candidates, target, card, steady>>

\* try_lock() succeeds; a poisoned mutex counts as free.
LockDevice(w) ==
  /\ pc[w] = "lock"
  /\ cardSession = Nobody
  /\ cardSession' = w
  /\ Goto(w, FirstStep(op[w]))
  /\ UNCHANGED <<attached, selected, op, listed, candidates, target, card, steady>>

\* try_lock() would block: "Device busy; wait for the current operation".
DeviceBusy(w) ==
  /\ pc[w] = "lock"
  /\ cardSession # Nobody
  /\ Goto(w, "idle")
  /\ UNCHANGED <<attached, cardSession, selected, op, listed, candidates, target, card, steady>>

\* Mutant: an early return leaves the mutex locked (a leaked guard).
DriverError_Leaks(w) ==
  /\ pc[w] \in Guarded \ {"session", "forget"}
  /\ Goto(w, "idle")
  /\ UNCHANGED <<attached, cardSession, selected, op, listed, candidates, target, card, steady>>

\* Any driver call, status word or handshake of a guarded step may fail, or
\* panic: `?` or the unwinding drops what the function owns.
DriverError(w) ==
  /\ pc[w] \in Guarded \ {"session", "forget"}
  /\ Drop(w, "idle")
  /\ UNCHANGED <<attached, selected, op>>

-----------------------------------------------------------------------------
\* PcscTransport::discover()

\* The previous selection is forgotten before anything can fail.
ForgetSelected(w) ==
  /\ pc[w] = "forget"
  /\ selected' = NoTarget
  /\ Goto(w, "list")
  /\ UNCHANGED <<attached, cardSession, op, listed, candidates, target, card, steady>>

ListReaders(w) ==
  /\ pc[w] = "list"
  /\ listed' = [listed EXCEPT ![w] = {p \in Ports : attached[p] # NoBoard}]
  /\ steady' = [steady EXCEPT ![w] = {b \in Boards : Supported(b) /\ \E p \in Ports : attached[p] = b}]
  /\ Goto(w, "scan")
  /\ UNCHANGED <<attached, cardSession, selected, op, candidates, target, card>>

\* Connect and SELECT the next listed reader; the handle stays open with the
\* candidate.  A card that cannot be connected, does not answer or is not
\* identified is passed over (`continue`).
ScanReader(w, p) ==
  /\ pc[w] = "scan"
  /\ p \in listed[w]
  /\ listed' = [listed EXCEPT ![w] = @ \ {p}]
  /\ \/ /\ Supported(attached[p])
        /\ candidates' = [candidates EXCEPT ![w] = @ \cup {[reader |-> p, board |-> attached[p]]}]
        /\ UNCHANGED steady
     \/ /\ steady' = [steady EXCEPT ![w] = @ \ {attached[p]}]
        /\ UNCHANGED candidates
  /\ UNCHANGED <<attached, cardSession, selected, pc, op, target, card>>

\* More than one candidate, or none: an error.
RefuseCandidates(w) ==
  /\ pc[w] = "scan"
  /\ listed[w] = {}
  /\ \A c \in candidates[w] : candidates[w] # {c}
  /\ Drop(w, "idle")
  /\ UNCHANGED <<attached, selected, op>>

\* Mutant: candidates.pop() without the test for a second one.
Choose_Any(w) ==
  /\ pc[w] = "scan"
  /\ listed[w] = {}
  /\ \E c \in candidates[w] :
       /\ selected' = TargetOf(c)
       /\ card' = [card EXCEPT ![w] = IF attached[c.reader] = c.board THEN c.board ELSE NoBoard]
  /\ candidates' = [candidates EXCEPT ![w] = {}]
  /\ Goto(w, "session")
  /\ UNCHANGED <<attached, cardSession, op, listed, target, steady>>

\* The one candidate becomes SELECTED and its handle the session's.
Choose(w) ==
  /\ pc[w] = "scan"
  /\ listed[w] = {}
  /\ \E c \in candidates[w] :
       /\ candidates[w] = {c}
       /\ selected' = TargetOf(c)
       /\ card' = [card EXCEPT ![w] = IF attached[c.reader] = c.board THEN c.board ELSE NoBoard]
  /\ candidates' = [candidates EXCEPT ![w] = {}]
  /\ Goto(w, "session")
  /\ UNCHANGED <<attached, cardSession, op, listed, target, steady>>

-----------------------------------------------------------------------------
\* PcscTransport::open_with_aid() and connect_selected()

\* open_with_aid() looks at SELECTED without the guard.
CheckSelected(w) ==
  /\ pc[w] = "check"
  /\ op' = [op EXCEPT ![w] = IF selected = NoTarget THEN "nested_discover" ELSE @]
  /\ Goto(w, "lock")
  /\ UNCHANGED <<attached, cardSession, selected, listed, candidates, target, card, steady>>

\* drop(Self::discover()?): the guard is given up before connect_selected()
\* takes it again.
DropDiscovered(w) ==
  /\ pc[w] = "session"
  /\ op[w] = "nested_discover"
  /\ op' = [op EXCEPT ![w] = "open_with_aid"]
  /\ Drop(w, "lock")
  /\ UNCHANGED <<attached, selected>>

\* Clone SELECTED; without one, "Refresh the device".
TakeTarget(w) ==
  /\ pc[w] = "target"
  /\ selected # NoTarget
  /\ target' = [target EXCEPT ![w] = selected]
  /\ Goto(w, "connect")
  /\ UNCHANGED <<attached, cardSession, selected, op, listed, candidates, card, steady>>

\* ctx.connect(&target.reader, ..): whatever board is in that reader now.
Connect(w) ==
  /\ pc[w] = "connect"
  /\ attached[target[w].reader] # NoBoard
  /\ card' = [card EXCEPT ![w] = attached[target[w].reader]]
  /\ Goto(w, "verify")
  /\ UNCHANGED <<attached, cardSession, selected, op, listed, candidates, target, steady>>

\* Mutant: the answer to SELECT is not compared.
Verify_AnyBoard(w) ==
  /\ pc[w] = "verify"
  /\ Supported(card[w])
  /\ Goto(w, IF op[w] = "open_with_aid" THEN "unwrap" ELSE "session")
  /\ UNCHANGED <<attached, cardSession, selected, op, listed, candidates, target, card, steady>>

\* Mutant: connect_selected() returns the card alone and drops the guard.
Verify_DropsGuard(w) ==
  /\ pc[w] = "verify"
  /\ Supported(card[w])
  /\ Identity[card[w]] = target[w].identity
  /\ cardSession' = Nobody
  /\ Goto(w, IF op[w] = "open_with_aid" THEN "unwrap" ELSE "session")
  /\ UNCHANGED <<attached, selected, op, listed, candidates, target, card, steady>>

\* The board must give the answer the selected board gave.
Verify(w) ==
  /\ pc[w] = "verify"
  /\ Supported(card[w])
  /\ Identity[card[w]] = target[w].identity
  /\ Goto(w, IF op[w] = "open_with_aid" THEN "unwrap" ELSE "session")
  /\ UNCHANGED <<attached, cardSession, selected, op, listed, candidates, target, card, steady>>

\* SELECTED is read a third time and unwrapped: None would panic, which is a
\* DriverError step and nothing else.  The applet is then selected.
UnwrapSelected(w) ==
  /\ pc[w] = "unwrap"
  /\ selected # NoTarget
  /\ card[w] # NoBoard
  /\ Goto(w, "session")
  /\ UNCHANGED <<attached, cardSession, selected, op, listed, candidates, target, card, steady>>

-----------------------------------------------------------------------------
\* HidTransport::open()

\* Mutant: always the first FIDO interface.
HidMatches_First(b) == TRUE

\* With a Pico All selected its serial must match; otherwise the first FIDO
\* interface enumerated, whichever that is.
HidMatches(b) ==
  selected # NoTarget /\ selected.firmware = "PicoAll" => Identity[b] = selected.identity

FindHid(w, p) ==
  /\ pc[w] = "find"
  /\ attached[p] # NoBoard
  /\ HidMatches(attached[p])
  /\ card' = [card EXCEPT ![w] = attached[p]]
  /\ Goto(w, "open")
  /\ UNCHANGED <<attached, cardSession, selected, op, listed, candidates, target, steady>>

\* open_device() and the CTAPHID_INIT handshake.
OpenHid(w) ==
  /\ pc[w] = "open"
  /\ card[w] # NoBoard
  /\ Goto(w, "session")
  /\ UNCHANGED <<attached, cardSession, selected, op, listed, candidates, target, card, steady>>

\* The operation returns, with a result or an error: transport and guard drop.
Close(w) ==
  /\ pc[w] = "session"
  /\ op[w] # "nested_discover"
  /\ Drop(w, "idle")
  /\ UNCHANGED <<attached, selected, op>>

-----------------------------------------------------------------------------

Step(w) ==
  \/ LockDevice(w) \/ DeviceBusy(w) \/ DriverError(w)
  \/ ForgetSelected(w) \/ ListReaders(w)
  \/ \E p \in Ports : ScanReader(w, p)
  \/ RefuseCandidates(w) \/ Choose(w)
  \/ CheckSelected(w) \/ DropDiscovered(w)
  \/ TakeTarget(w) \/ Connect(w) \/ Verify(w) \/ UnwrapSelected(w)
  \/ \E p \in Ports : FindHid(w, p)
  \/ OpenHid(w) \/ Close(w)

Next ==
  \/ \E p \in Ports, b \in Boards : PlugIn(p, b)
  \/ \E p \in Ports : Pull(p)
  \/ \E w \in Workers, o \in Ops : Start(w, o)
  \/ \E w \in Workers : Step(w)

\* A thread that started keeps running: driver calls return and handshakes
\* time out.  Nobody has to start an operation or to move a board.
Spec == Init /\ [][Next]_vars /\ \A w \in Workers : WF_vars(Step(w))

-----------------------------------------------------------------------------
\* A worker is at a point where it has a usable channel.
InSession(w) == pc[w] = "session"

\* One operation at a time talks to a board: open handles, and the session of
\* picotool, belong to the worker CARD_SESSION names (pcsc.rs:19-30).
ChannelExclusive ==
  \A w \in Workers :
    pc[w] \in Guarded \/ card[w] # NoBoard \/ candidates[w] # {} => cardSession = w

\* While a smart-card session lasts, no other thread's discover() pulls the
\* selection from under it: its live handle gives the answer of the selected
\* board, and connect_selected()'s clone is still SELECTED (pcsc.rs:79-94, 131).
SessionBound ==
  \A w \in Workers :
    InSession(w) /\ op[w] \in AppOps \cup DiscoverOps =>
      /\ selected # NoTarget
      /\ op[w] \in AppOps => selected = target[w]
      /\ card[w] # NoBoard => Identity[card[w]] = selected.identity

\* The unwrap() of pcsc.rs:153 never meets None, although SELECTED was last
\* tested before the guard was given up and taken again.
UnwrapSafe ==
  \A w \in Workers : pc[w] = "unwrap" => selected # NoTarget

\* With a Pico All selected, an open HID channel reaches that very board
\* (fido.rs:188-199), also when the selection was made by another thread.
HidPaired ==
  \A w \in Workers :
    /\ InSession(w) /\ op[w] = "hid_open" /\ card[w] # NoBoard
    /\ selected # NoTarget /\ selected.firmware = "PicoAll"
    => FirmwareOf[card[w]] = "PicoAll" /\ Identity[card[w]] = selected.identity

\* "never silently choose between boards" (pcsc.rs:105): a discover() that
\* selects a board had no second supported board plugged in and answering
\* from the listing of the readers to the choice, and the one it chose is it.
NeverSilentlyChoose ==
  [][\A w \in Workers : Choose(w) =>
       \A b \in steady[w] : selected'.identity = Identity[b] /\ steady[w] = {b}]_vars

Channel == INSTANCE DeviceChannel WITH
  owner <- cardSession,
  chosen <- selected,
  serves <- [w \in Workers |->
               IF InSession(w) /\ op[w] \in AppOps THEN target[w] ELSE NoTarget]

\* The transports keep the promise of DeviceChannel: whatever the other
\* threads and the user do, the selection never changes under an open
\* application session, and a session is opened on the selection in force.
ImplementsChannel == Channel!Spec

\* Every operation ends and gives the guard back: try_lock() never waits, and
\* no path returns with the guard held.
OperationEnds ==
  \A w \in Workers : pc[w] # "idle" ~> pc[w] = "idle" /\ cardSession # w

\* "Match the same physical board as the PC/SC application session"
\* (fido.rs:188), read for every selection and not for Pico All alone.
HidSameBoard ==
  \A w \in Workers :
    InSession(w) /\ op[w] = "hid_open" /\ card[w] # NoBoard /\ selected # NoTarget
      => Identity[card[w]] = selected.identity

=============================================================================
