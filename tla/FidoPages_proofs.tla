-------------------------- MODULE FidoPages_proofs --------------------------
(***************************************************************************)
(* Proofs about the pages that work on the FIDO application, for any keys, *)
(* operations and number of inputs: SeedPages, and Passkeys as the         *)
(* instance `Pass`.  At most one of the two is open, over the same keys;   *)
(* a definition or a lemma about the second starts with Pass.              *)
(*                                                                         *)
(* Nothing a page shows is taken at the moment it is shown: it is read or  *)
(* made in the middle of a task and put on the screen when the task lands. *)
(* So none of the properties is inductive by itself.  The invariants add,  *)
(* under the hypothesis that each needs, what a task carries.              *)
(*                                                                         *)
(* `Inv`, of SeedPages:                                                    *)
(*   Reported    an operation under way is the one its dialog waits for,   *)
(*               so that no load and no second operation drops it;         *)
(*   Counted     each `enable` that is confirmed or asked for leaves room  *)
(*               for one more lock key;                                    *)
(*   Announced   what the watcher says of the port is true, or not yet     *)
(*               said;                                                     *)
(*   Own         what is read or shown is of the key in the port;          *)
(*   OwnPhrase   a lock key that was made, but is not on the screen yet,   *)
(*               is the one its key is locked with;                        *)
(*   Current     a status that no longer holds is about to be read again.  *)
(*                                                                         *)
(* `PassInv`, of Passkeys:                                                 *)
(*   PassOwnList      a list is of the key that is shown, or of one that   *)
(*                    was moved in unannounced (`PassStray`), which ends   *)
(*                    when a reset sees the port change;                   *)
(*   PassCurrent      a list is what its key holds, or is to be read again;*)
(*   PassWaiting      an operation under way has its dialog;               *)
(*   PassResetsAsked  a reset waits for a key it was confirmed for;        *)
(*   PassKept         the kept PIN is of the key in the port and opens it, *)
(*                    and so is the one that a task reads or changes with. *)
(***************************************************************************)
EXTENDS SeedPages, TLAPS

\* What the tasks and the dialog are made of.
Statuses == [key : Sockets, holds : Chains \cup {0}]
Operations == {"enable", "unlock", "disable", "export", "finalize", "restore", "import", "clear"}
Tasks ==
  [op : Operations \cup {"load", "choose"}, stage : {"start", "open", "second", "ok", "error", "refused"},
   with : LockKeys \cup Keys \cup Chains, key : Sockets, out : LockKeys \cup Keys \cup Statuses]
Dialogs ==
  [phase : {"closed", "form", "working", "success", "error"}, page : Pages \cup {"none"}, op : Operations \cup {"none"}]

Assumptions == KeysAssumption /\ SeedAssumption /\ NoTask \notin Tasks

\* Which tasks a page runs: their arguments, and what they have when they end.
Fits(p, t) ==
  /\ t.op \in OpsOf(p) \cup {"load", "choose"}
  /\ t.op = "choose" => p = "attestation" /\ t.stage = "start"
  /\ t.op = "restore" => t.with \in Keys
  /\ t.op = "import" => t.with \in Chains \cup {0}
  /\ t.stage \in {"open", "second"} => t.key \in Keys
  /\ t.stage = "ok" /\ t.op = "load" => t.out \in Statuses
  /\ t.stage = "ok" /\ t.op = "enable" => t.out \in LockKeys
  /\ t.stage = "ok" /\ t.op = "export" => t.out \in Keys
  /\ t.stage # "ok" /\ t.op = "enable" /\ ~LostAnswers => t.out = 0

Typed ==
  /\ TypeOK /\ task \in [Pages -> Tasks \cup {NoTask}] /\ dialog \in Dialogs
  /\ \A p \in Pages : task[p] # NoTask => Fits(p, task[p])

\* One operation at a time, and the dialog waits for it.
Operates(p) == task[p] # NoTask /\ task[p].op \in Operations

Reported ==
  /\ \A p \in Pages : Operates(p) => dialog = [phase |-> "working", page |-> p, op |-> task[p].op]
  /\ dialog.phase = "form" => dialog.page \in Pages /\ dialog.op \in OpsOf(dialog.page)

\* The lock keys that were made, and the one that is to be, are within the bound.
Counted ==
  /\ made <= inputs
  /\ dialog.phase = "form" /\ dialog.op = "enable" => made < inputs
  /\ \A p \in Pages :
       (task[p] # NoTask /\ task[p].op = "enable" /\ task[p].stage \in {"start", "open"}) => made < inputs

\* What DeviceRepo shows is in the port, unless a move was not yet noticed.
Announced ==
  /\ ~stirred => shown \in {NoKey, plugged}
  /\ stirred /\ shown # NoKey => shown # plugged

Settled == ~stirred /\ shown # NoKey

\* A task works on the key in the port and has read that key; so, at rest, has
\* what is shown been.
Own ==
  /\ \A p \in Pages : HasChannel(p) => task[p].key = plugged
  /\ \A p \in Pages : task[p] # NoTask /\ task[p].op = "load" /\ task[p].stage = "ok" => task[p].out.key = plugged
  /\ Settled => \A p \in Pages : status[p].key \in {NoKey, shown}

\* The task has engaged a lock, and brings its key to the screen.
Carried(p) == task[p] # NoTask /\ task[p].op = "enable" /\ task[p].stage = "ok"

OwnPhrase ==
  /\ \A p \in Pages : Carried(p) => task[p].out = lock[plugged]
  /\ Settled /\ "lock" \in Pages /\ phrase["lock"] # 0 => lock[shown] \in {0, phrase["lock"]} \/ Carried("lock")

\* The page will read its status again: it does so now, or when its operation,
\* which is done, has landed.
Due(p) ==
  /\ task[p] # NoTask
  /\ \/ task[p].op = "load" /\ task[p].stage \in {"start", "open", "ok"}
     \/ task[p].op \in Operations /\ task[p].stage = "ok"

Current ==
  \A p \in Pages :
    /\ task[p] # NoTask /\ task[p].op = "load" /\ task[p].stage = "ok" => task[p].out.holds = Holds(p, plugged)
    /\ task[p] # NoTask /\ task[p].op = "load" /\ task[p].stage \in {"error"} => plugged = NoKey
    /\ Settled /\ status[p].key = shown => status[p].holds = Holds(p, shown) \/ Due(p)

\* One page was visited, keys are moved at rest and answer: another page's
\* operation changes what this one shows, and a read that fails leaves it.
Alone == Calm /\ ~LostAnswers /\ ~DriverErrors /\ \A p, q \in Pages : p = q

Inv ==
  /\ Typed /\ LoadingIsTask /\ Reported /\ Counted /\ Announced
  /\ ~LostAnswers => LockKeyIsKnown
  /\ Calm => Own
  /\ Calm /\ ~LostAnswers => OwnPhrase
  /\ Alone => Current

-----------------------------------------------------------------------------
\* Which operation is of which page.
LEMMA Names ==
  ASSUME SeedAssumption, NEW p \in Pages
  PROVE  /\ OpsOf(p) \subseteq Operations
         /\ "load" \notin OpsOf(p) /\ "choose" \notin OpsOf(p)
         /\ "enable" \in OpsOf(p) \/ "unlock" \in OpsOf(p) \/ "disable" \in OpsOf(p) => p = "lock"
         /\ "export" \in OpsOf(p) \/ "restore" \in OpsOf(p) \/ "finalize" \in OpsOf(p) => p = "backup"
         /\ "import" \in OpsOf(p) \/ "clear" \in OpsOf(p) => p = "attestation"
<1>1. p = "lock" \/ p = "backup" \/ p = "attestation"
  BY DEF SeedAssumption, AllPages
<1> QED BY <1>1 DEF OpsOf, Operations

\* A task that begins is one, and fits its page.
LEMMA TaskFacts ==
  ASSUME Assumptions, NEW what \in Operations \cup {"load", "choose"}, NEW with \in LockKeys \cup Keys \cup Chains
  PROVE  LET t == Task(what, with) IN
         /\ t \in Tasks /\ t # NoTask
         /\ t.op = what /\ t.with = with /\ t.stage = "start" /\ t.key = NoKey /\ t.out = 0
<1>1. Task(what, with) \in Tasks
  BY DEF Task, Tasks, LockKeys, Sockets, Assumptions, SeedAssumption
<1> QED BY <1>1 DEF Task, Assumptions

\* Nor does a load lack anything.
LEMMA LoadFacts ==
  ASSUME Assumptions
  PROVE  LET t == Task("load", 0) IN
         /\ t \in Tasks /\ t # NoTask
         /\ t.op = "load" /\ t.stage = "start" /\ t.out = 0
         /\ \A p \in Pages : Fits(p, t)
<1>1. 0 \in LockKeys
  BY DEF LockKeys, Assumptions, SeedAssumption
<1> QED BY <1>1, TaskFacts DEF Fits

\* The pages that load when an event comes are those that did nothing.
LEMMA LoadsFacts ==
  ASSUME Assumptions, Typed, LoadingIsTask, NEW ps \in SUBSET Pages, Loads(ps)
  PROVE  /\ loading' \in [Pages -> BOOLEAN] /\ task' \in [Pages -> Tasks \cup {NoTask}]
         /\ \A p \in Pages :
              \/ loading'[p] = loading[p] /\ task'[p] = task[p]
              \/ /\ ~loading[p] /\ loading'[p] /\ task'[p] = Task("load", 0)
                 /\ task[p] = NoTask \/ task[p].op = "choose"
<1>1. loading \in [Pages -> BOOLEAN] /\ task \in [Pages -> Tasks \cup {NoTask}]
  BY DEF Typed, TypeOK
<1>2. Task("load", 0) \in Tasks
  BY LoadFacts
<1>3. \A p \in Pages : ~loading[p] => task[p] = NoTask \/ task[p].op = "choose"
  BY DEF LoadingIsTask, Choosing
<1> DEFINE S == {p \in ps : MayLoad(p)}
<1>4. /\ loading' = [p \in Pages |-> p \in S \/ loading[p]]
      /\ task' = [p \in Pages |-> IF p \in S THEN Task("load", 0) ELSE task[p]]
  BY DEF Loads
<1>5. \A p \in S : p \in Pages /\ ~loading[p]
  BY DEF MayLoad
<1> HIDE DEF S
<1> QED BY <1>1, <1>2, <1>3, <1>4, <1>5

\* An event leaves the keys where they are and says the truth about them.
LEMMA AnnounceFacts ==
  ASSUME Assumptions, KeyTypeOK, Announced, Announce
  PROVE  KeyTypeOK' /\ Announced' /\ plugged' = plugged
         /\ (shown' = shown \/ shown' = NoKey \/ (shown' = plugged /\ deviceChanged'))
         /\ (stirred' => stirred)
         /\ (~stirred' /\ stirred /\ shown' # NoKey => deviceChanged')
<1>1. CASE AnnounceRead
  BY <1>1 DEF Announce, AnnounceRead, KeyTypeOK, Announced, Sockets
<1>2. CASE AnnounceFailure
  BY <1>2 DEF Announce, AnnounceFailure, KeyTypeOK, Announced, Sockets
<1>3. CASE AnnounceBusy
  BY <1>3 DEF Announce, AnnounceBusy, KeyTypeOK, Announced, Sockets
<1>4. CASE AnnounceFidoInfo
  BY <1>4 DEF Announce, AnnounceFidoInfo, KeyTypeOK, Announced, Sockets
<1> QED BY <1>1, <1>2, <1>3, <1>4 DEF Announce

\* A page that is visited with a key in the port loads at once.
LEMMA InitInv ==
  ASSUME Assumptions, Init
  PROVE  Inv
<1>1. Task("load", 0) \in Tasks /\ Task("load", 0) # NoTask /\ Task("load", 0).op = "load"
      /\ Task("load", 0).stage = "start" /\ Task("load", 0).key = NoKey
      /\ \A p \in Pages : Fits(p, Task("load", 0))
  BY LoadFacts, TaskFacts DEF Assumptions, SeedAssumption, LockKeys
<1>2. /\ task \in [Pages -> Tasks \cup {NoTask}] /\ loading \in [Pages -> BOOLEAN]
      /\ \A p \in Pages : task[p] # NoTask => task[p] = Task("load", 0)
      /\ \A p \in Pages : loading[p] <=> task[p] # NoTask
  BY <1>1 DEF Init
<1>3. TypeOK
  <2>1. KeyTypeOK
    BY DEF Init, KeyInit, KeyTypeOK, Sockets
  <2>2. chain \in [Keys -> Chains \cup {0}] /\ seed \in [Keys -> Keys] /\ sealed \in [Keys -> BOOLEAN]
    BY DEF Init, Chains
  <2>3. /\ lock \in [Keys -> LockKeys] /\ unlocked \in [Keys -> BOOLEAN] /\ made \in LockKeys
        /\ \A k \in Keys : unlocked[k] => lock[k] # 0
        /\ phrase \in [Pages -> LockKeys \cup Keys] /\ known \subseteq LockKeys /\ inputs \in 0..MaxInputs
    BY DEF Init, LockKeys, Assumptions, SeedAssumption
  <2>4. status \in [Pages -> [key : Sockets, holds : Chains \cup {0}]] /\ dialog.phase = "closed"
    BY DEF Init, Unread, Sockets, Closed
  <2>5. \A p \in Pages : task[p] # NoTask => task[p].op = "load" /\ task[p].key \in Sockets /\ task[p].stage = "start"
    BY <1>1, <1>2 DEF Sockets
  <2> QED BY <1>2, <2>1, <2>2, <2>3, <2>4, <2>5 DEF TypeOK
<1>4. Typed
  BY <1>1, <1>2, <1>3 DEF Typed, Dialogs, Init, Closed
<1>5. LoadingIsTask /\ Reported /\ Counted
  BY <1>1, <1>2 DEF LoadingIsTask, Choosing, Reported, Operates, Operations, Counted, Init, Closed
<1>6. Announced
  BY DEF Init, KeyInit, Announced
<1>7. LockKeyIsKnown
  BY DEF Init, LockKeyIsKnown
<1>8. Own
  BY <1>1, <1>2 DEF Own, Init, HasChannel, Unread
<1>9. OwnPhrase
  BY <1>1, <1>2 DEF OwnPhrase, Carried, Init
<1>10. Current
  <2>1. \A p \in Pages : status[p].key = shown => ~Settled
    BY DEF Init, Unread, Settled
  <2> QED BY <1>1, <1>2, <2>1 DEF Current
<1> QED BY <1>4, <1>5, <1>6, <1>7, <1>8, <1>9, <1>10 DEF Inv

-----------------------------------------------------------------------------
\* Events.

\* What loads begin changes nothing that was under way.
LEMMA LoadsKeep ==
  ASSUME Assumptions, Inv, NEW ps \in SUBSET Pages, Loads(ps), UNCHANGED <<key, dialog, known, inputs>>
  PROVE  /\ loading' \in [Pages -> BOOLEAN] /\ task' \in [Pages -> Tasks \cup {NoTask}]
         /\ \A p \in Pages : task'[p] # NoTask =>
              /\ Fits(p, task'[p]) /\ task'[p].key \in Sockets
              /\ task'[p].op \in OpsOf(p) \cup {"load", "choose"}
              /\ task'[p].stage \in {"start", "open", "second", "ok", "error", "refused"}
         /\ LoadingIsTask' /\ Reported' /\ Counted' /\ (~LostAnswers => LockKeyIsKnown')
         /\ \A p \in Pages :
              \/ task'[p] = task[p]
              \/ /\ task'[p] # NoTask /\ task'[p].op = "load" /\ task'[p].stage = "start"
                 /\ task[p] = NoTask \/ task[p].op = "choose"
<1>1. /\ loading' \in [Pages -> BOOLEAN] /\ task' \in [Pages -> Tasks \cup {NoTask}]
      /\ \A p \in Pages :
           \/ loading'[p] = loading[p] /\ task'[p] = task[p]
           \/ /\ ~loading[p] /\ loading'[p] /\ task'[p] = Task("load", 0)
              /\ task[p] = NoTask \/ task[p].op = "choose"
  BY LoadsFacts DEF Inv
<1>2. /\ Task("load", 0) \in Tasks /\ Task("load", 0) # NoTask
      /\ Task("load", 0).op = "load" /\ Task("load", 0).stage = "start"
      /\ \A p \in Pages : Fits(p, Task("load", 0))
  BY LoadFacts
<1>3. \A p \in Pages :
        \/ task'[p] = task[p]
        \/ /\ task'[p] # NoTask /\ task'[p].op = "load" /\ task'[p].stage = "start"
           /\ task[p] = NoTask \/ task[p].op = "choose"
  BY <1>1, <1>2
<1>4. \A p \in Pages : task'[p] # NoTask => Fits(p, task'[p]) /\ task'[p] \in Tasks
  BY <1>1, <1>2 DEF Inv, Typed
<1>5. LoadingIsTask'
  BY <1>1, <1>2 DEF Inv, LoadingIsTask, Choosing
<1>6. Reported'
  BY <1>3 DEF Inv, Reported, Operates, Operations
<1>7. Counted'
  BY <1>3 DEF Inv, Counted, key
<1>8. ~LostAnswers => LockKeyIsKnown'
  BY <1>3 DEF Inv, LockKeyIsKnown, key
<1> QED BY <1>1, <1>3, <1>4, <1>5, <1>6, <1>7, <1>8 DEF Fits, Tasks

\* A page that learns of a new key forgets; one that does not loads, if it may.
LEMMA EventKeeps ==
  ASSUME Assumptions, Inv, OnDeviceEvent
  PROVE  Inv'
<1>1. Loads(Pages) /\ Announce /\ UNCHANGED <<key, dialog, known, inputs>>
  BY DEF OnDeviceEvent
<1>2. /\ KeyTypeOK' /\ Announced' /\ plugged' = plugged
      /\ shown' = shown \/ shown' = NoKey \/ (shown' = plugged /\ deviceChanged')
      /\ stirred' => stirred
      /\ ~stirred' /\ stirred /\ shown' # NoKey => deviceChanged'
  BY <1>1, AnnounceFacts DEF Inv, Typed, TypeOK
<1>3. /\ loading' \in [Pages -> BOOLEAN] /\ task' \in [Pages -> Tasks \cup {NoTask}]
      /\ \A p \in Pages : task'[p] # NoTask =>
           /\ Fits(p, task'[p]) /\ task'[p].key \in Sockets
           /\ task'[p].op \in OpsOf(p) \cup {"load", "choose"}
           /\ task'[p].stage \in {"start", "open", "second", "ok", "error", "refused"}
      /\ LoadingIsTask' /\ Reported' /\ Counted' /\ (~LostAnswers => LockKeyIsKnown')
      /\ \A p \in Pages :
           \/ task'[p] = task[p]
           \/ /\ task'[p] # NoTask /\ task'[p].op = "load" /\ task'[p].stage = "start"
              /\ task[p] = NoTask \/ task[p].op = "choose"
  BY <1>1, LoadsKeep
<1>4. /\ status' \in [Pages -> Statuses] /\ phrase' \in [Pages -> LockKeys \cup Keys]
      /\ deviceChanged' => \A p \in Pages : status'[p].key = NoKey /\ phrase'[p] = 0
      /\ ~deviceChanged' => status' = status /\ phrase' = phrase
  <2>1. status \in [Pages -> Statuses] /\ phrase \in [Pages -> LockKeys \cup Keys]
    BY DEF Inv, Typed, TypeOK, Statuses
  <2>2. Unread \in Statuses /\ Unread.key = NoKey /\ 0 \in LockKeys
    BY DEF Unread, Statuses, Sockets, LockKeys, Assumptions, SeedAssumption
  <2>3. CASE deviceChanged'
    BY <2>2, <2>3 DEF OnDeviceEvent, Forget
  <2>4. CASE ~deviceChanged'
    BY <2>1, <2>4 DEF OnDeviceEvent
  <2> QED BY <2>3, <2>4
<1>5. Typed'
  <2>1. TypeOK'
    BY <1>1, <1>2, <1>3, <1>4 DEF Inv, Typed, TypeOK, Statuses, key
  <2> QED BY <1>1, <1>3, <2>1 DEF Inv, Typed
<1>6. Calm => Own'
  <2> SUFFICES ASSUME Calm PROVE Own'
    OBVIOUS
  <2>1. Own
    BY DEF Inv
  <2>2. Settled' => \A p \in Pages : status'[p].key \in {NoKey, shown'}
    BY <1>2, <1>4, <2>1 DEF Own, Settled
  <2> QED BY <1>2, <1>3, <2>1, <2>2 DEF Own, HasChannel
<1>7. Calm /\ ~LostAnswers => OwnPhrase'
  <2> SUFFICES ASSUME Calm, ~LostAnswers PROVE OwnPhrase'
    OBVIOUS
  <2>1. OwnPhrase
    BY DEF Inv
  <2>2. \A p \in Pages : Carried(p)' <=> Carried(p)
    BY <1>3 DEF Carried
  <2>3. \A p \in Pages : Carried(p)' => task'[p].out = lock'[plugged']
    BY <1>1, <1>2, <1>3, <2>1 DEF OwnPhrase, Carried, key
  <2>4. ASSUME Settled', "lock" \in Pages, phrase'["lock"] # 0
        PROVE  lock'[shown'] \in {0, phrase'["lock"]} \/ Carried("lock")'
    BY <1>1, <1>2, <1>4, <2>1, <2>2, <2>4 DEF OwnPhrase, Settled, key
  <2> QED BY <2>3, <2>4 DEF OwnPhrase
<1>8. Alone => Current'
  <2> SUFFICES ASSUME Alone PROVE Current'
    OBVIOUS
  <2>1. Current /\ Own
    BY DEF Inv, Alone
  <2>2. \A q \in Pages : \A k : Holds(q, k)' = Holds(q, k)
    BY <1>1 DEF Holds, key
  <2>3. ASSUME NEW p \in Pages
        PROVE  /\ task'[p] # NoTask /\ task'[p].op = "load" /\ task'[p].stage = "ok"
                    => task'[p].out.holds = Holds(p, plugged)'
               /\ task'[p] # NoTask /\ task'[p].op = "load" /\ task'[p].stage \in {"error"} => plugged' = NoKey
    BY <1>1, <1>2, <1>3, <2>1 DEF Current, Holds, key
  <2>4. ASSUME NEW p \in Pages, Settled', status'[p].key = shown'
        PROVE  status'[p].holds = Holds(p, shown)' \/ Due(p)'
    <3>1. ~deviceChanged' /\ shown' = shown /\ Settled
      BY <1>2, <1>4, <2>4 DEF Settled
    <3>2. status[p].holds = Holds(p, shown) \/ Due(p)
      BY <1>4, <2>1, <2>4, <3>1 DEF Current
    <3>3. Due(p) => Due(p)'
      BY <1>3 DEF Due, Operations
    <3> QED BY <1>1, <1>4, <3>1, <3>2, <3>3 DEF Holds, key
  <2> QED BY <2>3, <2>4 DEF Current
<1> QED BY <1>2, <1>3, <1>5, <1>6, <1>7, <1>8 DEF Inv

\* A key that is moved makes what was settled unsettled.
LEMMA MoveKeeps ==
  ASSUME Assumptions, Inv, Move
  PROVE  Inv'
<1>1. /\ ~stirred /\ stirred' = TRUE /\ plugged' \in Sockets /\ plugged' # plugged
      /\ UNCHANGED <<shown, deviceChanged, lock, seed, sealed, chain, made, page, dialog, known, inputs>>
      /\ unlocked' = [k \in Keys |-> FALSE]
  BY DEF Move, Plug
<1>2. Typed'
  BY <1>1 DEF Inv, Typed, TypeOK, KeyTypeOK, page
<1>3. LoadingIsTask' /\ Reported' /\ Counted'
  BY <1>1 DEF Inv, LoadingIsTask, Choosing, Reported, Operates, Counted, page
<1>4. Announced'
  BY <1>1 DEF Inv, Announced
<1>5. ~LostAnswers => LockKeyIsKnown'
  BY <1>1 DEF Inv, LockKeyIsKnown, page
<1>6. (Calm => Own') /\ (Calm => OwnPhrase') /\ (Calm => Current')
  <2> SUFFICES ASSUME Calm PROVE Own' /\ OwnPhrase' /\ Current'
    OBVIOUS
  <2>1. \A p \in Pages : task'[p] = NoTask
    BY <1>1 DEF Move, Idle, page
  <2> QED BY <1>1, <2>1 DEF Own, OwnPhrase, Current, HasChannel, Carried, Settled
<1> QED BY <1>2, <1>3, <1>4, <1>5, <1>6 DEF Inv, Alone

-----------------------------------------------------------------------------
\* The user.

\* What only touches the dialog, the phrases and the count.
LEMMA DialogKeeps ==
  ASSUME Assumptions, Inv, UNCHANGED <<keyVars, key, status, loading, task, known>>,
         phrase' \in [Pages -> LockKeys \cup Keys], \A p \in Pages : phrase'[p] \in {0, phrase[p]},
         dialog' \in Dialogs, dialog'.phase = "form" => dialog'.page \in Pages /\ dialog'.op \in OpsOf(dialog'.page),
         dialog.phase # "working", inputs' \in 0..MaxInputs, inputs <= inputs',
         dialog'.phase = "form" => inputs < inputs'
  PROVE  Inv'
<1>1. \A p \in Pages : ~Operates(p)
  BY DEF Inv, Reported
<1>2. Typed'
  BY DEF Inv, Typed, TypeOK, KeyTypeOK, keyVars, key, Dialogs
<1>3. LoadingIsTask' /\ Reported'
  BY <1>1 DEF Inv, LoadingIsTask, Choosing, Reported, Operates
<1>4. Counted'
  <2>1. made <= inputs /\ made \in Nat /\ inputs \in Nat /\ inputs' \in Nat
    BY DEF Inv, Typed, TypeOK, Counted, LockKeys
  <2>2. \A p \in Pages : ~(task[p] # NoTask /\ task[p].op = "enable")
    BY <1>1 DEF Operates, Operations
  <2> QED BY <2>1, <2>2 DEF Counted, key
<1>5. Announced' /\ (~LostAnswers => LockKeyIsKnown')
  BY DEF Inv, Announced, LockKeyIsKnown, keyVars, key
<1>6. Calm => Own'
  BY DEF Inv, Own, HasChannel, Settled, keyVars
<1>7. Calm /\ ~LostAnswers => OwnPhrase'
  BY DEF Inv, OwnPhrase, Carried, Settled, keyVars, key
<1>8. Alone => Current'
  BY DEF Inv, Current, Holds, Due, Settled, keyVars, key
<1> QED BY <1>2, <1>3, <1>4, <1>5, <1>6, <1>7, <1>8 DEF Inv

\* Input by input: a form counts,
LEMMA OpenKeeps ==
  ASSUME Assumptions, Inv, Open
  PROVE  Inv'
<1>0. PICK p \in Pages : \E op \in OpsOf(p) : dialog' = [phase |-> "form", page |-> p, op |-> op]
  BY DEF Open
<1>1. PICK op \in OpsOf(p) : dialog' = [phase |-> "form", page |-> p, op |-> op]
  BY <1>0
<1>2. op \in Operations
  BY <1>1, Names DEF Assumptions
<1>3. dialog' \in Dialogs /\ dialog'.phase = "form" /\ dialog'.page = p /\ dialog'.op = op
  BY <1>1, <1>2 DEF Dialogs
<1>4. inputs' \in 0..MaxInputs /\ inputs < inputs' /\ dialog.phase # "working"
  BY DEF Open, Input, Closed, Inv, Typed, TypeOK, Assumptions, SeedAssumption
<1>5. phrase' = phrase /\ phrase \in [Pages -> LockKeys \cup Keys] /\ inputs <= inputs'
  BY <1>4 DEF Open, page, Inv, Typed, TypeOK
<1> QED BY <1>1, <1>3, <1>4, <1>5, DialogKeeps DEF Open, page

\* what is closed was not working,
LEMMA CloseKeeps ==
  ASSUME Assumptions, Inv, Close
  PROVE  Inv'
<1>1. Closed \in Dialogs /\ Closed.phase = "closed"
  BY DEF Closed, Dialogs
<1>2. phrase \in [Pages -> LockKeys \cup Keys] /\ inputs \in 0..MaxInputs /\ dialog.phase # "working"
  BY DEF Close, Inv, Typed, TypeOK
<1> QED BY <1>1, <1>2, DialogKeeps DEF Close, page

\* what is cleared is no lock key that only a task knows,
LEMMA ClearKeeps ==
  ASSUME Assumptions, Inv, Clear
  PROVE  Inv'
<1>1. dialog' = dialog /\ dialog \in Dialogs /\ dialog.phase = "closed" /\ inputs \in 0..MaxInputs
  BY DEF Clear, Closed, Inv, Typed, TypeOK
<1>2. phrase \in [Pages -> LockKeys \cup Keys] /\ 0 \in LockKeys
  BY DEF Inv, Typed, TypeOK, LockKeys, Assumptions, SeedAssumption
<1>3. phrase' \in [Pages -> LockKeys \cup Keys] /\ \A p \in Pages : phrase'[p] \in {0, phrase[p]}
  BY <1>2 DEF Clear
<1> QED BY <1>1, <1>3, DialogKeeps DEF Clear

\* What only touches the chooser.
LEMMA ChooserKeeps ==
  ASSUME Assumptions, Inv, NEW p \in Pages, p = "attestation", task[p] = NoTask \/ task[p].op = "choose",
         UNCHANGED <<keyVars, key, status, phrase, loading, known>>,
         task' = [task EXCEPT ![p] = NoTask] \/ task' = [task EXCEPT ![p] = Task("choose", 0)],
         dialog' \in Dialogs, dialog'.phase = "form" => dialog'.page \in Pages /\ dialog'.op = "import"
                                     /\ dialog'.page = p,
         dialog.phase # "working", inputs' \in 0..MaxInputs, inputs <= inputs'
  PROVE  Inv'
<1>1. Task("choose", 0) \in Tasks /\ Task("choose", 0) # NoTask /\ Task("choose", 0).op = "choose"
      /\ Task("choose", 0).stage = "start" /\ Task("choose", 0).key = NoKey
  BY TaskFacts DEF Assumptions, SeedAssumption, LockKeys
<1>2. task \in [Pages -> Tasks \cup {NoTask}]
  BY DEF Inv, Typed
<1>3. /\ task' \in [Pages -> Tasks \cup {NoTask}] /\ \A q \in Pages \ {p} : task'[q] = task[q]
      /\ task'[p] # NoTask => task'[p].op = "choose" /\ task'[p].stage = "start" /\ task'[p].key = NoKey
  BY <1>1, <1>2
<1>4. Typed'
  <2>1. task'[p] # NoTask => Fits(p, task'[p])
    BY <1>3 DEF Fits
  <2> QED BY <1>3, <2>1 DEF Inv, Typed, TypeOK, KeyTypeOK, Sockets, keyVars, key, Dialogs
<1>5. LoadingIsTask'
  BY <1>3 DEF Inv, LoadingIsTask, Choosing
<1>6. \A q \in Pages : ~Operates(q) /\ ~Operates(q)'
  <2>1. \A q \in Pages : ~Operates(q)
    BY DEF Inv, Reported
  <2> QED BY <1>3, <2>1 DEF Operates, Operations
<1>7. Reported'
  BY <1>6, Names DEF Reported, OpsOf
<1>8. Counted'
  <2>1. made <= inputs /\ made \in Nat /\ inputs \in Nat /\ inputs' \in Nat
    BY DEF Inv, Typed, TypeOK, Counted, LockKeys
  <2>2. \A q \in Pages : ~(task'[q] # NoTask /\ task'[q].op = "enable")
    BY <1>6 DEF Operates, Operations
  <2> QED BY <2>1, <2>2 DEF Counted, key
<1>9. Announced' /\ (~LostAnswers => LockKeyIsKnown')
  BY <1>3 DEF Inv, Announced, LockKeyIsKnown, keyVars, key
<1>10. Calm => Own'
  BY <1>3 DEF Inv, Own, HasChannel, Settled, keyVars
<1>11. Calm /\ ~LostAnswers => OwnPhrase'
  <2>1. \A q \in Pages : Carried(q)' <=> Carried(q)
    BY <1>3 DEF Carried
  <2> QED BY <1>3, <2>1 DEF Inv, OwnPhrase, Settled, keyVars, key, Carried
<1>12. Alone => Current'
  <2>1. \A q \in Pages : Due(q) => Due(q)'
    BY <1>3 DEF Due, Operations
  <2> QED BY <1>3, <2>1 DEF Inv, Current, Holds, Settled, keyVars, key
<1> QED BY <1>4, <1>5, <1>7, <1>8, <1>9, <1>10, <1>11, <1>12 DEF Inv

\* the file chooser is a task,
LEMMA OpenImportKeeps ==
  ASSUME Assumptions, Inv, OpenImport
  PROVE  Inv'
<1>1. PICK p \in Pages \cap {"attestation"} : Offered(p, "import") /\ task' = [task EXCEPT ![p] = Task("choose", 0)]
  BY DEF OpenImport
<1>2. task[p] = NoTask \/ task[p].op = "choose"
  BY <1>1 DEF Offered, Inv, LoadingIsTask, Choosing
<1>3. dialog' = dialog /\ dialog \in Dialogs /\ dialog.phase = "closed" /\ inputs' \in 0..MaxInputs /\ inputs <= inputs'
  BY DEF OpenImport, Input, Closed, Inv, Typed, TypeOK, Assumptions, SeedAssumption
<1> QED BY <1>1, <1>2, <1>3, ChooserKeeps DEF OpenImport

\* which ends in a form or in nothing,
LEMMA ChooseKeeps ==
  ASSUME Assumptions, Inv, Choose
  PROVE  Inv'
<1>1. PICK p \in Pages : /\ Choosing(p) /\ task' = [task EXCEPT ![p] = NoTask]
                         /\ dialog' \in {Closed, [phase |-> "form", page |-> p, op |-> "import"]}
  BY DEF Choose
<1>2. p = "attestation"
  BY <1>1 DEF Inv, Typed, Fits, Choosing
<1>3. /\ dialog' \in Dialogs
      /\ dialog'.phase = "form" => dialog'.page = p /\ dialog'.op = "import"
      /\ dialog.phase = "closed" /\ inputs' \in 0..MaxInputs /\ inputs <= inputs'
  BY <1>1 DEF Choose, Closed, Inv, Typed, TypeOK, Dialogs, Operations
<1> QED BY <1>1, <1>2, <1>3, ChooserKeeps DEF Choose, Choosing

\* a load that the user asks for is a load,
LEMMA RefreshKeeps ==
  ASSUME Assumptions, Inv, Refresh
  PROVE  Inv'
<1>1. PICK p \in Pages : Loads({p})
  BY DEF Refresh
<1>2. UNCHANGED <<keyVars, key, status, phrase, dialog, known>>
  BY DEF Refresh
<1>3. inputs' \in 0..MaxInputs /\ inputs' = inputs + 1 /\ inputs \in Nat
  BY DEF Refresh, Input, Inv, Typed, TypeOK, Assumptions, SeedAssumption
<1>4. /\ loading' \in [Pages -> BOOLEAN] /\ task' \in [Pages -> Tasks \cup {NoTask}]
      /\ \A q \in Pages :
           \/ loading'[q] = loading[q] /\ task'[q] = task[q]
           \/ /\ ~loading[q] /\ loading'[q] /\ task'[q] = Task("load", 0)
              /\ task[q] = NoTask \/ task[q].op = "choose"
  BY <1>1, LoadsFacts DEF Inv
<1>5. /\ Task("load", 0) \in Tasks /\ Task("load", 0) # NoTask
      /\ Task("load", 0).op = "load" /\ Task("load", 0).stage = "start"
      /\ \A q \in Pages : Fits(q, Task("load", 0))
  BY LoadFacts
<1>6. \A q \in Pages : task'[q] = task[q] \/ (task'[q] # NoTask /\ task'[q].op = "load" /\ task'[q].stage = "start"
                                              /\ (task[q] = NoTask \/ task[q].op = "choose"))
  BY <1>4, <1>5
<1>7. \A q \in Pages : task'[q] # NoTask => Fits(q, task'[q]) /\ task'[q] \in Tasks
  BY <1>4, <1>5 DEF Inv, Typed
<1>8. Typed'
  BY <1>2, <1>3, <1>4, <1>7 DEF Inv, Typed, TypeOK, KeyTypeOK, keyVars, key, Fits, Tasks
<1>9. LoadingIsTask'
  BY <1>4, <1>5 DEF Inv, LoadingIsTask, Choosing
<1>10. Reported'
  BY <1>2, <1>6 DEF Inv, Reported, Operates, Operations
<1>11. Counted'
  <2>1. made <= inputs /\ made \in Nat
    BY DEF Inv, Typed, TypeOK, Counted, LockKeys
  <2> QED BY <1>2, <1>3, <1>6, <2>1 DEF Inv, Counted, key
<1>12. Announced' /\ (~LostAnswers => LockKeyIsKnown')
  BY <1>2, <1>6 DEF Inv, Announced, LockKeyIsKnown, keyVars, key
<1>13. Calm => Own'
  BY <1>2, <1>6 DEF Inv, Own, HasChannel, Settled, keyVars
<1>14. Calm /\ ~LostAnswers => OwnPhrase'
  <2>1. \A q \in Pages : Carried(q)' <=> Carried(q)
    BY <1>6 DEF Carried
  <2> QED BY <1>2, <1>6, <2>1 DEF Inv, OwnPhrase, Settled, keyVars, key, Carried
<1>15. Alone => Current'
  <2>1. \A q \in Pages : Due(q) => Due(q)'
    BY <1>6 DEF Due, Operations
  <2> QED BY <1>2, <1>6, <2>1 DEF Inv, Current, Holds, Settled, keyVars, key
<1> QED BY <1>8, <1>9, <1>10, <1>11, <1>12, <1>13, <1>14, <1>15 DEF Inv

\* and an operation begins where nothing loads.
LEMMA ConfirmKeeps ==
  ASSUME Assumptions, Inv, Confirm
  PROVE  Inv'
<1>1. /\ dialog.phase = "form" /\ dialog' = [dialog EXCEPT !.phase = "working"] /\ dialog \in Dialogs
      /\ dialog.page \in Pages /\ dialog.op \in OpsOf(dialog.page)
      /\ UNCHANGED <<keyVars, key, status, phrase, known, inputs>>
  BY DEF Confirm, Inv, Typed, Reported
<1> DEFINE p == dialog.page
<1>2. /\ dialog.op \in Operations
      /\ dialog.op = "restore" \/ dialog.op = "import" \/ dialog.op \in {"unlock", "disable"}
         \/ dialog.op \in Operations \ {"restore", "import", "unlock", "disable"}
  BY <1>1, Names DEF Assumptions
<1>3. dialog' \in Dialogs /\ dialog'.phase = "working" /\ dialog'.page = p /\ dialog'.op = dialog.op
  BY <1>1 DEF Dialogs
<1>4. PICK with \in Entered(dialog.op) :
        IF loading[p] THEN UNCHANGED <<loading, task>>
        ELSE /\ loading' = [loading EXCEPT ![p] = TRUE] /\ task' = [task EXCEPT ![p] = Task(dialog.op, with)]
  BY DEF Confirm
<1>5. /\ with \in LockKeys \cup Keys \cup Chains
      /\ dialog.op = "restore" => with \in Keys
      /\ dialog.op = "import" => with \in Chains \cup {0}
  BY <1>2, <1>4 DEF Entered, Wrong, Inv, Typed, TypeOK, LockKeys, Assumptions, SeedAssumption
<1> DEFINE t == Task(dialog.op, with)
<1>6. t \in Tasks /\ t # NoTask /\ t.op = dialog.op /\ t.stage = "start" /\ t.with = with /\ t.key = NoKey /\ t.out = 0
  BY <1>2, <1>5, TaskFacts
<1>7. Fits(p, t) /\ t.op \notin {"load", "choose"}
  BY <1>1, <1>2, <1>5, <1>6, Names DEF Fits, Operations, Assumptions
<1> HIDE DEF t, p
<1>8. loading \in [Pages -> BOOLEAN] /\ task \in [Pages -> Tasks \cup {NoTask}] /\ p \in Pages
  BY <1>1 DEF Inv, Typed, TypeOK, p
<1>9. /\ loading' \in [Pages -> BOOLEAN] /\ task' \in [Pages -> Tasks \cup {NoTask}]
      /\ \A q \in Pages :
           \/ loading'[q] = loading[q] /\ task'[q] = task[q]
           \/ ~loading[q] /\ loading'[q] /\ q = p /\ task'[q] = t
  <2>1. CASE loading[p]
    BY <1>4, <1>8, <2>1
  <2>2. CASE ~loading[p]
    <3>1. loading' = [loading EXCEPT ![p] = TRUE] /\ task' = [task EXCEPT ![p] = t]
      BY <1>4, <2>2 DEF t
    <3> QED BY <1>6, <1>8, <2>2, <3>1
  <2> QED BY <2>1, <2>2
<1>10. \A q \in Pages : ~Operates(q) /\ (task'[q] # NoTask => Fits(q, task'[q]) /\ task'[q] \in Tasks)
  BY <1>1, <1>6, <1>7, <1>9 DEF Inv, Reported, Typed
<1>11. Typed'
  BY <1>1, <1>3, <1>9, <1>10 DEF Inv, Typed, TypeOK, KeyTypeOK, keyVars, key, Fits, Tasks
<1>12. LoadingIsTask'
  BY <1>6, <1>7, <1>9 DEF Inv, LoadingIsTask, Choosing
<1>13. Reported'
  <2>1. dialog' = [phase |-> "working", page |-> p, op |-> dialog.op]
    BY <1>3 DEF Dialogs
  <2> QED BY <1>6, <1>9, <1>10, <2>1 DEF Reported, Operates
<1>14. Counted'
  <2>1. made <= inputs /\ (dialog.op = "enable" => made < inputs)
    BY <1>1 DEF Inv, Counted
  <2>2. \A q \in Pages : task'[q] # NoTask /\ task'[q].op = "enable" => dialog.op = "enable"
    BY <1>6, <1>9, <1>10 DEF Operates, Operations
  <2> QED BY <1>1, <1>3, <2>1, <2>2 DEF Counted, key
<1>15. \A q \in Pages :
         \/ task'[q] = task[q]
         \/ /\ task'[q] # NoTask /\ task'[q].op \in Operations /\ task'[q].stage = "start"
            /\ task[q] = NoTask \/ task[q].op = "choose"
  <2>1. \A q \in Pages : ~loading[q] => task[q] = NoTask \/ task[q].op = "choose"
    BY DEF Inv, LoadingIsTask, Choosing
  <2> QED BY <1>2, <1>6, <1>9, <2>1
<1>16. Announced' /\ (~LostAnswers => LockKeyIsKnown')
  BY <1>1, <1>15 DEF Inv, Announced, LockKeyIsKnown, keyVars, key
<1>17. Calm => Own'
  BY <1>1, <1>15 DEF Inv, Own, HasChannel, Settled, keyVars, Operations
<1>18. Calm /\ ~LostAnswers => OwnPhrase'
  <2>1. \A q \in Pages : Carried(q)' <=> Carried(q)
    BY <1>15 DEF Carried
  <2> QED BY <1>1, <1>15, <2>1 DEF Inv, OwnPhrase, Settled, keyVars, key, Carried
<1>19. Alone => Current'
  <2>1. \A q \in Pages : Due(q) => Due(q)'
    BY <1>15 DEF Due, Operations
  <2> QED BY <1>1, <1>15, <2>1 DEF Inv, Current, Holds, Settled, keyVars, key, Operations
<1> QED BY <1>11, <1>12, <1>13, <1>14, <1>16, <1>17, <1>18, <1>19 DEF Inv

-----------------------------------------------------------------------------
\* The background half.

\* An operation goes from one stage to another.
LEMMA StageFacts ==
  ASSUME Assumptions, Inv, NEW p \in Pages, task[p] # NoTask, task[p].op # "choose",
         NEW t \in Tasks, t.op = task[p].op, Fits(p, t), task' = [task EXCEPT ![p] = t],
         UNCHANGED <<loading, dialog>>
  PROVE  /\ task' \in [Pages -> Tasks \cup {NoTask}] /\ task'[p] = t /\ t # NoTask
         /\ \A q \in Pages \ {p} : task'[q] = task[q]
         /\ \A q \in Pages : task'[q] # NoTask =>
              /\ Fits(q, task'[q]) /\ task'[q].key \in Sockets
              /\ task'[q].op \in OpsOf(q) \cup {"load", "choose"}
              /\ task'[q].stage \in {"start", "open", "second", "ok", "error", "refused"}
         /\ LoadingIsTask' /\ Reported'
<1>1. task \in [Pages -> Tasks \cup {NoTask}] /\ t # NoTask
  BY DEF Inv, Typed, Assumptions
<1>2. task' \in [Pages -> Tasks \cup {NoTask}] /\ task'[p] = t /\ \A q \in Pages \ {p} : task'[q] = task[q]
  BY <1>1
<1>3. \A q \in Pages : task'[q] # NoTask => Fits(q, task'[q]) /\ task'[q] \in Tasks
  BY <1>1, <1>2 DEF Inv, Typed
<1>4. LoadingIsTask'
  BY <1>1, <1>2 DEF Inv, LoadingIsTask, Choosing
<1>5. Reported'
  BY <1>1, <1>2 DEF Inv, Reported, Operates
<1> QED BY <1>1, <1>2, <1>3, <1>4, <1>5 DEF Fits, Tasks

\* The type of everything but the tasks.
CardOK ==
  /\ lock \in [Keys -> LockKeys] /\ unlocked \in [Keys -> BOOLEAN]
  /\ seed \in [Keys -> Keys] /\ sealed \in [Keys -> BOOLEAN] /\ made \in LockKeys
  /\ \A k \in Keys : unlocked[k] => lock[k] # 0
  /\ chain \in [Keys -> Chains \cup {0}]

\* A step that leaves locks and chains as they were.
LEMMA StageKeeps ==
  ASSUME Assumptions, Inv, NEW p \in Pages, task[p] # NoTask, task[p].op # "choose",
         task[p].stage \in {"start", "open", "second"},
         NEW t \in Tasks, t.op = task[p].op, Fits(p, t), task' = [task EXCEPT ![p] = t],
         t.stage \in {"start", "open"} /\ t.op = "enable" => task[p].stage \in {"start", "open"},
         t.op = "enable" => t.stage # "ok",
         t.stage \in {"open", "second"} => t.key = plugged,
         t.op = "load" => t.stage \in {"open", "ok", "error"},
         t.op = "load" /\ t.stage = "ok" => t.out.key = plugged /\ t.out.holds = Holds(p, plugged),
         Alone /\ t.op = "load" /\ t.stage = "error" => plugged = NoKey,
         UNCHANGED <<keyVars, lock, chain, made, status, phrase, loading, dialog, known, inputs>>,
         CardOK'
  PROVE  Inv'
<1>1. /\ task' \in [Pages -> Tasks \cup {NoTask}] /\ task'[p] = t /\ t # NoTask
      /\ \A q \in Pages \ {p} : task'[q] = task[q]
      /\ \A q \in Pages : task'[q] # NoTask =>
           /\ Fits(q, task'[q]) /\ task'[q].key \in Sockets
           /\ task'[q].op \in OpsOf(q) \cup {"load", "choose"}
           /\ task'[q].stage \in {"start", "open", "second", "ok", "error", "refused"}
      /\ LoadingIsTask' /\ Reported'
  BY StageFacts
<1>2. Typed'
  BY <1>1 DEF Inv, Typed, TypeOK, KeyTypeOK, keyVars, CardOK
<1>3. Counted'
  BY <1>1 DEF Inv, Counted
<1>4. Announced'
  BY DEF Inv, Announced, keyVars
<1>5. ~LostAnswers => LockKeyIsKnown'
  <2> SUFFICES ASSUME ~LostAnswers, NEW k \in Keys, lock[k] # 0, lock[k] \notin known
               PROVE  \E q \in Pages : task'[q] # NoTask /\ task'[q].op = "enable" /\ task'[q].out = lock[k]
    BY DEF LockKeyIsKnown
  <2>1. PICK q \in Pages : task[q] # NoTask /\ task[q].op = "enable" /\ task[q].out = lock[k]
    BY DEF Inv, LockKeyIsKnown
  <2>2. q # p
    BY <2>1 DEF Inv, Typed, Fits
  <2> QED BY <1>1, <2>1, <2>2
<1>6. Calm => Own'
  BY <1>1 DEF Inv, Own, HasChannel, Settled, keyVars
<1>7. Calm /\ ~LostAnswers => OwnPhrase'
  <2>1. \A q \in Pages : Carried(q)' <=> Carried(q)
    BY <1>1 DEF Carried
  <2> QED BY <1>1, <2>1 DEF Inv, OwnPhrase, Settled, keyVars, Carried
<1>8. Alone => Current'
  <2> SUFFICES ASSUME Alone PROVE Current'
    OBVIOUS
  <2>1. Current /\ Announced
    BY DEF Inv
  <2>2. \A q \in Pages, k \in Sockets : Holds(q, k)' = Holds(q, k)
    BY DEF Holds
  <2>3. \A q \in Pages : q = p
    BY DEF Alone
  <2>4. ASSUME Settled, status[p].key = shown PROVE status[p].holds = Holds(p, shown) \/ Due(p)'
    <3>1. status[p].holds = Holds(p, shown) \/ Due(p)
      BY <2>1, <2>4 DEF Current
    <3>2. CASE t.op = "load"
      <4>1. t.stage # "error"
        BY <2>1, <2>4, <3>2 DEF Announced, Settled
      <4> QED BY <1>1, <3>2, <4>1 DEF Due
    <3>3. CASE t.op # "load"
      BY <3>1, <3>3 DEF Due
    <3> QED BY <3>2, <3>3
  <2> QED BY <1>1, <2>3, <2>4 DEF Current, Settled, keyVars, Holds
<1> QED BY <1>1, <1>2, <1>3, <1>4, <1>5, <1>6, <1>7, <1>8 DEF Inv

\* A task opens the channel to the key in the port,
LEMMA OpenChannelKeeps ==
  ASSUME Assumptions, Inv, NEW p \in Pages, OpenChannel(p)
  PROVE  Inv'
<1>1. task[p] # NoTask /\ task[p].stage = "start" /\ task[p].op # "choose"
      /\ task[p] \in Tasks /\ Fits(p, task[p])
  BY DEF OpenChannel, At, Choosing, Inv, Typed
<1>2. UNCHANGED <<keyVars, lock, chain, made, status, phrase, loading, dialog, known, inputs>> /\ CardOK'
  BY DEF OpenChannel, Session, CardOK, Inv, Typed, TypeOK
<1>3. task \in [Pages -> Tasks \cup {NoTask}] /\ plugged \in Sockets
  BY DEF Inv, Typed, TypeOK, KeyTypeOK
<1>4. CASE plugged = NoKey \/ (\E q \in Pages : HasChannel(q)) \/ ~Parses(p)
  <2> DEFINE t == [task[p] EXCEPT !.stage = "error"]
  <2>1. /\ task' = [task EXCEPT ![p] = t]
        /\ t \in Tasks /\ t.op = task[p].op /\ t.stage = "error" /\ t.with = task[p].with /\ t.out = task[p].out
    BY <1>1, <1>3, <1>4 DEF OpenChannel, Stage, Tasks
  <2>2. Fits(p, t)
    BY <1>1, <2>1 DEF Fits
  <2>3. Alone /\ t.op = "load" => plugged = NoKey
    BY <1>1, <1>4, <2>1 DEF Alone, HasChannel, Parses
  <2> HIDE DEF t
  <2> QED BY <1>1, <1>2, <2>1, <2>2, <2>3, StageKeeps
<1>5. CASE plugged # NoKey /\ task' = [task EXCEPT ![p].stage = "open", ![p].key = plugged]
  <2> DEFINE t == [task[p] EXCEPT !.stage = "open", !.key = plugged]
  <2>1. /\ task' = [task EXCEPT ![p] = t]
        /\ t \in Tasks /\ t.op = task[p].op /\ t.stage = "open" /\ t.with = task[p].with /\ t.out = task[p].out
        /\ t.key = plugged
    BY <1>1, <1>3, <1>5 DEF Tasks
  <2>2. Fits(p, t)
    BY <1>1, <1>3, <1>5, <2>1 DEF Fits, Sockets
  <2> HIDE DEF t
  <2> QED BY <1>1, <1>2, <2>1, <2>2, StageKeeps
<1> QED BY <1>4, <1>5 DEF OpenChannel

\* A step that only ends an operation, or goes on to its second half.
LEMMA EndKeeps ==
  ASSUME Assumptions, Inv, NEW p \in Pages, HasChannel(p), NEW stage \in {"second", "ok", "error", "refused"},
         Stage(p, stage),
         stage \in {"second", "ok"} => task[p].op \notin {"load", "enable", "export"},
         stage = "second" => task[p].key = plugged /\ task[p].op = "disable",
         task[p].op = "load" => stage = "error" /\ ~Alone,
         UNCHANGED <<keyVars, lock, chain, made, status, phrase, loading, dialog, known, inputs>>,
         CardOK'
  PROVE  Inv'
<1>1. /\ task[p] # NoTask /\ task[p].stage \in {"open", "second"} /\ task[p].op # "choose"
      /\ task[p] \in Tasks /\ Fits(p, task[p])
  BY DEF HasChannel, Inv, Typed, Fits
<1>2. task \in [Pages -> Tasks \cup {NoTask}]
  BY DEF Inv, Typed
<1> DEFINE t == [task[p] EXCEPT !.stage = stage]
<1>3. /\ task' = [task EXCEPT ![p] = t]
      /\ t \in Tasks /\ t.op = task[p].op /\ t.stage = stage /\ t.with = task[p].with /\ t.out = task[p].out
      /\ t.key = task[p].key
  BY <1>1, <1>2 DEF Stage, Tasks
<1>4. Fits(p, t)
  BY <1>1, <1>3 DEF Fits
<1> HIDE DEF t
<1> QED BY <1>1, <1>3, <1>4, StageKeeps

\* or fails, at any stage.
LEMMA FailKeeps ==
  ASSUME Assumptions, Inv, NEW p \in Pages, Fail(p)
  PROVE  Inv'
<1>1. UNCHANGED <<keyVars, lock, chain, made, status, phrase, loading, dialog, known, inputs>> /\ CardOK'
  BY DEF Fail, Session, CardOK, Inv, Typed, TypeOK
<1>2. ~Alone
  BY DEF Alone, Fail, Inv, Own
<1> QED BY <1>1, <1>2, EndKeeps DEF Fail

\* A load reads what the key in the port holds.
LEMMA StatusKeeps ==
  ASSUME Assumptions, Inv, NEW p \in Pages, BackupStatus(p) \/ AttStatus(p)
  PROVE  Inv'
<1>1. /\ task[p] # NoTask /\ task[p].stage = "open" /\ task[p].op = "load" /\ plugged = task[p].key
      /\ ReadStatus(p, plugged) /\ UNCHANGED <<keyVars, lock, chain, made, status, phrase, loading, dialog>>
      /\ UNCHANGED <<known, inputs, unlocked, seed, sealed>>
  BY DEF BackupStatus, AttStatus, Works, At, Session
<1>2. task \in [Pages -> Tasks \cup {NoTask}] /\ task[p] \in Tasks /\ Fits(p, task[p]) /\ plugged \in Keys /\ CardOK'
  BY <1>1 DEF Inv, Typed, TypeOK, Fits, CardOK
<1> DEFINE out == [key |-> plugged, holds |-> Holds(p, plugged)]
           t == [task[p] EXCEPT !.stage = "ok", !.out = out]
<1>3. out \in Statuses
  BY <1>2 DEF Holds, Statuses, Chains, Sockets, Inv, Typed, TypeOK
<1>4. out.key = plugged /\ out.holds = Holds(p, plugged)
  OBVIOUS
<1>5. task' = [task EXCEPT ![p] = t]
  BY <1>1 DEF ReadStatus
<1> HIDE DEF out
<1>6. t \in Tasks /\ t.op = "load" /\ t.stage = "ok" /\ t.out = out
  BY <1>1, <1>2, <1>3 DEF Tasks
<1>7. Fits(p, t)
  BY <1>3, <1>6 DEF Fits
<1> HIDE DEF t
<1> QED BY <1>1, <1>2, <1>4, <1>5, <1>6, <1>7, StageKeeps

\* The operations that change no lock and no chain.
LEMMA UnlockKeeps ==
  ASSUME Assumptions, Inv, NEW p \in Pages, LockUnlock(p)
  PROVE  Inv'
<1>1. /\ HasChannel(p) /\ task[p].op = "unlock" /\ plugged = task[p].key
      /\ UNCHANGED <<keyVars, lock, chain, made, status, phrase, loading, dialog, known, inputs, seed, sealed>>
  BY DEF LockUnlock, Works, At, Session, HasChannel
<1>2. CASE Stage(p, "refused") /\ UNCHANGED unlocked
  <2>1. CardOK'
    BY <1>1, <1>2 DEF CardOK, Inv, Typed, TypeOK
  <2> QED BY <1>1, <1>2, <2>1, EndKeeps
<1>3. CASE ~NotLocked(plugged) /\ unlocked' = [unlocked EXCEPT ![plugged] = TRUE] /\ Ends(p)
  <2>1. CardOK'
    BY <1>1, <1>3 DEF CardOK, Inv, Typed, TypeOK, NotLocked, Wrapped
  <2>2. PICK stage \in {"ok", "error"} : Stage(p, stage)
    BY <1>3 DEF Ends
  <2> QED BY <1>1, <2>1, <2>2, EndKeeps
<1> QED BY <1>2, <1>3 DEF LockUnlock

LEMMA DisableUnlocksKeeps ==
  ASSUME Assumptions, Inv, NEW p \in Pages, DisableUnlocks(p)
  PROVE  Inv'
<1>1. /\ HasChannel(p) /\ task[p].op = "disable" /\ plugged = task[p].key
      /\ UNCHANGED <<keyVars, lock, chain, made, status, phrase, loading, dialog, known, inputs, seed, sealed>>
  BY DEF DisableUnlocks, Works, At, Session, HasChannel
<1>2. CASE UNCHANGED unlocked /\ \E stage \in {"second", "refused"} : Stage(p, stage)
  <2>1. CardOK'
    BY <1>1, <1>2 DEF CardOK, Inv, Typed, TypeOK
  <2> QED BY <1>1, <1>2, <2>1, EndKeeps
<1>3. CASE ~NotLocked(plugged) /\ unlocked' = [unlocked EXCEPT ![plugged] = TRUE] /\ Stage(p, "second")
  <2>1. CardOK'
    BY <1>1, <1>3 DEF CardOK, Inv, Typed, TypeOK, NotLocked, Wrapped
  <2> QED BY <1>1, <1>3, <2>1, EndKeeps
<1> QED BY <1>2, <1>3 DEF DisableUnlocks

LEMMA ExportKeeps ==
  ASSUME Assumptions, Inv, NEW p \in Pages, BackupExport(p)
  PROVE  Inv'
<1>1. /\ HasChannel(p) /\ task[p].stage = "open" /\ task[p].op = "export" /\ plugged = task[p].key
      /\ UNCHANGED <<keyVars, lock, chain, made, status, phrase, loading, dialog, known>>
      /\ UNCHANGED <<inputs, seed, sealed, unlocked>>
  BY DEF BackupExport, Works, At, Session, HasChannel
<1>2. CardOK'
  BY <1>1 DEF CardOK, Inv, Typed, TypeOK
<1>3. CASE Stage(p, "refused")
  BY <1>1, <1>2, <1>3, EndKeeps
<1>4. CASE task' = [task EXCEPT ![p].stage = "ok", ![p].out = seed[plugged]]
  <2>1. task \in [Pages -> Tasks \cup {NoTask}] /\ task[p] \in Tasks /\ Fits(p, task[p]) /\ seed[plugged] \in Keys
    BY <1>1 DEF Inv, Typed, TypeOK, Fits, HasChannel
  <2> DEFINE t == [task[p] EXCEPT !.stage = "ok", !.out = seed[plugged]]
  <2>2. task' = [task EXCEPT ![p] = t] /\ t \in Tasks /\ t.op = "export" /\ t.stage = "ok" /\ t.out = seed[plugged]
    BY <1>1, <1>4, <2>1 DEF Tasks
  <2>3. Fits(p, t)
    BY <2>1, <2>2, <1>1 DEF Fits
  <2> HIDE DEF t
  <2> QED BY <1>1, <1>2, <2>2, <2>3, StageKeeps DEF HasChannel
<1> QED BY <1>3, <1>4 DEF BackupExport

LEMMA FinalizeKeeps ==
  ASSUME Assumptions, Inv, NEW p \in Pages, BackupFinalize(p)
  PROVE  Inv'
<1>1. /\ HasChannel(p) /\ task[p].op = "finalize"
      /\ UNCHANGED <<keyVars, lock, chain, made, status, phrase, loading, dialog, known, inputs, seed, unlocked>>
      /\ sealed' = [sealed EXCEPT ![plugged] = TRUE] /\ Ends(p)
  BY DEF BackupFinalize, Works, At, Session, HasChannel
<1>2. CardOK'
  BY <1>1 DEF CardOK, Inv, Typed, TypeOK
<1>3. PICK stage \in {"ok", "error"} : Stage(p, stage)
  BY <1>1 DEF Ends
<1> QED BY <1>1, <1>2, <1>3, EndKeeps

LEMMA RestoreKeeps ==
  ASSUME Assumptions, Inv, NEW p \in Pages, BackupRestore(p)
  PROVE  Inv'
<1>1. /\ HasChannel(p) /\ task[p].op = "restore"
      /\ UNCHANGED <<keyVars, lock, chain, made, status, phrase, loading, dialog, known, inputs, sealed, unlocked>>
  BY DEF BackupRestore, Works, At, HasChannel
<1>2. CASE Stage(p, "refused") /\ UNCHANGED seed
  <2>1. CardOK'
    BY <1>1, <1>2 DEF CardOK, Inv, Typed, TypeOK
  <2> QED BY <1>1, <1>2, <2>1, EndKeeps
<1>3. CASE seed' = [seed EXCEPT ![plugged] = task[p].with] /\ Ends(p)
  <2>1. task[p].with \in Keys
    BY <1>1 DEF Inv, Typed, Fits, HasChannel
  <2>2. CardOK'
    BY <1>1, <1>3, <2>1 DEF CardOK, Inv, Typed, TypeOK
  <2>3. PICK stage \in {"ok", "error"} : Stage(p, stage)
    BY <1>3 DEF Ends
  <2> QED BY <1>1, <2>2, <2>3, EndKeeps
<1> QED BY <1>2, <1>3 DEF BackupRestore

\* A lock or a chain changes: the pages that were idle are of one page, and the
\* operation is followed by a load.
LEMMA ChangeKeeps ==
  ASSUME Assumptions, Inv, NEW p \in Pages, HasChannel(p), task[p].key = plugged,
         task[p].op \in {"enable", "disable", "import", "clear"},
         NEW t \in Tasks, t.op = task[p].op, t.stage \in {"ok", "error"}, ~LostAnswers => t.stage = "ok",
         Fits(p, t), task' = [task EXCEPT ![p] = t],
         t.op = "enable" => t.out = lock'[plugged],
         t.op # "enable" => made' = made,
         t.op = "enable" => task[p].stage = "open" /\ made' = made + 1,
         \A k \in Keys : \/ lock'[k] = lock[k]
                         \/ k = plugged /\ t.op = "disable" /\ lock'[k] = 0
                         \/ k = plugged /\ t.op = "enable",
         UNCHANGED <<keyVars, status, phrase, loading, dialog, known, inputs>>,
         CardOK'
  PROVE  Inv'
<1>1. task[p] # NoTask /\ task[p].stage \in {"open", "second"} /\ Fits(p, task[p]) /\ plugged \in Keys
  BY DEF HasChannel, Inv, Typed, Fits
<1>2. /\ task' \in [Pages -> Tasks \cup {NoTask}] /\ task'[p] = t /\ t # NoTask
      /\ \A q \in Pages \ {p} : task'[q] = task[q]
      /\ \A q \in Pages : task'[q] # NoTask =>
           /\ Fits(q, task'[q]) /\ task'[q].key \in Sockets
           /\ task'[q].op \in OpsOf(q) \cup {"load", "choose"}
           /\ task'[q].stage \in {"start", "open", "second", "ok", "error", "refused"}
      /\ LoadingIsTask' /\ Reported'
  BY <1>1, StageFacts
<1>3. Typed'
  BY <1>2 DEF Inv, Typed, TypeOK, KeyTypeOK, keyVars, CardOK
<1>4. dialog = [phase |-> "working", page |-> p, op |-> task[p].op] /\ \A q \in Pages \ {p} : ~Operates(q)
  BY <1>1 DEF Inv, Reported, Operates, Operations
<1>5. \A q \in Pages : q # p => ~(task'[q] # NoTask /\ task'[q].op = "enable")
  BY <1>2, <1>4 DEF Operates, Operations
<1>6. Counted'
  <2>1. made \in Nat /\ inputs \in Nat /\ made <= inputs /\ (task[p].op = "enable" => made < inputs)
    BY <1>1 DEF Inv, Typed, TypeOK, LockKeys, Counted
  <2> QED BY <1>2, <1>4, <1>5, <2>1 DEF Counted
<1>7. Announced'
  BY DEF Inv, Announced, keyVars
<1>8. ~LostAnswers => LockKeyIsKnown'
  <2> SUFFICES ASSUME ~LostAnswers, NEW k \in Keys, lock'[k] # 0, lock'[k] \notin known
               PROVE  \E q \in Pages : task'[q] # NoTask /\ task'[q].op = "enable" /\ task'[q].out = lock'[k]
    BY DEF LockKeyIsKnown
  <2>1. CASE lock'[k] = lock[k]
    <3>1. PICK q \in Pages : task[q] # NoTask /\ task[q].op = "enable" /\ task[q].out = lock[k]
      BY <2>1 DEF Inv, LockKeyIsKnown
    <3>2. q # p
      BY <1>1, <2>1, <3>1 DEF Fits
    <3> QED BY <1>2, <2>1, <3>1, <3>2
  <2>2. CASE lock'[k] # lock[k]
    BY <1>2, <2>2
  <2> QED BY <2>1, <2>2
<1>9. Calm => Own'
  BY <1>2 DEF Inv, Own, HasChannel, Settled, keyVars
<1>10. Calm /\ ~LostAnswers => OwnPhrase'
  <2> SUFFICES ASSUME Calm, ~LostAnswers PROVE OwnPhrase'
    OBVIOUS
  <2>1. OwnPhrase /\ Announced
    BY DEF Inv
  <2>2. \A q \in Pages : Carried(q)' => q = p /\ t.op = "enable"
    BY <1>2, <1>5 DEF Carried
  <2>3. ~Carried(p) /\ (t.op = "enable" => Carried(p)')
    BY <1>1, <1>2 DEF Carried
  <2>4. t.op = "enable" \/ t.op = "disable" => p = "lock"
    BY <1>1, Names DEF Fits, Assumptions
  <2>5. \A q \in Pages : ~Carried(q)
    BY <1>2, <1>5, <2>3 DEF Carried
  <2>6. ASSUME Settled, "lock" \in Pages, phrase["lock"] # 0
        PROVE  lock'[shown] \in {0, phrase["lock"]} \/ Carried("lock")'
    <3>1. lock[shown] \in {0, phrase["lock"]} /\ shown = plugged
      BY <2>1, <2>5, <2>6 DEF OwnPhrase, Settled, Announced
    <3> QED BY <1>1, <2>3, <2>4, <3>1
  <2> QED BY <1>2, <2>2, <2>6 DEF OwnPhrase, Settled, keyVars, Carried
<1>11. Alone => Current'
  <2> SUFFICES ASSUME Alone PROVE Current'
    OBVIOUS
  <2>1. \A q \in Pages : q = p
    BY DEF Alone
  <2>2. Due(p)' /\ t.op # "load"
    BY <1>2 DEF Due, Alone, Operations
  <2> QED BY <1>2, <2>1, <2>2 DEF Current, Due
<1> QED BY <1>2, <1>3, <1>6, <1>7, <1>8, <1>9, <1>10, <1>11 DEF Inv

\* The lock key that is made is the one the key is locked with.
LEMMA EnableKeeps ==
  ASSUME Assumptions, Inv, NEW p \in Pages, LockEnable(p)
  PROVE  Inv'
<1>1. /\ HasChannel(p) /\ task[p].stage = "open" /\ task[p].op = "enable" /\ plugged = task[p].key
      /\ UNCHANGED <<keyVars, seed, sealed, chain, status, phrase, loading, dialog, known, inputs>>
  BY DEF LockEnable, Works, At, Session, HasChannel
<1>2. task \in [Pages -> Tasks \cup {NoTask}] /\ task[p] \in Tasks /\ Fits(p, task[p]) /\ task[p] # NoTask
  BY <1>1 DEF Inv, Typed, HasChannel
<1>3. CASE lock[plugged] # 0
  <2>1. Stage(p, "refused") /\ UNCHANGED <<lock, unlocked, made>>
    BY <1>3 DEF LockEnable
  <2>2. CardOK'
    BY <1>1, <2>1 DEF CardOK, Inv, Typed, TypeOK
  <2> QED BY <1>1, <2>1, <2>2, EndKeeps
<1>4. CASE lock[plugged] = 0
  <2>1. /\ made' = made + 1 /\ lock' = [lock EXCEPT ![plugged] = made + 1]
        /\ unlocked' = [unlocked EXCEPT ![plugged] = TRUE]
    BY <1>4 DEF LockEnable
  <2>2. PICK s \in {"ok", "error"} : /\ (~LostAnswers => s = "ok")
                                     /\ task' = [task EXCEPT ![p].stage = s, ![p].out = made + 1]
    BY <1>4 DEF LockEnable
  <2>3. made \in Nat /\ made + 1 \in LockKeys
    <3>1. made < inputs
      BY <1>1, <1>2 DEF Inv, Counted
    <3> QED BY <3>1 DEF Inv, Typed, TypeOK, LockKeys, Assumptions, SeedAssumption
  <2>4. plugged \in Keys
    BY <1>1, <1>2 DEF Fits
  <2>5. CardOK'
    <3>1. \A k \in Keys : unlocked'[k] => lock'[k] # 0
      BY <1>1, <2>1, <2>3 DEF Inv, Typed, TypeOK
    <3> QED BY <1>1, <2>1, <2>3, <3>1 DEF CardOK, Inv, Typed, TypeOK
  <2> DEFINE t == [task[p] EXCEPT !.stage = s, !.out = made + 1]
  <2>6. task' = [task EXCEPT ![p] = t] /\ t \in Tasks /\ t.op = "enable" /\ t.stage = s /\ t.out = made + 1
    BY <1>1, <1>2, <2>2, <2>3 DEF Tasks
  <2>7. Fits(p, t)
    BY <1>1, <1>2, <2>2, <2>3, <2>6 DEF Fits
  <2>8. lock'[plugged] = made + 1 /\ \A k \in Keys : lock'[k] = lock[k] \/ k = plugged
    BY <2>1, <2>4 DEF Inv, Typed, TypeOK
  <2> HIDE DEF t
  <2> QED BY <1>1, <2>1, <2>2, <2>5, <2>6, <2>7, <2>8, ChangeKeeps
<1> QED BY <1>3, <1>4 DEF LockEnable

\* The other changes end alike.
LEMMA ChangeEnds ==
  ASSUME Assumptions, Inv, NEW p \in Pages, HasChannel(p), task[p].key = plugged,
         task[p].op \in {"disable", "import", "clear"}, Ends(p), made' = made,
         \A k \in Keys : lock'[k] = lock[k] \/ (k = plugged /\ task[p].op = "disable" /\ lock'[k] = 0),
         UNCHANGED <<keyVars, status, phrase, loading, dialog, known, inputs>>,
         CardOK'
  PROVE  Inv'
<1>1. task \in [Pages -> Tasks \cup {NoTask}] /\ task[p] \in Tasks /\ Fits(p, task[p]) /\ task[p] # NoTask
  BY DEF Inv, Typed, HasChannel
<1>2. PICK s \in {"ok", "error"} : (~LostAnswers => s = "ok") /\ task' = [task EXCEPT ![p].stage = s]
  BY DEF Ends, Stage
<1> DEFINE t == [task[p] EXCEPT !.stage = s]
<1>3. task' = [task EXCEPT ![p] = t] /\ t \in Tasks /\ t.op = task[p].op /\ t.stage = s /\ t.with = task[p].with
  BY <1>1, <1>2 DEF Tasks
<1>4. Fits(p, t)
  BY <1>1, <1>2, <1>3 DEF Fits
<1> HIDE DEF t
<1> QED BY <1>2, <1>3, <1>4, ChangeKeeps

LEMMA DisableKeeps ==
  ASSUME Assumptions, Inv, NEW p \in Pages, LockDisable(p)
  PROVE  Inv'
<1>1. /\ HasChannel(p) /\ task[p].op = "disable" /\ plugged = task[p].key /\ made' = made /\ Ends(p)
      /\ UNCHANGED <<keyVars, seed, sealed, chain, status, phrase, loading, dialog, known, inputs>>
      /\ lock' = [lock EXCEPT ![plugged] = 0] /\ unlocked' = [unlocked EXCEPT ![plugged] = FALSE]
  BY DEF LockDisable, Works, At, Session, HasChannel
<1>2. CardOK'
  <2>1. 0 \in LockKeys /\ plugged \in Keys
    BY <1>1 DEF LockKeys, Assumptions, SeedAssumption, HasChannel, Inv, Typed, Fits
  <2>2. lock' \in [Keys -> LockKeys] /\ unlocked' \in [Keys -> BOOLEAN]
    BY <1>1, <2>1 DEF Inv, Typed, TypeOK
  <2>3. \A k \in Keys : unlocked'[k] => lock'[k] # 0
    BY <1>1, <2>1 DEF Inv, Typed, TypeOK
  <2> QED BY <1>1, <2>2, <2>3 DEF CardOK, Inv, Typed, TypeOK
<1>3. \A k \in Keys : lock'[k] = lock[k] \/ (k = plugged /\ lock'[k] = 0)
  BY <1>1 DEF Inv, Typed, TypeOK
<1> QED BY <1>1, <1>2, <1>3, ChangeEnds

LEMMA AttKeeps ==
  ASSUME Assumptions, Inv, NEW p \in Pages, AttImport(p) \/ AttClear(p)
  PROVE  Inv'
<1>1. /\ HasChannel(p) /\ task[p].op \in {"import", "clear"} /\ plugged = task[p].key /\ made' = made /\ Ends(p)
      /\ UNCHANGED <<keyVars, seed, sealed, lock, unlocked, status, phrase, loading, dialog, known, inputs>>
      /\ \/ task[p].op = "import" /\ chain' = [chain EXCEPT ![plugged] = task[p].with]
         \/ chain' = [chain EXCEPT ![plugged] = 0]
  BY DEF AttImport, AttClear, Works, At, Session, HasChannel
<1>2. task[p].op = "import" => task[p].with \in Chains \cup {0}
  BY <1>1 DEF Inv, Typed, HasChannel, Fits
<1>3. CardOK'
  BY <1>1, <1>2 DEF CardOK, Inv, Typed, TypeOK
<1> QED BY <1>1, <1>3, ChangeEnds

\* Every step of an operation.
LEMMA OperationKeeps ==
  ASSUME Assumptions, Inv, NEW p \in Pages, Operation(p)
  PROVE  Inv'
BY OpenChannelKeeps, FailKeeps, StatusKeeps, EnableKeeps, UnlockKeeps, DisableUnlocksKeeps, DisableKeeps,
   ExportKeeps, FinalizeKeeps, RestoreKeeps, AttKeeps DEF Operation

-----------------------------------------------------------------------------
\* The main-thread half.

\* The end of a task: nothing, or the load that follows.
LEMMA LandKeeps ==
  ASSUME Assumptions, Inv, NEW p \in Pages, task[p] # NoTask, task[p].stage \in {"ok", "error", "refused"},
         task[p].op # "choose", UNCHANGED <<keyVars, key, inputs>>, Rests(p) \/ Reload(p),
         \/ dialog' = dialog /\ task[p].op = "load"
         \/ Operates(p) /\ \E phase \in {"success", "error"} : Becomes(phase),
         status' \in [Pages -> Statuses], phrase' \in [Pages -> LockKeys \cup Keys],
         known \subseteq known', known' \subseteq LockKeys,
         Carried(p) => task[p].out \in known'
  PROVE  /\ Typed' /\ LoadingIsTask' /\ Reported' /\ Counted' /\ Announced' /\ (~LostAnswers => LockKeyIsKnown')
         /\ \A q \in Pages \ {p} : task'[q] = task[q]
         /\ task'[p] = NoTask \/ task'[p] = Task("load", 0)
<1>1. /\ task \in [Pages -> Tasks \cup {NoTask}] /\ loading \in [Pages -> BOOLEAN]
      /\ dialog \in Dialogs /\ Fits(p, task[p])
  BY DEF Inv, Typed, TypeOK
<1>2. loading[p]
  BY DEF Inv, LoadingIsTask, Choosing
<1>3. /\ Task("load", 0) \in Tasks /\ Task("load", 0) # NoTask
      /\ Task("load", 0).op = "load" /\ Task("load", 0).stage = "start"
      /\ \A q \in Pages : Fits(q, Task("load", 0))
  BY LoadFacts
<1>4. /\ task' \in [Pages -> Tasks \cup {NoTask}] /\ loading' \in [Pages -> BOOLEAN]
      /\ \A q \in Pages \ {p} : task'[q] = task[q] /\ loading'[q] = loading[q]
      /\ \/ task'[p] = NoTask /\ ~loading'[p]
         \/ task'[p] = Task("load", 0) /\ loading'[p]
  <2>1. CASE Rests(p)
    BY <1>1, <2>1 DEF Rests
  <2>2. CASE task' = [task EXCEPT ![p] = Task("load", 0)] /\ UNCHANGED loading
    BY <1>1, <1>2, <1>3, <2>2
  <2> QED BY <2>1, <2>2 DEF Reload
<1>5. dialog' \in Dialogs
  BY <1>1 DEF Dialogs, Becomes
<1>6. \A q \in Pages : task'[q] # NoTask => Fits(q, task'[q]) /\ task'[q] \in Tasks
  BY <1>1, <1>3, <1>4 DEF Inv, Typed
<1>7. Typed'
  BY <1>4, <1>5, <1>6 DEF Inv, Typed, TypeOK, KeyTypeOK, keyVars, key, Statuses, Dialogs, Fits, Tasks
<1>8. LoadingIsTask'
  BY <1>3, <1>4 DEF Inv, LoadingIsTask, Choosing
<1>9. /\ Operates(p) => dialog = [phase |-> "working", page |-> p, op |-> task[p].op]
      /\ Operates(p) => \A q \in Pages \ {p} : ~Operates(q)
      /\ ~Operates(p)' /\ \A q \in Pages \ {p} : Operates(q)' <=> Operates(q)
  BY <1>3, <1>4 DEF Inv, Reported, Operates, Operations
<1>10. dialog'.phase = "form" => dialog' = dialog
  BY <1>1 DEF Becomes, Dialogs
<1>11. Reported'
  BY <1>4, <1>9, <1>10 DEF Inv, Reported, Operates
<1>12. Counted'
  BY <1>3, <1>4, <1>10 DEF Inv, Counted, key
<1>13. Announced'
  BY DEF Inv, Announced, keyVars
<1>14. ~LostAnswers => LockKeyIsKnown'
  <2> SUFFICES ASSUME ~LostAnswers, NEW k \in Keys, lock[k] # 0, lock[k] \notin known'
               PROVE  \E q \in Pages : task'[q] # NoTask /\ task'[q].op = "enable" /\ task'[q].out = lock[k]
    BY DEF LockKeyIsKnown, key
  <2>1. PICK q \in Pages : task[q] # NoTask /\ task[q].op = "enable" /\ task[q].out = lock[k]
    BY DEF Inv, LockKeyIsKnown
  <2>2. q # p
    BY <1>1, <2>1 DEF Carried, Fits
  <2> QED BY <1>4, <2>1, <2>2
<1> QED BY <1>4, <1>7, <1>8, <1>11, <1>12, <1>13, <1>14

\* A status lands: it is of the key in the port.
LEMMA LandLoadKeeps ==
  ASSUME Assumptions, Inv, NEW p \in Pages, LandLoad(p)
  PROVE  Inv'
<1>1. /\ task[p] # NoTask /\ task[p].op = "load" /\ task[p].stage \in {"ok", "error"} /\ Fits(p, task[p])
      /\ UNCHANGED <<keyVars, key, inputs, phrase, dialog, known>> /\ Rests(p)
  BY DEF LandLoad, Landing, Inv, Typed
<1>2. status \in [Pages -> Statuses]
  BY DEF Inv, Typed, TypeOK, Statuses
<1>3. /\ status' \in [Pages -> Statuses] /\ \A q \in Pages \ {p} : status'[q] = status[q]
      /\ task[p].stage = "ok" => status'[p] = task[p].out
      /\ task[p].stage # "ok" => status'[p] = status[p]
  BY <1>1, <1>2 DEF LandLoad, Fits
<1>4. /\ Typed' /\ LoadingIsTask' /\ Reported' /\ Counted' /\ Announced' /\ (~LostAnswers => LockKeyIsKnown')
      /\ \A q \in Pages \ {p} : task'[q] = task[q]
  <2>1. phrase \in [Pages -> LockKeys \cup Keys] /\ known \subseteq LockKeys /\ ~Carried(p)
    BY <1>1 DEF Inv, Typed, TypeOK, Carried
  <2> QED BY <1>1, <1>3, <2>1, LandKeeps
<1>5. task'[p] = NoTask
  BY <1>1 DEF Rests, Inv, Typed
<1>6. Calm => Own'
  BY <1>1, <1>3, <1>4, <1>5 DEF Inv, Own, HasChannel, Settled, keyVars, Announced
<1>7. Calm /\ ~LostAnswers => OwnPhrase'
  <2>1. \A q \in Pages : Carried(q)' <=> Carried(q)
    BY <1>1, <1>4, <1>5 DEF Carried
  <2> QED BY <1>1, <1>4, <2>1 DEF Inv, OwnPhrase, Settled, keyVars, key, Carried
<1>8. Alone => Current'
  <2> SUFFICES ASSUME Alone PROVE Current'
    OBVIOUS
  <2>1. Current /\ Own /\ Announced
    BY DEF Inv, Alone
  <2>2. \A q \in Pages : q = p
    BY DEF Alone
  <2>3. ASSUME Settled, status'[p].key = shown PROVE status'[p].holds = Holds(p, shown)
    <3>1. shown = plugged /\ task[p].stage = "ok"
      BY <1>1, <2>1, <2>3 DEF Settled, Announced, Current
    <3> QED BY <1>1, <1>3, <2>1, <3>1 DEF Current
  <2> QED BY <1>1, <1>5, <2>2, <2>3 DEF Current, Settled, keyVars, key, Holds
<1> QED BY <1>4, <1>6, <1>7, <1>8 DEF Inv

\* What lands with a report.
LEMMA LandOperationKeeps ==
  ASSUME Assumptions, Inv, NEW p \in Pages, Operates(p), task[p].stage \in {"ok", "error", "refused"},
         UNCHANGED <<keyVars, key, inputs, status>>,
         IF task[p].stage = "ok" THEN Reload(p) ELSE Rests(p),
         \E phase \in {"success", "error"} : Becomes(phase),
         IF task[p].stage = "ok" /\ task[p].op \in {"enable", "export"}
           THEN /\ phrase' = [phrase EXCEPT ![p] = task[p].out]
                /\ known' = IF p = "lock" THEN known \cup {phrase'[p]} ELSE known
           ELSE UNCHANGED <<phrase, known>>
  PROVE  Inv'
<1>1. task[p] # NoTask /\ task[p].op \in Operations /\ task[p].op # "choose" /\ Fits(p, task[p])
  BY DEF Operates, Operations, Inv, Typed
<1>2. /\ phrase \in [Pages -> LockKeys \cup Keys] /\ known \subseteq LockKeys /\ status \in [Pages -> Statuses]
  BY DEF Inv, Typed, TypeOK, Statuses
<1>3. /\ task[p].op \in {"enable", "disable"} => p = "lock"
      /\ task[p].op = "export" => p # "lock"
  BY <1>1, Names DEF Fits, Assumptions
<1>4. /\ phrase' \in [Pages -> LockKeys \cup Keys] /\ \A q \in Pages \ {p} : phrase'[q] = phrase[q]
      /\ Carried(p) => phrase'[p] = task[p].out /\ task[p].out \in known'
      /\ p = "lock" /\ ~Carried(p) => phrase'[p] = phrase[p]
      /\ known \subseteq known' /\ known' \subseteq LockKeys
  <2>1. CASE task[p].stage = "ok" /\ task[p].op \in {"enable", "export"}
    <3>1. task[p].out \in LockKeys \cup Keys /\ (p = "lock" => task[p].out \in LockKeys)
      BY <1>1, <1>3, <2>1 DEF Fits
    <3>2. phrase' = [phrase EXCEPT ![p] = task[p].out] /\ phrase'[p] = task[p].out
      BY <1>2, <2>1
    <3>3. CASE p = "lock"
      <4>1. known' = known \cup {task[p].out}
        BY <2>1, <3>2, <3>3
      <4> QED BY <1>1, <1>2, <1>3, <2>1, <3>1, <3>2, <3>3, <4>1 DEF Carried
    <3>4. CASE p # "lock"
      BY <1>1, <1>2, <1>3, <2>1, <3>1, <3>2, <3>4 DEF Carried
    <3> QED BY <3>3, <3>4
  <2>2. CASE ~(task[p].stage = "ok" /\ task[p].op \in {"enable", "export"})
    BY <1>2, <2>2 DEF Carried
  <2> QED BY <2>1, <2>2
<1>5. /\ Typed' /\ LoadingIsTask' /\ Reported' /\ Counted' /\ Announced' /\ (~LostAnswers => LockKeyIsKnown')
      /\ \A q \in Pages \ {p} : task'[q] = task[q]
      /\ task'[p] = NoTask \/ task'[p] = Task("load", 0)
  BY <1>1, <1>2, <1>4, LandKeeps
<1>6. /\ Task("load", 0) # NoTask /\ Task("load", 0).op = "load" /\ Task("load", 0).stage = "start"
  BY LoadFacts
<1>7. Calm => Own'
  BY <1>5, <1>6 DEF Inv, Own, HasChannel, Settled, keyVars
<1>8. Calm /\ ~LostAnswers => OwnPhrase'
  <2> SUFFICES ASSUME Calm, ~LostAnswers PROVE OwnPhrase'
    OBVIOUS
  <2>1. OwnPhrase /\ Announced
    BY DEF Inv
  <2>2. \A q \in Pages : Carried(q)' => Carried(q) /\ q # p
    BY <1>5, <1>6 DEF Carried
  <2>3. \A q \in Pages \ {p} : Carried(q) => Carried(q)'
    BY <1>5 DEF Carried
  <2>4. \A q \in Pages : Carried(q)' => task'[q].out = lock'[plugged']
    BY <1>5, <2>1, <2>2 DEF OwnPhrase, keyVars, key
  <2>5. ASSUME Settled, "lock" \in Pages, phrase'["lock"] # 0
        PROVE  lock[shown] \in {0, phrase'["lock"]} \/ Carried("lock")'
    <3>1. CASE p = "lock" /\ Carried(p)
      BY <1>4, <2>1, <2>5, <3>1 DEF OwnPhrase, Settled, Announced
    <3>2. CASE p = "lock" /\ ~Carried(p)
      BY <1>4, <2>1, <2>5, <3>2 DEF OwnPhrase
    <3>3. CASE p # "lock"
      BY <1>4, <2>1, <2>3, <2>5, <3>3 DEF OwnPhrase
    <3> QED BY <3>1, <3>2, <3>3
  <2> QED BY <2>4, <2>5 DEF OwnPhrase, Settled, keyVars, key
<1>9. Alone => Current'
  <2> SUFFICES ASSUME Alone PROVE Current'
    OBVIOUS
  <2>1. Current
    BY DEF Inv
  <2>2. \A q \in Pages : q = p
    BY DEF Alone
  <2>3. CASE task[p].stage = "ok"
    <3>1. shown # NoKey => Due(p)'
      BY <1>1, <1>5, <1>6, <2>3 DEF Due, Reload, Inv, Typed
    <3> QED BY <1>5, <1>6, <2>2, <3>1 DEF Current, Settled, keyVars
  <2>4. CASE task[p].stage # "ok"
    <3>1. ~Due(p)
      BY <1>1, <2>4 DEF Due, Operations
    <3> QED BY <1>5, <1>6, <2>1, <2>2, <3>1 DEF Current, Settled, keyVars, key, Holds
  <2> QED BY <2>3, <2>4
<1> QED BY <1>5, <1>7, <1>8, <1>9 DEF Inv

\* Every task that ends.
LEMMA LandsKeeps ==
  ASSUME Assumptions, Inv, NEW p \in Pages, Land(p)
  PROVE  Inv'
<1>1. CASE LandPhrase(p)
  <2>1. Operates(p)
    BY <1>1 DEF LandPhrase, At, Operates, Operations
  <2> QED BY <1>1, <2>1, LandOperationKeeps DEF LandPhrase, Landing, At
<1>2. CASE LandUnit(p)
  <2>1. Operates(p) /\ task[p].op \notin {"enable", "export"}
    BY <1>2 DEF LandUnit, At, Operates, Operations, Units
  <2> QED BY <1>2, <2>1, LandOperationKeeps DEF LandUnit, Landing, At
<1>3. CASE LandError(p)
  <2>1. Operates(p) /\ task[p].stage # "ok"
    BY <1>3 DEF LandError, Operates, Inv, Typed, Fits, Tasks
  <2> QED BY <1>3, <2>1, LandOperationKeeps DEF LandError, Landing
<1> QED BY <1>1, <1>2, <1>3, LandLoadKeeps DEF Land

\* Each step keeps the invariant.
LEMMA StepInv ==
  ASSUME Assumptions, Inv, [Next]_vars
  PROVE  Inv'
<1>1. CASE UNCHANGED vars
  BY <1>1 DEF vars, keyVars, key, page, Inv, Typed, TypeOK, KeyTypeOK, LoadingIsTask, Choosing, Reported, Operates,
     Counted, Announced, LockKeyIsKnown, Own, HasChannel, OwnPhrase, Carried, Current, Holds, Due, Settled
<1> QED BY <1>1, OpenKeeps, OpenImportKeeps, ChooseKeeps, CloseKeeps, RefreshKeeps, ClearKeeps, ConfirmKeeps,
  EventKeeps, MoveKeeps, OperationKeeps, LandsKeeps DEF Next, User, Background, Lands

LEMMA Invariance == ASSUME Assumptions PROVE Spec => []Inv
BY InitInv, StepInv, PTL DEF Spec

-----------------------------------------------------------------------------
\* Locks, seeds, chains and tasks keep their types; no seed lies open in RAM on a
\* key whose lock is off.
THEOREM Typing == ASSUME Assumptions PROVE Spec => []TypeOK
<1>1. Inv => TypeOK
  BY DEF Inv, Typed
<1> QED BY <1>1, Invariance, PTL

\* Each page says that it loads exactly while its one task runs, over any keys and
\* however they are moved (load, on_event and the file chooser of the three pages).
THEOREM PagesLoadWhileBusy == ASSUME Assumptions PROVE Spec => []LoadingIsTask
<1>1. Inv => LoadingIsTask
  BY DEF Inv
<1> QED BY <1>1, Invariance, PTL

\* Where a done operation is reported as done, the key of every engaged lock was on
\* the screen or is about to be, also when keys are swapped in the middle of
\* lock_enable(): no event drops the task that carries it.
THEOREM NoLockKeyIsLost == ASSUME Assumptions, ~LostAnswers PROVE Spec => []LockKeyIsKnown
<1>1. Inv => LockKeyIsKnown
  BY DEF Inv
<1> QED BY <1>1, Invariance, PTL

\* Keys that are moved at rest: no page shows the status of a key that is not the
\* one shown, whatever reads fail.
THEOREM StatusIsOfShownKey == ASSUME Assumptions, Calm PROVE Spec => []StatusIsItsOwn
<1>1. Inv => StatusIsItsOwn
  BY DEF Inv, Own, Settled, StatusIsItsOwn
<1> QED BY <1>1, Invariance, PTL

\* Nor, with answers that arrive, the phrase of another key's lock.
THEOREM PhraseIsOfShownKey == ASSUME Assumptions, Calm, ~LostAnswers PROVE Spec => []LockKeyIsItsOwn
<1>1. Inv => LockKeyIsItsOwn
  BY DEF Inv, OwnPhrase, Settled, LockKeyIsItsOwn, Idle, Carried
<1> QED BY <1>1, Invariance, PTL

\* A page that is open alone, over keys that answer, shows what the key holds:
\* every operation that reports success has the status read again.
THEOREM StatusIsRead == ASSUME Assumptions, Alone PROVE Spec => []StatusIsCurrent
<1>1. Inv => StatusIsCurrent
  <2>1. Idle => \A p \in Pages : ~Due(p)
    BY DEF Idle, Due
  <2> QED BY <2>1 DEF Inv, Current, Settled, StatusIsCurrent
<1> QED BY <1>1, Invariance, PTL

\* lock_disable() refuses no key's own lock key, whatever state an earlier attempt,
\* an unlock or a restart left the seed in.
THEOREM OwnKeyIsTaken == ASSUME Assumptions PROVE Spec => [][OwnKeyDisables]_vars
<1>1. Inv /\ [Next]_vars => [OwnKeyDisables]_vars
  <2> SUFFICES ASSUME Inv, Next, NEW p \in Pages, HasChannel(p), task[p].op = "disable",
                      plugged = task[p].key, task[p].with = lock[plugged]
               PROVE  task'[p].stage # "refused"
    BY DEF OwnKeyDisables
  <2>1. /\ task \in [Pages -> Tasks \cup {NoTask}] /\ loading \in [Pages -> BOOLEAN]
        /\ task[p] # NoTask /\ task[p].stage \in {"open", "second"} /\ loading[p]
    BY DEF HasChannel, Inv, Typed, TypeOK, LoadingIsTask, Choosing
  <2>2. ASSUME NEW ps \in SUBSET Pages, Loads(ps) PROVE task'[p] = task[p]
    BY <2>1, <2>2, LoadsFacts DEF Inv
  <2>3. CASE User
    <3>1. CASE Refresh
      BY <2>1, <2>2, <3>1 DEF Refresh
    <3>2. CASE OpenImport \/ Choose \/ Confirm
      BY <2>1, <3>2 DEF OpenImport, Choose, Choosing, Confirm, Offered
    <3>3. CASE Open \/ Close \/ Clear
      BY <2>1, <3>3 DEF Open, Close, Clear, page
    <3> QED BY <2>3, <3>1, <3>2, <3>3 DEF User
  <2>4. CASE OnDeviceEvent
    BY <2>1, <2>2, <2>4 DEF OnDeviceEvent
  <2>5. CASE Move
    BY <2>1, <2>5 DEF Move, page
  <2>6. ASSUME NEW q \in Pages, Operation(q) PROVE task'[p].stage # "refused"
    <3>1. CASE q # p
      BY <2>1, <2>6, <3>1 DEF Operation, OpenChannel, Fail, BackupStatus, AttStatus, ReadStatus, LockEnable, LockUnlock,
         DisableUnlocks, LockDisable, BackupExport, BackupFinalize, BackupRestore, AttImport, AttClear, Ends, Stage
    <3>2. CASE q = p
      <4>1. Fail(p) \/ DisableUnlocks(p) \/ LockDisable(p)
        BY <2>1, <2>6, <3>2 DEF Operation, OpenChannel, BackupStatus, AttStatus, LockEnable, LockUnlock, Works, At,
           BackupExport, BackupFinalize, BackupRestore, AttImport, AttClear
      <4>2. \E s \in {"error", "second", "ok"} : Stage(p, s)
        BY <4>1 DEF Fail, DisableUnlocks, LockDisable, Ends, Tolerated
      <4> QED BY <2>1, <4>2 DEF Stage, Tasks
    <3> QED BY <3>1, <3>2
  <2>7. ASSUME NEW q \in Pages, Land(q) PROVE task'[p] = task[p]
    BY <2>1, <2>7 DEF Land, LandLoad, LandPhrase, LandUnit, LandError, At, Rests, Reload
  <2> QED BY <2>1, <2>3, <2>4, <2>5, <2>6, <2>7 DEF Next, Background, Lands
<1> QED BY <1>1, Invariance, PTL DEF Spec

-----------------------------------------------------------------------------
\* The Passkeys page, over the same keys.
CONSTANTS Ops, Patient
VARIABLES pin, version, cached, list, repoLoading, infoTask, doubt, wasted, unread, erased, asked

Pass == INSTANCE Passkeys

PassTasks ==
  [op : Pass!AllOps \cup {"refresh", "choose", "save"}, stage : {"start", "gone", "back", "second"},
   res : {"running", "ok", "error"}, with : Pass!Pins, list : Pass!Lists, key : Pass!Sockets]
PassDialogs ==
  [phase : {"closed", "input", "working", "success", "error"}, op : Pass!AllOps \cup {"none"}, with : Pass!Pins,
   orphan : BOOLEAN]

PassAssumptions == Pass!KeysAssumption /\ Pass!PasskeysAssumption /\ NoTask \notin PassTasks

\* The task under way is one of `ops`, and it was carried out.
PassDoes(ops) == task # NoTask /\ task.op \in ops
PassDone(ops) == PassDoes(ops) /\ task.res = "ok"
\* The operations that give a key a PIN.
PassNewPins == {"setup", "change", "minchange"}

\* A task of the view has its flag; what it has when it was carried out, and what an
\* unlocked view holds.
PassFits ==
  /\ PassDoes(Pass!AllOps \cup {"refresh"}) => loading
  /\ PassDoes({"choose", "save"}) => "upload" \in Ops /\ task.res = "running"
  /\ PassDone({"unlock", "refresh"}) => task.with.key \in Keys /\ task.list.key \in Keys
  /\ PassDone(PassNewPins) => task.with.key \in Keys
  /\ unlocked => cached.key \in Keys /\ list.key \in Keys
  /\ dialog.phase \in {"input", "working"} => dialog.op \in Pass!AllOps

PassTypes == Pass!TypeOK /\ (task = NoTask \/ task \in PassTasks) /\ dialog \in PassDialogs /\ PassFits

\* What the repository shows is in the port, or the keys moved since it was read.
PassAnnounced == ~stirred => shown \in {NoKey, plugged}

\* A key that was moved in unannounced: no reset has seen the port change since.
PassStray(k) == stirred /\ plugged = k /\ (PassDoes({"reset"}) => task.stage = "start" /\ task.key = plugged)

\* A list, shown or read, is of the key that is shown, or of one that is not yet.
PassOwnList ==
  /\ unlocked /\ shown # NoKey => list.key = shown \/ PassStray(list.key)
  /\ PassDone({"unlock", "refresh"}) /\ shown # NoKey => task.list.key = shown \/ PassStray(task.list.key)

\* No file chooser takes the place of a task.
PassCareful == Patient \/ "upload" \notin Ops

\* A list that no longer holds is about to be read again, or cleared.
PassPending == PassDone({"delete", "reset"}) \/ PassDoes({"refresh"})

\* A list is what its key holds, or is about to be read again.
PassCurrent ==
  /\ PassDone({"unlock", "refresh"}) => task.list.version = version[task.list.key]
  /\ unlocked /\ ~unread /\ ~doubt => list.version = version[list.key] \/ PassPending

\* The dialog of an operation under way stays as it is.
PassWaiting == PassDoes(Pass!AllOps) => dialog.phase = "working"

\* A reset goes on only with the key that was there when it was confirmed.
PassResetsAsked ==
  PassDoes({"reset"}) =>
    /\ task.key \in asked \cup {NoKey}
    /\ task.stage = "back" => plugged = task.key /\ plugged # NoKey

\* Whether a PIN opens the key it is of; and whether that key is the one in the port.
PassOpening(c) == c.pin = pin[c.key]

PassNear(c) == plugged \in Keys => c.key = plugged

\* The kept PIN, and the one a task has: of which key it is, and that it opens it.
PassKept ==
  /\ PassDone({"unlock"} \cup PassNewPins) => task.with.key = plugged /\ PassOpening(task.with)
  /\ unlocked /\ shown # NoKey => cached.key = shown \/ PassStray(cached.key)
  /\ unlocked /\ (~stirred \/ infoTask) => PassNear(cached)
  /\ unlocked /\ ~doubt => PassOpening(cached) \/ PassDone(PassNewPins \cup {"reset"})
  /\ dialog.phase = "input" /\ dialog.op = "delete" => unlocked /\ dialog.with = cached
  /\ PassDoes({"delete"}) => unlocked /\ task.with = cached
  /\ PassDone({"delete"}) => PassNear(cached)
  /\ PassDoes({"min", "ea"}) /\ unlocked /\ task.with.key \in Keys => cached.key \in {task.with.key, plugged}
  /\ PassDone({"min", "ea"}) => task.with.key = plugged
  /\ PassDoes({"refresh"}) => PassNear(task.with)
  /\ PassDoes({"refresh"}) /\ task.res = "running" /\ ~doubt => task.with.key \in Keys /\ PassOpening(task.with)

\* What the theorems rest on, each part under the hypotheses it needs.
PassInv ==
  /\ PassTypes /\ PassAnnounced /\ PassOwnList
  /\ PassCareful => Pass!LoadingIsTask /\ PassCurrent
  /\ Calm => PassWaiting /\ ~dialog.orphan /\ PassResetsAsked /\ Pass!ErasesItsKey
  /\ Calm /\ Patient => Pass!DialogsAnswered
  /\ Calm => Pass!RepoReleased /\ PassKept /\ Pass!KeptPinOpens
-----------------------------------------------------------------------------
\* Nothing is of the types it stands in for.
LEMMA PassConstants ==
  ASSUME PassAssumptions
  PROVE  /\ Pass!NoPin \in Pass!Pins /\ Pass!NoPin.key = NoKey /\ Pass!NoPin.pin = 0
         /\ Pass!Nothing \in Pass!Lists /\ Pass!Nothing.key = NoKey
         /\ Pass!Closed \in PassDialogs /\ Pass!Closed.phase = "closed" /\ Pass!Closed.op = "none"
         /\ ~Pass!Closed.orphan
         /\ NoKey \notin Keys /\ MaxInputs \in Nat /\ 0 \in 0..MaxInputs /\ 1 \in 0..MaxInputs
<1>1. MaxInputs \in Nat /\ 0 \in 0..MaxInputs /\ 1 \in 0..MaxInputs
  BY DEF PassAssumptions, Pass!PasskeysAssumption
<1>2. NoKey \in Pass!Sockets
  BY DEF Pass!Sockets
<1>3. Pass!NoPin \in Pass!Pins /\ Pass!Nothing \in Pass!Lists
  BY <1>1, <1>2 DEF Pass!NoPin, Pass!Pins, Pass!Nothing, Pass!Lists
<1>4. Pass!Closed \in PassDialogs
  BY <1>3 DEF Pass!Closed, PassDialogs
<1> QED BY <1>1, <1>3, <1>4 DEF Pass!NoPin, Pass!Nothing, Pass!Closed, PassAssumptions, Pass!KeysAssumption

\* A task that begins.
LEMMA PassTaskFacts ==
  ASSUME PassAssumptions, Pass!KeyTypeOK, NEW what \in Pass!AllOps \cup {"refresh", "choose", "save"},
         NEW with \in Pass!Pins
  PROVE  /\ Pass!Task(what, with) \in PassTasks /\ Pass!Task(what, with) # NoTask
         /\ Pass!Task(what, with).op = what /\ Pass!Task(what, with).stage = "start"
         /\ Pass!Task(what, with).res = "running"
         /\ Pass!Task(what, with).with = with /\ Pass!Task(what, with).key = plugged
<1>1. Pass!Task(what, with) \in PassTasks
  BY PassConstants DEF Pass!Task, PassTasks, Pass!KeyTypeOK
<1> QED BY <1>1 DEF Pass!Task, PassAssumptions

\* What a state says of its task.
LEMMA PassTypeFacts ==
  ASSUME PassAssumptions, PassTypes
  PROVE  /\ Pass!KeyTypeOK /\ plugged \in Pass!Sockets /\ shown \in Pass!Sockets
         /\ pin \in [Keys -> 0..MaxInputs] /\ version \in [Keys -> 0..MaxInputs]
         /\ unlocked \in BOOLEAN /\ cached \in Pass!Pins /\ list \in Pass!Lists /\ loading \in BOOLEAN
         /\ repoLoading \in BOOLEAN /\ infoTask \in BOOLEAN /\ dialog \in PassDialogs /\ dialog.orphan \in BOOLEAN
         /\ dialog.with \in Pass!Pins /\ dialog.op \in Pass!AllOps \cup {"none"}
         /\ erased \subseteq Keys /\ asked \subseteq Keys /\ inputs \in 0..MaxInputs
         /\ task # NoTask =>
              /\ task \in PassTasks /\ task.op \in Pass!AllOps \cup {"refresh", "choose", "save"}
              /\ task.stage \in {"start", "gone", "back", "second"} /\ task.res \in {"running", "ok", "error"}
              /\ task.with \in Pass!Pins /\ task.list \in Pass!Lists /\ task.key \in Pass!Sockets
<1>1. Pass!KeyTypeOK
  BY DEF PassTypes, Pass!TypeOK
<1>2. plugged \in Pass!Sockets /\ shown \in Pass!Sockets
  BY <1>1 DEF Pass!KeyTypeOK
<1>3. dialog.orphan \in BOOLEAN /\ dialog.with \in Pass!Pins /\ dialog.op \in Pass!AllOps \cup {"none"}
  BY DEF PassTypes, PassDialogs
<1>4. task # NoTask =>
        /\ task \in PassTasks /\ task.op \in Pass!AllOps \cup {"refresh", "choose", "save"}
        /\ task.stage \in {"start", "gone", "back", "second"} /\ task.res \in {"running", "ok", "error"}
        /\ task.with \in Pass!Pins /\ task.list \in Pass!Lists /\ task.key \in Pass!Sockets
  BY DEF PassTypes, PassTasks
<1> QED BY <1>1, <1>2, <1>3, <1>4 DEF PassTypes, Pass!TypeOK

\* The types after a step, from those of what it changed.
LEMMA PassTypesFrom ==
  ASSUME PassAssumptions, Pass!KeyTypeOK',
         pin' \in [Keys -> 0..MaxInputs], version' \in [Keys -> 0..MaxInputs],
         unlocked' \in BOOLEAN, cached' \in Pass!Pins, list' \in Pass!Lists, loading' \in BOOLEAN,
         repoLoading' \in BOOLEAN, infoTask' \in BOOLEAN, dialog' \in PassDialogs,
         erased' \subseteq Keys, asked' \subseteq Keys, inputs' \in 0..MaxInputs,
         task' = NoTask \/ task' \in PassTasks, PassFits'
  PROVE  PassTypes'
<1>1. dialog'.phase \in {"closed", "input", "working", "success", "error"} /\ dialog'.with \in Pass!Pins
  BY DEF PassDialogs
<1>2. unlocked' => cached' # Pass!NoPin /\ list' # Pass!Nothing
  BY PassConstants DEF PassFits
<1>3. task' # NoTask => /\ task'.op \in Pass!AllOps \cup {"refresh", "choose", "save"}
                        /\ task'.stage \in {"start", "gone", "back", "second"}
                        /\ task'.res \in {"running", "ok", "error"}
  BY DEF PassTasks
<1> QED BY <1>1, <1>2, <1>3 DEF PassTypes, Pass!TypeOK

\* Every initial state satisfies the invariant.
LEMMA PassInitInv ==
  ASSUME PassAssumptions, Pass!Init
  PROVE  PassInv
<1>1. Pass!KeyTypeOK /\ PassAnnounced
  BY DEF Pass!Init, Pass!KeyInit, Pass!KeyTypeOK, Pass!Sockets, PassAnnounced
<1>2. PassFits
  BY PassConstants DEF Pass!Init, PassFits, PassDoes, PassDone
<1>3. PassTypes
  <2>1. pin \in [Keys -> 0..MaxInputs] /\ version \in [Keys -> 0..MaxInputs]
    <3>1. pin \in [Keys -> 0..1] /\ version = [k \in Keys |-> 0]
      BY DEF Pass!Init
    <3>2. 0..1 \subseteq 0..MaxInputs /\ 0 \in 0..MaxInputs
      BY DEF PassAssumptions, Pass!PasskeysAssumption
    <3> QED BY <3>1, <3>2
  <2> QED BY <1>1, <1>2, <2>1, PassConstants DEF Pass!Init, PassTypes, Pass!TypeOK, Pass!Closed
<1>4. PassOwnList /\ PassCurrent /\ Pass!LoadingIsTask /\ PassWaiting /\ PassResetsAsked /\ Pass!ErasesItsKey
      /\ Pass!DialogsAnswered
      /\ Pass!RepoReleased /\ Pass!KeptPinOpens /\ ~dialog.orphan
  BY PassConstants DEF Pass!Init, PassOwnList, PassCurrent, Pass!LoadingIsTask, PassWaiting, PassResetsAsked,
     Pass!ErasesItsKey, Pass!DialogsAnswered,
     Pass!RepoReleased, Pass!KeptPinOpens, PassDoes, PassDone
<1>5. PassKept
  BY PassConstants DEF Pass!Init, PassKept, PassDoes, PassDone
<1> QED BY <1>1, <1>3, <1>4, <1>5 DEF PassInv

-----------------------------------------------------------------------------
\* The user.

\* A view that is locked says nothing, and was at rest.
LEMMA PassLockKeeps ==
  ASSUME PassAssumptions, PassInv, Pass!Lock
  PROVE  PassInv'
<1>1. /\ dialog = Pass!Closed /\ unlocked' = FALSE /\ cached' = Pass!NoPin /\ list' = Pass!Nothing
      /\ UNCHANGED <<Pass!keyVars, Pass!card, repoLoading, infoTask, doubt, wasted, unread, erased>>
      /\ UNCHANGED <<loading, task, dialog, asked, inputs>>
  BY DEF Pass!Lock, Pass!Rest
<1>2. UNCHANGED <<plugged, shown, deviceChanged, stirred, pin, version>>
  BY <1>1 DEF Pass!keyVars, Pass!card
<1>3. PassTypes'
  <2>1. PassFits'
    BY <1>1 DEF PassInv, PassTypes, PassFits, PassDoes, PassDone
  <2> QED BY <1>1, <1>2, <2>1, PassTypeFacts, PassTypesFrom, PassConstants DEF PassInv, PassTypes, Pass!KeyTypeOK
<1>4. PassAnnounced' /\ PassOwnList'
  BY <1>1, <1>2 DEF PassInv, PassAnnounced, PassOwnList, PassDone, PassDoes, PassStray
<1>5. (PassCareful => Pass!LoadingIsTask /\ PassCurrent) => (PassCareful => Pass!LoadingIsTask' /\ PassCurrent')
  BY <1>1, <1>2 DEF Pass!LoadingIsTask, PassCurrent, PassDone, PassDoes
<1>6. Calm => PassWaiting' /\ ~dialog'.orphan /\ PassResetsAsked' /\ Pass!ErasesItsKey'
  BY <1>1, <1>2 DEF PassInv, PassWaiting, PassResetsAsked, Pass!ErasesItsKey, PassDoes
<1>7. Calm /\ Patient => Pass!DialogsAnswered'
  BY <1>1, <1>2 DEF PassInv, Pass!DialogsAnswered
<1>8. Calm => Pass!RepoReleased' /\ PassKept' /\ Pass!KeptPinOpens'
  <2> SUFFICES ASSUME Calm PROVE Pass!RepoReleased' /\ PassKept' /\ Pass!KeptPinOpens'
    OBVIOUS
  <2>1. Pass!RepoReleased' /\ Pass!KeptPinOpens'
    BY <1>1, <1>2 DEF PassInv, Pass!RepoReleased, Pass!KeptPinOpens
  <2>2. ~PassDoes(Pass!AllOps) /\ dialog.phase = "closed"
    BY <1>1, PassConstants DEF PassInv, PassWaiting
  <2>3. PassKept'
    BY <1>1, <1>2, <2>2 DEF PassInv, PassKept, PassDoes, PassDone, PassOpening, PassNear, Pass!AllOps, PassNewPins
  <2> QED BY <2>1, <2>3
<1> QED BY <1>3, <1>4, <1>5, <1>6, <1>7, <1>8 DEF PassInv

\* What only opens or closes a dialog.
LEMMA PassDialogKeeps ==
  ASSUME PassAssumptions, PassInv, dialog' \in PassDialogs, inputs' \in 0..MaxInputs,
         dialog.phase # "working", dialog'.phase # "working", ~dialog'.orphan \/ dialog.orphan,
         dialog'.phase = "input" => dialog'.op \in Pass!AllOps,
         dialog'.phase = "input" /\ dialog'.op = "delete" =>
           \/ unlocked /\ dialog'.with = cached
           \/ dialog.phase = "input" /\ dialog.op = "delete" /\ dialog'.with = dialog.with,
         UNCHANGED <<Pass!keyVars, Pass!card, Pass!view, repoLoading, infoTask, Pass!history>>
  PROVE  PassInv'
<1>1. /\ UNCHANGED <<plugged, shown, deviceChanged, stirred, pin, version>>
      /\ UNCHANGED <<unlocked, cached, list, loading, task, repoLoading, infoTask>>
      /\ UNCHANGED <<doubt, wasted, unread, erased, asked>>
  BY DEF Pass!keyVars, Pass!card, Pass!view, Pass!history
<1>2. PassTypes'
  <2>1. PassFits'
    BY <1>1 DEF PassInv, PassTypes, PassFits, PassDoes, PassDone
  <2> QED BY <1>1, <2>1, PassTypeFacts, PassTypesFrom, PassConstants DEF PassInv, PassTypes, Pass!KeyTypeOK
<1>3. PassAnnounced' /\ PassOwnList'
  BY <1>1 DEF PassInv, PassAnnounced, PassOwnList, PassDone, PassDoes, PassStray
<1>4. (PassCareful => Pass!LoadingIsTask /\ PassCurrent) => (PassCareful => Pass!LoadingIsTask' /\ PassCurrent')
  BY <1>1 DEF Pass!LoadingIsTask, PassCurrent, PassDone, PassDoes, PassPending
<1>5. Calm => PassWaiting' /\ ~dialog'.orphan /\ PassResetsAsked' /\ Pass!ErasesItsKey'
  BY <1>1 DEF PassInv, PassWaiting, PassResetsAsked, Pass!ErasesItsKey, PassDoes
<1>6. Calm /\ Patient => Pass!DialogsAnswered'
  BY <1>1 DEF Pass!DialogsAnswered
<1>7. Calm => Pass!RepoReleased' /\ Pass!KeptPinOpens'
  BY <1>1 DEF PassInv, Pass!RepoReleased, Pass!KeptPinOpens
<1>8. Calm => PassKept'
  BY <1>1 DEF PassInv, PassKept, PassDoes, PassDone, PassOpening, PassNear, PassStray
<1> QED BY <1>2, <1>3, <1>4, <1>5, <1>6, <1>7, <1>8 DEF PassInv

\* A dialog opens over a view that goes on as it was.
LEMMA PassOpenKeeps ==
  ASSUME PassAssumptions, PassInv, Pass!Open
  PROVE  PassInv'
<1>1. PICK op \in Ops \ {"upload", "csr"} :
        /\ op = "delete" => unlocked
        /\ dialog' = [phase |-> "input", op |-> op, orphan |-> FALSE,
                      with |-> IF op = "delete" THEN cached ELSE Pass!NoPin]
  BY DEF Pass!Open
<1>2. op \in Pass!AllOps /\ cached \in Pass!Pins /\ Pass!NoPin \in Pass!Pins
  BY PassTypeFacts, PassConstants DEF PassAssumptions, Pass!PasskeysAssumption, PassInv
<1>3. /\ dialog' \in PassDialogs /\ dialog'.phase = "input" /\ dialog'.op = op /\ ~dialog'.orphan
      /\ op = "delete" => dialog'.with = cached
  BY <1>1, <1>2 DEF PassDialogs
<1>4. dialog.phase = "closed"
  BY PassConstants DEF Pass!Open
<1>5. inputs' \in 0..MaxInputs
  BY PassTypeFacts, PassConstants DEF Pass!Open, PassInv
<1>6. UNCHANGED <<Pass!keyVars, Pass!card, Pass!view, repoLoading, infoTask, Pass!history>>
  BY DEF Pass!Open, Pass!Rest, Pass!history
<1> QED BY <1>1, <1>2, <1>3, <1>4, <1>5, <1>6, PassDialogKeeps

\* A dialog is closed, and nothing with it.
LEMMA PassCancelKeeps ==
  ASSUME PassAssumptions, PassInv, Pass!Cancel
  PROVE  PassInv'
<1>1. /\ dialog' \in PassDialogs /\ dialog'.phase = "closed" /\ ~dialog'.orphan
      /\ dialog.phase # "working" /\ inputs' = inputs
  BY PassConstants DEF Pass!Cancel
<1>2. inputs' \in 0..MaxInputs
  BY <1>1, PassTypeFacts DEF PassInv
<1>3. UNCHANGED <<Pass!keyVars, Pass!card, Pass!view, repoLoading, infoTask, Pass!history>>
  BY DEF Pass!Cancel, Pass!Rest, Pass!history
<1> QED BY <1>1, <1>2, <1>3, PassDialogKeeps

\* A view that loads has its task, and none that a new one would replace.
LEMMA PassFree ==
  ASSUME PassInv, ~loading
  PROVE  ~PassDoes(Pass!AllOps \cup {"refresh"}) /\ ~PassDoes({"delete", "reset"}) /\ ~PassDoes({"refresh"})
         /\ ~PassDoes({"reset"})
         /\ ~PassDoes(PassNewPins \cup {"reset"}) /\ (Calm => ~repoLoading)
<1>1. ~PassDoes(Pass!AllOps \cup {"refresh"})
  BY DEF PassInv, PassTypes, PassFits
<1>2. Calm => ~repoLoading
  BY <1>1 DEF PassInv, Pass!RepoReleased, PassDoes, Pass!AllOps
<1> QED BY <1>1, <1>2 DEF PassDoes, Pass!AllOps, PassNewPins

\* An operation begins in a view that does not load.
LEMMA PassBeginKeeps ==
  ASSUME PassAssumptions, PassInv, ~loading, loading' = TRUE, NEW op \in Pass!AllOps, NEW with \in Pass!Pins,
         task' = Pass!Task(op, with),
         dialog' \in PassDialogs, dialog'.phase = "working", dialog'.op = op, ~dialog'.orphan,
         op \in {"min", "ea"} /\ with.key \in Keys => with.key = shown,
         Calm /\ op = "delete" => unlocked /\ with = cached,
         IF op = "reset" THEN repoLoading' = TRUE /\ asked' = asked \cup ({plugged} \cap Keys)
         ELSE UNCHANGED <<repoLoading, asked>>,
         inputs' \in 0..MaxInputs,
         UNCHANGED <<Pass!keyVars, Pass!card, unlocked, cached, list, infoTask, doubt, wasted, unread, erased>>
  PROVE  PassInv'
<1>1. /\ UNCHANGED <<plugged, shown, deviceChanged, stirred, pin, version>>
      /\ UNCHANGED <<unlocked, cached, list, infoTask, doubt, wasted, unread, erased>>
  BY DEF Pass!keyVars, Pass!card
<1>2. /\ Pass!KeyTypeOK /\ plugged \in Pass!Sockets /\ asked \subseteq Keys /\ repoLoading \in BOOLEAN
  BY PassTypeFacts DEF PassInv
<1>3. /\ task' \in PassTasks /\ task' # NoTask /\ task'.op = op /\ task'.stage = "start" /\ task'.res = "running"
      /\ task'.with = with /\ task'.key = plugged
  BY <1>2, PassTaskFacts
<1>4. /\ asked' \subseteq Keys /\ repoLoading' \in BOOLEAN /\ asked \subseteq asked'
      /\ op = "reset" => plugged \in asked' \cup {NoKey}
      /\ repoLoading' => repoLoading \/ op = "reset"
  BY <1>2 DEF Pass!Sockets
<1>5. \A ops : PassDone(ops)' <=> FALSE
  BY <1>3 DEF PassDone, PassDoes
<1>6. \A ops : PassDoes(ops)' <=> op \in ops
  BY <1>3 DEF PassDoes
<1>7. PassTypes'
  <2>1. PassFits'
    <3>1. op \notin {"choose", "save"}
      BY DEF Pass!AllOps
    <3> QED BY <1>1, <1>5, <1>6, <3>1 DEF PassInv, PassTypes, PassFits
  <2> QED BY <1>1, <1>3, <1>4, <2>1, PassTypeFacts, PassTypesFrom DEF PassInv, Pass!KeyTypeOK
<1>8. PassAnnounced' /\ PassOwnList'
  <2>1. \A k : PassStray(k) => PassStray(k)'
    BY <1>1, <1>3 DEF PassStray
  <2> QED BY <1>1, <1>5, <2>1 DEF PassInv, PassAnnounced, PassOwnList
<1>9. PassCareful => Pass!LoadingIsTask' /\ PassCurrent'
  <2> SUFFICES ASSUME PassCareful PROVE Pass!LoadingIsTask' /\ PassCurrent'
    OBVIOUS
  <2>1. Pass!LoadingIsTask'
    BY <1>3 DEF Pass!LoadingIsTask, Pass!AllOps
  <2>2. ~PassPending
    BY PassFree DEF PassPending, PassDone
  <2> QED BY <1>1, <1>5, <2>1, <2>2 DEF PassInv, PassCurrent
<1>10. Calm => PassWaiting' /\ ~dialog'.orphan /\ PassResetsAsked' /\ Pass!ErasesItsKey'
  BY <1>1, <1>3, <1>4, <1>6 DEF PassInv, PassWaiting, PassResetsAsked, Pass!ErasesItsKey
<1>11. Pass!DialogsAnswered'
  BY <1>3 DEF Pass!DialogsAnswered
<1>12. Calm => Pass!RepoReleased' /\ PassKept' /\ Pass!KeptPinOpens'
  <2> SUFFICES ASSUME Calm PROVE Pass!RepoReleased' /\ PassKept' /\ Pass!KeptPinOpens'
    OBVIOUS
  <2>1. Pass!RepoReleased' /\ Pass!KeptPinOpens'
    BY <1>1, <1>3, <1>4, PassFree DEF PassInv, Pass!RepoReleased, Pass!KeptPinOpens
  <2>2. ~PassDone(PassNewPins \cup {"reset"}) /\ PassKept
    BY PassFree DEF PassDone, PassInv
  <2>3. unlocked /\ shown # NoKey => cached.key = shown \/ PassStray(cached.key)'
    BY <1>1, <1>3, <2>2 DEF PassKept, PassStray
  <2>4. op \in {"min", "ea"} /\ unlocked /\ with.key \in Keys => cached.key \in {with.key, plugged}
    BY <2>2, PassConstants DEF PassKept, PassStray
  <2>5. PassKept'
    BY <1>1, <1>3, <1>5, <1>6, <2>2, <2>3, <2>4 DEF PassKept, PassNear, PassOpening, Pass!AllOps
  <2> QED BY <2>1, <2>5
<1> QED BY <1>7, <1>8, <1>9, <1>10, <1>11, <1>12 DEF PassInv

\* A dialog that the view does not listen to works for ever.
LEMMA PassRefusedKeeps ==
  ASSUME PassAssumptions, PassInv, dialog' \in PassDialogs, dialog'.phase = "working", dialog'.op \in Pass!AllOps,
         Calm => ~dialog'.orphan /\ loading, Patient => ~loading, inputs' \in 0..MaxInputs,
         UNCHANGED <<Pass!keyVars, Pass!card, Pass!view, repoLoading, infoTask, Pass!history>>
  PROVE  PassInv'
<1>1. /\ UNCHANGED <<plugged, shown, deviceChanged, stirred, pin, version>>
      /\ UNCHANGED <<unlocked, cached, list, loading, task, repoLoading, infoTask>>
      /\ UNCHANGED <<doubt, wasted, unread, erased, asked>>
  BY DEF Pass!keyVars, Pass!card, Pass!view, Pass!history
<1>2. PassTypes'
  <2>1. PassFits'
    BY <1>1 DEF PassInv, PassTypes, PassFits, PassDoes, PassDone
  <2> QED BY <1>1, <2>1, PassTypeFacts, PassTypesFrom, PassConstants DEF PassInv, PassTypes, Pass!KeyTypeOK
<1>3. PassAnnounced' /\ PassOwnList'
  BY <1>1 DEF PassInv, PassAnnounced, PassOwnList, PassDone, PassDoes, PassStray
<1>4. (PassCareful => Pass!LoadingIsTask /\ PassCurrent) => (PassCareful => Pass!LoadingIsTask' /\ PassCurrent')
  BY <1>1 DEF Pass!LoadingIsTask, PassCurrent, PassDone, PassDoes, PassPending
<1>5. Calm => PassWaiting' /\ ~dialog'.orphan /\ PassResetsAsked' /\ Pass!ErasesItsKey'
  BY <1>1 DEF PassInv, PassWaiting, PassResetsAsked, Pass!ErasesItsKey, PassDoes
<1>6. ~(Calm /\ Patient)
  OBVIOUS
<1>7. Calm => Pass!RepoReleased' /\ Pass!KeptPinOpens'
  BY <1>1 DEF PassInv, Pass!RepoReleased, Pass!KeptPinOpens
<1>8. Calm => PassKept'
  BY <1>1 DEF PassInv, PassKept, PassDoes, PassDone, PassOpening, PassNear, PassStray
<1> QED BY <1>2, <1>3, <1>4, <1>5, <1>6, <1>7, <1>8 DEF PassInv

\* What is typed is a PIN the user knows: of the key that is shown, or none.
LEMMA PassTypedFacts ==
  ASSUME PassAssumptions, PassInv, NEW op \in Pass!AllOps, NEW with \in Pass!Typed(op)
  PROVE  /\ with \in Pass!Pins
         /\ op = "delete" => with = dialog.with
         /\ op # "delete" /\ with.key \in Keys => with.key = shown
<1>1. dialog.with \in Pass!Pins /\ pin \in [Keys -> 0..MaxInputs] /\ shown \in Pass!Sockets
  BY PassTypeFacts DEF PassInv
<1>2. shown # NoKey => [key |-> shown, pin |-> pin[shown]] \in Pass!Pins
  BY <1>1 DEF Pass!Pins, Pass!Sockets
<1> QED BY <1>1, <1>2, PassConstants DEF Pass!Typed

\* A dialog is confirmed: the view begins, or, being busy or gone, does nothing.
LEMMA PassConfirmKeeps ==
  ASSUME PassAssumptions, PassInv, Pass!Confirm
  PROVE  PassInv'
<1>1. dialog \in PassDialogs /\ dialog.phase = "input" /\ dialog.op \in Pass!AllOps \ {"reset"}
      /\ inputs \in 0..MaxInputs
  BY PassTypeFacts DEF Pass!Confirm, PassInv, PassTypes, PassFits
<1>2. /\ dialog' \in PassDialogs /\ dialog'.phase = "working" /\ dialog'.op = dialog.op
      /\ dialog'.orphan = dialog.orphan
      /\ inputs' \in 0..MaxInputs /\ dialog'.with = dialog.with
  BY <1>1 DEF Pass!Confirm, PassDialogs
<1>3. CASE loading \/ dialog.orphan
  <2>1. UNCHANGED <<Pass!keyVars, Pass!card, Pass!view, repoLoading, infoTask, Pass!history>>
    BY <1>3 DEF Pass!Confirm, Pass!Rest, Pass!view, Pass!history
  <2>2. Calm => ~dialog'.orphan /\ loading
    BY <1>2, <1>3 DEF PassInv
  <2> QED BY <1>1, <1>2, <2>1, <2>2, PassRefusedKeeps DEF Pass!Confirm
<1>4. CASE ~loading /\ ~dialog.orphan
  <2>1. PICK with \in Pass!Typed(dialog.op) : loading' = TRUE /\ task' = Pass!Task(dialog.op, with)
    BY <1>4 DEF Pass!Confirm, Pass!Starts
  <2>2. /\ with \in Pass!Pins
        /\ dialog.op = "delete" => with = dialog.with
        /\ dialog.op # "delete" /\ with.key \in Keys => with.key = shown
    BY <1>1, PassTypedFacts
  <2>3. Calm /\ dialog.op = "delete" => unlocked /\ with = cached
    BY <1>1, <2>2 DEF PassInv, PassKept
  <2>4. /\ UNCHANGED <<Pass!keyVars, Pass!card, unlocked, cached, list, infoTask, doubt, wasted, unread, erased>>
        /\ UNCHANGED <<repoLoading, asked>>
    BY DEF Pass!Confirm, Pass!Rest
  <2> QED BY <1>1, <1>2, <1>4, <2>1, <2>2, <2>3, <2>4, PassBeginKeeps
<1> QED BY <1>3, <1>4, PassTypeFacts DEF PassInv

\* A reset that the view does not begin opens no dialog.
LEMMA PassConfirmResetKeeps ==
  ASSUME PassAssumptions, PassInv, Pass!ConfirmReset
  PROVE  PassInv'
<1>1. dialog \in PassDialogs /\ dialog.phase = "input" /\ dialog.op = "reset" /\ inputs \in 0..MaxInputs
      /\ loading \in BOOLEAN /\ dialog.orphan \in BOOLEAN
  BY PassTypeFacts DEF Pass!ConfirmReset, PassInv, PassTypes, PassFits
<1>2. /\ UNCHANGED <<Pass!keyVars, Pass!card, infoTask, doubt, wasted, unread, erased, unlocked, cached, list>>
      /\ inputs' \in 0..MaxInputs
  BY <1>1 DEF Pass!ConfirmReset
<1>3. CASE loading \/ dialog.orphan
  <2>1. dialog' = Pass!Closed /\ UNCHANGED <<loading, task, repoLoading, asked>>
    BY <1>3 DEF Pass!ConfirmReset
  <2>2. UNCHANGED <<Pass!keyVars, Pass!card, Pass!view, repoLoading, infoTask, Pass!history>>
    BY <1>2, <2>1 DEF Pass!view, Pass!history
  <2>3. dialog' \in PassDialogs /\ dialog'.phase = "closed" /\ ~dialog'.orphan
    BY <2>1, PassConstants
  <2> QED BY <1>1, <1>2, <2>2, <2>3, PassDialogKeeps
<1>4. CASE ~loading /\ ~dialog.orphan
  <2>1. /\ dialog' = [dialog EXCEPT !.phase = "working"] /\ Pass!Starts("reset")
        /\ repoLoading' = TRUE /\ asked' = asked \cup ({plugged} \cap Keys)
    BY <1>4 DEF Pass!ConfirmReset
  <2>2. PICK with \in Pass!Typed("reset") : loading' = TRUE /\ task' = Pass!Task("reset", with)
    BY <2>1 DEF Pass!Starts
  <2>3. with \in Pass!Pins /\ "reset" \in Pass!AllOps
    BY <1>1, PassTypedFacts DEF Pass!AllOps
  <2>4. dialog' \in PassDialogs /\ dialog'.phase = "working" /\ dialog'.op = "reset" /\ dialog'.orphan = dialog.orphan
    BY <1>1, <2>1 DEF PassDialogs
  <2> QED BY <1>2, <1>4, <2>1, <2>2, <2>3, <2>4, PassBeginKeeps
<1> QED BY <1>1, <1>3, <1>4

\* A request is made without a dialog that asks for it.
LEMMA PassRequestCsrKeeps ==
  ASSUME PassAssumptions, PassInv, Pass!RequestCsr
  PROVE  PassInv'
<1>1. inputs' \in 0..MaxInputs /\ loading \in BOOLEAN
  BY PassTypeFacts, PassConstants DEF Pass!RequestCsr, PassInv
<1>2. "csr" \in Pass!AllOps
  BY DEF Pass!AllOps
<1>3. dialog' \in PassDialogs /\ dialog'.phase = "working" /\ dialog'.op = "csr" /\ ~dialog'.orphan
  BY <1>2, PassConstants DEF Pass!RequestCsr, PassDialogs
<1>4. UNCHANGED <<Pass!keyVars, Pass!card, unlocked, cached, list, repoLoading, infoTask, doubt, wasted, unread,
                  erased, asked>>
  BY DEF Pass!RequestCsr, Pass!Rest
<1>5. CASE loading
  <2>1. UNCHANGED <<Pass!keyVars, Pass!card, Pass!view, repoLoading, infoTask, Pass!history>>
    BY <1>4, <1>5 DEF Pass!RequestCsr, Pass!view, Pass!history
  <2> QED BY <1>1, <1>2, <1>3, <1>5, <2>1, PassRefusedKeeps DEF Pass!RequestCsr
<1>6. CASE ~loading
  <2>1. PICK with \in Pass!Typed("csr") : loading' = TRUE /\ task' = Pass!Task("csr", with)
    BY <1>6 DEF Pass!RequestCsr, Pass!Starts
  <2>2. with \in Pass!Pins
    BY <1>2, PassTypedFacts
  <2> QED BY <1>1, <1>2, <1>3, <1>4, <1>6, <2>1, <2>2, PassBeginKeeps
<1> QED BY <1>1, <1>5, <1>6

\* A file chooser takes the place of nothing that must land.
LEMMA PassChooserKeeps ==
  ASSUME PassAssumptions, PassInv, PassCareful => ~loading, Calm => ~PassDoes(Pass!AllOps), inputs' \in 0..MaxInputs,
         task' = NoTask \/ (\E op \in {"choose", "save"} : "upload" \in Ops /\ task' = Pass!Task(op, Pass!NoPin)),
         dialog' = dialog \/ (dialog' \in PassDialogs /\ dialog'.phase = "input" /\ dialog'.op = "upload"
                              /\ ~dialog'.orphan),
         UNCHANGED <<Pass!keyVars, Pass!card, unlocked, cached, list, loading, repoLoading, infoTask, Pass!history>>
  PROVE  PassInv'
<1>1. /\ UNCHANGED <<plugged, shown, deviceChanged, stirred, pin, version>>
      /\ UNCHANGED <<unlocked, cached, list, loading, repoLoading, infoTask>>
      /\ UNCHANGED <<doubt, wasted, unread, erased, asked>>
  BY DEF Pass!keyVars, Pass!card, Pass!history
<1>2. task' = NoTask \/ (task' \in PassTasks /\ task'.op \in {"choose", "save"} /\ task'.res = "running"
                         /\ "upload" \in Ops)
  BY PassTypeFacts, PassTaskFacts, PassConstants DEF PassInv
<1>3. /\ \A ops : ~PassDone(ops)'
      /\ \A ops \in SUBSET (Pass!AllOps \cup {"refresh"}) : ~PassDoes(ops)'
  BY <1>2 DEF PassDone, PassDoes, Pass!AllOps
<1>4. /\ ~PassDoes(Pass!AllOps)' /\ ~PassDoes({"reset"})' /\ ~PassDoes({"refresh"})' /\ ~PassDoes({"delete"})'
      /\ ~PassDoes({"min", "ea"})'
  BY <1>3 DEF Pass!AllOps
<1>5. PassTypes'
  <2>1. PassFits'
    BY <1>1, <1>2, <1>3 DEF PassInv, PassTypes, PassFits, PassDoes, Pass!AllOps
  <2>2. dialog' \in PassDialogs
    BY PassTypeFacts DEF PassInv
  <2> QED BY <1>1, <1>2, <2>1, <2>2, PassTypeFacts, PassTypesFrom DEF PassInv, Pass!KeyTypeOK
<1>6. PassAnnounced' /\ PassOwnList'
  <2>1. \A k : PassStray(k) => PassStray(k)'
    BY <1>1, <1>4 DEF PassStray
  <2> QED BY <1>1, <1>3, <2>1 DEF PassInv, PassAnnounced, PassOwnList
<1>7. PassCareful => Pass!LoadingIsTask' /\ PassCurrent'
  <2> SUFFICES ASSUME PassCareful PROVE Pass!LoadingIsTask' /\ PassCurrent'
    OBVIOUS
  <2>1. ~PassPending
    BY PassFree DEF PassPending, PassDone
  <2> QED BY <1>1, <1>2, <1>3, <2>1 DEF PassInv, PassCurrent, Pass!LoadingIsTask
<1>8. Calm => PassWaiting' /\ ~dialog'.orphan /\ PassResetsAsked' /\ Pass!ErasesItsKey'
  BY <1>1, <1>4 DEF PassInv, PassWaiting, PassResetsAsked, Pass!ErasesItsKey
<1>9. Calm /\ Patient => Pass!DialogsAnswered'
  <2> SUFFICES ASSUME Calm, Patient PROVE dialog'.phase # "working"
    BY DEF Pass!DialogsAnswered
  <2>1. ~PassDoes(Pass!AllOps \cup {"refresh"})
    BY PassFree DEF PassCareful
  <2>2. dialog.phase # "working"
    BY <2>1 DEF PassInv, Pass!DialogsAnswered, PassDoes, PassTypes, PassFits
  <2> QED BY <2>2
<1>10. Calm => Pass!RepoReleased' /\ PassKept' /\ Pass!KeptPinOpens'
  <2> SUFFICES ASSUME Calm PROVE Pass!RepoReleased' /\ PassKept' /\ Pass!KeptPinOpens'
    OBVIOUS
  <2>1. Pass!RepoReleased' /\ Pass!KeptPinOpens'
    BY <1>1 DEF PassInv, Pass!RepoReleased, Pass!KeptPinOpens, PassDoes, Pass!AllOps
  <2>2. ~PassDone(PassNewPins \cup {"reset"}) /\ PassKept
    BY DEF PassDone, PassDoes, PassInv, PassNewPins, Pass!AllOps
  <2>3. unlocked /\ shown # NoKey => cached.key = shown \/ PassStray(cached.key)'
    BY <1>1, <1>4, <2>2 DEF PassKept, PassStray
  <2>4. dialog'.phase = "input" /\ dialog'.op = "delete" => unlocked /\ dialog'.with = cached
    BY <2>2 DEF PassKept
  <2>5. PassKept'
    BY <1>1, <1>3, <1>4, <2>2, <2>3, <2>4 DEF PassKept, PassNear, PassOpening
  <2> QED BY <2>1, <2>5
<1> QED BY <1>5, <1>6, <1>7, <1>8, <1>9, <1>10 DEF PassInv

\* A file chooser takes the place of no task where nothing is chosen while it loads.
LEMMA PassChooseKeeps ==
  ASSUME PassAssumptions, PassInv, Pass!Choose
  PROVE  PassInv'
<1>1. inputs' \in 0..MaxInputs
  BY PassTypeFacts, PassConstants DEF Pass!Choose, PassInv
<1>2. PassCareful => ~loading
  BY DEF PassCareful, Pass!Choose
<1>3. UNCHANGED <<Pass!keyVars, Pass!card, unlocked, cached, list, loading, repoLoading, infoTask, Pass!history>>
  BY DEF Pass!Choose, Pass!Rest, Pass!history
<1>4. Calm => ~PassDoes(Pass!AllOps)
  BY PassConstants DEF Pass!Choose, PassInv, PassWaiting
<1> QED BY <1>1, <1>2, <1>3, <1>4, PassChooserKeeps DEF Pass!Choose

\* A file that was chosen opens a dialog at most.
LEMMA PassChosenKeeps ==
  ASSUME PassAssumptions, PassInv, Pass!Chosen
  PROVE  PassInv'
<1>1. inputs' \in 0..MaxInputs
  BY PassTypeFacts DEF Pass!Chosen, PassInv
<1>2. PassCareful => ~loading
  BY DEF Pass!Chosen, PassInv, Pass!LoadingIsTask
<1>3. UNCHANGED <<Pass!keyVars, Pass!card, unlocked, cached, list, loading, repoLoading, infoTask, Pass!history>>
  BY DEF Pass!Chosen, Pass!Rest, Pass!history
<1>4. dialog' = dialog \/ (dialog' \in PassDialogs /\ dialog'.phase = "input" /\ dialog'.op = "upload"
                           /\ ~dialog'.orphan)
  BY PassConstants DEF Pass!Chosen, PassDialogs, Pass!AllOps
<1>5. ~PassDoes(Pass!AllOps)
  BY DEF Pass!Chosen, PassDoes, Pass!AllOps
<1> QED BY <1>1, <1>2, <1>3, <1>4, <1>5, PassChooserKeeps DEF Pass!Chosen

-----------------------------------------------------------------------------
\* Events and moves.

\* What an event says of the key, and what the view makes of it.
LEMMA PassEventKeeps ==
  ASSUME PassAssumptions, PassInv, Pass!KeyTypeOK', plugged' = plugged, PassAnnounced', Pass!OnEvent,
         ~deviceChanged' /\ shown' # NoKey => shown' = shown,
         stirred' => stirred,
         stirred /\ ~stirred' => shown' = plugged,
         Calm /\ deviceChanged' => Pass!AtRest,
         Calm => ~stirred' \/ infoTask,
         infoTask' \in BOOLEAN, infoTask' => infoTask,
         UNCHANGED <<Pass!card, repoLoading, Pass!history, inputs>>
  PROVE  PassInv'
<1>1. UNCHANGED <<pin, version, repoLoading, doubt, wasted, unread, erased, asked, inputs>>
  BY DEF Pass!card, Pass!history
<1>2. CASE deviceChanged'
  <2>1. /\ unlocked' = FALSE /\ cached' = Pass!NoPin /\ list' = Pass!Nothing /\ loading' = FALSE /\ task' = NoTask
        /\ dialog' = [dialog EXCEPT !.orphan = dialog # Pass!Closed]
    BY <1>2 DEF Pass!OnEvent, Pass!Drop
  <2>2. /\ dialog' \in PassDialogs /\ dialog'.phase = dialog.phase /\ dialog'.op = dialog.op
        /\ dialog = Pass!Closed => ~dialog'.orphan
    <3>1. dialog \in PassDialogs /\ (dialog # Pass!Closed) \in BOOLEAN
      BY PassTypeFacts DEF PassInv
    <3> DEFINE o == dialog # Pass!Closed
    <3>2. o \in BOOLEAN
      OBVIOUS
    <3>3. dialog' = [dialog EXCEPT !.orphan = o]
      BY <2>1
    <3>4. dialog' \in PassDialogs /\ dialog'.phase = dialog.phase /\ dialog'.op = dialog.op /\ dialog'.orphan = o
      <4> HIDE DEF o
      <4> QED BY <3>1, <3>2, <3>3 DEF PassDialogs
    <3> QED BY <3>4
  <2>3. \A ops : ~PassDoes(ops)' /\ ~PassDone(ops)'
    BY <2>1 DEF PassDoes, PassDone
  <2>4. PassTypes'
    <3>1. PassFits'
      BY <2>1, <2>2, <2>3 DEF PassInv, PassTypes, PassFits
    <3> QED BY <1>1, <2>1, <2>2, <3>1, PassTypeFacts, PassTypesFrom, PassConstants DEF PassInv
  <2>5. PassOwnList' /\ PassCurrent' /\ Pass!LoadingIsTask' /\ PassWaiting' /\ PassResetsAsked'
    BY <2>1, <2>3 DEF PassOwnList, PassCurrent, Pass!LoadingIsTask, PassWaiting, PassResetsAsked
  <2>6. Calm => Pass!ErasesItsKey' /\ ~dialog'.orphan /\ dialog'.phase = "closed" /\ task = NoTask
    BY <1>1, <1>2, <2>2, PassConstants DEF PassInv, Pass!ErasesItsKey, Pass!AtRest
  <2>7. Calm => Pass!RepoReleased' /\ PassKept' /\ Pass!KeptPinOpens'
    BY <1>1, <2>1, <2>3, <2>6 DEF PassInv, Pass!RepoReleased, Pass!KeptPinOpens, PassKept
  <2> QED BY <2>4, <2>5, <2>6, <2>7 DEF PassInv, Pass!DialogsAnswered
<1>3. CASE ~deviceChanged' /\ unlocked /\ ~loading
  <2>1. /\ loading' = TRUE /\ task' = Pass!Task("refresh", cached)
        /\ UNCHANGED <<unlocked, cached, list, dialog>>
    BY <1>3 DEF Pass!OnEvent, Pass!RefreshIfUnlocked
  <2>2. /\ task' \in PassTasks /\ task' # NoTask /\ task'.op = "refresh" /\ task'.stage = "start"
        /\ task'.res = "running"
        /\ task'.with = cached
    BY <2>1, PassTypeFacts, PassTaskFacts DEF PassInv
  <2>3. /\ \A ops : ~PassDone(ops)'
        /\ \A ops : PassDoes(ops)' <=> "refresh" \in ops
    BY <2>2 DEF PassDone, PassDoes
  <2>4. PassTypes'
    <3>1. PassFits'
      BY <2>1, <2>3 DEF PassInv, PassTypes, PassFits
    <3> QED BY <1>1, <2>1, <2>2, <3>1, PassTypeFacts, PassTypesFrom DEF PassInv
  <2>5. \A k : PassStray(k) /\ stirred' => PassStray(k)'
    BY <2>3 DEF PassStray
  <2>6. PassOwnList'
    BY <1>3, <2>1, <2>3, <2>5 DEF PassInv, PassOwnList, PassStray
  <2>7. PassCareful => Pass!LoadingIsTask' /\ PassCurrent'
    BY <2>1, <2>2, <2>3 DEF Pass!LoadingIsTask, PassCurrent, PassPending
  <2>8. Calm => PassWaiting' /\ ~dialog'.orphan /\ PassResetsAsked' /\ Pass!ErasesItsKey'
    BY <1>1, <2>1, <2>3 DEF PassInv, PassWaiting, PassResetsAsked, Pass!ErasesItsKey, Pass!AllOps
  <2>9. Calm /\ Patient => Pass!DialogsAnswered'
    <3> SUFFICES ASSUME Calm, Patient PROVE dialog'.phase # "working"
      BY DEF Pass!DialogsAnswered
    <3>1. ~PassDoes(Pass!AllOps \cup {"refresh"})
      BY <1>3, PassFree DEF PassCareful
    <3> QED BY <2>1, <3>1 DEF PassInv, Pass!DialogsAnswered, PassDoes, PassTypes, PassFits
  <2>10. Calm => Pass!RepoReleased' /\ PassKept' /\ Pass!KeptPinOpens'
    <3> SUFFICES ASSUME Calm PROVE Pass!RepoReleased' /\ PassKept' /\ Pass!KeptPinOpens'
      OBVIOUS
    <3>1. Pass!RepoReleased' /\ Pass!KeptPinOpens'
      BY <1>1, <1>3, PassFree DEF PassInv, Pass!RepoReleased, Pass!KeptPinOpens
    <3>2. ~PassDone(PassNewPins \cup {"reset"}) /\ PassKept /\ cached.key \in Keys
      BY <1>3, PassFree DEF PassDone, PassInv, PassTypes, PassFits
    <3>3. PassNear(cached)
      BY <1>3, <3>2, PassConstants DEF PassKept, PassNear, PassStray
    <3>4. shown' # NoKey => cached.key = shown' \/ PassStray(cached.key)'
      <4>1. shown # NoKey => cached.key = shown \/ PassStray(cached.key)
        BY <1>3, <3>2 DEF PassKept
      <4>2. PassStray(cached.key) => stirred /\ plugged = cached.key
        BY DEF PassStray
      <4>3. PassStray(cached.key) /\ stirred' => PassStray(cached.key)'
        BY <2>1, <2>5
      <4> QED BY <1>3, <4>1, <4>2, <4>3
    <3>5. PassKept'
      BY <1>1, <1>3, <2>1, <2>2, <2>3, <3>2, <3>3, <3>4 DEF PassKept, PassNear, PassOpening
    <3> QED BY <3>1, <3>5
  <2> QED BY <2>4, <2>6, <2>7, <2>8, <2>9, <2>10 DEF PassInv
<1>4. CASE ~deviceChanged' /\ (~unlocked \/ loading)
  <2>1. UNCHANGED <<loading, task, unlocked, cached, list, dialog>>
    BY <1>4 DEF Pass!OnEvent, Pass!RefreshIfUnlocked
  <2>2. \A ops : (PassDoes(ops)' <=> PassDoes(ops)) /\ (PassDone(ops)' <=> PassDone(ops))
    BY <2>1 DEF PassDoes, PassDone
  <2>3. PassTypes'
    <3>1. PassFits'
      BY <2>1, <2>2 DEF PassInv, PassTypes, PassFits
    <3> QED BY <1>1, <2>1, <3>1, PassTypeFacts, PassTypesFrom DEF PassInv, PassTypes
  <2>4. \A k : PassStray(k) /\ stirred' => PassStray(k)'
    BY <2>1, <2>2 DEF PassStray
  <2>5. PassOwnList'
    BY <1>4, <2>1, <2>2, <2>4 DEF PassInv, PassOwnList, PassStray
  <2>6. PassCareful => Pass!LoadingIsTask' /\ PassCurrent'
    BY <1>1, <2>1, <2>2 DEF PassInv, Pass!LoadingIsTask, PassCurrent, PassPending
  <2>7. Calm => PassWaiting' /\ ~dialog'.orphan /\ PassResetsAsked' /\ Pass!ErasesItsKey'
    BY <1>1, <2>1, <2>2 DEF PassInv, PassWaiting, PassResetsAsked, Pass!ErasesItsKey
  <2>8. Calm /\ Patient => Pass!DialogsAnswered'
    BY <2>1 DEF PassInv, Pass!DialogsAnswered
  <2>9. Calm => Pass!RepoReleased' /\ PassKept' /\ Pass!KeptPinOpens'
    <3> SUFFICES ASSUME Calm PROVE Pass!RepoReleased' /\ PassKept' /\ Pass!KeptPinOpens'
      OBVIOUS
    <3>1. Pass!RepoReleased' /\ Pass!KeptPinOpens' /\ PassKept
      BY <1>1, <2>1 DEF PassInv, Pass!RepoReleased, Pass!KeptPinOpens
    <3>2. unlocked => PassNear(cached)
      BY <1>4, <3>1, PassConstants DEF PassKept, PassNear, PassStray
    <3>3. unlocked /\ shown' # NoKey => cached.key = shown' \/ PassStray(cached.key)'
      <4>1. unlocked /\ shown # NoKey => cached.key = shown \/ PassStray(cached.key)
        BY <3>1 DEF PassKept
      <4>2. PassStray(cached.key) => stirred /\ plugged = cached.key
        BY DEF PassStray
      <4>3. PassStray(cached.key) /\ stirred' => PassStray(cached.key)'
        BY <2>1, <2>4
      <4> QED BY <1>4, <4>1, <4>2, <4>3
    <3>4. PassKept'
      BY <1>1, <2>1, <2>2, <3>1, <3>2, <3>3 DEF PassKept, PassNear, PassOpening
    <3> QED BY <3>1, <3>4
  <2> QED BY <2>3, <2>5, <2>6, <2>7, <2>8, <2>9 DEF PassInv
<1> QED BY <1>2, <1>3, <1>4, PassTypeFacts DEF PassInv

\* An event of the repository, which may bring another key.
LEMMA PassOnDeviceEventKeeps ==
  ASSUME PassAssumptions, PassInv, Pass!OnDeviceEvent
  PROVE  PassInv'
<1>1. /\ Pass!KeyTypeOK' /\ plugged' = plugged /\ PassAnnounced'
      /\ ~deviceChanged' /\ shown' # NoKey => shown' = shown
      /\ stirred' => stirred
      /\ stirred /\ ~stirred' => shown' = plugged
  <2>1. Pass!KeyTypeOK /\ PassAnnounced /\ NoKey \in Pass!Sockets /\ plugged' = plugged
    BY PassTypeFacts DEF PassInv, Pass!Sockets, Pass!OnDeviceEvent
  <2>2. CASE Pass!AnnounceRead
    BY <2>1, <2>2 DEF Pass!AnnounceRead, Pass!KeyTypeOK, PassAnnounced
  <2>3. CASE Pass!AnnounceFailure
    BY <2>1, <2>3 DEF Pass!AnnounceFailure, Pass!KeyTypeOK, PassAnnounced
  <2>4. CASE Pass!AnnounceBusy
    BY <2>1, <2>4 DEF Pass!AnnounceBusy, Pass!KeyTypeOK, PassAnnounced
  <2> QED BY <2>2, <2>3, <2>4 DEF Pass!OnDeviceEvent
<1>2. infoTask' \in BOOLEAN /\ infoTask' = infoTask
  BY PassTypeFacts DEF PassInv, Pass!OnDeviceEvent
<1> QED BY <1>1, <1>2, PassEventKeeps DEF Pass!OnDeviceEvent

\* The key's information has been read.
LEMMA PassOnFidoInfoKeeps ==
  ASSUME PassAssumptions, PassInv, Pass!OnFidoInfo
  PROVE  PassInv'
<1>1. /\ Pass!KeyTypeOK' /\ PassAnnounced' /\ UNCHANGED <<plugged, shown, deviceChanged, stirred>>
  BY DEF PassInv, PassTypes, Pass!TypeOK, Pass!KeyTypeOK, PassAnnounced, Pass!OnFidoInfo, Pass!AnnounceFidoInfo
<1>2. infoTask /\ infoTask' = FALSE
  BY DEF Pass!OnFidoInfo
<1> QED BY <1>1, <1>2, PassEventKeeps DEF Pass!OnFidoInfo

\* A key leaves the view as it is; but what is read from now on may be another's.
LEMMA PassMoveKeeps ==
  ASSUME PassAssumptions, PassInv, Pass!Move
  PROVE  PassInv'
<1>1. /\ plugged' \in Pass!Sockets /\ stirred' = TRUE
      /\ UNCHANGED <<shown, deviceChanged, Pass!card, Pass!view, repoLoading, infoTask, dialog, Pass!history, inputs>>
  BY DEF Pass!Move, Pass!Plug
<1>2. /\ UNCHANGED <<shown, pin, version, unlocked, cached, list, loading, task, repoLoading, infoTask, dialog>>
      /\ UNCHANGED <<doubt, wasted, unread, erased, asked, inputs>>
  BY <1>1 DEF Pass!card, Pass!view, Pass!history
<1>3. \A ops : (PassDoes(ops)' <=> PassDoes(ops)) /\ (PassDone(ops)' <=> PassDone(ops))
  BY <1>2 DEF PassDoes, PassDone
<1>4. ~stirred \/ (PassDoes({"reset"}) /\ task.stage # "start")
  BY DEF Pass!Move, Pass!Plug, PassDoes
<1>5. \A k : ~PassStray(k)
  BY <1>4 DEF PassStray
<1>6. Calm => ~infoTask /\ (task = NoTask \/ (task # NoTask /\ task.op = "reset" /\ task.stage # "back"))
  BY DEF Pass!Move, Pass!AtRest
<1>7. PassTypes'
  <2>1. PassFits'
    BY <1>2, <1>3 DEF PassInv, PassTypes, PassFits
  <2>2. Pass!KeyTypeOK'
    BY <1>1, PassTypeFacts DEF PassInv, Pass!KeyTypeOK
  <2> QED BY <1>2, <2>1, <2>2, PassTypeFacts, PassTypesFrom DEF PassInv, PassTypes
<1>8. PassAnnounced' /\ PassOwnList'
  BY <1>1, <1>2, <1>3, <1>5 DEF PassInv, PassAnnounced, PassOwnList
<1>9. PassCareful => Pass!LoadingIsTask' /\ PassCurrent'
  BY <1>2, <1>3 DEF PassInv, Pass!LoadingIsTask, PassCurrent, PassPending
<1>10. Calm => PassWaiting' /\ ~dialog'.orphan /\ PassResetsAsked' /\ Pass!ErasesItsKey'
  BY <1>2, <1>3, <1>6 DEF PassInv, PassWaiting, PassResetsAsked, Pass!ErasesItsKey, PassDoes
<1>11. Calm /\ Patient => Pass!DialogsAnswered'
  BY <1>2 DEF PassInv, Pass!DialogsAnswered
<1>12. Calm => Pass!RepoReleased' /\ PassKept' /\ Pass!KeptPinOpens'
  <2> SUFFICES ASSUME Calm PROVE Pass!RepoReleased' /\ PassKept' /\ Pass!KeptPinOpens'
    OBVIOUS
  <2>1. Pass!RepoReleased' /\ Pass!KeptPinOpens' /\ PassKept
    BY <1>2 DEF PassInv, Pass!RepoReleased, Pass!KeptPinOpens
  <2>2. /\ ~PassDone({"unlock"} \cup PassNewPins) /\ ~PassDoes({"delete"}) /\ ~PassDone({"delete"})
        /\ ~PassDoes({"min", "ea"}) /\ ~PassDone({"min", "ea"}) /\ ~PassDoes({"refresh"})
    BY <1>6 DEF PassDoes, PassDone, PassNewPins
  <2>3. PassKept'
    BY <1>1, <1>2, <1>3, <1>5, <1>6, <2>1, <2>2 DEF PassKept, PassOpening
  <2> QED BY <2>1, <2>3
<1> QED BY <1>7, <1>8, <1>9, <1>10, <1>11, <1>12 DEF PassInv

-----------------------------------------------------------------------------
\* The background half.

\* What every step of a task leaves alone.
LEMMA PassWorkFacts ==
  ASSUME PassAssumptions, PassInv, Pass!Background, task # NoTask
  PROVE  /\ UNCHANGED <<plugged, shown, deviceChanged, stirred>>
         /\ UNCHANGED <<unlocked, cached, list, loading, repoLoading, infoTask, dialog, asked, inputs>>
         /\ task \in PassTasks
BY PassTypeFacts DEF Pass!Background, Pass!keyVars, PassInv

\* A task goes on, or ends: what that needs for the invariant.
LEMMA PassGoesOn ==
  ASSUME PassAssumptions, PassInv, Pass!Background, task # NoTask, task.res = "running",
         task' \in PassTasks, task' # NoTask, task'.op = task.op,
         task.op \notin {"choose", "save"}, unread' = unread, doubt => doubt',
         pin' \in [Keys -> 0..MaxInputs], version' \in [Keys -> 0..MaxInputs], erased' \subseteq Keys,
         task.op \in {"delete", "refresh"} => task'.with = task.with,
         task.op \in {"min", "ea"} => task'.with.key = task.with.key,
         task.op = "refresh" => task'.res # "running",
         task'.res = "ok" /\ task.op # "reset" =>
           plugged \in Keys /\ task'.with.key = plugged /\ task'.with.pin = pin'[plugged],
         task'.res = "ok" /\ task.op \in {"unlock", "refresh"} =>
           task'.list.key = plugged /\ task'.list.version = version'[plugged],
         \A k \in Keys : PassStray(k) => PassStray(k)',
         version' = version \/ doubt' \/ (task.op \in {"delete", "reset"} /\ task'.res = "ok"),
         pin' = pin \/ doubt' \/ (task.op \in PassNewPins \cup {"reset"} /\ task'.res = "ok"),
         Calm => Pass!ErasesItsKey' /\ PassResetsAsked',
         Calm => Pass!KeptPinOpens'
  PROVE  PassInv'
<1>1. /\ UNCHANGED <<plugged, shown, deviceChanged, stirred>>
      /\ UNCHANGED <<unlocked, cached, list, loading, repoLoading, infoTask, dialog, asked, inputs>>
      /\ task \in PassTasks
  BY PassWorkFacts
<1>2. /\ \A ops : (PassDoes(ops)' <=> PassDoes(ops)) /\ ~PassDone(ops)
      /\ \A ops : PassDone(ops)' <=> task.op \in ops /\ task'.res = "ok"
      /\ \A ops : PassDoes(ops) <=> task.op \in ops
  BY DEF PassDoes, PassDone
<1>3. PassTypes'
  <2>1. PassFits'
    BY <1>1, <1>2 DEF PassInv, PassTypes, PassFits, PassNewPins
  <2> QED BY <1>1, <2>1, PassTypeFacts, PassTypesFrom DEF PassInv, PassTypes, Pass!KeyTypeOK
<1>4. PassAnnounced'
  BY <1>1 DEF PassInv, PassAnnounced
<1>5. PassOwnList'
  <2>1. unlocked /\ shown # NoKey => list.key = shown \/ PassStray(list.key)'
    <3>1. unlocked => list.key \in Keys
      BY DEF PassInv, PassTypes, PassFits
    <3> QED BY <1>1, <3>1 DEF PassInv, PassOwnList
  <2>2. task.op \in {"unlock", "refresh"} /\ stirred => PassStray(plugged)'
    BY <1>1, <1>2 DEF PassStray
  <2> QED BY <1>1, <1>2, <2>1, <2>2 DEF PassInv, PassAnnounced, PassOwnList
<1>6. PassCareful => Pass!LoadingIsTask' /\ PassCurrent'
  <2> SUFFICES ASSUME PassCareful PROVE Pass!LoadingIsTask' /\ PassCurrent'
    OBVIOUS
  <2>1. Pass!LoadingIsTask' /\ PassCurrent
    BY <1>1 DEF PassInv, Pass!LoadingIsTask
  <2>2. unlocked /\ ~unread /\ ~doubt' => list.version = version'[list.key] \/ PassPending'
    BY <1>1, <1>2, <2>1 DEF PassCurrent, PassPending
  <2>3. PassDone({"unlock", "refresh"})' => task'.list.version = version'[task'.list.key]
    BY <1>1, <1>2
  <2> QED BY <1>1, <2>1, <2>2, <2>3 DEF PassCurrent
<1>7. Calm => PassWaiting' /\ ~dialog'.orphan
  BY <1>1, <1>2 DEF PassInv, PassWaiting
<1>8. Calm /\ Patient => Pass!DialogsAnswered'
  BY <1>1 DEF PassInv, Pass!DialogsAnswered
<1>9. Calm => Pass!RepoReleased' /\ PassKept'
  <2> SUFFICES ASSUME Calm PROVE Pass!RepoReleased' /\ PassKept'
    OBVIOUS
  <2>1. Pass!RepoReleased' /\ PassKept
    BY <1>1 DEF PassInv, Pass!RepoReleased
  <2>2. unlocked /\ shown # NoKey => cached.key = shown \/ PassStray(cached.key)'
    <3>1. unlocked => cached.key \in Keys
      BY DEF PassInv, PassTypes, PassFits
    <3> QED BY <1>1, <2>1, <3>1 DEF PassKept
  <2>3. unlocked /\ ~doubt' => cached.pin = pin'[cached.key] \/ PassDone(PassNewPins \cup {"reset"})'
    BY <1>1, <1>2, <2>1 DEF PassKept, PassOpening
  <2>4. PassDone({"unlock"} \cup PassNewPins)' => task'.with.key = plugged /\ task'.with.pin = pin'[plugged]
    BY <1>2 DEF PassNewPins
  <2>5. /\ PassDoes({"delete"}) => unlocked /\ task'.with = cached
        /\ PassDone({"delete"})' => PassNear(cached)
    BY <1>2, <2>1 DEF PassKept, PassNear
  <2>6. /\ PassDoes({"min", "ea"}) /\ unlocked /\ task'.with.key \in Keys => cached.key \in {task'.with.key, plugged}
        /\ PassDone({"min", "ea"})' => task'.with.key = plugged
    BY <1>2, <2>1 DEF PassKept
  <2>7. PassDoes({"refresh"}) => PassNear(task.with) /\ task'.with = task.with /\ task'.res # "running"
    BY <1>2, <2>1 DEF PassKept
  <2>8. PassKept'
    BY <1>1, <1>2, <2>1, <2>2, <2>3, <2>4, <2>5, <2>6, <2>7 DEF PassKept, PassNear, PassOpening
  <2> QED BY <2>1, <2>8
<1> QED BY <1>3, <1>4, <1>5, <1>6, <1>7, <1>8, <1>9 DEF PassInv

\* A task that fails takes nothing with it.
LEMMA PassFails ==
  ASSUME PassAssumptions, PassInv, Pass!Background, task # NoTask, task.res = "running", task.op \notin {"choose",
         "save"},
         task' = [task EXCEPT !.res = "error"], unread' = unread, doubt => doubt',
         pin' \in [Keys -> 0..MaxInputs], version' \in [Keys -> 0..MaxInputs], erased' \subseteq Keys,
         UNCHANGED Pass!card \/ doubt',
         Calm => Pass!ErasesItsKey',
         Calm => Pass!KeptPinOpens'
  PROVE  PassInv'
<1>1. /\ task \in PassTasks /\ task' \in PassTasks /\ task' # NoTask /\ task'.op = task.op /\ task'.with = task.with
      /\ task'.res = "error" /\ task'.stage = task.stage /\ task'.key = task.key
  <2>1. task \in PassTasks
    BY PassTypeFacts DEF PassInv
  <2>2. task' \in PassTasks
    BY <2>1 DEF PassTasks
  <2> QED BY <2>1, <2>2 DEF PassTasks, PassAssumptions
<1>2. UNCHANGED <<plugged, stirred, asked>>
  BY PassWorkFacts
<1>3. \A k \in Keys : PassStray(k) => PassStray(k)'
  BY <1>1, <1>2 DEF PassStray, PassDoes
<1>4. (version' = version \/ doubt') /\ (pin' = pin \/ doubt')
  BY DEF Pass!card
<1>5. Calm => PassResetsAsked'
  BY <1>1, <1>2 DEF PassInv, PassResetsAsked, PassDoes
<1> QED BY <1>1, <1>3, <1>4, <1>5, PassGoesOn

\* The list is read with the PIN the task has; a wrong one costs a try.
LEMMA PassReadListKeeps ==
  ASSUME PassAssumptions, PassInv, Pass!ReadList
  PROVE  PassInv'
<1>1. /\ Pass!Background /\ task # NoTask /\ task.op \in {"unlock", "refresh"} /\ task.res = "running"
      /\ plugged \in Keys
      /\ UNCHANGED <<pin, version, doubt, unread, erased>>
  BY DEF Pass!ReadList, Pass!Running, Pass!card
<1>2. /\ pin \in [Keys -> 0..MaxInputs] /\ version \in [Keys -> 0..MaxInputs] /\ erased \subseteq Keys
      /\ task \in PassTasks /\ task.with \in Pass!Pins
  BY <1>1, PassTypeFacts DEF PassInv
<1>3. UNCHANGED <<plugged, stirred, asked>>
  BY <1>1, PassWorkFacts
<1>4. Calm => Pass!ErasesItsKey'
  BY <1>1, <1>3 DEF PassInv, Pass!ErasesItsKey
<1>5. CASE Pass!Opens(plugged)
  <2> DEFINE l == [key |-> plugged, version |-> version[plugged]]
  <2>1. l \in Pass!Lists /\ l.key = plugged /\ l.version = version[plugged]
    BY <1>1, <1>2 DEF Pass!Lists, Pass!Sockets
  <2>2. task' = [task EXCEPT !.res = "ok", !.list = l] /\ wasted' = wasted
    BY <1>5 DEF Pass!ReadList
  <2> HIDE DEF l
  <2>3. /\ task' \in PassTasks /\ task'.op = task.op /\ task'.with = task.with /\ task'.list = l
        /\ task'.res = "ok" /\ task'.stage = task.stage /\ task'.key = task.key
    BY <1>2, <2>1, <2>2 DEF PassTasks
  <2>4. task' # NoTask
    BY <2>3 DEF PassAssumptions
  <2>5. \A k \in Keys : PassStray(k) => PassStray(k)'
    BY <1>1, <1>3, <2>3 DEF PassStray, PassDoes
  <2>6. Calm => PassResetsAsked'
    BY <1>1, <2>3 DEF PassResetsAsked, PassDoes
  <2>7. Calm => Pass!KeptPinOpens'
    BY <1>1, <2>2 DEF PassInv, Pass!KeptPinOpens
  <2>8. task'.with.key = plugged /\ task'.with.pin = pin'[plugged]
    BY <1>1, <1>5, <2>3 DEF Pass!Opens
  <2>9. task'.list.key = plugged /\ task'.list.version = version'[plugged]
    BY <1>1, <2>1, <2>3
  <2> QED BY <1>1, <1>2, <1>4, <2>3, <2>4, <2>5, <2>6, <2>7, <2>8, <2>9, PassGoesOn
<1>6. CASE ~Pass!Opens(plugged)
  <2>1. /\ task' = [task EXCEPT !.res = "error"]
        /\ wasted' = (wasted \/ (task.op = "refresh" /\ pin[plugged] # 0))
    BY <1>6 DEF Pass!ReadList
  <2>2. ASSUME Calm, ~doubt, task.op = "refresh"
        PROVE  pin[plugged] = 0
    <3>1. PassNear(task.with) /\ PassOpening(task.with)
      BY <1>1, <2>2 DEF PassInv, PassKept, PassDoes
    <3> QED BY <1>1, <1>6, <3>1 DEF PassNear, PassOpening, Pass!Opens
  <2>3. Calm => Pass!KeptPinOpens'
    BY <1>1, <2>1, <2>2 DEF PassInv, Pass!KeptPinOpens
  <2> QED BY <1>1, <1>2, <1>4, <2>1, <2>3, PassFails DEF Pass!card
<1> QED BY <1>5, <1>6

\* An operation that the key or the channel refuses changes nothing.
LEMMA PassRejectKeeps ==
  ASSUME PassAssumptions, PassInv, Pass!Reject
  PROVE  PassInv'
<1>1. /\ Pass!Background /\ task # NoTask /\ task.op \in Pass!AllOps /\ task.res = "running"
      /\ UNCHANGED <<Pass!card, pin, version, doubt, wasted, unread, erased>> /\ task' = [task EXCEPT !.res = "error"]
  BY DEF Pass!Reject, Pass!Running, Pass!card
<1>2. /\ pin' \in [Keys -> 0..MaxInputs] /\ version' \in [Keys -> 0..MaxInputs] /\ erased' \subseteq Keys
  BY <1>1, PassTypeFacts DEF PassInv
<1>3. (Calm => Pass!ErasesItsKey') /\ (Calm => Pass!KeptPinOpens')
  BY <1>1, PassWorkFacts DEF PassInv, Pass!ErasesItsKey, Pass!KeptPinOpens
<1>4. task.op \notin {"choose", "save"}
  BY <1>1 DEF Pass!AllOps
<1> QED BY <1>1, <1>2, <1>3, <1>4, PassFails

\* A list that cannot be read costs no try.
LEMMA PassFailKeeps ==
  ASSUME PassAssumptions, PassInv, Pass!Fail
  PROVE  PassInv'
<1>1. /\ Pass!Background /\ task # NoTask /\ task.op \in {"unlock", "refresh"} /\ task.res = "running"
      /\ UNCHANGED <<Pass!card, pin, version, doubt, wasted, unread, erased>> /\ task' = [task EXCEPT !.res = "error"]
  BY DEF Pass!Fail, Pass!Running, Pass!card
<1>2. /\ pin' \in [Keys -> 0..MaxInputs] /\ version' \in [Keys -> 0..MaxInputs] /\ erased' \subseteq Keys
  BY <1>1, PassTypeFacts DEF PassInv
<1>3. (Calm => Pass!ErasesItsKey') /\ (Calm => Pass!KeptPinOpens')
  BY <1>1, PassWorkFacts DEF PassInv, Pass!ErasesItsKey, Pass!KeptPinOpens
<1> QED BY <1>1, <1>2, <1>3, PassFails

\* A key that is back is the one that was there when the reset was confirmed.
LEMMA PassObserveKeeps ==
  ASSUME PassAssumptions, PassInv, Pass!Observe
  PROVE  PassInv'
<1>1. /\ Pass!Background /\ task # NoTask /\ task.op = "reset" /\ task.res = "running"
      /\ UNCHANGED <<Pass!card, pin, version, doubt, wasted, unread, erased>>
  BY DEF Pass!Observe, Pass!Running, Pass!card
<1>2. /\ pin' \in [Keys -> 0..MaxInputs] /\ version' \in [Keys -> 0..MaxInputs] /\ erased' \subseteq Keys
      /\ task \in PassTasks
  BY <1>1, PassTypeFacts DEF PassInv
<1>3. (Calm => Pass!ErasesItsKey') /\ (Calm => Pass!KeptPinOpens')
  BY <1>1, PassWorkFacts DEF PassInv, Pass!ErasesItsKey, Pass!KeptPinOpens
<1>4. UNCHANGED <<plugged, stirred, asked>>
  BY <1>1, PassWorkFacts
<1>5. ASSUME NEW stage \in {"gone", "back"}, task' = [task EXCEPT !.stage = stage],
             task.stage = "start" => ~Pass!Present /\ stage = "gone", stage = "back" => Pass!Present,
             task.stage \in {"start", "gone"}
      PROVE  PassInv'
  <2>1. /\ task' \in PassTasks /\ task'.op = task.op /\ task'.with = task.with
        /\ task'.res = "running" /\ task'.stage = stage /\ task'.key = task.key
    BY <1>1, <1>2, <1>5 DEF PassTasks
  <2>2. task' # NoTask
    BY <2>1 DEF PassAssumptions
  <2>3. \A k \in Keys : PassStray(k) => PassStray(k)'
    <3> SUFFICES ASSUME NEW k \in Keys PROVE ~PassStray(k)
      OBVIOUS
    <3>1. NoKey \notin Keys
      BY PassConstants
    <3> QED BY <1>1, <1>5, <3>1 DEF PassStray, PassDoes, Pass!Present
  <2>4. Calm => PassResetsAsked'
    BY <1>1, <1>4, <1>5, <2>1 DEF PassInv, PassResetsAsked, PassDoes, Pass!Present
  <2> QED BY <1>1, <1>2, <1>3, <2>1, <2>2, <2>3, <2>4, PassGoesOn
<1>6. CASE task' = [task EXCEPT !.res = "error"]
  BY <1>1, <1>2, <1>3, <1>6, PassFails
<1> QED BY <1>5, <1>6 DEF Pass!Observe

\* The key that is erased is the one the reset was confirmed for.
LEMMA PassResetKeeps ==
  ASSUME PassAssumptions, PassInv, Pass!Reset
  PROVE  PassInv'
<1>1. /\ Pass!Background /\ task # NoTask /\ task.op = "reset" /\ task.res = "running" /\ task.stage = "back"
      /\ UNCHANGED <<wasted, unread>>
  BY DEF Pass!Reset, Pass!Running
<1>2. /\ pin \in [Keys -> 0..MaxInputs] /\ version \in [Keys -> 0..MaxInputs] /\ erased \subseteq Keys
      /\ task \in PassTasks /\ inputs \in 0..MaxInputs
  BY <1>1, PassTypeFacts DEF PassInv
<1>3. UNCHANGED <<plugged, stirred, asked>>
  BY <1>1, PassWorkFacts
<1>4. CASE task' = [task EXCEPT !.res = "error"] /\ UNCHANGED <<Pass!card, doubt, erased>>
  <2>1. UNCHANGED <<pin, version>>
    BY <1>4 DEF Pass!card
  <2>2. (Calm => Pass!ErasesItsKey') /\ (Calm => Pass!KeptPinOpens')
    BY <1>1, <1>3, <1>4 DEF PassInv, Pass!ErasesItsKey, Pass!KeptPinOpens
  <2> QED BY <1>1, <1>2, <1>4, <2>1, <2>2, PassFails
<1>5. CASE /\ plugged \in Keys
           /\ pin' = [pin EXCEPT ![plugged] = 0] /\ version' = [version EXCEPT ![plugged] = inputs]
           /\ erased' = erased \cup {plugged}
           /\ Pass!Reports(Pass!Performed)
  <2>1. /\ pin' \in [Keys -> 0..MaxInputs] /\ version' \in [Keys -> 0..MaxInputs] /\ erased' \subseteq Keys
    BY <1>2, <1>5, PassConstants
  <2>2. Calm => Pass!ErasesItsKey'
    <3>1. Calm => plugged \in asked
      BY <1>1, <1>5 DEF PassInv, PassResetsAsked, PassDoes
    <3> QED BY <1>3, <1>5, <3>1 DEF PassInv, Pass!ErasesItsKey
  <2>3. CASE task' = [task EXCEPT !.res = "error"] /\ doubt' = TRUE
    BY <1>1, <2>1, <2>2, <2>3, PassFails DEF Pass!KeptPinOpens
  <2>4. CASE task' = Pass!Performed /\ UNCHANGED doubt
    <3>1. /\ task' \in PassTasks /\ task'.op = task.op /\ task'.with = task.with
          /\ task'.res = "ok" /\ task'.stage = task.stage /\ task'.key = task.key
      BY <1>2, <2>4 DEF PassTasks, Pass!Performed
    <3>2. task' # NoTask
      BY <3>1 DEF PassAssumptions
    <3>3. \A k \in Keys : PassStray(k) => PassStray(k)'
      BY <1>1 DEF PassStray, PassDoes
    <3>4. Calm => PassResetsAsked'
      BY <1>1, <1>3, <3>1 DEF PassInv, PassResetsAsked, PassDoes
    <3>5. Calm => Pass!KeptPinOpens'
      BY <1>1, <2>4 DEF PassInv, Pass!KeptPinOpens
    <3> QED BY <1>1, <2>1, <2>2, <2>4, <3>1, <3>2, <3>3, <3>4, <3>5, PassGoesOn
  <2> QED BY <1>5, <2>3, <2>4 DEF Pass!Reports
<1> QED BY <1>4, <1>5 DEF Pass!Reset

\* A new PIN is the one that the task brings back.
LEMMA PassPerformKeeps ==
  ASSUME PassAssumptions, PassInv, Pass!Perform
  PROVE  PassInv'
<1> DEFINE first == task.op = "minchange" /\ task.stage = "start"
           c == [key |-> plugged, pin |-> pin'[plugged]]
<1>1. /\ Pass!Background /\ task # NoTask /\ task.op \in Pass!AllOps \ {"unlock", "reset"} /\ task.res = "running"
      /\ Pass!Allowed(task.op) /\ plugged \in Keys /\ UNCHANGED <<wasted, unread, erased>>
  BY DEF Pass!Perform, Pass!Running, Pass!Allowed
<1>2. /\ pin \in [Keys -> 0..MaxInputs] /\ version \in [Keys -> 0..MaxInputs] /\ erased \subseteq Keys
      /\ task \in PassTasks /\ inputs \in 0..MaxInputs /\ task.with \in Pass!Pins
  BY <1>1, PassTypeFacts DEF PassInv
<1>3. UNCHANGED <<plugged, stirred, asked>>
  BY <1>1, PassWorkFacts
<1>4. /\ pin' = IF first \/ task.op \notin PassNewPins THEN pin ELSE [pin EXCEPT ![plugged] = inputs]
      /\ version' = IF task.op = "delete" THEN [version EXCEPT ![plugged] = inputs] ELSE version
      /\ Pass!Reports(IF first THEN [task EXCEPT !.stage = "second"] ELSE [Pass!Performed EXCEPT !.with = c])
  BY DEF Pass!Perform, PassNewPins
<1>5. /\ pin' \in [Keys -> 0..MaxInputs] /\ version' \in [Keys -> 0..MaxInputs] /\ erased' \subseteq Keys
  BY <1>1, <1>2, <1>4
<1>6. Calm => Pass!ErasesItsKey'
  BY <1>1, <1>3 DEF PassInv, Pass!ErasesItsKey
<1>7. task.op \notin {"choose", "save", "refresh"}
  BY <1>1 DEF Pass!AllOps
<1>8. c \in Pass!Pins /\ c.key = plugged /\ c.pin = pin'[plugged]
  BY <1>1, <1>5 DEF Pass!Pins, Pass!Sockets
<1>9. CASE task' = [task EXCEPT !.res = "error"] /\ doubt' = TRUE
  BY <1>1, <1>5, <1>6, <1>7, <1>9, PassFails DEF Pass!KeptPinOpens
<1>10. CASE UNCHANGED doubt /\ task' = [task EXCEPT !.stage = "second"] /\ first
  <2>1. /\ task' \in PassTasks /\ task'.op = task.op /\ task'.with = task.with
        /\ task'.res = "running" /\ task'.stage = "second" /\ task'.key = task.key
    BY <1>1, <1>2, <1>10 DEF PassTasks
  <2>2. task' # NoTask
    BY <2>1 DEF PassAssumptions
  <2>3. \A k \in Keys : PassStray(k) => PassStray(k)'
    BY <1>1, <1>3, <2>1 DEF PassStray, PassDoes
  <2>4. Calm => PassResetsAsked'
    BY <1>1, <2>1 DEF PassResetsAsked, PassDoes
  <2>5. Calm => Pass!KeptPinOpens'
    BY <1>1, <1>10 DEF PassInv, Pass!KeptPinOpens
  <2>6. pin' = pin /\ version' = version
    BY <1>4, <1>10
  <2> QED BY <1>1, <1>5, <1>6, <1>7, <1>10, <2>1, <2>2, <2>3, <2>4, <2>5, <2>6, PassGoesOn
<1>11. CASE UNCHANGED doubt /\ task' = [Pass!Performed EXCEPT !.with = c] /\ ~first
  <2>1. /\ task' \in PassTasks /\ task'.op = task.op /\ task'.with = c
        /\ task'.res = "ok" /\ task'.stage = task.stage /\ task'.key = task.key
    <3> HIDE DEF c
    <3> QED BY <1>1, <1>2, <1>8, <1>11 DEF PassTasks, Pass!Performed
  <2>2. task' # NoTask
    BY <2>1 DEF PassAssumptions
  <2>3. \A k \in Keys : PassStray(k) => PassStray(k)'
    BY <1>1, <1>3, <2>1 DEF PassStray, PassDoes
  <2>4. Calm => PassResetsAsked'
    BY <1>1, <2>1 DEF PassResetsAsked, PassDoes
  <2>5. Calm => Pass!KeptPinOpens'
    BY <1>1, <1>11 DEF PassInv, Pass!KeptPinOpens
  <2>6. /\ pin' = pin \/ task.op \in PassNewPins
        /\ version' = version \/ task.op = "delete"
    BY <1>4
  <2>7. task.op \in {"delete", "min", "ea"} => task.with.key = plugged /\ task.with.pin = pin[plugged]
    BY <1>1 DEF Pass!Allowed, Pass!Opens
  <2>8. task.op = "delete" => c = task.with
    <3>1. task.op = "delete" => pin' = pin
      BY <2>6 DEF PassNewPins
    <3> QED BY <1>2, <2>7, <3>1 DEF Pass!Pins
  <2>9. task.op \in {"min", "ea"} => c.key = task.with.key
    BY <1>8, <2>7
  <2> HIDE DEF c, first
  <2> QED BY <1>1, <1>5, <1>6, <1>7, <1>8, <1>11, <2>1, <2>2, <2>3, <2>4, <2>5, <2>6, <2>8, <2>9, PassGoesOn
<1> HIDE DEF c
<1> QED BY <1>4, <1>9, <1>10, <1>11 DEF Pass!Reports

-----------------------------------------------------------------------------
\* The main-thread half.

\* What a landing leaves alone.
LEMMA PassLandFacts ==
  ASSUME PassAssumptions, PassInv, Pass!Landing
  PROVE  /\ UNCHANGED <<plugged, shown, deviceChanged, stirred, pin, version>>
         /\ UNCHANGED <<doubt, wasted, erased, asked, inputs>>
BY DEF Pass!Landing, Pass!keyVars, Pass!card

\* A dialog that is told.
LEMMA PassTellsFacts ==
  ASSUME PassAssumptions, PassInv, NEW phase \in {"success", "error"}, Pass!Tells(phase)
  PROVE  /\ dialog' \in PassDialogs /\ dialog'.op = dialog.op /\ dialog'.orphan = dialog.orphan
         /\ dialog'.phase \in {dialog.phase, "success", "error"} /\ dialog'.phase # "working"
         /\ dialog'.with = dialog.with
<1>1. dialog \in PassDialogs
  BY DEF PassInv, PassTypes
<1> QED BY <1>1 DEF Pass!Tells, PassDialogs

\* A task ends, and the view says what it holds then.
LEMMA PassLands ==
  ASSUME PassAssumptions, PassInv, Pass!Landing, task # NoTask, task.op \notin {"choose", "save"}, task' = NoTask,
         loading' = FALSE,
         unlocked' \in BOOLEAN, cached' \in Pass!Pins, list' \in Pass!Lists, infoTask' \in BOOLEAN,
         repoLoading' \in BOOLEAN,
         dialog' \in PassDialogs, dialog'.op = dialog.op, dialog'.orphan = dialog.orphan, dialog'.with = dialog.with,
         dialog'.phase \in {dialog.phase, "success", "error"}, dialog'.phase = "working" => task.op = "refresh",
         repoLoading' => repoLoading /\ task.op # "reset",
         task.op = "refresh" => UNCHANGED <<unlocked, cached>>,
         unlocked' => cached'.key \in Keys /\ list'.key \in Keys,
         unlocked' /\ shown # NoKey => list'.key = shown \/ (stirred /\ plugged = list'.key),
         PassCareful => (unlocked' /\ ~unread' /\ ~doubt => list'.version = version[list'.key]),
         Calm =>
           /\ unlocked' /\ shown # NoKey => cached'.key = shown \/ (stirred /\ plugged = cached'.key)
           /\ unlocked' /\ (~stirred \/ infoTask') => PassNear(cached')
           /\ unlocked' /\ ~doubt => PassOpening(cached')
  PROVE  PassInv'
<1>1. /\ UNCHANGED <<plugged, shown, deviceChanged, stirred, pin, version>>
      /\ UNCHANGED <<doubt, wasted, erased, asked, inputs>>
  BY PassLandFacts
<1>2. \A ops : ~PassDoes(ops)' /\ ~PassDone(ops)'
  BY DEF PassDoes, PassDone
<1>3. \A k : PassStray(k)' <=> stirred /\ plugged = k
  BY <1>1, <1>2 DEF PassStray
<1>4. PassTypes'
  <2>1. PassFits'
    BY <1>2 DEF PassInv, PassTypes, PassFits
  <2> QED BY <1>1, <2>1, PassTypeFacts, PassTypesFrom DEF PassInv, PassTypes, Pass!KeyTypeOK
<1>5. PassAnnounced' /\ PassOwnList'
  BY <1>1, <1>2, <1>3 DEF PassInv, PassAnnounced, PassOwnList
<1>6. PassCareful => Pass!LoadingIsTask' /\ PassCurrent'
  BY <1>1, <1>2 DEF Pass!LoadingIsTask, PassCurrent
<1>7. Calm => PassWaiting' /\ ~dialog'.orphan /\ PassResetsAsked' /\ Pass!ErasesItsKey'
  BY <1>1, <1>2 DEF PassInv, PassWaiting, PassResetsAsked, Pass!ErasesItsKey
<1>8. Calm /\ Patient => Pass!DialogsAnswered'
  <2> SUFFICES ASSUME Calm, Patient, dialog'.phase = "working" PROVE FALSE
    BY DEF Pass!DialogsAnswered
  <2>1. dialog.phase = "working" /\ task.op = "refresh"
    OBVIOUS
  <2>2. dialog.op = "refresh"
    BY <2>1 DEF PassInv, Pass!DialogsAnswered
  <2>3. dialog.op \in Pass!AllOps
    BY <2>1 DEF PassInv, PassTypes, PassFits
  <2> QED BY <2>2, <2>3 DEF Pass!AllOps
<1>9. Calm => Pass!RepoReleased' /\ PassKept' /\ Pass!KeptPinOpens'
  <2> SUFFICES ASSUME Calm PROVE Pass!RepoReleased' /\ PassKept' /\ Pass!KeptPinOpens'
    OBVIOUS
  <2>1. Pass!RepoReleased' /\ Pass!KeptPinOpens'
    BY <1>1 DEF PassInv, Pass!RepoReleased, Pass!KeptPinOpens
  <2>2. dialog'.phase = "input" /\ dialog'.op = "delete" => unlocked' /\ dialog'.with = cached'
    <3> SUFFICES ASSUME dialog'.phase = "input", dialog'.op = "delete" PROVE unlocked' /\ dialog'.with = cached'
      OBVIOUS
    <3>1. dialog.phase = "input" /\ dialog.op = "delete"
      OBVIOUS
    <3>2. task.op = "refresh"
      BY <3>1, PassTypeFacts DEF PassInv, PassWaiting, PassDoes
    <3> QED BY <3>1, <3>2 DEF PassInv, PassKept
  <2>3. unlocked' /\ shown' # NoKey => cached'.key = shown' \/ PassStray(cached.key)'
    <3>1. PassStray(cached.key)' <=> stirred /\ plugged = cached'.key
      BY <1>1, <1>2 DEF PassStray
    <3> QED BY <1>1, <3>1
  <2>4. /\ unlocked' /\ (~stirred' \/ infoTask') => PassNear(cached)'
        /\ unlocked' /\ ~doubt' => PassOpening(cached)'
    BY <1>1 DEF PassNear, PassOpening
  <2>5. PassKept'
    BY <1>2, <2>2, <2>3, <2>4 DEF PassKept
  <2> QED BY <2>1, <2>5
<1> QED BY <1>4, <1>5, <1>6, <1>7, <1>8, <1>9 DEF PassInv

\* The view takes the PIN and the list that were tried together.
LEMMA PassLandUnlockKeeps ==
  ASSUME PassAssumptions, PassInv, Pass!LandUnlock
  PROVE  PassInv'
<1>1. /\ Pass!Landing /\ task # NoTask /\ task.op = "unlock" /\ task.res = "ok" /\ loading' = FALSE /\ task' = NoTask
      /\ unlocked' = TRUE /\ cached' = task.with /\ list' = task.list /\ unread' = FALSE
      /\ Pass!Tells("success") /\ UNCHANGED <<repoLoading, infoTask>>
  BY DEF Pass!LandUnlock, Pass!Landed
<1>2. task.with \in Pass!Pins /\ task.list \in Pass!Lists /\ infoTask \in BOOLEAN /\ repoLoading \in BOOLEAN
  BY <1>1, PassTypeFacts DEF PassInv
<1>3. PassDone({"unlock", "refresh"}) /\ PassDone({"unlock"} \cup PassNewPins) /\ ~PassDoes({"reset"})
  BY <1>1 DEF PassDone, PassDoes
<1>4. task.with.key \in Keys /\ task.list.key \in Keys
  BY <1>3 DEF PassInv, PassTypes, PassFits
<1>5. shown # NoKey => list'.key = shown \/ (stirred /\ plugged = list'.key)
  BY <1>1, <1>3 DEF PassInv, PassOwnList, PassStray
<1>6. PassCareful => list'.version = version[list'.key]
  BY <1>1, <1>3 DEF PassInv, PassCurrent
<1>7. Calm => cached'.key = plugged /\ PassOpening(task.with)
  BY <1>1, <1>3 DEF PassInv, PassKept
<1>8. shown # NoKey => plugged = shown \/ stirred
  BY DEF PassInv, PassAnnounced
<1>9. Calm =>
        /\ shown # NoKey => cached'.key = shown \/ (stirred /\ plugged = cached'.key)
        /\ PassNear(cached')
        /\ ~doubt => PassOpening(cached')
  BY <1>1, <1>7, <1>8 DEF PassNear
<1>10. /\ dialog' \in PassDialogs /\ dialog'.op = dialog.op /\ dialog'.orphan = dialog.orphan
       /\ dialog'.phase \in {dialog.phase, "success", "error"} /\ dialog'.phase # "working"
       /\ dialog'.with = dialog.with
  BY <1>1, PassTellsFacts
<1>11. repoLoading' => repoLoading /\ task.op # "reset"
  BY <1>1
<1> QED BY <1>1, <1>2, <1>4, <1>5, <1>6, <1>9, <1>10, <1>11, PassLands

\* A list that was read again replaces the one that was shown.
LEMMA PassLandRefreshKeeps ==
  ASSUME PassAssumptions, PassInv, Pass!LandRefresh
  PROVE  PassInv'
<1>1. /\ Pass!Landing /\ task # NoTask /\ task.op = "refresh" /\ loading' = FALSE /\ task' = NoTask
      /\ list' = IF task.res = "ok" THEN task.list ELSE list
      /\ unread' = (task.res = "error")
      /\ task.res \in {"ok", "error"}
      /\ UNCHANGED <<unlocked, cached, dialog, repoLoading, infoTask>>
  BY DEF Pass!LandRefresh, Pass!Landed
<1>2. /\ task.with \in Pass!Pins /\ task.list \in Pass!Lists /\ infoTask \in BOOLEAN /\ repoLoading \in BOOLEAN
      /\ dialog \in PassDialogs /\ list \in Pass!Lists /\ cached \in Pass!Pins /\ unlocked \in BOOLEAN
  BY <1>1, PassTypeFacts DEF PassInv
<1>3. /\ task.res = "ok" => PassDone({"unlock", "refresh"})
      /\ ~PassDoes({"reset"}) /\ ~PassDone({"unlock"} \cup PassNewPins) /\ ~PassDone(PassNewPins \cup {"reset"})
  BY <1>1 DEF PassDone, PassDoes, PassNewPins
<1>4. unlocked' => cached'.key \in Keys /\ list'.key \in Keys
  BY <1>1, <1>3 DEF PassInv, PassTypes, PassFits
<1>5. unlocked' /\ shown # NoKey => list'.key = shown \/ (stirred /\ plugged = list'.key)
  BY <1>1, <1>3 DEF PassInv, PassOwnList, PassStray
<1>6. PassCareful => (unlocked' /\ ~unread' /\ ~doubt => list'.version = version[list'.key])
  BY <1>1, <1>3 DEF PassInv, PassCurrent
<1>7. Calm =>
        /\ unlocked' /\ shown # NoKey => cached'.key = shown \/ (stirred /\ plugged = cached'.key)
        /\ unlocked' /\ (~stirred \/ infoTask') => PassNear(cached)
        /\ unlocked' /\ ~doubt => PassOpening(cached)
  <2> SUFFICES ASSUME Calm
               PROVE  /\ unlocked' /\ shown # NoKey => cached'.key = shown \/ (stirred /\ plugged = cached'.key)
                      /\ unlocked' /\ (~stirred \/ infoTask') => PassNear(cached)
                      /\ unlocked' /\ ~doubt => PassOpening(cached)
    OBVIOUS
  <2>1. PassKept
    BY DEF PassInv
  <2>2. PassStray(cached.key) => stirred /\ plugged = cached.key
    BY DEF PassStray
  <2> QED BY <1>1, <1>3, <2>1, <2>2 DEF PassKept
<1>8. PassNear(cached') = PassNear(cached) /\ PassOpening(cached') = PassOpening(cached)
  BY <1>1
<1>9. dialog'.phase \in {dialog.phase, "success", "error"} /\ dialog'.op = dialog.op
      /\ dialog'.orphan = dialog.orphan /\ dialog'.with = dialog.with
  BY <1>1
<1> QED BY <1>1, <1>2, <1>4, <1>5, <1>6, <1>7, <1>8, <1>9, PassLands

\* What ends without a change to the key leaves the view as it was.
LEMMA PassLandFileKeeps ==
  ASSUME PassAssumptions, PassInv, Pass!LandFile \/ Pass!LandError
  PROVE  PassInv'
<1>1. /\ Pass!Landing /\ task # NoTask /\ task.op \in Pass!AllOps /\ loading' = FALSE /\ task' = NoTask
      /\ task.res = "error" \/ task.op \in {"csr", "upload"}
      /\ UNCHANGED <<unlocked, cached, list, unread, infoTask>>
      /\ Pass!Tells("success") \/ Pass!Tells("error")
  BY DEF Pass!LandFile, Pass!LandError, Pass!Landed, Pass!AllOps
<1>2. /\ infoTask \in BOOLEAN /\ repoLoading \in BOOLEAN
      /\ list \in Pass!Lists /\ cached \in Pass!Pins /\ unlocked \in BOOLEAN
  BY <1>1, PassTypeFacts DEF PassInv
<1>3. repoLoading' \in BOOLEAN /\ (repoLoading' => repoLoading /\ task.op # "reset")
  <2>1. CASE Pass!LandFile
    BY <1>2, <2>1 DEF Pass!LandFile, Pass!Landed
  <2>2. CASE Pass!LandError
    BY <1>2, <2>2 DEF Pass!LandError
  <2> QED BY <2>1, <2>2
<1>4. ~PassPending /\ ~PassDone(PassNewPins \cup {"reset"})
  BY <1>1 DEF PassPending, PassDone, PassDoes, PassNewPins, Pass!AllOps
<1>5. unlocked => cached.key \in Keys /\ list.key \in Keys
  BY DEF PassInv, PassTypes, PassFits
<1>6. unlocked /\ shown # NoKey => list.key = shown \/ (stirred /\ plugged = list.key)
  BY DEF PassInv, PassOwnList, PassStray
<1>7. PassCareful => (unlocked /\ ~unread /\ ~doubt => list.version = version[list.key])
  BY <1>4 DEF PassInv, PassCurrent
<1>8. Calm =>
        /\ unlocked /\ shown # NoKey => cached.key = shown \/ (stirred /\ plugged = cached.key)
        /\ unlocked /\ (~stirred \/ infoTask) => PassNear(cached)
        /\ unlocked /\ ~doubt => PassOpening(cached)
  <2>1. PassStray(cached.key) => stirred /\ plugged = cached.key
    BY DEF PassStray
  <2> QED BY <1>4, <2>1 DEF PassInv, PassKept
<1>9. /\ dialog' \in PassDialogs /\ dialog'.op = dialog.op /\ dialog'.orphan = dialog.orphan
      /\ dialog'.phase \in {dialog.phase, "success", "error"} /\ dialog'.phase # "working"
      /\ dialog'.with = dialog.with
  BY <1>1, PassTellsFacts
<1>10. PassNear(cached') = PassNear(cached) /\ PassOpening(cached') = PassOpening(cached)
  BY <1>1
<1>11. task.op \notin {"choose", "save", "refresh"}
  BY <1>1 DEF Pass!AllOps
<1> QED BY <1>1, <1>2, <1>3, <1>5, <1>6, <1>7, <1>8, <1>9, <1>10, <1>11, PassLands

\* A reset clears the view.
LEMMA PassLandResetKeeps ==
  ASSUME PassAssumptions, PassInv, Pass!LandReset
  PROVE  PassInv'
<1>1. /\ Pass!Landing /\ task # NoTask /\ task.op = "reset" /\ loading' = FALSE /\ task' = NoTask
      /\ unlocked' = FALSE /\ cached' = Pass!NoPin /\ list' = Pass!Nothing /\ infoTask' = TRUE
      /\ repoLoading' = FALSE /\ Pass!Tells("success")
  BY DEF Pass!LandReset, Pass!Landed, Pass!Sync
<1>2. /\ dialog' \in PassDialogs /\ dialog'.op = dialog.op /\ dialog'.orphan = dialog.orphan
      /\ dialog'.phase \in {dialog.phase, "success", "error"} /\ dialog'.phase # "working"
      /\ dialog'.with = dialog.with
  BY <1>1, PassTellsFacts
<1>3. Pass!NoPin \in Pass!Pins /\ Pass!Nothing \in Pass!Lists
  BY PassConstants
<1> QED BY <1>1, <1>2, <1>3, PassLands

\* The list is read again with the PIN that opens the key now.
LEMMA PassLandChangeKeeps ==
  ASSUME PassAssumptions, PassInv, Pass!LandChange
  PROVE  PassInv'
<1>1. /\ Pass!Landing /\ task # NoTask /\ task.op \in {"delete", "setup", "change", "min", "minchange", "ea"}
      /\ task.res = "ok" /\ cached' = Pass!NewPin /\ Pass!Sync(unlocked, Pass!NewPin) /\ infoTask' = TRUE
      /\ Pass!Tells("success") /\ UNCHANGED <<unlocked, list, unread, repoLoading>>
  BY DEF Pass!LandChange, Pass!Landed, Pass!Sync
<1>2. /\ repoLoading \in BOOLEAN /\ list \in Pass!Lists /\ cached \in Pass!Pins /\ unlocked \in BOOLEAN
      /\ task.with \in Pass!Pins
      /\ Pass!KeyTypeOK
  BY <1>1, PassTypeFacts DEF PassInv
<1>3. /\ Pass!NewPin = (IF task.op \in PassNewPins THEN task.with ELSE cached)
      /\ Pass!NewPin \in Pass!Pins
  BY <1>2 DEF Pass!NewPin, PassNewPins
<1>4. /\ dialog' \in PassDialogs /\ dialog'.op = dialog.op /\ dialog'.orphan = dialog.orphan
      /\ dialog'.phase \in {dialog.phase, "success", "error"} /\ dialog'.phase # "working"
      /\ dialog'.with = dialog.with
  BY <1>1, PassTellsFacts
<1>5. unlocked => Pass!NewPin.key \in Keys /\ list.key \in Keys
  BY <1>1, <1>3 DEF PassInv, PassTypes, PassFits, PassDone, PassDoes
<1>6. ~PassDoes({"reset"}) /\ task.op \notin {"choose", "save", "refresh", "reset"}
  BY <1>1 DEF PassDoes
<1>7. unlocked /\ shown # NoKey => list.key = shown \/ (stirred /\ plugged = list.key)
  BY DEF PassInv, PassOwnList, PassStray
<1>8. ASSUME Calm, unlocked
      PROVE  /\ shown # NoKey => Pass!NewPin.key = shown \/ (stirred /\ plugged = Pass!NewPin.key)
             /\ PassNear(Pass!NewPin)
             /\ ~doubt => PassOpening(Pass!NewPin)
  <2>1. PassKept /\ PassAnnounced
    BY <1>8 DEF PassInv
  <2>2. CASE task.op \in PassNewPins
    <3>1. Pass!NewPin = task.with /\ PassDone({"unlock"} \cup PassNewPins)
      BY <1>1, <1>3, <2>2 DEF PassDone, PassDoes
    <3>2. Pass!NewPin.key = plugged /\ PassOpening(Pass!NewPin)
      BY <2>1, <3>1 DEF PassKept
    <3> QED BY <2>1, <3>2 DEF PassNear, PassAnnounced
  <2>3. CASE task.op \notin PassNewPins
    <3>1. Pass!NewPin = cached /\ ~PassDone(PassNewPins \cup {"reset"})
      BY <1>3, <1>6, <2>3 DEF PassDone, PassDoes
    <3>2. PassNear(cached)
      <4>1. CASE task.op = "delete"
        BY <1>1, <2>1, <4>1 DEF PassKept, PassDone, PassDoes
      <4>2. CASE task.op \in {"min", "ea"}
        <5>1. PassDoes({"min", "ea"}) /\ PassDone({"min", "ea"})
          BY <1>1, <4>2 DEF PassDone, PassDoes
        <5>2. task.with.key = plugged /\ (task.with.key \in Keys => cached.key \in {task.with.key, plugged})
          BY <1>8, <2>1, <5>1 DEF PassKept
        <5> QED BY <5>2 DEF PassNear
      <4> QED BY <1>1, <2>3, <4>1, <4>2 DEF PassNewPins
    <3>3. PassStray(cached.key) => stirred /\ plugged = cached.key
      BY DEF PassStray
    <3>4. shown # NoKey => cached.key = shown \/ (stirred /\ plugged = cached.key)
      BY <1>8, <2>1, <3>3 DEF PassKept
    <3>5. ~doubt => PassOpening(cached)
      BY <1>8, <2>1, <3>1 DEF PassKept
    <3> QED BY <3>1, <3>2, <3>4, <3>5
  <2> QED BY <2>2, <2>3
<1>9. CASE ~unlocked
  <2>1. loading' = FALSE /\ task' = NoTask
    BY <1>1, <1>9 DEF Pass!Sync
  <2>2. ~unlocked' /\ cached' \in Pass!Pins /\ list' \in Pass!Lists /\ infoTask' \in BOOLEAN /\ repoLoading' \in BOOLEAN
        /\ unlocked' \in BOOLEAN
    BY <1>1, <1>2, <1>3, <1>9
  <2>3. (repoLoading' => repoLoading /\ task.op # "reset") /\ task.op # "refresh"
    BY <1>1, <1>6
  <2> QED BY <1>1, <1>4, <1>6, <2>1, <2>2, <2>3, PassLands
<1>10. CASE unlocked
  <2>1. loading' = TRUE /\ task' = Pass!Task("refresh", Pass!NewPin)
    BY <1>1, <1>10 DEF Pass!Sync
  <2>2. /\ task' \in PassTasks /\ task' # NoTask /\ task'.op = "refresh" /\ task'.res = "running"
        /\ task'.with = Pass!NewPin
    BY <1>2, <1>3, <2>1, PassTaskFacts
  <2>3. /\ UNCHANGED <<plugged, shown, deviceChanged, stirred, pin, version>>
        /\ UNCHANGED <<doubt, wasted, erased, asked, inputs>>
    BY <1>1, PassLandFacts
  <2>4. /\ \A ops : PassDoes(ops)' <=> "refresh" \in ops
        /\ \A ops : ~PassDone(ops)'
    BY <2>2 DEF PassDone, PassDoes
  <2>5. PassTypes'
    <3>1. PassFits'
      BY <1>1, <1>4, <1>5, <1>10, <2>1, <2>4 DEF PassInv, PassTypes, PassFits
    <3> QED BY <1>1, <1>2, <1>3, <1>4, <2>1, <2>2, <2>3, <3>1, PassTypeFacts, PassTypesFrom DEF PassInv, PassTypes,
             Pass!KeyTypeOK
  <2>6. PassAnnounced' /\ PassOwnList'
    <3>1. PassStray(list.key)' <=> stirred /\ plugged = list.key
      BY <1>1, <2>3, <2>4 DEF PassStray
    <3> QED BY <1>1, <1>7, <2>3, <2>4, <3>1 DEF PassInv, PassAnnounced, PassOwnList
  <2>7. Pass!LoadingIsTask' /\ PassCurrent'
    BY <2>1, <2>2, <2>4 DEF Pass!LoadingIsTask, PassCurrent, PassPending
  <2>8. Calm => PassWaiting' /\ ~dialog'.orphan /\ PassResetsAsked' /\ Pass!ErasesItsKey'
    BY <1>4, <2>3, <2>4 DEF PassInv, PassWaiting, PassResetsAsked, Pass!ErasesItsKey, Pass!AllOps
  <2>9. Pass!DialogsAnswered'
    BY <1>4 DEF Pass!DialogsAnswered
  <2>10. Calm => Pass!RepoReleased' /\ PassKept' /\ Pass!KeptPinOpens'
    <3> SUFFICES ASSUME Calm PROVE Pass!RepoReleased' /\ PassKept' /\ Pass!KeptPinOpens'
      OBVIOUS
    <3>1. Pass!RepoReleased' /\ Pass!KeptPinOpens'
      BY <1>1, <1>6, <2>3 DEF PassInv, Pass!RepoReleased, Pass!KeptPinOpens
    <3>2. PassWaiting
      BY DEF PassInv
    <3>3. dialog'.phase # "input"
      BY <1>1, <1>4, <3>2 DEF PassWaiting, PassDoes, Pass!AllOps
    <3>4. PassStray(cached.key)' <=> stirred /\ plugged = cached'.key
      BY <2>3, <2>4 DEF PassStray
    <3>5. unlocked' /\ shown' # NoKey => cached'.key = shown' \/ PassStray(cached.key)'
      BY <1>1, <1>8, <1>10, <2>3, <3>4
    <3>6. PassNear(cached)' /\ (~doubt' => PassOpening(cached)')
      BY <1>1, <1>8, <1>10, <2>3 DEF PassNear, PassOpening
    <3>7. task'.with = cached' /\ cached'.key \in Keys
      BY <1>1, <1>5, <1>10, <2>2
    <3>8. PassNear(task.with)' /\ (~doubt' => task'.with.key \in Keys /\ PassOpening(task.with)')
      BY <3>6, <3>7 DEF PassNear, PassOpening
    <3>9. PassKept'
      BY <2>4, <3>3, <3>5, <3>6, <3>8 DEF PassKept, PassNewPins
    <3> QED BY <3>1, <3>9
  <2> QED BY <2>5, <2>6, <2>7, <2>8, <2>9, <2>10 DEF PassInv
<1> QED BY <1>2, <1>9, <1>10

-----------------------------------------------------------------------------
\* The invariant is about the variables of the page only.
LEMMA PassStutterKeeps ==
  ASSUME PassInv, UNCHANGED Pass!vars
  PROVE  PassInv'
<1>1. /\ UNCHANGED <<plugged, shown, deviceChanged, stirred, pin, version>>
      /\ UNCHANGED <<unlocked, cached, list, loading, task, repoLoading, infoTask, dialog>>
      /\ UNCHANGED <<doubt, wasted, unread, erased, asked, inputs>>
  BY DEF Pass!vars, Pass!keyVars, Pass!card, Pass!view, Pass!history
<1>2. PassTypes' /\ PassAnnounced'
  BY <1>1 DEF PassInv, PassTypes, Pass!TypeOK, Pass!KeyTypeOK, PassFits, PassDoes, PassDone, PassAnnounced
<1>3. PassOwnList' /\ (PassCareful => Pass!LoadingIsTask' /\ PassCurrent')
  BY <1>1 DEF PassInv, PassOwnList, PassDoes, PassDone, PassStray, Pass!LoadingIsTask, PassCurrent, PassPending
<1>4. /\ Calm => PassWaiting' /\ ~dialog'.orphan /\ PassResetsAsked' /\ Pass!ErasesItsKey'
      /\ Calm /\ Patient => Pass!DialogsAnswered'
  BY <1>1 DEF PassInv, PassWaiting, PassResetsAsked, Pass!ErasesItsKey, Pass!DialogsAnswered, PassDoes
<1>5. Calm => Pass!RepoReleased' /\ Pass!KeptPinOpens'
  BY <1>1 DEF PassInv, Pass!RepoReleased, Pass!KeptPinOpens
<1>6. Calm => PassKept'
  BY <1>1 DEF PassInv, PassKept, PassDoes, PassDone, PassStray, PassNear, PassOpening
<1> QED BY <1>2, <1>3, <1>4, <1>5, <1>6 DEF PassInv

\* Every step keeps the invariant.
LEMMA PassStepInv ==
  ASSUME PassAssumptions, PassInv, [Pass!Next]_(Pass!vars)
  PROVE  PassInv'
<1>1. CASE Pass!Work
  BY <1>1, PassReadListKeeps, PassPerformKeeps, PassRejectKeeps, PassFailKeeps, PassObserveKeeps,
     PassResetKeeps DEF Pass!Work
<1>2. CASE Pass!Land
  BY <1>2, PassLandUnlockKeeps, PassLandRefreshKeeps, PassLandChangeKeeps, PassLandFileKeeps,
     PassLandResetKeeps DEF Pass!Land
<1>3. CASE Pass!User
  BY <1>3, PassLockKeeps, PassOpenKeeps, PassCancelKeeps, PassConfirmKeeps, PassConfirmResetKeeps,
     PassRequestCsrKeeps, PassChooseKeeps,
     PassChosenKeeps DEF Pass!User
<1>4. CASE Pass!Move
  BY <1>4, PassMoveKeeps
<1>5. CASE Pass!OnDeviceEvent
  BY <1>5, PassOnDeviceEventKeeps
<1>6. CASE Pass!OnFidoInfo
  BY <1>6, PassOnFidoInfoKeeps
<1>7. CASE UNCHANGED Pass!vars
  BY <1>7, PassStutterKeeps
<1> QED BY <1>1, <1>2, <1>3, <1>4, <1>5, <1>6, <1>7 DEF Pass!Next

\* The invariant the theorems below rest on.
LEMMA PassInvariance ==
  ASSUME PassAssumptions
  PROVE  Pass!Spec => []PassInv
<1>1. Pass!Init => PassInv
  BY PassInitInv
<1>2. PassInv /\ [Pass!Next]_(Pass!vars) => PassInv'
  BY PassStepInv
<1> QED BY <1>1, <1>2, PTL DEF Pass!Spec

\* PasskeysView: every variable is of its type, whatever the user and the keys do,
\* and an unlocked view has a PIN and a list.
THEOREM PassTyping == PassAssumptions => (Pass!Spec => []Pass!TypeOK)
<1> SUFFICES ASSUME PassAssumptions PROVE Pass!Spec => []Pass!TypeOK
  OBVIOUS
<1>1. PassInv => Pass!TypeOK
  BY DEF PassInv, PassTypes
<1> QED BY <1>1, PassInvariance, PTL

\* PasskeysView.loading is set exactly while a task will clear it, where no file
\* chooser is opened over a task: the page is never refused for good.
THEOREM PassLoadingHasItsTask == PassAssumptions /\ PassCareful => (Pass!Spec => []Pass!LoadingIsTask)
<1> SUFFICES ASSUME PassAssumptions, PassCareful PROVE Pass!Spec => []Pass!LoadingIsTask
  OBVIOUS
<1>1. PassInv => Pass!LoadingIsTask
  BY DEF PassInv
<1> QED BY <1>1, PassInvariance, PTL

\* A dialog that says it works waits for the task of its operation, where keys are
\* moved at rest and nothing is confirmed while the view loads.
THEOREM PassDialogsHaveTheirTask == PassAssumptions /\ Calm /\ Patient => (Pass!Spec => []Pass!DialogsAnswered)
<1> SUFFICES ASSUME PassAssumptions, Calm, Patient PROVE Pass!Spec => []Pass!DialogsAnswered
  OBVIOUS
<1>1. PassInv => Pass!DialogsAnswered
  BY DEF PassInv
<1> QED BY <1>1, PassInvariance, PTL

\* DeviceRepo is held back from reading keys only while a reset runs, for keys that
\* are moved at rest or for a reset.
THEOREM PassRepoIsReleased == PassAssumptions /\ Calm => (Pass!Spec => []Pass!RepoReleased)
<1> SUFFICES ASSUME PassAssumptions, Calm PROVE Pass!Spec => []Pass!RepoReleased
  OBVIOUS
<1>1. PassInv => Pass!RepoReleased
  BY DEF PassInv
<1> QED BY <1>1, PassInvariance, PTL

\* perform_fido_reset() erases only keys a reset was confirmed for, whatever is
\* plugged in while it waits for the key to come back.
THEOREM PassResetErasesItsKey == PassAssumptions /\ Calm => (Pass!Spec => []Pass!ErasesItsKey)
<1> SUFFICES ASSUME PassAssumptions, Calm PROVE Pass!Spec => []Pass!ErasesItsKey
  OBVIOUS
<1>1. PassInv => Pass!ErasesItsKey
  BY DEF PassInv
<1> QED BY <1>1, PassInvariance, PTL

\* cached_pin, sent at every event, costs a try only where a PIN change was done
\* and reported as failed, for keys that are moved at rest or for a reset.
THEOREM PassKeptPinIsRight == PassAssumptions /\ Calm => (Pass!Spec => []Pass!KeptPinOpens)
<1> SUFFICES ASSUME PassAssumptions, Calm PROVE Pass!Spec => []Pass!KeptPinOpens
  OBVIOUS
<1>1. PassInv => Pass!KeptPinOpens
  BY DEF PassInv
<1> QED BY <1>1, PassInvariance, PTL

\* At rest an unlocked list that could be read is what its key holds, also where
\* keys are moved at any time.
THEOREM PassListIsOfItsKey == PassAssumptions /\ PassCareful => (Pass!Spec => []Pass!ListIsCurrent)
<1> SUFFICES ASSUME PassAssumptions, PassCareful PROVE Pass!Spec => []Pass!ListIsCurrent
  OBVIOUS
<1>1. PassInv => Pass!ListIsCurrent
  BY DEF PassInv, PassCurrent, PassPending, PassDone, PassDoes, Pass!ListIsCurrent
<1> QED BY <1>1, PassInvariance, PTL

\* At rest the list is of the key DeviceRepo shows, also where keys are moved at
\* any time and views are dropped with a task under way.
THEOREM PassListIsOfShownKey == PassAssumptions => (Pass!Spec => []Pass!ListIsShownKeys)
<1> SUFFICES ASSUME PassAssumptions PROVE Pass!Spec => []Pass!ListIsShownKeys
  OBVIOUS
<1>1. NoKey \notin Keys
  BY PassConstants
<1>2. PassInv => Pass!ListIsShownKeys
  BY <1>1 DEF PassInv, PassOwnList, PassStray, Pass!ListIsShownKeys
<1> QED BY <1>2, PassInvariance, PTL
=============================================================================
