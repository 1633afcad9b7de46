----------------------------- MODULE ConfigForm -----------------------------
(***************************************************************************)
(* The Compose screen: what the settings form holds, what Apply sends, and  *)
(* how the writes reach a key.                                             *)
(*                                                                         *)
(* Every event of DeviceRepo fills the form again.  Apply compares it with *)
(* the status the repository has and plans two writes: the lights, if they *)
(* differ, and then all hardware settings, if one of them does.  The       *)
(* serial is read again before the first; each write is a session of its   *)
(* own.  Over the card interface a session goes to the board that was      *)
(* discovered last, over FIDO to whatever key is there.  A key of RS-Key   *)
(* restarts by itself after the hardware settings, so they are read again  *)
(* until it is back.                                                       *)
(*                                                                         *)
(* Of the hardware settings three stand for all: the colour order, chosen  *)
(* in a list; a number that may be left blank; a name that may be too      *)
(* long.  Two of the lights stand for seven.                               *)
(***************************************************************************)
EXTENDS KeyEvents, Integers, Sequences

CONSTANTS
  Kind,        \* each key: "pico", "rskey", "rskeyFido" or "legacy"
  Bytes,       \* brightness a key may hold
  Calm,        \* keys are not moved, nor read anew, between the check and the last write
  AtPrompt,    \* whether they are also moved while the PIN is asked for
  LostAnswers, \* whether a write may be done and reported as failed
  Attempts,    \* POST_WRITE_READ_ATTEMPTS
  MaxInputs,   \* bound: edits and applications in one behaviour
  None

ConfigAssumption ==
  /\ Kind \in [Keys -> {"pico", "rskey", "rskeyFido", "legacy"}]
  /\ Bytes \subseteq 0..255 /\ {Calm, AtPrompt, LostAnswers} \subseteq BOOLEAN /\ Attempts \in Nat \ {0} /\ MaxInputs \in Nat

VARIABLES
  cfg, booting,    \* each key: its settings; whether it restarts
  selected,        \* the board the card sessions are for
  base,            \* DeviceRepo: the settings of the key it shows
  rows, form, loading, task, dialog, \* the view
  plan,            \* what Apply sends
  wrote, picked, touched, doubt, inputs  \* history

key == <<cfg, booting>>
history == <<wrote, picked, touched, doubt>>
vars == <<keyVars, key, selected, base, rows, form, loading, task, dialog, plan, history, inputs>>

Card(k) == Kind[k] \in {"pico", "rskey"}
IsRsKey(k) == k \in Keys /\ Kind[k] \in {"rskey", "rskeyFido"}
HasLights(k) == k # NoKey /\ Kind[k] # "legacy"

Slots == 1..2
TooLong == 2
Orders == {None} \cup 0..2
Gpios == {None, 1}
Settings == [order : Orders, gpio : Gpios, name : 0..1, light : [Slots -> 0..255]]
Default == [order |-> None, gpio |-> None, name |-> 0, light |-> [i \in Slots |-> CHOOSE b \in Bytes : TRUE]]

\* The colour orders, as the list names them, and their numbers: RS-Key has
\* only two of them and other numbers.
AllOrders(rs) == IF rs THEN <<"RGB", "GRB">> ELSE <<"RGB", "RBG", "GRB">>
Value(o, rs) == CASE o = "RGB" -> 0 [] o = "RBG" -> 1 [] o = "GRB" -> IF rs THEN 1 ELSE 2
Row(v, rs) == IF v = None \/ v = 0 THEN 1 ELSE IF rs THEN 2 ELSE v + 1

\* brightness_level() and parse_light_level(): a byte as one of fifteen levels.
Level(b) == LET l == (b + 8) \div 17 IN IF l < 1 THEN 1 ELSE IF l > 15 THEN 15 ELSE l
Byte(level) == 17 * level
Levels == {Level(b) : b \in Bytes}

FormOf(k, s, before) ==
  [row |-> Row(s.order, IsRsKey(k)), gpio |-> s.gpio, name |-> s.name,
   light |-> IF HasLights(k) THEN [i \in Slots |-> Level(s.light[i])] ELSE before]

Idle == [stage |-> "none", expected |-> NoKey, tries |-> 0, slot |-> 1]
NoPlan == [for |-> NoKey, phy |-> None, led |-> None, was |-> Default, touched |-> {}, sure |-> TRUE]

TypeOK ==
  /\ KeyTypeOK
  /\ cfg \in [Keys -> Settings] /\ booting \in [Keys -> BOOLEAN] /\ selected \in Sockets
  /\ base \in Settings /\ loading \in BOOLEAN
  /\ rows \in {<<>>, AllOrders(TRUE), AllOrders(FALSE)}
  /\ form \in [row : 1..3, gpio : Gpios, name : 0..TooLong, light : [Slots -> Levels]]
  /\ task \in [stage : {"none", "check", "led", "phy", "read", "done", "error", "changed"},
               expected : Sockets, tries : 0..Attempts, slot : Slots]
  /\ dialog \in {"closed", "pin", "working", "success", "error"}
  /\ wrote \subseteq Keys /\ inputs \in 0..MaxInputs

Init ==
  /\ KeyInit /\ selected = plugged
  /\ \E o \in {None, 1}, b \in Bytes : cfg = [k \in Keys |-> [Default EXCEPT !.order = o, !.gpio = o, !.light[1] = b]]
  /\ booting = [k \in Keys |-> FALSE]
  /\ base = (IF shown = NoKey THEN Default ELSE cfg[shown])
  /\ rows = <<>> /\ form = FormOf(NoKey, Default, [i \in Slots |-> Level(Default.light[i])])
  /\ loading = FALSE /\ task = Idle /\ dialog = "closed" /\ plan = NoPlan
  /\ wrote = {} /\ picked = "none" /\ touched = {} /\ doubt = FALSE /\ inputs = 0

-----------------------------------------------------------------------------
\* Events.

Up == plugged # NoKey /\ ~booting[plugged]

Resync == /\ form' = FormOf(shown', base', form.light)
          /\ picked' = "none" /\ touched' = {}

\* The view is made when the page is first opened; its list of orders is for
\* the key of that moment.
Visit ==
  /\ rows = <<>> /\ rows' = AllOrders(IsRsKey(shown))
  /\ form' = FormOf(shown, base, form.light)
  /\ UNCHANGED <<keyVars, key, selected, base, loading, task, dialog, plan, history, inputs>>

\* refresh(): a discovery, whatever the form is doing.
OnDeviceEvent ==
  /\ UNCHANGED plugged
  /\ \/ /\ AnnounceRead /\ (plugged # NoKey => Up) /\ selected' = plugged /\ doubt' = FALSE
        /\ base' = IF plugged = NoKey THEN Default ELSE cfg[plugged]
     \/ AnnounceFailure /\ base' = Default /\ UNCHANGED <<selected, doubt>>
     \/ AnnounceBusy /\ UNCHANGED <<base, selected, doubt>>
  /\ Calm => task.stage \in {"none", "check"} /\ (dialog = "pin" => AtPrompt)
  /\ IF rows = <<>> THEN UNCHANGED <<form, picked, touched>> ELSE Resync
  /\ UNCHANGED <<key, rows, loading, task, dialog, plan, wrote, inputs>>

Move ==
  /\ Plug /\ (Calm => task.stage \in {"none", "check", "read"}) /\ (dialog = "pin" => AtPrompt)
  /\ UNCHANGED <<key, selected, base, rows, form, loading, task, dialog, plan, history, inputs>>

Boot ==
  /\ \E k \in Keys : booting[k] /\ booting' = [booting EXCEPT ![k] = FALSE]
  /\ UNCHANGED <<keyVars, cfg, selected, base, rows, form, loading, task, dialog, plan, history, inputs>>

-----------------------------------------------------------------------------
\* The user.

Part(i) == IF i = 1 THEN "first" ELSE "second"
Edits == rows # <<>> /\ shown # NoKey /\ dialog = "closed" /\ inputs < MaxInputs /\ inputs' = inputs + 1
Edited(part) == touched' = touched \cup {part}

Edit ==
  /\ Edits
  /\ \/ /\ HasLights(shown) /\ Edited("order")
        /\ \E r \in 1..Len(rows) : form' = [form EXCEPT !.row = r] /\ picked' = rows[r]
     \/ \E g \in Gpios : form' = [form EXCEPT !.gpio = g] /\ Edited("gpio") /\ UNCHANGED picked
     \/ /\ Kind[shown] # "legacy" /\ Edited("name") /\ UNCHANGED picked
        /\ \E n \in 1..TooLong : form' = [form EXCEPT !.name = n]
     \/ /\ HasLights(shown) /\ UNCHANGED picked
        /\ \E i \in Slots, l \in Levels : form' = [form EXCEPT !.light[i] = l] /\ Edited(Part(i))
  /\ UNCHANGED <<keyVars, key, selected, base, rows, loading, task, dialog, plan, wrote, doubt>>

\* Mutant: the list's row is taken for the number.
FinalOrder_Row == IF form.row = 1 THEN 0 ELSE form.row - 1

\* Mutant: the numbers of the other firmware.
FinalOrder_Other ==
  LET rs == IsRsKey(shown)
      all == AllOrders(rs)
  IN  IF form.row = Row(base.order, rs) THEN base.order
      ELSE IF form.row \in DOMAIN all THEN Value(all[form.row], ~rs) ELSE None

\* A row that was not moved leaves what is there, a row the firmware does not
\* have leaves nothing.
FinalOrder ==
  LET rs == IsRsKey(shown)
      all == AllOrders(rs)
  IN  IF form.row = Row(base.order, rs) THEN base.order
      ELSE IF form.row \in DOMAIN all THEN Value(all[form.row], rs) ELSE None

\* The settings Apply sends: all of them, and always the names.
Changes == [order |-> FinalOrder, gpio |-> form.gpio, name |-> form.name]
Lights == [i \in Slots |-> Byte(form.light[i])]

Planned ==
  [for |-> shown, was |-> cfg[shown], touched |-> touched, sure |-> ~doubt,
   phy |-> IF Changes # [order |-> base.order, gpio |-> base.gpio, name |-> base.name] THEN Changes ELSE None,
   led |-> IF HasLights(shown) /\ Lights # base.light THEN Lights ELSE None]

\* write_config_to_device(): the serial is the one that is shown by now.
Start == task' = [Idle EXCEPT !.stage = "check", !.expected = shown] /\ loading' = TRUE /\ dialog' = "working"

Apply ==
  /\ Edits /\ ~loading /\ (Planned.phy # None \/ Planned.led # None)
  /\ plan' = Planned /\ wrote' = {}
  /\ IF Card(shown) THEN Start ELSE dialog' = "pin" /\ UNCHANGED <<task, loading>>
  /\ UNCHANGED <<keyVars, key, selected, base, rows, form, picked, touched, doubt>>

Confirm ==
  /\ dialog = "pin" /\ Start
  /\ UNCHANGED <<keyVars, key, selected, base, rows, form, plan, history, inputs>>

Close ==
  /\ dialog \in {"pin", "success", "error"} /\ dialog' = "closed"
  /\ UNCHANGED <<keyVars, key, selected, base, rows, form, loading, task, plan, history, inputs>>

-----------------------------------------------------------------------------
\* The writes.

Background == UNCHANGED <<keyVars, base, rows, form, loading, dialog, plan, picked, touched, inputs>>
Goes(stage) == task' = [task EXCEPT !.stage = stage]
\* Mutant: the hardware settings come first.
AfterCheck_Phy == IF plan.phy # None THEN "phy" ELSE "led"

AfterCheck == IF plan.led # None THEN "led" ELSE "phy"
AfterLed == IF plan.phy # None THEN "phy" ELSE "read"

\* Mutant: another key is not noticed.
Matches_Any == TRUE

\* No serial to expect is no reason to stop; no serial to be read is one.
Matches == task.expected = NoKey \/ (Up /\ plugged = task.expected)

Check ==
  /\ task.stage = "check" /\ Background
  /\ selected' = IF Up THEN plugged ELSE selected
  /\ \/ Matches /\ Goes(AfterCheck)
     \/ (~Matches \/ (DriverErrors /\ task.expected # NoKey)) /\ Goes("changed")
  /\ UNCHANGED <<key, wrote, doubt>>

\* A session of the card interface is for the board that was selected.
Opens ==
  /\ Up
  /\ IF Card(plan.for) THEN plugged = selected /\ Card(plugged)
     ELSE Kind[plugged] # "pico"

\* validate_fido_config_changes(): the older protocol has no names.
Validated(k) == k # NoKey /\ Kind[k] = "legacy" => "name" \notin DOMAIN plan.phy

\* What a write leaves, and its answer: taken, or lost.
Stored(k, s, next) ==
  /\ cfg' = [cfg EXCEPT ![k] = s] /\ wrote' = wrote \cup {k}
  /\ \/ next /\ doubt' = (doubt \/ task'.stage = "error")
     \/ LostAnswers /\ Goes("error") /\ doubt' = TRUE

\* Mutant: the lights are written as far as the first.
WriteLed_One ==
  /\ task.stage = "led" /\ Background /\ Opens /\ HasLights(plugged)
  /\ Stored(plugged, [cfg[plugged] EXCEPT !.light[1] = plan.led[1]], Goes(AfterLed))
  /\ UNCHANGED <<booting, selected>>

\* RS-Key over the card interface: one session for each light.
WriteLed ==
  /\ task.stage = "led" /\ Background /\ Opens /\ HasLights(plugged)
  /\ IF Kind[plugged] = "rskey" /\ Card(plan.for)
     THEN Stored(plugged, [cfg[plugged] EXCEPT !.light[task.slot] = plan.led[task.slot]],
            IF task.slot = 1 THEN task' = [task EXCEPT !.slot = 2] ELSE Goes(AfterLed))
     ELSE Stored(plugged, [cfg[plugged] EXCEPT !.light = plan.led], Goes(AfterLed))
  /\ UNCHANGED <<booting, selected>>

\* Pico All replaces the record; its lights are read and sent along.
Replaced(s) == [s EXCEPT !.order = plan.phy.order, !.gpio = plan.phy.gpio, !.name = plan.phy.name]

\* RS-Key keeps what is not sent.
Merged(s) ==
  [s EXCEPT !.order = IF plan.phy.order = None THEN @ ELSE plan.phy.order,
            !.gpio = IF plan.phy.gpio = None THEN @ ELSE plan.phy.gpio, !.name = plan.phy.name]

\* Mutant: what was saved is not read back.
Verified_Not(s) == TRUE

\* verify_phy_write().
Verified(s) == s = Replaced(s)

\* A firmware may drop a setting without a word; an RS-Key restarts.
WritePhy ==
  /\ task.stage = "phy" /\ Background /\ Opens /\ plan.phy.name # TooLong
  /\ Validated(plugged)
  /\ IF Kind[plugged] = "pico"
     THEN \E new \in {Replaced(cfg[plugged]), [Replaced(cfg[plugged]) EXCEPT !.order = None]} :
            Stored(plugged, new, IF Verified(new) THEN Goes("read") ELSE Goes("error")) /\ UNCHANGED booting
     ELSE /\ Stored(plugged, Merged(cfg[plugged]), Goes("read"))
          /\ booting' \in {booting, [booting EXCEPT ![plugged] = TRUE]}
  /\ UNCHANGED selected

\* No session, no touch, a name that is too long, or a key that has not got the
\* setting.
Refuse ==
  /\ task.stage \in {"led", "phy"} /\ Background
  /\ \/ ~Opens \/ DriverErrors
     \/ task.stage = "led" /\ ~HasLights(plugged)
     \/ task.stage = "phy" /\ (plan.phy.name = TooLong \/ ~Validated(plugged))
  /\ Goes("error") /\ doubt' = (doubt \/ wrote # {})
  /\ UNCHANGED <<key, selected, wrote>>

-----------------------------------------------------------------------------
\* The settings are read again, and shown.

\* Mutant: the first failure is the last.
GivesUp_First == TRUE

\* Mutant: it waits for ever.
GivesUp_Never == FALSE

GivesUp == task.tries + 1 = Attempts

\* Assumption: a key that restarts is back before the attempts are used up.
ReadFails ==
  /\ task.stage = "read" /\ ~Up /\ Background
  /\ (plugged # NoKey => task.tries + 1 < Attempts)
  /\ task' = [task EXCEPT !.tries = @ + 1, !.stage = IF GivesUp THEN "done" ELSE "read"]
  /\ UNCHANGED <<key, selected, wrote, doubt>>

Landing == loading' = FALSE /\ task' = Idle /\ UNCHANGED <<key, rows, plan, wrote, inputs>>

\* apply_fresh_state(), if it is the key that was expected; its event fills the form.
ReadBack ==
  /\ task.stage = "read" /\ Up /\ Landing /\ dialog' = "success" /\ selected' = plugged
  /\ IF plugged = task.expected
     THEN /\ base' = cfg[plugged] /\ shown' = plugged /\ stirred' = FALSE /\ doubt' = FALSE
          /\ deviceChanged' = (shown # plugged) /\ Resync /\ UNCHANGED plugged
     ELSE doubt' = TRUE /\ UNCHANGED <<keyVars, base, form, picked, touched>>

LandUnread ==
  /\ task.stage = "done" /\ Landing /\ dialog' = "success" /\ doubt' = TRUE
  /\ UNCHANGED <<keyVars, base, form, selected, picked, touched>>

\* Mutant: the page stays as it was while it worked.
LandError_Busy ==
  /\ task.stage \in {"error", "changed"} /\ task' = Idle /\ dialog' = "error"
  /\ UNCHANGED <<keyVars, key, selected, base, rows, form, loading, plan, history, inputs>>

\* Mutant: the dialog is not told.
LandError_Silent ==
  /\ task.stage \in {"error", "changed"} /\ Landing
  /\ UNCHANGED <<keyVars, base, form, selected, picked, touched, doubt, dialog>>

LandError ==
  /\ task.stage \in {"error", "changed"} /\ Landing /\ dialog' = "error"
  /\ UNCHANGED <<keyVars, base, form, selected, picked, touched, doubt>>

Work == Check \/ WriteLed \/ WritePhy \/ Refuse \/ ReadFails
Land == ReadBack \/ LandUnread \/ LandError
Next == Visit \/ Edit \/ Apply \/ Confirm \/ Close \/ Work \/ Land \/ Boot \/ Move \/ OnDeviceEvent

\* The executor and the timer go on, and a key that restarts comes back.
Spec == Init /\ [][Next]_vars /\ WF_vars(Work) /\ WF_vars(Land) /\ WF_vars(Boot)

-----------------------------------------------------------------------------
\* The page refuses to apply exactly while a task will clear `loading`.
LoadingIsTask == loading <=> task.stage # "none"

\* Changes that were computed for one key are written to no other.
WritesItsKey == wrote \subseteq {plan.for}

\* What is reported as applied is what the key holds, except what was left blank
\* on a key that keeps it.
AppliedIsStored ==
  dialog = "success" /\ wrote = {plan.for} /\ ~doubt =>
    LET s == cfg[plan.for] IN
    /\ plan.led # None => s.light = plan.led
    /\ plan.phy # None => s = (IF Kind[plan.for] = "pico" THEN Replaced(s) ELSE Merged(s))

\* The colour order that is sent is the one the user chose by its name.
OrderAsPicked ==
  plan' # plan /\ picked # "none" /\ plan'.phy # None => Row(plan'.phy.order, FALSE) = Value(picked, IsRsKey(shown)) + 1

\* What the user did not touch stays: a light at its level, a setting as it was.
UntouchedStays ==
  wrote = {plan.for} /\ plan.sure /\ task.stage \in {"read", "done"} =>
    /\ "order" \notin plan.touched => cfg[plan.for].order = plan.was.order
    /\ "gpio" \notin plan.touched => cfg[plan.for].gpio = plan.was.gpio
    /\ \A i \in Slots : Part(i) \notin plan.touched => Level(cfg[plan.for].light[i]) = Level(plan.was.light[i])

\* A key restarts only when nothing is left to be written: the lights come first.
RestartIsLast ==
  booting' # booting /\ (\E k \in Keys : booting'[k]) =>
    task.stage = "phy" /\ (plan.led # None => cfg[plugged].light = plan.led)

\* After a success the page shows what the key holds.
ShownAfterSuccess == dialog = "success" /\ shown = plan.for /\ ~stirred => base = cfg[shown]
=============================================================================
