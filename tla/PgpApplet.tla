----------------------------- MODULE PgpApplet -----------------------------
(***************************************************************************)
(* The OpenPGP operations: the dialogs of ui/screens/openpgp, hal/io.rs    *)
(* and hal/applets/openpgp.rs, one command of the card at a time.          *)
(*                                                                         *)
(* A dialog checks the form; the operation opens a session, proves the     *)
(* admin PIN when its commands need it, gives them, and ends at the first  *)
(* that fails.  After a success the screen reads the card again.  The card *)
(* itself is external: its part is modelled as the code relies on it.      *)
(***************************************************************************)
EXTENDS Naturals, Sequences

CONSTANTS
  Entries,     \* what may be typed in a secret's field; Empty is nothing
  Empty,
  LongEntries, \* those of 8 bytes and more, the others have 6 or 7
  DefaultPw1, DefaultPw3,
  Zeros,       \* "00000000", the guess that blocks
  MaxTries,    \* what the card counts down from; reset() guesses ten times
  Rounds,
  Algos, Slots,
  MaxOps       \* bound: operations in one behaviour

PgpAssumption ==
  /\ {Empty, DefaultPw1, DefaultPw3} \subseteq Entries /\ LongEntries \subseteq Entries \ {Empty}
  /\ DefaultPw3 \in LongEntries /\ DefaultPw1 # Empty
  /\ MaxTries \in Nat \ {0} /\ Rounds \in Nat /\ MaxTries <= Rounds /\ MaxOps \in Nat

VARIABLES
  pins,      \* the card: PW1, PW3 and the reset code, [value, left]
  attrs,     \* the card: each slot's algorithm attribute
  keys,      \* the card: the algorithm and the maker of each slot's key, or <<>>
  touch,     \* the card: each slot's touch policy
  holder,    \* the card: by which operation each cardholder field was written
  life,      \* the card: "active" or "terminated"
  piv,       \* the card: PIV's retry counters are as PIV left them
  isolated,  \* the card: resetting this applet leaves PIV alone
  admin,     \* the session has proved PW3
  op,        \* the operation: its commands to come, or <<>>
  asked,     \* the command the last operation was for
  said,      \* what the dialog said of it
  shown,     \* what the screen shows of the card
  ops

applet == <<pins, attrs, keys, touch, holder, life, piv, isolated>>
vars == <<applet, admin, op, asked, said, shown, ops>>

References == {"PW1", "PW3", "RC"}
Fields == <<"name", "login", "url", "lang", "sex">>
FieldSet == {Fields[i] : i \in 1..Len(Fields)}
NoKey == <<>>

\* read_info()
Info == [keys |-> [s \in Slots |-> keys[s] # NoKey], algo |-> attrs, touch |-> touch, holder |-> holder,
         left |-> [r \in References |-> pins[r].left],
         default |-> [PW1 |-> pins["PW1"].value = DefaultPw1, PW3 |-> pins["PW3"].value = DefaultPw3]]

TypeOK ==
  /\ pins \in [References -> [value : Entries, left : 0..MaxTries]]
  /\ attrs \in [Slots -> Algos] /\ touch \in [Slots -> BOOLEAN]
  /\ \A s \in Slots : keys[s] # NoKey => keys[s] \in Algos \X (0..MaxOps)
  /\ holder \in [FieldSet -> 0..MaxOps] /\ life \in {"active", "terminated"}
  /\ piv \in BOOLEAN /\ isolated \in BOOLEAN /\ admin \in BOOLEAN
  /\ said \in {"", "busy", "refused", "failed", "done"}
  /\ ops \in 0..MaxOps

Fresh(value) == [value |-> value, left |-> IF value = Empty THEN 0 ELSE MaxTries]

Init ==
  /\ pins \in {[PW1 |-> Fresh(u), PW3 |-> Fresh(a), RC |-> Fresh(Empty)] : u \in Entries \ {Empty}, a \in LongEntries}
  /\ attrs \in {[s \in Slots |-> a] : a \in Algos}
  /\ keys \in {[s \in Slots |-> NoKey], [s \in Slots |-> <<attrs[s], 0>>]}
  /\ touch = [s \in Slots |-> FALSE] /\ holder = [f \in FieldSet |-> 0]
  /\ life = "active" /\ piv = TRUE /\ isolated \in BOOLEAN
  /\ admin = FALSE /\ op = <<>> /\ asked = <<"none">> /\ said = "" /\ shown = Info /\ ops = 0

-----------------------------------------------------------------------------
\* The dialogs, and what an operation sends.

\* validate_new_pin(), behind a form that requires its fields.
MayBe(ref) == IF ref = "PW1" THEN Entries \ {Empty} ELSE LongEntries

\* Mutant: the PIN is proved and the commands given in sessions of their own.
AsAdmin_Reopened(a, commands) == << <<"select">>, <<"verify", a>>, <<"select">> >> \o commands

\* openpgp_admin()
AsAdmin(a, commands) == << <<"select">>, <<"verify", a>> >> \o commands

\* A request: what is asked, the new secret it would set, and its commands.
Request(ask, ref, new, commands) == [ask |-> ask, ref |-> ref, new |-> new, commands |-> commands]

ChangePin ==
  {Request(<<"change", r, new>>, r, new, << <<"select">>, <<"change", r, old, new>> >>) :
     r \in {"PW1", "PW3"}, old \in Entries \ {Empty}, new \in Entries}
UnblockWithCode ==
  {Request(<<"unblock", new>>, "PW1", new, << <<"select">>, <<"unblock", rc, new>> >>) :
     rc \in Entries \ {Empty}, new \in Entries}
UnblockWithAdmin ==
  {Request(<<"unblock", new>>, "PW1", new, AsAdmin(a, << <<"reset_retry", new>> >>)) :
     a \in Entries \ {Empty}, new \in Entries}
SetResetCode ==
  {Request(<<"code", new>>, "RC", new, AsAdmin(a, << <<"put_code", new>> >>)) :
     a \in Entries \ {Empty}, new \in Entries}
SetCardholder ==
  {Request(<<"holder">>, "PW1", DefaultPw1, AsAdmin(a, [i \in 1..Len(Fields) |-> <<"put_field", Fields[i]>>])) :
     a \in Entries \ {Empty}}
SetTouch ==
  {Request(<<"touch", s, on>>, "PW1", DefaultPw1, AsAdmin(a, << <<"put_touch", s, on>> >>)) :
     a \in Entries \ {Empty}, s \in Slots, on \in BOOLEAN}
\* Mutant: a choice beyond the table is sent.
Choices_Beyond == Algos \cup {"none"}

\* algo_attr() has an attribute for every choice the dialog offers.
Choices == Algos

Generate ==
  {Request(<<"generate", s, g>>, "PW1", DefaultPw1, AsAdmin(a, << <<"put_attr", s, g>>, <<"generate", s>> >>)) :
     a \in Entries \ {Empty}, s \in Slots, g \in Choices}

\* Mutant: the firmware's version is not asked for.
ResetApplet_Any ==
  {Request(<<"reset">>, "PW1", DefaultPw1,
     << <<"select">>, <<"guess", "PW1", 1>>, <<"guess", "PW3", 1>>, <<"terminate">>, <<"activate">> >>)}

ResetApplet ==
  {Request(<<"reset">>, "PW1", DefaultPw1,
     << <<"select">>, <<"version">>, <<"guess", "PW1", 1>>, <<"guess", "PW3", 1>>, <<"terminate">>, <<"activate">> >>)}

Requests == ChangePin \cup UnblockWithCode \cup UnblockWithAdmin \cup SetResetCode \cup SetCardholder
            \cup SetTouch \cup Generate \cup ResetApplet

\* The user confirms a dialog; a form that is not valid stays open.
Confirm ==
  /\ op = <<>> /\ ops < MaxOps /\ ops' = ops + 1
  /\ \E r \in Requests :
       /\ asked' = r.ask
       /\ IF r.new \in MayBe(r.ref) THEN op' = r.commands /\ said' = "busy"
          ELSE op' = <<>> /\ said' = "refused"
  /\ UNCHANGED <<applet, admin, shown>>

-----------------------------------------------------------------------------
\* How an operation goes on and ends; run() of the view model.

Step(name) == op # <<>> /\ Head(op)[1] = name /\ UNCHANGED <<asked, ops>>
Arg(i) == Head(op)[i + 1]

\* Mutant: an error does not end the operation.
Fail_GoesOn == op' = Tail(op) /\ said' = (IF Tail(op) = <<>> THEN "done" ELSE said) /\ UNCHANGED shown

Fail == op' = <<>> /\ said' = "failed" /\ UNCHANGED shown

\* Mutant: the screen keeps what it showed.
Advance_NoReload == op' = Tail(op) /\ said' = (IF Tail(op) = <<>> THEN "done" ELSE said) /\ UNCHANGED shown

Advance ==
  /\ op' = Tail(op)
  /\ IF Tail(op) = <<>> THEN said' = "done" /\ shown' = Info' ELSE UNCHANGED <<said, shown>>

Accepts(r, value) == pins[r].left > 0 /\ pins[r].value = value
Restored(r) == [pins EXCEPT ![r].left = MaxTries]
Charged(r) == [pins EXCEPT ![r].left = IF @ > 0 THEN @ - 1 ELSE 0]

Select ==
  /\ Step("select") /\ admin' = FALSE
  /\ UNCHANGED applet
  /\ IF life = "active" THEN Advance ELSE Fail

Verify ==
  /\ Step("verify") /\ UNCHANGED <<attrs, keys, touch, holder, life, piv, isolated>>
  /\ IF Accepts("PW3", Arg(1)) THEN pins' = Restored("PW3") /\ admin' = TRUE /\ Advance
     ELSE pins' = Charged("PW3") /\ Fail /\ UNCHANGED admin

\* change_pin() and unblock_with_rc(): one command, the old secret and the new.
Replace(r, t, old, new) ==
  /\ UNCHANGED <<attrs, keys, touch, holder, life, piv, isolated, admin>>
  /\ IF Accepts(r, old) THEN pins' = [Restored(r) EXCEPT ![t] = Fresh(new)] /\ Advance
     ELSE pins' = Charged(r) /\ Fail

ChangeRef == Step("change") /\ Replace(Arg(1), Arg(1), Arg(2), Arg(3))
Unblock == Step("unblock") /\ Replace("RC", "PW1", Arg(1), Arg(2))

\* A command only the admin PIN opens.
Gated(name) == Step(name) /\ UNCHANGED <<life, piv, isolated, admin>>
Opened == IF admin THEN Advance ELSE Fail

\* Mutant: the attribute goes to every slot.
PutAttr_All(s, g) == [t \in Slots |-> g]

PutAttr(s, g) == [attrs EXCEPT ![s] = g]

PutPin(name, r) ==
  /\ Gated(name) /\ UNCHANGED <<attrs, keys, touch, holder>>
  /\ pins' = IF admin THEN [pins EXCEPT ![r] = Fresh(Arg(1))] ELSE pins
  /\ Opened

PutField ==
  /\ Gated("put_field") /\ UNCHANGED <<pins, attrs, keys, touch>>
  /\ holder' = IF admin THEN [holder EXCEPT ![Arg(1)] = ops] ELSE holder
  /\ Opened

PutTouch ==
  /\ Gated("put_touch") /\ UNCHANGED <<pins, attrs, keys, holder>>
  /\ touch' = IF admin THEN [touch EXCEPT ![Arg(1)] = Arg(2)] ELSE touch
  /\ Opened

\* A slot given another algorithm loses its key.
PutAlgo ==
  /\ Gated("put_attr") /\ UNCHANGED <<pins, touch, holder>>
  /\ attrs' = IF admin THEN PutAttr(Arg(1), Arg(2)) ELSE attrs
  /\ keys' = [s \in Slots |-> IF attrs'[s] = attrs[s] THEN keys[s] ELSE NoKey]
  /\ Opened

MakeKey ==
  /\ Gated("generate") /\ UNCHANGED <<pins, attrs, touch, holder>>
  /\ keys' = IF admin THEN [keys EXCEPT ![Arg(1)] = <<attrs[Arg(1)], ops>>] ELSE keys
  /\ Opened

-----------------------------------------------------------------------------
\* reset()

\* isolated_reset_supported(); a card that is no Pico All is not asked.
Version ==
  /\ Step("version") /\ UNCHANGED <<applet, admin>>
  /\ IF isolated THEN Advance ELSE Fail

\* Mutant: the loop is one round short of what the card counts from.
GuessOver_Short == pins[Arg(1)].left = 0 \/ Arg(2) = MaxTries - 1

\* The card says 6983 of a blocked PIN; the loop has ten rounds.
GuessOver == pins[Arg(1)].left = 0 \/ Arg(2) = Rounds

\* Mutant: a guess that is accepted is no round.
NextRound_Rejected == IF Accepts(Arg(1), Zeros) THEN Arg(2) ELSE Arg(2) + 1

NextRound == Arg(2) + 1

Guess ==
  /\ Step("guess") /\ UNCHANGED <<attrs, keys, touch, holder, life, piv, isolated, said, shown>>
  /\ op' = IF GuessOver THEN Tail(op) ELSE <<[Head(op) EXCEPT ![3] = NextRound]>> \o Tail(op)
  /\ pins' = IF Accepts(Arg(1), Zeros) THEN Restored(Arg(1)) ELSE Charged(Arg(1))
  /\ admin' = (admin \/ (Arg(1) = "PW3" /\ Accepts("PW3", Zeros)))

Blocked == pins["PW1"].left = 0 /\ pins["PW3"].left = 0

Terminate ==
  /\ Step("terminate") /\ UNCHANGED <<pins, attrs, keys, touch, holder, piv, isolated, admin>>
  /\ IF Blocked \/ admin THEN life' = "terminated" /\ Advance ELSE UNCHANGED life /\ Fail

Activate ==
  /\ Step("activate") /\ life' = "active" /\ UNCHANGED <<isolated, admin>>
  /\ pins' = [PW1 |-> Fresh(DefaultPw1), PW3 |-> Fresh(DefaultPw3), RC |-> Fresh(Empty)]
  /\ keys' = [s \in Slots |-> NoKey] /\ touch' = [s \in Slots |-> FALSE]
  /\ holder' = [f \in FieldSet |-> 0] /\ piv' = (piv /\ isolated)
  /\ attrs' \in {[s \in Slots |-> a] : a \in Algos}
  /\ Advance

\* The card is pulled, or the reader fails.
Cut == op # <<>> /\ Fail /\ UNCHANGED <<applet, admin, asked, ops>>

-----------------------------------------------------------------------------
Put == PutPin("reset_retry", "PW1") \/ PutPin("put_code", "RC") \/ PutField \/ PutTouch \/ PutAlgo \/ MakeKey
Run == Select \/ Verify \/ ChangeRef \/ Unblock \/ Put \/ Version \/ Guess \/ Terminate \/ Activate

Next == Confirm \/ Run \/ Cut

\* An operation runs in a background thread until it ends.
Spec == Init /\ [][Next]_vars /\ WF_vars(Run)

-----------------------------------------------------------------------------
\* A command the admin PIN opens is given in the session that proved it, so
\* that a dialog filled in rightly is not refused halfway.
AdminProved ==
  op # <<>> /\ Head(op)[1] \in {"reset_retry", "put_code", "put_field", "put_touch", "put_attr", "generate"}
    => admin

\* "done" is said of an operation that is there as a whole: all the cardholder
\* fields, a key of the algorithm that was asked for, the secret that was typed.
DoneIsWhole ==
  said = "done" =>
    CASE asked[1] = "holder"   -> \A f \in FieldSet : holder[f] = ops
      [] asked[1] = "generate" -> keys[asked[2]] = <<asked[3], ops>> /\ attrs[asked[2]] = asked[3]
      [] asked[1] = "touch"    -> touch[asked[2]] = asked[3]
      [] asked[1] = "change"   -> pins[asked[2]] = Fresh(asked[3])
      [] asked[1] = "unblock"  -> pins["PW1"] = Fresh(asked[2])
      [] asked[1] = "code"     -> pins["RC"] = Fresh(asked[2])
      [] asked[1] = "reset"    -> Info.default = [PW1 |-> TRUE, PW3 |-> TRUE]

\* After a success the screen shows the card as it is.
ShownAfterSuccess == said = "done" => shown = Info

\* A key goes only where one is generated, or with the whole applet.
OtherKeysStay ==
  \A s \in Slots : keys[s] # NoKey /\ keys'[s] # keys[s] =>
       \/ asked = <<"reset">>
       \/ asked[1] = "generate" /\ asked[2] = s

\* Both PINs are blocked when TERMINATE is given.
BlockedBeforeTerminate == op # <<>> /\ Head(op)[1] = "terminate" => Blocked

\* Resetting this applet leaves PIV's counters alone.
PivStateKept == piv
=============================================================================
