----------------------------- MODULE PivApplet -----------------------------
(***************************************************************************)
(* The PIV operations of hal/io.rs, one command of the card at a time.     *)
(*                                                                         *)
(* An operation opens a session (SELECT forgets what was proved before),   *)
(* proves the management key, or the PIN that opens the card's copy of it, *)
(* and gives its command.  It ends at the first command that fails; the    *)
(* card may be pulled between any two.  The card itself is external: its   *)
(* part is modelled as the code relies on it.                              *)
(***************************************************************************)
EXTENDS Naturals, Sequences, SequencesExt

CONSTANTS
  Secrets,      \* PINs and PUKs
  FactoryPin, FactoryPuk,
  Zeros,        \* "00000000", the guess that blocks; a user may have chosen it
  MgmKeys, FactoryMgm,
  Tries,        \* retry limits the screen offers, scaled down
  FactoryTries,
  Slots,
  MaxOps        \* bound: operations in one behaviour

PivAssumption ==
  /\ {FactoryPin, FactoryPuk} \subseteq Secrets \ {Zeros} /\ FactoryMgm \in MgmKeys
  /\ Tries \subseteq Nat \ {0} /\ FactoryTries \in Tries /\ (\E m \in Tries : \A t \in Tries : t <= m)
  /\ MaxOps \in Nat

VARIABLES
  pin, puk,           \* [value, left, max]
  mgm,                \* the management key
  protected, printed, \* ADMIN DATA says a copy is kept; PRINTED is that copy
  slots,              \* what each slot holds
  authed, verified,   \* the session
  op,                 \* commands to come, or <<>>
  burnt,              \* history: PIN and PUK tries this operation has lost
  ops

card == <<pin, puk, mgm, protected, printed, slots>>
session == <<authed, verified>>
vars == <<card, session, op, burnt, ops>>

Commands == {"generate", "importKey", "importCert", "deleteCert", "deleteKey"}
Reference(value, max) == [value |-> value, left |-> max, max |-> max]
References == [value : Secrets, left : 0..(CHOOSE m \in Tries : \A t \in Tries : t <= m), max : Tries]
Contents == SUBSET {"key", "cert"}

TypeOK ==
  /\ pin \in References /\ puk \in References /\ pin.left <= pin.max /\ puk.left <= puk.max
  /\ mgm \in MgmKeys /\ printed \in MgmKeys /\ protected \in BOOLEAN
  /\ slots \in [Slots -> Contents]
  /\ authed \in BOOLEAN /\ verified \in BOOLEAN /\ ops \in 0..MaxOps
  /\ burnt \in 0..10

\* A new card, or one set up elsewhere, with ykman --protect or without.
Init ==
  /\ pin = Reference(FactoryPin, FactoryTries)
  /\ puk \in {Reference(s, FactoryTries) : s \in Secrets}
  /\ mgm \in MgmKeys /\ protected \in BOOLEAN /\ printed = mgm
  /\ slots \in [Slots -> {{}, {"key"}}]
  /\ authed = FALSE /\ verified = FALSE /\ op = <<>> /\ burnt = 0 /\ ops = 0

-----------------------------------------------------------------------------
\* What an operation sends.

\* piv_authed(): the screen offers the PIN way exactly when the card says so.
Authenticated ==
  IF protected THEN {<< <<"verify", p>>, <<"printed">>, <<"authenticate", printed>> >> : p \in Secrets}
  ELSE {<< <<"authenticate", k>> >> : k \in MgmKeys}

\* Mutant: the management key is proved in a session of its own.
Managed_Reopened(command) == {<< <<"select">> >> \o <<command>> : a \in Authenticated}

Managed(command) == {a \o <<command>> : a \in Authenticated}

SetRetries(m, n) == UNION {{a \o << <<"verify", p>>, <<"retries", m, n>> >> : a \in Authenticated} : p \in Secrets}

\* Mutant: the destination may be the slot itself.
Moves_Any == UNION {Managed(<<"move", s, t>>) : s \in Slots, t \in Slots}

Moves == UNION {Managed(c) : c \in {m \in {"move"} \X Slots \X Slots : m[2] # m[3]}}

Reset == << <<"blockPin", 0>>, <<"blockPuk", 0>>, <<"wipe">> >>

\* Mutant: a limit of nought is taken.
Offered_Any == Tries \cup {0}

\* The limits the dialog takes.
Offered == Tries

Plans ==
  {<<c>> : c \in {"changePin", "changePuk", "unblock"} \X Secrets \X Secrets}
  \cup (UNION {Managed(c) : c \in (Commands \X Slots) \cup ({"setMgm"} \X MgmKeys)})
  \cup Moves
  \cup (UNION {SetRetries(r[1], r[2]) : r \in Offered \X Offered})
  \cup {Reset}

\* One session at a time; it opens with SELECT, which forgets the one before.
Begin ==
  /\ op = <<>> /\ ops < MaxOps /\ ops' = ops + 1
  /\ \E plan \in Plans : op' = << <<"select">> >> \o plan
  /\ burnt' = 0
  /\ UNCHANGED <<card, session>>

-----------------------------------------------------------------------------
\* One command and its answer.

Step(name) == op # <<>> /\ Head(op)[1] = name /\ UNCHANGED ops
Arg(i) == Head(op)[i + 1]
Advance == op' = Tail(op)

\* Mutant: an error does not end the operation.
Abort_GoesOn == op' = Tail(op)

Abort == op' = <<>>

\* The card compares, counts, and refuses a blocked reference.
Accepts(ref, value) == ref.left > 0 /\ ref.value = value

Restored(ref) == [ref EXCEPT !.left = ref.max]
Charged(ref) == IF ref.left > 0 THEN [ref EXCEPT !.left = @ - 1] ELSE ref
Charge(ref) == burnt' = burnt + (IF ref.left > 0 THEN 1 ELSE 0)

Select == Step("select") /\ Advance /\ authed' = FALSE /\ verified' = FALSE /\ UNCHANGED <<card, burnt>>

Verify ==
  /\ Step("verify")
  /\ IF Accepts(pin, Arg(1)) THEN pin' = Restored(pin) /\ verified' = TRUE /\ Advance /\ UNCHANGED burnt
     ELSE pin' = Charged(pin) /\ Charge(pin) /\ Abort /\ UNCHANGED verified
  /\ UNCHANGED <<puk, mgm, protected, printed, slots, authed>>

\* read_protected_mgm()
ReadPrinted ==
  /\ Step("printed")
  /\ IF verified THEN Advance ELSE Abort
  /\ UNCHANGED <<card, session, burnt>>

Authenticate ==
  /\ Step("authenticate")
  /\ IF Arg(1) = mgm THEN authed' = TRUE /\ Advance ELSE Abort /\ UNCHANGED authed
  /\ UNCHANGED <<card, verified, burnt>>

\* change_ref() and unblock_pin(): one command, the old secret and the new.
ChangePin ==
  /\ Step("changePin") /\ Abort
  /\ IF Accepts(pin, Arg(1)) THEN pin' = Reference(Arg(2), pin.max) /\ UNCHANGED burnt
     ELSE pin' = Charged(pin) /\ Charge(pin)
  /\ UNCHANGED <<puk, mgm, protected, printed, slots, session>>

ChangePuk ==
  /\ Step("changePuk") /\ Abort
  /\ IF Accepts(puk, Arg(1)) THEN puk' = Reference(Arg(2), puk.max) /\ UNCHANGED burnt
     ELSE puk' = Charged(puk) /\ Charge(puk)
  /\ UNCHANGED <<pin, mgm, protected, printed, slots, session>>

Unblock ==
  /\ Step("unblock") /\ Abort
  /\ IF Accepts(puk, Arg(1))
     THEN pin' = Reference(Arg(2), pin.max) /\ puk' = Restored(puk) /\ UNCHANGED burnt
     ELSE puk' = Charged(puk) /\ Charge(puk) /\ UNCHANGED pin
  /\ UNCHANGED <<mgm, protected, printed, slots, session>>

\* What a managed command leaves in the slot.
Held(command, s) ==
  CASE command = "generate"   -> {"key", "cert"}
    [] command = "importKey"  -> slots[s] \cup {"key"}
    [] command = "importCert" -> slots[s] \cup {"cert"}
    [] command = "deleteCert" -> slots[s] \ {"cert"}
    [] command = "deleteKey"  -> {}

\* Move empties the slot that was moved from.
Moved(s, t) == [[slots EXCEPT ![t] = slots[s]] EXCEPT ![s] = {}]

Command ==
  /\ op # <<>> /\ Head(op)[1] \in Commands \cup {"move"} /\ UNCHANGED ops
  /\ Advance
  /\ IF ~authed THEN UNCHANGED slots
     ELSE slots' = IF Head(op)[1] = "move" THEN Moved(Arg(1), Arg(2))
                   ELSE [slots EXCEPT ![Arg(1)] = Held(Head(op)[1], Arg(1))]
  /\ UNCHANGED <<pin, puk, mgm, protected, printed, session, burnt>>

\* set_mgm() writes the key and nothing else.
SetMgm ==
  /\ Step("setMgm") /\ Advance
  /\ mgm' = IF authed THEN Arg(1) ELSE mgm
  /\ UNCHANGED <<pin, puk, protected, printed, slots, session, burnt>>

\* set_retries(): the card puts both secrets back to the factory's.
Retries ==
  /\ Step("retries") /\ Advance
  /\ IF authed /\ verified
     THEN pin' = Reference(FactoryPin, Arg(1)) /\ puk' = Reference(FactoryPuk, Arg(2))
     ELSE UNCHANGED <<pin, puk>>
  /\ UNCHANGED <<mgm, protected, printed, slots, session, burnt>>

-----------------------------------------------------------------------------
\* reset()

\* Mutant: a loop shorter than the limit a card may have been given.
Rounds_Fixed == FactoryTries

\* PIN_BLOCK_MAX_TRIES is above every limit a card may have been given.
Rounds == 1 + CHOOSE m \in Tries : \A t \in Tries : t <= m

\* Mutant: a guess that is accepted does not count.
Guessed_NotCounted(ref) ==
  IF ref.left = 0 \/ Arg(1) + 1 = Rounds THEN Advance
  ELSE op' = <<[Head(op) EXCEPT ![2] = IF ref.value = Zeros THEN @ ELSE @ + 1]>> \o Tail(op)

\* The loop goes on until the reference is blocked, or its rounds are over.
Guessed(ref) ==
  IF ref.left = 0 \/ Arg(1) + 1 = Rounds THEN Advance
  ELSE op' = <<[Head(op) EXCEPT ![2] = @ + 1]>> \o Tail(op)

BlockPin ==
  /\ Step("blockPin") /\ Guessed(pin)
  /\ pin' = IF Accepts(pin, Zeros) THEN Restored(pin) ELSE Charged(pin)
  /\ verified' = (verified \/ Accepts(pin, Zeros))
  /\ UNCHANGED <<puk, mgm, protected, printed, slots, authed, burnt>>

\* The guess offers itself as the new PIN.
BlockPuk ==
  /\ Step("blockPuk") /\ Guessed(puk)
  /\ IF Accepts(puk, Zeros) THEN puk' = Restored(puk) /\ pin' = Reference(Zeros, pin.max)
     ELSE puk' = Charged(puk) /\ UNCHANGED pin
  /\ UNCHANGED <<mgm, protected, printed, slots, session, burnt>>

Blocked == pin.left = 0 /\ puk.left = 0

Wipe ==
  /\ Step("wipe") /\ Advance
  /\ IF Blocked
     THEN /\ pin' = Reference(FactoryPin, FactoryTries) /\ puk' = Reference(FactoryPuk, FactoryTries)
          /\ mgm' = FactoryMgm /\ printed' = FactoryMgm /\ protected' = FALSE
          /\ slots' = [s \in Slots |-> {}]
     ELSE UNCHANGED card
  /\ UNCHANGED <<session, burnt>>

\* The card is pulled, or the reader fails.
Cut == op # <<>> /\ Abort /\ UNCHANGED <<card, session, burnt, ops>>

-----------------------------------------------------------------------------
Run == Select \/ Verify \/ ReadPrinted \/ Authenticate \/ ChangePin \/ ChangePuk \/ Unblock \/ Command \/ SetMgm
       \/ Retries \/ BlockPin \/ BlockPuk \/ Wipe

Next == Begin \/ Run \/ Cut

\* An operation runs in a background thread until it ends.
Spec == Init /\ [][Next]_vars /\ WF_vars(Run)

-----------------------------------------------------------------------------
\* An operation never costs more than one try, whatever was typed: the
\* commands that would burn a second one are not sent.
OneTryPerOp == burnt <= 1

\* A command the management key gates is given in the session that proved it;
\* the retry limits in one that proved the PIN as well.
CommandIsAuthorised ==
  op # <<>> =>
    /\ Head(op)[1] \in Commands \cup {"move", "setMgm", "retries"} => authed
    /\ Head(op)[1] = "retries" => verified

\* When RESET is sent both references are blocked, from any state of the card:
\* after a reset that was cut, or with raised retry limits.
BlockedBeforeWipe == op # <<>> /\ Head(op)[1] = "wipe" => Blocked

\* A key leaves its slot only by being deleted, moved to another slot, or
\* with the whole applet.
KeysGoAsAsked ==
  \A s \in Slots : "key" \in slots[s] /\ "key" \notin slots'[s] =>
       \/ Head(op)[1] \in {"deleteKey", "wipe"}
       \/ Head(op)[1] = "move" /\ "key" \in slots'[Arg(2)] /\ Arg(1) = s
       \/ Head(op)[1] = "move" /\ Arg(2) = s /\ Arg(1) # s
=============================================================================
