----------------------------- MODULE MCOperations -----------------------------
(***************************************************************************)
(* What the program does to one device, for TLC: the channel to a card, the *)
(* operations of each applet and of the authenticator, the wipe, and the   *)
(* firmware page.  `job` says which runs; the variables of the others hold *)
(* Off.                                                                    *)
(***************************************************************************)
EXTENDS Naturals, Sequences

CONSTANTS None, Off

VARIABLES
  job,
  \* shared by several
  answer, slots, op, ops, asked, said, lost,
  \* CcidAssembly
  pc, ins, rest, cmd, out, corrected, turns, card, reply, call, ran,
  \* OathList
  creds, pending, accounts, fixed,
  \* PivApplet
  pin, puk, mgm, protected, printed, authed, verified, burnt,
  \* PgpApplet
  pins, attrs, keys, touch, holder, life, piv, isolated, admin, shown,
  \* HsmFiles
  files, ready, mixed,
  \* FidoOps
  kind, deaf, key, tries, token, cursor, todo, agreed, rps, left, listed, base, result, before,
  stayed, seen, charged, met,
  \* Offboard
  holds, log, on, present, report, slot, signed,
  \* FirmwareUpdate
  flash, mode, bound, file, closing, field, selection, dialog, task, asks

ccidVars == <<pc, ins, rest, cmd, out, corrected, turns, card, reply, call, ran>>
oathVars == <<creds, pending, accounts, fixed>>
pivVars == <<pin, puk, mgm, protected, printed, authed, verified, burnt>>
pgpVars == <<pins, attrs, keys, touch, holder, life, piv, isolated, admin, shown>>
hsmVars == <<files, ready, mixed>>
fidoVars == <<kind, deaf, key, tries, token, cursor, todo, agreed, rps, left, listed, base, result,
              before, stayed, seen, charged, met>>
offboardVars == <<holds, log, on, present, report, slot, signed>>
firmwareVars == <<flash, mode, bound, file, closing, field, selection, dialog, task, asks>>
vars == <<job, answer, slots, op, ops, asked, said, lost,
          ccidVars, oathVars, pivVars, pgpVars, hsmVars, fidoVars, offboardVars, firmwareVars>>

-----------------------------------------------------------------------------
\* The instances.

Ccid == INSTANCE CcidAssembly WITH
  Sizes <- {0, 2, 3, 5}, Answers <- {0, 1, 4, 5, 9, 13}, Chunk <- 2, Full <- 4, Page <- 3, MaxData <- 12,
  MaxPages <- 10, Continues <- {"get", "send"}, Faulty <- FALSE, MaxCalls <- 2
CcidEndless == INSTANCE CcidAssembly WITH
  Sizes <- {3}, Answers <- {0, 5}, Chunk <- 2, Full <- 4, Page <- 3, MaxData <- 12,
  MaxPages <- 10, Continues <- {"get", "send"}, Faulty <- TRUE, MaxCalls <- 1

\* Texts as sequences, since colons and slashes matter.
Oath == INSTANCE OathList WITH
  Issuers <- {<<"shop">>, <<"shop", ":", "eu">>},
  Names <- {<<"me">>, <<"me", ":", "x">>, <<"other", "/", "me">>},
  OtherPeriod <- 60, Refusals <- FALSE

Piv == INSTANCE PivApplet WITH
  Secrets <- {"pin", "puk"}, FactoryPin <- "pin", FactoryPuk <- "puk", Zeros <- "zeros",
  MgmKeys <- {"factory", "own"}, FactoryMgm <- "factory", Tries <- {1, 2}, FactoryTries <- 1,
  Slots <- {"s1", "s2"}, MaxOps <- 2
\* The guess that blocks may be a PIN.
PivGuessed == INSTANCE PivApplet WITH
  Secrets <- {"pin", "puk", "zeros"}, FactoryPin <- "pin", FactoryPuk <- "puk", Zeros <- "zeros",
  MgmKeys <- {"factory", "own"}, FactoryMgm <- "factory", Tries <- {2}, FactoryTries <- 2,
  Slots <- {"s1"}, MaxOps <- 2

Pgp == INSTANCE PgpApplet WITH
  Entries <- {"", "pw1", "pw3"}, Empty <- "", LongEntries <- {"pw3"},
  DefaultPw1 <- "pw1", DefaultPw3 <- "pw3", Zeros <- "zeros", MaxTries <- 2, Rounds <- 3,
  Algos <- {"rsa", "ecc"}, Slots <- {"sig", "dec"}, MaxOps <- 2
PgpGuessed == INSTANCE PgpApplet WITH
  Entries <- {"", "pw1", "pw3", "zeros"}, Empty <- "", LongEntries <- {"pw3", "zeros"},
  DefaultPw1 <- "pw1", DefaultPw3 <- "pw3", Zeros <- "zeros", MaxTries <- 2, Rounds <- 3,
  Algos <- {"rsa", "ecc"}, Slots <- {"sig"}, MaxOps <- 2

Hsm == INSTANCE HsmFiles WITH MaxId <- 3, MaxOps <- 4, Others <- FALSE
HsmShared == INSTANCE HsmFiles WITH MaxId <- 2, MaxOps <- 3, Others <- TRUE

\* Four slots and codes; texts and bytes that hit the edges of a frame.
WordsOver(chars, n) == UNION {[1..k -> chars] : k \in 1..n}
Otp == INSTANCE OtpSlots WITH
  Slots <- 1..4, Words <- {<<"a", "b">>}, Challenges <- {<<"01">>}, Codes <- {"", "c"}, MaxOps <- 3
OtpFields == INSTANCE OtpSlots WITH
  Slots <- {1, 2}, Words <- {w \in WordsOver({"a", " "}, 5) : w[1] = "a" /\ w[Len(w)] = "a"},
  Challenges <- WordsOver({"00", "7F", "01"}, 4), Codes <- {""}, MaxOps <- 2

FidoSettings == {{"vidpid", "gpio", "cycle", "steady"}, {"vidpid", "cycle", "steady", "name"}, {"cycle", "steady", "long"}}
Fido == INSTANCE FidoOps WITH
  Creds <- {"a1", "b1"}, Rp <- [c \in {"a1", "b1"} |-> IF c = "b1" THEN "b" ELSE "a"],
  Kinds <- {"rskey", "pico", "legacy", "old"}, Asks <- FidoSettings,
  Ops <- {"list", "delete", "setpin", "changepin", "minlen", "ea", "upload", "csr", "reset", "led", "apps", "config"},
  MaxTries <- 3, MaxOps <- 1, MaxMeddles <- 1, MaxLosses <- 1
FidoList == INSTANCE FidoOps WITH
  Creds <- {"a1", "a2", "b1"}, Rp <- [c \in {"a1", "a2", "b1"} |-> IF c = "b1" THEN "b" ELSE "a"],
  Kinds <- {"rskey"}, Asks <- FidoSettings, Ops <- {"list"},
  MaxTries <- 3, MaxOps <- 1, MaxMeddles <- 2, MaxLosses <- 1

Wipe == INSTANCE Offboard WITH Cap <- 2, Guarded <- {2}, Applets <- {"oath"}, MaxLog <- 3, Pending <- None

\* Two boards, one that boots securely; and one alone, where the work must end.
Images == {"unsigned", "mine", "theirs", "nuke"}
KeyOf == [i \in Images |-> CASE i = "unsigned" -> "no key" [] i = "theirs" -> "other" [] OTHER -> "key"]
Firmware == INSTANCE FirmwareUpdate WITH
  Boards <- {"secured", "open"}, Secure <- {"secured"}, Trust <- [b \in {"secured", "open"} |-> {"key"}],
  Nukes <- {"nuke"}, Starts <- {"mine"}, SignedAs <- [i \in {"unsigned"} |-> "mine"],
  Ops <- {"inspect", "sign", "flash"}, Replaced <- "idle", MaxAsks <- 2,
  NoKey <- "no key", Empty <- "empty", Torn <- "torn"
FirmwareWork == INSTANCE FirmwareUpdate WITH
  Boards <- {"open"}, Secure <- {}, Trust <- [b \in {"open"} |-> {"key"}],
  Nukes <- {"nuke"}, Starts <- {"unsigned", "mine"}, SignedAs <- [i \in {"unsigned"} |-> "mine"],
  Ops <- {"inspect", "flash", "reboot", "bootsel"}, Replaced <- "never", MaxAsks <- 2,
  NoKey <- "no key", Empty <- "empty", Torn <- "torn"

ASSUME
  /\ Ccid!CcidAssumption /\ CcidEndless!CcidAssumption /\ Oath!OathListAssumption
  /\ Piv!PivAssumption /\ PivGuessed!PivAssumption /\ Pgp!PgpAssumption /\ PgpGuessed!PgpAssumption
  /\ Hsm!HsmAssumption /\ HsmShared!HsmAssumption /\ Otp!OtpAssumption /\ OtpFields!OtpAssumption
  /\ Fido!FidoAssumption /\ FidoList!FidoAssumption
  /\ Wipe!CapAssumption /\ Wipe!OffboardAssumption /\ Firmware!FirmwareAssumption /\ FirmwareWork!FirmwareAssumption

-----------------------------------------------------------------------------
\* What each job leaves alone.
NotCcid == <<oathVars, pivVars, pgpVars, hsmVars, fidoVars, offboardVars, firmwareVars, answer,
             slots, op, ops, asked, said, lost>>
NotOath == <<ccidVars, pivVars, pgpVars, hsmVars, fidoVars, offboardVars, firmwareVars, slots, op,
             ops, asked, said, lost>>
NotPiv == <<ccidVars, oathVars, pgpVars, hsmVars, fidoVars, offboardVars, firmwareVars, answer,
            asked, said, lost>>
NotPgp == <<ccidVars, oathVars, pivVars, hsmVars, fidoVars, offboardVars, firmwareVars, answer, slots, lost>>
NotHsm == <<ccidVars, oathVars, pivVars, pgpVars, fidoVars, offboardVars, firmwareVars, answer,
            slots, asked, said>>
NotOtp == <<ccidVars, oathVars, pivVars, pgpVars, hsmVars, fidoVars, offboardVars, firmwareVars, op,
            said, lost>>
NotFido == <<ccidVars, oathVars, pivVars, pgpVars, hsmVars, offboardVars, firmwareVars, answer,
             slots, asked, said>>
NotOffboard == <<ccidVars, oathVars, pivVars, pgpVars, hsmVars, fidoVars, firmwareVars, answer,
                 slots, op, ops, asked, said, lost>>
NotFirmware == <<ccidVars, oathVars, pivVars, pgpVars, hsmVars, fidoVars, offboardVars, answer,
                 slots, op, ops, asked, lost>>

CcidOff ==
  /\ pc = Off /\ ins = Off /\ rest = Off /\ cmd = Off /\ out = Off /\ corrected = Off /\ turns = Off
  /\ card = Off /\ reply = Off /\ call = Off /\ ran = Off
OathOff ==
  /\ creds = Off /\ pending = Off /\ accounts = Off /\ fixed = Off
PivOff ==
  /\ pin = Off /\ puk = Off /\ mgm = Off /\ protected = Off /\ printed = Off /\ authed = Off
  /\ verified = Off /\ burnt = Off
PgpOff ==
  /\ pins = Off /\ attrs = Off /\ keys = Off /\ touch = Off /\ holder = Off /\ life = Off /\ piv = Off
  /\ isolated = Off /\ admin = Off /\ shown = Off
HsmOff ==
  /\ files = Off /\ ready = Off /\ mixed = Off
FidoOff ==
  /\ kind = Off /\ deaf = Off /\ key = Off /\ tries = Off /\ token = Off /\ cursor = Off /\ todo = Off
  /\ agreed = Off /\ rps = Off /\ left = Off /\ listed = Off /\ base = Off /\ result = Off /\ before = Off
  /\ stayed = Off /\ seen = Off /\ charged = Off /\ met = Off
OffboardOff ==
  /\ holds = Off /\ log = Off /\ on = Off /\ present = Off /\ report = Off /\ slot = Off /\ signed = Off
FirmwareOff ==
  /\ flash = Off /\ mode = Off /\ bound = Off /\ file = Off /\ closing = Off /\ field = Off
  /\ selection = Off /\ dialog = Off /\ task = Off /\ asks = Off

Init ==
  \/ /\ \/ job = "ccid" /\ Ccid!Init
        \/ job = "ccid_endless" /\ CcidEndless!Init
     /\ OathOff /\ PivOff /\ PgpOff /\ HsmOff /\ FidoOff /\ OffboardOff /\ FirmwareOff
     /\ answer = Off /\ slots = Off /\ op = Off /\ ops = Off /\ asked = Off /\ said = Off /\ lost = Off
  \/ /\ job = "oath" /\ Oath!Init
     /\ CcidOff /\ PivOff /\ PgpOff /\ HsmOff /\ FidoOff /\ OffboardOff /\ FirmwareOff
     /\ slots = Off /\ op = Off /\ ops = Off /\ asked = Off /\ said = Off /\ lost = Off
  \/ /\ \/ job = "piv" /\ Piv!Init
        \/ job = "piv_guessed" /\ PivGuessed!Init
     /\ CcidOff /\ OathOff /\ PgpOff /\ HsmOff /\ FidoOff /\ OffboardOff /\ FirmwareOff
     /\ answer = Off /\ asked = Off /\ said = Off /\ lost = Off
  \/ /\ \/ job = "pgp" /\ Pgp!Init
        \/ job = "pgp_guessed" /\ PgpGuessed!Init
     /\ CcidOff /\ OathOff /\ PivOff /\ HsmOff /\ FidoOff /\ OffboardOff /\ FirmwareOff
     /\ answer = Off /\ slots = Off /\ lost = Off
  \/ /\ \/ job = "hsm" /\ Hsm!Init
        \/ job = "hsm_shared" /\ HsmShared!Init
     /\ CcidOff /\ OathOff /\ PivOff /\ PgpOff /\ FidoOff /\ OffboardOff /\ FirmwareOff
     /\ answer = Off /\ slots = Off /\ asked = Off /\ said = Off
  \/ /\ \/ job = "otp" /\ Otp!Init
        \/ job = "otp_fields" /\ OtpFields!Init
     /\ CcidOff /\ OathOff /\ PivOff /\ PgpOff /\ HsmOff /\ FidoOff /\ OffboardOff /\ FirmwareOff
     /\ op = Off /\ said = Off /\ lost = Off
  \/ /\ \/ job = "fido" /\ Fido!Init
        \/ job = "fido_list" /\ FidoList!Init
     /\ CcidOff /\ OathOff /\ PivOff /\ PgpOff /\ HsmOff /\ OffboardOff /\ FirmwareOff
     /\ answer = Off /\ slots = Off /\ asked = Off /\ said = Off
  \/ /\ job = "wipe" /\ Wipe!Init
     /\ CcidOff /\ OathOff /\ PivOff /\ PgpOff /\ HsmOff /\ FidoOff /\ FirmwareOff
     /\ answer = Off /\ slots = Off /\ op = Off /\ ops = Off /\ asked = Off /\ said = Off /\ lost = Off
  \/ /\ \/ job = "firmware" /\ Firmware!Init
        \/ job = "firmware_work" /\ FirmwareWork!Init
     /\ CcidOff /\ OathOff /\ PivOff /\ PgpOff /\ HsmOff /\ FidoOff /\ OffboardOff
     /\ answer = Off /\ slots = Off /\ op = Off /\ ops = Off /\ asked = Off /\ lost = Off

Next ==
  /\ UNCHANGED job
  /\ \/ job = "ccid" /\ UNCHANGED NotCcid /\ Ccid!Next
     \/ job = "ccid_endless" /\ UNCHANGED NotCcid /\ CcidEndless!Next
     \/ job = "oath" /\ UNCHANGED NotOath /\ Oath!Next
     \/ job = "piv" /\ UNCHANGED NotPiv /\ Piv!Next
     \/ job = "piv_guessed" /\ UNCHANGED NotPiv /\ PivGuessed!Next
     \/ job = "pgp" /\ UNCHANGED NotPgp /\ Pgp!Next
     \/ job = "pgp_guessed" /\ UNCHANGED NotPgp /\ PgpGuessed!Next
     \/ job = "hsm" /\ UNCHANGED NotHsm /\ Hsm!Next
     \/ job = "hsm_shared" /\ UNCHANGED NotHsm /\ HsmShared!Next
     \/ job = "otp" /\ UNCHANGED NotOtp /\ Otp!Next
     \/ job = "otp_fields" /\ UNCHANGED NotOtp /\ OtpFields!Next
     \/ job = "fido" /\ UNCHANGED NotFido /\ Fido!Next
     \/ job = "fido_list" /\ UNCHANGED NotFido /\ FidoList!Next
     \/ job = "wipe" /\ UNCHANGED NotOffboard /\ Wipe!Next
     \/ job = "firmware" /\ UNCHANGED NotFirmware /\ Firmware!Next
     \/ job = "firmware_work" /\ UNCHANGED NotFirmware /\ FirmwareWork!Next

\* The fairness of the job: a thread that was started runs to its end, a
\* card or reader answers.
Work ==
  /\ UNCHANGED job
  /\ \/ job = "ccid_endless" /\ CcidEndless!Host /\ UNCHANGED NotCcid
     \/ job = "piv_guessed" /\ PivGuessed!Run /\ UNCHANGED NotPiv
     \/ job = "pgp_guessed" /\ PgpGuessed!Run /\ UNCHANGED NotPgp
     \/ job = "fido" /\ Fido!Commands /\ UNCHANGED NotFido
     \/ job = "firmware_work" /\ (FirmwareWork!Work \/ FirmwareWork!Ends) /\ UNCHANGED NotFirmware
Land ==
  /\ UNCHANGED job
  /\ \/ job = "ccid_endless" /\ CcidEndless!Card /\ UNCHANGED NotCcid
     \/ job = "firmware_work" /\ FirmwareWork!Land /\ UNCHANGED NotFirmware

Spec == Init /\ [][Next]_vars /\ WF_vars(Work) /\ WF_vars(Land)

-----------------------------------------------------------------------------
\* Properties.

\* Types, and what goes with them: an answer stays below its limit, a card's
\* counters within theirs, a slot's flags are those of its kind.
TypeOK ==
  CASE job = "ccid" -> Ccid!TypeOK [] job = "ccid_endless" -> CcidEndless!TypeOK
    [] job = "piv" -> Piv!TypeOK [] job = "piv_guessed" -> PivGuessed!TypeOK
    [] job = "pgp" -> Pgp!TypeOK [] job = "pgp_guessed" -> PgpGuessed!TypeOK
    [] job = "hsm" -> Hsm!TypeOK [] job = "hsm_shared" -> HsmShared!TypeOK
    [] job = "otp" -> Otp!TypeOK [] job = "otp_fields" -> OtpFields!TypeOK
    [] job = "fido" -> Fido!TypeOK [] job = "fido_list" -> FidoList!TypeOK
    [] job = "wipe" -> Wipe!TypeOK [] job = "firmware" -> Firmware!TypeOK [] job = "firmware_work" -> FirmwareWork!TypeOK [] OTHER -> TRUE

\* (ccid) A call that succeeds returns the whole answer of its own command,
\* joined from the pages in their order, each once (assemble_response()).
AnswerIsWhole == job = "ccid" => Ccid!AnswerIsWhole

\* (ccid) However often a length is corrected or a page asked for, the card runs
\* a call at most once, and then with all of its data (send_chained()).
RunsOnce == job = "ccid" => Ccid!RunsOnce

\* (ccid) A card that corrects every length and pages every answer, as it may,
\* is served: only a refusal of the card or a limit fails a call.
Served == [][job = "ccid" => Ccid!Served]_vars

\* (oath) Nothing is lost, made up or moved to another credential's row when the
\* names and codes of the list are paired (list_accounts()).
EveryCredentialListed == job = "oath" => Oath!EveryCredentialListed

\* (oath) Saving the rename dialog without a change renames nothing: the id is
\* put together again from what was read out of it (build_cred_id()).
UneditedRenameKeepsId == job = "oath" => Oath!UneditedRenameKeepsId

\* (oath) What was typed for a credential is what its row shows, colons and
\* periods in the id or not (parse_cred_id()).
NamesSurvive == job = "oath" => Oath!NamesSurvive

\* (oath) A code that is shown was computed for the window it is shown with.
CodeFitsPeriod == job = "oath" => Oath!CodeFitsPeriod

\* (piv, pgp) When the reset of an applet is sent, the references that guard it
\* are blocked, from any state of the card: after a reset that was cut, or with
\* raised retry limits (reset() of PIV and of OpenPGP).
BlockedBeforeWipe ==
  CASE job = "piv" -> Piv!BlockedBeforeWipe [] job = "pgp" -> Pgp!BlockedBeforeTerminate [] OTHER -> TRUE

\* (piv) An operation never costs more than one try, whatever was typed: the
\* commands that would burn a second one are not sent.
OneTryPerOp ==
  CASE job = "piv" -> Piv!OneTryPerOp [] job = "piv_guessed" -> PivGuessed!OneTryPerOp [] OTHER -> TRUE

\* (piv, pgp) A command that a key or PIN opens is given in the session that
\* proved it, so that no dialog that was filled in rightly is refused half-way.
CommandsAreAuthorised ==
  CASE job = "piv" -> Piv!CommandIsAuthorised [] job = "piv_guessed" -> PivGuessed!CommandIsAuthorised
    [] job = "pgp" -> Pgp!AdminProved [] job = "pgp_guessed" -> PgpGuessed!AdminProved [] OTHER -> TRUE

\* (piv) A key leaves its slot only by being deleted, moved to another slot, or
\* with the whole applet (move_key(), delete_key(), reset()).
KeysGoAsAsked == [][job = "piv" => Piv!KeysGoAsAsked]_vars

\* (pgp) A key goes only where one is generated, or with the whole applet.
OtherKeysStay == [][job = "pgp" => Pgp!OtherKeysStay]_vars

\* (pgp, fido) What is reported done is there as a whole: all the fields, a key
\* of the algorithm asked for, the PIN that was typed, every setting; and, on the
\* authenticator, nothing besides.
DoneIsWhole ==
  CASE job = "pgp" -> Pgp!DoneIsWhole [] job = "pgp_guessed" -> PgpGuessed!DoneIsWhole
    [] job = "fido" -> Fido!DoneIsWhole [] OTHER -> TRUE

\* (pgp) After a success the screen shows the card as it is.
ShownAfterSuccess ==
  CASE job = "pgp" -> Pgp!ShownAfterSuccess [] job = "pgp_guessed" -> PgpGuessed!ShownAfterSuccess [] OTHER -> TRUE

\* (pgp) Resetting OpenPGP leaves PIV's counters alone, also on firmware where
\* the two share them (isolated_reset_supported()).
PivStateKept ==
  CASE job = "pgp" -> Pgp!PivStateKept [] job = "pgp_guessed" -> PgpGuessed!PivStateKept [] OTHER -> TRUE

\* (hsm) Nothing is overwritten by an operation that picked its own place, and a
\* first set-up wipes nothing (free_key_ids(), free_object_ids(), initialize()).
NothingOverwritten == job = "hsm" => Hsm!NothingOverwritten

\* (hsm) The identity of the device outlives every operation, of other programs too.
IdentityStays == job \in {"hsm", "hsm_shared"} => Hsm!IdentityStays

\* (hsm) A restored key does not take the id of a description or certificate
\* that was left behind by another.
KeysLieApart == job = "hsm" => Hsm!KeysLieApart

\* (otp) Every slot is shown as what the user last put there (classify()).
ShownAsProgrammed == job = "otp" => Otp!ShownAsProgrammed

\* (otp) Every slot is protected by the code the user last gave it, or by none.
ProtectedAsAsked == job = "otp" => Otp!ProtectedAsAsked

\* (otp) A static slot types the password that was entered (build_static()).
TypesWhatWasEntered == job = "otp_fields" => OtpFields!TypesWhatWasEntered

\* (otp) A challenge is answered by its slot, for the very bytes that were
\* entered, although the card cuts what it takes for padding (pad_challenge()).
AnswersTheChallenge == job = "otp_fields" => OtpFields!AnswersTheChallenge

\* (fido) An operation the authenticator refused has changed nothing: a
\* configuration of several commands is not refused half-way.
RefusedIsNothing == job = "fido" => Fido!RefusedIsNothing

\* (fido) With the right PIN, and the key to itself, an operation the firmware
\* can do is done: tokens, their permissions and the order of commands fit.
RightPinWorks == job = "fido" => Fido!RightPinWorks

\* (fido) A wrong PIN costs one try, a configuration, which falls back to the
\* plain token on any error, two; the right one costs none.
TriesSpent == job = "fido" => Fido!TriesSpent

\* (fido) The list of passkeys misses none that was there throughout and shows
\* none that was never there, whatever another program does to the token, the
\* cursor and the passkeys meanwhile (get_credentials()).
ListedIsStored == job = "fido_list" => FidoList!ListedIsStored

\* (wipe) What the report says is wiped holds nothing any more (offboard.rs).
ReportedIsWiped == job = "wipe" => Wipe!ReportedIsWiped

\* (wipe) A receipt is signed only for a key whose journal has a reset.
SignedHoldsReset == job = "wipe" => Wipe!SignedHoldsReset

\* (firmware) What the page says of an image is about the file in the field, and
\* what it says of a board about the board in the field.
SelectionIsShown == job = "firmware" => Firmware!SelectionIsShown

\* (firmware) A flash that is reported as complete was followed by a restart.
FlashRestarts == job = "firmware" => Firmware!FlashRestarts

\* (firmware) No signed copy is left when the application has quit.
NoImageIsLeft == job = "firmware" => Firmware!NoImageIsLeft

\* (firmware) A board is written only after its serial was typed; if the key is
\* another than it has, only after that was accepted too.
WriteIsAgreed == [][job = "firmware" => Firmware!WriteIsAgreed]_vars

\* (firmware) A board with Secure Boot is only written with what it trusts.
TrustedIsWritten == [][job = "firmware" => Firmware!TrustedIsWritten]_vars

\* (firmware) What is written is the image that was assessed, although the file
\* may have been replaced between the review and the flash.
FlashesReviewed == [][job = "firmware" => Firmware!FlashesReviewed]_vars

\* Every operation comes to an end: a call to a card that never does, the guesses
\* of a reset, an operation of the authenticator, the work of the firmware page.
Waits ==
  CASE job = "ccid_endless" -> pc \in {"ready", "sent"} [] job = "piv_guessed" -> (op # <<>> /\ Head(op)[1] = "blockPin")
    [] job = "pgp_guessed" -> (op # <<>> /\ Head(op)[1] = "guess") [] job = "fido" -> result = "running"
    [] job = "firmware_work" -> FirmwareWork!Loading [] OTHER -> FALSE
Rests ==
  CASE job = "ccid_endless" -> pc \in {"ok", "failed"} [] job \in {"piv_guessed", "pgp_guessed"} -> op = <<>>
    [] job = "fido" -> result # "running" [] job = "firmware_work" -> ~FirmwareWork!Loading [] OTHER -> TRUE
OperationEnds == Waits ~> Rests

-----------------------------------------------------------------------------
\* What the run checks: the parts above, joined by what they are about.

\* What is reported as done was done, once and as a whole, on the card, the
\* authenticator or in a wipe; what was refused changed nothing; and what is asked
\* for rightly, of a card that can do it, is done.
ReportedIsDone ==
  /\ [](/\ AnswerIsWhole /\ RunsOnce /\ DoneIsWhole /\ RefusedIsNothing /\ RightPinWorks
        /\ ReportedIsWiped /\ SignedHoldsReset)
  /\ Served

\* What is listed or shown is what the device holds, and what was entered comes out
\* again as it was: names, codes, slots, passwords, challenges, passkeys.
ShownIsStored ==
  /\ EveryCredentialListed /\ UneditedRenameKeepsId /\ NamesSurvive /\ CodeFitsPeriod
  /\ ShownAfterSuccess /\ ShownAsProgrammed /\ ProtectedAsAsked /\ TypesWhatWasEntered /\ AnswersTheChallenge
  /\ ListedIsStored

\* An operation costs nothing it was not asked for: no key, file or identity, no
\* counter of another applet, and no try beyond its own; an applet is wiped only
\* once the references that guard it are blocked.
CostsWhatWasAsked ==
  /\ [](/\ NothingOverwritten /\ IdentityStays /\ KeysLieApart /\ PivStateKept
        /\ BlockedBeforeWipe /\ OneTryPerOp /\ CommandsAreAuthorised /\ TriesSpent)
  /\ KeysGoAsAsked /\ OtherKeysStay

\* What is written to a board is the image that was reviewed, agreed to and is
\* trusted there; the page speaks of what is selected and leaves nothing behind.
FlashIsAgreed ==
  /\ [](SelectionIsShown /\ FlashRestarts /\ NoImageIsLeft)
  /\ WriteIsAgreed /\ TrustedIsWritten /\ FlashesReviewed
=============================================================================
