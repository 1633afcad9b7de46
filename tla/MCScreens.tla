------------------------------ MODULE MCScreens ------------------------------
(***************************************************************************)
(* The screens, one at a time, for TLC: `screen` says which is open, and   *)
(* over which keys and with which user.  The screens share KeyEvents; the  *)
(* variables of a screen that is not open hold Off.                        *)
(***************************************************************************)
EXTENDS ScreenForms, Integers

CONSTANTS k1, k2, NoKey, None, Off, github, gitlab, pw, NoCode, Blank

Keys == {k1, k2}

VARIABLES
  screen,
  plugged, shown, deviceChanged, stirred,  \* KeyEvents
  loading, task, dialog, inputs, loaded, version, unlocked, doubt, unread, selected, status,
  code, creds, accounts, needsPassword, password, due,  \* Accounts
  secret, tries, info, spent,  \* AppletScreen
  lock, seed, sealed, chain, made, phrase, known,  \* SeedPages
  log, on, statusKey, enabled, statusError, statusTask, journal, verification, challenge, \* AuditPage
  cfg, booting, base, rows, form, plan, wrote, picked, touched,  \* ConfigForm
  pin, cached, list, repoLoading, infoTask, wasted, erased, asked,  \* Passkeys
  bus, screenBusy, fidoInfo, apps, error, applyingApps, watch, last, current, at, expected, read,
  fidoTask, held  \* DeviceRepo

keyVars == <<plugged, shown, deviceChanged, stirred>>
accountsVars == <<code, creds, accounts, needsPassword, password, due>>
appletVars == <<secret, tries, info, spent>>
seedVars == <<lock, seed, sealed, chain, made, phrase, known>>
auditVars == <<log, on, statusKey, enabled, statusError, statusTask, journal, verification, challenge>>
configVars == <<cfg, booting, base, rows, form, plan, wrote, picked, touched>>
passkeysVars == <<pin, cached, list, repoLoading, infoTask, wasted, erased, asked>>
repoVars == <<bus, screenBusy, fidoInfo, apps, error, applyingApps, watch, last, current, at, expected, read,
              fidoTask, held>>
vars == <<screen, keyVars, loading, task, dialog, inputs, loaded, version, unlocked, doubt, unread,
          selected, status, accountsVars, appletVars, seedVars, auditVars, configVars, passkeysVars, repoVars>>

-----------------------------------------------------------------------------
\* The instances.

\* Keys that are moved and announced at rest; or at any time, with answers lost.
Accounts == INSTANCE Accounts WITH
  Ids <- {github}, Codes <- {pw}, Quiet <- TRUE, LostAnswers <- FALSE, MaxInputs <- 2, DriverErrors <- FALSE,
  NoTask <- None, NoDialog <- None
AccountsMoved == INSTANCE Accounts WITH
  DriverErrors <- TRUE, Keys <- {k1}, Ids <- {github, gitlab}, Codes <- {pw}, Quiet <- FALSE,
  LostAnswers <- TRUE, MaxInputs <- 2, NoTask <- None, NoDialog <- None

Piv == INSTANCE AppletScreen WITH
  DriverErrors <- FALSE, Forms <- PivForms, ReadOnce <- FALSE, Quiet <- TRUE, Busy <- TRUE, MaxInputs <- 2,
  MaxTries <- 1, NoForm <- None, NoTask <- None
PivMoved == INSTANCE AppletScreen WITH
  DriverErrors <- FALSE, Forms <- PivForms, ReadOnce <- FALSE, Quiet <- FALSE, Busy <- TRUE, MaxInputs <- 1,
  MaxTries <- 1, NoForm <- None, NoTask <- None
OpenPgp == INSTANCE AppletScreen WITH
  Forms <- OpenPgpForms, ReadOnce <- FALSE, Quiet <- TRUE, Busy <- FALSE, MaxInputs <- 2, MaxTries <- 1,
  DriverErrors <- FALSE, NoForm <- None, NoTask <- None
Slots == INSTANCE AppletScreen WITH
  DriverErrors <- TRUE, Keys <- {k1}, Forms <- SlotForms, ReadOnce <- FALSE, Quiet <- FALSE, Busy <- FALSE,
  MaxInputs <- 2, MaxTries <- 1, NoForm <- None, NoTask <- None
Hsm == INSTANCE AppletScreen WITH
  DriverErrors <- FALSE, Forms <- HsmForms, ReadOnce <- TRUE, Quiet <- TRUE, Busy <- TRUE, MaxInputs <- 2,
  MaxTries <- 1, NoForm <- None, NoTask <- None

Lock == INSTANCE SeedPages WITH
  DriverErrors <- TRUE, Pages <- {"lock"}, Calm <- TRUE, LostAnswers <- FALSE, MaxInputs <- 4, NoTask <- None
LockAndBackup == INSTANCE SeedPages WITH
  DriverErrors <- TRUE, Keys <- {k1}, Pages <- {"lock", "backup"}, Calm <- TRUE, LostAnswers <- TRUE,
  MaxInputs <- 1, NoTask <- None
Attestation == INSTANCE SeedPages WITH
  DriverErrors <- FALSE, Pages <- {"attestation"}, Calm <- TRUE, LostAnswers <- FALSE, MaxInputs <- 2, NoTask <- None

\* Honest keys; a key, or a way to it, that tampers; keys that are moved.
Audit == INSTANCE AuditPage WITH
  Cap <- 1, DriverErrors <- FALSE, Events <- {"use"}, Snapshots <- {k2}, Ops <- {"toggle", "read", "verify"},
  Tampered <- FALSE, Calm <- TRUE, MaxLog <- 2, MaxInputs <- 2
AuditTampered == INSTANCE AuditPage WITH
  Events <- {"use", "reset"}, Snapshots <- {k2}, Ops <- {"verify"}, Tampered <- TRUE, Calm <- TRUE,
  MaxLog <- 2, MaxInputs <- 1, DriverErrors <- FALSE, Cap <- 1
AuditMoved == INSTANCE AuditPage WITH
  Cap <- 2, Events <- {"use"}, Snapshots <- {k2}, Ops <- {"read", "verify"}, Tampered <- FALSE,
  Calm <- FALSE, MaxLog <- 1, MaxInputs <- 1, DriverErrors <- TRUE

\* One level that is none of the page's, and one that is.
Levels == {20, 34}
ConfigFido == INSTANCE ConfigForm WITH
  DriverErrors <- TRUE, Kind <- [k \in {k1, k2} |-> "rskeyFido"], Bytes <- Levels, Calm <- TRUE,
  AtPrompt <- FALSE, LostAnswers <- TRUE, Attempts <- 2, MaxInputs <- 2
ConfigPico == INSTANCE ConfigForm WITH
  DriverErrors <- TRUE, Keys <- {k1}, Kind <- [k \in {k1} |-> "pico"], Bytes <- Levels, Calm <- TRUE,
  AtPrompt <- FALSE, LostAnswers <- TRUE, Attempts <- 2, MaxInputs <- 2
ConfigRsKey == INSTANCE ConfigForm WITH
  DriverErrors <- TRUE, Keys <- {k1}, Kind <- [k \in {k1} |-> "rskey"], Bytes <- Levels, Calm <- TRUE,
  AtPrompt <- FALSE, LostAnswers <- TRUE, Attempts <- 2, MaxInputs <- 2

PasskeyOps == {"unlock", "delete", "setup", "change", "min", "minchange", "csr", "upload", "ea", "reset"}
Passkeys == INSTANCE Passkeys WITH
  DriverErrors <- TRUE, Ops <- PasskeyOps, Calm <- TRUE, Patient <- TRUE, LostAnswers <- TRUE, MaxInputs <- 2,
  NoTask <- None
PasskeysMoved == INSTANCE Passkeys WITH
  DriverErrors <- FALSE, Ops <- PasskeyOps \ {"change", "min", "minchange", "csr", "upload", "ea"}, Calm <- FALSE,
  Patient <- FALSE, LostAnswers <- TRUE, MaxInputs <- 2, NoTask <- None

\* The repository while no screen writes, over an RS-Key and a Pico All.
Repo == INSTANCE DeviceRepo WITH
  Boards <- Keys, PicoAll <- {k2}, CardSerial <- [k \in Keys |-> IF k = k1 THEN 1 ELSE 2],
  HidSerial <- [k \in Keys |-> IF k = k1 THEN 1 ELSE 3], Writers <- {}, DriverErrors <- FALSE,
  MaxInputs <- 3, NoBoard <- "none", Busy <- "busy", Many <- "many", NoSerial <- 0

ASSUME
  /\ Accounts!KeysAssumption /\ Accounts!AccountsAssumption /\ AccountsMoved!AccountsAssumption
  /\ Piv!ScreenAssumption /\ Piv!FormsAssumption /\ PivMoved!ScreenAssumption
  /\ OpenPgp!ScreenAssumption /\ OpenPgp!FormsAssumption /\ Slots!ScreenAssumption /\ Slots!FormsAssumption
  /\ Hsm!ScreenAssumption /\ Hsm!FormsAssumption
  /\ Lock!SeedAssumption /\ LockAndBackup!SeedAssumption /\ Attestation!SeedAssumption
  /\ Audit!AuditAssumption /\ AuditTampered!AuditAssumption /\ AuditMoved!AuditAssumption
  /\ ConfigFido!ConfigAssumption /\ ConfigPico!ConfigAssumption /\ ConfigRsKey!ConfigAssumption
  /\ Passkeys!PasskeysAssumption /\ PasskeysMoved!PasskeysAssumption /\ Repo!RepoAssumption

-----------------------------------------------------------------------------
\* Two pages that were visited; one or the other is watched by StartedIsAnswered.
BothPages == {"lock_backup", "backup_lock"}
Watched == IF screen = "lock_backup" THEN "lock" ELSE "backup"

\* What each screen leaves alone.
NotAccounts == <<appletVars, seedVars, auditVars, configVars, passkeysVars, repoVars,
                 version, unlocked, doubt, unread, selected, status>>
NotApplet == <<accountsVars, seedVars, auditVars, configVars, passkeysVars, repoVars,
               unlocked, doubt, selected, status>>
NotSeed == <<accountsVars, appletVars, auditVars, configVars, passkeysVars, repoVars,
             loaded, version, doubt, unread, selected>>
NotAudit == <<accountsVars, appletVars, seedVars, configVars, passkeysVars, repoVars,
              loading, dialog, loaded, version, unlocked, doubt, unread, selected, status>>
NotConfig == <<accountsVars, appletVars, seedVars, auditVars, passkeysVars, repoVars,
               loaded, version, unlocked, unread, status>>
NotPasskeys == <<accountsVars, appletVars, seedVars, auditVars, configVars, repoVars, loaded, selected, status>>
NotRepo == <<accountsVars, appletVars, seedVars, auditVars, configVars, passkeysVars, plugged, stirred,
             task, dialog, loaded, version, unlocked, doubt, unread>>

AccountsOff ==
  /\ code = Off /\ creds = Off /\ accounts = Off /\ needsPassword = Off /\ password = Off /\ due = Off
AppletOff ==
  /\ secret = Off /\ tries = Off /\ info = Off /\ spent = Off
SeedOff ==
  /\ lock = Off /\ seed = Off /\ sealed = Off /\ chain = Off /\ made = Off /\ phrase = Off /\ known = Off
AuditOff ==
  /\ log = Off /\ on = Off /\ statusKey = Off /\ enabled = Off /\ statusError = Off /\ statusTask = Off
  /\ journal = Off /\ verification = Off /\ challenge = Off
ConfigOff ==
  /\ cfg = Off /\ booting = Off /\ base = Off /\ rows = Off /\ form = Off /\ plan = Off
  /\ wrote = Off /\ picked = Off /\ touched = Off
PasskeysOff ==
  /\ pin = Off /\ cached = Off /\ list = Off /\ repoLoading = Off /\ infoTask = Off /\ wasted = Off
  /\ erased = Off /\ asked = Off
RepoOff ==
  /\ bus = Off /\ screenBusy = Off /\ fidoInfo = Off /\ apps = Off /\ error = Off /\ applyingApps = Off
  /\ watch = Off /\ last = Off /\ current = Off /\ at = Off /\ expected = Off /\ read = Off
  /\ fidoTask = Off /\ held = Off

Init ==
  \/ /\ \/ screen = "accounts" /\ Accounts!Init
        \/ screen = "accounts_moved" /\ AccountsMoved!Init
     /\ AppletOff /\ SeedOff /\ AuditOff /\ ConfigOff /\ PasskeysOff /\ RepoOff
     /\ version = Off /\ unlocked = Off /\ doubt = Off /\ unread = Off /\ selected = Off /\ status = Off
  \/ /\ \/ screen = "piv" /\ Piv!Init
        \/ screen = "piv_moved" /\ PivMoved!Init
        \/ screen = "openpgp" /\ OpenPgp!Init
        \/ screen = "slots" /\ Slots!Init
        \/ screen = "hsm" /\ Hsm!Init
     /\ AccountsOff /\ SeedOff /\ AuditOff /\ ConfigOff /\ PasskeysOff /\ RepoOff
     /\ unlocked = Off /\ doubt = Off /\ selected = Off /\ status = Off
  \/ /\ \/ screen = "lock" /\ Lock!Init
        \/ screen \in BothPages /\ LockAndBackup!Init
        \/ screen = "attestation" /\ Attestation!Init
     /\ AccountsOff /\ AppletOff /\ AuditOff /\ ConfigOff /\ PasskeysOff /\ RepoOff
     /\ loaded = Off /\ version = Off /\ doubt = Off /\ unread = Off /\ selected = Off
  \/ /\ \/ screen = "audit" /\ Audit!Init
        \/ screen = "audit_tampered" /\ AuditTampered!Init
        \/ screen = "audit_moved" /\ AuditMoved!Init
     /\ AccountsOff /\ AppletOff /\ SeedOff /\ ConfigOff /\ PasskeysOff /\ RepoOff
     /\ loading = Off /\ dialog = Off /\ loaded = Off /\ version = Off /\ unlocked = Off /\ doubt = Off
     /\ unread = Off /\ selected = Off /\ status = Off
  \/ /\ \/ screen = "config_fido" /\ ConfigFido!Init
        \/ screen = "config_pico" /\ ConfigPico!Init
        \/ screen = "config_rskey" /\ ConfigRsKey!Init
     /\ AccountsOff /\ AppletOff /\ SeedOff /\ AuditOff /\ PasskeysOff /\ RepoOff
     /\ loaded = Off /\ version = Off /\ unlocked = Off /\ unread = Off /\ status = Off
  \/ /\ \/ screen = "passkeys" /\ Passkeys!Init
        \/ screen = "passkeys_moved" /\ PasskeysMoved!Init
     /\ AccountsOff /\ AppletOff /\ SeedOff /\ AuditOff /\ ConfigOff /\ RepoOff
     /\ loaded = Off /\ selected = Off /\ status = Off
  \/ /\ screen = "repo" /\ Repo!Init
     /\ AccountsOff /\ AppletOff /\ SeedOff /\ AuditOff /\ ConfigOff /\ PasskeysOff
     /\ plugged = Off /\ stirred = Off /\ task = Off /\ dialog = Off /\ loaded = Off /\ version = Off
     /\ unlocked = Off /\ doubt = Off /\ unread = Off

Next ==
  /\ UNCHANGED screen
  /\ \/ screen = "accounts" /\ UNCHANGED NotAccounts /\ Accounts!Next
     \/ screen = "accounts_moved" /\ UNCHANGED NotAccounts /\ AccountsMoved!Next
     \/ screen = "piv" /\ UNCHANGED NotApplet /\ Piv!Next
     \/ screen = "piv_moved" /\ UNCHANGED NotApplet /\ PivMoved!Next
     \/ screen = "openpgp" /\ UNCHANGED NotApplet /\ OpenPgp!Next
     \/ screen = "slots" /\ UNCHANGED NotApplet /\ Slots!Next
     \/ screen = "hsm" /\ UNCHANGED NotApplet /\ Hsm!Next
     \/ screen = "lock" /\ UNCHANGED NotSeed /\ Lock!Next
     \/ screen \in BothPages /\ UNCHANGED NotSeed /\ LockAndBackup!Next
     \/ screen = "attestation" /\ UNCHANGED NotSeed /\ Attestation!Next
     \/ screen = "audit" /\ UNCHANGED NotAudit /\ Audit!Next
     \/ screen = "audit_tampered" /\ UNCHANGED NotAudit /\ AuditTampered!Next
     \/ screen = "audit_moved" /\ UNCHANGED NotAudit /\ AuditMoved!Next
     \/ screen = "config_fido" /\ UNCHANGED NotConfig /\ ConfigFido!Next
     \/ screen = "config_pico" /\ UNCHANGED NotConfig /\ ConfigPico!Next
     \/ screen = "config_rskey" /\ UNCHANGED NotConfig /\ ConfigRsKey!Next
     \/ screen = "passkeys" /\ UNCHANGED NotPasskeys /\ Passkeys!Next
     \/ screen = "passkeys_moved" /\ UNCHANGED NotPasskeys /\ PasskeysMoved!Next
     \/ screen = "repo" /\ UNCHANGED NotRepo /\ Repo!Next

\* The fairness of the screen that is open: its threads, and the executor.
Work ==
  /\ UNCHANGED screen
  /\ \/ screen = "accounts_moved" /\ AccountsMoved!Background /\ UNCHANGED NotAccounts
     \/ screen = "slots" /\ Slots!Work /\ UNCHANGED NotApplet
     \/ screen \in BothPages /\ LockAndBackup!Operation(Watched) /\ UNCHANGED NotSeed
     \/ screen = "config_fido" /\ ConfigFido!Work /\ UNCHANGED NotConfig
     \/ screen = "passkeys" /\ Passkeys!Work /\ UNCHANGED NotPasskeys
Land ==
  /\ UNCHANGED screen
  /\ \/ screen = "accounts_moved" /\ AccountsMoved!Land /\ UNCHANGED NotAccounts
     \/ screen = "slots" /\ Slots!Land /\ UNCHANGED NotApplet
     \/ screen \in BothPages /\ LockAndBackup!Land(Watched) /\ UNCHANGED NotSeed
     \/ screen = "config_fido" /\ ConfigFido!Land /\ UNCHANGED NotConfig
     \/ screen = "passkeys" /\ Passkeys!Land /\ UNCHANGED NotPasskeys
Boot == UNCHANGED screen /\ screen = "config_fido" /\ ConfigFido!Boot /\ UNCHANGED NotConfig

Spec ==
  /\ Init /\ [][Next]_vars
  /\ WF_vars(Work) /\ WF_vars(Land) /\ WF_vars(Boot)

-----------------------------------------------------------------------------
\* Properties.

TypeOK ==
  CASE screen = "accounts" -> Accounts!TypeOK [] screen = "accounts_moved" -> AccountsMoved!TypeOK
    [] screen = "piv" -> Piv!TypeOK [] screen = "piv_moved" -> PivMoved!TypeOK [] screen = "openpgp" -> OpenPgp!TypeOK
    [] screen = "slots" -> Slots!TypeOK [] screen = "hsm" -> Hsm!TypeOK
    [] screen = "lock" -> Lock!TypeOK [] screen \in BothPages -> LockAndBackup!TypeOK
    [] screen = "attestation" -> Attestation!TypeOK
    [] screen = "audit" -> Audit!TypeOK [] screen = "audit_tampered" -> AuditTampered!TypeOK
    [] screen = "audit_moved" -> AuditMoved!TypeOK
    [] screen = "config_fido" -> ConfigFido!TypeOK [] screen = "config_pico" -> ConfigPico!TypeOK
    [] screen = "config_rskey" -> ConfigRsKey!TypeOK
    [] screen = "passkeys" -> Passkeys!TypeOK [] screen = "passkeys_moved" -> PasskeysMoved!TypeOK
    [] screen = "repo" -> Repo!TypeOK

\* A screen says that it loads exactly while a task will end that: none that
\* is dropped, refused or fails leaves it without its buttons.
LoadingIsTask ==
  /\ screen \in {"accounts", "accounts_moved"} => Accounts!LoadingIsTask
  /\ screen \in {"piv", "piv_moved", "openpgp", "slots", "hsm"} => Piv!LoadingIsTask
  /\ screen = "lock" => Lock!LoadingIsTask
  /\ screen \in BothPages => LockAndBackup!LoadingIsTask
  /\ screen = "attestation" => Attestation!LoadingIsTask
  /\ screen \in {"config_fido", "config_pico", "config_rskey"} => ConfigFido!LoadingIsTask
  /\ screen = "passkeys" => Passkeys!LoadingIsTask
  /\ screen = "repo" => Repo!LoadingIsRefresh

\* At rest, and with the move of a key announced, a screen shows nothing of a
\* key that is not the one that is shown.
ShowsShownKey ==
  /\ screen = "accounts" => Accounts!ShowsShownKey
  /\ screen \in {"piv", "openpgp", "hsm"} => Piv!ShowsShownKey
  /\ screen = "lock" => Lock!StatusIsItsOwn /\ Lock!LockKeyIsItsOwn
  /\ screen = "attestation" => Attestation!StatusIsItsOwn
  /\ screen = "audit" => Audit!LogIsItsOwn
  /\ screen \in {"audit", "audit_tampered", "audit_moved"} => Audit!StatusIsItsOwn
  /\ screen \in {"passkeys", "passkeys_moved"} => Passkeys!ListIsShownKeys

\* At rest a screen shows what the key holds now, whatever was written, unless
\* a write reported failure or a read failed.
ShowsContents ==
  /\ screen \in {"piv", "piv_moved", "openpgp", "slots", "hsm"} => Piv!ShowsContents
  /\ screen = "config_fido" => ConfigFido!ShownAfterSuccess
  /\ screen = "attestation" => Attestation!StatusIsCurrent
  /\ screen \in {"passkeys", "passkeys_moved"} => Passkeys!ListIsCurrent

\* A dialog that works waits for a task that will report to it.
WorkingIsTask ==
  /\ screen = "slots" => Slots!WorkingIsTask
  /\ screen = "passkeys" => Passkeys!DialogsAnswered

\* Whatever is started ends, and the dialog it was started from is answered; a
\* page ends loading whatever another one does.
Waits ==
  CASE screen = "accounts_moved" -> AccountsMoved!Started
    [] screen = "slots" -> Slots!Started
    [] screen = "passkeys" -> Passkeys!Started
    [] screen \in BothPages -> loading[Watched]
    [] screen = "config_fido" -> dialog = "working"
    [] OTHER -> FALSE
Rests ==
  CASE screen = "accounts_moved" -> AccountsMoved!Settled
    [] screen = "slots" -> Slots!Settled
    [] screen = "passkeys" -> Passkeys!Settled
    [] OTHER -> ~Waits
StartedIsAnswered == Waits ~> Rests

\* (repo) When another serial comes to be shown, the pages hold nothing of a key that
\* is not the one shown, even when an error hid the first one in between.
SwapForgets == [][screen = "repo" => Repo!ForgetsOthers]_vars

\* (accounts) The password that is kept opens the applet whose list is shown,
\* whatever was set, removed or reset in between: the ticker can read it again.
CanReload == screen = "accounts" => Accounts!CanReload

\* (openpgp) A factory secret that the view fills in by itself never costs the
\* user a try on the key it was read from.
DefaultsConfirmed == screen = "openpgp" => OpenPgp!DefaultsConfirmed

\* (lock) The key of every lock that is engaged was put on the screen, or is about
\* to be: no event drops the task that carries it (lock.rs).
LockKeyIsKnown == screen = "lock" => Lock!LockKeyIsKnown

\* (lock) A lock is disabled by its own key, also when an attempt before was cut
\* short and has left the seed unlocked.
OwnKeyDisables == [][screen = "lock" => Lock!OwnKeyDisables]_vars

\* (audit) A log that is shown as verified is the end of what its key recorded, to
\* the event and without a gap, whatever the way to the key changed.
VerifiedIsGenuine == screen = "audit_tampered" => AuditTampered!VerifiedIsGenuine

\* (audit) It has every event that was recorded before the user asked, and its key
\* is the one expected: neither an old log nor an old signature passes.
VerifiedIsCurrent == [][screen = "audit_tampered" => AuditTampered!VerifiedIsCurrent]_vars

\* (audit) Nothing that was not changed is called a forgery: the events the key
\* dropped from its ring are folded into the first link (AuditChain).
HonestIsAuthentic == screen = "audit" => Audit!HonestIsAuthentic

\* (audit) The verdict that stands beside a journal is of that journal.
VerifiesWhatIsShown == screen = "audit" => Audit!VerifiesWhatIsShown

\* (config) Changes that were computed for one key are written to no other, although
\* the keys may be swapped between opening the dialog and each of its writes.
WritesItsKey == screen = "config_fido" => ConfigFido!WritesItsKey

\* (config) What is reported as applied is what the key holds, except what was left
\* blank on a key that keeps it.
AppliedIsStored ==
  /\ screen = "config_pico" => ConfigPico!AppliedIsStored
  /\ screen = "config_rskey" => ConfigRsKey!AppliedIsStored

\* (config) What the user did not touch stays: a light at its level, a setting as it
\* was, although the firmware takes a block of them at once.
UntouchedStays ==
  /\ screen = "config_pico" => ConfigPico!UntouchedStays
  /\ screen = "config_rskey" => ConfigRsKey!UntouchedStays

\* (config) The colour order that is sent is the one the user chose by its name.
OrderAsPicked == [][screen = "config_pico" => ConfigPico!OrderAsPicked]_vars

\* (config) A key restarts only when nothing is left to be written.
RestartIsLast == [][screen = "config_rskey" => ConfigRsKey!RestartIsLast]_vars

\* (passkeys) The repository is held back from reading keys only while a reset runs.
RepoReleased == screen = "passkeys" => Passkeys!RepoReleased

\* (passkeys) A reset erases no key but the one it was confirmed for, although
\* another may be plugged in while it waits.
ErasesItsKey == screen = "passkeys" => Passkeys!ErasesItsKey

\* (passkeys) The kept PIN, sent at every event without the user's doing, costs no
\* try, unless a change of it was reported as failed or the keys were moved.
KeptPinOpens == screen = "passkeys" => Passkeys!KeptPinOpens

-----------------------------------------------------------------------------
\* What the run checks: the parts above, joined by what they are about.

\* No page, dialog or reading of keys stays off or at work with nothing
\* left that would end it, whatever event or dropped task came between.
PagesAreFreed == LoadingIsTask /\ WorkingIsTask /\ RepoReleased

\* What a page says is true at rest: it is of the key that is shown, as that key is
\* now; a verdict on a journal is of that journal, which is its key's, to the event.
PagesAreTrue ==
  /\ [](ShowsShownKey /\ ShowsContents /\ VerifiedIsGenuine /\ HonestIsAuthentic /\ VerifiesWhatIsShown)
  /\ VerifiedIsCurrent

\* A secret that a page holds or made is not lost, is sent only where it opens and
\* goes with its key: a kept password or PIN, a factory secret, the copy of a lock key.
SecretsAreKept ==
  /\ [](CanReload /\ DefaultsConfirmed /\ LockKeyIsKnown /\ KeptPinOpens)
  /\ OwnKeyDisables /\ SwapForgets

\* A key gets the changes that were computed for it, all that are reported, none
\* besides, and restarts last; an erasing command meets the key it was meant for.
KeysGetWhatWasAsked ==
  /\ [](WritesItsKey /\ AppliedIsStored /\ UntouchedStays /\ ErasesItsKey)
  /\ OrderAsPicked /\ RestartIsLast
=============================================================================
