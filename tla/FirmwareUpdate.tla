---------------------------- MODULE FirmwareUpdate ----------------------------
(***************************************************************************)
(* The Firmware page and the worker it starts (hal/firmware.rs): an image  *)
(* is inspected, signed, checked against a board and written to it, and a  *)
(* board is restarted or put into update mode.                             *)
(*                                                                         *)
(* The worker reads the image file anew for its signature, for its digest  *)
(* and, through picotool, for the write; it asks a board to change its     *)
(* mode and then looks for it until a limit.  A board leaves and returns   *)
(* in its own time, and may be unplugged at any.  BootSecurity models how  *)
(* a board comes to trust keys; here its trust is given.                   *)
(***************************************************************************)
EXTENDS Naturals, FiniteSets

CONSTANTS
  Boards, Images,
  KeyOf,       \* KeyOf[i]: the key that signed image i, or NoKey
  SignedAs,    \* SignedAs[i]: unsigned image i, signed
  Nukes,       \* images that erase the board
  Starts,      \* images that come up
  Trust,       \* Trust[b]: the keys in the fuses of b, if it boots securely
  Secure,      \* boards with Secure Boot
  Ops,         \* what the user asks for
  Replaced,    \* when another program replaces the file: "never", "idle", "always"
  MaxAsks,     \* bound: operations the user asks for
  NoKey, None, Empty, Torn

FirmwareAssumption ==
  /\ NoKey \notin UNION {Trust[b] : b \in Boards}
  /\ {None, Empty, Torn} \cap Images = {} /\ None \notin {"normal", "bootsel", "nuke"}
  /\ Nukes \subseteq Images /\ Starts \subseteq Images /\ Secure \subseteq Boards
  /\ \A i \in DOMAIN SignedAs : SignedAs[i] \in Images /\ KeyOf[i] = NoKey /\ KeyOf[SignedAs[i]] # NoKey
  /\ Ops \subseteq {"inspect", "sign", "flash", "reboot", "bootsel"}
  /\ Replaced \in {"never", "idle", "always"} /\ MaxAsks \in Nat

VARIABLES
  flash,      \* flash[b]: the image of b, Empty or Torn
  mode,       \* mode[b]: "normal", "bootsel" (the ROM loader) or "away"
  bound,      \* bound[b]: the mode b returns to, once it was told to restart,
              \* or "nuke": it erases itself first
  file,       \* the files: "fw", the user's, and "signed", the signed copy
  closing,    \* SIGNING_ARTIFACTS.closing
  field,      \* the fields: serial and path
  selection,  \* FirmwareSelection
  dialog,     \* the dialog that is open, with its request
  task,       \* the request that runs
  said,       \* history: what the user agreed to, and for which board
  asks

boardVars == <<flash, mode, bound>>
pageVars == <<field, selection, dialog>>
vars == <<boardVars, file, closing, pageVars, task, said, asks>>

Paths == {"fw", "signed"}
Loading == task # None
Signed(i) == KeyOf[i] # NoKey

NoSelection(p) == [path |-> p, image |-> None, assessment |-> None]

TypeOK ==
  /\ flash \in [Boards -> Images \cup {Empty, Torn}]
  /\ mode \in [Boards -> {"normal", "bootsel", "away"}] /\ bound \in [Boards -> {"normal", "bootsel", "nuke", None}]
  /\ file["fw"] \in Images /\ file["signed"] \in Images \cup {None} /\ closing \in BOOLEAN
  /\ field \in [serial : Boards, path : Paths]
  /\ selection.path \in Paths /\ selection.image \in [meta : Images, hash : Images] \cup {None}
  /\ said \subseteq {"erase", "mismatch"} \X Boards
  /\ asks \in 0..MaxAsks

Init ==
  /\ flash \in [Boards -> (Starts \ Nukes) \cup {Empty}]
  /\ \A b \in Boards : flash[b] # Empty /\ b \in Secure => KeyOf[flash[b]] \in Trust[b]
  /\ mode = [b \in Boards |-> IF flash[b] = Empty THEN "bootsel" ELSE "normal"]
  /\ bound = [b \in Boards |-> None]
  /\ file \in {[p \in Paths |-> IF p = "fw" THEN i ELSE None] : i \in Images}
  /\ closing = FALSE
  /\ field \in [serial : Boards, path : {"fw"}]
  /\ selection = NoSelection("fw") /\ dialog = None /\ task = None
  /\ said = {} /\ asks = 0

-----------------------------------------------------------------------------
\* Boards, and the program that builds the image.

Runs(b) == flash[b] \in Starts /\ (b \in Secure => KeyOf[flash[b]] \in Trust[b])

Outside == UNCHANGED <<file, closing, pageVars, said, asks>>

Leave(b) ==
  /\ Outside /\ bound[b] # None /\ mode[b] # "away"
  /\ mode' = [mode EXCEPT ![b] = "away"]
  /\ UNCHANGED <<flash, bound, task>>

\* A nuke erases the board and returns to the loader; so does an image that
\* does not start or is not trusted.
Return(b) ==
  /\ Outside /\ mode[b] = "away" /\ bound[b] # None
  /\ flash' = IF bound[b] = "nuke" THEN [flash EXCEPT ![b] = Empty] ELSE flash
  /\ mode' = [mode EXCEPT ![b] = IF bound[b] = "normal" /\ Runs(b) THEN "normal" ELSE "bootsel"]
  /\ bound' = [bound EXCEPT ![b] = None]
  /\ task' = IF Loading /\ task.serial = b THEN [task EXCEPT !.restarted = TRUE] ELSE task

\* The user pulls the board, and plugs it in again with the button held or not.
Replug(b) ==
  /\ Outside /\ mode[b] # "away"
  /\ mode' = [mode EXCEPT ![b] = "away"]
  /\ \E m \in {"normal", "bootsel"} : bound' = [bound EXCEPT ![b] = m]
  /\ UNCHANGED <<flash, task>>

Replace ==
  /\ Replaced = "always" \/ (Replaced = "idle" /\ ~Loading)
  /\ \E i \in Images \ {file["fw"]} : file' = [file EXCEPT !["fw"] = i]
  /\ UNCHANGED <<boardVars, closing, pageVars, task, said, asks>>

-----------------------------------------------------------------------------
\* The page.

\* Mutant: the image that was inspected stays when another file is chosen.
FileChanged_Keeps(p) == selection

FileChanged(p) == IF selection.path = p THEN selection ELSE NoSelection(p)

\* Mutant: the assessment of a board stays when another is named.
DeviceChanged_Keeps(b) == selection

DeviceChanged(b) ==
  IF selection.assessment # None /\ selection.assessment.serial # b
    THEN [selection EXCEPT !.assessment = None] ELSE selection

Idle == ~Loading /\ dialog = None /\ UNCHANGED <<boardVars, file, closing>>

TypePath ==
  /\ Idle /\ \E p \in {q \in Paths : file[q] # None} : field' = [field EXCEPT !.path = p] /\ selection' = FileChanged(p)
  /\ UNCHANGED <<dialog, task, said, asks>>

TypeSerial ==
  /\ Idle /\ \E b \in Boards : field' = [field EXCEPT !.serial = b] /\ selection' = DeviceChanged(b)
  /\ UNCHANGED <<dialog, task, said, asks>>

Request(a) == [action |-> a, serial |-> field.serial, path |-> field.path, agreed |-> FALSE, accepted |-> FALSE, review |-> None]

Run(r) ==
  task' = [action |-> r.action, serial |-> r.serial, path |-> r.path, agreed |-> r.agreed, accepted |-> r.accepted,
           review |-> r.review, stage |-> "start", meta |-> None, hash |-> None, restarted |-> FALSE]

Ask(a) == Idle /\ a \in Ops /\ asks < MaxAsks /\ asks' = asks + 1 /\ said' = {} /\ UNCHANGED field

StartInspect == Ask("inspect") /\ Run(Request("inspect")) /\ selection' = NoSelection(field.path) /\ UNCHANGED dialog

StartSign ==
  /\ Ask("sign") /\ selection.image # None /\ ~Signed(selection.image.meta)
  /\ Run(Request("sign")) /\ UNCHANGED <<selection, dialog>>

StartFlash ==
  /\ Ask("flash") /\ selection.image # None /\ (selection.assessment # None => selection.assessment.allowed)
  /\ dialog' = Request("flash") /\ UNCHANGED <<selection, task>>

StartRestart == \E a \in {"reboot", "bootsel"} : Ask(a) /\ Run(Request(a)) /\ UNCHANGED <<selection, dialog>>

Answer == dialog # None /\ ~Loading /\ dialog' = None /\ UNCHANGED <<boardVars, file, closing, field, selection, asks>>

\* The phrase names the board.
Confirm ==
  /\ Answer /\ ~dialog.agreed
  /\ Run([dialog EXCEPT !.action = "check", !.agreed = TRUE])
  /\ said' = said \cup {<<"erase", dialog.serial>>}

AcceptMismatch ==
  /\ Answer /\ dialog.agreed
  /\ Run([dialog EXCEPT !.accepted = TRUE])
  /\ said' = said \cup {<<"mismatch", dialog.serial>>}

Cancel == Answer /\ UNCHANGED <<task, said>>

-----------------------------------------------------------------------------
\* The worker: firmware::run().

Works(a, s) == Loading /\ task.action \in a /\ task.stage = s
Quiet == UNCHANGED <<closing, pageVars, said, asks>>
To(s) == task' = [task EXCEPT !.stage = s]
ReadsBoards == Quiet /\ UNCHANGED <<boardVars, file>>

\* Worker::image(): picotool reads the file, then its digest is taken.
ReadSignature ==
  /\ ReadsBoards /\ Works({"inspect", "sign", "check"}, "start") /\ file[task.path] # None
  /\ task' = [task EXCEPT !.meta = file[task.path], !.stage = "digest"]

\* Mutant: of a signed image that is to be signed only the digest is read.
ReadDigest_Signs ==
  /\ ReadsBoards /\ Works({"inspect", "sign", "check"}, "digest") /\ file[task.path] # None
  /\ task' = [task EXCEPT !.hash = file[task.path], !.meta = None,
                          !.stage = IF task.action = "check" THEN "probe" ELSE IF task.action = "sign" THEN "seal" ELSE "done"]

ReadDigest ==
  /\ ReadsBoards /\ Works({"inspect", "sign", "check"}, "digest") /\ file[task.path] # None
  /\ task' = [task EXCEPT !.hash = file[task.path],
                          !.stage = CASE task.action = "inspect" -> "done"
                                      [] task.action = "sign" -> IF Signed(task.meta) THEN "error" ELSE "seal"
                                      [] task.action = "check" -> "probe"]

\* Mutant: an image is signed while the application closes.
TakeArtifacts_Closing == TRUE

TakeArtifacts == ~closing

\* SIGNING_ARTIFACTS is held from here to the end.
SignOpens ==
  /\ ReadsBoards /\ Works({"sign"}, "seal")
  /\ IF TakeArtifacts THEN To("sealing") ELSE To("error")

\* The file that is signed is signed already if it was replaced meanwhile.
SignEnds ==
  /\ Quiet /\ UNCHANGED boardVars /\ Works({"sign"}, "sealing")
  /\ LET i == file[task.path]
         j == IF i \in DOMAIN SignedAs THEN SignedAs[i] ELSE i IN
       /\ file' = [file EXCEPT !["signed"] = j]
       /\ task' = [task EXCEPT !.path = "signed", !.meta = j, !.hash = j, !.stage = "done"]

HoldsArtifacts == Loading /\ task.stage = "sealing"

\* cleanup_signed_images(), as the application quits.
Cleanup ==
  /\ ~HoldsArtifacts /\ ~closing /\ closing' = TRUE
  /\ file' = [file EXCEPT !["signed"] = None]
  /\ UNCHANGED <<boardVars, pageVars, task, said, asks>>

\* The loader answers until it is told to restart; it is listed until it leaves.
Answers(b) == mode[b] = "bootsel" /\ bound[b] = None

After == IF task.action = "check" THEN "assess" ELSE "done"

\* enter_update_mode(): is it there already?
Probe ==
  /\ ReadsBoards
  /\ Works({"check"}, "probe") \/ Works({"bootsel"}, "start")
  /\ IF mode[task.serial] = "bootsel" THEN To(After) ELSE To("request")

\* The button is pressed, or the answer is lost and nobody knows.
RequestUpdate ==
  /\ Quiet /\ UNCHANGED <<flash, mode, file>>
  /\ Works({"check", "bootsel"}, "request") /\ mode[task.serial] = "normal"
  /\ bound' \in {bound, [bound EXCEPT ![task.serial] = "bootsel"]}
  /\ To("wait")

EntersUpdateMode ==
  /\ ReadsBoards /\ Works({"check", "bootsel"}, "wait") /\ mode[task.serial] = "bootsel"
  /\ To(After)

BoardKey(b, i) ==
  IF b \in Secure THEN IF KeyOf[i] \in Trust[b] THEN KeyOf[i] ELSE NoKey
  ELSE IF flash[b] \in Images THEN KeyOf[flash[b]] ELSE NoKey

Mismatch(b, i) == KeyOf[i] # BoardKey(b, i)

\* Mutant: an unsigned image matches a board that trusts no key of it.
Allowed_Unsigned(b, i) == b \in Secure => ~Mismatch(b, i)

Allowed(b, i) == b \in Secure => Signed(i) /\ BoardKey(b, i) # NoKey /\ ~Mismatch(b, i)

Assess ==
  /\ ReadsBoards /\ Works({"check"}, "assess") /\ Answers(task.serial)
  /\ task' = [task EXCEPT !.stage = "done",
                !.review = [serial |-> task.serial, hash |-> task.hash,
                            mismatch |-> Mismatch(task.serial, task.meta), allowed |-> Allowed(task.serial, task.meta)]]

\* Mutant: the digest is not compared with the one that was reviewed.
ReviewedFlash_AnyImage(t, h) == t.review # None /\ t.review.allowed

ReviewedFlash(t, h) ==
  /\ t.review # None /\ t.review.allowed /\ t.agreed
  /\ t.review.mismatch => t.accepted
  /\ t.review.hash = h

Review ==
  /\ ReadsBoards /\ Works({"flash"}, "start") /\ file[task.path] # None
  /\ IF ReviewedFlash(task, file[task.path]) THEN To("load") ELSE To("error")

\* load -v -x: the board starts what was written; a nuke runs from memory.
Load ==
  /\ Quiet /\ UNCHANGED <<mode, file>>
  /\ Works({"flash"}, "load") /\ Answers(task.serial) /\ file[task.path] # None
  /\ IF file[task.path] \in Nukes
       THEN UNCHANGED flash /\ bound' = [bound EXCEPT ![task.serial] = "nuke"]
       ELSE flash' = [flash EXCEPT ![task.serial] = file[task.path]] /\ bound' = [bound EXCEPT ![task.serial] = "normal"]
  /\ task' = [task EXCEPT !.stage = "restart", !.restarted = FALSE]

LoadTears ==
  /\ Quiet /\ UNCHANGED <<mode, bound, file>>
  /\ Works({"flash"}, "load") /\ Answers(task.serial)
  /\ flash' = [flash EXCEPT ![task.serial] = Torn]
  /\ To("error")

\* A board in the loader is told by picotool, one that runs by its applet,
\* whose answer may be lost.
Reboot ==
  /\ Quiet /\ UNCHANGED <<flash, mode, file>>
  /\ Works({"reboot"}, "start") /\ mode[task.serial] # "away"
  /\ bound' \in {[bound EXCEPT ![task.serial] = "normal"]} \cup (IF mode[task.serial] = "normal" THEN {bound} ELSE {})
  /\ task' = [task EXCEPT !.stage = "restart", !.restarted = FALSE]

\* Mutant: the board is looked for where it was.
Expected_WhereItWas(t) == "bootsel"

Expected(t) == IF t.action = "flash" /\ t.review.hash \in Nukes THEN "bootsel" ELSE "normal"

\* wait_for_restart()
SeenAgain ==
  /\ ReadsBoards /\ Works({"flash", "reboot"}, "restart") /\ mode[task.serial] = Expected(task)
  /\ To("done")

\* Mutant: the board is waited for without a limit.
TimesOut_Never == FALSE

TimesOut == Loading /\ task.stage \in {"wait", "restart"}

WaitEnds == ReadsBoards /\ TimesOut /\ To("error")

\* The channel is taken, the board is not where it is needed, the button is
\* not pressed, picotool or the driver fails.
FailTask ==
  /\ ReadsBoards /\ Loading /\ task.stage \notin {"restart", "done", "error"}
  /\ To("error")

-----------------------------------------------------------------------------
\* The result.

Inspected(assessment) ==
  selection' = [path |-> task.path, image |-> [meta |-> task.meta, hash |-> task.hash], assessment |-> assessment]

Landing == Loading /\ UNCHANGED <<boardVars, file, closing, said, asks>>

LandImage ==
  /\ Landing /\ Works({"inspect", "sign"}, "done") /\ task' = None
  /\ Inspected(None) /\ field' = [field EXCEPT !.path = task.path]
  /\ UNCHANGED dialog

\* Mutant: a different key counts as accepted before the user was asked.
WriteOrConfirm_Accepts(r) == Run([r EXCEPT !.accepted = TRUE]) /\ UNCHANGED dialog

WriteOrConfirm(r) ==
  IF r.review.mismatch /\ ~r.accepted THEN dialog' = r /\ task' = None ELSE Run(r) /\ UNCHANGED dialog

\* confirmed_flash()
LandCheck ==
  /\ Landing /\ Works({"check"}, "done")
  /\ Inspected(task.review)
  /\ IF task.review.allowed
       THEN WriteOrConfirm([action |-> "flash", serial |-> task.serial, path |-> task.path, agreed |-> task.agreed,
                            accepted |-> task.accepted, review |-> task.review])
       ELSE task' = None /\ UNCHANGED dialog
  /\ UNCHANGED field

LandFlash ==
  /\ Landing /\ Works({"flash"}, "done") /\ task' = None
  /\ selection' = [path |-> task.path, image |-> [meta |-> task.review.hash, hash |-> task.review.hash],
                   assessment |-> task.review]
  /\ UNCHANGED <<field, dialog>>

LandRestart == Landing /\ Works({"reboot", "bootsel"}, "done") /\ task' = None /\ UNCHANGED pageVars

LandError == Landing /\ task.stage = "error" /\ task' = None /\ UNCHANGED pageVars

-----------------------------------------------------------------------------
BoardMoves == \E b \in Boards : Leave(b) \/ Return(b) \/ Replug(b)
User ==
  \/ TypePath \/ TypeSerial \/ StartInspect \/ StartSign \/ StartFlash \/ StartRestart
  \/ Confirm \/ AcceptMismatch \/ Cancel
Work ==
  \/ ReadSignature \/ ReadDigest \/ SignOpens \/ SignEnds
  \/ Probe \/ RequestUpdate \/ EntersUpdateMode \/ Assess \/ Review \/ Load \/ LoadTears \/ Reboot \/ SeenAgain
Ends == WaitEnds \/ FailTask
Land == LandImage \/ LandCheck \/ LandFlash \/ LandRestart \/ LandError

Next == BoardMoves \/ Replace \/ Cleanup \/ User \/ Work \/ Ends \/ Land

Spec == Init /\ [][Next]_vars

-----------------------------------------------------------------------------
\* Properties.

Written(b, i) ==
  \/ flash'[b] # flash[b] /\ flash'[b] = i
  \/ bound[b] # "nuke" /\ bound'[b] = "nuke" /\ file[task.path] = i

\* A board is written only after its serial was typed; if the key is another
\* than it has, only after that was accepted too.
WriteIsAgreed ==
  \A b \in Boards, i \in Images : Written(b, i) =>
     /\ <<"erase", b>> \in said
     /\ Mismatch(b, i) => <<"mismatch", b>> \in said

\* A board with Secure Boot is only ever written with what it trusts.
TrustedIsWritten ==
  \A b \in Boards, i \in Images : Written(b, i) /\ b \in Secure => KeyOf[i] \in Trust[b]

\* What is written is the image that was assessed: its digest and its key.
FlashesReviewed ==
  \A b \in Boards, i \in Images : Written(b, i) =>
     task.review.hash = i /\ task.review.mismatch = Mismatch(b, i)

\* What the page says of an image is about the file in the field, and what it
\* says of a board about the board in the field.
SelectionIsShown ==
  ~Loading =>
     /\ selection.image # None => selection.path = field.path
     /\ selection.assessment # None => selection.assessment.serial = field.serial

\* A flash that is reported as complete was followed by a restart.
FlashRestarts ==
  Loading /\ task.action = "flash" /\ task.stage = "done" /\ task.review.hash \notin Nukes => task.restarted

\* No signed copy is left when the application has quit.
NoImageIsLeft == closing => file["signed"] = None
=============================================================================
