----------------------------- MODULE ScreenForms -----------------------------
(***************************************************************************)
(* What a dialog of an applet's screen is to AppletScreen: what it runs;   *)
(* whether it needs the applet's secret; when its button is off: never,    *)
(* while the view loads, or also while nothing was read (a row of a list); *)
(* the file chooser it goes with; whether confirming it looks at `loading`.*)
(***************************************************************************)
FormType ==
  [kind : {"write", "secret", "reset", "use"}, needs : BOOLEAN, off : {"never", "loading", "unread"},
   file : {"none", "open", "save"}, guarded : BOOLEAN]

Form(kind, needs, off) ==
  [kind |-> kind, needs |-> needs, off |-> off, file |-> "none", guarded |-> TRUE]

-----------------------------------------------------------------------------
(***************************************************************************)
(* The dialogs of the PIV screen.  The slot rows and the reset button are  *)
(* off while the view loads; PIN, PUK, retries and management key are not. *)
(***************************************************************************)
Generate == Form("write", TRUE, "unread")
ExportCert == [Form("use", FALSE, "unread") EXCEPT !.file = "save"]
ChangePin == Form("secret", TRUE, "never")
UnblockPin == Form("secret", TRUE, "never")
DeleteCert == Form("write", TRUE, "unread")
SetRetries == Form("reset", TRUE, "never")
ChangeMgm == Form("secret", TRUE, "never")
ImportCert == [Form("write", TRUE, "unread") EXCEPT !.file = "open"]
ImportKey == [Form("write", TRUE, "unread") EXCEPT !.file = "open"]
Attest == [Form("use", FALSE, "unread") EXCEPT !.file = "save"]
DeleteKey == Form("write", TRUE, "unread")
MoveKey == Form("write", TRUE, "unread")
ResetPiv == Form("reset", FALSE, "loading")

PivForms ==
  {Generate, ExportCert, ChangePin, UnblockPin, DeleteCert, SetRetries, ChangeMgm, ImportCert, ImportKey, Attest,
   DeleteKey, MoveKey, ResetPiv}

-----------------------------------------------------------------------------
(***************************************************************************)
(* The dialogs of the OpenPGP screen.  All but the reset and the unblocking *)
(* by code fill in the factory's PIN where the card reports it; only the   *)
(* key rows and the reset are off while it loads.                          *)
(***************************************************************************)
ChangeUserPin == Form("secret", TRUE, "never")
ChangeAdminPin == Form("secret", TRUE, "never")
UnblockWithAdmin == Form("write", TRUE, "never")
SetResetCode == Form("write", TRUE, "never")
GeneratePgp == Form("write", TRUE, "unread")
Touch == Form("write", TRUE, "unread")
Cardholder == Form("write", TRUE, "never")
ResetOpenPgp == Form("reset", FALSE, "loading")

OpenPgpForms ==
  {ChangeUserPin, ChangeAdminPin, UnblockWithAdmin, SetResetCode, GeneratePgp, Touch, Cardholder, ResetOpenPgp}

-----------------------------------------------------------------------------
(***************************************************************************)
(* The dialogs of the Slots screen.  The slot's access code is typed, never *)
(* filled in; an empty field is the code of an unprotected slot.           *)
(***************************************************************************)
Swap == Form("write", FALSE, "loading")
DeleteSlot == Form("write", FALSE, "unread")
Program == Form("write", FALSE, "loading")
Test == Form("use", FALSE, "unread")

SlotForms == {Swap, DeleteSlot, Program, Test}

-----------------------------------------------------------------------------
(***************************************************************************)
(* The dialogs of the HSM screen.  Every button is off while the view loads. *)
(* The reset asks in a dialog that also reports, and starts whether or not *)
(* the view loads by then.                                                 *)
(***************************************************************************)
WithUserPin == Form("write", TRUE, "unread")   \* generate, delete, unwrap, write and delete objects, DKEK
UseKey == Form("use", TRUE, "unread")          \* use, wrap, read
ChangePins == Form("secret", TRUE, "unread")   \* user PIN, SO PIN, unblock
SetPins == Form("secret", FALSE, "unread")     \* of an applet without any
ResetHsm == [Form("reset", FALSE, "unread") EXCEPT !.guarded = FALSE]

HsmForms == {WithUserPin, UseKey, ChangePins, SetPins, ResetHsm}
=============================================================================
