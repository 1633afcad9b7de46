------------------------------ MODULE KeyEvents ------------------------------
(***************************************************************************)
(* The keys and the announcements of DeviceRepo, as a screen meets them.   *)
(*                                                                         *)
(* Every screen subscribes to DeviceRepo and reads two things of it when   *)
(* an event comes: whether a key is shown, and whether it is another one   *)
(* than before (device_changed).  DeviceRepo.tla models how these come to  *)
(* be; here they are one step, taken some time after the keys moved.       *)
(***************************************************************************)
CONSTANTS
  Keys,          \* the keys the user owns
  NoKey,
  DriverErrors   \* whether a read may fail with the key present

KeysAssumption == NoKey \notin Keys /\ DriverErrors \in BOOLEAN

VARIABLES
  plugged,       \* the key in the port
  shown,         \* DeviceRepo.status: the key it shows
  deviceChanged, \* DeviceRepo.device_changed
  stirred        \* history: the keys moved since the last successful read

keyVars == <<plugged, shown, deviceChanged, stirred>>

Sockets == Keys \cup {NoKey}

KeyTypeOK ==
  /\ plugged \in Sockets /\ shown \in Sockets
  /\ deviceChanged \in BOOLEAN /\ stirred \in BOOLEAN

KeyInit ==
  /\ plugged \in Sockets /\ shown = plugged
  /\ deviceChanged = (shown # NoKey) /\ stirred = FALSE

\* Bound: the keys move again only after the last move was announced.
\* DeviceRepo.tla has the swaps that are faster than its watcher.
Plug ==
  /\ ~stirred
  /\ plugged' \in Sockets \ {plugged}
  /\ stirred' = TRUE
  /\ UNCHANGED <<shown, deviceChanged>>

\* refresh() read the key, or found none: the serial is compared with the one
\* that was shown; a failure leaves nothing to show and is no change.
AnnounceRead ==
  /\ shown' = plugged
  /\ deviceChanged' = (plugged # NoKey /\ plugged # shown)
  /\ stirred' = FALSE

\* A read that failed with the key present.
AnnounceFailure ==
  /\ DriverErrors
  /\ shown' = NoKey /\ deviceChanged' = FALSE
  /\ UNCHANGED stirred

\* Another task held the channel: what is shown stays.
AnnounceBusy ==
  /\ deviceChanged' = FALSE
  /\ UNCHANGED <<shown, stirred>>

\* update_fido_info(): an event that leaves device_changed as it was.
AnnounceFidoInfo == UNCHANGED <<shown, deviceChanged, stirred>>

Announce ==
  /\ UNCHANGED plugged
  /\ AnnounceRead \/ AnnounceFailure \/ AnnounceBusy \/ AnnounceFidoInfo
=============================================================================
