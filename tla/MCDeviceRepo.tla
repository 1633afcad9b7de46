---------------------------- MODULE MCDeviceRepo ----------------------------
(***************************************************************************)
(* One RS-Key, whose serial is the same over both channels, and one        *)
(* Pico All, whose rescue serial differs from its FIDO serial.             *)
(***************************************************************************)
EXTENDS DeviceRepo, TLC

CONSTANTS rsKey, picoAll, n1, n2, chip

MCCardSerial == (rsKey :> n1) @@ (picoAll :> chip)
MCHidSerial == (rsKey :> n1) @@ (picoAll :> n2)

\* Looks only at behaviours in which the watcher has not taken its first sample
\* and at most one key is plugged in.
WatcherUnseeded == watch = "seed" /\ Len(bus) <= 1
=============================================================================
