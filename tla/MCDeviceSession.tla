--------------------------- MODULE MCDeviceSession ---------------------------
(***************************************************************************)
(* Small instances of DeviceSession: a Pico All, an older pico-fido and a  *)
(* foreign FIDO key share two USB ports.                                   *)
(***************************************************************************)
EXTENDS DeviceSession, TLC

CONSTANTS w1, w2, p1, p2, allA, oldB, foreignC

MCFirmwareOf == (allA :> "PicoAll") @@ (oldB :> "PicoFido") @@ (foreignC :> "Unknown")
MCIdentities == {"serialA", "plain", "none"}
MCIdentity == (allA :> "serialA") @@ (oldB :> "plain") @@ (foreignC :> "none")
=============================================================================
