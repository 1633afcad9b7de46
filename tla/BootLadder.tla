------------------------------ MODULE BootLadder ------------------------------
(***************************************************************************)
(* What the security page of PicoForge promises about a board's permanent  *)
(* boot policy: it climbs one rung at a time, a key once trusted stays     *)
(* trusted, no rung is climbed without a trusted key, and a locked board   *)
(* trusts one key for ever.                                                *)
(***************************************************************************)
EXTENDS FiniteSets, Naturals

CONSTANT Keys

VARIABLES
  rung,    \* how far the boot policy has been programmed
  trust    \* the signing keys the boot ROM accepts

vars == <<rung, trust>>

Init == rung = "open" /\ trust = {}

Trust(k) ==
  /\ rung # "locked"
  /\ trust' = trust \cup {k}
  /\ UNCHANGED rung

Climb(from, to) ==
  /\ rung = from
  /\ rung' = to
  /\ trust # {}
  /\ UNCHANGED trust

Lock ==
  /\ Climb("secure", "locked")
  /\ \E k \in Keys : trust = {k}

Next ==
  \/ \E k \in Keys : Trust(k)
  \/ Climb("open", "hardened")
  \/ Climb("hardened", "secure")
  \/ Lock

Spec == Init /\ [][Next]_vars
=============================================================================
