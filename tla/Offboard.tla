------------------------------- MODULE Offboard -------------------------------
(***************************************************************************)
(* offboard() of hal/io.rs: every part of a key is wiped in turn, whatever *)
(* became of the ones before, and a receipt is signed over the journal     *)
(* that has the reset.  No screen offers it now; DeviceRepo still does.    *)
(*                                                                         *)
(* Every wipe opens the key anew.  It may be refused, fail, or be carried  *)
(* out with its answer lost; the key may be out of its port for a while.   *)
(***************************************************************************)
EXTENDS AuditChain, FiniteSets

CONSTANTS
  Guarded,     \* OTP slots with an access code: not deleted without it
  Applets,     \* the applets that are reset: OATH, PIV, OpenPGP
  MaxLog,      \* bound: events of the key
  Pending

OtpSlots == 1..4

OffboardAssumption == Guarded \subseteq OtpSlots /\ Applets # {} /\ MaxLog \in Nat

VARIABLES
  holds,    \* the parts of the key that still hold something
  log, on,  \* its journal, and whether it records
  present,  \* whether it is in its port
  report,   \* steps: each is Pending, "ok", "failed" or "unavailable"
  slot,     \* the OTP slot that is next
  signed    \* Pending, or whether the receipt is signed

vars == <<holds, log, on, present, report, slot, signed>>

Steps == {"otp", "fido", "attestation"} \cup Applets
PartsOf(s) == {s} \X (IF s = "otp" THEN OtpSlots ELSE {1})
Parts == UNION {PartsOf(s) : s \in Steps}
Outcomes == {"ok", "failed"}

TypeOK ==
  /\ holds \subseteq Parts /\ Len(log) <= MaxLog /\ {on, present} \subseteq BOOLEAN
  /\ report \in [Steps -> Outcomes \cup {Pending, "unavailable"}]
  /\ slot \in 1..5 /\ signed \in BOOLEAN \cup {Pending}
  /\ (report["otp"] = Pending) = (slot < 5)

Init ==
  /\ holds \in SUBSET Parts /\ present \in BOOLEAN /\ on \in BOOLEAN
  /\ log \in {<<>>, <<"reset">>, <<"reset", "use">>}
  /\ report = [s \in Steps |-> Pending] /\ slot = 1 /\ signed = Pending

Done(s) == report[s] # Pending
Report(s, outcome) == report' = [report EXCEPT ![s] = outcome]

Recorded(e) == log' = IF on /\ Len(log) < MaxLog THEN Append(log, e) ELSE log

Plug ==
  /\ present' = ~present
  /\ IF present THEN UNCHANGED log ELSE Recorded("boot")
  /\ UNCHANGED <<holds, on, report, slot, signed>>

Wiped(s, n) == holds' = holds \ {<<s, n>>}

\* Mutant: a slot that is not deleted is passed over.
DeleteSlot_GoesOn ==
  /\ slot < 5 /\ UNCHANGED <<log, on, present, signed>>
  /\ slot' = slot + 1
  /\ IF slot \notin Guarded /\ present THEN Wiped("otp", slot) ELSE UNCHANGED holds
  /\ IF slot = 4 THEN Report("otp", "ok") ELSE UNCHANGED report

\* Mutant: the slots that fail are not reported.
DeleteSlot_Unreported ==
  /\ slot < 5 /\ slot' = slot + 1 /\ UNCHANGED <<log, on, present, signed>>
  /\ IF slot \notin Guarded /\ present THEN Wiped("otp", slot) ELSE UNCHANGED holds
  /\ IF slot = 4 /\ slot \notin Guarded /\ present THEN Report("otp", "ok") ELSE UNCHANGED report

\* The first slot that is not deleted is reported, and the rest are left.
DeleteSlot ==
  /\ slot < 5 /\ UNCHANGED <<log, on, present, signed>>
  /\ \/ /\ slot \notin Guarded /\ present
        /\ Wiped("otp", slot) /\ slot' = slot + 1
        /\ IF slot = 4 THEN Report("otp", "ok") ELSE UNCHANGED report
     \/ /\ slot' = 5 /\ Report("otp", "failed")
        /\ UNCHANGED holds \/ (slot \notin Guarded /\ present /\ Wiped("otp", slot))

ResetApplet(a) ==
  /\ Done("otp") /\ ~Done(a) /\ UNCHANGED <<log, on, present, slot, signed>>
  /\ \/ present /\ Wiped(a, 1) /\ Report(a, "ok")
     \/ Report(a, "failed") /\ (UNCHANGED holds \/ (present /\ Wiped(a, 1)))

\* Touch is asked for; soon after power-up only.
ResetFido ==
  /\ (\A a \in Applets : Done(a)) /\ ~Done("fido") /\ UNCHANGED <<on, present, slot, signed>>
  /\ \/ present /\ Wiped("fido", 1) /\ Recorded("reset") /\ Report("fido", "ok")
     \/ /\ Report("fido", "failed")
        /\ UNCHANGED <<holds, log>> \/ (present /\ Wiped("fido", 1) /\ Recorded("reset"))

\* Cleared if there is one; a status that cannot be read is no failure.
ClearAttestation ==
  /\ Done("fido") /\ ~Done("attestation") /\ UNCHANGED <<log, on, present, slot, signed>>
  /\ \/ Report("attestation", "unavailable") /\ UNCHANGED holds
     \/ present /\ <<"attestation", 1>> \notin holds /\ Report("attestation", "ok") /\ UNCHANGED holds
     \/ present /\ Wiped("attestation", 1) /\ Report("attestation", "ok")
     \/ Report("attestation", "failed") /\ (UNCHANGED holds \/ (present /\ Wiped("attestation", 1)))

\* Mutant: the receipt does not need the reset.
HasReset_Always(j) == TRUE

HasReset(j) == \E i \in DOMAIN j.entries : j.entries[i] = "reset"

\* The log is read, and signed after: on some keys another program may use it
\* in between.
Sign ==
  /\ Done("attestation") /\ signed = Pending /\ UNCHANGED <<holds, on, present, report, slot>>
  /\ \/ signed' = FALSE /\ UNCHANGED log
     \/ /\ present /\ (UNCHANGED log \/ Recorded("use"))
        /\ LET j == Export(log) IN signed' = (HeadMatches(Checkpoint("key", log', 1), j) /\ HasReset(j))

Finished == signed # Pending /\ UNCHANGED vars

Next == Plug \/ DeleteSlot \/ (\E a \in Applets : ResetApplet(a)) \/ ResetFido \/ ClearAttestation \/ Sign \/ Finished

Spec == Init /\ [][Next]_vars

-----------------------------------------------------------------------------
\* What the report says is wiped holds nothing any more.
ReportedIsWiped == \A s \in Steps : report[s] = "ok" => PartsOf(s) \cap holds = {}

\* A receipt is signed only for a key whose journal has a reset, to the last
\* event that was recorded before.
SignedHoldsReset == signed = TRUE => \E i \in DOMAIN log : log[i] = "reset"
=============================================================================
