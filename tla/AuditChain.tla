----------------------------- MODULE AuditChain -----------------------------
(***************************************************************************)
(* The security journal of a key and its checkpoints                       *)
(* (hal/fido/audit.rs, audit_verify() of hal/fido/mod.rs).                 *)
(*                                                                         *)
(* The key chains its events by a hash and keeps the last of them; those   *)
(* before are folded into the epoch.  A hash is taken to be as good as     *)
(* what it was made of: a chain value is the sequence of all events folded *)
(* into it.                                                                *)
(***************************************************************************)
EXTENDS Naturals, Sequences, SequencesExt

CONSTANT Cap   \* events the key keeps

CapAssumption == Cap \in Nat \ {0}

Evicted(log) == IF Len(log) > Cap THEN Len(log) - Cap ELSE 0

\* AUDIT_READ: the window of events that are kept, and what came before.
Export(log) ==
  [start |-> Evicted(log), next |-> Len(log),
   epoch |-> SubSeq(log, 1, Evicted(log)),
   entries |-> SubSeq(log, Evicted(log) + 1, Len(log))]

\* Mutant: an export of any length is accepted.
WellFormed_Any(j) == TRUE

\* build_journal(): the export is as long as its window says.
WellFormed(j) == Len(j.entries) = IF j.next > j.start THEN j.next - j.start ELSE 0

\* Mutant: the events before the window are left out of the chain.
FoldChain_NoEpoch(epoch, entries) == entries

FoldChain(epoch, entries) == epoch \o entries
HeadOf(j) == FoldChain(j.epoch, j.entries)

\* AUDIT_CHECKPOINT: the head and its number, signed with the challenge.
Checkpoint(k, log, challenge) ==
  [head |-> log, seq |-> Len(log), key |-> k, signed |-> <<log, Len(log), challenge>>]

\* Mutant: a signature over another challenge passes.
VerifyCheckpoint_AnyTime(c, challenge) == c.signed[1] = c.head /\ c.signed[2] = c.seq

VerifyCheckpoint(c, challenge) == c.signed = <<c.head, c.seq, challenge>>

\* Mutant: the head that is signed is not compared with the log that was read.
HeadMatches_Always(c, j) == TRUE

HeadMatches(c, j) == c.head = HeadOf(j) /\ c.seq = j.next

\* AuditVerification: the journal with what is found of it.
Verification(c, j, challenge, matches) ==
  [journal |-> j, key |-> c.key, signatureOk |-> VerifyCheckpoint(c, challenge),
   headMatches |-> HeadMatches(c, j), expected |-> matches]

\* Mutant: a key that is not the expected one passes.
Authentic_AnyKey(v) == v.signatureOk /\ v.headMatches

Authentic(v) == v.signatureOk /\ v.headMatches /\ v.expected
=============================================================================
