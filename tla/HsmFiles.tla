------------------------------ MODULE HsmFiles ------------------------------
(***************************************************************************)
(* The files of a SmartCard-HSM and the commands that allocate, write and  *)
(* delete them (hal/applets/hsm.rs).                                       *)
(*                                                                         *)
(* A file is a prefix and an id: CC a private key, C4 its description, CE  *)
(* its certificate, CD data.  Id 0 is the device's identity.  Every        *)
(* operation opens the applet, reads what it decides on, proves the PIN    *)
(* and gives one command.  The card is opened shared: a program beside     *)
(* this one may use it between two commands.                               *)
(***************************************************************************)
EXTENDS Naturals, FiniteSets

CONSTANTS
  MaxId,    \* the highest id (255 on a card)
  MaxOps,   \* bound: operations in one behaviour
  Others    \* whether another program writes to the card

HsmAssumption == MaxId \in Nat \ {0} /\ MaxOps \in Nat /\ Others \in BOOLEAN

VARIABLES
  files,    \* the card: each file it holds, and the operation that made it
  ready,    \* the card: its PINs are set
  op,       \* the operation that runs
  ops,      \* operations so far
  lost,     \* history: files an operation replaced or wiped without being asked to
  mixed     \* history: keys that came to lie beside another key's description

vars == <<files, ready, op, ops, lost, mixed>>

Prefixes == {"CC", "C4", "CE", "CD"}
File(pre, id) == <<pre, id>>
Fids == Prefixes \X (0..MaxId)
Held == DOMAIN files
Identity == {File("CC", 0), File("C4", 0)}

KeyRelated == {"CC", "C4", "CE"}
Makers == 0..MaxOps

Idle == [kind |-> "none", fid |-> File("CC", 0), auto |-> FALSE, phase |-> "idle"]
OpType ==
  [kind : {"none", "generate", "unwrap", "delete_key", "write", "delete_object", "setup", "reset"},
   fid : Fids, auto : BOOLEAN, phase : {"idle", "check", "list", "verify", "command"}]

TypeOK ==
  /\ Held \subseteq Fids /\ files \in [Held -> Makers]
  /\ ready \in BOOLEAN /\ op \in OpType /\ ops \in Makers
  /\ lost \in SUBSET Fids /\ mixed \in SUBSET (0..MaxId)

Init ==
  /\ files = [f \in Identity |-> 0] /\ ready \in BOOLEAN
  /\ op = Idle /\ ops = 0 /\ lost = {} /\ mixed = {}

-----------------------------------------------------------------------------
\* Which ids and files are free.

First(S) == CHOOSE i \in S : \A j \in S : i <= j

\* Mutant: only private keys take an id.
FreeKeyIds_KeysOnly(listed) == {id \in 1..MaxId : File("CC", id) \notin listed}

\* Mutant: the ids end one later.
FreeKeyIds_Past(listed) == {id \in 1..(MaxId + 1) : \A pre \in KeyRelated : File(pre, id) \notin listed}

FreeKeyIds(listed) == {id \in 1..MaxId : \A pre \in KeyRelated : File(pre, id) \notin listed}

\* Mutant: an object only keeps clear of keys.
FreeObjectIds_Keys(listed, pre) == IF pre \in {"C4", "CE"} THEN FreeKeyIds(listed) ELSE 1..MaxId

FreeObjectIds(listed, pre) ==
  {id \in 1..MaxId :
     /\ File(pre, id) \notin listed
     /\ pre \in {"C4", "CE"} => id \in FreeKeyIds(listed)}

-----------------------------------------------------------------------------
\* An operation is called; what it checks before it opens the card.

Start(kind, fid, auto, phase) ==
  /\ op = Idle /\ ops < MaxOps /\ ops' = ops + 1
  /\ op' = [kind |-> kind, fid |-> fid, auto |-> auto, phase |-> phase]
  /\ UNCHANGED <<files, ready, lost, mixed>>

\* Mutant: the identity may be deleted like any other file.
Deletable_Any(fid) == TRUE

Deletable(fid) == fid[2] # 0

Generate == \/ Start("generate", File("CC", 0), TRUE, "list")
            \/ \E id \in 1..MaxId : Start("generate", File("CC", id), FALSE, "list")
Unwrap == Start("unwrap", File("CC", 0), TRUE, "list")
DeleteKey == \E id \in 0..MaxId :
  Deletable(File("CC", id)) /\ Start("delete_key", File("CC", id), FALSE, "verify")
DeleteObject == \E fid \in Fids :
  fid[1] # "CC" /\ Deletable(fid) /\ Start("delete_object", fid, FALSE, "verify")
WriteObject ==
  \/ \E pre \in {"CE", "CD"} : Start("write", File(pre, 0), TRUE, "verify")
  \/ \E fid \in Fids :
       fid[1] \in {"CE", "CD"} /\ Deletable(fid) /\ fid \in Held /\ Start("write", fid, FALSE, "verify")
Setup == Start("setup", File("CC", 0), FALSE, "check")
Reset == Start("reset", File("CC", 0), FALSE, "command")

-----------------------------------------------------------------------------
\* The steps up to the command.

At(phase) == op.phase = phase
Goes(phase) == op' = [op EXCEPT !.phase = phase]
Refuse == op' = Idle
Card == UNCHANGED <<files, ready, ops, lost, mixed>>

\* The PIN status, read before a first set-up.
CheckPin ==
  /\ At("check") /\ Card
  /\ IF ready THEN Refuse ELSE Goes("list")

\* The list of files; the id is fixed by it.
Allocated(ids) == [op EXCEPT !.fid = File(op.fid[1], First(ids)),
                             !.phase = IF op.kind = "write" THEN "command" ELSE "verify"]

List ==
  /\ At("list") /\ Card
  /\ CASE op.kind = "setup" -> IF Held \subseteq Identity THEN Goes("command") ELSE Refuse
       [] op.kind = "write" ->
            LET ids == FreeObjectIds(Held, op.fid[1])
            IN  IF ids = {} THEN Refuse ELSE op' = Allocated(ids)
       [] OTHER ->
            LET ids == IF op.auto THEN FreeKeyIds(Held) ELSE {op.fid[2]} \ {f[2] : f \in {g \in Held : g[1] = "CC"}}
            IN  IF ids = {} THEN Refuse ELSE op' = Allocated(ids)

\* The user PIN; a card whose PINs are not set has none to prove.
Verify ==
  /\ At("verify") /\ Card
  /\ \/ ready /\ Goes(IF op.kind = "write" /\ op.auto THEN "list" ELSE "command")
     \/ Refuse

-----------------------------------------------------------------------------
\* The command.  A generated key comes with a description and a certificate.

Made == [f \in Held \cup {File(pre, op.fid[2]) : pre \in KeyRelated} |->
           IF f[1] \in KeyRelated /\ f[2] = op.fid[2] THEN ops ELSE files[f]]
Imported == [f \in Held \cup {op.fid} |-> IF f = op.fid THEN ops ELSE files[f]]
Kept(S) == [f \in Held \cap S |-> files[f]]

\* What a command took that nobody asked it to take.
Replaced == IF op.kind \in {"generate", "unwrap"} \/ op.auto THEN {op.fid} \cap Held ELSE {}

Execute ==
  /\ At("command")
  /\ CASE op.kind = "generate" -> files' = Made /\ UNCHANGED ready
       [] op.kind \in {"unwrap", "write"} -> files' = Imported /\ UNCHANGED ready
       [] op.kind \in {"delete_key", "delete_object"} -> files' = Kept(Fids \ {op.fid}) /\ UNCHANGED ready
       [] op.kind \in {"setup", "reset"} -> files' = Kept(Identity) /\ ready' = TRUE
  /\ lost' = lost \cup (IF op.kind = "setup" THEN Held \ Identity ELSE Replaced)
  /\ mixed' = mixed \cup
       {id \in {op.fid[2]} : op.kind = "unwrap" /\ \E pre \in {"C4", "CE"} : File(pre, id) \in Held}
  /\ Refuse
  /\ UNCHANGED ops

\* The card or its answer is gone: the command was given or it was not.
Cut == op # Idle /\ Refuse /\ Card

\* Another program makes a key, or writes an object.
Other ==
  /\ Others /\ ready /\ op # Idle /\ ops < MaxOps
  /\ \E pre \in {"CC", "CD"}, id \in 1..MaxId :
       /\ File(pre, id) \notin Held
       /\ files' = [f \in Held \cup {File(pre, id)} |-> IF f = File(pre, id) THEN ops + 1 ELSE files[f]]
  /\ ops' = ops + 1
  /\ UNCHANGED <<ready, op, lost, mixed>>

Call == Generate \/ Unwrap \/ DeleteKey \/ DeleteObject \/ WriteObject \/ Setup \/ Reset
Next == Call \/ CheckPin \/ List \/ Verify \/ Execute \/ Cut \/ Other
Spec == Init /\ [][Next]_vars

-----------------------------------------------------------------------------
\* Nothing is overwritten by an operation that picked its own place, and a
\* first set-up wipes nothing.
NothingOverwritten == lost = {}

\* The device's identity outlives every operation.
IdentityStays == Identity \subseteq Held

\* A restored key does not take the id of a description or certificate that
\* was left behind by another.
KeysLieApart == mixed = {}
=============================================================================
