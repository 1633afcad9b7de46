------------------------------ MODULE FidoOps ------------------------------
(***************************************************************************)
(* What the program asks of a FIDO authenticator: passkeys, PINs, minimum  *)
(* length, enterprise attestation, reset, and configuration over HID.      *)
(*                                                                         *)
(* An operation opens one session and sends commands one after the other.  *)
(* A command that needs the PIN fetches the authenticator's agreement key  *)
(* and then a token.  The authenticator keeps one token and one cursor for *)
(* everybody: another program with a session of its own may take the       *)
(* token, drop the cursor, spend tries or change the passkeys in between.  *)
(***************************************************************************)
EXTENDS Naturals, Sequences, FiniteSets

CONSTANTS
  Creds,       \* passkeys the key may hold
  Rp,          \* the relying party of each
  Kinds,       \* firmware: "rskey", "pico" (7.3 and later), "legacy", and "old", without permissions
  Ops,         \* operations the user asks for
  Asks,        \* settings a configuration names
  MaxTries, MaxOps, MaxMeddles, MaxLosses \* bounds

FidoAssumption ==
  /\ Rp \in [Creds -> STRING]
  /\ Kinds \subseteq {"rskey", "pico", "legacy", "old"}
  /\ Ops \subseteq {"list", "delete", "setpin", "changepin", "minlen", "ea", "upload", "csr", "reset",
                    "led", "apps", "config"}
  /\ Asks \subseteq SUBSET {"vidpid", "gpio", "cycle", "steady", "name", "long"}
  /\ MaxTries \in Nat \ {0} /\ {MaxOps, MaxMeddles, MaxLosses} \subseteq Nat

VARIABLES
  kind, deaf,  \* the firmware; whether it acknowledges attestation and leaves it off
  key,         \* what the authenticator stores
  tries, token, cursor,
  op, todo,    \* the operation, and the commands still to be sent
  agreed,      \* whether the agreement key that was fetched is still the authenticator's
  rps, left,   \* relying parties to look into, and answers the enumeration still owes
  listed, base,\* passkeys found; the options a write starts from
  result,
  before, stayed, seen, charged, met, lost, ops \* history of the operation

device == <<kind, deaf, key, tries, token, cursor>>
client == <<op, todo, agreed, rps, left, listed, base, result>>
vars == <<device, client, before, stayed, seen, charged, met, lost, ops>>

Fields == {"vidpid", "gpio", "cycle", "steady", "name", "colour", "effect"}
Options == {"cycle", "steady"}
NoToken == [owner |-> "none", perms |-> {}]
NoCursor == [of |-> "none", rest |-> {}]
NoOp == [name |-> "none", typed |-> 0, new |-> 0, cred |-> CHOOSE c \in Creds : TRUE, asks |-> {}]

\* A PIN is its length; 0 is none.
Keys == [creds : SUBSET Creds, pin : {0, 4, 6}, min : {4, 6}, ea : BOOLEAN, cert : BOOLEAN, apps : BOOLEAN,
         fields : [Fields -> {"old", "new", "default"}]]
Requests == [name : Ops, typed : {0, 4, 6}, new : {0, 3, 4, 6, 64}, cred : Creds, asks : Asks \cup {{}}]

TypeOK ==
  /\ kind \in Kinds /\ deaf \in BOOLEAN /\ key \in Keys /\ tries \in 0..MaxTries
  /\ token \in [owner : {"none", "client", "other"}, perms : SUBSET {"cm", "acfg"}]
  /\ cursor.of \in {"none", "rps", "creds", "other"}
  /\ op \in Requests \cup {NoOp} /\ agreed \in BOOLEAN /\ left \in 0..Cardinality(Creds)
  /\ listed \subseteq Creds /\ base \in {"read", "default"} /\ result \in {"idle", "running", "done", "error"}

Init ==
  /\ kind \in Kinds /\ deaf \in BOOLEAN
  /\ key \in [creds : SUBSET Creds, pin : {0, 6}, min : {4}, ea : {FALSE}, cert : {FALSE}, apps : {FALSE},
              fields : {[f \in Fields |-> "old"]}]
  /\ tries = MaxTries /\ token = NoToken /\ cursor = NoCursor
  /\ op = NoOp /\ todo = <<>> /\ agreed = FALSE /\ rps = {} /\ left = 0 /\ listed = {} /\ base = "read"
  /\ result = "idle" /\ before = key /\ stayed = key.creds /\ seen = key.creds
  /\ charged = 0 /\ met = 0 /\ lost = 0 /\ ops = 0

-----------------------------------------------------------------------------
\* Plans: the commands of an operation.

WithToken(last) == <<"agree", "token">> \o last

\* Mutant: the permission to manage passkeys is asked for everything.
Permission_Passkeys == "cm"

Permission == IF op.name \in {"list", "delete"} THEN "cm" ELSE "acfg"

\* Settings a legacy board cannot take are refused, not left out.
Valid(request) ==
  CASE kind = "rskey" -> TRUE
    [] kind = "pico"  -> FALSE
    [] OTHER          -> request.asks \cap {"name", "long"} = {}

\* The record of all settings is written at once; options go only together.
RsKeyFields(asks) == IF Options \subseteq asks THEN asks ELSE asks \ Options

RsKeyPlan(request) ==
  IF RsKeyFields(request.asks) = {} THEN <<>> ELSE <<"probe">> \o WithToken(<<"phy">>)

\* A token for every setting; the options are read before they are written.
LegacyPlan(request) ==
  LET One(field) == IF field \in request.asks THEN WithToken(<<field>>) ELSE <<>>
  IN  One("vidpid") \o One("gpio")
      \o (IF request.asks \cap Options = {} THEN <<>> ELSE <<"readOptions">> \o WithToken(<<"options">>))

ConfigPlan(request) ==
  IF request.asks = {} THEN <<>>
  ELSE <<"info">> \o (IF kind = "rskey" THEN <<>> ELSE <<"probeLegacy">>) \o <<"plan">>

Plan(request) ==
  CASE request.name = "list"      -> WithToken(<<"rpsBegin">>)
    [] request.name = "delete"    -> WithToken(<<"delete">>)
    [] request.name \in {"setpin", "changepin"} -> <<"agree", request.name>>
    [] request.name = "ea"        -> WithToken(<<"ea", "readBack">>)
    [] request.name \in {"minlen", "upload", "apps"} -> WithToken(<<request.name>>)
    [] request.name = "led"       -> <<"readLed">> \o WithToken(<<"led">>)
    [] request.name = "config"    -> ConfigPlan(request)
    [] OTHER                      -> <<request.name>>

\* Mutant: only the least length is checked.
TooShortOrLong_Short(request) == request.name \in {"setpin", "changepin"} /\ request.new < 4

\* Refused before anything is sent.
TooShortOrLong(request) == request.name \in {"setpin", "changepin"} /\ (request.new < 4 \/ request.new > 63)

\* What the screens ask: a delete names a passkey, a LED or USB write needs RS-Key.
Sensible(request) ==
  /\ request.asks # {} => request.name = "config"
  /\ (request.new # 0) = (request.name \in {"setpin", "changepin", "minlen"})
  /\ request.name = "minlen" => request.new \in {4, 6}
  /\ request.name \in {"setpin", "csr", "reset"} => request.typed = 0
  /\ request.name \notin {"setpin", "csr", "reset", "config"} => request.typed # 0
  /\ request.name = "delete" \/ request.cred = NoOp.cred
  /\ request.name \in {"led", "apps"} => kind = "rskey"

Start ==
  /\ result # "running" /\ ops < MaxOps /\ ops' = ops + 1
  /\ op' \in {r \in Requests : Sensible(r)}
  /\ todo' = (IF TooShortOrLong(op') THEN <<>> ELSE Plan(op'))
  /\ result' = (IF TooShortOrLong(op') THEN "error" ELSE IF todo' = <<>> THEN "done" ELSE "running")
  /\ agreed' = FALSE /\ rps' = {} /\ left' = 0 /\ listed' = {} /\ base' = "default"
  /\ before' = key /\ stayed' = key.creds /\ seen' = key.creds /\ charged' = 0 /\ met' = 0 /\ lost' = 0
  /\ UNCHANGED device

-----------------------------------------------------------------------------
\* One command.

Sends(command) == result = "running" /\ Head(todo) = command
Goes(plan) == todo' = plan /\ result' = IF plan = <<>> THEN "done" ELSE "running"
Fails == todo' = <<>> /\ result' = "error"
Rest == Tail(todo)

\* Mutant: every operation falls back to the plain token.
FallsBack_Always == TRUE

\* Configurations fall back from the token with permissions to the plain one.
FallsBack == op.name = "config"

\* Mutant: the fallback is tried as often as the PIN is refused.
Refused_Again == IF FallsBack /\ Head(todo) = "token" THEN Goes(<<"agree">> \o todo) ELSE Fails

\* What an error of the command does to the operation.
Refused ==
  CASE FallsBack /\ Head(todo) = "agree" -> Goes(<<"plainAgree", "plain">> \o Tail(Rest))
    [] FallsBack /\ Head(todo) = "token" -> Goes(<<"plainAgree", "plain">> \o Rest)
    [] Head(todo) \in {"readOptions", "readLed"} -> Goes(Rest)
    [] OTHER -> Fails

Quiet == UNCHANGED <<kind, deaf, op, before, charged, met, ops>>
Finds == UNCHANGED <<rps, left, listed, base>>
Tracks == stayed' = stayed \cap key'.creds /\ seen' = seen \cup key'.creds
Keeps == UNCHANGED <<key, tries, token>>

\* The authenticator has done it; its answer arrives, or is lost.
Answered(plan) ==
  \/ Goes(plan) /\ UNCHANGED lost
  \/ lost < MaxLosses /\ lost' = lost + 1 /\ Refused

\* No answer, and nothing done: the board is out of reach, or no button was pressed.
Unanswered ==
  /\ result = "running" /\ lost < MaxLosses /\ lost' = lost + 1
  /\ Refused /\ cursor' = NoCursor
  /\ Quiet /\ Finds /\ Keeps /\ Tracks /\ UNCHANGED agreed

Agree ==
  /\ Sends("agree") \/ Sends("plainAgree")
  /\ Answered(Rest) /\ agreed' = TRUE /\ cursor' = NoCursor
  /\ Quiet /\ Finds /\ Keeps /\ Tracks

\* The PIN is compared under the agreement: one that was replaced spoils it.
Compared(grant, plan) ==
  /\ cursor' = NoCursor /\ UNCHANGED <<kind, deaf, op, before, met, ops>>
  /\ IF tries = 0 \/ key.pin = 0
     THEN Refused /\ UNCHANGED <<key, tries, token, agreed, charged, lost>>
     ELSE IF agreed /\ op.typed = key.pin
     THEN grant /\ tries' = MaxTries /\ Answered(plan) /\ UNCHANGED <<agreed, charged>>
     ELSE tries' = tries - 1 /\ agreed' = FALSE /\ charged' = charged + 1 /\ Refused
          /\ UNCHANGED <<key, token, lost>>

Token ==
  /\ Sends("token") /\ Finds
  /\ IF kind = "old"
     THEN Refused /\ Quiet /\ Keeps /\ cursor' = NoCursor /\ UNCHANGED <<agreed, lost>>
     ELSE Compared(UNCHANGED key /\ token' = [owner |-> "client", perms |-> {Permission}], Rest)
  /\ Tracks

\* The plain token allows what its firmware lets it: everything only on old ones.
PlainToken ==
  /\ Sends("plain") /\ Finds
  /\ Compared(UNCHANGED key
              /\ token' = [owner |-> "client", perms |-> IF kind = "old" THEN {"cm", "acfg"} ELSE {}], Rest)
  /\ Tracks

ChangePin ==
  /\ Sends("changepin") /\ Finds
  /\ IF op.new < key.min /\ agreed /\ op.typed = key.pin
     THEN Refused /\ Quiet /\ Keeps /\ cursor' = NoCursor /\ UNCHANGED <<agreed, lost>>
     ELSE Compared(key' = [key EXCEPT !.pin = op.new] /\ token' = NoToken, Rest)
  /\ Tracks

\* A PIN is set only where there is none.
SetPin ==
  /\ Sends("setpin") /\ Finds /\ Quiet /\ cursor' = NoCursor /\ UNCHANGED <<agreed, tries>>
  /\ IF key.pin = 0 /\ agreed /\ op.new >= key.min
     THEN key' = [key EXCEPT !.pin = op.new] /\ token' = NoToken /\ Answered(Rest)
     ELSE Refused /\ UNCHANGED <<key, token, lost>>
  /\ Tracks

-----------------------------------------------------------------------------
\* Passkeys.

Signed(permission) == token.owner = "client" /\ permission \in token.perms
SignedPasskeys == Signed("cm")
SignedConfig == Signed("acfg")
Parties == {Rp[c] : c \in key.creds}

\* All relying parties first: a cursor does not survive another command.
AfterRp(owed, found) == IF owed > 0 THEN <<"rpsNext">> ELSE WithToken(<<"credsBegin">>)

Listing == Quiet /\ Keeps /\ Tracks /\ UNCHANGED <<agreed, base>>

RpsBegin ==
  /\ Sends("rpsBegin") /\ Listing /\ UNCHANGED listed
  /\ IF ~SignedPasskeys \/ Parties = {}
     THEN /\ IF SignedPasskeys THEN Goes(<<>>) ELSE Refused
          /\ cursor' = NoCursor /\ UNCHANGED <<rps, left, lost>>
     ELSE \E r \in Parties :
            /\ rps' = {r} /\ left' = Cardinality(Parties) - 1
            /\ cursor' = [of |-> "rps", rest |-> Parties \ {r}]
            /\ Answered(AfterRp(left', rps'))

\* Mutant: an enumeration that was interrupted is taken for its end.
RpsNext_Lenient ==
  /\ Sends("rpsNext") /\ Listing /\ UNCHANGED listed
  /\ IF cursor.of # "rps" \/ cursor.rest = {}
     THEN Goes(AfterRp(0, rps)) /\ UNCHANGED <<rps, left, cursor, lost>>
     ELSE \E r \in cursor.rest :
            /\ rps' = rps \cup {r} /\ left' = left - 1 /\ cursor' = [cursor EXCEPT !.rest = @ \ {r}]
            /\ Answered(AfterRp(left', rps'))

RpsNext ==
  /\ Sends("rpsNext") /\ Listing /\ UNCHANGED listed
  /\ IF cursor.of # "rps" \/ cursor.rest = {}
     THEN Refused /\ UNCHANGED <<rps, left, cursor, lost>>
     ELSE \E r \in cursor.rest :
            /\ rps' = rps \cup {r} /\ left' = left - 1 /\ cursor' = [cursor EXCEPT !.rest = @ \ {r}]
            /\ Answered(AfterRp(left', rps'))

\* The next relying party, with a token of its own.
AfterCred(owed, todoRps) ==
  IF owed > 0 THEN <<"credsNext">> ELSE IF todoRps = {} THEN <<>> ELSE WithToken(<<"credsBegin">>)

\* A relying party whose passkeys are gone has none to list.
CredsBegin ==
  /\ Sends("credsBegin") /\ Listing
  /\ IF ~SignedPasskeys THEN Refused /\ cursor' = NoCursor /\ UNCHANGED <<rps, left, listed, lost>>
     ELSE \E r \in rps :
            LET its == {c \in key.creds : Rp[c] = r} IN
            /\ rps' = rps \ {r}
            /\ IF its = {} THEN Goes(AfterCred(0, rps')) /\ cursor' = NoCursor /\ UNCHANGED <<left, listed, lost>>
               ELSE \E c \in its :
                      /\ listed' = listed \cup {c} /\ left' = Cardinality(its) - 1
                      /\ cursor' = [of |-> "creds", rest |-> its \ {c}]
                      /\ Answered(AfterCred(left', rps'))

CredsNext ==
  /\ Sends("credsNext") /\ Listing /\ UNCHANGED rps
  /\ IF cursor.of # "creds" \/ cursor.rest = {} THEN Refused /\ UNCHANGED <<left, listed, cursor, lost>>
     ELSE \E c \in cursor.rest :
            /\ listed' = listed \cup {c} /\ left' = left - 1 /\ cursor' = [cursor EXCEPT !.rest = @ \ {c}]
            /\ Answered(AfterCred(left', rps))

\* A command that the token signs changes what is stored.
Changes(signed, new) ==
  /\ Quiet /\ Finds /\ cursor' = NoCursor /\ UNCHANGED <<tries, token, agreed>>
  /\ IF signed THEN key' = new /\ Answered(Rest) ELSE UNCHANGED <<key, lost>> /\ Refused
  /\ Tracks

Delete ==
  /\ Sends("delete")
  /\ Changes(SignedPasskeys /\ op.cred \in key.creds, [key EXCEPT !.creds = @ \ {op.cred}])

-----------------------------------------------------------------------------
\* Settings.

\* The minimum can only be raised.
SetMin == Sends("minlen") /\ Changes(SignedConfig /\ op.new >= key.min, [key EXCEPT !.min = op.new])

EnableEa == Sends("ea") /\ Changes(SignedConfig, [key EXCEPT !.ea = @ \/ ~deaf])

\* Mutant: another option is looked at.
ReadBack_Other == Sends("readBack") /\ Changes(key.cert, key)

ReadBack == Sends("readBack") /\ Changes(key.ea, key)

Upload == Sends("upload") /\ Changes(SignedConfig, [key EXCEPT !.cert = TRUE])
Csr == Sends("csr") /\ Changes(TRUE, key)

\* Only soon after the key was plugged in; the factory's settings of FIDO, not of the board.
Reset ==
  /\ Sends("reset") /\ Quiet /\ Finds /\ cursor' = NoCursor /\ UNCHANGED agreed
  /\ \/ Refused /\ Keeps /\ UNCHANGED lost
     \/ /\ key' = [key EXCEPT !.creds = {}, !.pin = 0, !.min = 4, !.ea = FALSE]
        /\ tries' = MaxTries /\ token' = NoToken /\ Answered(Rest)
  /\ Tracks

WriteApps == Sends("apps") /\ Changes(SignedConfig, [key EXCEPT !.apps = TRUE])

\* Reads that need no PIN.
Info == (Sends("info") \/ Sends("probe")) /\ Changes(TRUE, key)
ProbeLegacy == Sends("probeLegacy") /\ Changes(TRUE, key)

Reads ==
  /\ Answered(Rest)
  /\ base' = (IF lost' = lost THEN "read" ELSE base)
  /\ cursor' = NoCursor /\ Quiet /\ Keeps /\ Tracks /\ UNCHANGED <<agreed, rps, left, listed>>

ReadOptions == Sends("readOptions") /\ Reads
ReadLed == Sends("readLed") /\ Reads

\* What is asked is weighed once the firmware is known, and a PIN must be there.
PlanConfig ==
  /\ Sends("plan") /\ Finds /\ Keeps /\ Tracks /\ Quiet /\ UNCHANGED <<agreed, cursor, lost>>
  /\ IF ~Valid(op) \/ op.typed = 0 \/ (kind = "rskey" /\ "long" \in op.asks) THEN Fails
     ELSE Goes(IF kind = "rskey" THEN RsKeyPlan(op) ELSE LegacyPlan(op))

Put(fields) == [key EXCEPT !.fields = [f \in Fields |-> IF f \in fields THEN "new" ELSE @[f]]]
WritePhy == Sends("phy") /\ Changes(SignedConfig, Put(RsKeyFields(op.asks)))
WriteVendor(field) == Sends(field) /\ Changes(SignedConfig, Put({field}))

\* What was not read is taken from a default.
Based(kept) == [f \in Fields |-> IF f \in kept /\ base # "read" THEN "default" ELSE key.fields[f]]

\* All options in one word: those not asked for come from what was read.
WriteOptions ==
  /\ Sends("options")
  /\ Changes(SignedConfig,
       [key EXCEPT !.fields = [f \in Fields |-> IF f \in op.asks \cap Options THEN "new" ELSE Based(Options)[f]]])

\* Mutant: the block is built anew.
WriteLed_Fresh ==
  /\ Sends("led")
  /\ Changes(SignedConfig, [key EXCEPT !.fields["colour"] = "new", !.fields["effect"] = "default"])

\* Colour and brightness are replaced, effect and speed kept.
WriteLed ==
  /\ Sends("led")
  /\ Changes(SignedConfig, [key EXCEPT !.fields = [Based({"effect"}) EXCEPT !["colour"] = "new"]])

-----------------------------------------------------------------------------
\* Another program at the same key.

Meddles == result = "running" /\ met < MaxMeddles /\ met' = met + 1

OtherUses ==
  /\ Meddles /\ token' = [owner |-> "other", perms |-> {}]
  /\ cursor' \in {NoCursor, [of |-> "other", rest |-> {}]}
  /\ \E c \in Creds : key' \in {key, [key EXCEPT !.creds = @ \ {c}], [key EXCEPT !.creds = @ \cup {c}]}
  /\ Tracks /\ UNCHANGED <<kind, deaf, tries, client, before, charged, lost, ops>>

\* It gives a wrong PIN: the agreement key is replaced.
OtherFails ==
  /\ Meddles /\ tries > 0 /\ key.pin # 0 /\ tries' = tries - 1 /\ agreed' = FALSE /\ cursor' = NoCursor
  /\ UNCHANGED <<kind, deaf, key, token, op, todo, rps, left, listed, base, result, before, stayed, seen,
                 charged, lost, ops>>

Commands ==
  \/ Agree \/ Token \/ PlainToken \/ SetPin \/ ChangePin \/ RpsBegin \/ RpsNext \/ CredsBegin \/ CredsNext
  \/ Delete \/ SetMin \/ EnableEa \/ ReadBack \/ Upload \/ Csr \/ Reset \/ Info \/ ProbeLegacy \/ PlanConfig
  \/ WritePhy \/ (\E f \in {"vidpid", "gpio"} : WriteVendor(f)) \/ ReadOptions \/ WriteOptions
  \/ ReadLed \/ WriteLed \/ WriteApps

Next == Start \/ Commands \/ Unanswered \/ OtherUses \/ OtherFails

Spec == Init /\ [][Next]_vars /\ WF_vars(Commands)

-----------------------------------------------------------------------------
\* What an operation that is carried out makes of a key.
After(k) ==
  CASE op.name = "delete" -> [k EXCEPT !.creds = @ \ {op.cred}]
    [] op.name \in {"setpin", "changepin"} -> [k EXCEPT !.pin = op.new]
    [] op.name = "minlen" -> [k EXCEPT !.min = op.new]
    [] op.name = "ea"     -> [k EXCEPT !.ea = TRUE]
    [] op.name = "upload" -> [k EXCEPT !.cert = TRUE]
    [] op.name = "apps"   -> [k EXCEPT !.apps = TRUE]
    [] op.name = "led"    -> [k EXCEPT !.fields["colour"] = "new"]
    [] op.name = "config" -> [k EXCEPT !.fields = [f \in Fields |-> IF f \in op.asks THEN "new" ELSE @[f]]]
    [] op.name = "reset"  -> [k EXCEPT !.creds = {}, !.pin = 0, !.min = 4, !.ea = FALSE]
    [] OTHER -> k

Alone == met = 0

\* What is reported done has been done as a whole, and nothing besides: every
\* setting asked for is written, the effect of the light survives a new colour
\* if it could be read, and attestation is on although firmware may acknowledge
\* it and leave it off (fido/mod.rs, ops.rs).
DoneIsWhole == result = "done" /\ Alone /\ (op.name = "led" => base = "read") => key = After(before)

\* An operation the authenticator refused has changed nothing: a configuration of
\* several commands is not refused half-way (write_legacy_hardware_config()).
RefusedIsNothing == result = "error" /\ Alone /\ lost = 0 => key = before

\* What the firmware can do, for the PIN that is right.
Possible ==
  /\ op.name # "setpin" => op.typed = before.pin /\ op.typed # 0
  /\ kind = "old" => op.name \in {"setpin", "changepin", "config"}
  /\ op.name = "setpin" => before.pin = 0
  /\ op.name \in {"setpin", "changepin"} => op.new \in before.min..63
  /\ op.name = "delete" => op.cred \in before.creds
  /\ op.name = "minlen" => op.new >= before.min
  /\ op.name = "ea" => ~deaf
  /\ op.name = "config" => kind # "pico" /\ op.asks \cap (IF kind = "rskey" THEN {"long"} ELSE {"name", "long"}) = {}

\* With the right PIN, and the key to itself, an operation the firmware can do is
\* done: the tokens, their permissions and the order of the commands fit.
RightPinWorks ==
  result = "error" /\ Alone /\ lost = 0 /\ tries > 0 /\ op.name \notin {"reset", "csr"} => ~Possible

\* The list of passkeys, gathered with many commands and tokens, misses none that
\* was there throughout and shows none that was never there, whatever another
\* program does to the token, the cursor and the passkeys meanwhile
\* (get_credentials()).
ListedIsStored == result = "done" /\ op.name = "list" => stayed \subseteq listed /\ listed \subseteq seen

\* A wrong PIN costs one try; a configuration, which falls back to the plain
\* token on any error, gives the wrong PIN twice.  The right one costs none.
TriesSpent ==
  charged <= IF Alone /\ op.typed = before.pin THEN 0 ELSE IF op.name = "config" THEN 2 ELSE 1
=============================================================================
