----------------------------- MODULE BootSecurity -----------------------------
(***************************************************************************)
(* The permanent boot policy of one RP2350 board, as firmware/security.rs  *)
(* programs it: load-key, harden, enable and lock each plan a list of OTP  *)
(* rows from the state they read and burn them one by one, with a          *)
(* read-back after each.  OTP bits are only ever set.  The user can pull   *)
(* the board, or the program can stop, after any row, and power can fail   *)
(* in the middle of one.  In between the board boots, is used, is flashed  *)
(* and is proved to boot protected.                                        *)
(*                                                                         *)
(* The review round trip is folded into Begin: OffboardViewModel::run()    *)
(* forgets a pending review when any other operation starts, and the       *)
(* second call re-reads the state and refuses if it is not the reviewed    *)
(* one.  boot_tested is a box the user ticks, so it guards nothing here.   *)
(***************************************************************************)
EXTENDS Naturals, FiniteSets

CONSTANTS
  Keys,           \* fingerprints of the signing keys the user has
  Slots,          \* boot key slots
  WordRows,       \* OTP rows of one slot (16)
  Word,           \* Word[k][i]: what row i of a slot holds for key k
  Torn,           \* a row whose ECC read fails or gives another value
  FlagCopies,     \* redundant copies of BOOT_FLAGS1 (FLAGS, 3)
  CritCopies,     \* redundant copies of CRIT1 (CRIT, 8)
  HardBits,       \* the hardening bits of CRIT1 (0x74)
  LockBytes,      \* redundant bytes of a page lock row (3)
  LockBits,       \* the bits of 0x15, the lock for BOOTSEL among them
  BootselBit,     \* bit 4: BOOTSEL may not write the page
  Images,         \* firmware files
  KeyOf,          \* KeyOf[i]: the key that signed image i, or NoKey
  Boots,          \* images that come up at all
  KeyLocked,      \* the boot pages have a hardware access-key policy
  NoKey, NoJob

FlagThreshold == 2
CritThreshold == 3
LockThreshold == 2
Pages == {1, 2}     \* OTP page 1 holds CRIT1 and BOOT_FLAGS1, page 2 the keys

ASSUME BoardAssumption ==
  /\ IsFiniteSet(FlagCopies) /\ FlagCopies \subseteq Nat /\ Cardinality(FlagCopies) >= FlagThreshold
  /\ IsFiniteSet(CritCopies) /\ CritCopies \subseteq Nat /\ Cardinality(CritCopies) >= CritThreshold
  /\ IsFiniteSet(LockBytes) /\ Cardinality(LockBytes) >= LockThreshold
  /\ WordRows \subseteq Nat
  /\ HardBits # {}
  /\ BootselBit \in LockBits
  /\ KeyLocked \in BOOLEAN

ASSUME KeyAssumption ==
  /\ Word \in [Keys -> [WordRows -> Nat]]
  /\ Torn \notin Nat
  /\ NoKey \notin Keys
  /\ KeyOf \in [Images -> Keys \cup {NoKey}]
  /\ Boots \subseteq Images

\* Fingerprints are SHA-256 digests: no key is all zeros (plan() refuses one),
\* and of two keys neither can be turned into the other by programming rows
\* that are still blank.
ASSUME DigestAssumption ==
  /\ \A k \in Keys : \E i \in WordRows : Word[k][i] # 0
  /\ \A j, k \in Keys : j # k =>
       \E i \in WordRows : Word[j][i] # 0 /\ Word[k][i] # Word[j][i]

VARIABLES
  word,       \* word[s][i]: row i of slot s
  valid,      \* valid[s]: the FLAGS copies whose valid bit of slot s is set
  revoked,    \* revoked[s]: the FLAGS copies whose revocation bit of s is set
  hard,       \* hard[c]: the hardening bits set in CRIT copy c
  secure,     \* the CRIT copies whose SECURE_BOOT_ENABLE bit is set
  lock,       \* lock[p]: the <<byte, bit>> pairs set in the lock row of page p
  job,        \* the stage being burned: [action, key, slot], or NoJob
  todo,       \* the rows of its plan still to be burned
  flash,      \* the image in flash
  mode,       \* "normal": the application runs; "bootsel": the ROM loader; "off"
  protected,  \* secure boot as latched at the last reset
  empty,      \* the credential storage is erased
  proof,      \* the image named by the saved boot check, or NoJob
  ran         \* history: images that have run with secure boot latched

otp == <<word, valid, revoked, hard, secure, lock>>
plans == <<job, todo>>
board == <<flash, mode, protected, empty, ran>>
vars == <<otp, plans, board, proof>>

Actions == {"load-key", "harden", "enable", "lock"}
Jobs == [action : Actions, key : Keys, slot : Slots]

ASSUME NoJobAssumption == NoJob \notin Images /\ NoJob \notin Jobs

\* The rows of a plan: word rows of the job's slot, FLAGS and CRIT copies,
\* page lock rows (0xf83, 0xf85).
Rows ==
  [bank : {"word"}, n : WordRows] \cup [bank : {"flag"}, n : FlagCopies]
    \cup [bank : {"crit"}, n : CritCopies] \cup [bank : {"lock"}, n : Pages]

TypeOK ==
  /\ word \in [Slots -> [WordRows -> Nat \cup {Torn}]]
  /\ valid \in [Slots -> SUBSET FlagCopies]
  /\ revoked \in [Slots -> SUBSET FlagCopies]
  /\ hard \in [CritCopies -> SUBSET HardBits]
  /\ secure \in SUBSET CritCopies
  /\ lock \in [Pages -> SUBSET (LockBytes \X LockBits)]
  /\ job \in Jobs \cup {NoJob}
  /\ todo \in SUBSET Rows
  /\ flash \in Images
  /\ mode \in {"normal", "bootsel", "off"}
  /\ protected \in BOOLEAN
  /\ empty \in BOOLEAN
  /\ proof \in Images \cup {NoJob}
  /\ ran \in SUBSET Images

-----------------------------------------------------------------------------
\* Reading the policy: the votes, the fingerprints, the trusted slots.

Vote(copies, threshold) == Cardinality(copies) >= threshold

SecureBoot == Vote(secure, CritThreshold)

\* lock_vote(): the bits two of the three bytes agree on.
LockVote(p) == {b \in LockBits : Vote({y \in LockBytes : <<y, b>> \in lock[p]}, LockThreshold)}

\* The ECC words of slot s spell the fingerprint k (a blank row reads 0).
Holds(s, k) == \A i \in WordRows : word[s][i] = Word[k][i]

Trusted == {s \in Slots : Vote(valid[s], FlagThreshold) /\ ~Vote(revoked[s], FlagThreshold)}

TrustedKeys == {k \in Keys : \E s \in Trusted : Holds(s, k)}

-----------------------------------------------------------------------------
\* plan(): the rows a stage needs, and when it is refused.

PageOf(r) == IF r.bank = "word" \/ (r.bank = "lock" /\ r.n = 2) THEN 2 ELSE 1

\* BOOTSEL can write the pages of all the rows planned.
Writable(rows) == \A r \in rows : BootselBit \notin LockVote(PageOf(r))

Row(b, n) == [bank |-> b, n |-> n]

LoadKeyRows(k, s) ==
  {Row("word", i) : i \in {i \in WordRows : word[s][i] # Word[k][i]}}
    \cup {Row("flag", c) : c \in FlagCopies \ valid[s]}

\* Mutant: a slot must be blank to be loaded.
LoadKeyAllowed_Blank(k, s) ==
  /\ revoked[s] = {}
  /\ \A i \in WordRows : word[s][i] = 0

LoadKeyAllowed(k, s) ==
  /\ revoked[s] = {}
  /\ \A i \in WordRows : word[s][i] \in {0, Word[k][i]}

\* "Image must match exactly one trusted OTP signing key."
MatchesOnce(k, s) == {t \in Trusted : Holds(t, k)} = {s}

HardenRows == {Row("crit", c) : c \in {c \in CritCopies : hard[c] # HardBits}}

Hardened == \A c \in CritCopies : hard[c] = HardBits

EnableRows == {Row("crit", c) : c \in CritCopies \ secure}

LockRows ==
  {Row("flag", c) : c \in {c \in FlagCopies : \E s \in Slots \ Trusted : c \notin revoked[s]}}
    \cup {Row("lock", p) : p \in {p \in Pages : LockVote(p) # LockBits}}

PlanRows(j) ==
  CASE j.action = "load-key" -> LoadKeyRows(j.key, j.slot)
    [] j.action = "harden" -> HardenRows
    [] j.action = "enable" -> EnableRows
    [] j.action = "lock" -> LockRows

\* Mutant: enable does not ask for registration and hardening.
PlanAllowed_Unhardened(j) ==
  /\ ~KeyLocked
  /\ j.action = "load-key" => LoadKeyAllowed(j.key, j.slot)
  /\ j.action # "load-key" => MatchesOnce(j.key, j.slot)
  /\ j.action = "lock" => Hardened /\ secure = CritCopies /\ Trusted = {j.slot}
  /\ Writable(PlanRows(j))

\* For the stages after load-key, j.slot is the one trusted slot that matches.
PlanAllowed(j) ==
  /\ ~KeyLocked
  /\ j.action = "load-key" => LoadKeyAllowed(j.key, j.slot)
  /\ j.action # "load-key" => MatchesOnce(j.key, j.slot)
  /\ j.action = "enable" => Hardened /\ valid[j.slot] = FlagCopies
  /\ j.action = "lock" => Hardened /\ secure = CritCopies /\ Trusted = {j.slot}
  /\ Writable(PlanRows(j))

-----------------------------------------------------------------------------

\* A blank board, whatever firmware it came with.
Init ==
  /\ word = [s \in Slots |-> [i \in WordRows |-> 0]]
  /\ valid = [s \in Slots |-> {}]
  /\ revoked = [s \in Slots |-> {}]
  /\ hard = [c \in CritCopies |-> {}]
  /\ secure = {}
  /\ lock = [p \in Pages |-> {}]
  /\ job = NoJob /\ todo = {}
  /\ flash \in Images
  /\ mode = "off"
  /\ protected = FALSE
  /\ empty = FALSE
  /\ proof = NoJob
  /\ ran = {}

\* Mutant: the storage is not checked again once a copy has been enabled.
Begin_CheckedOnce(j, img) ==
  /\ job = NoJob
  /\ mode = "bootsel"
  /\ KeyOf[img] = j.key
  /\ PlanAllowed(j)
  /\ PlanRows(j) # {}
  /\ flash = img
  /\ j.action = "enable" /\ secure = {} => empty
  /\ j.action = "lock" => proof = img /\ protected
  /\ job' = j
  /\ todo' = PlanRows(j)
  /\ UNCHANGED <<otp, board, proof>>

\* Mutant: lock does not read the saved boot check.
Begin_NoProof(j, img) ==
  /\ job = NoJob
  /\ mode = "bootsel"
  /\ KeyOf[img] = j.key
  /\ PlanAllowed(j)
  /\ PlanRows(j) # {}
  /\ flash = img
  /\ j.action = "enable" /\ ~SecureBoot => empty
  /\ job' = j
  /\ todo' = PlanRows(j)
  /\ UNCHANGED <<otp, board, proof>>

\* execute(): the state is read, the stage planned, the firmware file compared
\* with the flash, and the plan confirmed.
Begin(j, img) ==
  /\ job = NoJob
  /\ mode = "bootsel"
  /\ KeyOf[img] = j.key
  /\ PlanAllowed(j)
  /\ PlanRows(j) # {}
  /\ flash = img
  /\ j.action = "enable" /\ ~SecureBoot => empty
  /\ j.action = "lock" => proof = img /\ protected
  /\ job' = j
  /\ todo' = PlanRows(j)
  /\ UNCHANGED <<otp, board, proof>>

\* Mutants: valid flags before the key words; page locks before FLAGS.
Banks_FlagsFirst == <<"flag", "word", "crit", "lock">>
Banks_LocksFirst == <<"word", "lock", "flag", "crit">>

\* The order of the plan: key words, then FLAGS; FLAGS, then page locks; each
\* bank in the order of its rows.
Banks == <<"word", "flag", "crit", "lock">>
BankOrder(b) == CHOOSE i \in 1..4 : Banks[i] = b
Before(q, r) == BankOrder(q.bank) < BankOrder(r.bank) \/ (q.bank = r.bank /\ q.n < r.n)

\* Mutant: lock revokes every slot, the matching one included.
RowBits_RevokesAll(r) ==
  CASE r.bank = "word" -> {"data", "ecc"}
    [] r.bank = "flag" -> IF job.action = "lock" THEN Slots ELSE {job.slot}
    [] r.bank = "crit" -> IF job.action = "enable" THEN {"secure"} ELSE HardBits
    [] r.bank = "lock" -> LockBytes \X LockBits

\* The bits row r of the current stage programs.
RowBits(r) ==
  CASE r.bank = "word" -> {"data", "ecc"}
    [] r.bank = "flag" -> IF job.action = "lock" THEN Slots \ {job.slot} ELSE {job.slot}
    [] r.bank = "crit" -> IF job.action = "enable" THEN {"secure"} ELSE HardBits
    [] r.bank = "lock" -> LockBytes \X LockBits

\* The bits B of row r are programmed.
Burn(r, B) ==
  /\ word' = IF r.bank = "word" /\ B # {}
             THEN [word EXCEPT ![job.slot][r.n] = IF B = RowBits(r) THEN Word[job.key][r.n] ELSE Torn]
             ELSE word
  /\ valid' = IF r.bank = "flag" /\ job.action = "load-key"
              THEN [s \in Slots |-> IF s \in B THEN valid[s] \cup {r.n} ELSE valid[s]] ELSE valid
  /\ revoked' = IF r.bank = "flag" /\ job.action = "lock"
                THEN [s \in Slots |-> IF s \in B THEN revoked[s] \cup {r.n} ELSE revoked[s]] ELSE revoked
  /\ hard' = IF r.bank = "crit" /\ job.action = "harden"
             THEN [hard EXCEPT ![r.n] = @ \cup B] ELSE hard
  /\ secure' = IF r.bank = "crit" /\ job.action = "enable" /\ B # {} THEN secure \cup {r.n} ELSE secure
  /\ lock' = IF r.bank = "lock" THEN [lock EXCEPT ![r.n] = @ \cup B] ELSE lock

NextRow(r) == r \in todo /\ \A q \in todo : q = r \/ Before(r, q)

\* otp set, and a read-back that agrees.
WriteRow(r) ==
  /\ job # NoJob
  /\ NextRow(r)
  /\ Burn(r, RowBits(r))
  /\ todo' = todo \ {r}
  /\ job' = IF todo' = {} THEN NoJob ELSE job
  /\ UNCHANGED <<board, proof>>

\* Power fails while a row is being programmed.
TearRow(r, B) ==
  /\ job # NoJob
  /\ NextRow(r)
  /\ Burn(r, B)
  /\ job' = NoJob
  /\ todo' = {}
  /\ mode' = "off"
  /\ UNCHANGED <<flash, protected, empty, ran, proof>>

\* picotool fails, or the program ends, between two rows.
StopStage ==
  /\ job # NoJob
  /\ job' = NoJob /\ todo' = {}
  /\ UNCHANGED <<otp, board, proof>>

-----------------------------------------------------------------------------
\* The board, and the other operations of the firmware page.

\* The board is pulled; between two rows this also stops the stage.
Unplug ==
  /\ mode # "off"
  /\ mode' = "off"
  /\ job' = NoJob /\ todo' = {}
  /\ UNCHANGED <<otp, flash, protected, empty, ran, proof>>

\* The boot ROM starts the image in flash, unless the button is held.
PowerUp ==
  /\ mode = "off"
  /\ protected' = SecureBoot
  /\ \/ mode' = "bootsel"
     \/ /\ flash \in Boots
        /\ SecureBoot => KeyOf[flash] \in TrustedKeys
        /\ mode' = "normal"
  /\ ran' = IF mode' = "normal" /\ SecureBoot THEN ran \cup {flash} ELSE ran
  /\ UNCHANGED <<otp, plans, flash, empty, proof>>

\* ensure_bootsel(): the running firmware restarts into the ROM loader.
EnterBootsel ==
  /\ mode = "normal"
  /\ mode' = "bootsel"
  /\ protected' = SecureBoot
  /\ UNCHANGED <<otp, plans, flash, empty, ran, proof>>

\* Mutant: any image may be flashed.
Flash_Unassessed(img) ==
  /\ mode = "bootsel"
  /\ job = NoJob
  /\ flash' = img
  /\ mode' = "off"
  /\ UNCHANGED <<otp, plans, protected, empty, ran, proof>>

\* check and flash: picotool loads and starts the image if assess() allows it.
Flash(img) ==
  /\ mode = "bootsel"
  /\ job = NoJob
  /\ protected \/ SecureBoot => KeyOf[img] \in TrustedKeys
  /\ flash' = img
  /\ mode' = "off"
  /\ UNCHANGED <<otp, plans, protected, empty, ran, proof>>

\* prepare: only while secure boot is off; the firmware erases its storage.
Prepare ==
  /\ mode = "normal"
  /\ ~protected /\ ~SecureBoot
  /\ empty' = TRUE
  /\ mode' = "bootsel"
  /\ UNCHANGED <<otp, plans, flash, protected, ran, proof>>

\* The running application stores a credential, a PIN or a setting.
Use ==
  /\ mode = "normal"
  /\ empty' = FALSE
  /\ UNCHANGED <<otp, plans, flash, mode, protected, ran, proof>>

\* Mutant: the check saves the signing key instead of the image.
Prove_Key(img) ==
  /\ mode = "normal"
  /\ KeyOf[img] # NoKey
  /\ protected
  /\ \A b \in HardBits : Vote({c \in CritCopies : b \in hard[c]}, CritThreshold)
  /\ proof' = KeyOf[img]
  /\ UNCHANGED <<otp, plans, board>>

\* prove: the running firmware reports protected boot; the saved check names
\* the image that is selected.
Prove(img) ==
  /\ mode = "normal"
  /\ KeyOf[img] # NoKey
  /\ protected
  /\ \A b \in HardBits : Vote({c \in CritCopies : b \in hard[c]}, CritThreshold)
  /\ proof' = img
  /\ UNCHANGED <<otp, plans, board>>

Next ==
  \/ \E j \in Jobs, img \in Images : Begin(j, img)
  \/ \E r \in todo : WriteRow(r)
  \/ \E r \in todo : \E B \in SUBSET RowBits(r) : TearRow(r, B)
  \/ StopStage
  \/ Unplug
  \/ PowerUp
  \/ EnterBootsel
  \/ Prepare
  \/ Use
  \/ \E img \in Images : Flash(img)
  \/ \E img \in Images : Prove(img)

Spec == Init /\ [][Next]_vars

-----------------------------------------------------------------------------
\* A slot with a valid bit in any copy of FLAGS holds a whole key, whatever
\* was interrupted: the words are burned first (security.rs:172-190).
KeyBeforeFlag ==
  \A s \in Slots : valid[s] # {} => \E k \in Keys : Holds(s, k)

\* No copy enables secure boot before every copy is hardened and a whole,
\* unrevoked key is trusted (security.rs:201-210): a half-enabled board is
\* never left without a key it boots.
SecureNeedsHardenedKey ==
  secure # {} => Hardened /\ TrustedKeys # {}

\* Once the vote turns secure boot on, the flash holds firmware the board
\* trusts, through every later stage and every reflash (security.rs:358,
\* firmware.rs:189-205).
ProtectedBoardBoots ==
  SecureBoot => KeyOf[flash] \in TrustedKeys

\* Revocation and page locks come last: only on a board whose copies all
\* enable secure boot, and no page is locked before one key slot is left and
\* every other slot is revoked in every copy (security.rs:211-226).
LockLeavesOneKey ==
  /\ (\E s \in Slots : revoked[s] # {}) \/ (\E p \in Pages : lock[p] # {}) => secure = CritCopies
  /\ (\E p \in Pages : lock[p] # {}) =>
       \E s \in Slots : Trusted = {s} /\ \A t \in Slots \ {s} : revoked[t] = FlagCopies

\* A board is not locked before it has booted protected (security.rs:359-371).
LockAfterProtectedBoot ==
  (\E s \in Slots : revoked[s] # {}) \/ (\E p \in Pages : lock[p] # {}) => ran # {}

\* A stage can stop between any two rows and be run again: planned from the
\* OTP as it is then, it is allowed, and needs exactly the rows still to be
\* burned (security.rs:139-237 against 399-418).
StoppedStageResumes ==
  job # NoJob => PlanAllowed(job) /\ PlanRows(job) = todo

\* The vote that turns secure boot on happens with empty storage, also when
\* an earlier attempt was cut short (security.rs:355-357).
SecureOnEmptyStorage == [][~SecureBoot /\ SecureBoot' => empty]_vars

\* How far the policy has been programmed.
Rung ==
  IF \E p \in Pages : lock[p] # {} THEN "locked"
  ELSE IF SecureBoot THEN "secure"
  ELSE IF Hardened THEN "hardened" ELSE "open"

Ladder == INSTANCE BootLadder WITH rung <- Rung, trust <- TrustedKeys

\* Interrupted, torn and repeated stages never do more than climb one rung.
ClimbsLadder == Ladder!Spec

\* "Power-cycle and verify protected boot for this image and board."
\* (security.rs:369): the image a lock is burned for has run protected.
LockedImageHasRun ==
  job # NoJob /\ job.action = "lock" => flash \in ran

=============================================================================
