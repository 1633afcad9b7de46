------------------------- MODULE BootSecurity_proofs -------------------------
(***************************************************************************)
(* Proofs about BootSecurity for any number of keys, slots, rows, copies   *)
(* and images.                                                             *)
(*                                                                         *)
(* The heart of the argument is StoppedStageResumes: between two rows the  *)
(* stage being burned, planned anew, is allowed and needs exactly the rows *)
(* that are left.  It says what every partly burned stage looks like, and  *)
(* so what one more row, whole or torn, can do to the policy.              *)
(***************************************************************************)
EXTENDS BootSecurity, FiniteSetTheorems, TLAPS

-----------------------------------------------------------------------------
\* Votes.

LEMMA NoVoteWithoutCopies ==
  /\ ~Vote({}, FlagThreshold)
  /\ ~Vote({}, CritThreshold)
  /\ ~Vote({}, LockThreshold)
BY FS_EmptySet DEF Vote, FlagThreshold, CritThreshold, LockThreshold

LEMMA UnanimousVote ==
  /\ Vote(FlagCopies, FlagThreshold)
  /\ Vote(CritCopies, CritThreshold)
  /\ Vote(LockBytes, LockThreshold)
BY BoardAssumption DEF Vote

LEMMA MoreVotes ==
  ASSUME NEW T, IsFiniteSet(T), NEW S \in SUBSET T, NEW n \in Nat, Vote(S, n)
  PROVE  Vote(T, n)
<1>1. Cardinality(S) <= Cardinality(T)
  BY FS_Subset
<1>2. Cardinality(S) \in Nat /\ Cardinality(T) \in Nat
  BY FS_Subset, FS_CardinalityType
<1>3. QED
  BY <1>1, <1>2 DEF Vote

LEMMA FlagVoteGrows ==
  ASSUME NEW T \in SUBSET FlagCopies, NEW S \in SUBSET T, Vote(S, FlagThreshold)
  PROVE  Vote(T, FlagThreshold)
<1>1. IsFiniteSet(T)
  BY FS_Subset, BoardAssumption
<1>2. QED
  BY <1>1, MoreVotes DEF FlagThreshold

-----------------------------------------------------------------------------
\* The order of a plan.

LEMMA BankOrderIs ==
  /\ BankOrder("word") = 1
  /\ BankOrder("flag") = 2
  /\ BankOrder("crit") = 3
  /\ BankOrder("lock") = 4
<1> DEFINE B(b) == \E i \in 1..4 : Banks[i] = b
<1>1. ASSUME NEW b, B(b) PROVE BankOrder(b) \in 1..4 /\ Banks[BankOrder(b)] = b
  BY <1>1 DEF BankOrder
<1>2. Banks[1] = "word" /\ Banks[2] = "flag" /\ Banks[3] = "crit" /\ Banks[4] = "lock"
  BY DEF Banks
<1>3. B("word") /\ B("flag") /\ B("crit") /\ B("lock")
  BY <1>2
<1>4. \A i \in 1..4 : i = 1 \/ i = 2 \/ i = 3 \/ i = 4
  OBVIOUS
<1> HIDE DEF B
<1>5. QED
  BY <1>1, <1>2, <1>3, <1>4

\* FLAGS rows come after all key words, page locks after all FLAGS rows.
LEMMA PlanOrder ==
  ASSUME NEW r, NextRow(r)
  PROVE  /\ r.bank = "flag" => \A q \in todo : q.bank # "word"
         /\ r.bank = "lock" => \A q \in todo : q.bank # "flag"
BY BankOrderIs DEF NextRow, Before

-----------------------------------------------------------------------------
\* Reading the policy.

LEMMA OtpUnchanged ==
  ASSUME UNCHANGED otp
  PROVE  /\ Trusted' = Trusted
         /\ TrustedKeys' = TrustedKeys
         /\ SecureBoot' = SecureBoot
         /\ Hardened' = Hardened
         /\ \A s, k : Holds(s, k)' = Holds(s, k)
         /\ \A j : PlanAllowed(j)' = PlanAllowed(j)
         /\ \A j : PlanRows(j)' = PlanRows(j)
<1> USE DEF otp
<1>1. \A s, k : Holds(s, k)' = Holds(s, k)
  BY DEF Holds
<1>2. Trusted' = Trusted
  BY DEF Trusted
<1>3. TrustedKeys' = TrustedKeys
  BY <1>1, <1>2 DEF TrustedKeys
<1>4. SecureBoot' = SecureBoot /\ Hardened' = Hardened
  BY DEF SecureBoot, Hardened
<1>5. \A p : LockVote(p)' = LockVote(p)
  BY DEF LockVote
<1>6. LockRows' = LockRows
  BY <1>2, <1>5 DEF LockRows
<1>7. \A j : PlanRows(j)' = PlanRows(j)
  BY <1>6 DEF PlanRows, LoadKeyRows, HardenRows, EnableRows
<1>8. \A j : Writable(PlanRows(j))' = Writable(PlanRows(j))
  BY <1>5, <1>7 DEF Writable
<1>9. \A j : PlanAllowed(j)' = PlanAllowed(j)
  BY <1>1, <1>2, <1>4, <1>8 DEF PlanAllowed, LoadKeyAllowed, MatchesOnce
<1>10. QED
  BY <1>1, <1>2, <1>3, <1>4, <1>7, <1>9

LEMMA TrustedIsValid ==
  ASSUME NEW s \in Trusted
  PROVE  valid[s] # {}
BY NoVoteWithoutCopies DEF Trusted

\* No two fingerprints fit in one slot.
LEMMA OneKeyPerSlot ==
  ASSUME NEW s \in Slots, NEW j \in Keys, NEW k \in Keys, Holds(s, j), Holds(s, k)
  PROVE  j = k
BY DigestAssumption DEF Holds

\* A slot with a valid bit cannot be loaded with anything it does not hold.
LEMMA NothingToLoad ==
  ASSUME TypeOK, KeyBeforeFlag, NEW s \in Slots, NEW k \in Keys,
         LoadKeyAllowed(k, s), valid[s] # {}
  PROVE  Holds(s, k)
<1>1. PICK h \in Keys : Holds(s, h)
  BY DEF KeyBeforeFlag
<1>2. \A i \in WordRows : Word[h][i] \in {0, Word[k][i]}
  BY <1>1 DEF Holds, LoadKeyAllowed
<1>3. h = k
  BY <1>2, DigestAssumption
<1>4. QED
  BY <1>1, <1>3

-----------------------------------------------------------------------------
\* The inductive invariant.

\* A copy that enables secure boot was burned on a hardened board with a slot
\* that is valid, and not revoked, in every copy of FLAGS.
KeyedBoot ==
  secure # {} => Hardened /\ \E s \in Slots : valid[s] = FlagCopies /\ revoked[s] = {}

\* No board gets to its lock stage without having run protected.
RanProtected ==
  /\ mode = "normal" /\ protected => ran # {}
  /\ proof \in Images => ran # {}
  /\ LockAfterProtectedBoot

\* What Begin checked still holds while the stage is burned.
StageInv ==
  /\ job = NoJob => todo = {}
  /\ job # NoJob =>
       /\ mode = "bootsel"
       /\ KeyOf[flash] = job.key
       /\ job.action = "enable" /\ ~SecureBoot => empty
       /\ job.action = "lock" => ran # {}

PolicyInv == KeyBeforeFlag /\ KeyedBoot /\ ProtectedBoardBoots /\ LockLeavesOneKey

IndInv ==
  TypeOK /\ PolicyInv /\ RanProtected /\ StageInv /\ StoppedStageResumes

LEMMA IndInvInit == Init => IndInv
<1> SUFFICES ASSUME Init PROVE IndInv
  OBVIOUS
<1>1. TypeOK
  BY BoardAssumption DEF Init, TypeOK, Pages
<1>2. ~SecureBoot
  BY NoVoteWithoutCopies DEF Init, SecureBoot
<1>3. PolicyInv
  BY <1>2 DEF Init, PolicyInv, KeyBeforeFlag, KeyedBoot, ProtectedBoardBoots, LockLeavesOneKey
<1>4. RanProtected /\ StageInv /\ StoppedStageResumes
  BY NoJobAssumption DEF Init, RanProtected, LockAfterProtectedBoot, StageInv, StoppedStageResumes
<1>5. QED
  BY <1>1, <1>3, <1>4 DEF IndInv

\* The slot of a stage after load-key: trusted, holding the key of the image.
LEMMA StageSlot ==
  ASSUME IndInv, job # NoJob, job.action # "load-key"
  PROVE  /\ job.slot \in Trusted
         /\ Holds(job.slot, job.key)
         /\ job.slot \in Slots
         /\ job.key \in Keys
BY DEF IndInv, StoppedStageResumes, PlanAllowed, MatchesOnce, Trusted, TypeOK, Jobs

\* While there is something to enable, no slot is revoked and no page locked.
LEMMA NothingFusedYet ==
  ASSUME IndInv, job # NoJob, job.action # "lock", secure # CritCopies
  PROVE  /\ \A s \in Slots : revoked[s] = {}
         /\ \A p \in Pages : lock[p] = {}
BY DEF IndInv, PolicyInv, LockLeavesOneKey

\* No stage but lock has rows to burn on a board with a revoked slot or a
\* locked page.
LEMMA FusedMeansLock ==
  ASSUME IndInv, job # NoJob, todo # {}, NEW p \in Pages, lock[p] # {}
  PROVE  job.action = "lock"
<1> USE DEF IndInv, PolicyInv
<1>1. secure = CritCopies /\ Hardened
  BY UnanimousVote, NoVoteWithoutCopies DEF LockLeavesOneKey, KeyedBoot
<1>2. PICK s \in Slots : Trusted = {s} /\ \A t \in Slots \ {s} : revoked[t] = FlagCopies
  BY DEF LockLeavesOneKey
<1>3. PICK t \in Slots : valid[t] = FlagCopies /\ revoked[t] = {}
  BY <1>1, UnanimousVote, NoVoteWithoutCopies DEF KeyedBoot
<1>4. t = s
  BY <1>2, <1>3, UnanimousVote, NoVoteWithoutCopies
<1>5. job \in Jobs /\ PlanAllowed(job) /\ PlanRows(job) = todo
  BY DEF StoppedStageResumes, TypeOK
<1>6. job.action = "harden" => PlanRows(job) = {}
  BY <1>1 DEF PlanRows, HardenRows, Hardened
<1>7. job.action = "enable" => PlanRows(job) = {}
  BY <1>1 DEF PlanRows, EnableRows
<1>8. ASSUME job.action = "load-key" PROVE PlanRows(job) = {}
  <2>1. LoadKeyAllowed(job.key, job.slot) /\ job.slot \in Slots /\ job.key \in Keys
    BY <1>5, <1>8 DEF PlanAllowed, Jobs
  <2>2. job.slot = s
    BY <1>2, <2>1, UnanimousVote, NoVoteWithoutCopies DEF LoadKeyAllowed
  <2>3. valid[job.slot] = FlagCopies /\ valid[job.slot] # {}
    BY <2>2, <1>3, <1>4, UnanimousVote, NoVoteWithoutCopies
  <2>4. Holds(job.slot, job.key)
    BY <2>1, <2>3, NothingToLoad
  <2>5. LoadKeyRows(job.key, job.slot) = {}
    BY <2>3, <2>4 DEF LoadKeyRows, Holds
  <2>6. QED
    BY <2>5, <1>8 DEF PlanRows
<1>9. QED
  BY <1>5, <1>6, <1>7, <1>8 DEF Jobs, Actions

-----------------------------------------------------------------------------
\* What one row, whole or torn, does to the policy.

LEMMA StageRows ==
  ASSUME IndInv, job # NoJob, NEW r \in todo
  PROVE  /\ job \in Jobs
         /\ job.action = "load-key" =>
              \/ r.bank = "word" /\ r.n \in WordRows /\ word[job.slot][r.n] # Word[job.key][r.n]
              \/ r.bank = "flag" /\ r.n \in FlagCopies
         /\ job.action = "harden" => r.bank = "crit" /\ r.n \in CritCopies
         /\ job.action = "enable" => r.bank = "crit" /\ r.n \in CritCopies \ secure
         /\ job.action = "lock" =>
              \/ r.bank = "flag" /\ r.n \in FlagCopies
              \/ r.bank = "lock" /\ r.n \in Pages
<1>1. job \in Jobs /\ r \in PlanRows(job)
  BY DEF IndInv, TypeOK, StoppedStageResumes
<1>2. CASE job.action = "load-key"
  BY <1>1, <1>2 DEF PlanRows, LoadKeyRows, Row
<1>3. CASE job.action = "harden"
  BY <1>1, <1>3 DEF PlanRows, HardenRows, Row
<1>4. CASE job.action = "enable"
  BY <1>1, <1>4 DEF PlanRows, EnableRows, Row
<1>5. CASE job.action = "lock"
  <2>1. r \in LockRows
    BY <1>1, <1>5 DEF PlanRows
  <2>2. \/ \E c \in FlagCopies : r = Row("flag", c)
        \/ \E p \in Pages : r = Row("lock", p)
    BY <2>1 DEF LockRows
  <2>3. QED
    BY <1>1, <1>5, <2>2 DEF Row
<1>6. QED
  BY <1>1, <1>2, <1>3, <1>4, <1>5 DEF Jobs, Actions

LEMMA BurnTypes ==
  ASSUME IndInv, job # NoJob, NEW r, NextRow(r), NEW B \in SUBSET RowBits(r), Burn(r, B)
  PROVE  /\ word' \in [Slots -> [WordRows -> Nat \cup {Torn}]]
         /\ valid' \in [Slots -> SUBSET FlagCopies]
         /\ revoked' \in [Slots -> SUBSET FlagCopies]
         /\ hard' \in [CritCopies -> SUBSET HardBits]
         /\ secure' \in SUBSET CritCopies
         /\ lock' \in [Pages -> SUBSET (LockBytes \X LockBits)]
<1>1. r \in todo
  BY DEF NextRow
<1>2. TypeOK /\ job \in Jobs
  BY DEF IndInv, TypeOK
<1> USE StageRows, <1>1, <1>2 DEF Burn, TypeOK
<1>3. word' \in [Slots -> [WordRows -> Nat \cup {Torn}]]
  BY KeyAssumption DEF Jobs, Actions
<1>4. valid' \in [Slots -> SUBSET FlagCopies]
  BY DEF Jobs
<1>5. revoked' \in [Slots -> SUBSET FlagCopies]
  BY DEF Jobs
<1>6. hard' \in [CritCopies -> SUBSET HardBits]
  BY DEF RowBits
<1>7. secure' \in SUBSET CritCopies
  BY DEF RowBits
<1>8. lock' \in [Pages -> SUBSET (LockBytes \X LockBits)]
  BY DEF RowBits, Jobs, Actions
<1>9. QED
  BY <1>3, <1>4, <1>5, <1>6, <1>7, <1>8

\* A word row is burned only into a slot that has no valid bit yet.
LEMMA BurnWord ==
  ASSUME IndInv, job # NoJob, NEW r, NextRow(r), r.bank = "word",
         NEW B \in SUBSET RowBits(r), Burn(r, B), UNCHANGED flash
  PROVE  /\ PolicyInv'
         /\ UNCHANGED <<hard, secure, revoked, lock>>
         /\ TrustedKeys' = TrustedKeys
<1>1. r \in todo /\ job \in Jobs /\ TypeOK /\ PlanAllowed(job)
  BY DEF NextRow, IndInv, TypeOK, StoppedStageResumes
<1>2. UNCHANGED <<valid, revoked, hard, secure, lock>>
  BY <1>1 DEF Burn
<1>3. /\ job.action = "load-key"
      /\ r.n \in WordRows
      /\ word[job.slot][r.n] # Word[job.key][r.n]
  BY <1>1, StageRows DEF Jobs, Actions
<1>4. LoadKeyAllowed(job.key, job.slot) /\ job.slot \in Slots /\ job.key \in Keys
  BY <1>1, <1>3 DEF PlanAllowed, Jobs
<1>5. valid[job.slot] = {}
  BY <1>1, <1>3, <1>4, NothingToLoad DEF IndInv, PolicyInv, Holds
<1>6. \A s \in Slots : valid[s] # {} => word'[s] = word[s]
  BY <1>1, <1>4, <1>5 DEF Burn, TypeOK
<1>7. \A s \in Slots : valid[s] # {} => \A k \in Keys : Holds(s, k)' = Holds(s, k)
  BY <1>6 DEF Holds
<1>8. Trusted' = Trusted
  BY <1>2 DEF Trusted
<1>9. TrustedKeys' = TrustedKeys
  BY <1>7, <1>8, TrustedIsValid DEF TrustedKeys, Trusted
<1>10. KeyBeforeFlag'
  BY <1>2, <1>7 DEF KeyBeforeFlag, IndInv, PolicyInv
<1>11. KeyedBoot'
  BY <1>2 DEF KeyedBoot, IndInv, PolicyInv, Hardened
<1>12. ProtectedBoardBoots'
  BY <1>2, <1>9 DEF ProtectedBoardBoots, SecureBoot, IndInv, PolicyInv
<1>13. LockLeavesOneKey'
  BY <1>2, <1>8 DEF LockLeavesOneKey, IndInv, PolicyInv
<1>14. QED
  BY <1>2, <1>9, <1>10, <1>11, <1>12, <1>13 DEF PolicyInv

\* A valid bit is burned only into a slot that holds its whole key.
LEMMA BurnValidFlag ==
  ASSUME IndInv, job # NoJob, job.action = "load-key", NEW r, NextRow(r), r.bank = "flag",
         NEW B \in SUBSET RowBits(r), Burn(r, B), UNCHANGED flash
  PROVE  /\ PolicyInv'
         /\ UNCHANGED <<hard, secure, revoked, lock>>
         /\ TrustedKeys' \in {TrustedKeys, TrustedKeys \cup {job.key}}
<1>1. r \in todo /\ job \in Jobs /\ TypeOK /\ PlanAllowed(job) /\ PlanRows(job) = todo
  BY DEF NextRow, IndInv, TypeOK, StoppedStageResumes
<1>2. UNCHANGED <<word, revoked, hard, secure, lock>>
  BY <1>1 DEF Burn
<1>3. r.n \in FlagCopies /\ job.slot \in Slots /\ job.key \in Keys
  BY <1>1, StageRows DEF Jobs
<1>4. Holds(job.slot, job.key)
  <2>1. \A q \in LoadKeyRows(job.key, job.slot) : q.bank # "word"
    BY <1>1, PlanOrder DEF PlanRows
  <2>2. \A i \in WordRows : word[job.slot][i] # Word[job.key][i] => Row("word", i) \in LoadKeyRows(job.key, job.slot)
    BY DEF LoadKeyRows
  <2>3. QED
    BY <2>1, <2>2 DEF Holds, Row
<1>5. B \subseteq {job.slot}
  BY DEF RowBits
<1>6. valid' \in [Slots -> SUBSET FlagCopies] /\ \A s \in Slots : valid[s] \subseteq valid'[s]
  BY <1>1, BurnTypes DEF Burn
<1>7. \A s \in Slots : valid'[s] # valid[s] => s = job.slot
  BY <1>1, <1>5 DEF Burn, TypeOK
<1>8. \A s, k : Holds(s, k)' = Holds(s, k)
  BY <1>2 DEF Holds
<1>9. Trusted \subseteq Trusted'
  BY <1>1, <1>2, <1>6, FlagVoteGrows DEF Trusted, TypeOK
<1>10. TrustedKeys \subseteq TrustedKeys'
  BY <1>8, <1>9 DEF TrustedKeys
<1>11. KeyBeforeFlag'
  BY <1>3, <1>4, <1>7, <1>8 DEF KeyBeforeFlag, IndInv, PolicyInv
<1>12. KeyedBoot'
  BY <1>2, <1>6 DEF KeyedBoot, IndInv, PolicyInv, Hardened
<1>13. ProtectedBoardBoots'
  BY <1>2, <1>10 DEF ProtectedBoardBoots, SecureBoot, IndInv, PolicyInv
<1>14. LockLeavesOneKey'
  BY <1>1, <1>2, FusedMeansLock DEF LockLeavesOneKey, IndInv, PolicyInv
<1>15. TrustedKeys' \in {TrustedKeys, TrustedKeys \cup {job.key}}
  <2>1. Trusted' \in {Trusted, Trusted \cup {job.slot}}
    BY <1>1, <1>2, <1>3, <1>7, <1>9 DEF Trusted, TypeOK
  <2>2. \A k \in Keys : Holds(job.slot, k) <=> k = job.key
    BY <1>3, <1>4, OneKeyPerSlot
  <2>3. QED
    BY <1>3, <1>8, <2>1, <2>2 DEF TrustedKeys
<1>16. QED
  BY <1>2, <1>11, <1>12, <1>13, <1>14, <1>15 DEF PolicyInv

LEMMA BurnHardening ==
  ASSUME IndInv, job # NoJob, job.action = "harden", NEW r, NextRow(r),
         NEW B \in SUBSET RowBits(r), Burn(r, B), UNCHANGED flash
  PROVE  /\ PolicyInv'
         /\ UNCHANGED <<secure, revoked, lock>>
         /\ TrustedKeys' = TrustedKeys
         /\ Hardened => Hardened'
<1>1. r \in todo /\ TypeOK
  BY DEF NextRow, IndInv
<1>2. r.bank = "crit" /\ r.n \in CritCopies
  BY <1>1, StageRows
<1>3. UNCHANGED <<word, valid, revoked, secure, lock>>
  BY <1>2 DEF Burn
<1>4. B \subseteq HardBits
  BY <1>2 DEF RowBits
<1>5. Hardened => Hardened'
  BY <1>1, <1>2, <1>4 DEF Burn, Hardened, TypeOK
<1>6. \A s, k : Holds(s, k)' = Holds(s, k)
  BY <1>3 DEF Holds
<1>7. Trusted' = Trusted
  BY <1>3 DEF Trusted
<1>8. TrustedKeys' = TrustedKeys
  BY <1>6, <1>7 DEF TrustedKeys
<1>9. QED
  BY <1>3, <1>5, <1>6, <1>7, <1>8
     DEF IndInv, PolicyInv, KeyBeforeFlag, KeyedBoot, ProtectedBoardBoots, SecureBoot, LockLeavesOneKey

LEMMA BurnEnable ==
  ASSUME IndInv, job # NoJob, job.action = "enable", NEW r, NextRow(r),
         NEW B \in SUBSET RowBits(r), Burn(r, B), UNCHANGED flash
  PROVE  /\ PolicyInv'
         /\ UNCHANGED <<hard, revoked, lock>>
         /\ TrustedKeys' = TrustedKeys
         /\ job.key \in TrustedKeys
<1>1. r \in todo /\ TypeOK /\ PlanAllowed(job)
  BY DEF NextRow, IndInv, StoppedStageResumes
<1>2. r.bank = "crit" /\ r.n \in CritCopies \ secure
  BY <1>1, StageRows
<1>3. UNCHANGED <<word, valid, revoked, hard, lock>>
  BY <1>2 DEF Burn
<1>4. Hardened /\ valid[job.slot] = FlagCopies
  BY <1>1 DEF PlanAllowed
<1>5. /\ \A s \in Slots : revoked[s] = {}
      /\ \A p \in Pages : lock[p] = {}
  BY <1>2, NothingFusedYet
<1>6. /\ job.slot \in Slots /\ job.slot \in Trusted /\ job.key \in Keys
      /\ Holds(job.slot, job.key)
  BY StageSlot
<1>7. \A s, k : Holds(s, k)' = Holds(s, k)
  BY <1>3 DEF Holds
<1>8. Trusted' = Trusted
  BY <1>3 DEF Trusted
<1>9. TrustedKeys' = TrustedKeys
  BY <1>7, <1>8 DEF TrustedKeys
<1>10. job.key \in TrustedKeys
  BY <1>6 DEF TrustedKeys
<1>11. KeyBeforeFlag'
  BY <1>3, <1>7 DEF KeyBeforeFlag, IndInv, PolicyInv
<1>12. KeyedBoot'
  BY <1>3, <1>4, <1>5, <1>6 DEF KeyedBoot, Hardened
<1>13. ProtectedBoardBoots'
  BY <1>9, <1>10 DEF ProtectedBoardBoots, IndInv, StageInv
<1>14. LockLeavesOneKey'
  BY <1>3, <1>5 DEF LockLeavesOneKey
<1>15. QED
  BY <1>3, <1>9, <1>10, <1>11, <1>12, <1>13, <1>14 DEF PolicyInv

LEMMA BurnRevocation ==
  ASSUME IndInv, job # NoJob, job.action = "lock", NEW r, NextRow(r), r.bank = "flag",
         NEW B \in SUBSET RowBits(r), Burn(r, B), UNCHANGED flash
  PROVE  /\ PolicyInv'
         /\ UNCHANGED <<hard, secure, lock>>
         /\ TrustedKeys' = TrustedKeys
<1>1. r \in todo /\ job \in Jobs /\ TypeOK /\ PlanAllowed(job)
  BY DEF NextRow, IndInv, TypeOK, StoppedStageResumes
<1>2. UNCHANGED <<word, valid, hard, secure, lock>>
  BY <1>1 DEF Burn
<1>3. secure = CritCopies /\ Trusted = {job.slot}
  BY <1>1 DEF PlanAllowed
<1>4. /\ job.slot \in Slots /\ job.slot \in Trusted /\ job.key \in Keys
      /\ Holds(job.slot, job.key)
  BY StageSlot
<1>5. B \subseteq Slots \ {job.slot}
  BY DEF RowBits
<1>6. revoked' \in [Slots -> SUBSET FlagCopies] /\ \A s \in Slots : revoked[s] \subseteq revoked'[s]
  BY <1>1, BurnTypes DEF Burn, TypeOK
<1>7. revoked'[job.slot] = revoked[job.slot]
  BY <1>1, <1>4, <1>5 DEF Burn, TypeOK
<1>8. \A s, k : Holds(s, k)' = Holds(s, k)
  BY <1>2 DEF Holds
<1>9. Trusted' = Trusted
  BY <1>1, <1>2, <1>3, <1>4, <1>6, <1>7, FlagVoteGrows DEF Trusted, TypeOK
<1>10. TrustedKeys' = TrustedKeys
  BY <1>8, <1>9 DEF TrustedKeys
<1>11. KeyBeforeFlag'
  BY <1>2, <1>8 DEF KeyBeforeFlag, IndInv, PolicyInv
<1>12. KeyedBoot'
  <2>1. Hardened' /\ UNCHANGED valid
    BY <1>1, <1>2 DEF PlanAllowed, Hardened
  <2>2. PICK s \in Slots : valid[s] = FlagCopies /\ revoked[s] = {}
    BY <1>3, UnanimousVote, NoVoteWithoutCopies DEF IndInv, PolicyInv, KeyedBoot
  <2>3. s = job.slot
    BY <1>3, <2>2, UnanimousVote, NoVoteWithoutCopies DEF Trusted
  <2>4. QED
    BY <1>7, <2>1, <2>2, <2>3 DEF KeyedBoot
<1>13. ProtectedBoardBoots'
  BY <1>2, <1>10 DEF ProtectedBoardBoots, SecureBoot, IndInv, PolicyInv
<1>14. LockLeavesOneKey'
  BY <1>2, <1>3, <1>6, <1>9 DEF LockLeavesOneKey, IndInv, PolicyInv
<1>15. QED
  BY <1>2, <1>10, <1>11, <1>12, <1>13, <1>14 DEF PolicyInv

LEMMA BurnPageLock ==
  ASSUME IndInv, job # NoJob, NEW r, NextRow(r), r.bank = "lock",
         NEW B \in SUBSET RowBits(r), Burn(r, B), UNCHANGED flash
  PROVE  /\ PolicyInv' /\ job.action = "lock"
         /\ UNCHANGED <<hard, secure>>
         /\ TrustedKeys' = TrustedKeys
<1>1. r \in todo /\ job \in Jobs /\ TypeOK /\ PlanAllowed(job) /\ PlanRows(job) = todo
  BY DEF NextRow, IndInv, TypeOK, StoppedStageResumes
<1>2. job.action = "lock"
  BY <1>1, StageRows DEF Jobs, Actions
<1>3. UNCHANGED <<word, valid, revoked, hard, secure>>
  BY <1>1 DEF Burn
<1>4. secure = CritCopies /\ Trusted = {job.slot} /\ job.slot \in Slots
  BY <1>1, <1>2 DEF PlanAllowed, Jobs
<1>5. \A t \in Slots \ {job.slot} : revoked[t] = FlagCopies
  <2>1. \A q \in LockRows : q.bank # "flag"
    BY <1>1, <1>2, PlanOrder DEF PlanRows
  <2>2. ASSUME NEW c \in FlagCopies, NEW t \in Slots \ Trusted, c \notin revoked[t]
        PROVE  Row("flag", c) \in LockRows
    BY <2>2 DEF LockRows
  <2>3. \A c \in FlagCopies : Row("flag", c).bank = "flag"
    BY DEF Row
  <2>4. \A t \in Slots \ Trusted : FlagCopies \subseteq revoked[t]
    BY <2>1, <2>2, <2>3
  <2>5. QED
    BY <1>1, <1>4, <2>4 DEF TypeOK
<1>6. \A s, k : Holds(s, k)' = Holds(s, k)
  BY <1>3 DEF Holds
<1>7. Trusted' = Trusted
  BY <1>3 DEF Trusted
<1>8. TrustedKeys' = TrustedKeys
  BY <1>6, <1>7 DEF TrustedKeys
<1>9. KeyBeforeFlag' /\ KeyedBoot' /\ ProtectedBoardBoots'
  BY <1>3, <1>6, <1>8
     DEF IndInv, PolicyInv, KeyBeforeFlag, KeyedBoot, Hardened, ProtectedBoardBoots, SecureBoot
<1>10. LockLeavesOneKey'
  BY <1>3, <1>4, <1>5, <1>7 DEF LockLeavesOneKey
<1>11. QED
  BY <1>2, <1>3, <1>8, <1>9, <1>10 DEF PolicyInv

\* A row of any stage, whole or torn, keeps the policy safe.
LEMMA BurnIsSafe ==
  ASSUME IndInv, job # NoJob, NEW r, NextRow(r), NEW B \in SUBSET RowBits(r), Burn(r, B),
         UNCHANGED <<flash, ran>>
  PROVE  PolicyInv' /\ LockAfterProtectedBoot'
<1>1. r \in todo /\ job \in Jobs
  BY DEF NextRow, IndInv, TypeOK
<1>2. PolicyInv' /\ (UNCHANGED <<revoked, lock>> \/ job.action = "lock")
  BY <1>1, StageRows, BurnWord, BurnValidFlag, BurnHardening, BurnEnable, BurnRevocation, BurnPageLock
     DEF Jobs, Actions
<1>3. LockAfterProtectedBoot'
  BY <1>2 DEF LockAfterProtectedBoot, IndInv, RanProtected, StageInv
<1>4. QED
  BY <1>2, <1>3

-----------------------------------------------------------------------------
\* A whole row leaves the stage allowed, with one row less to burn.

LEMMA StillWritable ==
  ASSUME NEW S, NEW T \in SUBSET S, Writable(S), UNCHANGED lock
  PROVE  Writable(T)'
BY DEF Writable, LockVote

LEMMA WholeKeyRow ==
  ASSUME IndInv, job # NoJob, job.action = "load-key", NEW r, NextRow(r), Burn(r, RowBits(r)),
         NEW j, j = job
  PROVE  PlanAllowed(j)' /\ PlanRows(j)' = todo \ {r}
<1>1. r \in todo /\ j \in Jobs /\ TypeOK /\ PlanAllowed(j) /\ PlanRows(j) = todo
  BY DEF NextRow, IndInv, TypeOK, StoppedStageResumes
<1>2. UNCHANGED <<revoked, hard, secure, lock>>
  BY <1>1, StageRows DEF Burn
<1>3. LoadKeyAllowed(j.key, j.slot) /\ j.slot \in Slots /\ j.key \in Keys
  BY <1>1 DEF PlanAllowed, Jobs
<1>4. r \in LoadKeyRows(j.key, j.slot)
  BY <1>1 DEF PlanRows
<1>5. CASE r.bank = "word"
  <2>1. r.n \in WordRows /\ r = Row("word", r.n)
    BY <1>4, <1>5 DEF LoadKeyRows, Row
  <2>2. word' = [word EXCEPT ![j.slot][r.n] = Word[j.key][r.n]] /\ UNCHANGED valid
    BY <1>1, <1>5 DEF Burn, RowBits
  <2>3. /\ word'[j.slot][r.n] = Word[j.key][r.n]
        /\ \A i \in WordRows : i # r.n => word'[j.slot][i] = word[j.slot][i]
    BY <1>1, <1>3, <2>1, <2>2 DEF TypeOK
  <2>4. LoadKeyAllowed(j.key, j.slot)'
    BY <1>2, <1>3, <2>1, <2>3 DEF LoadKeyAllowed
  <2>5. LoadKeyRows(j.key, j.slot)' = LoadKeyRows(j.key, j.slot) \ {r}
    BY <2>1, <2>2, <2>3 DEF LoadKeyRows, Row
  <2>6. QED
    BY <1>1, <1>2, <2>4, <2>5, StillWritable DEF PlanAllowed, PlanRows
<1>6. CASE r.bank = "flag"
  <2>1. r.n \in FlagCopies /\ r = Row("flag", r.n)
    BY <1>4, <1>6 DEF LoadKeyRows, Row
  <2>2. UNCHANGED word /\ valid'[j.slot] = valid[j.slot] \cup {r.n}
    BY <1>1, <1>3, <1>6 DEF Burn, RowBits, TypeOK
  <2>3. LoadKeyAllowed(j.key, j.slot)'
    BY <1>2, <1>3, <2>2 DEF LoadKeyAllowed
  <2>4. LoadKeyRows(j.key, j.slot)' = LoadKeyRows(j.key, j.slot) \ {r}
    BY <2>1, <2>2 DEF LoadKeyRows, Row
  <2>5. QED
    BY <1>1, <1>2, <2>3, <2>4, StillWritable DEF PlanAllowed, PlanRows
<1>7. QED
  BY <1>1, <1>5, <1>6, StageRows

LEMMA WholeCritRow ==
  ASSUME IndInv, job # NoJob, job.action \in {"harden", "enable"}, NEW r, NextRow(r),
         Burn(r, RowBits(r)), NEW j, j = job
  PROVE  PlanAllowed(j)' /\ PlanRows(j)' = todo \ {r}
<1>1. r \in todo /\ j \in Jobs /\ TypeOK /\ PlanAllowed(j) /\ PlanRows(j) = todo
  BY DEF NextRow, IndInv, TypeOK, StoppedStageResumes
<1>2. r.bank = "crit" /\ r.n \in CritCopies /\ r = Row("crit", r.n)
  BY <1>1 DEF PlanRows, HardenRows, EnableRows, Row
<1>3. UNCHANGED <<word, valid, revoked, lock>>
  BY <1>2 DEF Burn
<1>4. \A s, k : MatchesOnce(k, s)' = MatchesOnce(k, s)
  BY <1>3 DEF MatchesOnce, Trusted, Holds
<1>5. CASE j.action = "harden"
  <2>1. /\ hard'[r.n] = HardBits
        /\ \A c \in CritCopies : c # r.n => hard'[c] = hard[c]
    BY <1>1, <1>2, <1>5 DEF Burn, RowBits, TypeOK
  <2>2. HardenRows' = HardenRows \ {r}
    BY <1>2, <2>1 DEF HardenRows, Row
  <2>3. QED
    BY <1>1, <1>3, <1>4, <1>5, <2>2, StillWritable DEF PlanAllowed, PlanRows
<1>6. CASE j.action = "enable"
  <2>1. secure' = secure \cup {r.n} /\ UNCHANGED hard
    BY <1>2, <1>6 DEF Burn, RowBits
  <2>2. EnableRows' = EnableRows \ {r}
    BY <1>2, <2>1 DEF EnableRows, Row
  <2>3. QED
    BY <1>1, <1>3, <1>4, <1>6, <2>1, <2>2, StillWritable DEF PlanAllowed, PlanRows, Hardened
<1>7. QED
  BY <1>5, <1>6

LEMMA WholeRevocation ==
  ASSUME IndInv, job # NoJob, job.action = "lock", NEW r, NextRow(r), r.bank = "flag",
         Burn(r, RowBits(r)), NEW j, j = job
  PROVE  PlanAllowed(j)' /\ PlanRows(j)' = todo \ {r}
<1>1. r \in todo /\ j \in Jobs /\ TypeOK /\ PlanAllowed(j) /\ PlanRows(j) = todo
  BY DEF NextRow, IndInv, TypeOK, StoppedStageResumes
<1>2. UNCHANGED <<word, valid, hard, secure, lock>>
  BY <1>1 DEF Burn
<1>3. r \in LockRows /\ r.n \in FlagCopies /\ r = Row("flag", r.n)
  BY <1>1 DEF PlanRows, LockRows, Row
<1>4. Trusted = {j.slot} /\ j.slot \in Slots
  BY <1>1 DEF PlanAllowed, Jobs
<1>5. /\ revoked'[j.slot] = revoked[j.slot]
      /\ \A t \in Slots \ {j.slot} : revoked'[t] = revoked[t] \cup {r.n}
  BY <1>1, <1>4 DEF Burn, RowBits, TypeOK
<1>6. Trusted' = Trusted
  BY <1>1, <1>2, <1>3, <1>4, <1>5, FlagVoteGrows DEF Trusted, TypeOK
<1>7. \A s, k : MatchesOnce(k, s)' = MatchesOnce(k, s)
  BY <1>2, <1>6 DEF MatchesOnce, Holds
<1>8. LockRows' = LockRows \ {r}
  <2>1. \A c \in FlagCopies :
          (\E s \in Slots \ Trusted : c \notin revoked[s])' <=>
            c # r.n /\ \E s \in Slots \ Trusted : c \notin revoked[s]
    BY <1>4, <1>5, <1>6
  <2>2. \A p : LockVote(p)' = LockVote(p)
    BY <1>2 DEF LockVote
  <2>3. QED
    BY <1>3, <2>1, <2>2 DEF LockRows, Row
<1>9. QED
  BY <1>1, <1>2, <1>6, <1>7, <1>8, StillWritable DEF PlanAllowed, PlanRows, Hardened

LEMMA WholePageLock ==
  ASSUME IndInv, job # NoJob, job.action = "lock", NEW r, NextRow(r), r.bank = "lock",
         Burn(r, RowBits(r)), NEW j, j = job
  PROVE  PlanAllowed(j)' /\ PlanRows(j)' = todo \ {r}
<1>1. r \in todo /\ j \in Jobs /\ TypeOK /\ PlanAllowed(j) /\ PlanRows(j) = todo
  BY DEF NextRow, IndInv, TypeOK, StoppedStageResumes
<1>2. UNCHANGED <<word, valid, revoked, hard, secure>>
  BY <1>1 DEF Burn
<1>3. r \in LockRows /\ r.n \in Pages /\ r = Row("lock", r.n)
  BY <1>1 DEF PlanRows, LockRows, Row
<1>4. /\ lock'[r.n] = lock[r.n] \cup (LockBytes \X LockBits)
      /\ \A p \in Pages : p # r.n => lock'[p] = lock[p]
  BY <1>1, <1>3 DEF Burn, RowBits, TypeOK
<1>5. LockVote(r.n)' = LockBits
  <2>1. \A b \in LockBits : {y \in LockBytes : <<y, b>> \in lock'[r.n]} = LockBytes
    BY <1>4
  <2>2. QED
    BY <2>1, UnanimousVote DEF LockVote
<1>6. \A p \in Pages : p # r.n => LockVote(p)' = LockVote(p)
  BY <1>4 DEF LockVote
<1>7. Trusted' = Trusted /\ \A s, k : MatchesOnce(k, s)' = MatchesOnce(k, s)
  BY <1>2 DEF MatchesOnce, Trusted, Holds
<1>8. LockRows' = LockRows \ {r}
  BY <1>2, <1>3, <1>5, <1>6, <1>7 DEF LockRows, Row
<1>9. \A q \in LockRows \ {r} : PageOf(q) \in Pages /\ PageOf(q) # r.n
  <2>1. \A q \in LockRows \ {r} : q.bank = "lock" /\ q.n \in Pages
    BY <1>1, <1>3, PlanOrder DEF PlanRows, LockRows, Row
  <2>2. \A q \in LockRows \ {r} : r.n < q.n
    BY <1>1, <1>3, <2>1, BankOrderIs DEF NextRow, Before, PlanRows
  <2>3. QED
    BY <1>3, <2>1, <2>2 DEF PageOf, Pages
<1>10. Writable(LockRows)'
  <2>1. Writable(LockRows)
    BY <1>1 DEF PlanAllowed, PlanRows
  <2>2. \A q \in LockRows \ {r} : BootselBit \notin LockVote(PageOf(q))'
    BY <1>6, <1>9, <2>1 DEF Writable
  <2>3. QED
    BY <1>8, <2>2 DEF Writable
<1>11. QED
  BY <1>1, <1>2, <1>7, <1>8, <1>10 DEF PlanAllowed, PlanRows, Hardened

-----------------------------------------------------------------------------
\* Every step keeps the invariant.

LEMMA PlanIsRows ==
  ASSUME NEW j \in Jobs
  PROVE  PlanRows(j) \subseteq Rows
<1>1. LoadKeyRows(j.key, j.slot) \subseteq Rows
  BY DEF LoadKeyRows, Row, Rows
<1>2. HardenRows \subseteq Rows /\ EnableRows \subseteq Rows
  BY DEF HardenRows, EnableRows, Row, Rows
<1>3. LockRows \subseteq Rows
  BY DEF LockRows, Row, Rows
<1>4. QED
  BY <1>1, <1>2, <1>3 DEF PlanRows, Jobs, Actions

\* Steps that program nothing and flash nothing.
LEMMA PolicyFrame ==
  ASSUME PolicyInv, UNCHANGED otp, UNCHANGED flash
  PROVE  PolicyInv'
BY OtpUnchanged
   DEF otp, PolicyInv, KeyBeforeFlag, KeyedBoot, ProtectedBoardBoots, LockLeavesOneKey

LEMMA BeginStep ==
  ASSUME IndInv, NEW j \in Jobs, NEW img \in Images, Begin(j, img)
  PROVE  IndInv'
<1> USE DEF IndInv
<1>1. UNCHANGED <<otp, board, proof>> /\ job' = j /\ todo' = PlanRows(j)
  BY DEF Begin
<1>2. TypeOK'
  BY <1>1, PlanIsRows DEF TypeOK, otp, board
<1>3. PolicyInv'
  BY <1>1, PolicyFrame DEF board
<1>4. RanProtected'
  BY <1>1 DEF RanProtected, LockAfterProtectedBoot, otp, board
<1>5. StageInv'
  <2>1. SecureBoot' = SecureBoot
    BY <1>1, OtpUnchanged
  <2>2. mode = "bootsel" /\ KeyOf[flash] = j.key /\ PlanRows(j) # {}
    BY DEF Begin
  <2>3. j.action = "enable" /\ ~SecureBoot => empty
    BY DEF Begin
  <2>4. j.action = "lock" => ran # {}
    BY DEF Begin, RanProtected
  <2>5. QED
    BY <1>1, <2>1, <2>2, <2>3, <2>4, NoJobAssumption DEF StageInv, board
<1>6. StoppedStageResumes'
  <2>1. PlanAllowed(j)' /\ PlanRows(j)' = PlanRows(j)
    BY <1>1, OtpUnchanged DEF Begin
  <2>2. QED
    BY <1>1, <2>1 DEF StoppedStageResumes
<1>7. QED
  BY <1>2, <1>3, <1>4, <1>5, <1>6

LEMMA WriteRowStep ==
  ASSUME IndInv, NEW r \in todo, WriteRow(r)
  PROVE  IndInv'
<1>1. /\ job # NoJob /\ NextRow(r) /\ Burn(r, RowBits(r))
      /\ UNCHANGED <<board, proof>>
      /\ todo' = todo \ {r}
      /\ job' \in {job, NoJob} /\ (job' = NoJob <=> todo' = {})
  BY DEF WriteRow
<1>2. TypeOK /\ UNCHANGED <<flash, mode, protected, empty, ran, proof>>
  BY <1>1 DEF IndInv, board
<1>3. TypeOK'
  BY <1>1, <1>2, BurnTypes DEF TypeOK
<1>4. PolicyInv' /\ LockAfterProtectedBoot'
  BY <1>1, <1>2, BurnIsSafe
<1>5. RanProtected'
  BY <1>2, <1>4 DEF RanProtected, IndInv
<1>6. SecureBoot => SecureBoot'
  <2>1. secure \in SUBSET secure'
    BY <1>1 DEF Burn
  <2>2. IsFiniteSet(secure')
    BY <1>3, FS_Subset, BoardAssumption DEF TypeOK
  <2>3. QED
    BY <2>1, <2>2, MoreVotes DEF SecureBoot, CritThreshold
<1>7. StageInv'
  BY <1>1, <1>2, <1>6 DEF StageInv, IndInv
<1>8. StoppedStageResumes'
  <2>1. PICK j : j = job
    OBVIOUS
  <2>2. PlanAllowed(j)' /\ PlanRows(j)' = todo'
    BY <1>1, <1>2, <2>1, StageRows, WholeKeyRow, WholeCritRow, WholeRevocation, WholePageLock
       DEF Jobs, Actions
  <2>3. QED
    BY <1>1, <2>1, <2>2 DEF StoppedStageResumes
<1>9. QED
  BY <1>3, <1>4, <1>5, <1>7, <1>8 DEF IndInv

LEMMA TearRowStep ==
  ASSUME IndInv, NEW r \in todo, NEW B \in SUBSET RowBits(r), TearRow(r, B)
  PROVE  IndInv'
<1>1. /\ job # NoJob /\ NextRow(r) /\ Burn(r, B)
      /\ UNCHANGED <<flash, protected, empty, ran, proof>>
      /\ todo' = {} /\ job' = NoJob /\ mode' = "off"
  BY DEF TearRow
<1>2. TypeOK'
  BY <1>1, BurnTypes DEF TypeOK, IndInv
<1>3. PolicyInv' /\ LockAfterProtectedBoot'
  BY <1>1, BurnIsSafe
<1>4. RanProtected' /\ StageInv' /\ StoppedStageResumes'
  BY <1>1, <1>3 DEF RanProtected, StageInv, StoppedStageResumes, IndInv
<1>5. QED
  BY <1>2, <1>3, <1>4 DEF IndInv

\* The steps that burn nothing.  They start and end without a stage, or stop
\* the one that is running.
LEMMA QuietStep ==
  ASSUME IndInv, UNCHANGED otp, UNCHANGED flash, TypeOK', RanProtected',
         job' = NoJob, todo' = {}
  PROVE  IndInv'
<1>1. PolicyInv'
  BY PolicyFrame DEF IndInv
<1>2. StageInv' /\ StoppedStageResumes'
  BY DEF StageInv, StoppedStageResumes
<1>3. QED
  BY <1>1, <1>2 DEF IndInv

LEMMA BoardSteps ==
  ASSUME IndInv, StopStage \/ Unplug \/ PowerUp \/ EnterBootsel \/ Prepare \/ Use
                   \/ \E img \in Images : Prove(img)
  PROVE  IndInv'
<1> USE DEF IndInv, RanProtected, LockAfterProtectedBoot, otp, board, plans
<1>1. mode # "bootsel" => job = NoJob /\ todo = {}
  BY DEF StageInv
<1>2. CASE StopStage
  BY <1>2, QuietStep DEF StopStage, TypeOK
<1>3. CASE Unplug
  BY <1>3, QuietStep DEF Unplug, TypeOK
<1>4. CASE PowerUp
  <2>1. TypeOK' /\ UNCHANGED <<otp, flash, proof>> /\ job' = NoJob /\ todo' = {}
    BY <1>1, <1>4 DEF PowerUp, TypeOK, SecureBoot, Vote
  <2>2. RanProtected'
    BY <1>4 DEF PowerUp
  <2>3. QED
    BY <2>1, <2>2, QuietStep
<1>5. CASE EnterBootsel
  BY <1>1, <1>5, QuietStep DEF EnterBootsel, TypeOK, SecureBoot, Vote
<1>6. CASE Prepare
  BY <1>1, <1>6, QuietStep DEF Prepare, TypeOK
<1>7. CASE Use
  BY <1>1, <1>7, QuietStep DEF Use, TypeOK
<1>8. ASSUME NEW img \in Images, Prove(img) PROVE IndInv'
  BY <1>1, <1>8, QuietStep DEF Prove, TypeOK
<1>9. QED
  BY <1>2, <1>3, <1>4, <1>5, <1>6, <1>7, <1>8

LEMMA FlashStep ==
  ASSUME IndInv, NEW img \in Images, Flash(img)
  PROVE  IndInv'
<1> USE DEF IndInv
<1>1. UNCHANGED <<otp, plans, protected, empty, ran, proof>> /\ flash' = img /\ mode' = "off"
      /\ job = NoJob
  BY DEF Flash
<1>2. TypeOK'
  BY <1>1 DEF TypeOK, otp, plans
<1>3. PolicyInv'
  <2>1. SecureBoot => KeyOf[img] \in TrustedKeys
    BY DEF Flash
  <2>2. ProtectedBoardBoots'
    BY <1>1, <2>1, OtpUnchanged DEF ProtectedBoardBoots
  <2>3. QED
    BY <1>1, <2>2, OtpUnchanged
       DEF PolicyInv, KeyBeforeFlag, KeyedBoot, LockLeavesOneKey, otp
<1>4. RanProtected' /\ StageInv' /\ StoppedStageResumes'
  BY <1>1 DEF RanProtected, LockAfterProtectedBoot, StageInv, StoppedStageResumes, plans, otp
<1>5. QED
  BY <1>2, <1>3, <1>4

LEMMA StutterStep ==
  ASSUME IndInv, UNCHANGED vars
  PROVE  IndInv'
<1> USE DEF IndInv, vars, otp, plans, board
<1>1. PolicyInv'
  BY PolicyFrame
<1>2. TypeOK' /\ RanProtected'
  BY DEF TypeOK, RanProtected, LockAfterProtectedBoot
<1>3. StageInv' /\ StoppedStageResumes'
  BY OtpUnchanged DEF StageInv, StoppedStageResumes
<1>4. QED
  BY <1>1, <1>2, <1>3

LEMMA IndInvNext == IndInv /\ [Next]_vars => IndInv'
BY BeginStep, WriteRowStep, TearRowStep, BoardSteps, FlashStep, StutterStep DEF Next

THEOREM Invariance == Spec => []IndInv
BY IndInvInit, IndInvNext, PTL DEF Spec

-----------------------------------------------------------------------------
\* The properties.

\* The fuses, the plan and the saved check keep their types.
THEOREM Typing == Spec => []TypeOK
<1>1. IndInv => TypeOK
  BY DEF IndInv
<1>2. QED
  BY Invariance, <1>1, PTL

\* A slot with a valid bit always holds a whole key, whatever was interrupted.
THEOREM KeysComeFirst == Spec => []KeyBeforeFlag
<1>1. IndInv => KeyBeforeFlag
  BY DEF IndInv, PolicyInv
<1>2. QED
  BY Invariance, <1>1, PTL

\* No copy enables secure boot on a board without hardening and a trusted key.
THEOREM SecureBootHasKey == Spec => []SecureNeedsHardenedKey
<1>1. ASSUME IndInv, secure # {} PROVE Hardened /\ TrustedKeys # {}
  <2>1. Hardened
    BY <1>1 DEF IndInv, PolicyInv, KeyedBoot
  <2>2. PICK s \in Slots : valid[s] = FlagCopies /\ revoked[s] = {}
    BY <1>1 DEF IndInv, PolicyInv, KeyedBoot
  <2>3. s \in Trusted
    BY <2>2, UnanimousVote, NoVoteWithoutCopies DEF Trusted
  <2>4. \E k \in Keys : Holds(s, k)
    BY <1>1, <2>3, TrustedIsValid DEF IndInv, PolicyInv, KeyBeforeFlag
  <2>5. QED
    BY <2>1, <2>3, <2>4 DEF TrustedKeys
<1>2. IndInv => SecureNeedsHardenedKey
  BY <1>1 DEF SecureNeedsHardenedKey
<1>3. QED
  BY Invariance, <1>2, PTL

\* A board with secure boot on holds firmware that it will start.
THEOREM ProtectedBoardsBoot == Spec => []ProtectedBoardBoots
<1>1. IndInv => ProtectedBoardBoots
  BY DEF IndInv, PolicyInv
<1>2. QED
  BY Invariance, <1>1, PTL

\* A locked board has exactly one key slot left.
THEOREM OneKeyIsLeft == Spec => []LockLeavesOneKey
<1>1. IndInv => LockLeavesOneKey
  BY DEF IndInv, PolicyInv
<1>2. QED
  BY Invariance, <1>1, PTL

\* Nothing is revoked or locked before the board has run protected.
THEOREM LocksComeLast == Spec => []LockAfterProtectedBoot
<1>1. IndInv => LockAfterProtectedBoot
  BY DEF IndInv, RanProtected
<1>2. QED
  BY Invariance, <1>1, PTL

\* Every interrupted stage can be taken up where it stopped.
THEOREM StagesResume == Spec => []StoppedStageResumes
<1>1. IndInv => StoppedStageResumes
  BY DEF IndInv
<1>2. QED
  BY Invariance, <1>1, PTL

\* Only a row of the enable stage can turn secure boot on.
LEMMA OnlyEnable ==
  ASSUME IndInv, [Next]_vars, ~SecureBoot, SecureBoot'
  PROVE  job # NoJob /\ job.action = "enable"
<1>1. ASSUME UNCHANGED otp PROVE FALSE
  BY <1>1, OtpUnchanged
<1>2. ASSUME NEW r \in todo, NEW B \in SUBSET RowBits(r), job # NoJob, NextRow(r), Burn(r, B)
      PROVE  job.action = "enable"
  BY <1>2 DEF Burn, SecureBoot, Vote
<1>3. CASE \E r \in todo : WriteRow(r)
  BY <1>2, <1>3 DEF WriteRow
<1>4. CASE \E r \in todo : \E B \in SUBSET RowBits(r) : TearRow(r, B)
  BY <1>2, <1>4 DEF TearRow
<1>5. QED
  BY <1>1, <1>3, <1>4
     DEF Next, vars, Begin, StopStage, Unplug, PowerUp, EnterBootsel, Prepare, Use, Flash, Prove

\* Secure boot is only ever turned on over erased storage.
THEOREM SecureBootOnEmptyStorage == Spec => SecureOnEmptyStorage
<1>1. IndInv /\ [Next]_vars => [~SecureBoot /\ SecureBoot' => empty]_vars
  BY OnlyEnable DEF IndInv, StageInv
<1>2. QED
  BY Invariance, <1>1, PTL DEF Spec, SecureOnEmptyStorage

-----------------------------------------------------------------------------
\* The ladder.

\* The locked slot is the only trusted one, so its key is the only one left.
LEMMA OneKeyTrusted ==
  ASSUME NEW s \in Slots, NEW k \in Keys, Trusted = {s}, Holds(s, k)
  PROVE  TrustedKeys = {k}
BY OneKeyPerSlot DEF TrustedKeys

LEMMA BurnClimbs ==
  ASSUME IndInv, job # NoJob, NEW r, NextRow(r), NEW B \in SUBSET RowBits(r), Burn(r, B),
         UNCHANGED flash
  PROVE  Ladder!Next \/ UNCHANGED <<Rung, TrustedKeys>>
<1>1. r \in todo /\ job \in Jobs /\ TypeOK
  BY DEF NextRow, IndInv, TypeOK
<1>2. CASE job.action = "load-key"
  <2>1. UNCHANGED <<hard, secure, lock>> /\ TrustedKeys' \in {TrustedKeys, TrustedKeys \cup {job.key}}
    BY <1>1, <1>2, StageRows, BurnWord, BurnValidFlag
  <2>2. Rung' = Rung
    BY <2>1 DEF Rung, SecureBoot, Hardened
  <2>3. Rung # "locked"
    BY <1>1, <1>2, FusedMeansLock DEF Rung
  <2>4. job.key \in Keys
    BY <1>1 DEF Jobs
  <2>5. QED
    BY <2>1, <2>2, <2>3, <2>4 DEF Ladder!Next, Ladder!Trust
<1>3. CASE job.action = "harden"
  <2>1. UNCHANGED <<secure, lock>> /\ TrustedKeys' = TrustedKeys /\ (Hardened => Hardened')
    BY <1>3, BurnHardening
  <2>2. TrustedKeys # {}
    BY <1>3, StageSlot DEF TrustedKeys
  <2>3. Rung' = Rung \/ (Rung = "open" /\ Rung' = "hardened")
    BY <2>1 DEF Rung, SecureBoot
  <2>4. QED
    BY <2>1, <2>2, <2>3 DEF Ladder!Next, Ladder!Climb
<1>4. CASE job.action = "enable"
  <2>1. UNCHANGED <<hard, lock>> /\ TrustedKeys' = TrustedKeys /\ job.key \in TrustedKeys
    BY <1>4, BurnEnable
  <2>2. Hardened /\ Hardened'
    BY <1>4, <2>1 DEF IndInv, StoppedStageResumes, PlanAllowed, Hardened
  <2>3. SecureBoot => SecureBoot'
    <3>1. secure \in SUBSET secure'
      BY DEF Burn
    <3>2. IsFiniteSet(secure')
      BY BurnTypes, FS_Subset, BoardAssumption
    <3>3. QED
      BY <3>1, <3>2, MoreVotes DEF SecureBoot, CritThreshold
  <2>4. Rung' = Rung \/ (Rung = "hardened" /\ Rung' = "secure")
    BY <2>1, <2>2, <2>3 DEF Rung
  <2>5. QED
    BY <2>1, <2>4 DEF Ladder!Next, Ladder!Climb
<1>5. CASE job.action = "lock"
  <2>1. UNCHANGED <<hard, secure>> /\ TrustedKeys' = TrustedKeys
    BY <1>1, <1>5, StageRows, BurnRevocation, BurnPageLock
  <2>2. SecureBoot
    BY <1>5, UnanimousVote DEF IndInv, StoppedStageResumes, PlanAllowed, SecureBoot
  <2>3. TrustedKeys = {job.key} /\ job.key \in Keys
    BY <1>5, StageSlot, OneKeyTrusted DEF IndInv, StoppedStageResumes, PlanAllowed
  <2>4. (\E p \in Pages : lock[p] # {}) => \E p \in Pages : lock'[p] # {}
    BY <1>1 DEF Burn, TypeOK
  <2>5. Rung' = Rung \/ (Rung = "secure" /\ Rung' = "locked")
    BY <2>1, <2>2, <2>4 DEF Rung, SecureBoot
  <2>6. QED
    BY <2>1, <2>3, <2>5 DEF Ladder!Next, Ladder!Lock, Ladder!Climb
<1>6. QED
  BY <1>1, <1>2, <1>3, <1>4, <1>5 DEF Jobs, Actions

\* Whatever is interrupted, torn or repeated, BootSecurity climbs BootLadder.
THEOREM Climbing == Spec => ClimbsLadder
<1>1. Init => Ladder!Init
  <2> SUFFICES ASSUME Init PROVE Ladder!Init
    OBVIOUS
  <2>1. ~SecureBoot
    BY NoVoteWithoutCopies DEF Init, SecureBoot
  <2>2. ~Hardened
    BY BoardAssumption, UnanimousVote, NoVoteWithoutCopies DEF Init, Hardened
  <2>3. TrustedKeys = {}
    BY NoVoteWithoutCopies DEF Init, TrustedKeys, Trusted
  <2>4. QED
    BY <2>1, <2>2, <2>3 DEF Ladder!Init, Rung, Init
<1>2. IndInv /\ [Next]_vars => [Ladder!Next]_Ladder!vars
  <2> SUFFICES ASSUME IndInv, [Next]_vars
               PROVE  Ladder!Next \/ UNCHANGED <<Rung, TrustedKeys>>
    BY DEF Ladder!vars
  <2>1. ASSUME UNCHANGED otp PROVE UNCHANGED <<Rung, TrustedKeys>>
    <3>1. TrustedKeys' = TrustedKeys /\ SecureBoot' = SecureBoot /\ Hardened' = Hardened
      BY <2>1, OtpUnchanged
    <3>2. QED
      BY <2>1, <3>1 DEF Rung, otp
  <2>2. ASSUME NEW r \in todo, WriteRow(r) PROVE Ladder!Next \/ UNCHANGED <<Rung, TrustedKeys>>
    BY <2>2, BurnClimbs DEF WriteRow, board
  <2>3. ASSUME NEW r \in todo, NEW B \in SUBSET RowBits(r), TearRow(r, B)
        PROVE  Ladder!Next \/ UNCHANGED <<Rung, TrustedKeys>>
    BY <2>3, BurnClimbs DEF TearRow
  <2>4. QED
    BY <2>1, <2>2, <2>3
       DEF Next, vars, Begin, StopStage, Unplug, PowerUp, EnterBootsel, Prepare, Use, Flash, Prove
<1>3. QED
  BY Invariance, <1>1, <1>2, PTL DEF Spec, ClimbsLadder, Ladder!Spec
=============================================================================
