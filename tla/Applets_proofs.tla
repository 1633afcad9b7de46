---------------------------- MODULE Applets_proofs ----------------------------
(***************************************************************************)
(* Proofs about two applets of a key, each for every value of its          *)
(* constants: PivApplet, and HsmFiles as the instance `Hsm`.  They share   *)
(* nothing; a definition or a lemma about the second starts with Hsm.      *)
(*                                                                         *)
(* PivApplet.  `op` is the rest of an operation: what has been given is    *)
(* known by what it left in the session and on the card (`Lawful`,         *)
(* `Resets`), so that the properties of the command at the head follow.    *)
(*                                                                         *)
(* HsmFiles.  What keeps a command from taking more than it was asked to   *)
(* lies between two commands: the place an operation picked from the list  *)
(* is still free when the command is given.  `HsmPicked` says so of every  *)
(* operation that has picked one, as long as no other program writes to    *)
(* the card.                                                               *)
(***************************************************************************)
EXTENDS PivApplet, SequenceTheorems, WellFoundedInduction, TLAPS

\* The largest limit a card may have been given.
Most == CHOOSE m \in Tries : \A t \in Tries : t <= m

\* The commands, each with its arguments.
Moving == {c \in {"move"} \X Slots \X Slots : c[2] # c[3]}
Commanding == (Commands \X Slots) \cup Moving \cup ({"setMgm"} \X MgmKeys)
Changing == {"changePin", "changePuk", "unblock"} \X Secrets \X Secrets
Cmds ==
  {<<"select">>, <<"printed">>, <<"wipe">>} \cup ({"verify"} \X Secrets) \cup ({"authenticate"} \X MgmKeys)
  \cup Changing \cup Commanding \cup ({"retries"} \X Tries \X Tries) \cup ({"blockPin", "blockPuk"} \X Nat)

\* Whether `s` gives the command before its i-th.
Given(name, s, i) == \E j \in 1..(i - 1) : s[j][1] = name
NeedsKey == Commands \cup {"move", "setMgm", "retries"}

\* What is to come in a session, of which `a` and `v` say what was proved:
\* SELECT comes first, and a gated command after what it needs.
Lawful(s, a, v) ==
  \A i \in 1..Len(s) :
    /\ s[i][1] = "select" => i = 1
    /\ s[i][1] \in NeedsKey => Given("authenticate", s, i) \/ (a /\ s[1][1] # "select")
    /\ s[i][1] = "retries" => Given("verify", s, i) \/ (v /\ s[1][1] # "select")

\* What is left of a reset, and what was blocked by then.  The rounds that are
\* left are enough for the tries that are left.
Blocking == {"blockPin", "blockPuk", "wipe"}
Plain(s) == \A i \in 1..Len(s) : s[i][1] \notin Blocking

Resets ==
  \/ /\ Len(op) = 4 /\ op[1][1] = "select" /\ op[2] = <<"blockPin", 0>> /\ op[3] = <<"blockPuk", 0>>
     /\ op[4][1] = "wipe"
  \/ /\ Len(op) = 3 /\ op[1][1] = "blockPin" /\ op[2] = <<"blockPuk", 0>> /\ op[3][1] = "wipe"
     /\ pin.left + op[1][2] <= Most
  \/ /\ Len(op) = 2 /\ op[1][1] = "blockPuk" /\ op[2][1] = "wipe"
     /\ pin.left = 0 /\ puk.left + op[1][2] <= Most
  \/ /\ Len(op) = 1 /\ op[1][1] = "wipe" /\ Blocked

ResetInv == Plain(op) \/ Resets

\* A try is lost by the last command of an operation only.
Inv ==
  /\ TypeOK /\ op \in Seq(Cmds)
  /\ op # <<>> => burnt = 0
  /\ burnt <= 1
  /\ Lawful(op, authed, verified)

-----------------------------------------------------------------------------
LEMMA MostIs ==
  ASSUME PivAssumption
  PROVE  Most \in Tries /\ Most \in Nat \ {0} /\ (\A t \in Tries : t <= Most) /\ Tries \subseteq Nat
BY DEF PivAssumption, Most

LEMMA RefIs ==
  ASSUME PivAssumption
  PROVE  /\ References = [value : Secrets, left : 0..Most, max : Tries]
         /\ \A s \in Secrets, t \in Tries :
              Reference(s, t) \in References /\ Reference(s, t).left <= Reference(s, t).max
         /\ \A r \in References : /\ Charged(r) \in References /\ Restored(r) \in References
                                  /\ r.left <= r.max => Charged(r).left <= Charged(r).max
                                  /\ Restored(r).left <= Restored(r).max
                                  /\ r.left \in Nat /\ r.left <= Most /\ r.value \in Secrets /\ r.max \in Tries
<1>1. References = [value : Secrets, left : 0..Most, max : Tries]
  BY DEF References, Most
<1>2. \A s \in Secrets, t \in Tries : Reference(s, t) \in References /\ Reference(s, t).left <= Reference(s, t).max
  BY <1>1, MostIs DEF Reference
<1>3. ASSUME NEW r \in References
      PROVE  /\ Charged(r) \in References /\ Restored(r) \in References
             /\ r.left <= r.max => Charged(r).left <= Charged(r).max
             /\ Restored(r).left <= Restored(r).max
             /\ r.left \in Nat /\ r.left <= Most /\ r.value \in Secrets /\ r.max \in Tries
  <2>1. r \in [value : Secrets, left : 0..Most, max : Tries]
    BY <1>1
  <2>2. r.left \in Nat /\ r.left <= Most /\ r.value \in Secrets /\ r.max \in Tries /\ r.max \in 0..Most
    BY <2>1, MostIs
  <2> QED BY <1>1, <2>1, <2>2, MostIs DEF Charged, Restored
<1> QED BY <1>1, <1>2, <1>3

\* What a command is, from its name.
LEMMA CmdIs ==
  ASSUME NEW c \in Cmds
  PROVE  /\ c[1] \in {"changePin", "changePuk", "unblock"} => c[2] \in Secrets /\ c[3] \in Secrets
         /\ c[1] \in Commands => c[2] \in Slots
         /\ c[1] = "move" => c[2] \in Slots /\ c[3] \in Slots /\ c[2] # c[3]
         /\ c[1] = "setMgm" => c[2] \in MgmKeys
         /\ c[1] = "retries" => c[2] \in Tries /\ c[3] \in Tries
         /\ c[1] \in {"blockPin", "blockPuk"} => c \in {"blockPin", "blockPuk"} \X Nat
BY DEF Cmds, Changing, Commanding, Moving, Commands

\* An operation goes on with its tail.
LEMMA TailIs ==
  ASSUME op \in Seq(Cmds), op # <<>>
  PROVE  /\ Tail(op) \in Seq(Cmds) /\ Len(op) \in Nat \ {0} /\ Len(Tail(op)) = Len(op) - 1
         /\ \A i \in 1..Len(Tail(op)) : Tail(op)[i] = op[i + 1]
         /\ Head(op) = op[1] /\ op[1] \in Cmds
OBVIOUS

\* Giving a command keeps the rest lawful, if what it proves is there then.
LEMMA TailIsLawful ==
  ASSUME op \in Seq(Cmds), op # <<>>, Lawful(op, authed, verified), NEW a \in BOOLEAN, NEW v \in BOOLEAN,
         authed /\ Head(op)[1] # "select" => a,
         verified /\ Head(op)[1] # "select" => v,
         Head(op)[1] = "authenticate" => a,
         Head(op)[1] = "verify" => v
  PROVE  Lawful(Tail(op), a, v)
<1> SUFFICES ASSUME NEW i \in 1..Len(Tail(op))
             PROVE  /\ Tail(op)[i][1] = "select" => i = 1
                    /\ Tail(op)[i][1] \in NeedsKey =>
                         Given("authenticate", Tail(op), i) \/ (a /\ Tail(op)[1][1] # "select")
                    /\ Tail(op)[i][1] = "retries" =>
                         Given("verify", Tail(op), i) \/ (v /\ Tail(op)[1][1] # "select")
  BY DEF Lawful
<1>1. Tail(op)[i] = op[i + 1] /\ i + 1 \in 1..Len(op) /\ i \in Nat \ {0}
  BY TailIs
<1>2. i + 1 # 1
  BY <1>1
<1>3. Tail(op)[1][1] # "select"
  <2>1. 1 \in 1..Len(Tail(op)) /\ Tail(op)[1] = op[2] /\ 2 \in 1..Len(op)
    BY <1>1, TailIs
  <2> QED BY <2>1 DEF Lawful
<1>4. op[i + 1][1] # "select"
  BY <1>1, <1>2 DEF Lawful
<1>5. ASSUME NEW name, Given(name, op, i + 1)
      PROVE  Given(name, Tail(op), i) \/ Head(op)[1] = name
  <2>1. PICK j \in 1..i : op[j][1] = name
    BY <1>1, <1>5 DEF Given
  <2>2. CASE j = 1
    BY <2>1, <2>2, TailIs
  <2>3. CASE j # 1
    <3>1. j - 1 \in 1..(i - 1) /\ j - 1 \in 1..Len(Tail(op)) /\ Tail(op)[j - 1] = op[j]
      BY <1>1, <2>3, TailIs
    <3> QED BY <2>1, <3>1 DEF Given
  <2> QED BY <2>2, <2>3
<1>6. Tail(op)[i][1] \in NeedsKey => Given("authenticate", Tail(op), i) \/ a
  BY <1>1, <1>5, TailIs DEF Lawful
<1>7. Tail(op)[i][1] = "retries" => Given("verify", Tail(op), i) \/ v
  BY <1>1, <1>5, TailIs DEF Lawful
<1> QED BY <1>1, <1>3, <1>4, <1>6, <1>7
-----------------------------------------------------------------------------
\* Sequences that are joined.

LEMMA Joined ==
  ASSUME NEW S, NEW r \in Seq(S), NEW t \in Seq(S), NEW u \in Seq(S), Len(u) = Len(r) + Len(t),
         \A i \in 1..Len(r) : u[i] = r[i],
         \A i \in 1..Len(t) : u[Len(r) + i] = t[i]
  PROVE  r \o t = u
<1>1. ASSUME NEW i \in 1..Len(u)
      PROVE  (r \o t)[i] = u[i]
  <2>1. CASE i <= Len(r)
    BY <2>1, ConcatProperties
  <2>2. CASE i > Len(r)
    <3>1. i - Len(r) \in 1..Len(t) /\ Len(r) + (i - Len(r)) = i
      BY <2>2
    <3>2. (r \o t)[i] = t[i - Len(r)]
      BY <2>2, <3>1, ConcatProperties
    <3>3. u[Len(r) + (i - Len(r))] = t[i - Len(r)]
      BY <3>1
    <3> QED BY <3>1, <3>2, <3>3
  <2> QED BY <2>1, <2>2
<1>2. r \o t \in Seq(S) /\ Len(r \o t) = Len(u)
  BY ConcatProperties
<1> QED BY <1>1, <1>2, SeqEqual

LEMMA Join11 ==
  ASSUME NEW S, NEW a \in S, NEW b \in S
  PROVE  <<a>> \o <<b>> = <<a, b>>
<1> DEFINE r == <<a>>  t == <<b>>  u == <<a, b>>
<1>1. r \in Seq(S) /\ t \in Seq(S) /\ u \in Seq(S) /\ Len(r) = 1 /\ Len(t) = 1 /\ Len(u) = 2
  OBVIOUS
<1>2. /\ u[1] = r[1]
      /\ u[1 + 1] = t[1]
  OBVIOUS
<1>3. /\ \A i \in 1..1 : i = 1
      /\ \A i \in 1..1 : i = 1
  OBVIOUS
<1> HIDE DEF r, t, u
<1>4. (\A i \in 1..1 : u[i] = r[i]) /\ (\A i \in 1..1 : u[1 + i] = t[i])
  BY <1>2, <1>3
<1>5. /\ Len(u) = Len(r) + Len(t)
      /\ (\A i \in 1..Len(r) : u[i] = r[i]) /\ (\A i \in 1..Len(t) : u[Len(r) + i] = t[i])
  BY <1>1, <1>4
<1>6. r \o t = u
  BY <1>1, <1>5, Joined
<1> QED BY <1>6 DEF r, t, u

LEMMA Join12 ==
  ASSUME NEW S, NEW a \in S, NEW b \in S, NEW c \in S
  PROVE  <<a>> \o <<b, c>> = <<a, b, c>>
<1> DEFINE r == <<a>>  t == <<b, c>>  u == <<a, b, c>>
<1>1. r \in Seq(S) /\ t \in Seq(S) /\ u \in Seq(S) /\ Len(r) = 1 /\ Len(t) = 2 /\ Len(u) = 3
  OBVIOUS
<1>2. /\ u[1] = r[1]
      /\ u[1 + 1] = t[1] /\ u[1 + 2] = t[2]
  OBVIOUS
<1>3. /\ \A i \in 1..1 : i = 1
      /\ \A i \in 1..2 : i = 1 \/ i = 2
  OBVIOUS
<1> HIDE DEF r, t, u
<1>4. (\A i \in 1..1 : u[i] = r[i]) /\ (\A i \in 1..2 : u[1 + i] = t[i])
  BY <1>2, <1>3
<1>5. /\ Len(u) = Len(r) + Len(t)
      /\ (\A i \in 1..Len(r) : u[i] = r[i]) /\ (\A i \in 1..Len(t) : u[Len(r) + i] = t[i])
  BY <1>1, <1>4
<1>6. r \o t = u
  BY <1>1, <1>5, Joined
<1> QED BY <1>6 DEF r, t, u

LEMMA Join13 ==
  ASSUME NEW S, NEW a \in S, NEW b \in S, NEW c \in S, NEW d \in S
  PROVE  <<a>> \o <<b, c, d>> = <<a, b, c, d>>
<1> DEFINE r == <<a>>  t == <<b, c, d>>  u == <<a, b, c, d>>
<1>1. r \in Seq(S) /\ t \in Seq(S) /\ u \in Seq(S) /\ Len(r) = 1 /\ Len(t) = 3 /\ Len(u) = 4
  OBVIOUS
<1>2. /\ u[1] = r[1]
      /\ u[1 + 1] = t[1] /\ u[1 + 2] = t[2] /\ u[1 + 3] = t[3]
  OBVIOUS
<1>3. /\ \A i \in 1..1 : i = 1
      /\ \A i \in 1..3 : i = 1 \/ i = 2 \/ i = 3
  OBVIOUS
<1> HIDE DEF r, t, u
<1>4. (\A i \in 1..1 : u[i] = r[i]) /\ (\A i \in 1..3 : u[1 + i] = t[i])
  BY <1>2, <1>3
<1>5. /\ Len(u) = Len(r) + Len(t)
      /\ (\A i \in 1..Len(r) : u[i] = r[i]) /\ (\A i \in 1..Len(t) : u[Len(r) + i] = t[i])
  BY <1>1, <1>4
<1>6. r \o t = u
  BY <1>1, <1>5, Joined
<1> QED BY <1>6 DEF r, t, u

LEMMA Join14 ==
  ASSUME NEW S, NEW a \in S, NEW b \in S, NEW c \in S, NEW d \in S, NEW e \in S
  PROVE  <<a>> \o <<b, c, d, e>> = <<a, b, c, d, e>>
<1> DEFINE r == <<a>>  t == <<b, c, d, e>>  u == <<a, b, c, d, e>>
<1>1. r \in Seq(S) /\ t \in Seq(S) /\ u \in Seq(S) /\ Len(r) = 1 /\ Len(t) = 4 /\ Len(u) = 5
  OBVIOUS
<1>2. /\ u[1] = r[1]
      /\ u[1 + 1] = t[1] /\ u[1 + 2] = t[2] /\ u[1 + 3] = t[3] /\ u[1 + 4] = t[4]
  OBVIOUS
<1>3. /\ \A i \in 1..1 : i = 1
      /\ \A i \in 1..4 : i = 1 \/ i = 2 \/ i = 3 \/ i = 4
  OBVIOUS
<1> HIDE DEF r, t, u
<1>4. (\A i \in 1..1 : u[i] = r[i]) /\ (\A i \in 1..4 : u[1 + i] = t[i])
  BY <1>2, <1>3
<1>5. /\ Len(u) = Len(r) + Len(t)
      /\ (\A i \in 1..Len(r) : u[i] = r[i]) /\ (\A i \in 1..Len(t) : u[Len(r) + i] = t[i])
  BY <1>1, <1>4
<1>6. r \o t = u
  BY <1>1, <1>5, Joined
<1> QED BY <1>6 DEF r, t, u

LEMMA Join15 ==
  ASSUME NEW S, NEW a \in S, NEW b \in S, NEW c \in S, NEW d \in S, NEW e \in S, NEW f \in S
  PROVE  <<a>> \o <<b, c, d, e, f>> = <<a, b, c, d, e, f>>
<1> DEFINE r == <<a>>  t == <<b, c, d, e, f>>  u == <<a, b, c, d, e, f>>
<1>1. r \in Seq(S) /\ t \in Seq(S) /\ u \in Seq(S) /\ Len(r) = 1 /\ Len(t) = 5 /\ Len(u) = 6
  OBVIOUS
<1>2. /\ u[1] = r[1]
      /\ u[1 + 1] = t[1] /\ u[1 + 2] = t[2] /\ u[1 + 3] = t[3] /\ u[1 + 4] = t[4] /\ u[1 + 5] = t[5]
  OBVIOUS
<1>3. /\ \A i \in 1..1 : i = 1
      /\ \A i \in 1..5 : i = 1 \/ i = 2 \/ i = 3 \/ i = 4 \/ i = 5
  OBVIOUS
<1> HIDE DEF r, t, u
<1>4. (\A i \in 1..1 : u[i] = r[i]) /\ (\A i \in 1..5 : u[1 + i] = t[i])
  BY <1>2, <1>3
<1>5. /\ Len(u) = Len(r) + Len(t)
      /\ (\A i \in 1..Len(r) : u[i] = r[i]) /\ (\A i \in 1..Len(t) : u[Len(r) + i] = t[i])
  BY <1>1, <1>4
<1>6. r \o t = u
  BY <1>1, <1>5, Joined
<1> QED BY <1>6 DEF r, t, u

LEMMA Join31 ==
  ASSUME NEW S, NEW a \in S, NEW b \in S, NEW c \in S, NEW d \in S
  PROVE  <<a, b, c>> \o <<d>> = <<a, b, c, d>>
<1> DEFINE r == <<a, b, c>>  t == <<d>>  u == <<a, b, c, d>>
<1>1. r \in Seq(S) /\ t \in Seq(S) /\ u \in Seq(S) /\ Len(r) = 3 /\ Len(t) = 1 /\ Len(u) = 4
  OBVIOUS
<1>2. /\ u[1] = r[1] /\ u[2] = r[2] /\ u[3] = r[3]
      /\ u[3 + 1] = t[1]
  OBVIOUS
<1>3. /\ \A i \in 1..3 : i = 1 \/ i = 2 \/ i = 3
      /\ \A i \in 1..1 : i = 1
  OBVIOUS
<1> HIDE DEF r, t, u
<1>4. (\A i \in 1..3 : u[i] = r[i]) /\ (\A i \in 1..1 : u[3 + i] = t[i])
  BY <1>2, <1>3
<1>5. /\ Len(u) = Len(r) + Len(t)
      /\ (\A i \in 1..Len(r) : u[i] = r[i]) /\ (\A i \in 1..Len(t) : u[Len(r) + i] = t[i])
  BY <1>1, <1>4
<1>6. r \o t = u
  BY <1>1, <1>5, Joined
<1> QED BY <1>6 DEF r, t, u

LEMMA Join32 ==
  ASSUME NEW S, NEW a \in S, NEW b \in S, NEW c \in S, NEW d \in S, NEW e \in S
  PROVE  <<a, b, c>> \o <<d, e>> = <<a, b, c, d, e>>
<1> DEFINE r == <<a, b, c>>  t == <<d, e>>  u == <<a, b, c, d, e>>
<1>1. r \in Seq(S) /\ t \in Seq(S) /\ u \in Seq(S) /\ Len(r) = 3 /\ Len(t) = 2 /\ Len(u) = 5
  OBVIOUS
<1>2. /\ u[1] = r[1] /\ u[2] = r[2] /\ u[3] = r[3]
      /\ u[3 + 1] = t[1] /\ u[3 + 2] = t[2]
  OBVIOUS
<1>3. /\ \A i \in 1..3 : i = 1 \/ i = 2 \/ i = 3
      /\ \A i \in 1..2 : i = 1 \/ i = 2
  OBVIOUS
<1> HIDE DEF r, t, u
<1>4. (\A i \in 1..3 : u[i] = r[i]) /\ (\A i \in 1..2 : u[3 + i] = t[i])
  BY <1>2, <1>3
<1>5. /\ Len(u) = Len(r) + Len(t)
      /\ (\A i \in 1..Len(r) : u[i] = r[i]) /\ (\A i \in 1..Len(t) : u[Len(r) + i] = t[i])
  BY <1>1, <1>4
<1>6. r \o t = u
  BY <1>1, <1>5, Joined
<1> QED BY <1>6 DEF r, t, u

-----------------------------------------------------------------------------
\* The operations that are offered.

\* What `Plans` has under a proved management key.
LEMMA PlansAre ==
  ASSUME PivAssumption, TypeOK, NEW plan \in Plans
  PROVE  \/ \E c \in Changing : plan = <<c>>
         \/ \E a \in Authenticated, c \in Commanding : plan = a \o <<c>>
         \/ \E a \in Authenticated, p \in Secrets, m \in Tries, n \in Tries :
              plan = a \o << <<"verify", p>>, <<"retries", m, n>> >>
         \/ plan = Reset
<1>1. CASE plan \in {<<c>> : c \in {"changePin", "changePuk", "unblock"} \X Secrets \X Secrets}
  BY <1>1 DEF Changing
<1>2. CASE plan \in UNION {Managed(c) : c \in (Commands \X Slots) \cup ({"setMgm"} \X MgmKeys)}
  <2>1. PICK c \in (Commands \X Slots) \cup ({"setMgm"} \X MgmKeys) : plan \in Managed(c)
    BY <1>2
  <2> QED BY <2>1 DEF Managed, Commanding
<1>3. CASE plan \in Moves
  <2>1. PICK c \in Moving : plan \in Managed(c)
    BY <1>3 DEF Moves, Moving
  <2> QED BY <2>1 DEF Managed, Commanding
<1>4. CASE plan \in UNION {SetRetries(r[1], r[2]) : r \in Offered \X Offered}
  <2>1. PICK r \in Tries \X Tries : plan \in SetRetries(r[1], r[2])
    BY <1>4 DEF Offered
  <2>2. PICK a \in Authenticated, p \in Secrets : plan = a \o << <<"verify", p>>, <<"retries", r[1], r[2]>> >>
    BY <2>1 DEF SetRetries
  <2> QED BY <2>2
<1> QED BY <1>1, <1>2, <1>3, <1>4 DEF Plans

LEMMA ProofsAre ==
  ASSUME PivAssumption, TypeOK, NEW a \in Authenticated
  PROVE  \/ \E k \in MgmKeys : a = << <<"authenticate", k>> >>
         \/ \E p \in Secrets, k \in MgmKeys : a = << <<"verify", p>>, <<"printed">>, <<"authenticate", k>> >>
<1>1. CASE protected
  BY <1>1 DEF Authenticated, TypeOK
<1>2. CASE ~protected
  BY <1>2 DEF Authenticated
<1> QED BY <1>1, <1>2

LEMMA SingleIsLawful ==
  ASSUME NEW c \in Changing, NEW s, s = << <<"select">>, c>>
  PROVE  s \in Seq(Cmds) /\ Lawful(s, authed, verified) /\ Plain(s)
<1>1. c[1] \in {"changePin", "changePuk", "unblock"} /\ c \in Cmds /\ <<"select">> \in Cmds
  BY DEF Changing, Cmds
<1> QED BY <1>1 DEF Lawful, Plain, Blocking, NeedsKey, Commands

LEMMA PlainIsLawful ==
  ASSUME NEW k \in MgmKeys, NEW c \in Commanding, NEW s, s = << <<"select">>, <<"authenticate", k>>, c>>
  PROVE  s \in Seq(Cmds) /\ Lawful(s, authed, verified) /\ Plain(s)
<1>1. c[1] \in Commands \cup {"move", "setMgm"} /\ c \in Cmds /\ <<"select">> \in Cmds /\ <<"authenticate", k>> \in Cmds
  BY DEF Commanding, Moving, Cmds
<1>2. s \in Seq(Cmds) /\ Len(s) = 3 /\ s[1][1] = "select" /\ s[2][1] = "authenticate" /\ s[3] = c
  BY <1>1
<1>3. Given("authenticate", s, 3)
  BY <1>2 DEF Given
<1>4. \A i \in 1..3 : i = 1 \/ i = 2 \/ i = 3
  OBVIOUS
<1> QED BY <1>1, <1>2, <1>3, <1>4 DEF Lawful, Plain, Blocking, NeedsKey, Commands

LEMMA ProtectedIsLawful ==
  ASSUME NEW p \in Secrets, NEW k \in MgmKeys, NEW c \in Commanding, NEW s,
         s = << <<"select">>, <<"verify", p>>, <<"printed">>, <<"authenticate", k>>, c>>
  PROVE  s \in Seq(Cmds) /\ Lawful(s, authed, verified) /\ Plain(s)
<1>1. /\ c[1] \in Commands \cup {"move", "setMgm"} /\ c \in Cmds /\ <<"select">> \in Cmds
      /\ <<"verify", p>> \in Cmds /\ <<"printed">> \in Cmds /\ <<"authenticate", k>> \in Cmds
  BY DEF Commanding, Moving, Cmds
<1>2. /\ s \in Seq(Cmds) /\ Len(s) = 5 /\ s[1][1] = "select" /\ s[2][1] = "verify" /\ s[3][1] = "printed"
      /\ s[4][1] = "authenticate" /\ s[5] = c
  BY <1>1
<1>3. Given("authenticate", s, 5)
  BY <1>2 DEF Given
<1>4. \A i \in 1..5 : i = 1 \/ i = 2 \/ i = 3 \/ i = 4 \/ i = 5
  OBVIOUS
<1> QED BY <1>1, <1>2, <1>3, <1>4 DEF Lawful, Plain, Blocking, NeedsKey, Commands

LEMMA PlainRetriesIsLawful ==
  ASSUME NEW k \in MgmKeys, NEW p \in Secrets, NEW m \in Tries, NEW n \in Tries, NEW s,
         s = << <<"select">>, <<"authenticate", k>>, <<"verify", p>>, <<"retries", m, n>> >>
  PROVE  s \in Seq(Cmds) /\ Lawful(s, authed, verified) /\ Plain(s)
<1>1. /\ <<"select">> \in Cmds /\ <<"authenticate", k>> \in Cmds /\ <<"verify", p>> \in Cmds
      /\ <<"retries", m, n>> \in Cmds
  BY DEF Cmds
<1>2. /\ s \in Seq(Cmds) /\ Len(s) = 4 /\ s[1][1] = "select" /\ s[2][1] = "authenticate" /\ s[3][1] = "verify"
      /\ s[4][1] = "retries"
  BY <1>1
<1>3. Given("authenticate", s, 4) /\ Given("verify", s, 4)
  BY <1>2 DEF Given
<1>4. \A i \in 1..4 : i = 1 \/ i = 2 \/ i = 3 \/ i = 4
  OBVIOUS
<1> QED BY <1>1, <1>2, <1>3, <1>4 DEF Lawful, Plain, Blocking, NeedsKey, Commands

LEMMA ProtectedRetriesIsLawful ==
  ASSUME NEW q \in Secrets, NEW k \in MgmKeys, NEW p \in Secrets, NEW m \in Tries, NEW n \in Tries, NEW s,
         s = << <<"select">>, <<"verify", q>>, <<"printed">>, <<"authenticate", k>>, <<"verify", p>>,
                <<"retries", m, n>> >>
  PROVE  s \in Seq(Cmds) /\ Lawful(s, authed, verified) /\ Plain(s)
<1>1. /\ <<"select">> \in Cmds /\ <<"authenticate", k>> \in Cmds /\ <<"verify", p>> \in Cmds /\ <<"printed">> \in Cmds
      /\ <<"verify", q>> \in Cmds /\ <<"retries", m, n>> \in Cmds
  BY DEF Cmds
<1>2. /\ s \in Seq(Cmds) /\ Len(s) = 6 /\ s[1][1] = "select" /\ s[2][1] = "verify" /\ s[3][1] = "printed"
      /\ s[4][1] = "authenticate" /\ s[5][1] = "verify" /\ s[6][1] = "retries"
  BY <1>1
<1>3. Given("authenticate", s, 6) /\ Given("verify", s, 6)
  BY <1>2 DEF Given
<1>4. \A i \in 1..6 : i = 1 \/ i = 2 \/ i = 3 \/ i = 4 \/ i = 5 \/ i = 6
  OBVIOUS
<1> QED BY <1>1, <1>2, <1>3, <1>4 DEF Lawful, Plain, Blocking, NeedsKey, Commands

LEMMA OpenedReset ==
  << <<"select">> >> \o Reset = << <<"select">>, <<"blockPin", 0>>, <<"blockPuk", 0>>, <<"wipe">> >>
<1>1. <<"select">> \in Cmds /\ <<"blockPin", 0>> \in Cmds /\ <<"blockPuk", 0>> \in Cmds /\ <<"wipe">> \in Cmds
  BY DEF Cmds
<1> QED BY <1>1, Join13 DEF Reset

LEMMA ResetIsLawful ==
  /\ << <<"select">>, <<"blockPin", 0>>, <<"blockPuk", 0>>, <<"wipe">> >> \in Seq(Cmds)
  /\ Lawful(<< <<"select">>, <<"blockPin", 0>>, <<"blockPuk", 0>>, <<"wipe">> >>, authed, verified)
<1> DEFINE s == << <<"select">>, <<"blockPin", 0>>, <<"blockPuk", 0>>, <<"wipe">> >>
<1>1. <<"select">> \in Cmds /\ <<"blockPin", 0>> \in Cmds /\ <<"blockPuk", 0>> \in Cmds /\ <<"wipe">> \in Cmds
  BY DEF Cmds
<1>2. /\ s \in Seq(Cmds) /\ Len(s) = 4 /\ s[1][1] = "select" /\ s[2][1] = "blockPin" /\ s[3][1] = "blockPuk"
      /\ s[4][1] = "wipe"
  BY <1>1
<1>3. \A i \in 1..4 : i = 1 \/ i = 2 \/ i = 3 \/ i = 4
  OBVIOUS
<1> HIDE DEF s
<1>4. Lawful(s, authed, verified)
  BY <1>2, <1>3 DEF Lawful, NeedsKey, Commands
<1> QED BY <1>2, <1>4 DEF s

\* Every operation that is offered is lawful from SELECT on.
LEMMA PlansAreLawful ==
  ASSUME PivAssumption, TypeOK, NEW plan \in Plans
  PROVE  /\ << <<"select">> >> \o plan \in Seq(Cmds) /\ Lawful(<< <<"select">> >> \o plan, authed, verified)
         /\ plan # Reset => Plain(<< <<"select">> >> \o plan)
<1> DEFINE s == << <<"select">> >> \o plan
<1>1. ASSUME NEW c \in Changing, plan = <<c>>
      PROVE  s \in Seq(Cmds) /\ Lawful(s, authed, verified) /\ Plain(s)
  <2>1. <<"select">> \in Cmds /\ c \in Cmds
    BY DEF Cmds
  <2>2. s = << <<"select">>, c>>
    BY <1>1, <2>1, Join11
  <2> HIDE DEF s
  <2> QED BY <2>2, SingleIsLawful
<1>2. ASSUME NEW a \in Authenticated, NEW c \in Commanding, plan = a \o <<c>>
      PROVE  s \in Seq(Cmds) /\ Lawful(s, authed, verified) /\ Plain(s)
  <2>1. ASSUME NEW k \in MgmKeys, a = << <<"authenticate", k>> >>
        PROVE  s \in Seq(Cmds) /\ Lawful(s, authed, verified) /\ Plain(s)
    <3>1. <<"select">> \in Cmds /\ <<"authenticate", k>> \in Cmds /\ c \in Cmds
      BY DEF Cmds
    <3>2. plan = << <<"authenticate", k>>, c>>
      BY <1>2, <2>1, <3>1, Join11
    <3>3. s = << <<"select">>, <<"authenticate", k>>, c>>
      BY <3>1, <3>2, Join12
    <3> HIDE DEF s
    <3> QED BY <3>3, PlainIsLawful
  <2>2. ASSUME NEW p \in Secrets, NEW k \in MgmKeys, a = << <<"verify", p>>, <<"printed">>, <<"authenticate", k>> >>
        PROVE  s \in Seq(Cmds) /\ Lawful(s, authed, verified) /\ Plain(s)
    <3>1. /\ <<"select">> \in Cmds /\ <<"verify", p>> \in Cmds /\ <<"printed">> \in Cmds
          /\ <<"authenticate", k>> \in Cmds /\ c \in Cmds
      BY DEF Cmds
    <3>2. plan = << <<"verify", p>>, <<"printed">>, <<"authenticate", k>>, c>>
      <4>1. << <<"verify", p>>, <<"printed">>, <<"authenticate", k>> >> \o <<c>>
              = << <<"verify", p>>, <<"printed">>, <<"authenticate", k>>, c>>
        BY <3>1, Join31
      <4> QED BY <1>2, <2>2, <4>1
    <3>3. s = << <<"select">>, <<"verify", p>>, <<"printed">>, <<"authenticate", k>>, c>>
      BY <3>1, <3>2, Join14
    <3> HIDE DEF s
    <3> QED BY <3>3, ProtectedIsLawful
  <2> HIDE DEF s
  <2> QED BY <2>1, <2>2, ProofsAre
<1>3. ASSUME NEW a \in Authenticated, NEW p \in Secrets, NEW m \in Tries, NEW n \in Tries,
             plan = a \o << <<"verify", p>>, <<"retries", m, n>> >>
      PROVE  s \in Seq(Cmds) /\ Lawful(s, authed, verified) /\ Plain(s)
  <2>1. ASSUME NEW k \in MgmKeys, a = << <<"authenticate", k>> >>
        PROVE  s \in Seq(Cmds) /\ Lawful(s, authed, verified) /\ Plain(s)
    <3>1. /\ <<"select">> \in Cmds /\ <<"authenticate", k>> \in Cmds /\ <<"verify", p>> \in Cmds
          /\ <<"retries", m, n>> \in Cmds
      BY DEF Cmds
    <3>2. plan = << <<"authenticate", k>>, <<"verify", p>>, <<"retries", m, n>> >>
      BY <1>3, <2>1, <3>1, Join12
    <3>3. s = << <<"select">>, <<"authenticate", k>>, <<"verify", p>>, <<"retries", m, n>> >>
      BY <3>1, <3>2, Join13
    <3> HIDE DEF s
    <3> QED BY <3>3, PlainRetriesIsLawful
  <2>2. ASSUME NEW q \in Secrets, NEW k \in MgmKeys, a = << <<"verify", q>>, <<"printed">>, <<"authenticate", k>> >>
        PROVE  s \in Seq(Cmds) /\ Lawful(s, authed, verified) /\ Plain(s)
    <3>1. /\ <<"select">> \in Cmds /\ <<"verify", q>> \in Cmds /\ <<"printed">> \in Cmds
          /\ <<"authenticate", k>> \in Cmds /\ <<"verify", p>> \in Cmds /\ <<"retries", m, n>> \in Cmds
      BY DEF Cmds
    <3>2. plan = << <<"verify", q>>, <<"printed">>, <<"authenticate", k>>, <<"verify", p>>, <<"retries", m, n>> >>
      <4>1. << <<"verify", q>>, <<"printed">>, <<"authenticate", k>> >> \o << <<"verify", p>>, <<"retries", m, n>> >>
              = << <<"verify", q>>, <<"printed">>, <<"authenticate", k>>, <<"verify", p>>, <<"retries", m, n>> >>
        <5> DEFINE b == <<"verify", q>>  c == <<"printed">>  d == <<"authenticate", k>>
                   e == <<"verify", p>>  f == <<"retries", m, n>>
        <5>1. b \in Cmds /\ c \in Cmds /\ d \in Cmds /\ e \in Cmds /\ f \in Cmds
          BY <3>1
        <5> HIDE DEF b, c, d, e, f
        <5>2. <<b, c, d>> \o <<e, f>> = <<b, c, d, e, f>>
          BY <5>1, Join32
        <5> QED BY <5>2 DEF b, c, d, e, f
      <4> QED BY <1>3, <2>2, <4>1
    <3>3. s = << <<"select">>, <<"verify", q>>, <<"printed">>, <<"authenticate", k>>, <<"verify", p>>,
                 <<"retries", m, n>> >>
      BY <3>1, <3>2, Join15
    <3> HIDE DEF s
    <3> QED BY <3>3, ProtectedRetriesIsLawful
  <2> HIDE DEF s
  <2> QED BY <2>1, <2>2, ProofsAre
<1>4. ASSUME plan = Reset
      PROVE  s \in Seq(Cmds) /\ Lawful(s, authed, verified)
  <2>1. s = << <<"select">>, <<"blockPin", 0>>, <<"blockPuk", 0>>, <<"wipe">> >>
    BY <1>4, OpenedReset
  <2> HIDE DEF s
  <2>2. s \in Seq(Cmds) /\ Lawful(s, authed, verified)
    BY <2>1, ResetIsLawful
  <2> QED BY <2>2
<1> HIDE DEF s
<1>5. s \in Seq(Cmds) /\ Lawful(s, authed, verified) /\ (plan # Reset => Plain(s))
  BY <1>1, <1>2, <1>3, <1>4, PlansAre
<1> QED BY <1>5 DEF s

-----------------------------------------------------------------------------
\* One command at a time.

LEMMA Values ==
  ASSUME PivAssumption, TypeOK
  PROVE  /\ pin \in References /\ puk \in References
         /\ pin.value \in Secrets /\ pin.max \in Tries /\ pin.left \in Nat /\ pin.left <= Most
         /\ puk.value \in Secrets /\ puk.max \in Tries /\ puk.left \in Nat /\ puk.left <= Most
         /\ Charged(pin) \in References /\ Charged(pin).left <= Charged(pin).max
         /\ Charged(puk) \in References /\ Charged(puk).left <= Charged(puk).max
         /\ Restored(pin) \in References /\ Restored(pin).left <= Restored(pin).max
         /\ Restored(puk) \in References /\ Restored(puk).left <= Restored(puk).max
<1>1. pin \in References /\ puk \in References /\ pin.left <= pin.max /\ puk.left <= puk.max
  BY DEF TypeOK
<1> QED BY <1>1, RefIs

LEMMA FactoryIs ==
  ASSUME PivAssumption
  PROVE  /\ FactoryPin \in Secrets /\ FactoryPuk \in Secrets /\ FactoryTries \in Tries /\ FactoryMgm \in MgmKeys
         /\ FactoryPin # Zeros /\ FactoryPuk # Zeros /\ MaxOps \in Nat
BY DEF PivAssumption

LEMMA HeadIs ==
  ASSUME op \in Seq(Cmds), op # <<>>
  PROVE  /\ Head(op) \in Cmds
         /\ Head(op)[1] \in {"changePin", "changePuk", "unblock"} => Arg(1) \in Secrets /\ Arg(2) \in Secrets
         /\ Head(op)[1] \in Commands => Arg(1) \in Slots
         /\ Head(op)[1] = "move" => Arg(1) \in Slots /\ Arg(2) \in Slots /\ Arg(1) # Arg(2)
         /\ Head(op)[1] = "setMgm" => Arg(1) \in MgmKeys
         /\ Head(op)[1] = "retries" => Arg(1) \in Tries /\ Arg(2) \in Tries
         /\ Head(op)[1] \in {"blockPin", "blockPuk"} => Head(op) \in {"blockPin", "blockPuk"} \X Nat
<1>1. Head(op) \in Cmds
  BY TailIs
<1>2. Arg(1) = Head(op)[2] /\ Arg(2) = Head(op)[3]
  BY DEF Arg
<1> QED BY <1>1, <1>2, CmdIs

\* A gated command at the head has what it needs.
LEMMA HeadIsLawful ==
  ASSUME op \in Seq(Cmds), op # <<>>, Lawful(op, authed, verified)
  PROVE  /\ Head(op)[1] \in NeedsKey => authed
         /\ Head(op)[1] = "retries" => verified
<1>1. 1 \in 1..Len(op) /\ Head(op) = op[1]
  BY TailIs
<1>2. \A name : ~Given(name, op, 1)
  BY DEF Given
<1> QED BY <1>1, <1>2 DEF Lawful

LEMMA Ended ==
  ASSUME TypeOK', op' = <<>>, burnt' <= 1
  PROVE  Inv'
<1>1. <<>> \in Seq(Cmds) /\ Len(<<>>) = 0
  OBVIOUS
<1>2. Lawful(<<>>, authed', verified')
  BY <1>1 DEF Lawful
<1>3. Lawful(op, authed, verified)'
  BY <1>2 DEF Lawful, Given
<1> QED BY <1>1, <1>3 DEF Inv

LEMMA GoesOn ==
  ASSUME Inv, TypeOK', op # <<>>, op' = Tail(op), burnt' = burnt,
         authed /\ Head(op)[1] # "select" => authed',
         verified /\ Head(op)[1] # "select" => verified',
         Head(op)[1] = "authenticate" => authed',
         Head(op)[1] = "verify" => verified'
  PROVE  Inv'
<1>1. op \in Seq(Cmds) /\ Lawful(op, authed, verified) /\ burnt = 0
  BY DEF Inv
<1>2. authed' \in BOOLEAN /\ verified' \in BOOLEAN
  BY DEF TypeOK
<1>3. Tail(op) \in Seq(Cmds) /\ Lawful(Tail(op), authed', verified')
  BY <1>1, <1>2, TailIs, TailIsLawful
<1>4. Lawful(op, authed, verified)'
  BY <1>3 DEF Lawful, Given
<1> QED BY <1>1, <1>3, <1>4 DEF Inv

\* A command that costs a try is the last of its operation.
LEMMA Charging ==
  ASSUME Inv, op # <<>>, NEW ref \in References, Charge(ref)
  PROVE  burnt' \in 0..1
BY DEF Inv, Charge

LEMMA BeginKeeps ==
  ASSUME PivAssumption, Inv, Begin
  PROVE  Inv'
<1>1. PICK plan \in Plans : op' = << <<"select">> >> \o plan
  BY DEF Begin
<1>2. op' \in Seq(Cmds) /\ Lawful(op', authed, verified)
  BY <1>1, PlansAreLawful DEF Inv
<1>3. authed' = authed /\ verified' = verified /\ burnt' = 0
  BY DEF Begin, session
<1>4. TypeOK'
  BY DEF Inv, Begin, TypeOK, card, session, PivAssumption
<1>5. Lawful(op, authed, verified)'
  BY <1>2, <1>3 DEF Lawful, Given
<1> QED BY <1>2, <1>3, <1>4, <1>5 DEF Inv

LEMMA SelectKeeps ==
  ASSUME PivAssumption, Inv, Select
  PROVE  Inv'
<1>1. op # <<>> /\ Head(op)[1] = "select" /\ op' = Tail(op) /\ burnt' = burnt
  BY DEF Select, Step, Advance
<1>2. TypeOK'
  BY DEF Inv, Select, Step, TypeOK, card
<1> QED BY <1>1, <1>2, GoesOn

LEMMA VerifyKeeps ==
  ASSUME PivAssumption, Inv, Verify
  PROVE  Inv'
<1>1. op # <<>> /\ Head(op)[1] = "verify" /\ TypeOK /\ ops' = ops /\ authed' = authed
      /\ UNCHANGED <<puk, mgm, protected, printed, slots>>
  BY DEF Inv, Verify, Step
<1>2. CASE Accepts(pin, Arg(1))
  <2>1. pin' = Restored(pin) /\ verified' = TRUE /\ op' = Tail(op) /\ burnt' = burnt
    BY <1>2 DEF Verify, Advance
  <2>2. TypeOK'
    BY <1>1, <2>1, Values DEF TypeOK
  <2> QED BY <1>1, <2>1, <2>2, GoesOn
<1>3. CASE ~Accepts(pin, Arg(1))
  <2>1. pin' = Charged(pin) /\ Charge(pin) /\ op' = <<>> /\ verified' = verified
    BY <1>3 DEF Verify, Abort
  <2>2. burnt' \in 0..1
    BY <1>1, <2>1, Values, Charging
  <2>3. TypeOK'
    BY <1>1, <2>1, <2>2, Values DEF TypeOK
  <2> QED BY <2>1, <2>2, <2>3, Ended
<1> QED BY <1>2, <1>3

LEMMA ReadPrintedKeeps ==
  ASSUME PivAssumption, Inv, ReadPrinted
  PROVE  Inv'
<1>1. /\ op # <<>> /\ Head(op)[1] = "printed" /\ burnt' = burnt /\ authed' = authed /\ verified' = verified
      /\ (op' = Tail(op) \/ op' = <<>>)
  BY DEF ReadPrinted, Step, Advance, Abort, session
<1>2. TypeOK' /\ burnt <= 1
  BY DEF Inv, ReadPrinted, Step, TypeOK, card, session
<1> QED BY <1>1, <1>2, GoesOn, Ended

LEMMA AuthenticateKeeps ==
  ASSUME PivAssumption, Inv, Authenticate
  PROVE  Inv'
<1>1. /\ op # <<>> /\ Head(op)[1] = "authenticate" /\ burnt' = burnt /\ verified' = verified
      /\ \/ op' = Tail(op) /\ authed' = TRUE
         \/ op' = <<>> /\ authed' = authed
  BY DEF Authenticate, Step, Advance, Abort
<1>2. TypeOK' /\ burnt <= 1
  BY <1>1 DEF Inv, Authenticate, Step, TypeOK, card
<1> QED BY <1>1, <1>2, GoesOn, Ended

LEMMA ChangePinKeeps ==
  ASSUME PivAssumption, Inv, ChangePin
  PROVE  Inv'
<1>1. /\ op # <<>> /\ Head(op)[1] = "changePin" /\ op' = <<>> /\ TypeOK /\ ops' = ops /\ burnt \in 0..1
      /\ UNCHANGED <<puk, mgm, protected, printed, slots, authed, verified>>
  BY DEF Inv, ChangePin, Step, Abort, session, TypeOK
<1>2. \/ pin' = Reference(Arg(2), pin.max) /\ burnt' = burnt
      \/ pin' = Charged(pin) /\ Charge(pin)
  BY DEF ChangePin
<1>3. Arg(2) \in Secrets
  BY <1>1, HeadIs DEF Inv
<1>4. burnt' \in 0..1
  BY <1>1, <1>2, Values, Charging
<1>5. pin' \in References /\ pin'.left <= pin'.max
  BY <1>1, <1>2, <1>3, Values, RefIs
<1>6. TypeOK'
  BY <1>1, <1>4, <1>5 DEF TypeOK
<1> QED BY <1>1, <1>4, <1>6, Ended

LEMMA ChangePukKeeps ==
  ASSUME PivAssumption, Inv, ChangePuk
  PROVE  Inv'
<1>1. /\ op # <<>> /\ Head(op)[1] = "changePuk" /\ op' = <<>> /\ TypeOK /\ ops' = ops /\ burnt \in 0..1
      /\ UNCHANGED <<pin, mgm, protected, printed, slots, authed, verified>>
  BY DEF Inv, ChangePuk, Step, Abort, session, TypeOK
<1>2. \/ puk' = Reference(Arg(2), puk.max) /\ burnt' = burnt
      \/ puk' = Charged(puk) /\ Charge(puk)
  BY DEF ChangePuk
<1>3. Arg(2) \in Secrets
  BY <1>1, HeadIs DEF Inv
<1>4. burnt' \in 0..1
  BY <1>1, <1>2, Values, Charging
<1>5. puk' \in References /\ puk'.left <= puk'.max
  BY <1>1, <1>2, <1>3, Values, RefIs
<1>6. TypeOK'
  BY <1>1, <1>4, <1>5 DEF TypeOK
<1> QED BY <1>1, <1>4, <1>6, Ended

LEMMA UnblockKeeps ==
  ASSUME PivAssumption, Inv, Unblock
  PROVE  Inv'
<1>1. /\ op # <<>> /\ Head(op)[1] = "unblock" /\ op' = <<>> /\ TypeOK /\ ops' = ops /\ burnt \in 0..1
      /\ UNCHANGED <<mgm, protected, printed, slots, authed, verified>>
  BY DEF Inv, Unblock, Step, Abort, session, TypeOK
<1>2. \/ pin' = Reference(Arg(2), pin.max) /\ puk' = Restored(puk) /\ burnt' = burnt
      \/ puk' = Charged(puk) /\ Charge(puk) /\ pin' = pin
  BY DEF Unblock
<1>3. Arg(2) \in Secrets
  BY <1>1, HeadIs DEF Inv
<1>4. burnt' \in 0..1
  BY <1>1, <1>2, Values, Charging
<1>5. pin' \in References /\ pin'.left <= pin'.max /\ puk' \in References /\ puk'.left <= puk'.max
  <2>1. pin.left <= pin.max
    BY <1>1 DEF TypeOK
  <2> QED BY <1>1, <1>2, <1>3, <2>1, Values, RefIs
<1>6. TypeOK'
  BY <1>1, <1>4, <1>5 DEF TypeOK
<1> QED BY <1>1, <1>4, <1>6, Ended

LEMMA HeldIs ==
  ASSUME TypeOK, NEW t \in Slots, NEW command
  PROVE  command \in Commands => Held(command, t) \in Contents
<1>1. slots[t] \in Contents /\ Contents = SUBSET {"key", "cert"}
  BY DEF TypeOK, Contents
<1> QED BY <1>1 DEF Held, Commands

LEMMA CommandKeeps ==
  ASSUME PivAssumption, Inv, Command
  PROVE  Inv'
<1>1. /\ op # <<>> /\ Head(op)[1] \in Commands \cup {"move"} /\ op' = Tail(op) /\ TypeOK /\ op \in Seq(Cmds)
      /\ UNCHANGED <<pin, puk, mgm, protected, printed, authed, verified, burnt, ops>>
  BY DEF Inv, Command, Advance, session
<1>2. slots' \in [Slots -> Contents]
  <2>1. CASE ~authed
    BY <1>1, <2>1 DEF Command, TypeOK
  <2>2. CASE authed /\ Head(op)[1] = "move"
    <3>1. Arg(1) \in Slots /\ Arg(2) \in Slots /\ slots \in [Slots -> Contents] /\ {} \in Contents
      BY <1>1, <2>2, HeadIs DEF TypeOK, Contents
    <3>2. slots' = Moved(Arg(1), Arg(2))
      BY <2>2 DEF Command
    <3> QED BY <3>1, <3>2 DEF Moved
  <2>3. CASE authed /\ Head(op)[1] # "move"
    <3>1. Arg(1) \in Slots /\ slots \in [Slots -> Contents] /\ Held(Head(op)[1], Arg(1)) \in Contents
      BY <1>1, <2>3, HeadIs, HeldIs DEF TypeOK
    <3>2. slots' = [slots EXCEPT ![Arg(1)] = Held(Head(op)[1], Arg(1))]
      BY <2>3 DEF Command
    <3> QED BY <3>1, <3>2
  <2> QED BY <2>1, <2>2, <2>3 DEF Inv, TypeOK
<1>3. TypeOK'
  BY <1>1, <1>2 DEF TypeOK
<1> QED BY <1>1, <1>3, GoesOn DEF Commands

LEMMA SetMgmKeeps ==
  ASSUME PivAssumption, Inv, SetMgm
  PROVE  Inv'
<1>1. /\ op # <<>> /\ Head(op)[1] = "setMgm" /\ op' = Tail(op) /\ TypeOK /\ op \in Seq(Cmds)
      /\ UNCHANGED <<pin, puk, protected, printed, slots, authed, verified, burnt, ops>>
  BY DEF Inv, SetMgm, Step, Advance, session
<1>2. Arg(1) \in MgmKeys
  BY <1>1, HeadIs
<1>3. TypeOK'
  BY <1>1, <1>2 DEF SetMgm, TypeOK
<1> QED BY <1>1, <1>3, GoesOn

LEMMA RetriesKeeps ==
  ASSUME PivAssumption, Inv, Retries
  PROVE  Inv'
<1>1. /\ op # <<>> /\ Head(op)[1] = "retries" /\ op' = Tail(op) /\ TypeOK /\ op \in Seq(Cmds)
      /\ UNCHANGED <<mgm, protected, printed, slots, authed, verified, burnt, ops>>
  BY DEF Inv, Retries, Step, Advance, session
<1>2. /\ Reference(FactoryPin, Arg(1)) \in References /\ Reference(FactoryPuk, Arg(2)) \in References
      /\ Reference(FactoryPin, Arg(1)).left <= Reference(FactoryPin, Arg(1)).max
      /\ Reference(FactoryPuk, Arg(2)).left <= Reference(FactoryPuk, Arg(2)).max
  BY <1>1, HeadIs, FactoryIs, RefIs
<1>3. pin' \in References /\ puk' \in References /\ pin'.left <= pin'.max /\ puk'.left <= puk'.max
  <2>1. CASE authed /\ verified
    BY <1>2, <2>1 DEF Retries
  <2>2. CASE ~(authed /\ verified)
    BY <1>1, <2>2 DEF Retries, TypeOK
  <2> QED BY <2>1, <2>2
<1>4. TypeOK'
  BY <1>1, <1>3 DEF TypeOK
<1> QED BY <1>1, <1>4, GoesOn

\* Lawful is about the names of the commands, and asks no less of a session
\* that has proved more.
LEMMA SameNames ==
  ASSUME NEW s, NEW t, NEW v \in BOOLEAN, Lawful(s, authed, verified), verified => v,
         Len(t) = Len(s), \A i \in 1..Len(s) : t[i][1] = s[i][1], Len(s) \in Nat \ {0}
  PROVE  Lawful(t, authed, v)
<1> SUFFICES ASSUME NEW i \in 1..Len(t)
             PROVE  /\ t[i][1] = "select" => i = 1
                    /\ t[i][1] \in NeedsKey => Given("authenticate", t, i) \/ (authed /\ t[1][1] # "select")
                    /\ t[i][1] = "retries" => Given("verify", t, i) \/ (v /\ t[1][1] # "select")
  BY DEF Lawful
<1>1. t[i][1] = s[i][1] /\ t[1][1] = s[1][1] /\ i \in 1..Len(s)
  OBVIOUS
<1>2. \A name : Given(name, s, i) => Given(name, t, i)
  BY DEF Given
<1> QED BY <1>1, <1>2 DEF Lawful

\* The guess is repeated, with one round less to go.
Again == <<[Head(op) EXCEPT ![2] = @ + 1]>> \o Tail(op)

LEMMA AgainIs ==
  ASSUME op \in Seq(Cmds), op # <<>>, Head(op)[1] \in {"blockPin", "blockPuk"}
  PROVE  /\ Again \in Seq(Cmds) /\ Len(Again) = Len(op) /\ Len(op) \in Nat \ {0}
         /\ Again[1] = <<Head(op)[1], Head(op)[2] + 1>>
         /\ \A i \in 2..Len(op) : Again[i] = op[i]
         /\ \A i \in 1..Len(op) : Again[i][1] = op[i][1]
<1> DEFINE c == [Head(op) EXCEPT ![2] = @ + 1]
<1>1. Head(op) \in {"blockPin", "blockPuk"} \X Nat
  BY HeadIs
<1>2. c = <<Head(op)[1], Head(op)[2] + 1>> /\ c \in {"blockPin", "blockPuk"} \X Nat
  BY <1>1
<1>3. c \in Cmds
  BY <1>2 DEF Cmds
<1>4. <<c>> \in Seq(Cmds) /\ Len(<<c>>) = 1 /\ <<c>>[1] = c
  BY <1>3
<1>5. Tail(op) \in Seq(Cmds) /\ Len(Tail(op)) = Len(op) - 1 /\ Len(op) \in Nat \ {0} /\ Head(op) = op[1]
      /\ \A i \in 1..Len(Tail(op)) : Tail(op)[i] = op[i + 1]
  BY TailIs
<1> HIDE DEF c
<1>6. /\ <<c>> \o Tail(op) \in Seq(Cmds) /\ Len(<<c>> \o Tail(op)) = Len(op)
      /\ \A i \in 1..Len(op) : (<<c>> \o Tail(op))[i] = IF i <= 1 THEN <<c>>[i] ELSE Tail(op)[i - 1]
  BY <1>4, <1>5, ConcatProperties
<1>7. (<<c>> \o Tail(op))[1] = c
  BY <1>4, <1>5, <1>6
<1>8. ASSUME NEW i \in 2..Len(op)
      PROVE  (<<c>> \o Tail(op))[i] = op[i]
  <2>1. i - 1 \in 1..Len(Tail(op)) /\ (i - 1) + 1 = i /\ i \in 1..Len(op) /\ ~(i <= 1)
    BY <1>5
  <2> QED BY <2>1, <1>5, <1>6
<1>9. Again = <<c>> \o Tail(op)
  BY DEF Again, c
<1>10. c[1] = op[1][1]
  BY <1>2, <1>5
<1>11. \A i \in 1..Len(op) : (<<c>> \o Tail(op))[i][1] = op[i][1]
  <2> SUFFICES ASSUME NEW i \in 1..Len(op)
               PROVE  (<<c>> \o Tail(op))[i][1] = op[i][1]
    OBVIOUS
  <2>1. CASE i = 1
    BY <2>1, <1>7, <1>10
  <2>2. CASE i # 1
    <3>1. i \in 2..Len(op)
      BY <2>2, <1>5
    <3> QED BY <3>1, <1>8
  <2> QED BY <2>1, <2>2
<1> QED BY <1>2, <1>5, <1>6, <1>7, <1>8, <1>9, <1>11

LEMMA Repeats ==
  ASSUME Inv, TypeOK', op # <<>>, Head(op)[1] \in {"blockPin", "blockPuk"}, op' = Again, burnt' = burnt,
         authed' = authed, verified => verified'
  PROVE  Inv'
<1>1. op \in Seq(Cmds) /\ Lawful(op, authed, verified) /\ burnt = 0 /\ verified' \in BOOLEAN
  BY DEF Inv, TypeOK
<1>2. Again \in Seq(Cmds) /\ Lawful(Again, authed, verified')
  BY <1>1, AgainIs, SameNames
<1>3. Lawful(op, authed, verified)'
  BY <1>2 DEF Lawful, Given
<1> QED BY <1>1, <1>2, <1>3 DEF Inv

LEMMA GuessedIs ==
  ASSUME NEW ref, Guessed(ref)
  PROVE  op' = Tail(op) \/ op' = Again
BY DEF Guessed, Advance, Again

LEMMA BlockPinKeeps ==
  ASSUME PivAssumption, Inv, BlockPin
  PROVE  Inv'
<1>1. /\ op # <<>> /\ Head(op)[1] = "blockPin" /\ TypeOK /\ (op' = Tail(op) \/ op' = Again)
      /\ UNCHANGED <<puk, mgm, protected, printed, slots, authed, burnt, ops>>
  BY GuessedIs DEF Inv, BlockPin, Step
<1>2. pin' \in References /\ pin'.left <= pin'.max
  BY <1>1, Values DEF BlockPin
<1>3. verified' \in BOOLEAN /\ (verified => verified')
  BY DEF BlockPin
<1>4. TypeOK'
  BY <1>1, <1>2, <1>3 DEF TypeOK
<1> QED BY <1>1, <1>3, <1>4, GoesOn, Repeats

LEMMA BlockPukKeeps ==
  ASSUME PivAssumption, Inv, BlockPuk
  PROVE  Inv'
<1>1. /\ op # <<>> /\ Head(op)[1] = "blockPuk" /\ TypeOK /\ (op' = Tail(op) \/ op' = Again)
      /\ UNCHANGED <<mgm, protected, printed, slots, authed, verified, burnt, ops>>
  BY GuessedIs DEF Inv, BlockPuk, Step, session
<1>2. /\ pin' \in References /\ pin'.left <= pin'.max
      /\ puk' \in References /\ puk'.left <= puk'.max
  <2>1. CASE Accepts(puk, Zeros)
    <3>1. Zeros \in Secrets
      BY <1>1, <2>1, Values DEF Accepts
    <3> QED BY <1>1, <2>1, <3>1, Values, RefIs DEF BlockPuk
  <2>2. CASE ~Accepts(puk, Zeros)
    <3>1. pin.left <= pin.max
      BY <1>1 DEF TypeOK
    <3> QED BY <1>1, <2>2, <3>1, Values DEF BlockPuk
  <2> QED BY <2>1, <2>2
<1>3. TypeOK'
  BY <1>1, <1>2 DEF TypeOK
<1> QED BY <1>1, <1>3, GoesOn, Repeats

LEMMA WipeKeeps ==
  ASSUME PivAssumption, Inv, Wipe
  PROVE  Inv'
<1>1. /\ op # <<>> /\ Head(op)[1] = "wipe" /\ TypeOK /\ op' = Tail(op)
      /\ UNCHANGED <<authed, verified, burnt, ops>>
  BY DEF Inv, Wipe, Step, Advance, session
<1>2. CASE Blocked
  <2>1. /\ pin' = Reference(FactoryPin, FactoryTries) /\ puk' = Reference(FactoryPuk, FactoryTries)
        /\ mgm' = FactoryMgm /\ printed' = FactoryMgm /\ protected' = FALSE
        /\ slots' = [t \in Slots |-> {}]
    BY <1>2 DEF Wipe
  <2>2. pin' \in References /\ pin'.left <= pin'.max /\ puk' \in References /\ puk'.left <= puk'.max
    BY <2>1, FactoryIs, RefIs
  <2>3. slots' \in [Slots -> Contents]
    BY <2>1 DEF Contents
  <2>4. TypeOK'
    BY <1>1, <2>1, <2>2, <2>3, FactoryIs DEF TypeOK
  <2> QED BY <1>1, <2>4, GoesOn
<1>3. CASE ~Blocked
  <2>1. UNCHANGED card
    BY <1>3 DEF Wipe
  <2>2. TypeOK'
    BY <1>1, <2>1 DEF TypeOK, card
  <2> QED BY <1>1, <2>2, GoesOn
<1> QED BY <1>2, <1>3

LEMMA CutKeeps ==
  ASSUME PivAssumption, Inv, Cut
  PROVE  Inv'
<1>1. op' = <<>> /\ UNCHANGED <<card, session, burnt, ops>> /\ TypeOK /\ burnt <= 1
  BY DEF Inv, Cut, Abort
<1>2. TypeOK'
  BY <1>1 DEF TypeOK, card, session
<1> QED BY <1>1, <1>2, Ended

LEMMA StepInv ==
  ASSUME PivAssumption, Inv, [Next]_vars
  PROVE  Inv'
<1>1. CASE UNCHANGED vars
  BY <1>1 DEF Inv, TypeOK, Lawful, Given, vars, card, session
<1>2. CASE Next
  BY <1>2, BeginKeeps, SelectKeeps, VerifyKeeps, ReadPrintedKeeps, AuthenticateKeeps, ChangePinKeeps, ChangePukKeeps,
     UnblockKeeps, CommandKeeps, SetMgmKeeps, RetriesKeeps, BlockPinKeeps, BlockPukKeeps, WipeKeeps, CutKeeps
     DEF Next, Run
<1> QED BY <1>1, <1>2

LEMMA InitInv ==
  ASSUME PivAssumption, Init
  PROVE  Inv
<1>1. op = <<>> /\ burnt = 0
  BY DEF Init
<1>2. pin \in References /\ puk \in References /\ pin.left <= pin.max /\ puk.left <= puk.max
  BY FactoryIs, RefIs DEF Init
<1>3. slots \in [Slots -> Contents]
  BY DEF Init, Contents
<1>4. TypeOK
  <2>1. mgm \in MgmKeys /\ protected \in BOOLEAN /\ printed \in MgmKeys /\ authed \in BOOLEAN /\ verified \in BOOLEAN
    BY DEF Init
  <2>2. ops \in 0..MaxOps
    BY FactoryIs DEF Init
  <2> QED BY <1>1, <1>2, <1>3, <2>1, <2>2 DEF TypeOK
<1>5. <<>> \in Seq(Cmds) /\ Len(<<>>) = 0
  OBVIOUS
<1> QED BY <1>1, <1>4, <1>5 DEF Inv, Lawful

LEMMA Invariance == ASSUME PivAssumption PROVE Spec => []Inv
BY InitInv, StepInv, PTL DEF Spec

-----------------------------------------------------------------------------
\* PINs, PUKs and retry limits stay in their bounds, and slots hold keys and
\* certificates, whatever is typed and wherever the card is pulled.
THEOREM PivTypes == ASSUME PivAssumption PROVE Spec => []TypeOK
<1>1. Inv => TypeOK
  BY DEF Inv
<1> QED BY <1>1, Invariance, PTL

\* Whatever was typed, and wherever the card is pulled, an operation of io.rs
\* costs the PIN and the PUK together at most one try.
THEOREM OneTryIsLost == ASSUME PivAssumption PROVE Spec => []OneTryPerOp
<1>1. Inv => OneTryPerOp
  BY DEF Inv, OneTryPerOp
<1> QED BY <1>1, Invariance, PTL

\* No command that the management key gates is given in a session that has not
\* proved it, nor the retry limits in one that has not proved the PIN.
THEOREM CommandsAreAuthorised == ASSUME PivAssumption PROVE Spec => []CommandIsAuthorised
<1>1. Inv => CommandIsAuthorised
  BY HeadIsLawful DEF Inv, CommandIsAuthorised, NeedsKey
<1> QED BY <1>1, Invariance, PTL

\* Every step that takes a key out of a slot deletes it, moves it to another
\* slot, replaces it by one that is moved, or resets the applet.
THEOREM KeysAreKept == ASSUME PivAssumption PROVE Spec => [][KeysGoAsAsked]_vars
<1>1. ASSUME Inv, Next
      PROVE  KeysGoAsAsked
  <2> SUFFICES ASSUME NEW t \in Slots, "key" \in slots[t], "key" \notin slots'[t]
               PROVE  \/ Head(op)[1] \in {"deleteKey", "wipe"}
                      \/ Head(op)[1] = "move" /\ "key" \in slots'[Arg(2)] /\ Arg(1) = t
                      \/ Head(op)[1] = "move" /\ Arg(2) = t /\ Arg(1) # t
    BY DEF KeysGoAsAsked
  <2>1. slots' # slots
    OBVIOUS
  <2>2. Command \/ Wipe
    BY <1>1, <2>1 DEF Next, Run, Begin, Select, Verify, ReadPrinted, Authenticate, ChangePin, ChangePuk, Unblock,
       SetMgm, Retries, BlockPin, BlockPuk, Cut, card
  <2>3. CASE Wipe
    BY <2>3 DEF Wipe, Step
  <2>4. CASE Command
    <3>1. op # <<>> /\ op \in Seq(Cmds) /\ Head(op)[1] \in Commands \cup {"move"} /\ authed
          /\ slots \in [Slots -> Contents]
      BY <1>1, <2>1, <2>4 DEF Inv, Command, TypeOK
    <3>2. CASE Head(op)[1] = "move"
      <4>1. Arg(1) \in Slots /\ Arg(2) \in Slots /\ Arg(1) # Arg(2)
        BY <3>1, <3>2, HeadIs
      <4>2. slots' = [[slots EXCEPT ![Arg(2)] = slots[Arg(1)]] EXCEPT ![Arg(1)] = {}]
        BY <2>4, <3>1, <3>2 DEF Command, Moved
      <4>3. slots'[Arg(2)] = slots[Arg(1)]
        BY <3>1, <4>1, <4>2
      <4>4. t \in {Arg(1), Arg(2)}
        BY <3>1, <4>1, <4>2
      <4> QED BY <3>2, <4>1, <4>3, <4>4
    <3>3. CASE Head(op)[1] # "move"
      <4>1. Head(op)[1] \in Commands /\ Arg(1) \in Slots
        BY <3>1, <3>3, HeadIs
      <4>2. slots' = [slots EXCEPT ![Arg(1)] = Held(Head(op)[1], Arg(1))]
        BY <2>4, <3>1, <3>3 DEF Command
      <4>3. t = Arg(1) /\ slots'[t] = Held(Head(op)[1], t)
        BY <3>1, <4>1, <4>2
      <4> QED BY <4>1, <4>3 DEF Held, Commands
    <3> QED BY <3>2, <3>3
  <2> QED BY <2>2, <2>3, <2>4
<1>2. Inv /\ [Next]_vars => [KeysGoAsAsked]_vars
  BY <1>1
<1> QED BY <1>2, Invariance, PTL DEF Spec

-----------------------------------------------------------------------------
\* A reset, on a card whose PIN and PUK are not the guess that blocks them.

LEMMA PlainTail ==
  ASSUME op \in Seq(Cmds), op # <<>>, Plain(op)
  PROVE  Plain(Tail(op))
<1>1. \A i \in 1..Len(Tail(op)) : Tail(op)[i] = op[i + 1] /\ i + 1 \in 1..Len(op)
  BY TailIs
<1> QED BY <1>1 DEF Plain

LEMMA ResetHead ==
  ASSUME op \in Seq(Cmds), op # <<>>, ResetInv
  PROVE  /\ Head(op)[1] \in Blocking => Resets
         /\ Head(op)[1] \notin Blocking => Plain(op) \/ (Head(op)[1] = "select" /\ Resets)
         /\ Head(op)[1] = "wipe" => Blocked
<1>1. Head(op) = op[1] /\ 1 \in 1..Len(op)
  BY TailIs
<1> QED BY <1>1 DEF ResetInv, Resets, Plain, Blocking

LEMMA TailAt ==
  ASSUME op \in Seq(Cmds), op # <<>>
  PROVE  /\ Len(Tail(op)) >= 1 => Tail(op)[1] = op[2]
         /\ Len(Tail(op)) >= 2 => Tail(op)[2] = op[3]
         /\ Len(Tail(op)) >= 3 => Tail(op)[3] = op[4]
<1>1. Len(Tail(op)) \in Nat /\ \A i \in 1..Len(Tail(op)) : Tail(op)[i] = op[i + 1]
  BY TailIs
<1>2. 1 + 1 = 2 /\ 2 + 1 = 3 /\ 3 + 1 = 4
  OBVIOUS
<1>3. /\ Len(Tail(op)) >= 1 => Tail(op)[1] = op[1 + 1]
      /\ Len(Tail(op)) >= 2 => Tail(op)[2] = op[2 + 1]
      /\ Len(Tail(op)) >= 3 => Tail(op)[3] = op[3 + 1]
  BY <1>1
<1> QED BY <1>2, <1>3

LEMMA ResetOver ==
  ASSUME op' = <<>>
  PROVE  ResetInv'
<1>1. Len(<<>>) = 0
  OBVIOUS
<1> QED BY <1>1 DEF ResetInv, Plain

LEMMA ResetBegin ==
  ASSUME PivAssumption, Inv, Begin
  PROVE  ResetInv'
<1>1. PICK plan \in Plans : op' = << <<"select">> >> \o plan
  BY DEF Begin
<1>2. CASE plan = Reset
  <2>1. op' = << <<"select">>, <<"blockPin", 0>>, <<"blockPuk", 0>>, <<"wipe">> >>
    BY <1>1, <1>2, OpenedReset
  <2>2. /\ Len(op') = 4 /\ op'[1][1] = "select" /\ op'[2] = <<"blockPin", 0>> /\ op'[3] = <<"blockPuk", 0>>
        /\ op'[4][1] = "wipe"
    BY <2>1
  <2> QED BY <2>2 DEF ResetInv, Resets
<1>3. CASE plan # Reset
  <2>1. Plain(op')
    BY <1>1, <1>3, PlansAreLawful DEF Inv
  <2>2. Plain(op)'
    BY <2>1 DEF Plain
  <2> QED BY <2>2 DEF ResetInv
<1> QED BY <1>2, <1>3

\* Every command but those of the reset leaves a plain operation plain.
LEMMA ResetPlain ==
  ASSUME Inv, op # <<>>, ResetInv, Head(op)[1] \notin Blocking \cup {"select"}, op' = Tail(op) \/ op' = <<>>
  PROVE  ResetInv'
<1>1. Plain(op) /\ op \in Seq(Cmds)
  BY ResetHead DEF Inv
<1>2. Plain(Tail(op))
  BY <1>1, PlainTail
<1>3. op' = Tail(op) => Plain(op)'
  BY <1>2 DEF Plain
<1> QED BY <1>3, ResetOver DEF ResetInv

LEMMA ResetSelect ==
  ASSUME PivAssumption, Inv, ResetInv, Select
  PROVE  ResetInv'
<1>1. op # <<>> /\ op' = Tail(op) /\ op \in Seq(Cmds) /\ Head(op)[1] = "select" /\ pin' = pin /\ puk' = puk /\ TypeOK
  BY DEF Inv, Select, Step, Advance, card
<1>2. CASE Plain(op)
  <2>1. Plain(Tail(op))
    BY <1>1, <1>2, PlainTail
  <2>2. Plain(op)'
    BY <1>1, <2>1 DEF Plain
  <2> QED BY <2>2 DEF ResetInv
<1>3. CASE Resets
  <2>1. /\ Len(op) = 4 /\ op[2] = <<"blockPin", 0>> /\ op[3] = <<"blockPuk", 0>> /\ op[4][1] = "wipe"
    BY <1>1, <1>3, TailIs DEF Resets
  <2>2. /\ Len(op') = 3 /\ op'[1] = op[2] /\ op'[2] = op[3] /\ op'[3] = op[4]
    <3>1. Len(Tail(op)) = 3
      BY <1>1, <2>1, TailIs
    <3>2. Tail(op)[1] = op[2] /\ Tail(op)[2] = op[3] /\ Tail(op)[3] = op[4]
      <4>1. Len(Tail(op)) >= 1 /\ Len(Tail(op)) >= 2 /\ Len(Tail(op)) >= 3
        BY <3>1
      <4> QED BY <1>1, <4>1, TailAt
    <3> QED BY <1>1, <3>1, <3>2
  <2>3. op'[1][1] = "blockPin" /\ op'[1][2] = 0
    BY <2>1, <2>2
  <2>4. pin.left \in Nat /\ pin.left <= Most /\ Most \in Nat
    BY <1>1, Values, MostIs
  <2>5. pin'.left + op'[1][2] <= Most
    <3>1. pin'.left = pin.left
      BY <1>1
    <3> QED BY <2>3, <2>4, <3>1
  <2> QED BY <2>1, <2>2, <2>3, <2>5 DEF ResetInv, Resets
<1> QED BY <1>2, <1>3 DEF ResetInv

LEMMA RoundsIs == Rounds = 1 + Most
BY DEF Rounds, Most

\* The round that finds the reference blocked, or is the last one, finds or
\* leaves it with no try.
LEMMA GuessIs ==
  ASSUME PivAssumption, NEW ref \in References, Guessed(ref), op \in Seq(Cmds), op # <<>>,
         Head(op)[1] \in {"blockPin", "blockPuk"}, ref.left + Head(op)[2] <= Most
  PROVE  \/ op' = Tail(op) /\ ref.left = 0 /\ Charged(ref).left = 0
         \/ op' = Again /\ Charged(ref).left + (Head(op)[2] + 1) <= Most
<1>1. ref.left \in Nat /\ ref \in [value : Secrets, left : 0..Most, max : Tries] /\ Most \in Nat
  BY RefIs, MostIs
<1>2. Head(op)[2] \in Nat
  <2>1. Head(op) \in {"blockPin", "blockPuk"} \X Nat
    BY HeadIs
  <2> QED BY <2>1
<1>3. Arg(1) = Head(op)[2]
  BY DEF Arg
<1>4. CASE ref.left = 0 \/ Arg(1) + 1 = Rounds
  <2>1. ref.left = 0
    BY <1>1, <1>2, <1>3, <1>4, RoundsIs
  <2> QED BY <1>4, <2>1 DEF Guessed, Advance, Charged
<1>5. CASE ~(ref.left = 0 \/ Arg(1) + 1 = Rounds)
  <2>1. op' = Again
    BY <1>5 DEF Guessed, Again
  <2>2. Charged(ref).left = ref.left - 1
    BY <1>1, <1>5 DEF Charged
  <2> QED BY <1>1, <1>2, <2>1, <2>2
<1> QED BY <1>4, <1>5

LEMMA ResetPin ==
  ASSUME PivAssumption, Zeros \notin Secrets, Inv, ResetInv, BlockPin
  PROVE  ResetInv'
<1>1. op # <<>> /\ op \in Seq(Cmds) /\ Head(op)[1] = "blockPin" /\ Guessed(pin) /\ puk' = puk /\ TypeOK
  BY DEF Inv, BlockPin, Step
<1>2. pin' = Charged(pin)
  BY <1>1, Values DEF BlockPin, Accepts
<1>3. /\ Len(op) = 3 /\ op[2] = <<"blockPuk", 0>> /\ op[3][1] = "wipe" /\ Head(op) = op[1]
      /\ pin.left + op[1][2] <= Most
  BY <1>1, ResetHead, TailIs DEF Resets, Blocking
<1>4. \/ op' = Tail(op) /\ pin'.left = 0
      \/ op' = Again /\ pin'.left + (op[1][2] + 1) <= Most
  BY <1>1, <1>2, <1>3, GuessIs, Values
<1>5. CASE op' = Tail(op) /\ pin'.left = 0
  <2>1. Len(op') = 2 /\ op'[1] = op[2] /\ op'[2] = op[3]
    <3>1. Len(Tail(op)) = 2
      BY <1>1, <1>3, TailIs
    <3>2. Tail(op)[1] = op[2] /\ Tail(op)[2] = op[3]
      BY <1>1, <3>1, TailAt
    <3> QED BY <1>5, <3>1, <3>2
  <2>2. op'[1][1] = "blockPuk" /\ op'[1][2] = 0
    BY <1>3, <2>1
  <2>3. puk'.left + op'[1][2] <= Most
    BY <1>1, <2>2, Values, MostIs
  <2> QED BY <1>3, <1>5, <2>1, <2>2, <2>3 DEF ResetInv, Resets
<1>6. CASE op' = Again /\ pin'.left + (op[1][2] + 1) <= Most
  <2>1. Len(op') = 3 /\ op'[1] = <<"blockPin", op[1][2] + 1>> /\ op'[2] = op[2] /\ op'[3] = op[3]
    BY <1>1, <1>3, <1>6, AgainIs
  <2>2. op'[1][1] = "blockPin" /\ op'[1][2] = op[1][2] + 1
    BY <2>1
  <2> QED BY <1>3, <1>6, <2>1, <2>2 DEF ResetInv, Resets
<1> QED BY <1>4, <1>5, <1>6

LEMMA ResetPuk ==
  ASSUME PivAssumption, Zeros \notin Secrets, Inv, ResetInv, BlockPuk
  PROVE  ResetInv'
<1>1. op # <<>> /\ op \in Seq(Cmds) /\ Head(op)[1] = "blockPuk" /\ Guessed(puk) /\ TypeOK
  BY DEF Inv, BlockPuk, Step
<1>2. puk' = Charged(puk) /\ pin' = pin
  BY <1>1, Values DEF BlockPuk, Accepts
<1>3. /\ Len(op) = 2 /\ op[2][1] = "wipe" /\ Head(op) = op[1] /\ pin.left = 0
      /\ puk.left + op[1][2] <= Most
  BY <1>1, ResetHead, TailIs DEF Resets, Blocking
<1>4. \/ op' = Tail(op) /\ puk'.left = 0
      \/ op' = Again /\ puk'.left + (op[1][2] + 1) <= Most
  BY <1>1, <1>2, <1>3, GuessIs, Values
<1>5. CASE op' = Tail(op) /\ puk'.left = 0
  <2>1. Len(op') = 1 /\ op'[1] = op[2]
    <3>1. Len(op) = 2 /\ Len(Tail(op)) = Len(op) - 1
      BY <1>1, <1>3, TailIs
    <3>2. Len(Tail(op)) = 1 /\ Len(Tail(op)) >= 1
      BY <3>1
    <3> QED BY <1>1, <1>5, <3>2, TailAt
  <2>2. Blocked'
    BY <1>2, <1>3, <1>5 DEF Blocked
  <2> QED BY <1>3, <2>1, <2>2 DEF ResetInv, Resets
<1>6. CASE op' = Again /\ puk'.left + (op[1][2] + 1) <= Most
  <2>1. Len(op') = 2 /\ op'[1] = <<"blockPuk", op[1][2] + 1>> /\ op'[2] = op[2]
    BY <1>1, <1>3, <1>6, AgainIs
  <2>2. op'[1][1] = "blockPuk" /\ op'[1][2] = op[1][2] + 1
    BY <2>1
  <2> QED BY <1>2, <1>3, <1>6, <2>1, <2>2 DEF ResetInv, Resets
<1> QED BY <1>4, <1>5, <1>6

LEMMA ResetWipe ==
  ASSUME Inv, ResetInv, Wipe
  PROVE  ResetInv'
<1>1. op # <<>> /\ op \in Seq(Cmds) /\ Head(op)[1] = "wipe" /\ op' = Tail(op)
  BY DEF Inv, Wipe, Step, Advance
<1>2. Len(op) = 1
  BY <1>1, ResetHead, TailIs DEF Resets, Blocking
<1>3. Len(op') = 0
  BY <1>1, <1>2, TailIs
<1> QED BY <1>3 DEF ResetInv, Plain

LEMMA ResetStep ==
  ASSUME PivAssumption, Zeros \notin Secrets, Inv, ResetInv, [Next]_vars
  PROVE  ResetInv'
<1>1. CASE UNCHANGED vars
  BY <1>1 DEF ResetInv, Plain, Resets, Blocked, vars, card
<1>2. CASE Begin
  BY <1>2, ResetBegin
<1>3. CASE Select
  BY <1>3, ResetSelect
<1>4. CASE BlockPin \/ BlockPuk \/ Wipe
  BY <1>4, ResetPin, ResetPuk, ResetWipe
<1>5. CASE Verify \/ ReadPrinted \/ Authenticate \/ ChangePin \/ ChangePuk \/ Unblock \/ SetMgm \/ Retries
  <2>1. op # <<>> /\ Head(op)[1] \notin Blocking \cup {"select"} /\ (op' = Tail(op) \/ op' = <<>>)
    BY <1>5 DEF Verify, ReadPrinted, Authenticate, ChangePin, ChangePuk, Unblock, SetMgm, Retries, Step, Advance, Abort,
       Blocking
  <2> QED BY <2>1, ResetPlain
<1>6. CASE Command
  <2>1. op # <<>> /\ Head(op)[1] \notin Blocking \cup {"select"} /\ op' = Tail(op)
    BY <1>6 DEF Command, Advance, Blocking, Commands
  <2> QED BY <2>1, ResetPlain
<1>7. CASE Cut
  BY <1>7, ResetOver DEF Cut, Abort
<1> QED BY <1>1, <1>2, <1>3, <1>4, <1>5, <1>6, <1>7 DEF Next, Run

\* When RESET is sent both references are blocked, for any retry limits the
\* card was given and from whatever an earlier reset left, if neither is the
\* guess that blocks.
THEOREM BlockedWhenWiped ==
  ASSUME PivAssumption, Zeros \notin Secrets
  PROVE  Spec => []BlockedBeforeWipe
<1>1. Init => ResetInv
  <2> SUFFICES ASSUME Init
               PROVE  ResetInv
    OBVIOUS
  <2>1. op = <<>> /\ Len(<<>>) = 0
    BY DEF Init
  <2> QED BY <2>1 DEF ResetInv, Plain
<1>2. Inv /\ ResetInv /\ [Next]_vars => ResetInv'
  BY ResetStep
<1>3. Inv /\ ResetInv => BlockedBeforeWipe
  BY ResetHead DEF Inv, BlockedBeforeWipe
<1> QED BY <1>1, <1>2, <1>3, Invariance, PTL DEF Spec

-----------------------------------------------------------------------------
\* The other applet, with constants and variables of its own.
CONSTANTS MaxId, HsmMaxOps, Others
VARIABLES files, ready, hsmOp, hsmOps, lost, mixed

Hsm == INSTANCE HsmFiles WITH MaxOps <- HsmMaxOps, op <- hsmOp, ops <- hsmOps

\* The first free id is a free id, and the least.
LEMMA HsmFirstIsMember ==
  ASSUME NEW S \in SUBSET Nat, S # {}
  PROVE  Hsm!First(S) \in S
<1> DEFINE Less == {p \in Nat \X Nat : p[1] < p[2]}
<1>1. IsWellFoundedOn(Less, Nat)
  BY NatLessThanWellFounded DEF OpToRel
<1>2. PICK i \in S : \A j \in S : <<j, i>> \notin Less
  <2> HIDE DEF Less
  <2> QED BY <1>1, WFMin
<1>3. \A j \in S : i <= j
  <2> TAKE j \in S
  <2>1. <<j, i>> \notin Less /\ <<j, i>> \in Nat \X Nat
    BY <1>2
  <2> QED BY <2>1
<1> QED BY <1>3 DEF Hsm!First

-----------------------------------------------------------------------------
\* Which operations go through which steps.
HsmStages ==
  /\ hsmOp.phase # "idle" => hsmOp.kind # "none"
  /\ hsmOp.kind = "setup" => hsmOp.phase \in {"check", "list", "command"}
  /\ hsmOp.phase = "check" => hsmOp.kind = "setup"
  /\ hsmOp.kind \in {"delete_key", "delete_object"} => hsmOp.phase \in {"verify", "command"} /\ Hsm!Deletable(hsmOp.fid)
  /\ hsmOp.kind \in {"delete_key", "delete_object", "setup", "reset"} => ~hsmOp.auto
  /\ hsmOp.kind \in {"generate", "unwrap"} => hsmOp.fid[1] = "CC"
  /\ hsmOp.kind = "unwrap" => hsmOp.auto

\* What was read from the list still holds when the command is given.
HsmPicked ==
  /\ hsmOp.kind \in {"generate", "unwrap"} /\ hsmOp.phase \in {"verify", "command"} => hsmOp.fid \notin Hsm!Held
  /\ hsmOp.kind = "unwrap" /\ hsmOp.phase \in {"verify", "command"}
       => \A pre \in {"C4", "CE"} : Hsm!File(pre, hsmOp.fid[2]) \notin Hsm!Held
  /\ hsmOp.kind = "write" /\ hsmOp.auto /\ hsmOp.phase = "command" => hsmOp.fid \notin Hsm!Held
  /\ hsmOp.kind = "setup" /\ hsmOp.phase = "command" => Hsm!Held \subseteq Hsm!Identity

HsmApart == ~Others => HsmPicked /\ Hsm!NothingOverwritten /\ Hsm!KeysLieApart

HsmInv == Hsm!TypeOK /\ HsmStages /\ Hsm!IdentityStays /\ HsmApart

LEMMA HsmInitInv ==
  ASSUME Hsm!HsmAssumption, Hsm!Init
  PROVE  HsmInv
<1>1. Hsm!Identity \subseteq Hsm!Fids /\ Hsm!Held = Hsm!Identity
  BY DEF Hsm!HsmAssumption, Hsm!Init, Hsm!Identity, Hsm!Fids, Hsm!File, Hsm!Prefixes, Hsm!Held
<1>2. Hsm!TypeOK
  <2>1. files \in [Hsm!Held -> Hsm!Makers]
    BY <1>1 DEF Hsm!Init, Hsm!Makers, Hsm!HsmAssumption
  <2> QED BY <1>1, <2>1 DEF Hsm!HsmAssumption, Hsm!Init, Hsm!TypeOK, Hsm!Idle, Hsm!OpType, Hsm!Fids, Hsm!File,
    Hsm!Prefixes, Hsm!Makers
<1> QED
  BY <1>1, <1>2 DEF HsmInv, Hsm!Init, HsmStages, Hsm!IdentityStays, HsmApart, HsmPicked, Hsm!NothingOverwritten,
    Hsm!KeysLieApart, Hsm!Idle, Hsm!File

LEMMA HsmCallKeeps ==
  ASSUME Hsm!HsmAssumption, HsmInv, Hsm!Call
  PROVE  HsmInv'
<1> USE DEF Hsm!HsmAssumption, HsmInv, Hsm!TypeOK
<1>1. \A pre \in Hsm!Prefixes, id \in 0..MaxId : Hsm!File(pre, id) \in Hsm!Fids
  BY DEF Hsm!File, Hsm!Fids
<1> DEFINE
  Called(kind, fid, auto, phase) ==
    /\ Hsm!Start(kind, fid, auto, phase)
    /\ kind \in {"generate", "unwrap"} => phase = "list" /\ fid[1] = "CC"
    /\ kind = "unwrap" => auto
    /\ kind = "write" => phase = "verify"
    /\ kind = "setup" <=> phase = "check"
    /\ kind \in {"delete_key", "delete_object"} => phase = "verify" /\ Hsm!Deletable(fid)
    /\ kind \in {"delete_key", "delete_object", "setup", "reset"} => ~auto
  Kinds == {"generate", "unwrap", "delete_key", "write", "delete_object", "setup", "reset"}
  Phases == {"check", "list", "verify", "command"}
<1>2. PICK kind \in Kinds, fid \in Hsm!Fids, auto \in BOOLEAN, phase \in Phases : Called(kind, fid, auto, phase)
  <2>1. CASE Hsm!Generate
    <3>1. CASE Hsm!Start("generate", Hsm!File("CC", 0), TRUE, "list")
      <4>1. Hsm!File("CC", 0) \in Hsm!Fids /\ Hsm!File("CC", 0)[1] = "CC"
        BY <1>1 DEF Hsm!Prefixes, Hsm!File
      <4>2. Called("generate", Hsm!File("CC", 0), TRUE, "list")
        BY <3>1, <4>1
      <4> QED BY <4>1, <4>2
    <3>2. CASE \E id \in 1..MaxId : Hsm!Start("generate", Hsm!File("CC", id), FALSE, "list")
      <4>1. PICK id \in 1..MaxId : Hsm!Start("generate", Hsm!File("CC", id), FALSE, "list")
        BY <3>2
      <4>2. Hsm!File("CC", id) \in Hsm!Fids /\ Hsm!File("CC", id)[1] = "CC"
        BY <1>1 DEF Hsm!Prefixes, Hsm!File
      <4>3. Called("generate", Hsm!File("CC", id), FALSE, "list")
        BY <4>1, <4>2
      <4> QED BY <4>2, <4>3
    <3> QED BY <2>1, <3>1, <3>2 DEF Hsm!Generate
  <2>2. CASE Hsm!Unwrap
    <3>1. Hsm!File("CC", 0) \in Hsm!Fids /\ Hsm!File("CC", 0)[1] = "CC"
      BY <1>1 DEF Hsm!Prefixes, Hsm!File
    <3>2. Called("unwrap", Hsm!File("CC", 0), TRUE, "list")
      BY <2>2, <3>1 DEF Hsm!Unwrap
    <3> QED BY <3>1, <3>2
  <2>3. CASE Hsm!DeleteKey
    <3>1. PICK id \in 0..MaxId : Hsm!Deletable(Hsm!File("CC", id)) /\ Hsm!Start("delete_key", Hsm!File("CC", id),
      FALSE, "verify")
      BY <2>3 DEF Hsm!DeleteKey
    <3>2. Hsm!File("CC", id) \in Hsm!Fids
      BY <1>1 DEF Hsm!Prefixes
    <3>3. Called("delete_key", Hsm!File("CC", id), FALSE, "verify")
      BY <3>1
    <3> QED BY <3>2, <3>3
  <2>4. CASE Hsm!DeleteObject
    <3>1. PICK fid \in Hsm!Fids : Hsm!Deletable(fid) /\ Hsm!Start("delete_object", fid, FALSE, "verify")
      BY <2>4 DEF Hsm!DeleteObject
    <3>2. Called("delete_object", fid, FALSE, "verify")
      BY <3>1
    <3> QED BY <3>2
  <2>5. CASE Hsm!WriteObject
    <3>1. PICK fid \in Hsm!Fids, auto \in BOOLEAN : Hsm!Start("write", fid, auto, "verify")
      <4>1. CASE \E pre \in {"CE", "CD"} : Hsm!Start("write", Hsm!File(pre, 0), TRUE, "verify")
        <5>1. PICK pre \in {"CE", "CD"} : Hsm!Start("write", Hsm!File(pre, 0), TRUE, "verify")
          BY <4>1
        <5>2. Hsm!File(pre, 0) \in Hsm!Fids
          BY <1>1 DEF Hsm!Prefixes
        <5> QED BY <5>1, <5>2
      <4> QED BY <2>5, <4>1 DEF Hsm!WriteObject
    <3>2. Called("write", fid, auto, "verify")
      BY <3>1
    <3> QED BY <3>2
  <2>6. CASE Hsm!Setup
    <3>1. Hsm!File("CC", 0) \in Hsm!Fids
      BY <1>1 DEF Hsm!Prefixes
    <3>2. Called("setup", Hsm!File("CC", 0), FALSE, "check")
      BY <2>6 DEF Hsm!Setup
    <3> QED BY <3>1, <3>2
  <2>7. CASE Hsm!Reset
    <3>1. Hsm!File("CC", 0) \in Hsm!Fids
      BY <1>1 DEF Hsm!Prefixes
    <3>2. Called("reset", Hsm!File("CC", 0), FALSE, "command")
      BY <2>7 DEF Hsm!Reset
    <3> QED BY <3>1, <3>2
  <2> QED BY <2>1, <2>2, <2>3, <2>4, <2>5, <2>6, <2>7 DEF Hsm!Call
<1>3. /\ hsmOp' = [kind |-> kind, fid |-> fid, auto |-> auto, phase |-> phase]
      /\ hsmOps' \in Hsm!Makers /\ UNCHANGED <<files, ready, lost, mixed>>
  BY <1>2 DEF Hsm!Start, Hsm!Makers
<1>4. Hsm!TypeOK'
  BY <1>3 DEF Hsm!OpType, Hsm!Held
<1>5. HsmStages'
  BY <1>2, <1>3 DEF HsmStages, Hsm!Deletable
<1>6. (Hsm!IdentityStays /\ HsmApart)'
  BY <1>2, <1>3 DEF Hsm!IdentityStays, HsmApart, HsmPicked, Hsm!NothingOverwritten, Hsm!KeysLieApart, Hsm!Held
<1> QED BY <1>4, <1>5, <1>6

\* An operation ends without having given its command.
LEMMA HsmRefuseKeeps ==
  ASSUME Hsm!HsmAssumption, HsmInv, Hsm!Refuse, Hsm!Card
  PROVE  HsmInv'
<1> USE DEF HsmInv, Hsm!Refuse, Hsm!Card
<1>1. Hsm!TypeOK'
  <2>1. Hsm!Idle \in Hsm!OpType
    BY DEF Hsm!HsmAssumption, Hsm!OpType, Hsm!Idle, Hsm!File, Hsm!Fids, Hsm!Prefixes
  <2> QED BY <2>1 DEF Hsm!TypeOK, Hsm!Held
<1>2. HsmStages'
  BY DEF HsmStages, Hsm!Idle
<1>3. (Hsm!IdentityStays /\ HsmApart)'
  BY DEF Hsm!IdentityStays, HsmApart, HsmPicked, Hsm!NothingOverwritten, Hsm!KeysLieApart, Hsm!Held, Hsm!Idle
<1> QED BY <1>1, <1>2, <1>3

\* It goes from one step to the next, with the same file in mind.
LEMMA HsmStepKeeps ==
  ASSUME Hsm!HsmAssumption, HsmInv, Hsm!Card, hsmOp.phase # "idle",
         NEW phase \in {"list", "verify", "command"}, Hsm!Goes(phase),
         hsmOp.kind = "setup" => phase = "list" \/ (phase = "command" /\ Hsm!Held \subseteq Hsm!Identity),
         hsmOp.kind # "setup" => hsmOp.phase = "verify",
         hsmOp.kind \in {"delete_key", "delete_object", "generate", "unwrap"} => phase = "command",
         hsmOp.kind = "write" /\ hsmOp.auto => phase = "list"
  PROVE  HsmInv'
<1>1. /\ hsmOp'.kind = hsmOp.kind /\ hsmOp'.fid = hsmOp.fid /\ hsmOp'.auto = hsmOp.auto /\ hsmOp'.phase = phase
      /\ hsmOp' \in Hsm!OpType
  BY DEF Hsm!Goes, HsmInv, Hsm!TypeOK, Hsm!OpType
<1>2. Hsm!TypeOK'
  BY <1>1 DEF HsmInv, Hsm!TypeOK, Hsm!Card, Hsm!Held
<1>3. HsmStages'
  BY <1>1 DEF HsmInv, HsmStages, Hsm!Deletable
<1>4. (Hsm!IdentityStays /\ HsmApart)'
  BY <1>1 DEF HsmInv, Hsm!IdentityStays, HsmApart, HsmPicked, Hsm!NothingOverwritten, Hsm!KeysLieApart, Hsm!Held,
    Hsm!Card
<1> QED BY <1>2, <1>3, <1>4 DEF HsmInv

LEMMA HsmCheckPinKeeps ==
  ASSUME Hsm!HsmAssumption, HsmInv, Hsm!CheckPin
  PROVE  HsmInv'
<1>1. CASE Hsm!Refuse
  BY <1>1, HsmRefuseKeeps DEF Hsm!CheckPin
<1>2. CASE Hsm!Goes("list")
  BY <1>2, HsmStepKeeps DEF Hsm!CheckPin, Hsm!At, HsmInv, HsmStages
<1> QED BY <1>1, <1>2 DEF Hsm!CheckPin

LEMMA HsmVerifyKeeps ==
  ASSUME Hsm!HsmAssumption, HsmInv, Hsm!Verify
  PROVE  HsmInv'
<1>1. CASE Hsm!Refuse
  BY <1>1, HsmRefuseKeeps DEF Hsm!Verify
<1>2. CASE Hsm!Goes(IF hsmOp.kind = "write" /\ hsmOp.auto THEN "list" ELSE "command")
  BY <1>2, HsmStepKeeps DEF Hsm!Verify, Hsm!At, HsmInv, HsmStages
<1> QED BY <1>1, <1>2 DEF Hsm!Verify

\* The id that is picked from a list is free in it.
LEMMA HsmListKeeps ==
  ASSUME Hsm!HsmAssumption, HsmInv, Hsm!List
  PROVE  HsmInv'
<1>1. Hsm!Card /\ hsmOp.phase = "list"
  BY DEF Hsm!List, Hsm!At
<1>2. CASE Hsm!Refuse
  BY <1>1, <1>2, HsmRefuseKeeps
<1>3. CASE hsmOp.kind = "setup" /\ ~Hsm!Refuse
  <2>1. Hsm!Held \subseteq Hsm!Identity /\ Hsm!Goes("command")
    BY <1>3 DEF Hsm!List
  <2> QED BY <1>1, <1>3, <2>1, HsmStepKeeps
<1>4. CASE hsmOp.kind # "setup" /\ ~Hsm!Refuse
  <2> DEFINE ids == IF hsmOp.kind = "write" THEN Hsm!FreeObjectIds(Hsm!Held, hsmOp.fid[1])
                    ELSE IF hsmOp.auto THEN Hsm!FreeKeyIds(Hsm!Held)
                    ELSE {hsmOp.fid[2]} \ {f[2] : f \in {g \in Hsm!Held : g[1] = "CC"}}
             id == Hsm!First(ids)
  <2>1. hsmOp' = Hsm!Allocated(ids) /\ ids # {}
    BY <1>4 DEF Hsm!List
  <2>2. ids \subseteq 0..MaxId
    BY DEF Hsm!FreeObjectIds, Hsm!FreeKeyIds, HsmInv, Hsm!TypeOK, Hsm!OpType, Hsm!Fids, Hsm!HsmAssumption
  <2>3. id \in ids
    BY <2>1, <2>2, HsmFirstIsMember DEF Hsm!HsmAssumption
  <2> HIDE DEF id
  <2>4. /\ hsmOp'.kind = hsmOp.kind /\ hsmOp'.auto = hsmOp.auto /\ hsmOp'.fid = <<hsmOp.fid[1], id>>
        /\ hsmOp'.phase = IF hsmOp.kind = "write" THEN "command" ELSE "verify"
        /\ hsmOp' \in Hsm!OpType
    <3>1. hsmOp.fid[1] \in Hsm!Prefixes /\ id \in 0..MaxId /\ hsmOp \in Hsm!OpType
      BY <2>2, <2>3 DEF HsmInv, Hsm!TypeOK, Hsm!OpType, Hsm!Fids
    <3>2. hsmOp' = [hsmOp EXCEPT !.fid = <<hsmOp.fid[1], id>>,
                                 !.phase = IF hsmOp.kind = "write" THEN "command" ELSE "verify"]
      BY <2>1 DEF Hsm!Allocated, Hsm!File, id
    <3> HIDE DEF ids
    <3> QED BY <3>1, <3>2 DEF Hsm!OpType, Hsm!Fids
  <2>5. hsmOp.kind = "write" => <<hsmOp.fid[1], id>> \notin Hsm!Held
    BY <2>3 DEF Hsm!FreeObjectIds, Hsm!File
  <2>6. hsmOp.kind # "write" /\ hsmOp.auto => \A pre \in Hsm!KeyRelated : <<pre, id>> \notin Hsm!Held
    BY <2>3 DEF Hsm!FreeKeyIds, Hsm!File
  <2>7. hsmOp.kind # "write" /\ ~hsmOp.auto => <<"CC", id>> \notin Hsm!Held
    BY <2>3
  <2>8. /\ ~(hsmOp.kind \in {"delete_key", "delete_object", "setup"})
        /\ (hsmOp.kind \in {"generate", "unwrap"} => hsmOp.fid[1] = "CC")
        /\ (hsmOp.kind = "unwrap" => hsmOp.auto) /\ (hsmOp.kind = "reset" => ~hsmOp.auto)
    BY <1>1, <1>4 DEF HsmInv, HsmStages
  <2> HIDE DEF ids
  <2>9. Hsm!TypeOK'
    BY <1>1, <2>4 DEF HsmInv, Hsm!TypeOK, Hsm!Card, Hsm!Held
  <2>10. hsmOp.kind # "none"
    BY <1>1 DEF HsmInv, HsmStages
  <2>11. HsmStages'
    BY <2>4, <2>8, <2>10 DEF HsmStages
  <2>12. HsmPicked'
    BY <1>1, <2>4, <2>5, <2>6, <2>7, <2>8 DEF HsmPicked, Hsm!Card, Hsm!Held, Hsm!KeyRelated, Hsm!File
  <2> QED BY <1>1, <2>9, <2>11, <2>12 DEF HsmInv, Hsm!IdentityStays, HsmApart, Hsm!NothingOverwritten,
    Hsm!KeysLieApart, Hsm!Held, Hsm!Card
<1> QED BY <1>2, <1>3, <1>4

\* The command takes nothing but the file it was meant for.
LEMMA HsmExecuteKeeps ==
  ASSUME Hsm!HsmAssumption, HsmInv, Hsm!Execute
  PROVE  HsmInv'
<1>1. hsmOp.phase = "command" /\ hsmOp' = Hsm!Idle /\ hsmOps' = hsmOps /\ hsmOp \in Hsm!OpType /\ hsmOps \in Hsm!Makers
  BY DEF Hsm!Execute, Hsm!At, Hsm!Refuse, HsmInv, Hsm!TypeOK
<1>2. Hsm!Idle \in Hsm!OpType
  BY DEF Hsm!HsmAssumption, Hsm!OpType, Hsm!Idle, Hsm!File, Hsm!Fids, Hsm!Prefixes
<1>3. hsmOp.fid \in Hsm!Fids /\ hsmOp.fid[2] \in 0..MaxId
      /\ hsmOp.kind \in {"generate", "unwrap", "delete_key", "write", "delete_object", "setup", "reset"}
  BY <1>1 DEF Hsm!OpType, Hsm!Fids, HsmInv, HsmStages
<1>4. /\ Hsm!Held \subseteq Hsm!Fids /\ files \in [Hsm!Held -> Hsm!Makers] /\ Hsm!Identity \subseteq Hsm!Held
      /\ ready \in BOOLEAN /\ lost \in SUBSET Hsm!Fids /\ mixed \in SUBSET (0..MaxId)
  BY DEF HsmInv, Hsm!TypeOK, Hsm!IdentityStays
<1>5. /\ ready' \in BOOLEAN /\ Hsm!Identity \subseteq Hsm!Held' /\ Hsm!Held' \subseteq Hsm!Fids
      /\ files' \in [Hsm!Held' -> Hsm!Makers]
  <2>1. CASE hsmOp.kind = "generate"
    <3>1. files' = Hsm!Made /\ ready' = ready
      BY <2>1 DEF Hsm!Execute
    <3>2. {Hsm!File(pre, hsmOp.fid[2]) : pre \in Hsm!KeyRelated} \subseteq Hsm!Fids
      BY <1>3 DEF Hsm!File, Hsm!Fids, Hsm!KeyRelated, Hsm!Prefixes
    <3>3. \A f \in Hsm!Held : files[f] \in Hsm!Makers
      BY <1>4
    <3>4. /\ Hsm!Held' = Hsm!Held \cup {Hsm!File(pre, hsmOp.fid[2]) : pre \in Hsm!KeyRelated}
          /\ \A f \in Hsm!Held' : files'[f] \in Hsm!Makers
      <4>1. \A f \in {Hsm!File(pre,
        hsmOp.fid[2]) : pre \in Hsm!KeyRelated} : f[1] \in Hsm!KeyRelated /\ f[2] = hsmOp.fid[2]
        BY DEF Hsm!File
      <4> QED BY <1>1, <3>1, <3>3, <4>1 DEF Hsm!Made, Hsm!Held
    <3> QED BY <1>4, <3>1, <3>2, <3>4 DEF Hsm!Made, Hsm!Held
  <2>2. CASE hsmOp.kind \in {"unwrap", "write"}
    <3>1. files' = Hsm!Imported /\ ready' = ready
      BY <2>2 DEF Hsm!Execute
    <3>2. Hsm!Held' = Hsm!Held \cup {hsmOp.fid} /\ files' \in [Hsm!Held' -> Hsm!Makers]
      BY <1>1, <1>4, <3>1 DEF Hsm!Imported, Hsm!Held
    <3> QED BY <1>3, <1>4, <3>1, <3>2
  <2>3. CASE hsmOp.kind \in {"delete_key", "delete_object"}
    <3>1. hsmOp.fid \notin Hsm!Identity
      BY <2>3 DEF HsmInv, HsmStages, Hsm!Deletable, Hsm!Identity, Hsm!File
    <3>2. files' = Hsm!Kept(Hsm!Fids \ {hsmOp.fid}) /\ ready' = ready
      BY <2>3 DEF Hsm!Execute
    <3> QED BY <1>4, <3>1, <3>2 DEF Hsm!Kept, Hsm!Held
  <2>4. CASE hsmOp.kind \in {"setup", "reset"}
    BY <1>4, <2>4 DEF Hsm!Execute, Hsm!Kept, Hsm!Held
  <2> QED BY <1>3, <2>1, <2>2, <2>3, <2>4
<1>6. lost' \in SUBSET Hsm!Fids /\ mixed' \in SUBSET (0..MaxId)
  BY <1>3, <1>4 DEF Hsm!Execute, Hsm!Replaced
<1>7. ~Others => lost' = {} /\ mixed' = {}
  <2> SUFFICES ASSUME ~Others PROVE lost' = {} /\ mixed' = {}
    OBVIOUS
  <2>1. HsmPicked /\ lost = {} /\ mixed = {}
    BY DEF HsmInv, HsmApart, Hsm!NothingOverwritten, Hsm!KeysLieApart
  <2>2. Hsm!Replaced = {}
    BY <1>1, <1>3, <2>1 DEF HsmPicked, Hsm!Replaced, HsmInv, HsmStages
  <2>3. hsmOp.kind = "setup" => Hsm!Held \ Hsm!Identity = {}
    BY <1>1, <2>1 DEF HsmPicked
  <2>4. {id \in {hsmOp.fid[2]} : hsmOp.kind = "unwrap" /\ \E pre \in {"C4", "CE"} : Hsm!File(pre, id) \in Hsm!Held} = {}
    BY <1>1, <2>1 DEF HsmPicked
  <2> QED BY <2>1, <2>2, <2>3, <2>4 DEF Hsm!Execute
<1>8. Hsm!TypeOK'
  BY <1>1, <1>2, <1>5, <1>6 DEF Hsm!TypeOK
<1>9. HsmStages' /\ HsmPicked'
  BY <1>1 DEF HsmStages, HsmPicked, Hsm!Idle
<1> QED BY <1>5, <1>7, <1>8, <1>9 DEF HsmInv, Hsm!IdentityStays, HsmApart, Hsm!NothingOverwritten, Hsm!KeysLieApart

\* Another program adds a file and takes none.
LEMMA HsmOtherKeeps ==
  ASSUME Hsm!HsmAssumption, HsmInv, Hsm!Other
  PROVE  HsmInv'
<1>1. /\ Others /\ hsmOps < HsmMaxOps /\ hsmOps' = hsmOps + 1 /\ UNCHANGED <<ready, hsmOp, lost, mixed>>
      /\ hsmOps \in Nat /\ HsmMaxOps \in Nat /\ hsmOps' \in Hsm!Makers
  BY DEF Hsm!Other, HsmInv, Hsm!TypeOK, Hsm!HsmAssumption, Hsm!Makers
<1>2. PICK pre \in {"CC", "CD"}, id \in 1..MaxId :
        files' = [f \in Hsm!Held \cup {Hsm!File(pre, id)} |-> IF f = Hsm!File(pre, id) THEN hsmOps + 1 ELSE files[f]]
  BY DEF Hsm!Other
<1>3. Hsm!File(pre, id) \in Hsm!Fids
  BY DEF Hsm!File, Hsm!Fids, Hsm!Prefixes, Hsm!HsmAssumption
<1>4. Hsm!Held' = Hsm!Held \cup {Hsm!File(pre, id)} /\ files' \in [Hsm!Held' -> Hsm!Makers]
  BY <1>1, <1>2 DEF Hsm!Held, HsmInv, Hsm!TypeOK
<1>5. Hsm!TypeOK'
  BY <1>1, <1>3, <1>4 DEF HsmInv, Hsm!TypeOK
<1> QED BY <1>1, <1>4, <1>5 DEF HsmInv, HsmStages, Hsm!IdentityStays, HsmApart

LEMMA HsmStepInv ==
  ASSUME Hsm!HsmAssumption, HsmInv, [Hsm!Next]_(Hsm!vars)
  PROVE  HsmInv'
<1>1. CASE Hsm!Cut
  BY <1>1, HsmRefuseKeeps DEF Hsm!Cut
<1>2. CASE UNCHANGED Hsm!vars
  BY <1>2 DEF Hsm!vars, HsmInv, Hsm!TypeOK, HsmStages, Hsm!IdentityStays, HsmApart, HsmPicked,
    Hsm!NothingOverwritten, Hsm!KeysLieApart, Hsm!Held
<1> QED
  BY <1>1, <1>2, HsmCallKeeps, HsmCheckPinKeeps, HsmListKeeps, HsmVerifyKeeps, HsmExecuteKeeps, HsmOtherKeeps
    DEF Hsm!Next

LEMMA HsmInvariance == ASSUME Hsm!HsmAssumption PROVE Hsm!Spec => []HsmInv
BY HsmInitInv, HsmStepInv, PTL DEF Hsm!Spec

-----------------------------------------------------------------------------
\* The card's files, the operation under way and the histories keep their
\* types: the id a command is given is one a file can have.
THEOREM HsmTyping == ASSUME Hsm!HsmAssumption PROVE Hsm!Spec => []Hsm!TypeOK
<1>1. HsmInv => Hsm!TypeOK
  BY DEF HsmInv
<1> QED BY <1>1, HsmInvariance, PTL

\* The device's identity outlives every operation, whatever another program
\* writes and wherever an operation is cut.
THEOREM HsmIdentityIsKept == ASSUME Hsm!HsmAssumption PROVE Hsm!Spec => []Hsm!IdentityStays
<1>1. HsmInv => Hsm!IdentityStays
  BY DEF HsmInv
<1> QED BY <1>1, HsmInvariance, PTL

\* On a card this program has to itself, an operation that picked its own
\* place overwrites nothing and a first set-up wipes nothing.
THEOREM HsmOverwritesNothing == ASSUME Hsm!HsmAssumption, ~Others PROVE Hsm!Spec => []Hsm!NothingOverwritten
<1>1. HsmInv => Hsm!NothingOverwritten
  BY DEF HsmInv, HsmApart
<1> QED BY <1>1, HsmInvariance, PTL

\* On such a card a restored key never takes the id of a description or a
\* certificate that another key left behind.
THEOREM HsmKeysAreApart == ASSUME Hsm!HsmAssumption, ~Others PROVE Hsm!Spec => []Hsm!KeysLieApart
<1>1. HsmInv => Hsm!KeysLieApart
  BY DEF HsmInv, HsmApart
<1> QED BY <1>1, HsmInvariance, PTL
=============================================================================
