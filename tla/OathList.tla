------------------------------ MODULE OathList ------------------------------
(***************************************************************************)
(* How the list of accounts is made from the key's answer.                 *)
(*                                                                         *)
(* A credential has no fields for its issuer and its period on the key:    *)
(* both are written into its id, "[<period>/]<issuer>:<account>", and read *)
(* back from there.  CALCULATE ALL answers with ids and codes in turn, all *)
(* codes of the same window of 30 s; a credential with another period is   *)
(* computed again on its own.  A text is a sequence of tokens, one of      *)
(* which, the digits of a period, is a number.                             *)
(***************************************************************************)
EXTENDS Naturals, Sequences, FiniteSets, SequencesExt

CONSTANTS
  Issuers, Names, \* texts the user may type
  OtherPeriod,    \* a period other than the default
  Refusals        \* whether a command after the first may fail

OathListAssumption ==
  /\ OtherPeriod \in Nat \ {0, 30}
  /\ <<>> \notin Names /\ Refusals \in BOOLEAN

DEFAULT_PERIOD == 30

\* A token that parses as a number.
Period(token) == CASE token = "30" -> 30 [] token = "other" -> OtherPeriod [] OTHER -> 0
Digits(period) == IF period = 30 THEN "30" ELSE "other"

VARIABLES
  creds,    \* credentials in the order the key lists them
  answer,   \* objects of the answer not looked at yet
  pending,  \* the id that waits for its code
  accounts, \* the list built so far
  fixed     \* how many of its codes were looked at again

vars == <<creds, answer, pending, accounts, fixed>>

Types == {"totp", "hotp"}
NewCredential == [issuer : Issuers \cup {<<>>}, account : Names, type : Types,
                  period : {DEFAULT_PERIOD, OtherPeriod}, touch : BOOLEAN]

-----------------------------------------------------------------------------
\* Ids.

\* Mutant: the period is not written down.
BuildId_NoPrefix(issuer, account, type, period) ==
  IF issuer = <<>> THEN account ELSE issuer \o <<":">> \o account

\* build_cred_id(): only a time-based credential has a period to keep.
BuildId(issuer, account, type, period) ==
  LET base == IF issuer = <<>> THEN account ELSE issuer \o <<":">> \o account
  IN IF type = "totp" /\ period # DEFAULT_PERIOD THEN <<Digits(period), "/">> \o base ELSE base

First(token, text) == {i \in DOMAIN text : text[i] = token /\ \A j \in 1..(i - 1) : text[j] # token}

\* str::split_once(): the parts around the first such token, if there is one.
SplitOnce(token, text) ==
  {[left |-> SubSeq(text, 1, i - 1), right |-> SubSeq(text, i + 1, Len(text))] : i \in First(token, text)}

\* Mutant: the prefix stays in the name.
ParsePeriod_Keeps(id) ==
  LET cut == {s \in SplitOnce("/", id) : Len(s.left) = 1 /\ Period(s.left[1]) # 0}
  IN [period |-> IF cut = {} THEN DEFAULT_PERIOD ELSE OtherPeriod, rest |-> id]

\* What is before a slash is a period if it is a number, else part of the name.
ParsePeriod(id) ==
  LET cut == {s \in SplitOnce("/", id) : Len(s.left) = 1 /\ Period(s.left[1]) # 0}
  IN IF cut = {} THEN [period |-> DEFAULT_PERIOD, rest |-> id]
     ELSE LET s == CHOOSE s \in cut : TRUE IN [period |-> Period(s.left[1]), rest |-> s.right]

\* parse_cred_id()
ParseId(id) ==
  LET p == ParsePeriod(id)
      cut == SplitOnce(":", p.rest)
  IN IF cut = {} THEN [issuer |-> <<>>, account |-> p.rest, period |-> p.period]
     ELSE LET s == CHOOSE s \in cut : TRUE
          IN [issuer |-> s.left, account |-> s.right, period |-> p.period]

-----------------------------------------------------------------------------
\* The key, as calculate_all() uses it.

IdOf(c) == BuildId(c.issuer, c.account, c.type, c.period)
Kind(c) == IF c.touch THEN "touch" ELSE IF c.type = "hotp" THEN "none" ELSE "code"

Listing(cs) ==
  FlattenSeq([i \in DOMAIN cs |-> <<[tag |-> "name", id |-> IdOf(cs[i])], [tag |-> Kind(cs[i]), id |-> <<>>]>>])

Init ==
  /\ creds \in [1..1 -> NewCredential] \cup [1..2 -> NewCredential]
  /\ \A i, j \in DOMAIN creds : i # j => IdOf(creds[i]) # IdOf(creds[j])
  /\ answer = Listing(creds)
  /\ pending = <<>> /\ accounts = <<>> /\ fixed = 0

Account(id, kind) ==
  LET p == ParseId(id) IN
  [id |-> id, issuer |-> p.issuer, account |-> p.account, period |-> p.period,
   type |-> IF kind = "none" THEN "hotp" ELSE "totp",
   window |-> IF kind = "code" THEN DEFAULT_PERIOD ELSE 0]

ReadName ==
  /\ answer # <<>> /\ Head(answer).tag = "name"
  /\ pending' = Head(answer).id /\ answer' = Tail(answer)
  /\ UNCHANGED <<creds, accounts, fixed>>

\* Mutant: an object that brings no code is skipped.
ReadCode_CodesOnly ==
  /\ answer # <<>> /\ Head(answer).tag # "name"
  /\ answer' = Tail(answer) /\ pending' = <<>>
  /\ accounts' = IF Head(answer).tag = "code" THEN Append(accounts, Account(pending, "code")) ELSE accounts
  /\ UNCHANGED <<creds, fixed>>

ReadCode ==
  /\ answer # <<>> /\ Head(answer).tag # "name"
  /\ answer' = Tail(answer) /\ pending' = <<>>
  /\ accounts' = IF pending = <<>> THEN accounts ELSE Append(accounts, Account(pending, Head(answer).tag))
  /\ UNCHANGED <<creds, fixed>>

\* Mutant: the last code of the list is not looked at.
FixUp_ButLast ==
  /\ answer = <<>> /\ fixed < Len(accounts)
  /\ fixed' = fixed + 1
  /\ LET a == accounts[fixed + 1]
         wrong == a.type = "totp" /\ a.period # DEFAULT_PERIOD /\ a.window # 0
     IN accounts' = IF wrong /\ fixed' < Len(accounts)
                    THEN [accounts EXCEPT ![fixed + 1].window = a.period] ELSE accounts
  /\ UNCHANGED <<creds, answer, pending>>

\* The codes that were computed for the wrong window, one command each; a
\* command that fails leaves the code as it is.
FixUp ==
  /\ answer = <<>> /\ fixed < Len(accounts)
  /\ fixed' = fixed + 1
  /\ LET a == accounts[fixed + 1]
         wrong == a.type = "totp" /\ a.period # DEFAULT_PERIOD /\ a.window # 0
     IN \/ wrong /\ accounts' = [accounts EXCEPT ![fixed + 1].window = a.period]
        \/ (~wrong \/ Refusals) /\ UNCHANGED accounts
  /\ UNCHANGED <<creds, answer, pending>>

Listed == answer = <<>> /\ fixed = Len(accounts)
Next == ReadName \/ ReadCode \/ FixUp \/ (Listed /\ UNCHANGED vars)
Spec == Init /\ [][Next]_vars

-----------------------------------------------------------------------------
\* A name a user would type for an issuer or an account.
Plain(text) == ToSet(text) \cap {":", "/"} = {}

\* Nothing is lost, made up or moved to another credential's row.
EveryCredentialListed ==
  Listed => /\ Len(accounts) = Len(creds)
            /\ \A i \in DOMAIN creds : accounts[i].id = IdOf(creds[i])

\* Saving the rename dialog without a change renames nothing: what is read
\* from an id leads back to that id, also when the names contain a colon or, for
\* a time-based credential, look like a period.
UneditedRenameKeepsId ==
  \A i \in DOMAIN accounts : LET a == accounts[i] IN
    a.type = "totp" \/ "/" \notin ToSet(a.id) => BuildId(a.issuer, a.account, a.type, a.period) = a.id

\* What was typed for a credential is what its row shows.
NamesSurvive ==
  Listed /\ Len(accounts) = Len(creds) => \A i \in DOMAIN creds :
    Plain(creds[i].issuer) /\ Plain(creds[i].account) =>
      /\ accounts[i].issuer = creds[i].issuer /\ accounts[i].account = creds[i].account
      /\ creds[i].type = "totp" => accounts[i].period = creds[i].period

\* A code that is shown was computed for the window it is shown with.
CodeFitsPeriod ==
  Listed => \A i \in DOMAIN accounts : accounts[i].window \in {0, accounts[i].period}
=============================================================================
