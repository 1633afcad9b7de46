------------------------------ MODULE OtpSlots ------------------------------
(***************************************************************************)
(* The slots of the OTP applet: programmed, deleted, swapped, read back    *)
(* and asked (hal/applets/otp.rs, the programming form).                   *)
(*                                                                         *)
(* A slot is programmed by a frame of flags and fields; what it is shown   *)
(* as is worked out from the flags alone, by bits that mean different      *)
(* things in different kinds.  A flag byte is here the set of its bits.    *)
(***************************************************************************)
EXTENDS Naturals, Sequences, SequencesExt

CONSTANTS
  Slots,       \* the slots of the key: 1..2, or 1..4
  Words,       \* static passwords a user enters, sequences of characters
  Challenges,  \* challenges a user enters, sequences of bytes
  Codes,       \* access codes a user enters; "" leaves the field empty
  MaxOps       \* bound: operations in one behaviour

OtpAssumption == Slots \subseteq 1..4 /\ {1, 2} \subseteq Slots /\ MaxOps \in Nat

VARIABLES
  slots,       \* the card: the frame each slot holds
  asked,       \* history: what the user last had put into each slot
  answer,      \* history: the last challenge-response, as asked and as done
  ops

vars == <<slots, asked, answer, ops>>

\* Bounds: the fields of a frame and of a challenge hold this many bytes
\* (16, 6, 16 and 64 on a card).
FixedSize == 2
UidSize == 1
KeySize == 2
ChallengeFrame == 4

NoCode == "zeros"
Zero == "00"
Seven == "7F"   \* the byte 7F
Fields(fixed, uid, key) == [fixed |-> fixed, uid |-> uid, key |-> key]
Zeros == Fields(<<>>, <<>>, <<>>)
Blank == [tkt |-> {}, cfg |-> {}, fields |-> Zeros, size |-> 0, acc |-> NoCode]

-----------------------------------------------------------------------------
\* Frames.

TktChalResp == 6
TktOathHotp == 6
TktAppendCr == 5
CfgShortTicket == 1
CfgOathHotp8 == 1
CfgHmacLt64 == 2
CfgChalBtnTrig == 3
CfgStaticTicket == 5
CfgChalYubico == 5
CfgChalHmac == {5, 1}

Bit(b, on) == IF on THEN {b} ELSE {}

BuildConfig(fields, size, tkt, cfg, acc) == [tkt |-> tkt, cfg |-> cfg, fields |-> fields, size |-> size, acc |-> acc]

BuildChalResp(touch, acc) ==
  BuildConfig(Zeros, 0, {TktChalResp}, CfgChalHmac \cup {CfgHmacLt64} \cup Bit(CfgChalBtnTrig, touch), acc)

\* Mutant: the access code is left out of the frame.
BuildHotp_NoCode(digits8, cr, acc) ==
  BuildConfig(Zeros, 0, {TktOathHotp} \cup Bit(TktAppendCr, cr), Bit(CfgOathHotp8, digits8), NoCode)

BuildHotp(digits8, cr, acc) ==
  BuildConfig(Zeros, 0, {TktOathHotp} \cup Bit(TktAppendCr, cr), Bit(CfgOathHotp8, digits8), acc)

Cut(word, from, n) == SubSeq(word, from, IF from + n - 1 < Len(word) THEN from + n - 1 ELSE Len(word))

\* Mutant: the key field before the private id.
BuildStatic_Swapped(word, cr, acc) ==
  BuildConfig(Fields(Cut(word, 1, FixedSize), Cut(word, 1 + FixedSize + KeySize, UidSize), Cut(word, 1 + FixedSize, KeySize)),
              Len(word), Bit(TktAppendCr, cr), {CfgStaticTicket}, acc)

BuildStatic(word, cr, acc) ==
  BuildConfig(Fields(Cut(word, 1, FixedSize), Cut(word, 1 + FixedSize, UidSize), Cut(word, 1 + FixedSize + UidSize, KeySize)),
              Len(word), Bit(TktAppendCr, cr), {CfgStaticTicket}, acc)

BuildYubicoOtp(cr, acc) == BuildConfig(Zeros, 1, Bit(TktAppendCr, cr), {}, acc)

Classify(f) ==
  IF TktChalResp \in f.tkt THEN IF CfgChalYubico \in f.cfg THEN "ChallengeResponse" ELSE "OathHotp"
  ELSE IF {CfgStaticTicket, CfgShortTicket} \cap f.cfg # {} THEN "StaticPassword" ELSE "YubicoOtp"

\* The status of a slot; the card lists no flags for a blank one.
Status(f) ==
  IF f = Blank THEN [kind |-> "Empty", touch |-> FALSE]
  ELSE [kind |-> Classify(f), touch |-> CfgChalBtnTrig \in f.cfg]

-----------------------------------------------------------------------------
\* Addresses.  The card takes P2 for slots 3 and 4.

\* Mutant: P2 is forgotten.
ConfigAddress_NoOffset(slot) == IF slot = 2 THEN <<3, 0>> ELSE <<1, 0>>

ConfigAddress(slot) ==
  CASE slot = 2 -> <<3, 0>> [] slot = 3 -> <<1, 2>> [] slot = 4 -> <<1, 3>> [] OTHER -> <<1, 0>>

ChalAddress(slot) ==
  CASE slot = 2 -> <<56, 0>> [] slot = 3 -> <<48, 2>> [] slot = 4 -> <<48, 3>> [] OTHER -> <<48, 0>>

Addressed(p) == CASE p[2] = 2 -> 3 [] p[2] = 3 -> 4 [] p[1] \in {3, 56} -> 2 [] OTHER -> 1

\* Mutant: an empty code is taken as it is.
ParseAcc_Raw(typed) == typed

\* An empty code is one of zeros, and so is a code of zeros.
ParseAcc(typed) == IF typed \in {"", "00"} THEN NoCode ELSE typed

\* Spaces around a password are not part of what the form takes.
LOCAL Solid(word) == {i \in DOMAIN word : word[i] # " "}
Trim(word) ==
  IF Solid(word) = {} THEN <<>>
  ELSE SubSeq(word, CHOOSE i \in Solid(word) : \A j \in Solid(word) : i <= j,
                    CHOOSE i \in Solid(word) : \A j \in Solid(word) : j <= i)

-----------------------------------------------------------------------------
\* Challenges.

\* Mutant: always the same byte.
Pad_Same(challenge) == challenge \o [i \in 1..(ChallengeFrame - Len(challenge)) |-> Seven]

Pad(challenge) ==
  challenge \o [i \in 1..(ChallengeFrame - Len(challenge)) |-> IF Last(challenge) = Seven THEN Zero ELSE Seven]

\* The card trims what equals the last byte of the frame.
Trimmed(frame) ==
  LET kept == {i \in DOMAIN frame : frame[i] # Last(frame)}
  IN  IF kept = {} THEN <<>> ELSE SubSeq(frame, 1, CHOOSE i \in kept : \A j \in kept : j <= i)

-----------------------------------------------------------------------------
Kinds == {"Empty", "YubicoOtp", "StaticPassword", "OathHotp", "ChallengeResponse"}
Wish(kind, touch, word, code) == [kind |-> kind, touch |-> touch, word |-> word, code |-> code]
Unused == Wish("Empty", FALSE, <<>>, "")

Init ==
  /\ slots = [s \in Slots |-> Blank] /\ asked = [s \in Slots |-> Unused]
  /\ answer = [slot |-> 0, challenge |-> <<>>, by |-> 0, message |-> <<>>]
  /\ ops = 0

TypeOK ==
  /\ \A s \in Slots : slots[s].tkt \cup slots[s].cfg \subseteq 0..7 /\ slots[s].acc \in (Codes \ {""}) \cup {NoCode}
  /\ \A s \in Slots : asked[s].kind \in Kinds
  /\ answer.slot \in {0} \cup Slots /\ ops \in 0..MaxOps

Call == ops < MaxOps /\ ops' = ops + 1
Opens(f, code) == f.acc \in {NoCode, ParseAcc(code)}

\* The frame goes to the slot of its address, if its code is the right one.
Configure(slot, frame, current, wish) ==
  LET at == Addressed(ConfigAddress(slot))
  IN  /\ Opens(slots[at], current)
      /\ slots' = [slots EXCEPT ![at] = frame]
      /\ asked' = [asked EXCEPT ![slot] = wish]
      /\ UNCHANGED answer

Program ==
  /\ Call
  /\ \E slot \in Slots, new \in Codes, current \in Codes, option \in BOOLEAN, cr \in BOOLEAN :
       LET acc == ParseAcc(new)
       IN  \/ Configure(slot, BuildChalResp(option, acc), current, Wish("ChallengeResponse", option, <<>>, new))
           \/ Configure(slot, BuildHotp(option, cr, acc), current, Wish("OathHotp", FALSE, <<>>, new))
           \/ Configure(slot, BuildYubicoOtp(cr, acc), current, Wish("YubicoOtp", FALSE, <<>>, new))

ProgramStatic ==
  /\ Call
  /\ \E slot \in Slots, word \in Words, new \in Codes, current \in Codes, cr \in BOOLEAN :
       /\ Trim(word) # <<>> /\ Len(Trim(word)) <= FixedSize + UidSize + KeySize
       /\ Configure(slot, BuildStatic(Trim(word), cr, ParseAcc(new)), current, Wish("StaticPassword", FALSE, word, new))

Delete ==
  /\ Call
  /\ \E slot \in Slots, current \in Codes : Configure(slot, Blank, current, Unused)

\* Slots 1 and 2; one code has to open both.
Swap ==
  /\ Call
  /\ \E current \in Codes : Opens(slots[1], current) /\ Opens(slots[2], current)
  /\ slots' = [slots EXCEPT ![1] = slots[2], ![2] = slots[1]]
  /\ asked' = [asked EXCEPT ![1] = asked[2], ![2] = asked[1]]
  /\ UNCHANGED answer

\* The Test button of a slot shown as challenge-response.
Calculate ==
  /\ Call
  /\ \E slot \in Slots, challenge \in Challenges :
       LET at == Addressed(ChalAddress(slot))
       IN  /\ Status(slots[slot]).kind = "ChallengeResponse"
           /\ Len(challenge) \in 1..(ChallengeFrame - 1)
           /\ answer' = [slot |-> slot, challenge |-> challenge, by |-> at, message |-> Trimmed(Pad(challenge))]
  /\ UNCHANGED <<slots, asked>>

Next == Program \/ ProgramStatic \/ Delete \/ Swap \/ Calculate
Spec == Init /\ [][Next]_vars

-----------------------------------------------------------------------------
\* Every slot is shown as what the user last put there.
ShownAsProgrammed == \A s \in Slots : Status(slots[s]) = [kind |-> asked[s].kind, touch |-> asked[s].touch]

\* Every slot is protected by the code the user last gave it, or by none.
ProtectedAsAsked == \A s \in Slots : slots[s].acc = ParseAcc(asked[s].code)

\* A static slot types the password that was entered.
Typed(f) == SubSeq(f.fields.fixed \o f.fields.uid \o f.fields.key, 1, f.size)
TypesWhatWasEntered == \A s \in Slots : asked[s].kind = "StaticPassword" => Typed(slots[s]) = asked[s].word

\* A challenge is answered by its slot, for the very bytes that were entered.
AnswersTheChallenge == answer.by = answer.slot /\ answer.message = answer.challenge
=============================================================================
