---------------------------- MODULE CcidAssembly ----------------------------
(***************************************************************************)
(* One session with a smart-card applet (hal/transport/ccid.rs): data      *)
(* too long for one command goes out in chained fragments, an answer too   *)
(* long for one response comes back in pages, and a card that wants        *)
(* another length is asked again.  The card is external; it may refuse,    *)
(* vanish, or never come to an end.                                        *)
(***************************************************************************)
EXTENDS Naturals, Sequences, SequencesExt

CONSTANTS
  Sizes,      \* lengths of the data of a command
  Answers,    \* lengths of the answers of the card
  Chunk,      \* data bytes of one command (255)
  Full,       \* bytes of one short response (256)
  Page,       \* bytes the card puts into one response
  MaxData,    \* bytes of a whole answer (65536)
  MaxPages,   \* exchanges of one command (512)
  Continues,  \* the continuation instructions of the applets: "get", "send"
  Faulty,     \* the card may answer without end
  MaxCalls    \* bound: calls in one behaviour

CcidAssumption ==
  /\ Sizes \cup Answers \subseteq Nat
  /\ {Chunk, Full, Page, MaxData, MaxPages} \subseteq Nat \ {0}
  /\ Continues \subseteq {"get", "send"}

VARIABLES
  pc,      \* the host: "idle", "open", "ready" to send, "sent", "ok", "failed"
  ins,     \* the instruction that continues an answer, as the caller chose
  rest,    \* data that is still to be sent
  cmd,     \* the command that is sent or to be sent
  out,     \* the answer so far
  corrected, \* the length was corrected and no page has come since
  turns,   \* exchanges of the last command so far
  card,    \* the card: gathered data, the pages left, its continuation
  reply,   \* the response on its way
  call,    \* history: number, data and answer of this call
  ran      \* history: what the card ran in this call

host == <<ins, rest, cmd, out, corrected, turns>>
vars == <<pc, host, card, reply, call, ran>>

Smaller(a, b) == IF a < b THEN a ELSE b
Bytes(c, tag, n) == [i \in 1..n |-> <<c, tag, i>>]
Whole == Bytes(call.number, "answer", call.answer)
Data == Bytes(call.number, "data", call.size)

NoLe == Full + 1

\* Apdu::encode: a length goes out in one byte, zero for the full length.
WireLe(le) == IF le % Full = 0 THEN Full ELSE le % Full

\* A status word: its kind and the length that goes with it, in one byte.
Status(kind, n) == [kind |-> kind, n |-> n % Full]
Response(data, sw) == [data |-> data, sw |-> sw]
Nothing == Response(<<>>, Status("none", 0))

Command(i, chain, data, le) == [ins |-> i, chain |-> chain, data |-> data, le |-> le]

-----------------------------------------------------------------------------
\* The host.

LastFragment(data) == Len(data) <= Chunk

\* Mutant: the fragments go out without the chaining bit.
Fragment_Unchained(data, le) ==
  IF LastFragment(data) THEN Command("op", FALSE, data, le)
                        ELSE Command("op", FALSE, SubSeq(data, 1, Chunk), NoLe)

Fragment(data, le) ==
  IF LastFragment(data) THEN Command("op", FALSE, data, le)
                        ELSE Command("op", TRUE, SubSeq(data, 1, Chunk), NoLe)

After(data) == IF LastFragment(data) THEN <<>> ELSE SubSeq(data, Chunk + 1, Len(data))

\* Mutant: every applet is continued as ISO says.
Continuation_Iso(kind) == "get"

\* transceive_oath() for the applet that pages on its own, else transceive_full().
Continuation(kind) == kind

Init ==
  /\ pc = "idle" /\ ins = "get" /\ rest = <<>> /\ cmd = Command("op", FALSE, <<>>, 0)
  /\ out = <<>> /\ corrected = FALSE /\ turns = 0
  /\ card = [acc |-> <<>>, pages |-> <<>>, kind |-> "get"]
  /\ reply = Nothing /\ call = [number |-> 0, size |-> 0, answer |-> 0] /\ ran = <<>>

\* CcidSession::open: SELECT leaves the card with nothing gathered or pending.
Open ==
  /\ pc \in {"idle", "failed", "ok"}
  /\ \E k \in Continues : card' = [acc |-> <<>>, pages |-> <<>>, kind |-> k]
  /\ pc' = "open"
  /\ UNCHANGED <<host, reply, call, ran>>

\* A command of the applet: any data, with or without an answer.
Call ==
  /\ pc \in {"open", "ok"} /\ call.number < MaxCalls
  /\ \E n \in Sizes, m \in Answers :
       /\ call' = [number |-> call.number + 1, size |-> n, answer |-> m]
       /\ LET data == Bytes(call.number + 1, "data", n) IN
          /\ cmd' = Fragment(data, IF m = 0 THEN NoLe ELSE 0)
          /\ rest' = After(data)
  /\ pc' = "ready" /\ ins' = Continuation(card.kind)
  /\ out' = <<>> /\ corrected' = FALSE /\ turns' = 0 /\ ran' = <<>>
  /\ UNCHANGED <<card, reply>>

Transmit ==
  /\ pc = "ready" /\ pc' = "sent"
  /\ UNCHANGED <<host, card, reply, call, ran>>

Chained == cmd.chain
Answered == pc = "sent" /\ reply # Nothing
Fails == pc' = "failed" /\ UNCHANGED <<ins, rest, cmd, out, corrected, turns>>

\* A fragment that is not the last: anything but success ends the call.
NextFragment ==
  /\ Answered /\ Chained
  /\ IF reply.sw.kind # "ok"
       THEN Fails
       ELSE /\ pc' = "ready"
            /\ cmd' = Fragment(rest, IF call.answer = 0 THEN NoLe ELSE 0)
            /\ rest' = After(rest)
            /\ UNCHANGED <<ins, out, corrected, turns>>
  /\ reply' = Nothing
  /\ UNCHANGED <<card, call, ran>>

\* Mutant: an exchange that corrects the length or asks on is not counted.
Counted_Not == turns

Counted == turns + 1

LastTurn == Counted = MaxPages
Decoded(n) == IF n = 0 THEN Full ELSE n
Again(c) ==
  /\ pc' = IF LastTurn THEN "failed" ELSE "ready"
  /\ turns' = Counted /\ cmd' = c

WrongLength ==
  /\ reply.sw.kind = "length"
  /\ IF corrected
       THEN Fails
       ELSE /\ Again([cmd EXCEPT !.le = Decoded(reply.sw.n)])
            /\ corrected' = TRUE
            /\ UNCHANGED <<ins, rest, out>>

\* Mutant: the length of an answer is not limited.
TooLong_Never == FALSE

TooLong == Len(out) + Len(reply.data) > MaxData

\* Mutant: a page that is followed by another is not kept.
Joined_LastOnly == IF reply.sw.kind = "ok" THEN reply.data ELSE <<>>

Joined == out \o reply.data

\* Mutant: once corrected, a length is not corrected again for later pages.
StillCorrected_Kept == corrected

StillCorrected == FALSE

MorePages ==
  /\ reply.sw.kind = "more" /\ ~TooLong
  /\ out' = Joined
  /\ Again(Command(ins, FALSE, <<>>, Decoded(reply.sw.n)))
  /\ corrected' = StillCorrected
  /\ UNCHANGED <<ins, rest>>

\* The last page, or an error.
Ends ==
  /\ reply.sw.kind # "length" /\ (TooLong \/ reply.sw.kind # "more")
  /\ IF reply.sw.kind = "ok" /\ ~TooLong
       THEN pc' = "ok" /\ out' = Joined /\ UNCHANGED <<ins, rest, cmd, corrected, turns>>
       ELSE Fails

Assemble ==
  /\ Answered /\ ~Chained
  /\ WrongLength \/ MorePages \/ Ends
  /\ reply' = Nothing
  /\ UNCHANGED <<card, call, ran>>

\* The reader reports an error, or a response without a status.
TransmitFails ==
  /\ pc = "sent" /\ Fails
  /\ reply' = Nothing
  /\ UNCHANGED <<card, call, ran>>

-----------------------------------------------------------------------------
\* The card.

Receives == pc = "sent" /\ reply = Nothing

Asked == IF cmd.le = NoLe THEN Full ELSE WireLe(cmd.le)
Portion(pages) == Smaller(Len(pages), Smaller(Page, Asked))

\* Hands out the next page of what is left.
HandOut(pages) ==
  LET left == SubSeq(pages, Portion(pages) + 1, Len(pages)) IN
  /\ reply' = Response(SubSeq(pages, 1, Portion(pages)),
                       IF left = <<>> THEN Status("ok", 0) ELSE Status("more", Smaller(Len(left), Full)))
  /\ card' = [card EXCEPT !.acc = <<>>, !.pages = left]

CardGathers ==
  /\ Receives /\ cmd.ins = "op" /\ cmd.chain
  /\ reply' = Response(<<>>, Status("ok", 0))
  /\ card' = [card EXCEPT !.acc = @ \o cmd.data, !.pages = <<>>]
  /\ UNCHANGED <<pc, host, call, ran>>

CardRuns ==
  /\ Receives /\ cmd.ins = "op" /\ ~cmd.chain
  /\ ran' = Append(ran, card.acc \o cmd.data)
  /\ HandOut(Whole)
  /\ UNCHANGED <<pc, host, call>>

CardContinues ==
  /\ Receives /\ cmd.ins = card.kind
  /\ HandOut(card.pages)
  /\ UNCHANGED <<pc, host, call, ran>>

\* The length that is asked for is not the one the card has: nothing is done.
CardCorrects ==
  /\ Receives /\ ~cmd.chain /\ cmd.le # NoLe
  /\ LET pages == IF cmd.ins = "op" THEN Whole ELSE card.pages
         has == Smaller(Len(pages), Page) IN
     /\ has # 0 /\ has # Asked
     /\ reply' = Response(<<>>, Status("length", has))
  /\ UNCHANGED <<pc, host, card, call, ran>>

\* An error; an instruction that the applet does not know is one of its own.
CardRefuses ==
  /\ Receives
  /\ reply' = Response(<<>>, Status(IF cmd.ins \in {"op", card.kind} THEN "error" ELSE "unknown", 0))
  /\ card' = [card EXCEPT !.acc = <<>>, !.pages = <<>>]
  /\ UNCHANGED <<pc, host, call, ran>>

\* A card that has lost its way: lengths or pages without end.
CardRambles ==
  /\ Faulty /\ Receives
  /\ reply' \in {Response(<<>>, Status("length", 0)), Response(<<>>, Status("more", 0)),
                 Response(Whole, Status("more", 0))}
  /\ UNCHANGED <<pc, host, card, call, ran>>

Card == CardGathers \/ CardRuns \/ CardContinues \/ CardCorrects \/ CardRefuses \/ CardRambles
Host == Transmit \/ NextFragment \/ Assemble

Next == Open \/ Call \/ Host \/ TransmitFails \/ Card

\* The loop of one call runs to its end, and a reader answers or reports an
\* error: pcsc's transmit() returns.
Spec == Init /\ [][Next]_vars /\ WF_vars(Host) /\ WF_vars(Card)

-----------------------------------------------------------------------------
\* Properties.

\* Types; an answer stays below the limit of a whole answer and a call below
\* that of its exchanges, whatever the card sends.
TypeOK ==
  /\ pc \in {"idle", "open", "ready", "sent", "ok", "failed"}
  /\ ins \in {"get", "send"} /\ corrected \in BOOLEAN
  /\ turns \in 0..MaxPages /\ Len(out) <= MaxData
  /\ cmd.le \in 0..NoLe /\ Len(cmd.data) <= Chunk

\* A call that succeeds returns the whole answer of its own command, joined
\* from the pages in their order, each once.
AnswerIsWhole == pc = "ok" => out = Whole /\ ran = <<Data>>

\* However often a length is corrected or a page asked for, the card runs a
\* call at most once, and then with all of its data.
RunsOnce == ran = <<>> \/ (Len(ran) = 1 /\ ran[1] = Data)

\* A call that the card does not refuse and that fails neither at the reader
\* nor at a limit is not refused by the application: a card that corrects
\* every length and pages every answer, as it may, is served.
Served ==
  (Assemble /\ pc' = "failed") =>
     \/ reply.sw.kind = "error"
     \/ Len(Whole) > MaxData \/ turns + 1 >= MaxPages \/ Faulty
=============================================================================
