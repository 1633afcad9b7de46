------------------------------ MODULE CtapHid ------------------------------
(***************************************************************************)
(* One CTAPHID exchange after another (src/hal/transport/fido.rs).         *)
(*                                                                         *)
(* HidTransport opens the HID interface of a key, asks for a channel of    *)
(* its own (init_channel) and then sends one request at a time and reads   *)
(* the answer packet by packet (read_hid_response).  Another program may   *)
(* use the same key: every handle on the interface gets every packet the   *)
(* key sends, whichever channel it is for.  The key itself is slow, sends  *)
(* keepalives, answers late, refuses while busy, or falls silent.          *)
(*                                                                         *)
(* A request is one message here.  A packet carries, in place of its bytes, *)
(* the request it answers: that is what the properties tell apart.         *)
(***************************************************************************)
EXTENDS Naturals, Sequences

CONSTANTS
  Commands,      \* command bytes of requests: CBOR, vendor
  Cbor,          \* the one whose answers start with a status
  MaxCont,       \* bound: continuation packets of an answer
  MaxOpens,      \* bound: channels opened in one behaviour
  MaxRequests,   \* bound: requests sent in one behaviour
  MaxOthers,     \* bound: messages of the other program
  MaxQueue,      \* bound: packets waiting on either side
  Lenient        \* whether a caller goes on with a channel after an error

ASSUME CtapAssumption ==
  /\ {MaxCont, MaxOpens, MaxRequests, MaxOthers, MaxQueue} \subseteq Nat
  /\ Lenient \in BOOLEAN /\ Cbor \in Commands
  /\ {"init", "keepalive", "error", "cont"} \cap Commands = {}

\* CIDs: 0 is no channel (a zeroed buffer), 1 the broadcast CID, 2 what the
\* other program starts with; the key hands out the rest, each only once.
Zero == 0
Broadcast == 1
Other == 2
FirstCid == 3
\* A nonce is the number of the open() that drew it; 0 is the other program's.

Types == Commands \cup {"init", "keepalive", "error", "cont"}

\* num: an answer's number of continuation packets, a continuation packet's
\* sequence number, or the CID an init answer hands out.
Packet == [cid : Nat, type : Types, num : Nat, req : Nat]
Blank == [cid |-> Zero, type |-> "cont", num |-> 0, req |-> 0]

VARIABLES
  pc,         \* the transport's next step
  cid,        \* HidTransport::cid
  opens, sent,\* how many channels were asked for and requests written
  others,     \* how many messages the other program sent
  cmd,        \* command byte of the request
  buf,        \* packet_buf
  want,       \* continuation packets of the answer being read
  data,       \* the packets whose bytes are in response_data
  expired,    \* the deadline of this wait has passed
  inbox,      \* packets the handle has not read yet
  outbox,     \* messages the key has not taken yet
  key,        \* the answer the key is working on
  nextCid,
  otherCid,   \* the other program's channel
  result,     \* history: how the last request ended
  abandoned   \* history: a request of this channel was given up unanswered

wire == <<inbox, outbox>>
device == <<key, nextCid, otherCid>>
reader == <<cmd, buf, want, data, expired>>
counts == <<opens, sent, others>>
history == <<result, abandoned>>
vars == <<pc, cid, reader, counts, wire, device, history>>

Idle == [cid |-> Zero, type |-> "cont", cont |-> 0, next |-> 0, req |-> 0]
Waits == {"drain", "await", "first", "cont"}

TypeOK ==
  /\ pc \in {"closed", "open"} \cup Waits
  /\ cid \in Nat /\ opens \in 0..MaxOpens /\ sent \in 0..MaxRequests
  /\ others \in 0..MaxOthers
  /\ cmd \in Commands /\ buf \in Packet /\ want \in 0..MaxCont
  /\ data \in Seq(Packet) /\ (pc = "cont" => Len(data) \in 1..want)
  /\ expired \in BOOLEAN
  /\ inbox \in Seq(Packet) /\ outbox \in Seq(Packet)
  /\ key \in [cid : Nat, type : Types, cont : 0..MaxCont, next : 0..MaxCont + 1, req : Nat]
  /\ nextCid \in Nat /\ otherCid \in Nat
  /\ result \in {"none", "ok", "error"} /\ abandoned \in BOOLEAN

Init ==
  /\ pc = "closed" /\ cid = Zero /\ opens = 0 /\ sent = 0 /\ others = 0
  /\ cmd = Cbor /\ buf = Blank /\ want = 0 /\ data = <<>> /\ expired = FALSE
  /\ inbox = <<>> /\ outbox = <<>>
  /\ key = Idle /\ nextCid = FirstCid /\ otherCid = Other
  /\ result = "none" /\ abandoned = FALSE

-----------------------------------------------------------------------------
\* The key and the other program.

ToKey(m) == Len(outbox) < MaxQueue /\ outbox' = Append(outbox, m)

ToHandle(p) ==
  IF pc = "closed" THEN UNCHANGED inbox
  ELSE Len(inbox) < MaxQueue /\ inbox' = Append(inbox, p)

\* The other program sends a request, or asks for another channel.
OtherSends ==
  /\ others < MaxOthers /\ others' = others + 1
  /\ \/ ToKey([cid |-> otherCid, type |-> Cbor, num |-> 0, req |-> 0])
     \/ ToKey([cid |-> Broadcast, type |-> "init", num |-> 0, req |-> 0])
  /\ UNCHANGED <<pc, cid, reader, opens, sent, inbox, device, history>>

\* The key answers an init at any time, with a channel nobody has.
KeyAllocates ==
  /\ outbox # <<>> /\ Head(outbox).type = "init"
  /\ ToHandle([cid |-> Broadcast, type |-> "init", num |-> nextCid, req |-> Head(outbox).req])
  /\ nextCid' = nextCid + 1
  /\ otherCid' = IF Head(outbox).req = 0 THEN nextCid ELSE otherCid
  /\ outbox' = Tail(outbox)
  /\ UNCHANGED <<pc, cid, reader, counts, key, history>>

\* It works on one request at a time and refuses others.
KeyTakes ==
  /\ outbox # <<>> /\ Head(outbox).type \in Commands
  /\ outbox' = Tail(outbox)
  /\ LET m == Head(outbox) IN
       \/ /\ key = Idle
          /\ \E n \in 0..MaxCont :
               key' = [cid |-> m.cid, type |-> m.type, cont |-> n, next |-> 0, req |-> m.req]
          /\ UNCHANGED inbox
       \/ /\ key # Idle
          /\ ToHandle([cid |-> m.cid, type |-> "error", num |-> 0, req |-> m.req])
          /\ UNCHANGED key
  /\ UNCHANGED <<pc, cid, reader, counts, nextCid, otherCid, history>>

\* Bound: one keepalive waits at a time.
KeyKeepsAlive ==
  /\ key # Idle /\ key.next = 0
  /\ inbox # <<>> => inbox[Len(inbox)].type # "keepalive"
  /\ ToHandle([cid |-> key.cid, type |-> "keepalive", num |-> 0, req |-> key.req])
  /\ UNCHANGED <<pc, cid, reader, counts, outbox, device, history>>

\* The packets of an answer go out in order; instead of the first, an error may.
KeyAnswers ==
  /\ key # Idle
  /\ \/ /\ ToHandle([cid |-> key.cid, type |-> IF key.next = 0 THEN key.type ELSE "cont",
                     num |-> IF key.next = 0 THEN key.cont ELSE key.next - 1, req |-> key.req])
        /\ key' = IF key.next = key.cont THEN Idle ELSE [key EXCEPT !.next = @ + 1]
     \/ /\ key.next = 0
        /\ ToHandle([cid |-> key.cid, type |-> "error", num |-> 0, req |-> key.req])
        /\ key' = Idle
  /\ UNCHANGED <<pc, cid, reader, counts, outbox, nextCid, otherCid, history>>

-----------------------------------------------------------------------------
\* init_channel()

\* A new handle has seen nothing yet.
Open ==
  /\ pc = "closed" /\ opens < MaxOpens
  /\ opens' = opens + 1 /\ pc' = "drain" /\ expired' = FALSE
  /\ inbox' = <<>> /\ result' = "none" /\ abandoned' = FALSE
  /\ UNCHANGED <<cid, cmd, buf, want, data, sent, others, outbox, device>>

\* Packets already waiting are read away; when there is none, or the read
\* fails, the nonce is written, which may fail too.
Drain ==
  /\ pc = "drain"
  /\ \/ inbox # <<>> /\ inbox' = Tail(inbox) /\ UNCHANGED <<pc, outbox>>
     \/ /\ ToKey([cid |-> Broadcast, type |-> "init", num |-> 0, req |-> opens])
        /\ pc' = "await" /\ UNCHANGED inbox
     \/ pc' = "closed" /\ UNCHANGED wire
  /\ UNCHANGED <<cid, reader, counts, device, history>>

\* Mutant: any init answer is taken.
IsOurs_AnyNonce(p) == p.cid = Broadcast /\ p.type = "init"

IsOurs(p) == p.cid = Broadcast /\ p.type = "init" /\ p.req = opens

\* Failed reads are ignored: only the deadline ends the wait.
Await ==
  /\ pc = "await"
  /\ IF expired
     THEN pc' = "closed" /\ UNCHANGED <<cid, inbox>>
     ELSE /\ inbox # <<>> /\ inbox' = Tail(inbox)
          /\ IF IsOurs(Head(inbox))
             THEN pc' = "open" /\ cid' = Head(inbox).num
             ELSE UNCHANGED <<pc, cid>>
  /\ UNCHANGED <<reader, counts, outbox, device, history>>

-----------------------------------------------------------------------------
\* send_cbor(), send_raw()

\* After an error a caller drops the channel, unless it is one that reads what
\* it can.
Raise ==
  /\ pc' \in (IF Lenient THEN {"open", "closed"} ELSE {"closed"})
  /\ result' = "error"

\* The request is given up while the key may still answer it.
GiveUp == Raise /\ abandoned' = TRUE /\ want' = 0 /\ data' = <<>>

\* The key's error ends the request.
Refused == Raise /\ want' = 0 /\ data' = <<>> /\ UNCHANGED abandoned

\* The answer is there; a CBOR answer whose status is not 0 is an error.
Return ==
  /\ \/ pc' = "open" /\ result' = "ok"
     \/ cmd = Cbor /\ Raise
  /\ UNCHANGED abandoned

\* write_cbor_request(), which may fail.
Send ==
  /\ pc = "open" /\ sent < MaxRequests
  /\ sent' = sent + 1 /\ cmd' \in Commands
  /\ buf' = Blank /\ want' = 0 /\ data' = <<>> /\ expired' = FALSE
  /\ \/ /\ ToKey([cid |-> cid, type |-> cmd', num |-> 0, req |-> sent'])
        /\ pc' = "first" /\ result' = "none"
     \/ Raise /\ UNCHANGED outbox
  /\ UNCHANGED <<cid, opens, others, inbox, device, abandoned>>

\* A read that times out is no error and leaves the buffer as it was.
PacketRead == IF inbox = <<>> THEN buf ELSE Head(inbox)
Rest == IF inbox = <<>> THEN <<>> ELSE Tail(inbox)

\* packet_buf lives as long as the call.
Kept(p) == IF pc' \in Waits THEN p ELSE Blank

\* Mutant: the deadline is looked at only before the first packet is read.
DeadlinePassed_AtStart == expired /\ buf = Blank

\* The loop over the first packet looks at the deadline every time round.
DeadlinePassed == expired

\* Mutant: the CID of a first packet is not looked at.
Skips_KeepAlive(p) == p.type = "keepalive"

\* Other channels' packets and keepalives are passed over.
Skips(p) == p.cid # cid \/ p.type = "keepalive"

ReadFirst ==
  /\ pc = "first"
  /\ IF DeadlinePassed THEN GiveUp /\ buf' = Blank /\ UNCHANGED inbox
     ELSE LET p == PacketRead IN
          /\ inbox' = Rest
          /\ \/ Skips(p) /\ UNCHANGED <<pc, want, data, history>>
             \/ ~Skips(p) /\ p.type = "error" /\ Refused
             \/ ~Skips(p) /\ p.type \notin {cmd, "error"} /\ GiveUp
             \/ /\ ~Skips(p) /\ p.type = cmd
                /\ want' = p.num /\ data' = <<p>>
                /\ IF p.num = 0 THEN Return ELSE pc' = "cont" /\ UNCHANGED history
          /\ buf' = Kept(p)
  /\ UNCHANGED <<cid, cmd, expired, counts, outbox, device>>

\* Mutant: the sequence number is not compared.
InSequence_Any(p) == p.type = "cont"

InSequence(p) == p.type = "cont" /\ p.num = Len(data) - 1

\* Mutant: one packet too many is asked for.
IsLast_OneMore == Len(data) > want

\* The packet just read is the last of the answer.
IsLast == Len(data) = want

\* This loop does not look at the deadline.
ReadCont ==
  /\ pc = "cont"
  /\ LET p == PacketRead IN
     /\ inbox' = Rest
     /\ \/ p.cid # cid /\ UNCHANGED <<pc, want, data, history>>
        \/ p.cid = cid /\ ~InSequence(p) /\ GiveUp
        \/ /\ p.cid = cid /\ InSequence(p)
           /\ data' = Append(data, p) /\ UNCHANGED want
           /\ IF IsLast THEN Return ELSE UNCHANGED <<pc, history>>
     /\ buf' = Kept(p)
  /\ UNCHANGED <<cid, cmd, expired, counts, outbox, device>>

\* The driver fails a read, as it does once the key is unplugged.
ReadFails ==
  /\ pc \in {"first", "cont"}
  /\ GiveUp /\ buf' = Blank
  /\ UNCHANGED <<cid, cmd, expired, counts, wire, device>>

\* The transport goes out of scope.
Close ==
  /\ pc = "open" /\ pc' = "closed"
  /\ result' = "none" /\ want' = 0 /\ data' = <<>> /\ inbox' = <<>>
  /\ UNCHANGED <<cid, cmd, buf, expired, counts, outbox, device, abandoned>>

\* The clock.
Expire ==
  /\ pc \in {"await", "first", "cont"} /\ ~expired /\ expired' = TRUE
  /\ UNCHANGED <<pc, cid, cmd, buf, want, data, counts, wire, device, history>>

Transport == Drain \/ Await \/ ReadFirst \/ ReadCont

Next ==
  \/ OtherSends \/ KeyAllocates \/ KeyTakes \/ KeyKeepsAlive \/ KeyAnswers
  \/ Open \/ Send \/ ReadFails \/ Close \/ Expire \/ Transport

\* A read returns after its own time limit and time goes on.  Nothing is
\* assumed of the key or of the other program.
Spec == Init /\ [][Next]_vars /\ WF_vars(Transport) /\ WF_vars(Expire)

-----------------------------------------------------------------------------

\* What read_hid_response() returns is all packets of one answer, each once and
\* in order, even when reads time out in between and leave the packet before in
\* the buffer.
AnswerIsWhole ==
  result = "ok" =>
    /\ Len(data) = data[1].num + 1
    /\ \A i \in 2..Len(data) : data[i].num = i - 2 /\ data[i].req = data[1].req

\* It answers the request just sent, unless an earlier request of the same
\* channel was given up: CTAPHID cannot tell that one's late answer apart.
AnswerIsOwn ==
  result = "ok" /\ ~abandoned => \A i \in 1..Len(data) : data[i].req = sent

\* No packet for the other program is returned, abandoned requests or not.
ChannelsStayApart ==
  result = "ok" => \A i \in 1..Len(data) : data[i].req # 0

\* A channel in use is never the other program's, nor one of an earlier open.
ChannelIsOwn ==
  /\ [][pc = "await" /\ pc' = "open" => cid' > cid]_vars
  /\ [](pc \in {"open", "first", "cont"} => cid # otherCid)

\* Whatever the key and the other program do, waiting for a channel and waiting
\* for the first packet of an answer come to an end.
WaitsEnd ==
  /\ (pc = "await") ~> (pc # "await")
  /\ (pc = "first") ~> (pc # "first")

\* "4. Enforces the `timeout_ms` deadline across the entire read." (comment on
\* read_hid_response): reading the rest of an answer comes to an end too.
WholeReadEnds == (pc = "cont") ~> (pc # "cont")
=============================================================================
