--------------------------- MODULE CtapHid_proofs ---------------------------
(***************************************************************************)
(* Proofs about CtapHid for every bound and every set of commands.         *)
(*                                                                         *)
(* That a channel is new and nobody else's rests on where init answers can *)
(* be: one that carries the nonce of this open() was made after the last   *)
(* channel was taken, so its CID is greater, and no answer with a nonce of *)
(* ours names the other program's channel.                                 *)
(*                                                                         *)
(* That what is returned is one whole answer, and the right one, rests on  *)
(* what is under way on the channel (AnswerInv): requests are numbered as  *)
(* they are sent and answered in that order, the packets of an answer wait *)
(* in order, none is missing that the key has sent, and the buffer a read  *)
(* that timed out leaves behind is never the packet wanted next.           *)
(***************************************************************************)
EXTENDS CtapHid, SequenceTheorems, TLAPS

Elems(q) == {q[i] : i \in 1..Len(q)}

LEMMA AppendElems ==
  ASSUME NEW S, NEW q \in Seq(S), NEW m \in S
  PROVE  Append(q, m) \in Seq(S) /\ Elems(Append(q, m)) \subseteq Elems(q) \cup {m}
<1>1. Append(q, m) \in Seq(S)
  OBVIOUS
<1>2. ASSUME NEW i \in 1..Len(Append(q, m)) PROVE Append(q, m)[i] \in Elems(q) \cup {m}
  BY DEF Elems
<1> QED BY <1>1, <1>2 DEF Elems

LEMMA TailElems ==
  ASSUME NEW S, NEW q \in Seq(S), q # <<>>
  PROVE  /\ Tail(q) \in Seq(S) /\ Elems(Tail(q)) \subseteq Elems(q)
         /\ Head(q) \in S /\ Head(q) \in Elems(q)
<1>1. Tail(q) \in Seq(S) /\ Head(q) \in S /\ Len(q) >= 1 /\ Head(q) = q[1]
  OBVIOUS
<1>2. ASSUME NEW i \in 1..Len(Tail(q)) PROVE Tail(q)[i] \in Elems(q)
  <2>1. i + 1 \in 1..Len(q) /\ Tail(q)[i] = q[i + 1]
    OBVIOUS
  <2> QED BY <2>1 DEF Elems
<1> QED BY <1>1, <1>2 DEF Elems

LEMMA EmptyElems == Elems(<<>>) = {} /\ \A S : <<>> \in Seq(S)
BY DEF Elems

-----------------------------------------------------------------------------
InUse == {"open", "first", "cont"}

\* What fits a buffer of the reader: the length an answer announces.
Sized(p) == p.type \in Commands => p.num \in 0..MaxCont

\* A request for a channel, whose nonce is not sent while still draining.
Asked(m) == m.type = "init" => m.req <= opens /\ (pc = "drain" => m.req < opens)

\* The answer to one.
Granted(p) ==
  p.type = "init" =>
    /\ p.num < nextCid
    /\ p.req # 0 => p.num # otherCid
    /\ p.req <= opens /\ (pc = "drain" => p.req < opens)
    /\ pc = "await" /\ p.req = opens => p.num > cid

KeyWorks == key.next <= key.cont /\ (key # Idle => key.type \in Commands)

Sizes == Sized(buf) /\ \A p \in Elems(inbox) : Sized(p)

Channels ==
  /\ cid < nextCid /\ otherCid < nextCid
  /\ pc # "closed" => opens >= 1
  /\ pc \in InUse => cid # otherCid
  /\ \A m \in Elems(outbox) : Asked(m)
  /\ \A p \in Elems(inbox) : Granted(p)

IndInv == TypeOK /\ KeyWorks /\ Sizes /\ Channels

-----------------------------------------------------------------------------
\* What sending and reading do to the queues.

LEMMA SentToKey ==
  ASSUME TypeOK, NEW m \in Packet, ToKey(m)
  PROVE  outbox' \in Seq(Packet) /\ Elems(outbox') \subseteq Elems(outbox) \cup {m}
BY AppendElems DEF TypeOK, ToKey

LEMMA SentToHandle ==
  ASSUME TypeOK, NEW p \in Packet, ToHandle(p)
  PROVE  inbox' \in Seq(Packet) /\ Elems(inbox') \subseteq Elems(inbox) \cup {p}
<1>1. CASE pc = "closed"
  BY <1>1 DEF TypeOK, ToHandle
<1>2. CASE pc # "closed"
  <2>1. inbox \in Seq(Packet) /\ inbox' = Append(inbox, p)
    BY <1>2 DEF TypeOK, ToHandle
  <2> QED BY <2>1, AppendElems
<1> QED BY <1>1, <1>2

LEMMA Bounds ==
  /\ MaxCont \in Nat /\ MaxOpens \in Nat /\ MaxRequests \in Nat /\ MaxOthers \in Nat
  /\ Cbor \in Commands /\ "init" \notin Commands
BY CtapAssumption

LEMMA BlankPacket == Blank \in Packet /\ Sized(Blank)
BY CtapAssumption DEF Blank, Packet, Types, Zero, Sized

LEMMA ReadPacket ==
  ASSUME TypeOK, Sizes
  PROVE  /\ PacketRead \in Packet /\ Sized(PacketRead)
         /\ Rest \in Seq(Packet) /\ Elems(Rest) \subseteq Elems(inbox)
<1>1. CASE inbox = <<>>
  BY <1>1, EmptyElems DEF TypeOK, Sizes, PacketRead, Rest
<1>2. CASE inbox # <<>>
  BY <1>2, TailElems DEF TypeOK, Sizes, PacketRead, Rest
<1> QED BY <1>1, <1>2

\* The steps that hand out no channel leave Channels alone: the queues get
\* nothing but what is no init, or the other program's.
LEMMA ChannelsKept ==
  ASSUME TypeOK, Channels, UNCHANGED <<cid, opens, nextCid, otherCid>>,
         pc' \in InUse => pc \in InUse,
         pc' = "drain" => pc = "drain", pc' = "await" => pc = "await",
         pc' # "closed" => pc # "closed",
         \A m \in Elems(outbox') : m \in Elems(outbox) \/ m.type # "init" \/ m.req = 0,
         \A p \in Elems(inbox') : p \in Elems(inbox) \/ p.type # "init"
  PROVE  Channels'
<1>1. ASSUME NEW m \in Elems(outbox') PROVE Asked(m)'
  <2>1. CASE m \in Elems(outbox)
    BY <2>1 DEF Channels, Asked
  <2>2. CASE m.type # "init"
    BY <2>2 DEF Asked
  <2>3. CASE m.req = 0
    BY <2>3 DEF Channels, Asked, TypeOK
  <2> QED BY <1>1, <2>1, <2>2, <2>3
<1>2. ASSUME NEW p \in Elems(inbox') PROVE Granted(p)'
  <2>1. CASE p \in Elems(inbox)
    BY <2>1 DEF Channels, Granted
  <2>2. CASE p.type # "init"
    BY <2>2 DEF Granted
  <2> QED BY <1>2, <2>1, <2>2
<1>3. (cid < nextCid /\ otherCid < nextCid)' /\ (pc # "closed" => opens >= 1)'
      /\ (pc \in InUse => cid # otherCid)'
  BY DEF Channels, InUse
<1> QED BY <1>1, <1>2, <1>3 DEF Channels

-----------------------------------------------------------------------------
\* Each action keeps IndInv.

LEMMA InitInv == Init => IndInv
<1> SUFFICES ASSUME Init PROVE IndInv
  OBVIOUS
<1>1. TypeOK
  <2>1. key \in [cid : Nat, type : Types, cont : 0..MaxCont, next : 0..MaxCont + 1, req : Nat]
    BY Bounds DEF Init, Idle, Types, Zero
  <2>2. data \in Seq(Packet) /\ inbox \in Seq(Packet) /\ outbox \in Seq(Packet)
    BY EmptyElems DEF Init
  <2>3. opens \in 0..MaxOpens /\ sent \in 0..MaxRequests /\ others \in 0..MaxOthers
        /\ want \in 0..MaxCont
    BY Bounds DEF Init
  <2>4. cid \in Nat /\ nextCid \in Nat /\ otherCid \in Nat /\ buf \in Packet /\ cmd \in Commands
    BY Bounds, BlankPacket DEF Init, Zero, FirstCid, Other
  <2> QED BY <2>1, <2>2, <2>3, <2>4 DEF Init, TypeOK
<1>2. KeyWorks
  BY DEF Init, KeyWorks, Idle
<1>3. Sizes
  BY BlankPacket, EmptyElems DEF Init, Sizes
<1>4. Channels
  BY EmptyElems DEF Init, Channels, Zero, FirstCid, Other, InUse
<1> QED BY <1>1, <1>2, <1>3, <1>4 DEF IndInv

LEMMA OtherSendsInv == IndInv /\ OtherSends => IndInv'
<1> SUFFICES ASSUME IndInv, OtherSends PROVE IndInv'
  OBVIOUS
<1>1. PICK m \in Packet : ToKey(m) /\ m.req = 0
  <2> DEFINE a == [cid |-> otherCid, type |-> Cbor, num |-> 0, req |-> 0]
             b == [cid |-> Broadcast, type |-> "init", num |-> 0, req |-> 0]
  <2>1. a \in Packet /\ b \in Packet /\ a.req = 0 /\ b.req = 0
    BY Bounds DEF IndInv, TypeOK, Packet, Types, Broadcast
  <2>2. ToKey(a) \/ ToKey(b)
    BY DEF OtherSends
  <2> HIDE DEF a, b
  <2> QED BY <2>1, <2>2
<1>2. outbox' \in Seq(Packet) /\ Elems(outbox') \subseteq Elems(outbox) \cup {m}
  BY <1>1, SentToKey DEF IndInv
<1>3. TypeOK'
  BY <1>2, CtapAssumption DEF IndInv, TypeOK, OtherSends, reader, device, history
<1>4. KeyWorks' /\ Sizes'
  BY DEF IndInv, KeyWorks, Sizes, OtherSends, reader, device
<1>5. Channels'
  <2>1. UNCHANGED <<pc, cid, opens, inbox, nextCid, otherCid>>
    BY DEF OtherSends, device
  <2> QED BY <1>1, <1>2, <2>1, ChannelsKept DEF IndInv
<1> QED BY <1>3, <1>4, <1>5 DEF IndInv

LEMMA KeyAllocatesInv == IndInv /\ KeyAllocates => IndInv'
<1> SUFFICES ASSUME IndInv, KeyAllocates PROVE IndInv'
  OBVIOUS
<1> DEFINE m == Head(outbox)
<1>1. /\ outbox' \in Seq(Packet) /\ Elems(outbox') \subseteq Elems(outbox)
      /\ m \in Packet /\ m \in Elems(outbox) /\ m.type = "init"
  BY TailElems DEF IndInv, TypeOK, KeyAllocates
<1>2. PICK p \in Packet : p = [cid |-> Broadcast, type |-> "init", num |-> nextCid, req |-> m.req]
  BY <1>1 DEF IndInv, TypeOK, Packet, Types, Broadcast
<1>3. ToHandle(p)
  BY <1>2 DEF KeyAllocates
<1>4. inbox' \in Seq(Packet) /\ Elems(inbox') \subseteq Elems(inbox) \cup {p}
  BY <1>3, SentToHandle DEF IndInv
<1>5. /\ UNCHANGED <<pc, cid, reader, counts, key, history>>
      /\ nextCid' = nextCid + 1 /\ otherCid' = IF m.req = 0 THEN nextCid ELSE otherCid
  BY DEF KeyAllocates
<1>6. TypeOK'
  BY <1>1, <1>4, <1>5 DEF IndInv, TypeOK, reader, counts, history
<1>7. KeyWorks'
  BY <1>5 DEF IndInv, KeyWorks
<1>8. Sizes'
  <2>1. Sized(p)
    BY <1>2, Bounds DEF Sized
  <2> QED BY <1>4, <1>5, <2>1 DEF IndInv, Sizes, reader
<1>9. Channels'
  <2>1. ASSUME NEW n \in Elems(outbox') PROVE Asked(n)'
    BY <1>1, <1>5, <2>1 DEF IndInv, Channels, Asked, counts
  <2>2. Asked(m)
    BY <1>1 DEF IndInv, Channels
  <2>3. Granted(p)'
    <3>1. nextCid \in Nat /\ cid < nextCid /\ otherCid < nextCid /\ m.req \in Nat
      BY <1>1 DEF IndInv, TypeOK, Channels, Packet
    <3>2. m.req <= opens /\ (pc = "drain" => m.req < opens)
      BY <1>1, <2>2 DEF Asked
    <3>3. p.num < nextCid' /\ (p.req # 0 => p.num # otherCid') /\ p.num > cid'
      BY <1>2, <1>5, <3>1 DEF IndInv, TypeOK
    <3>4. p.req <= opens' /\ (pc' = "drain" => p.req < opens')
      BY <1>2, <1>5, <3>2 DEF counts
    <3> QED BY <3>3, <3>4 DEF Granted
  <2>4. ASSUME NEW q \in Elems(inbox) PROVE Granted(q)'
    <3>1. q \in Packet
      BY DEF IndInv, TypeOK, Elems
    <3>2. Granted(q)
      BY DEF IndInv, Channels
    <3>3. CASE q.type = "init"
      <4>1. q.num \in Nat /\ q.num < nextCid /\ (q.req # 0 => q.num # otherCid) /\ nextCid \in Nat
        BY <3>1, <3>2, <3>3 DEF Granted, Packet, IndInv, TypeOK
      <4>2. q.num < nextCid' /\ (q.req # 0 => q.num # otherCid')
        BY <1>5, <4>1
      <4> QED BY <1>5, <3>2, <3>3, <4>2 DEF Granted, counts
    <3>4. CASE q.type # "init"
      BY <3>4 DEF Granted
    <3> QED BY <3>3, <3>4
  <2>5. (cid < nextCid /\ otherCid < nextCid)' /\ (pc # "closed" => opens >= 1)'
    BY <1>5 DEF IndInv, TypeOK, Channels, counts
  <2>6. (pc \in InUse => cid # otherCid)'
    BY <1>5 DEF IndInv, TypeOK, Channels, counts
  <2>7. ASSUME NEW q \in Elems(inbox') PROVE Granted(q)'
    <3>1. CASE q = p
      BY <2>3, <3>1
    <3>2. CASE q # p
      BY <1>4, <2>4, <2>7, <3>2
    <3> QED BY <3>1, <3>2
  <2> QED BY <2>1, <2>5, <2>6, <2>7 DEF Channels
<1> QED BY <1>6, <1>7, <1>8, <1>9 DEF IndInv

LEMMA KeyTakesInv == IndInv /\ KeyTakes => IndInv'
<1> SUFFICES ASSUME IndInv, KeyTakes PROVE IndInv'
  OBVIOUS
<1>1. PICK m \in Packet : m = Head(outbox) /\ m.type \in Commands
  BY TailElems DEF IndInv, TypeOK, KeyTakes
<1>2. outbox' \in Seq(Packet) /\ Elems(outbox') \subseteq Elems(outbox)
  BY TailElems DEF IndInv, TypeOK, KeyTakes
<1>3. UNCHANGED <<pc, cid, reader, counts, nextCid, otherCid, history>>
  BY DEF KeyTakes
<1>4. CASE /\ \E n \in 0..MaxCont :
                key' = [cid |-> m.cid, type |-> m.type, cont |-> n, next |-> 0, req |-> m.req]
           /\ UNCHANGED inbox
  <2>1. PICK n \in 0..MaxCont :
          key' = [cid |-> m.cid, type |-> m.type, cont |-> n, next |-> 0, req |-> m.req]
    BY <1>4
  <2>2. key' \in [cid : Nat, type : Types, cont : 0..MaxCont, next : 0..MaxCont + 1, req : Nat]
    BY <1>1, <2>1, Bounds DEF Packet
  <2>3. KeyWorks'
    BY <1>1, <2>1, Bounds DEF KeyWorks
  <2>4. TypeOK' /\ Sizes'
    BY <1>2, <1>3, <1>4, <2>2 DEF IndInv, TypeOK, Sizes, reader, counts, history
  <2>5. Channels'
    BY <1>2, <1>3, <1>4, ChannelsKept DEF IndInv, counts
  <2> QED BY <2>3, <2>4, <2>5 DEF IndInv
<1>5. CASE /\ ToHandle([cid |-> m.cid, type |-> "error", num |-> 0, req |-> m.req])
           /\ UNCHANGED key
  <2>1. PICK p \in Packet : p = [cid |-> m.cid, type |-> "error", num |-> 0, req |-> m.req]
    BY <1>1 DEF Packet, Types
  <2>2. inbox' \in Seq(Packet) /\ Elems(inbox') \subseteq Elems(inbox) \cup {p}
    BY <1>5, <2>1, SentToHandle DEF IndInv
  <2>3. Sized(p) /\ p.type # "init"
    BY <2>1, CtapAssumption DEF Sized
  <2>4. TypeOK' /\ KeyWorks'
    BY <1>2, <1>3, <1>5, <2>2 DEF IndInv, TypeOK, KeyWorks, reader, counts, history
  <2>5. Sizes'
    BY <1>3, <2>2, <2>3 DEF IndInv, Sizes, reader
  <2>6. Channels'
    BY <1>2, <1>3, <2>2, <2>3, ChannelsKept DEF IndInv, counts
  <2> QED BY <2>4, <2>5, <2>6 DEF IndInv
<1> QED BY <1>1, <1>4, <1>5 DEF KeyTakes

\* A step of the key's that puts one packet of its own into the inbox.
LEMMA KeySends ==
  ASSUME IndInv, NEW p \in Packet, ToHandle(p), Sized(p), p.type # "init",
         UNCHANGED <<pc, cid, reader, counts, outbox, nextCid, otherCid, history>>,
         key' \in [cid : Nat, type : Types, cont : 0..MaxCont, next : 0..MaxCont + 1, req : Nat],
         KeyWorks'
  PROVE  IndInv'
<1>1. inbox' \in Seq(Packet) /\ Elems(inbox') \subseteq Elems(inbox) \cup {p}
  BY SentToHandle DEF IndInv
<1>2. TypeOK' /\ Sizes'
  BY <1>1 DEF IndInv, TypeOK, Sizes, reader, counts, history
<1>3. Channels'
  BY <1>1, ChannelsKept DEF IndInv, counts
<1> QED BY <1>2, <1>3 DEF IndInv

LEMMA KeyKeepsAliveInv == IndInv /\ KeyKeepsAlive => IndInv'
<1> SUFFICES ASSUME IndInv, KeyKeepsAlive PROVE IndInv'
  OBVIOUS
<1>1. PICK p \in Packet : p = [cid |-> key.cid, type |-> "keepalive", num |-> 0, req |-> key.req]
  BY DEF IndInv, TypeOK, Packet, Types
<1>2. ToHandle(p) /\ Sized(p) /\ p.type # "init"
  BY <1>1, CtapAssumption DEF KeyKeepsAlive, Sized
<1>3. UNCHANGED <<pc, cid, reader, counts, outbox, key, nextCid, otherCid, history>>
  BY DEF KeyKeepsAlive, device
<1>4. KeyWorks' /\ key' \in [cid : Nat, type : Types, cont : 0..MaxCont, next : 0..MaxCont + 1, req : Nat]
  BY <1>3 DEF IndInv, TypeOK, KeyWorks
<1> QED BY <1>2, <1>3, <1>4, KeySends

LEMMA KeyAnswersInv == IndInv /\ KeyAnswers => IndInv'
<1> SUFFICES ASSUME IndInv, KeyAnswers PROVE IndInv'
  OBVIOUS
<1> DEFINE Answers == [cid : Nat, type : Types, cont : 0..MaxCont, next : 0..MaxCont + 1, req : Nat]
           answer == [cid |-> key.cid, type |-> IF key.next = 0 THEN key.type ELSE "cont",
                      num |-> IF key.next = 0 THEN key.cont ELSE key.next - 1, req |-> key.req]
           refusal == [cid |-> key.cid, type |-> "error", num |-> 0, req |-> key.req]
<1>1. UNCHANGED <<pc, cid, reader, counts, outbox, nextCid, otherCid, history>>
  BY DEF KeyAnswers
<1>2. /\ key \in Answers /\ key.type \in Commands /\ key.next <= key.cont
      /\ key.type # "init" /\ key.next \in Nat /\ key.cont \in 0..MaxCont
  BY Bounds DEF IndInv, TypeOK, KeyWorks, KeyAnswers
<1>3. Idle \in Answers /\ Idle.next <= Idle.cont
  BY Bounds DEF Idle, Types, Zero
<1>4. CASE ToHandle(answer) /\ key' = IF key.next = key.cont THEN Idle ELSE [key EXCEPT !.next = @ + 1]
  <2>1. PICK p \in Packet : p = answer
    <3>1. answer.num \in Nat
      BY <1>2
    <3>2. answer.type \in Types /\ key.cid \in Nat /\ key.req \in Nat
      BY <1>2 DEF Types
    <3> QED BY <3>1, <3>2 DEF Packet
  <2>2. Sized(p) /\ p.type # "init"
    BY <1>2, <2>1, CtapAssumption DEF Sized
  <2>3. key' \in Answers /\ KeyWorks'
    <3>1. CASE key.next = key.cont
      BY <1>3, <1>4, <3>1 DEF KeyWorks
    <3>2. CASE key.next # key.cont
      <4>1. key' = [key EXCEPT !.next = key.next + 1]
        BY <1>4, <3>2
      <4>2. key.next + 1 \in 0..MaxCont + 1 /\ key.next + 1 <= key.cont
        BY <1>2, <3>2, Bounds
      <4>3. key' \in Answers /\ key'.next <= key'.cont /\ key'.type \in Commands
        BY <1>2, <4>1, <4>2
      <4> QED BY <4>3 DEF KeyWorks
    <3> QED BY <3>1, <3>2
  <2> QED BY <1>1, <1>4, <2>1, <2>2, <2>3, KeySends
<1>5. CASE ToHandle(refusal) /\ key' = Idle
  <2>1. PICK p \in Packet : p = refusal
    BY <1>2 DEF Packet, Types
  <2>2. Sized(p) /\ p.type # "init"
    BY <2>1, CtapAssumption DEF Sized
  <2>3. key' \in Answers /\ KeyWorks'
    BY <1>3, <1>5 DEF KeyWorks
  <2> QED BY <1>1, <1>5, <2>1, <2>2, <2>3, KeySends
<1> QED BY <1>4, <1>5 DEF KeyAnswers

-----------------------------------------------------------------------------
\* The transport's own steps.

LEMMA OpenInv == IndInv /\ Open => IndInv'
<1> SUFFICES ASSUME IndInv, Open PROVE IndInv'
  OBVIOUS
<1>1. /\ pc' = "drain" /\ inbox' = <<>> /\ opens' = opens + 1 /\ opens < MaxOpens
      /\ UNCHANGED <<cid, cmd, buf, want, data, sent, others, outbox, key, nextCid, otherCid>>
      /\ expired' = FALSE /\ result' = "none" /\ abandoned' = FALSE
  BY DEF Open, device
<1>2. TypeOK'
  <2>1. opens' \in 0..MaxOpens
    BY <1>1, Bounds DEF IndInv, TypeOK
  <2> QED BY <1>1, <2>1, EmptyElems DEF IndInv, TypeOK, Waits
<1>3. KeyWorks' /\ Sizes'
  BY <1>1, EmptyElems DEF IndInv, KeyWorks, Sizes
<1>4. ASSUME NEW m \in Elems(outbox') PROVE Asked(m)'
  <2>1. m \in Packet /\ Asked(m)
    BY <1>1, <1>4 DEF IndInv, TypeOK, Channels, Elems
  <2> QED BY <1>1, <2>1 DEF IndInv, TypeOK, Asked, Packet
<1>5. Channels'
  BY <1>1, <1>4, EmptyElems DEF IndInv, TypeOK, Channels, InUse
<1> QED BY <1>2, <1>3, <1>5 DEF IndInv

LEMMA DrainInv == IndInv /\ Drain => IndInv'
<1> SUFFICES ASSUME IndInv, Drain PROVE IndInv'
  OBVIOUS
<1>1. pc = "drain" /\ UNCHANGED <<cid, reader, counts, device, history>>
  BY DEF Drain
<1>2. CASE inbox # <<>> /\ inbox' = Tail(inbox) /\ UNCHANGED <<pc, outbox>>
  <2>1. inbox' \in Seq(Packet) /\ Elems(inbox') \subseteq Elems(inbox)
    BY <1>2, TailElems DEF IndInv, TypeOK
  <2>2. TypeOK' /\ KeyWorks' /\ Sizes'
    BY <1>1, <1>2, <2>1 DEF IndInv, TypeOK, KeyWorks, Sizes, reader, counts, device, history
  <2>3. Channels'
    BY <1>1, <1>2, <2>1, ChannelsKept DEF IndInv, counts, device
  <2> QED BY <2>2, <2>3 DEF IndInv
<1>3. CASE /\ ToKey([cid |-> Broadcast, type |-> "init", num |-> 0, req |-> opens])
           /\ pc' = "await" /\ UNCHANGED inbox
  <2>1. PICK m \in Packet : m = [cid |-> Broadcast, type |-> "init", num |-> 0, req |-> opens]
    <3>1. opens \in Nat
      BY Bounds DEF IndInv, TypeOK
    <3> QED BY <3>1 DEF Packet, Types, Broadcast
  <2>2. outbox' \in Seq(Packet) /\ Elems(outbox') \subseteq Elems(outbox) \cup {m}
    BY <1>3, <2>1, SentToKey DEF IndInv
  <2>3. TypeOK' /\ KeyWorks' /\ Sizes'
    BY <1>1, <1>3, <2>2 DEF IndInv, TypeOK, KeyWorks, Sizes, Waits, reader, counts, device, history
  <2>4. ASSUME NEW n \in Elems(outbox') PROVE Asked(n)'
    <3>1. CASE n = m
      BY <1>1, <1>3, <2>1, <3>1 DEF IndInv, TypeOK, Asked, counts
    <3>2. CASE n # m
      BY <1>1, <1>3, <2>2, <2>4, <3>2 DEF IndInv, Channels, Asked, counts
    <3> QED BY <3>1, <3>2
  <2>5. ASSUME NEW p \in Elems(inbox') PROVE Granted(p)'
    <3>1. p \in Packet /\ Granted(p)
      BY <1>3, <2>5 DEF IndInv, TypeOK, Channels, Elems
    <3> QED BY <1>1, <1>3, <3>1 DEF IndInv, TypeOK, Granted, Packet, counts, device
  <2>6. Channels'
    BY <1>1, <1>3, <2>4, <2>5 DEF IndInv, Channels, InUse, counts, device
  <2> QED BY <2>3, <2>6 DEF IndInv
<1>4. CASE pc' = "closed" /\ UNCHANGED wire
  <2>1. TypeOK' /\ KeyWorks' /\ Sizes'
    BY <1>1, <1>4 DEF IndInv, TypeOK, KeyWorks, Sizes, reader, counts, device, history, wire
  <2>2. Channels'
    BY <1>1, <1>4, ChannelsKept DEF IndInv, InUse, counts, device, wire
  <2> QED BY <2>1, <2>2 DEF IndInv
<1> QED BY <1>2, <1>3, <1>4 DEF Drain

LEMMA AwaitInv == IndInv /\ Await => IndInv'
<1> SUFFICES ASSUME IndInv, Await PROVE IndInv'
  OBVIOUS
<1>1. pc = "await" /\ UNCHANGED <<reader, counts, outbox, device, history>>
  BY DEF Await
<1>2. CASE pc' = "closed" /\ UNCHANGED <<cid, inbox>>
  <2>1. TypeOK' /\ KeyWorks' /\ Sizes'
    BY <1>1, <1>2 DEF IndInv, TypeOK, KeyWorks, Sizes, reader, counts, device, history
  <2>2. Channels'
    BY <1>1, <1>2, ChannelsKept DEF IndInv, InUse, counts, device
  <2> QED BY <2>1, <2>2 DEF IndInv
<1>3. CASE inbox # <<>> /\ inbox' = Tail(inbox) /\ ~IsOurs(Head(inbox)) /\ UNCHANGED <<pc, cid>>
  <2>1. inbox' \in Seq(Packet) /\ Elems(inbox') \subseteq Elems(inbox)
    BY <1>3, TailElems DEF IndInv, TypeOK
  <2>2. TypeOK' /\ KeyWorks' /\ Sizes'
    BY <1>1, <1>3, <2>1 DEF IndInv, TypeOK, KeyWorks, Sizes, reader, counts, device, history
  <2>3. Channels'
    BY <1>1, <1>3, <2>1, ChannelsKept DEF IndInv, counts, device
  <2> QED BY <2>2, <2>3 DEF IndInv
<1>4. CASE /\ inbox # <<>> /\ inbox' = Tail(inbox) /\ IsOurs(Head(inbox))
           /\ pc' = "open" /\ cid' = Head(inbox).num
  <2>1. /\ inbox' \in Seq(Packet) /\ Elems(inbox') \subseteq Elems(inbox)
        /\ Head(inbox) \in Packet /\ Head(inbox) \in Elems(inbox)
    BY <1>4, TailElems DEF IndInv, TypeOK
  <2>2. cid' \in Nat /\ cid' < nextCid /\ cid' # otherCid
    <3>1. Granted(Head(inbox)) /\ opens >= 1
      BY <1>1, <2>1 DEF IndInv, Channels
    <3>2. PICK p \in Packet : p = Head(inbox)
      BY <2>1
    <3>3. p.num \in Nat /\ p.type = "init" /\ p.req = opens /\ p.req # 0 /\ cid' = p.num
      <4>1. p.type = "init" /\ p.req = opens /\ cid' = p.num
        BY <1>4, <3>2 DEF IsOurs
      <4> QED BY <3>1, <4>1 DEF Packet
    <3> QED BY <3>1, <3>2, <3>3 DEF Granted
  <2>3. TypeOK' /\ KeyWorks' /\ Sizes'
    BY <1>1, <1>4, <2>1, <2>2 DEF IndInv, TypeOK, KeyWorks, Sizes, reader, counts, device, history
  <2>4. ASSUME NEW m \in Elems(outbox') PROVE Asked(m)'
    BY <1>1, <1>4, <2>4 DEF IndInv, Channels, Asked, counts
  <2>5. ASSUME NEW p \in Elems(inbox') PROVE Granted(p)'
    <3>1. Granted(p)
      BY <2>1, <2>5 DEF IndInv, Channels
    <3> QED BY <1>1, <1>4, <3>1 DEF Granted, counts, device
  <2>6. Channels'
    BY <1>1, <1>4, <2>2, <2>4, <2>5 DEF IndInv, Channels, counts, device
  <2> QED BY <2>3, <2>6 DEF IndInv
<1> QED BY <1>2, <1>3, <1>4 DEF Await

\* A step of a reader or a caller: it opens no channel and sends no init.
LEMMA TransportKeeps ==
  ASSUME IndInv, UNCHANGED <<cid, opens, others, device>>, pc \in InUse,
         pc' \in {"open", "closed", "first", "cont"},
         pc' = "cont" => Len(data') \in 1..want',
         sent' \in 0..MaxRequests, cmd' \in Commands, buf' \in Packet, Sized(buf'),
         want' \in 0..MaxCont, data' \in Seq(Packet), expired' \in BOOLEAN,
         result' \in {"none", "ok", "error"}, abandoned' \in BOOLEAN,
         inbox' \in Seq(Packet), Elems(inbox') \subseteq Elems(inbox),
         outbox' \in Seq(Packet),
         \A m \in Elems(outbox') : m \in Elems(outbox) \/ m.type # "init"
  PROVE  IndInv'
<1>1. TypeOK'
  BY DEF IndInv, TypeOK, Waits, device
<1>2. KeyWorks' /\ Sizes'
  BY DEF IndInv, KeyWorks, Sizes, device
<1>3. Channels'
  BY ChannelsKept DEF IndInv, InUse, device
<1> QED BY <1>1, <1>2, <1>3 DEF IndInv

LEMMA SendInv == IndInv /\ Send => IndInv'
<1> SUFFICES ASSUME IndInv, Send PROVE IndInv'
  OBVIOUS
<1>1. /\ pc = "open" /\ sent < MaxRequests /\ sent' = sent + 1 /\ cmd' \in Commands
      /\ buf' = Blank /\ want' = 0 /\ data' = <<>> /\ expired' = FALSE
      /\ UNCHANGED <<cid, opens, others, inbox, device, abandoned>>
  BY DEF Send
<1>2. /\ sent' \in 0..MaxRequests /\ sent' \in Nat /\ want' \in 0..MaxCont
      /\ data' \in Seq(Packet) /\ buf' \in Packet /\ Sized(buf')
  BY <1>1, Bounds, BlankPacket, EmptyElems DEF IndInv, TypeOK
<1>3. pc \in InUse /\ inbox' \in Seq(Packet) /\ Elems(inbox') \subseteq Elems(inbox)
  BY <1>1 DEF IndInv, TypeOK, InUse
<1>4. /\ pc' \in {"open", "closed", "first"} /\ result' \in {"none", "error"}
      /\ ToKey([cid |-> cid, type |-> cmd', num |-> 0, req |-> sent']) \/ UNCHANGED outbox
  BY DEF Send, Raise
<1>5. /\ outbox' \in Seq(Packet)
      /\ \A m \in Elems(outbox') : m \in Elems(outbox) \/ m.type # "init"
  <2>1. CASE UNCHANGED outbox
    BY <2>1 DEF IndInv, TypeOK
  <2>2. CASE ToKey([cid |-> cid, type |-> cmd', num |-> 0, req |-> sent'])
    <3>1. PICK m \in Packet : m = [cid |-> cid, type |-> cmd', num |-> 0, req |-> sent']
      BY <1>1, <1>2 DEF IndInv, TypeOK, Packet, Types
    <3>2. m.type # "init"
      BY <1>1, <3>1, Bounds
    <3> QED BY <2>2, <3>1, <3>2, SentToKey DEF IndInv
  <2> QED BY <1>4, <2>1, <2>2
<1>6. abandoned' \in BOOLEAN /\ expired' \in BOOLEAN /\ pc' # "cont"
  BY <1>1, <1>4 DEF IndInv, TypeOK
<1> QED BY <1>1, <1>2, <1>3, <1>4, <1>5, <1>6, TransportKeeps

\* A request that ends in an error leaves nothing read.
LEMMA Raised ==
  ASSUME Raise PROVE pc' \in {"open", "closed"} /\ result' = "error"
BY DEF Raise

LEMMA Returned ==
  ASSUME TypeOK, Return
  PROVE  pc' \in {"open", "closed"} /\ result' \in {"ok", "error"} /\ abandoned' \in BOOLEAN
BY Raised DEF TypeOK, Return

LEMMA KeptBuffer ==
  ASSUME NEW p \in Packet, Sized(p) PROVE Kept(p) \in Packet /\ Sized(Kept(p))
BY BlankPacket DEF Kept

LEMMA GivenUp ==
  ASSUME TypeOK, GiveUp \/ Refused
  PROVE  /\ pc' \in {"open", "closed"} /\ result' = "error" /\ abandoned' \in BOOLEAN
         /\ want' \in 0..MaxCont /\ data' \in Seq(Packet)
<1>1. Raise /\ want' = 0 /\ data' = <<>> /\ abandoned' \in BOOLEAN
  BY DEF TypeOK, GiveUp, Refused
<1>2. 0 \in 0..MaxCont
  BY Bounds
<1>3. pc' \in {"open", "closed"} /\ result' = "error"
  BY <1>1, Raised
<1> QED BY <1>1, <1>2, <1>3, EmptyElems

LEMMA ReadFirstInv == IndInv /\ ReadFirst => IndInv'
<1> SUFFICES ASSUME IndInv, ReadFirst PROVE IndInv'
  OBVIOUS
<1>1. /\ pc = "first" /\ TypeOK
      /\ UNCHANGED <<cid, cmd, expired, sent, opens, others, outbox, device>>
  BY DEF ReadFirst, IndInv, counts
<1>2. CASE DeadlinePassed
  <2>1. GiveUp /\ buf' = Blank /\ UNCHANGED inbox
    BY <1>2 DEF ReadFirst
  <2> QED BY <1>1, <2>1, GivenUp, BlankPacket, TransportKeeps DEF IndInv, TypeOK, InUse
<1>3. CASE ~DeadlinePassed
  <2>1. PICK p \in Packet : p = PacketRead /\ Sized(p)
    BY ReadPacket DEF IndInv
  <2>2. inbox' \in Seq(Packet) /\ Elems(inbox') \subseteq Elems(inbox)
    BY <1>3, ReadPacket DEF ReadFirst, IndInv
  <2>3. buf' \in Packet /\ Sized(buf')
    BY <1>3, <2>1, KeptBuffer DEF ReadFirst
  <2>4. /\ pc' \in {"open", "closed", "first", "cont"}
        /\ pc' = "cont" => Len(data') \in 1..want'
        /\ want' \in 0..MaxCont /\ data' \in Seq(Packet)
        /\ result' \in {"none", "ok", "error"} /\ abandoned' \in BOOLEAN
    <3>1. CASE UNCHANGED <<pc, want, data, history>>
      BY <1>1, <3>1 DEF TypeOK, history
    <3>2. CASE GiveUp \/ Refused
      BY <1>1, <3>2, GivenUp
    <3>3. CASE p.type = cmd /\ want' = p.num /\ data' = <<p>> /\ p.num = 0 /\ Return
      BY <1>1, <3>3, Returned, Bounds
    <3>4. CASE /\ p.type = cmd /\ want' = p.num /\ data' = <<p>> /\ p.num # 0
               /\ pc' = "cont" /\ UNCHANGED history
      <4>1. p.num \in 0..MaxCont
        BY <1>1, <2>1, <3>4 DEF TypeOK, Sized
      <4>2. Len(data') \in 1..want' /\ data' \in Seq(Packet)
        BY <3>4, <4>1, Bounds
      <4> QED BY <1>1, <3>4, <4>1, <4>2 DEF TypeOK, history
    <3> QED BY <1>3, <2>1, <3>1, <3>2, <3>3, <3>4 DEF ReadFirst
  <2> QED BY <1>1, <2>2, <2>3, <2>4, TransportKeeps DEF TypeOK, InUse
<1> QED BY <1>2, <1>3

LEMMA ReadContInv == IndInv /\ ReadCont => IndInv'
<1> SUFFICES ASSUME IndInv, ReadCont PROVE IndInv'
  OBVIOUS
<1>1. /\ pc = "cont" /\ TypeOK
      /\ UNCHANGED <<cid, cmd, expired, sent, opens, others, outbox, device>>
  BY DEF ReadCont, IndInv, counts
<1>2. PICK p \in Packet : p = PacketRead /\ Sized(p)
  BY ReadPacket DEF IndInv
<1>3. inbox' \in Seq(Packet) /\ Elems(inbox') \subseteq Elems(inbox)
  BY ReadPacket DEF ReadCont, IndInv
<1>4. buf' \in Packet /\ Sized(buf')
  BY <1>2, KeptBuffer DEF ReadCont
<1>5. /\ pc' \in {"open", "closed", "first", "cont"}
      /\ pc' = "cont" => Len(data') \in 1..want'
      /\ want' \in 0..MaxCont /\ data' \in Seq(Packet)
      /\ result' \in {"none", "ok", "error"} /\ abandoned' \in BOOLEAN
  <2>1. CASE UNCHANGED <<pc, want, data, history>>
    BY <1>1, <2>1 DEF TypeOK, history
  <2>2. CASE GiveUp
    BY <1>1, <2>2, GivenUp
  <2>3. CASE data' = Append(data, p) /\ UNCHANGED want /\ IsLast /\ Return
    BY <1>1, <2>3, Returned DEF TypeOK
  <2>4. CASE data' = Append(data, p) /\ UNCHANGED want /\ ~IsLast /\ UNCHANGED <<pc, history>>
    <3>1. Len(data) \in 1..want /\ Len(data) # want /\ want \in Nat
      BY <1>1, <2>4 DEF TypeOK, IsLast
    <3>2. Len(data') = Len(data) + 1 /\ data' \in Seq(Packet)
      BY <1>1, <2>4 DEF TypeOK
    <3> QED BY <1>1, <2>4, <3>1, <3>2 DEF TypeOK, history
  <2> QED BY <1>2, <2>1, <2>2, <2>3, <2>4 DEF ReadCont
<1> QED BY <1>1, <1>3, <1>4, <1>5, TransportKeeps DEF TypeOK, InUse

LEMMA ReadFailsInv == IndInv /\ ReadFails => IndInv'
<1> SUFFICES ASSUME IndInv, ReadFails PROVE IndInv'
  OBVIOUS
<1>1. /\ pc \in InUse /\ GiveUp /\ buf' = Blank
      /\ UNCHANGED <<cid, cmd, expired, opens, sent, others, inbox, outbox, device>>
  BY DEF ReadFails, InUse, counts, wire
<1> QED BY <1>1, GivenUp, BlankPacket, TransportKeeps DEF IndInv, TypeOK

LEMMA CloseInv == IndInv /\ Close => IndInv'
<1> SUFFICES ASSUME IndInv, Close PROVE IndInv'
  OBVIOUS
<1>1. /\ pc = "open" /\ pc' = "closed"
      /\ result' = "none" /\ want' = 0 /\ data' = <<>> /\ inbox' = <<>>
      /\ UNCHANGED <<cid, cmd, buf, expired, opens, sent, others, outbox, device, abandoned>>
  BY DEF Close, counts
<1>2. Sized(buf)
  BY DEF IndInv, Sizes
<1> QED BY <1>1, <1>2, Bounds, EmptyElems, TransportKeeps DEF IndInv, TypeOK, InUse

LEMMA ExpireInv == IndInv /\ Expire => IndInv'
<1> SUFFICES ASSUME IndInv, Expire PROVE IndInv'
  OBVIOUS
<1>1. expired' = TRUE
      /\ UNCHANGED <<pc, cid, cmd, buf, want, data, counts, wire, device, history>>
  BY DEF Expire
<1>2. TypeOK' /\ KeyWorks' /\ Sizes'
  BY <1>1 DEF IndInv, TypeOK, KeyWorks, Sizes, counts, wire, device, history
<1>3. Channels'
  BY <1>1, ChannelsKept DEF IndInv, counts, wire, device
<1> QED BY <1>2, <1>3 DEF IndInv

LEMMA StepInv == IndInv /\ [Next]_vars => IndInv'
<1> SUFFICES ASSUME IndInv, [Next]_vars PROVE IndInv'
  OBVIOUS
<1>1. CASE UNCHANGED vars
  <2>1. TypeOK' /\ KeyWorks' /\ Sizes'
    BY <1>1 DEF vars, reader, counts, wire, device, history, IndInv, TypeOK, KeyWorks, Sizes
  <2>2. Channels'
    BY <1>1, ChannelsKept DEF vars, reader, counts, wire, device, history, IndInv
  <2> QED BY <2>1, <2>2 DEF IndInv
<1> QED BY <1>1, OtherSendsInv, KeyAllocatesInv, KeyTakesInv, KeyKeepsAliveInv,
           KeyAnswersInv, OpenInv, SendInv, ReadFailsInv, CloseInv, ExpireInv,
           DrainInv, AwaitInv, ReadFirstInv, ReadContInv DEF Next, Transport

-----------------------------------------------------------------------------

\* The transport's and the key's state keep their types, and an answer never
\* grows beyond the length its first packet announced.
THEOREM Typing == Spec => []TypeOK
<1>1. Spec => []IndInv
  BY InitInv, StepInv, PTL DEF Spec
<1>2. IndInv => TypeOK
  BY DEF IndInv
<1> QED BY <1>1, <1>2, PTL

\* What init_channel() returns is a channel that was not used before, by
\* this program or by the other one, and it stays so.
THEOREM ChannelsAreOwn == Spec => ChannelIsOwn
<1>1. Spec => []IndInv
  BY InitInv, StepInv, PTL DEF Spec
<1>2. IndInv => (pc \in {"open", "first", "cont"} => cid # otherCid)
  BY DEF IndInv, Channels, InUse
<1>3. IndInv /\ [Next]_vars => [pc = "await" /\ pc' = "open" => cid' > cid]_vars
  <2> SUFFICES ASSUME IndInv, Next, pc = "await", pc' = "open" PROVE cid' > cid
    BY DEF vars
  <2>1. Await
    BY DEF Next, Transport, OtherSends, KeyAllocates, KeyTakes, KeyKeepsAlive, KeyAnswers,
           Open, Send, ReadFails, Close, Expire, Drain, ReadFirst, ReadCont
  <2>2. inbox # <<>> /\ IsOurs(Head(inbox)) /\ cid' = Head(inbox).num
    BY <2>1 DEF Await
  <2>3. Granted(Head(inbox))
    BY <2>2, TailElems DEF IndInv, TypeOK, Channels
  <2> QED BY <2>2, <2>3 DEF Granted, IsOurs
<1> QED BY <1>1, <1>2, <1>3, PTL DEF Spec, ChannelIsOwn

-----------------------------------------------------------------------------
\* What is under way on a channel: c is the channel, o the messages for the key,
\* k what the key works on, q the packets for the handle.

\* A message, an answer or a packet of the channel.
On(c, x) == x.cid = c /\ x.type # "init"

\* The key works on request r of the channel.
WorksOn(c, k, r) == k # Idle /\ On(c, k) /\ k.req = r

\* Two packets of one request, in the order in which the key sends them.
Before(p, x) ==
  \/ p.type = "keepalive"
  \/ p.type \in Commands /\ x.type = "cont" /\ x.num < p.num
  \/ p.type = "cont" /\ x.type = "cont" /\ p.num < x.num

\* A packet that was sent of what the key still works on.
SentOf(k, p) ==
  \/ p.type = "keepalive"
  \/ p.type \in Commands /\ k.next > 0 /\ k.cont = p.num
  \/ p.type = "cont" /\ p.num + 1 < k.next

\* Continuation packet n of request r.
Piece(c, p, r, n) == On(c, p) /\ p.type = "cont" /\ p.req = r /\ p.num = n

\* Behind position a, pieces f to l - 1 of request r are still to be read: the
\* key has yet to send them, or they wait, and before any other request's.
Continues(c, k, q, r, f, l, a) ==
  /\ \A n \in f..(l - 1) :
       \/ WorksOn(c, k, r) /\ k.next <= n + 1
       \/ \E j \in (a + 1)..Len(q) : Piece(c, q[j], r, n)
  /\ \A i \in (a + 1)..Len(q) :
       On(c, q[i]) /\ q[i].type = "cont" /\ q[i].req # r =>
         \A n \in f..(l - 1) : \E j \in (a + 1)..(i - 1) : Piece(c, q[j], r, n)

\* The requests that something under way on the channel is of.
Live(c, o, k, q) ==
  {x.req : x \in {y \in Elems(o) \cup Elems(q) : On(c, y)}}
    \cup (IF k # Idle /\ On(c, k) THEN {k.req} ELSE {})

\* The requests of the channel the key has yet to take are later than r.
Below(c, o, r) == \A m \in Elems(o) : On(c, m) => r < m.req

\* Requests are numbered as they are sent, up to s, and are answered in order.
Requests(c, o, k, q, s) ==
  /\ Live(c, o, k, q) \subseteq 1..s
  /\ \A i, j \in 1..Len(o) : i < j /\ On(c, o[i]) /\ On(c, o[j]) => o[i].req < o[j].req
  /\ k # Idle /\ On(c, k) => Below(c, o, k.req)
  /\ \A p \in Elems(q) : On(c, p) => Below(c, o, p.req)

\* The packets of one answer come in order and without another's in between.
Order(c, k, q) ==
  /\ \A p \in Elems(q) : On(c, p) /\ WorksOn(c, k, p.req) => SentOf(k, p)
  /\ \A i, j \in 1..Len(q) :
       i < j /\ On(c, q[i]) /\ On(c, q[j]) /\ q[i].req = q[j].req => Before(q[i], q[j])
  /\ \A a \in 1..Len(q) :
       On(c, q[a]) /\ q[a].type \in Commands => Continues(c, k, q, q[a].req, 0, q[a].num, a)

\* What is left of the answer whose first packet p was read, with n pieces.
Remains(c, o, k, q, p, n) ==
  /\ Below(c, o, p.req)
  /\ WorksOn(c, k, p.req) => SentOf(k, p)
  /\ \A x \in Elems(q) : On(c, x) /\ x.req = p.req => Before(p, x)
  /\ Continues(c, k, q, p.req, n, p.num, 0)

\* Nothing is under way on the channel c.
Unused(c) == Live(c, outbox, key, inbox) = {}

Fresh ==
  /\ \A x \in Elems(outbox) \cup Elems(inbox) : x.type # "init" => x.cid < nextCid
  /\ key # Idle => key.cid < nextCid
  /\ pc = "await" => \A p \in Elems(inbox) : p.type = "init" /\ p.req = opens => Unused(p.num)

\* The packets read so far are of one answer, as they should be.
InOrder(d) == \A i \in 2..Len(d) : d[i].num = i - 2 /\ d[i].req = d[1].req

Busy ==
  pc \in InUse =>
    /\ Requests(cid, outbox, key, inbox, sent) /\ Order(cid, key, inbox)
    /\ ~abandoned => Live(cid, outbox, key, inbox) \subseteq (IF pc = "open" THEN {} ELSE {sent})

\* The buffer holds nothing that could be taken for the next packet.
Stale ==
  /\ pc = "first" /\ buf.cid = cid => buf.type \notin Commands \cup {"error"}
  /\ pc = "cont" /\ buf.cid = cid => ~InSequence(buf)

Part ==
  pc = "cont" =>
    /\ On(cid, data[1]) /\ data[1].type \in Commands
    /\ want = data[1].num /\ InOrder(data)
    /\ data[1].req \in 1..sent /\ (~abandoned => data[1].req = sent)
    /\ Remains(cid, outbox, key, inbox, data[1], Len(data) - 1)

Whole ==
  result = "ok" =>
    /\ pc = "open" /\ Len(data) = data[1].num + 1 /\ InOrder(data)
    /\ data[1].req # 0 /\ (~abandoned => data[1].req = sent)

AnswerInv == Fresh /\ Busy /\ Stale /\ Part /\ Whole

-----------------------------------------------------------------------------
\* Lemmas about one channel's messages and packets.

LEMMA AppendAt ==
  ASSUME NEW S, NEW q \in Seq(S), NEW p \in S
  PROVE  /\ Append(q, p) \in Seq(S) /\ Len(Append(q, p)) = Len(q) + 1 /\ Len(q) \in Nat
         /\ \A i \in 1..Len(q) : Append(q, p)[i] = q[i]
         /\ Append(q, p)[Len(q) + 1] = p
OBVIOUS

LEMMA TailAt ==
  ASSUME NEW S, NEW q \in Seq(S), q # <<>>
  PROVE  /\ Tail(q) \in Seq(S) /\ Len(Tail(q)) = Len(q) - 1 /\ Len(q) \in Nat \ {0}
         /\ \A i \in 1..Len(Tail(q)) : i + 1 \in 1..Len(q) /\ Tail(q)[i] = q[i + 1]
         /\ Head(q) = q[1]
OBVIOUS

LEMMA Kinds == {"init", "keepalive", "error", "cont"} \cap Commands = {}
BY CtapAssumption

\* The key puts p into the queue and works on as k2.
Sends(c, o, k, p, k2) ==
  /\ \A r : WorksOn(c, k2, r) => WorksOn(c, k, r) /\ k2.cont = k.cont /\ k2.next \in {k.next, k.next + 1}
  /\ On(c, p) /\ WorksOn(c, k2, p.req) => SentOf(k2, p)
  /\ \A r, n : WorksOn(c, k, r) /\ 0 < k.next /\ k.next <= n + 1 /\ n < k.cont /\ n \in Nat =>
       (WorksOn(c, k2, r) /\ k2.next <= n + 1) \/ Piece(c, p, r, n)
  /\ On(c, p) /\ p.type = "cont" => WorksOn(c, k, p.req)
  /\ On(c, p) /\ p.type \in Commands => p.num = 0 \/ (WorksOn(c, k2, p.req) /\ k2.next <= 1)
  /\ \A x \in Packet : On(c, p) /\ On(c, x) /\ x.req = p.req /\ Below(c, o, x.req)
                      /\ (WorksOn(c, k, x.req) => SentOf(k, x)) => Before(x, p)

LEMMA ContinuesSent ==
  ASSUME NEW c, NEW o, NEW k, NEW k2, NEW q \in Seq(Packet), NEW p \in Packet,
         NEW r, NEW f \in Nat, NEW l \in Nat, NEW a \in 0..Len(q),
         Continues(c, k, q, r, f, l, a), Sends(c, o, k, p, k2),
         WorksOn(c, k, r) => 0 < k.next /\ k.cont = l
  PROVE  Continues(c, k2, Append(q, p), r, f, l, a)
<1> DEFINE Q == Append(q, p)
<1>1. /\ Len(Q) = Len(q) + 1 /\ Len(q) \in Nat /\ Q[Len(q) + 1] = p
      /\ \A i \in 1..Len(q) : Q[i] = q[i]
  BY AppendAt
<1> HIDE DEF Q
<1>2. ASSUME NEW n \in f..(l - 1)
      PROVE  \/ WorksOn(c, k2, r) /\ k2.next <= n + 1
             \/ \E j \in (a + 1)..Len(Q) : Piece(c, Q[j], r, n)
  <2>1. CASE WorksOn(c, k, r) /\ k.next <= n + 1
    <3>1. (WorksOn(c, k2, r) /\ k2.next <= n + 1) \/ Piece(c, p, r, n)
      <4>1. n \in Nat /\ n < l
        OBVIOUS
      <4> QED BY <2>1, <4>1 DEF Sends
    <3> QED BY <1>1, <3>1
  <2>2. CASE \E j \in (a + 1)..Len(q) : Piece(c, q[j], r, n)
    <3>1. PICK j \in (a + 1)..Len(q) : Piece(c, q[j], r, n)
      BY <2>2
    <3>2. j \in 1..Len(q) /\ j \in (a + 1)..Len(Q)
      BY <1>1
    <3> QED BY <1>1, <3>1, <3>2
  <2> QED BY <2>1, <2>2 DEF Continues
<1>3. ASSUME NEW i \in (a + 1)..Len(Q), On(c, Q[i]), Q[i].type = "cont", Q[i].req # r,
             NEW n \in f..(l - 1)
      PROVE  \E j \in (a + 1)..(i - 1) : Piece(c, Q[j], r, n)
  <2>1. \E j \in (a + 1)..(i - 1) : j \in 1..Len(q) /\ Piece(c, q[j], r, n)
    <3>1. CASE i \in 1..Len(q)
      <4>1. On(c, q[i]) /\ q[i].type = "cont" /\ q[i].req # r /\ i \in (a + 1)..Len(q)
        BY <1>1, <1>3, <3>1
      <4>2. PICK j \in (a + 1)..(i - 1) : Piece(c, q[j], r, n)
        BY <4>1 DEF Continues
      <4> QED BY <3>1, <4>2
    <3>2. CASE i = Len(q) + 1
      <4>1. On(c, p) /\ p.type = "cont" /\ p.req # r
        BY <1>1, <1>3, <3>2
      <4>2. ~WorksOn(c, k, r)
        BY <4>1 DEF Sends, WorksOn
      <4>3. PICK j \in (a + 1)..Len(q) : Piece(c, q[j], r, n)
        BY <4>2 DEF Continues
      <4> QED BY <1>1, <3>2, <4>3
    <3> QED BY <1>1, <3>1, <3>2
  <2> QED BY <1>1, <2>1
<1> QED BY <1>2, <1>3 DEF Continues, Q

\* What stands when one more packet is sent after those that were.
LEMMA SentOn ==
  ASSUME NEW c, NEW o, NEW k, NEW k2, NEW p, NEW x, On(c, x), Sends(c, o, k, p, k2),
         WorksOn(c, k, x.req) => SentOf(k, x), x \in Packet, k.next \in Nat
  PROVE  WorksOn(c, k2, x.req) => SentOf(k2, x)
<1>1. ASSUME WorksOn(c, k2, x.req) PROVE SentOf(k2, x)
  <2>1. SentOf(k, x) /\ k2.cont = k.cont /\ k2.next \in {k.next, k.next + 1}
    BY <1>1 DEF Sends
  <2> QED BY <2>1 DEF SentOf, Packet
<1> QED BY <1>1

LEMMA OrderSent ==
  ASSUME NEW c, NEW o, NEW k, NEW k2, NEW q \in Seq(Packet), NEW p \in Packet, k.next \in Nat,
         Order(c, k, q), Sends(c, o, k, p, k2),
         \A x \in Elems(q) : On(c, x) => Below(c, o, x.req),
         \A x \in Elems(q) \cup {p} : x.type \in Commands => x.num \in Nat
  PROVE  Order(c, k2, Append(q, p))
<1> DEFINE Q == Append(q, p)
<1>1. /\ Len(Q) = Len(q) + 1 /\ Len(q) \in Nat /\ Q[Len(q) + 1] = p
      /\ \A i \in 1..Len(q) : Q[i] = q[i]
  BY AppendAt
<1>2. Elems(Q) \subseteq Elems(q) \cup {p}
  BY AppendElems
<1> HIDE DEF Q
<1>3. ASSUME NEW x \in Elems(Q), On(c, x) PROVE WorksOn(c, k2, x.req) => SentOf(k2, x)
  <2>1. CASE x = p
    BY <1>3, <2>1 DEF Sends
  <2>2. CASE x \in Elems(q)
    <3>1. x \in Packet
      BY <2>2 DEF Elems
    <3>2. WorksOn(c, k, x.req) => SentOf(k, x)
      BY <1>3, <2>2 DEF Order
    <3> QED BY <1>3, <3>1, <3>2, SentOn
  <2> QED BY <1>2, <2>1, <2>2
<1>4. ASSUME NEW i \in 1..Len(Q), NEW j \in 1..Len(Q), i < j,
             On(c, Q[i]), On(c, Q[j]), Q[i].req = Q[j].req
      PROVE  Before(Q[i], Q[j])
  <2>1. i \in 1..Len(q) /\ Q[i] = q[i] /\ q[i] \in Elems(q)
    BY <1>1, <1>4 DEF Elems
  <2>2. CASE j \in 1..Len(q)
    BY <1>1, <1>4, <2>1, <2>2 DEF Order
  <2>3. CASE j = Len(q) + 1
    <3>1. q[i] \in Packet /\ Q[j] = p /\ On(c, p) /\ On(c, q[i]) /\ q[i].req = p.req
      BY <1>1, <1>4, <2>1, <2>3
    <3>2. Below(c, o, q[i].req) /\ (WorksOn(c, k, q[i].req) => SentOf(k, q[i]))
      BY <2>1, <3>1 DEF Order
    <3> QED BY <2>1, <3>1, <3>2 DEF Sends
  <2> QED BY <1>1, <2>2, <2>3
<1>5. ASSUME NEW a \in 1..Len(Q), On(c, Q[a]), Q[a].type \in Commands
      PROVE  Continues(c, k2, Q, Q[a].req, 0, Q[a].num, a)
  <2>1. CASE a \in 1..Len(q)
    <3>1. Q[a] = q[a] /\ q[a] \in Elems(q) /\ q[a].num \in Nat /\ a \in 0..Len(q)
      BY <1>1, <1>5, <2>1 DEF Elems
    <3>2. Continues(c, k, q, q[a].req, 0, q[a].num, a)
      BY <1>5, <2>1, <3>1 DEF Order
    <3>3. WorksOn(c, k, q[a].req) => 0 < k.next /\ k.cont = q[a].num
      BY <1>5, <3>1, Kinds DEF Order, SentOf
    <3> QED BY <3>1, <3>2, <3>3, ContinuesSent DEF Q
  <2>2. CASE a = Len(q) + 1
    <3>1. On(c, p) /\ p.type \in Commands /\ Q[a] = p /\ p.num \in Nat
      BY <1>1, <1>5, <2>2
    <3>2. p.num = 0 \/ (WorksOn(c, k2, p.req) /\ k2.next <= 1)
      BY <3>1 DEF Sends
    <3>3. ASSUME NEW n \in 0..(p.num - 1) PROVE WorksOn(c, k2, p.req) /\ k2.next <= n + 1
      <4>1. WorksOn(c, k2, p.req) /\ k2.next <= 1 /\ n >= 0
        BY <3>1, <3>2
      <4>2. WorksOn(c, k, p.req) /\ k2.next \in {k.next, k.next + 1}
        BY <4>1 DEF Sends
      <4> QED BY <4>1, <4>2
    <3>4. (a + 1)..Len(Q) = {}
      BY <1>1, <2>2
    <3> QED BY <3>1, <3>3, <3>4 DEF Continues
  <2> QED BY <1>1, <2>1, <2>2
<1> QED BY <1>3, <1>4, <1>5 DEF Order, Q

LEMMA LiveHas ==
  ASSUME NEW c, NEW o, NEW k, NEW q
  PROVE  /\ \A x \in Elems(o) \cup Elems(q) : On(c, x) => x.req \in Live(c, o, k, q)
         /\ \A r : WorksOn(c, k, r) => r \in Live(c, o, k, q)
         /\ \A r \in Live(c, o, k, q) :
              \/ WorksOn(c, k, r)
              \/ \E x \in Elems(o) \cup Elems(q) : On(c, x) /\ x.req = r
BY DEF Live, WorksOn

LEMMA LiveFewer ==
  ASSUME NEW c, NEW o, NEW k, NEW q, NEW o2, NEW k2, NEW q2, NEW R,
         Live(c, o, k, q) \subseteq R,
         \A x \in Elems(o2) \cup Elems(q2) : On(c, x) =>
           x \in Elems(o) \cup Elems(q) \/ x.req \in R,
         \A r : WorksOn(c, k2, r) => r \in R
  PROVE  Live(c, o2, k2, q2) \subseteq R
<1>1. ASSUME NEW r \in Live(c, o2, k2, q2) PROVE r \in R
  <2>1. CASE WorksOn(c, k2, r)
    BY <2>1
  <2>2. CASE \E x \in Elems(o2) \cup Elems(q2) : On(c, x) /\ x.req = r
    BY <2>2, LiveHas
  <2> QED BY <1>1, <2>1, <2>2, LiveHas
<1> QED BY <1>1

\* What is gone from either queue.
LEMMA FewerRequests ==
  ASSUME NEW c, NEW o \in Seq(Packet), NEW k, NEW q, NEW s, NEW o2, NEW q2,
         Requests(c, o, k, q, s), Elems(q2) \subseteq Elems(q),
         o2 = o \/ (o # <<>> /\ o2 = Tail(o))
  PROVE  Requests(c, o2, k, q2, s) /\ Elems(o2) \subseteq Elems(o)
<1>1. Elems(o2) \subseteq Elems(o)
  BY TailElems
<1>2. Live(c, o2, k, q2) \subseteq 1..s
  <2>1. Live(c, o2, k, q2) \subseteq Live(c, o, k, q)
    BY <1>1 DEF Live
  <2> QED BY <2>1 DEF Requests
<1>3. ASSUME NEW i \in 1..Len(o2), NEW j \in 1..Len(o2), i < j, On(c, o2[i]), On(c, o2[j])
      PROVE  o2[i].req < o2[j].req
  <2>1. CASE o2 = o
    BY <1>3, <2>1 DEF Requests
  <2>2. CASE o # <<>> /\ o2 = Tail(o)
    <3>1. /\ i + 1 \in 1..Len(o) /\ o2[i] = o[i + 1] /\ j + 1 \in 1..Len(o) /\ o2[j] = o[j + 1]
          /\ i + 1 < j + 1
      BY <1>3, <2>2, TailAt
    <3> QED BY <1>3, <3>1 DEF Requests
  <2> QED BY <2>1, <2>2
<1> QED BY <1>1, <1>2, <1>3 DEF Requests, Below

\* What a packet sent keeps: it is of a request the key knows of already.
LEMMA RequestsSent ==
  ASSUME NEW c, NEW o \in Seq(Packet), NEW o2, NEW k, NEW k2, NEW q \in Seq(Packet),
         NEW p \in Packet, NEW s,
         Requests(c, o, k, q, s), Sends(c, o, k, p, k2), o2 = o \/ (o # <<>> /\ o2 = Tail(o)),
         On(c, p) => p.req \in Live(c, o, k, q) /\ Below(c, o2, p.req)
  PROVE  Requests(c, o2, k2, Append(q, p), s)
<1>1. Requests(c, o2, k, q, s) /\ Elems(o2) \subseteq Elems(o)
  BY FewerRequests
<1>2. Elems(Append(q, p)) \subseteq Elems(q) \cup {p}
  BY AppendElems
<1>3. Live(c, o2, k2, Append(q, p)) \subseteq 1..s
  <2>1. \A r : WorksOn(c, k2, r) => r \in 1..s
    BY LiveHas DEF Requests, Sends
  <2>2. On(c, p) => p.req \in 1..s
    BY DEF Requests
  <2>3. Live(c, o, k, q) \subseteq 1..s
    BY DEF Requests
  <2>4. \A x \in Elems(o2) \cup Elems(Append(q, p)) : On(c, x) =>
          x \in Elems(o) \cup Elems(q) \/ x.req \in 1..s
    BY <1>1, <1>2, <2>2
  <2>5. ASSUME NEW r \in Live(c, o2, k2, Append(q, p)) PROVE r \in 1..s
    BY <2>1, <2>3, <2>4, <2>5, LiveHas
  <2> QED BY <2>5
<1>4. k2 # Idle /\ On(c, k2) => Below(c, o2, k2.req)
  BY <1>1 DEF Requests, Sends, WorksOn
<1> QED BY <1>1, <1>2, <1>3, <1>4 DEF Requests

LEMMA LiveSent ==
  ASSUME NEW c, NEW o \in Seq(Packet), NEW o2, NEW k, NEW k2, NEW q \in Seq(Packet),
         NEW p \in Packet, \A r : WorksOn(c, k2, r) => WorksOn(c, k, r),
         o2 = o \/ (o # <<>> /\ o2 = Tail(o)), On(c, p) => p.req \in Live(c, o, k, q)
  PROVE  Live(c, o2, k2, Append(q, p)) \subseteq Live(c, o, k, q)
<1>1. Elems(o2) \subseteq Elems(o) /\ Elems(Append(q, p)) \subseteq Elems(q) \cup {p}
  BY TailElems, AppendElems
<1>2. \A r : WorksOn(c, k2, r) => r \in Live(c, o, k, q)
  BY LiveHas
<1> QED BY <1>1, <1>2, LiveFewer

LEMMA RemainsSent ==
  ASSUME NEW c, NEW o \in Seq(Packet), NEW o2, NEW k, NEW k2, NEW q \in Seq(Packet),
         NEW p \in Packet, NEW d \in Packet, NEW n \in Nat, k.next \in Nat,
         On(c, d), d.type \in Commands, Remains(c, o, k, q, d, n),
         Sends(c, o, k, p, k2), o2 = o \/ (o # <<>> /\ o2 = Tail(o))
  PROVE  Remains(c, o2, k2, Append(q, p), d, n)
<1>1. Elems(o2) \subseteq Elems(o) /\ Elems(Append(q, p)) \subseteq Elems(q) \cup {p}
  BY TailElems, AppendElems
<1>2. Below(c, o2, d.req)
  BY <1>1 DEF Remains, Below
<1>3. WorksOn(c, k2, d.req) => SentOf(k2, d)
  BY SentOn DEF Remains
<1>4. ASSUME NEW x \in Elems(Append(q, p)), On(c, x), x.req = d.req PROVE Before(d, x)
  <2>1. CASE x = p
    BY <1>4, <2>1 DEF Remains, Sends
  <2> QED BY <1>1, <1>4, <2>1 DEF Remains
<1>5. Continues(c, k2, Append(q, p), d.req, n, d.num, 0)
  <2>1. WorksOn(c, k, d.req) => 0 < k.next /\ k.cont = d.num
    BY Kinds DEF Remains, SentOf
  <2>2. d.num \in Nat /\ 0 \in 0..Len(q)
    BY DEF Packet
  <2> QED BY <2>1, <2>2, ContinuesSent DEF Remains
<1> QED BY <1>2, <1>3, <1>4, <1>5 DEF Remains

-----------------------------------------------------------------------------
\* What the key puts into the queue is Sends of every channel.

Answers == [cid : Nat, type : Types, cont : 0..MaxCont, next : 0..MaxCont + 1, req : Nat]

LEMMA ForeignSends ==
  ASSUME NEW c, NEW o, NEW k, NEW p, NEW k2, ~On(c, p),
         k2 = k \/ (~On(c, k) /\ (k2 = Idle \/ ~On(c, k2)))
  PROVE  Sends(c, o, k, p, k2)
BY DEF Sends, WorksOn

\* What the key tells of the request it works on.
KeyTells(k, p) == p.cid = k.cid /\ p.req = k.req /\ k # Idle

LEMMA KeepaliveSends ==
  ASSUME NEW c, NEW o, NEW k \in Answers, NEW p \in Packet, KeyTells(k, p),
         k.type # "init", p.type = "keepalive", k.next = 0
  PROVE  Sends(c, o, k, p, k)
<1>1. CASE ~On(c, k)
  BY <1>1, ForeignSends DEF On, KeyTells
<1>2. CASE On(c, k)
  <2>1. ASSUME NEW x \in Packet, SentOf(k, x) PROVE Before(x, p)
    BY <2>1 DEF SentOf, Before, Packet
  <2>2. WorksOn(c, k, p.req) /\ SentOf(k, p) /\ p.type \notin Commands
    BY <1>2, Kinds DEF KeyTells, WorksOn, SentOf
  <2> QED BY <2>1, <2>2 DEF Sends
<1> QED BY <1>1, <1>2

LEMMA RefusalSends ==
  ASSUME NEW c, NEW o, NEW k \in Answers, NEW p \in Packet, KeyTells(k, p),
         k.type # "init", p.type = "error", k.next = 0
  PROVE  Sends(c, o, k, p, Idle)
<1>1. CASE ~On(c, k)
  BY <1>1, ForeignSends DEF On, KeyTells
<1>2. CASE On(c, k)
  <2>1. ASSUME NEW x \in Packet, SentOf(k, x) PROVE Before(x, p)
    BY <2>1 DEF SentOf, Before, Packet
  <2>2. WorksOn(c, k, p.req) /\ p.type \notin Commands
    BY <1>2, Kinds DEF KeyTells, WorksOn
  <2>3. \A r : ~WorksOn(c, Idle, r)
    BY DEF WorksOn
  <2> QED BY <2>1, <2>2, <2>3 DEF Sends
<1> QED BY <1>1, <1>2

LEMMA AnswerSends ==
  ASSUME NEW c, NEW o, NEW k \in Answers, NEW p \in Packet, NEW k2, KeyTells(k, p),
         k.type \in Commands, k.next <= k.cont,
         p.type = IF k.next = 0 THEN k.type ELSE "cont",
         p.num = IF k.next = 0 THEN k.cont ELSE k.next - 1,
         k2 = IF k.next = k.cont THEN Idle ELSE [k EXCEPT !.next = k.next + 1]
  PROVE  Sends(c, o, k, p, k2)
<1>1. /\ k.next \in Nat /\ k.cont \in Nat /\ p.num \in Nat
      /\ k.type # "init" /\ k.type # "cont" /\ k.type # "keepalive"
  BY Kinds, Bounds DEF Answers
<1>2. CASE ~On(c, k)
  <2>1. ~On(c, p)
    BY <1>1, <1>2 DEF On, KeyTells
  <2>2. k2 = Idle \/ ~On(c, k2)
    BY <1>2 DEF On
  <2> QED BY <1>2, <2>1, <2>2, ForeignSends
<1>3. CASE On(c, k)
  <2>1. /\ WorksOn(c, k, p.req) /\ On(c, p)
        /\ \A r : WorksOn(c, k, r) => r = p.req
    BY <1>1, <1>3 DEF KeyTells, WorksOn, On
  <2>2. k.next # k.cont => /\ k2.next = k.next + 1 /\ k2.cont = k.cont
                           /\ \A r : WorksOn(c, k2, r) <=> r = p.req
    <3> SUFFICES ASSUME k.next # k.cont
                 PROVE  /\ k2.next = k.next + 1 /\ k2.cont = k.cont
                        /\ \A r : WorksOn(c, k2, r) <=> r = p.req
      OBVIOUS
    <3>1. k2 = [k EXCEPT !.next = k.next + 1]
      OBVIOUS
    <3>2. k2.next = k.next + 1 /\ k2.cont = k.cont /\ k2.cid = k.cid /\ k2.type = k.type /\ k2.req = k.req
      BY <3>1
    <3>3. k2 # Idle
      BY <1>1, <3>2 DEF Idle
    <3> QED BY <1>3, <3>2, <3>3 DEF KeyTells, WorksOn, On
  <2>3. k.next = k.cont => \A r : ~WorksOn(c, k2, r)
    BY DEF WorksOn
  <2>4. \A r : WorksOn(c, k2, r) => WorksOn(c, k, r) /\ k2.cont = k.cont /\ k2.next \in {k.next, k.next + 1}
    BY <2>1, <2>2, <2>3
  <2>5. On(c, p) /\ WorksOn(c, k2, p.req) => SentOf(k2, p)
    BY <1>1, <2>2, <2>3 DEF SentOf
  <2>6. ASSUME NEW r, NEW n \in Nat, WorksOn(c, k, r), 0 < k.next, k.next <= n + 1, n < k.cont
        PROVE  (WorksOn(c, k2, r) /\ k2.next <= n + 1) \/ Piece(c, p, r, n)
    <3>1. CASE k.next = n + 1
      BY <1>1, <2>1, <2>6, <3>1 DEF Piece
    <3>2. CASE k.next # n + 1
      BY <1>1, <2>1, <2>2, <2>6, <3>2
    <3> QED BY <3>1, <3>2
  <2>7. p.type \in Commands => p.num = 0 \/ (WorksOn(c, k2, p.req) /\ k2.next <= 1)
    <3>1. CASE k.next = 0
      <4>1. CASE k.cont = 0
        <5>1. p.num = 0
          BY <1>1, <3>1, <4>1
        <5> QED BY <5>1
      <4>2. CASE k.cont # 0
        <5>1. WorksOn(c, k2, p.req)
          BY <2>2, <3>1, <4>2
        <5>2. k2.next <= 1
          BY <2>2, <3>1, <4>2
        <5> QED BY <5>1, <5>2
      <4> QED BY <4>1, <4>2
    <3>2. CASE k.next # 0
      BY <3>2, Kinds
    <3> QED BY <3>1, <3>2
  <2>8. ASSUME NEW x \in Packet, SentOf(k, x) PROVE Before(x, p)
    <3>1. x.num \in Nat
      BY DEF Packet
    <3> QED BY <1>1, <2>8, <3>1 DEF SentOf, Before
  <2> QED BY <2>1, <2>4, <2>5, <2>6, <2>7, <2>8 DEF Sends
<1> QED BY <1>2, <1>3

\* The key is busy and refuses the message it has just taken.
LEMMA BusySends ==
  ASSUME NEW c, NEW o \in Seq(Packet), NEW k, NEW q, NEW s, NEW p \in Packet,
         Requests(c, o, k, q, s), o # <<>>, Head(o).type # "init",
         p.cid = Head(o).cid, p.req = Head(o).req, p.type = "error"
  PROVE  Sends(c, o, k, p, k)
<1>1. Head(o) \in Elems(o)
  BY TailElems
<1>2. CASE ~On(c, p)
  BY <1>2, ForeignSends
<1>3. CASE On(c, p)
  <2>1. On(c, Head(o)) /\ p.type \notin Commands
    BY <1>3, Kinds DEF On
  <2>2. \A r : Below(c, o, r) => r < p.req
    BY <1>1, <2>1 DEF Below
  <2>3. ~WorksOn(c, k, p.req)
    <3> SUFFICES ASSUME WorksOn(c, k, p.req) PROVE FALSE
      OBVIOUS
    <3>1. p.req < p.req
      BY <2>2 DEF Requests, WorksOn
    <3> QED BY <3>1 DEF Packet
  <2>4. ASSUME NEW x \in Packet, x.req = p.req, Below(c, o, x.req) PROVE FALSE
    BY <2>2, <2>4 DEF Packet
  <2> QED BY <2>1, <2>3, <2>4 DEF Sends, WorksOn
<1> QED BY <1>2, <1>3

-----------------------------------------------------------------------------
\* What the key takes, what is sent to it, and what is read.

\* A key that was idle takes the next message.
LEMMA TakenRequests ==
  ASSUME NEW c, NEW o \in Seq(Packet), NEW q, NEW s, NEW k2, Requests(c, o, Idle, q, s),
         o # <<>>, Head(o).type # "init", k2.cid = Head(o).cid, k2.req = Head(o).req,
         k2.type = Head(o).type
  PROVE  Requests(c, Tail(o), k2, q, s)
<1>1. /\ Head(o) \in Elems(o) /\ Elems(Tail(o)) \subseteq Elems(o) /\ Head(o) = o[1]
      /\ Tail(o) \in Seq(Packet) /\ Len(o) \in Nat \ {0}
  BY TailElems, TailAt
<1>2. Requests(c, Tail(o), Idle, q, s)
  BY FewerRequests
<1>3. ASSUME On(c, k2) PROVE k2.req \in 1..s /\ Below(c, Tail(o), k2.req)
  <2>1. On(c, Head(o))
    BY <1>3 DEF On
  <2>2. k2.req \in 1..s
    BY <1>1, <2>1, LiveHas DEF Requests
  <2>3. ASSUME NEW m \in Elems(Tail(o)), On(c, m) PROVE k2.req < m.req
    <3>1. PICK i \in 1..Len(Tail(o)) : m = Tail(o)[i]
      BY <2>3 DEF Elems
    <3>2. i + 1 \in 1..Len(o) /\ m = o[i + 1] /\ 1 \in 1..Len(o) /\ 1 < i + 1
      BY <1>1, <3>1, TailAt
    <3> QED BY <1>1, <2>1, <2>3, <3>2 DEF Requests
  <2> QED BY <2>2, <2>3 DEF Below
<1>4. Live(c, Tail(o), k2, q) \subseteq 1..s
  <2>1. \A r : WorksOn(c, k2, r) => r \in 1..s
    BY <1>3 DEF WorksOn
  <2>2. Live(c, Tail(o), Idle, q) \subseteq 1..s
    BY <1>2 DEF Requests
  <2>3. ASSUME NEW r \in Live(c, Tail(o), k2, q) PROVE r \in 1..s
    BY <2>1, <2>2, <2>3, LiveHas
  <2> QED BY <2>3
<1> QED BY <1>2, <1>3, <1>4 DEF Requests

LEMMA TakenLive ==
  ASSUME NEW c, NEW o \in Seq(Packet), NEW q, NEW k2,
         o # <<>>, Head(o).type # "init", k2.cid = Head(o).cid, k2.req = Head(o).req
  PROVE  Live(c, Tail(o), k2, q) \subseteq Live(c, o, Idle, q)
<1>1. Head(o) \in Elems(o) /\ Elems(Tail(o)) \subseteq Elems(o)
  BY TailElems
<1>2. ASSUME NEW r \in Live(c, Tail(o), k2, q) PROVE r \in Live(c, o, Idle, q)
  <2>1. CASE WorksOn(c, k2, r)
    <3>1. On(c, Head(o)) /\ Head(o).req = r
      BY <2>1 DEF WorksOn, On
    <3> QED BY <1>1, <3>1, LiveHas
  <2>2. CASE \E x \in Elems(Tail(o)) \cup Elems(q) : On(c, x) /\ x.req = r
    BY <1>1, <2>2, LiveHas
  <2> QED BY <1>2, <2>1, <2>2, LiveHas
<1> QED BY <1>2

LEMMA TakenContinues ==
  ASSUME NEW c, NEW q, NEW r, NEW f, NEW l, NEW a, NEW k2, Continues(c, Idle, q, r, f, l, a)
  PROVE  Continues(c, k2, q, r, f, l, a)
BY DEF Continues, WorksOn

\* No packet in the queue is of the message the key takes.
LEMMA TakenOrder ==
  ASSUME NEW c, NEW o \in Seq(Packet), NEW q \in Seq(Packet), NEW s, NEW k2,
         Requests(c, o, Idle, q, s), Order(c, Idle, q), o # <<>>, Head(o).type # "init",
         k2.cid = Head(o).cid, k2.req = Head(o).req
  PROVE  Order(c, k2, q)
<1>1. Head(o) \in Elems(o)
  BY TailElems
<1>2. ASSUME NEW p \in Elems(q), On(c, p), WorksOn(c, k2, p.req) PROVE FALSE
  <2>1. On(c, Head(o)) /\ Head(o).req = p.req
    BY <1>2 DEF WorksOn, On
  <2>2. p.req < p.req /\ p \in Packet
    BY <1>1, <1>2, <2>1 DEF Requests, Below, Elems
  <2> QED BY <2>2 DEF Packet
<1> QED BY <1>2, TakenContinues DEF Order

LEMMA TakenRemains ==
  ASSUME NEW c, NEW o \in Seq(Packet), NEW q, NEW d \in Packet, NEW n, NEW k2,
         Remains(c, o, Idle, q, d, n), o # <<>>, Head(o).type # "init",
         k2.cid = Head(o).cid, k2.req = Head(o).req
  PROVE  Remains(c, Tail(o), k2, q, d, n)
<1>1. Head(o) \in Elems(o) /\ Elems(Tail(o)) \subseteq Elems(o)
  BY TailElems
<1>2. ~WorksOn(c, k2, d.req)
  <2> SUFFICES ASSUME WorksOn(c, k2, d.req) PROVE FALSE
    OBVIOUS
  <2>1. On(c, Head(o)) /\ Head(o).req = d.req
    BY DEF WorksOn, On
  <2>2. d.req < d.req
    BY <1>1, <2>1 DEF Remains, Below
  <2> QED BY <2>2 DEF Packet
<1>3. Below(c, Tail(o), d.req)
  BY <1>1 DEF Remains, Below
<1> QED BY <1>2, <1>3, TakenContinues DEF Remains

\* A message that is not of the channel, or is the channel's next request.
LEMMA AskedRequests ==
  ASSUME NEW c, NEW o \in Seq(Packet), NEW k, NEW q, NEW s \in Nat, NEW m \in Packet,
         NEW t \in {s, s + 1}, Requests(c, o, k, q, s), On(c, m) => m.req = t /\ t = s + 1
  PROVE  Requests(c, Append(o, m), k, q, t)
<1> DEFINE O == Append(o, m)
<1>1. /\ Elems(O) \subseteq Elems(o) \cup {m}
      /\ Len(O) = Len(o) + 1 /\ Len(o) \in Nat /\ O[Len(o) + 1] = m
      /\ \A i \in 1..Len(o) : O[i] = o[i]
  BY AppendElems, AppendAt
<1> HIDE DEF O
<1>2. ASSUME NEW r \in Live(c, o, k, q) PROVE r \in 1..t /\ r < s + 1 /\ r \in Nat
  <2>1. r \in 1..s
    BY <1>2 DEF Requests
  <2> QED BY <2>1
<1>3. ASSUME NEW r \in Live(c, O, k, q) PROVE r \in 1..t
  <2>1. CASE WorksOn(c, k, r)
    BY <1>2, <2>1, LiveHas
  <2>2. CASE \E x \in Elems(O) \cup Elems(q) : On(c, x) /\ x.req = r
    <3>1. PICK x \in Elems(O) \cup Elems(q) : On(c, x) /\ x.req = r
      BY <2>2
    <3>2. CASE x = m
      BY <3>1, <3>2
    <3>3. CASE x # m
      BY <1>1, <1>2, <3>1, <3>3, LiveHas
    <3> QED BY <3>2, <3>3
  <2> QED BY <1>3, <2>1, <2>2, LiveHas
<1>4. ASSUME NEW r \in Live(c, o, k, q), Below(c, o, r) PROVE Below(c, O, r)
  BY <1>1, <1>2, <1>4 DEF Below
<1>5. ASSUME NEW i \in 1..Len(O), NEW j \in 1..Len(O), i < j, On(c, O[i]), On(c, O[j])
      PROVE  O[i].req < O[j].req
  <2>1. i \in 1..Len(o) /\ O[i] = o[i] /\ o[i] \in Elems(o)
    BY <1>1, <1>5 DEF Elems
  <2>2. CASE j \in 1..Len(o)
    BY <1>1, <1>5, <2>1, <2>2 DEF Requests
  <2>3. CASE j = Len(o) + 1
    <3>1. O[j] = m /\ O[i].req \in Live(c, o, k, q)
      BY <1>1, <1>5, <2>1, <2>3, LiveHas
    <3> QED BY <1>2, <1>5, <3>1
  <2> QED BY <1>1, <2>2, <2>3
<1>6. k # Idle /\ On(c, k) => Below(c, O, k.req)
  BY <1>4, LiveHas DEF Requests, WorksOn
<1>7. ASSUME NEW p \in Elems(q), On(c, p) PROVE Below(c, O, p.req)
  BY <1>4, <1>7, LiveHas DEF Requests
<1> QED BY <1>3, <1>5, <1>6, <1>7 DEF Requests, O

LEMMA AskedRemains ==
  ASSUME NEW c, NEW o \in Seq(Packet), NEW k, NEW q, NEW d, NEW n, NEW m \in Packet,
         Remains(c, o, k, q, d, n), ~On(c, m)
  PROVE  Remains(c, Append(o, m), k, q, d, n)
BY AppendElems DEF Remains, Below

\* One packet is read.
LEMMA ReadContinues ==
  ASSUME NEW c, NEW k, NEW q \in Seq(Packet), NEW r, NEW f \in Nat, NEW l \in Nat,
         NEW a \in 0..Len(q), NEW b \in Nat, q # <<>>, Continues(c, k, q, r, f, l, a),
         a = b + 1 \/ (a = 0 /\ b = 0 /\ \A n \in f..(l - 1) : ~Piece(c, Head(q), r, n))
  PROVE  Continues(c, k, Tail(q), r, f, l, b)
<1> DEFINE Q == Tail(q)
<1>1. /\ Len(Q) = Len(q) - 1 /\ Len(q) \in Nat \ {0} /\ Len(Q) \in Nat
      /\ \A i \in 1..Len(Q) : i + 1 \in 1..Len(q) /\ Q[i] = q[i + 1]
      /\ Head(q) = q[1]
  BY TailAt
<1> HIDE DEF Q
<1>2. ASSUME NEW n \in f..(l - 1), NEW j \in (a + 1)..Len(q), Piece(c, q[j], r, n)
      PROVE  j - 1 \in (b + 1)..Len(Q) /\ Piece(c, Q[j - 1], r, n)
  <2>1. j >= b + 2
    <3>1. CASE a = b + 1
      BY <1>2, <3>1
    <3>2. CASE a = 0 /\ b = 0 /\ \A m \in f..(l - 1) : ~Piece(c, Head(q), r, m)
      <4>1. j # 1
        BY <1>1, <1>2, <3>2
      <4> QED BY <3>2, <4>1
    <3> QED BY <3>1, <3>2
  <2>2. j - 1 \in (b + 1)..Len(Q) /\ j - 1 \in 1..Len(Q) /\ (j - 1) + 1 = j
    BY <1>1, <2>1
  <2> QED BY <1>1, <1>2, <2>2
<1>3. ASSUME NEW n \in f..(l - 1)
      PROVE  \/ WorksOn(c, k, r) /\ k.next <= n + 1
             \/ \E j \in (b + 1)..Len(Q) : Piece(c, Q[j], r, n)
  BY <1>2 DEF Continues
<1>4. ASSUME NEW i \in (b + 1)..Len(Q), On(c, Q[i]), Q[i].type = "cont", Q[i].req # r,
             NEW n \in f..(l - 1)
      PROVE  \E j \in (b + 1)..(i - 1) : Piece(c, Q[j], r, n)
  <2>1. i + 1 \in (a + 1)..Len(q) /\ Q[i] = q[i + 1]
    BY <1>1
  <2>2. PICK j \in (a + 1)..((i + 1) - 1) : Piece(c, q[j], r, n)
    BY <1>4, <2>1 DEF Continues
  <2>3. j \in (a + 1)..Len(q)
    BY <1>1
  <2>4. j - 1 \in (b + 1)..Len(Q) /\ Piece(c, Q[j - 1], r, n)
    BY <1>2, <2>2, <2>3
  <2>5. j - 1 \in (b + 1)..(i - 1)
    BY <2>4
  <2> QED BY <2>4, <2>5
<1> QED BY <1>3, <1>4 DEF Continues, Q

LEMMA ReadOrder ==
  ASSUME NEW c, NEW k, NEW q \in Seq(Packet), q # <<>>, Order(c, k, q)
  PROVE  Order(c, k, Tail(q))
<1> DEFINE Q == Tail(q)
<1>1. /\ Len(Q) = Len(q) - 1 /\ Len(q) \in Nat \ {0} /\ Q \in Seq(Packet)
      /\ \A i \in 1..Len(Q) : i + 1 \in 1..Len(q) /\ Q[i] = q[i + 1]
      /\ Elems(Q) \subseteq Elems(q)
  BY TailAt, TailElems
<1> HIDE DEF Q
<1>2. ASSUME NEW i \in 1..Len(Q), NEW j \in 1..Len(Q), i < j,
             On(c, Q[i]), On(c, Q[j]), Q[i].req = Q[j].req
      PROVE  Before(Q[i], Q[j])
  <2>1. i + 1 \in 1..Len(q) /\ Q[i] = q[i + 1] /\ j + 1 \in 1..Len(q) /\ Q[j] = q[j + 1] /\ i + 1 < j + 1
    BY <1>1, <1>2
  <2> QED BY <1>2, <2>1 DEF Order
<1>3. ASSUME NEW i \in 1..Len(Q), On(c, Q[i]), Q[i].type \in Commands
      PROVE  Continues(c, k, Q, Q[i].req, 0, Q[i].num, i)
  <2>1. i + 1 \in 1..Len(q) /\ Q[i] = q[i + 1] /\ i + 1 \in 0..Len(q) /\ i \in Nat
    BY <1>1
  <2>2. Continues(c, k, q, Q[i].req, 0, Q[i].num, i + 1)
    BY <1>3, <2>1 DEF Order
  <2>3. Q[i].num \in Nat
    <3>1. q[i + 1] \in Packet
      BY <2>1
    <3> QED BY <2>1, <3>1 DEF Packet
  <2> QED BY <2>1, <2>2, <2>3, ReadContinues DEF Q
<1> QED BY <1>1, <1>2, <1>3 DEF Order, Q

\* The first packet of an answer is read.
LEMMA FirstRemains ==
  ASSUME NEW c, NEW o, NEW k, NEW q \in Seq(Packet), NEW s, q # <<>>,
         Requests(c, o, k, q, s), Order(c, k, q), On(c, Head(q)), Head(q).type \in Commands
  PROVE  Remains(c, o, k, Tail(q), Head(q), 0)
<1> DEFINE p == Head(q)
<1>1. /\ p \in Packet /\ p \in Elems(q) /\ p = q[1] /\ 1 \in 1..Len(q) /\ 1 \in 0..Len(q)
      /\ \A i \in 1..Len(Tail(q)) : i + 1 \in 1..Len(q) /\ Tail(q)[i] = q[i + 1]
  BY TailElems, TailAt
<1> HIDE DEF p
<1>2. On(c, p) /\ p.type \in Commands
  BY DEF p
<1>3. Below(c, o, p.req) /\ (WorksOn(c, k, p.req) => SentOf(k, p))
  BY <1>1, <1>2 DEF Requests, Order
<1>4. ASSUME NEW x \in Elems(Tail(q)), On(c, x), x.req = p.req PROVE Before(p, x)
  <2>1. PICK i \in 1..Len(Tail(q)) : x = Tail(q)[i]
    BY <1>4 DEF Elems
  <2>2. i + 1 \in 1..Len(q) /\ x = q[i + 1] /\ 1 < i + 1
    BY <1>1, <2>1
  <2> QED BY <1>1, <1>2, <1>4, <2>2 DEF Order
<1>5. Continues(c, k, Tail(q), p.req, 0, p.num, 0)
  <2>1. Continues(c, k, q, p.req, 0, p.num, 1) /\ p.num \in Nat
    BY <1>1, <1>2 DEF Order, Packet
  <2> QED BY <1>1, <2>1, ReadContinues
<1> QED BY <1>3, <1>4, <1>5 DEF Remains, p

\* A packet that is no piece of the answer being read is read.
LEMMA OtherRemains ==
  ASSUME NEW c, NEW o, NEW k, NEW q \in Seq(Packet), NEW d \in Packet, NEW n \in Nat,
         q # <<>>, Remains(c, o, k, q, d, n), ~On(c, Head(q)) \/ Head(q).type # "cont"
  PROVE  Remains(c, o, k, Tail(q), d, n)
<1>1. Elems(Tail(q)) \subseteq Elems(q)
  BY TailElems
<1>2. Continues(c, k, Tail(q), d.req, n, d.num, 0)
  <2>1. d.num \in Nat /\ 0 \in 0..Len(q) /\ \A i \in n..(d.num - 1) : ~Piece(c, Head(q), d.req, i)
    BY DEF Packet, Piece
  <2> QED BY <2>1, ReadContinues DEF Remains
<1> QED BY <1>1, <1>2 DEF Remains

\* The next piece is read: it is one of the same answer.
LEMMA NextRemains ==
  ASSUME NEW c, NEW o, NEW k, NEW q \in Seq(Packet), NEW d \in Packet, NEW n \in Nat,
         q # <<>>, Remains(c, o, k, q, d, n), n < d.num,
         On(c, Head(q)), Head(q).type = "cont", Head(q).num = n
  PROVE  Head(q).req = d.req /\ Remains(c, o, k, Tail(q), d, n + 1)
<1> DEFINE p == Head(q)
<1>1. p \in Packet /\ p = q[1] /\ Len(q) \in Nat \ {0} /\ Elems(Tail(q)) \subseteq Elems(q)
  BY TailElems, TailAt
<1>2. d.num \in Nat /\ n \in n..(d.num - 1)
  BY DEF Packet
<1>3. p.req = d.req
  <2> SUFFICES ASSUME p.req # d.req PROVE FALSE
    OBVIOUS
  <2>1. \E j \in (0 + 1)..(1 - 1) : Piece(c, q[j], d.req, n)
    BY <1>1, <1>2 DEF Remains, Continues
  <2> QED BY <2>1
<1>4. Continues(c, k, Tail(q), d.req, n + 1, d.num, 0)
  <2>1. Continues(c, k, q, d.req, n + 1, d.num, 0)
    <3>1. (n + 1)..(d.num - 1) \subseteq n..(d.num - 1)
      BY <1>2
    <3> QED BY <3>1 DEF Remains, Continues
  <2>2. 0 \in 0..Len(q) /\ n + 1 \in Nat /\ \A i \in (n + 1)..(d.num - 1) : ~Piece(c, p, d.req, i)
    BY <1>1 DEF Piece
  <2> QED BY <1>2, <2>1, <2>2, ReadContinues
<1> QED BY <1>1, <1>3, <1>4 DEF Remains

\* When all under way is of one request, nothing is left behind a packet that
\* is its last.
LEMMA NothingLeft ==
  ASSUME NEW c, NEW o, NEW k, NEW q \in Seq(Packet), NEW s, NEW t, q # <<>>,
         Requests(c, o, k, q, s), Order(c, k, q), Live(c, o, k, q) \subseteq {t}, On(c, Head(q)),
         \A x \in Elems(Tail(q)) : On(c, x) /\ x.req = Head(q).req => ~Before(Head(q), x),
         WorksOn(c, k, Head(q).req) => ~SentOf(k, Head(q))
  PROVE  Live(c, o, k, Tail(q)) = {}
<1> DEFINE p == Head(q)
<1>1. /\ p \in Packet /\ p \in Elems(q) /\ p = q[1] /\ 1 \in 1..Len(q)
      /\ \A i \in 1..Len(Tail(q)) : i + 1 \in 1..Len(q) /\ Tail(q)[i] = q[i + 1]
  BY TailElems, TailAt
<1>2. Elems(Tail(q)) \subseteq Elems(q)
  BY TailElems
<1> HIDE DEF p
<1>3. On(c, p) /\ p.req = t
  BY <1>1, LiveHas DEF p
<1>4. ASSUME NEW x \in Elems(Tail(q)), On(c, x) PROVE FALSE
  <2>1. PICK i \in 1..Len(Tail(q)) : x = Tail(q)[i]
    BY <1>4 DEF Elems
  <2>2. i + 1 \in 1..Len(q) /\ x = q[i + 1] /\ 1 < i + 1
    BY <1>1, <2>1
  <2>3. x.req = p.req
    BY <1>2, <1>3, <1>4, LiveHas
  <2>4. Before(p, x)
    BY <1>1, <1>3, <1>4, <2>2, <2>3 DEF Order
  <2> QED BY <1>4, <2>3, <2>4 DEF p
<1>5. ASSUME NEW r, WorksOn(c, k, r) PROVE FALSE
  <2>1. r = p.req
    BY <1>3, <1>5, LiveHas
  <2> QED BY <1>1, <1>3, <1>5, <2>1 DEF Order, p
<1>6. ASSUME NEW m \in Elems(o), On(c, m) PROVE FALSE
  <2>1. m.req = p.req /\ p.req < m.req
    BY <1>1, <1>3, <1>6, LiveHas DEF Requests, Below
  <2> QED BY <1>1, <2>1 DEF Packet
<1> QED BY <1>4, <1>5, <1>6, LiveHas

-----------------------------------------------------------------------------
\* What a step of the key's keeps of a channel.
Keeps(c) ==
  /\ Live(c, outbox', key', inbox') \subseteq Live(c, outbox, key, inbox)
  /\ Requests(c, outbox, key, inbox, sent) =>
       /\ Requests(c, outbox', key', inbox', sent)
       /\ Order(c, key, inbox) => Order(c, key', inbox')
       /\ \A d \in Packet, n \in Nat :
            On(c, d) /\ d.type \in Commands /\ Remains(c, outbox, key, inbox, d, n)
              => Remains(c, outbox', key', inbox', d, n)

LEMMA SendingKeeps ==
  ASSUME TypeOK, NEW c, NEW p \in Packet, pc # "closed", ToHandle(p),
         outbox' = outbox \/ (outbox # <<>> /\ outbox' = Tail(outbox)),
         \A r : WorksOn(c, key', r) => WorksOn(c, key, r),
         On(c, p) => p.req \in Live(c, outbox, key, inbox),
         Requests(c, outbox, key, inbox, sent) =>
           Sends(c, outbox, key, p, key') /\ (On(c, p) => Below(c, outbox', p.req))
  PROVE  Keeps(c)
<1>1. /\ inbox \in Seq(Packet) /\ outbox \in Seq(Packet) /\ key.next \in Nat
      /\ inbox' = Append(inbox, p)
  BY DEF TypeOK, ToHandle
<1>2. Live(c, outbox', key', inbox') \subseteq Live(c, outbox, key, inbox)
  BY <1>1, LiveSent
<1>3. ASSUME Requests(c, outbox, key, inbox, sent)
      PROVE  /\ Requests(c, outbox', key', inbox', sent)
             /\ Order(c, key, inbox) => Order(c, key', inbox')
             /\ \A d \in Packet, n \in Nat :
                  On(c, d) /\ d.type \in Commands /\ Remains(c, outbox, key, inbox, d, n)
                    => Remains(c, outbox', key', inbox', d, n)
  <2>1. Sends(c, outbox, key, p, key') /\ (On(c, p) => Below(c, outbox', p.req))
    BY <1>3
  <2>2. Requests(c, outbox', key', inbox', sent)
    BY <1>1, <1>3, <2>1, RequestsSent
  <2>3. ASSUME Order(c, key, inbox) PROVE Order(c, key', inbox')
    <3>1. \A x \in Elems(inbox) : On(c, x) => Below(c, outbox, x.req)
      BY <1>3 DEF Requests
    <3>2. \A x \in Elems(inbox) \cup {p} : x.type \in Commands => x.num \in Nat
      <4>1. \A x \in Elems(inbox) \cup {p} : x \in Packet
        BY <1>1 DEF Elems
      <4> QED BY <4>1 DEF Packet
    <3> QED BY <1>1, <2>1, <2>3, <3>1, <3>2, OrderSent
  <2>4. ASSUME NEW d \in Packet, NEW n \in Nat, On(c, d), d.type \in Commands,
               Remains(c, outbox, key, inbox, d, n)
        PROVE  Remains(c, outbox', key', inbox', d, n)
    BY <1>1, <2>1, <2>4, RemainsSent
  <2> QED BY <2>2, <2>3, <2>4
<1> QED BY <1>2, <1>3 DEF Keeps

LEMMA KeyAllocatesKeeps ==
  ASSUME IndInv, KeyAllocates, pc # "closed", NEW c PROVE Keeps(c)
<1>1. PICK p \in Packet : ToHandle(p) /\ p.type = "init"
  <2>1. Head(outbox) \in Packet
    BY TailElems DEF IndInv, TypeOK, KeyAllocates
  <2>2. [cid |-> Broadcast, type |-> "init", num |-> nextCid, req |-> Head(outbox).req] \in Packet
    BY <2>1 DEF IndInv, TypeOK, Packet, Types, Broadcast
  <2> QED BY <2>2 DEF KeyAllocates
<1>2. ~On(c, p) /\ key' = key /\ outbox # <<>> /\ outbox' = Tail(outbox)
  BY <1>1 DEF On, KeyAllocates
<1>3. Sends(c, outbox, key, p, key')
  BY <1>2, ForeignSends
<1> QED BY <1>1, <1>2, <1>3, SendingKeeps DEF IndInv

LEMMA KeyTakesKeeps ==
  ASSUME IndInv, KeyTakes, pc # "closed", NEW c PROVE Keeps(c)
<1>1. PICK m \in Packet : m = Head(outbox) /\ m.type \in Commands /\ m \in Elems(outbox)
  BY TailElems DEF IndInv, TypeOK, KeyTakes
<1>2. /\ outbox # <<>> /\ outbox' = Tail(outbox) /\ m.type # "init"
      /\ outbox \in Seq(Packet) /\ inbox \in Seq(Packet)
  BY <1>1, Bounds DEF IndInv, TypeOK, KeyTakes
<1>3. CASE /\ key = Idle /\ UNCHANGED inbox
           /\ \E n \in 0..MaxCont :
                key' = [cid |-> m.cid, type |-> m.type, cont |-> n, next |-> 0, req |-> m.req]
  <2>1. key = Idle /\ inbox' = inbox /\ key'.cid = m.cid /\ key'.req = m.req /\ key'.type = m.type
    BY <1>3
  <2>2. Live(c, outbox', key', inbox') \subseteq Live(c, outbox, key, inbox)
    BY <1>1, <1>2, <2>1, TakenLive
  <2>3. ASSUME Requests(c, outbox, key, inbox, sent)
        PROVE  /\ Requests(c, outbox', key', inbox', sent)
               /\ Order(c, key, inbox) => Order(c, key', inbox')
    BY <1>1, <1>2, <2>1, <2>3, TakenRequests, TakenOrder
  <2>4. ASSUME NEW d \in Packet, NEW n \in Nat, Remains(c, outbox, key, inbox, d, n)
        PROVE  Remains(c, outbox', key', inbox', d, n)
    BY <1>1, <1>2, <2>1, <2>4, TakenRemains
  <2> QED BY <2>2, <2>3, <2>4 DEF Keeps
<1>4. CASE /\ key # Idle /\ UNCHANGED key
           /\ ToHandle([cid |-> m.cid, type |-> "error", num |-> 0, req |-> m.req])
  <2>1. PICK p \in Packet : p = [cid |-> m.cid, type |-> "error", num |-> 0, req |-> m.req]
    BY <1>1 DEF Packet, Types
  <2>2. /\ ToHandle(p) /\ key' = key
        /\ p.cid = m.cid /\ p.type = "error" /\ p.req = m.req
    BY <1>4, <2>1
  <2>3. On(c, p) => On(c, m)
    BY <1>2, <2>2 DEF On
  <2>4. On(c, p) => p.req \in Live(c, outbox, key, inbox)
    BY <1>1, <2>2, <2>3, LiveHas
  <2>5. ASSUME Requests(c, outbox, key, inbox, sent)
        PROVE  Sends(c, outbox, key, p, key') /\ (On(c, p) => Below(c, outbox', p.req))
    <3>1. Sends(c, outbox, key, p, key')
      BY <1>1, <1>2, <2>2, <2>5, BusySends
    <3>2. On(c, p) => Below(c, outbox', p.req)
      <4>1. ASSUME NEW x \in Elems(Tail(outbox)), On(c, x), On(c, m) PROVE m.req < x.req
        <5>1. PICK i \in 1..Len(Tail(outbox)) : x = Tail(outbox)[i]
          BY <4>1 DEF Elems
        <5>2. /\ i + 1 \in 1..Len(outbox) /\ x = outbox[i + 1] /\ 1 \in 1..Len(outbox)
              /\ 1 < i + 1 /\ m = outbox[1]
          BY <1>1, <1>2, <5>1, TailAt
        <5> QED BY <2>5, <4>1, <5>2 DEF Requests
      <4> QED BY <1>2, <2>2, <2>3, <4>1 DEF Below
    <3> QED BY <3>1, <3>2
  <2>6. outbox' = outbox \/ (outbox # <<>> /\ outbox' = Tail(outbox))
    BY <1>2
  <2>7. \A r : WorksOn(c, key', r) => WorksOn(c, key, r)
    BY <2>2
  <2> QED BY <2>2, <2>4, <2>5, <2>6, <2>7, SendingKeeps DEF IndInv
<1> QED BY <1>1, <1>3, <1>4 DEF KeyTakes

LEMMA KeyKeepsAliveKeeps ==
  ASSUME IndInv, KeyKeepsAlive, pc # "closed", NEW c PROVE Keeps(c)
<1>1. PICK p \in Packet : p = [cid |-> key.cid, type |-> "keepalive", num |-> 0, req |-> key.req]
  BY DEF IndInv, TypeOK, Packet, Types
<1>2. /\ ToHandle(p) /\ key' = key /\ outbox' = outbox /\ key \in Answers /\ key.next = 0
      /\ KeyTells(key, p) /\ p.type = "keepalive" /\ key.type # "init"
  BY <1>1, Bounds DEF IndInv, TypeOK, KeyWorks, KeyKeepsAlive, KeyTells, device, Answers
<1>3. Sends(c, outbox, key, p, key')
  BY <1>2, KeepaliveSends
<1>4. On(c, p) => WorksOn(c, key, p.req)
  BY <1>2 DEF KeyTells, WorksOn, On
<1>5. On(c, p) => p.req \in Live(c, outbox, key, inbox)
  BY <1>4, LiveHas
<1>6. Requests(c, outbox, key, inbox, sent) => (On(c, p) => Below(c, outbox', p.req))
  BY <1>2, <1>4 DEF Requests, WorksOn
<1>7. \A r : WorksOn(c, key', r) => WorksOn(c, key, r)
  BY <1>2
<1> QED BY <1>2, <1>3, <1>5, <1>6, <1>7, SendingKeeps DEF IndInv

LEMMA KeyAnswersKeeps ==
  ASSUME IndInv, KeyAnswers, pc # "closed", NEW c PROVE Keeps(c)
<1>1. /\ outbox' = outbox /\ key \in Answers /\ key # Idle /\ key.type \in Commands
      /\ key.type # "init" /\ key.next <= key.cont
  BY Bounds DEF IndInv, TypeOK, KeyWorks, KeyAnswers, Answers
<1>2. PICK p \in Packet : /\ ToHandle(p) /\ KeyTells(key, p) /\ p.type # "init"
                          /\ Sends(c, outbox, key, p, key')
  <2> DEFINE answer == [cid |-> key.cid, type |-> IF key.next = 0 THEN key.type ELSE "cont",
                        num |-> IF key.next = 0 THEN key.cont ELSE key.next - 1, req |-> key.req]
             refusal == [cid |-> key.cid, type |-> "error", num |-> 0, req |-> key.req]
  <2>1. /\ key.next \in Nat /\ key.cont \in Nat /\ key.cid \in Nat /\ key.req \in Nat
        /\ key.type \in Types
    BY <1>1, Bounds DEF Answers
  <2>2. CASE ToHandle(answer) /\ key' = IF key.next = key.cont THEN Idle ELSE [key EXCEPT !.next = @ + 1]
    <3>1. PICK p \in Packet : p = answer
      <4>1. answer.num \in Nat
        BY <2>1
      <4>2. answer.type \in Types
        BY <2>1 DEF Types
      <4> QED BY <2>1, <4>1, <4>2 DEF Packet
    <3>2. /\ KeyTells(key, p) /\ p.type = IF key.next = 0 THEN key.type ELSE "cont"
          /\ p.num = IF key.next = 0 THEN key.cont ELSE key.next - 1
      BY <1>1, <3>1 DEF KeyTells
    <3>3. key' = IF key.next = key.cont THEN Idle ELSE [key EXCEPT !.next = key.next + 1]
      BY <2>2
    <3>4. Sends(c, outbox, key, p, key')
      BY <1>1, <3>2, <3>3, AnswerSends
    <3> QED BY <1>1, <2>2, <3>1, <3>2, <3>4
  <2>3. CASE key.next = 0 /\ ToHandle(refusal) /\ key' = Idle
    <3>1. PICK p \in Packet : p = refusal
      BY <2>1 DEF Packet, Types
    <3>2. KeyTells(key, p) /\ p.type = "error"
      BY <1>1, <3>1 DEF KeyTells
    <3>3. Sends(c, outbox, key, p, key')
      BY <1>1, <2>3, <3>2, RefusalSends
    <3> QED BY <2>3, <3>1, <3>2, <3>3
  <2> QED BY <2>2, <2>3 DEF KeyAnswers
<1>3. On(c, p) => WorksOn(c, key, p.req)
  BY <1>1, <1>2 DEF KeyTells, WorksOn, On
<1>4. On(c, p) => p.req \in Live(c, outbox, key, inbox)
  BY <1>3, LiveHas
<1>5. Requests(c, outbox, key, inbox, sent) => (On(c, p) => Below(c, outbox', p.req))
  BY <1>1, <1>3 DEF Requests, WorksOn
<1>6. \A r : WorksOn(c, key', r) => WorksOn(c, key, r)
  BY <1>2 DEF Sends
<1> QED BY <1>1, <1>2, <1>4, <1>5, <1>6, SendingKeeps DEF IndInv

-----------------------------------------------------------------------------
\* Each action keeps AnswerInv.

LEMMA InitAnswer == Init => AnswerInv
<1> SUFFICES ASSUME Init PROVE AnswerInv
  OBVIOUS
<1>1. Fresh
  BY EmptyElems DEF Init, Fresh
<1>2. Busy /\ Stale /\ Part /\ Whole
  BY DEF Init, Busy, Stale, Part, Whole, InUse
<1> QED BY <1>1, <1>2 DEF AnswerInv

\* A step that leaves the transport alone and keeps what is under way.
LEMMA OthersKeep ==
  ASSUME IndInv, AnswerInv, UNCHANGED <<pc, cid, opens, sent, cmd, buf, want, data, history>>,
         pc \in InUse => Keeps(cid),
         pc = "await" => \A p \in Elems(inbox') : p.type = "init" /\ p.req = opens =>
           \/ p \in Elems(inbox) /\ Keeps(p.num)
           \/ Live(p.num, outbox', key', inbox') = {},
         \A x \in Elems(outbox') \cup Elems(inbox') : x.type # "init" => x.cid < nextCid',
         key' # Idle => key'.cid < nextCid'
  PROVE  AnswerInv'
<1>1. Fresh'
  <2>1. ASSUME pc = "await", NEW p \in Elems(inbox'), p.type = "init", p.req = opens
        PROVE  Live(p.num, outbox', key', inbox') = {}
    <3>1. CASE p \in Elems(inbox) /\ Keeps(p.num)
      BY <2>1, <3>1 DEF AnswerInv, Fresh, Unused, Keeps
    <3> QED BY <2>1, <3>1
  <2> QED BY <2>1 DEF Fresh, Unused
<1>2. Busy'
  BY DEF AnswerInv, Busy, Keeps, InUse, history
<1>3. Stale'
  BY DEF AnswerInv, Stale, InSequence
<1>4. Part'
  <2> SUFFICES ASSUME pc = "cont" PROVE Part'
    BY DEF Part
  <2>1. Part /\ Requests(cid, outbox, key, inbox, sent) /\ Keeps(cid)
    BY DEF AnswerInv, Busy, InUse
  <2>2. data[1] \in Packet /\ Len(data) - 1 \in Nat
    <3>1. data \in Seq(Packet) /\ Len(data) \in 1..want /\ want \in Nat
      BY Bounds DEF IndInv, TypeOK
    <3> QED BY <3>1
  <2>3. Remains(cid, outbox', key', inbox', data[1], Len(data) - 1)
    BY <2>1, <2>2 DEF Part, Keeps
  <2> QED BY <2>1, <2>3 DEF Part, history
<1>5. Whole'
  BY DEF AnswerInv, Whole, history
<1> QED BY <1>1, <1>2, <1>3, <1>4, <1>5 DEF AnswerInv

\* The other program's messages are of its own channel.
LEMMA OtherSendsKeeps ==
  ASSUME IndInv, OtherSends, NEW c, c # otherCid PROVE Keeps(c)
<1>1. PICK m \in Packet : outbox' = Append(outbox, m) /\ ~On(c, m)
  <2> DEFINE a == [cid |-> otherCid, type |-> Cbor, num |-> 0, req |-> 0]
             b == [cid |-> Broadcast, type |-> "init", num |-> 0, req |-> 0]
  <2>1. a \in Packet /\ b \in Packet /\ ~On(c, a) /\ ~On(c, b)
    BY Bounds DEF IndInv, TypeOK, Packet, Types, Broadcast, On
  <2>2. ToKey(a) \/ ToKey(b)
    BY DEF OtherSends
  <2> HIDE DEF a, b
  <2> QED BY <2>1, <2>2 DEF ToKey
<1>2. /\ outbox \in Seq(Packet) /\ inbox' = inbox /\ key' = key /\ sent \in Nat
      /\ Elems(outbox') \subseteq Elems(outbox) \cup {m}
  BY <1>1, Bounds, AppendElems DEF IndInv, TypeOK, OtherSends, device
<1>3. Live(c, outbox', key', inbox') \subseteq Live(c, outbox, key, inbox)
  BY <1>1, <1>2 DEF Live
<1>4. Requests(c, outbox, key, inbox, sent) => Requests(c, outbox', key', inbox', sent)
  BY <1>1, <1>2, AskedRequests
<1>5. \A d \in Packet, n \in Nat :
        Remains(c, outbox, key, inbox, d, n) => Remains(c, outbox', key', inbox', d, n)
  BY <1>1, <1>2, AskedRemains
<1> QED BY <1>2, <1>3, <1>4, <1>5 DEF Keeps

LEMMA OtherSendsAnswer == IndInv /\ AnswerInv /\ OtherSends => AnswerInv'
<1> SUFFICES ASSUME IndInv, AnswerInv, OtherSends PROVE AnswerInv'
  OBVIOUS
<1>1. /\ UNCHANGED <<pc, cid, opens, sent, cmd, buf, want, data, history>>
      /\ inbox' = inbox /\ key' = key /\ nextCid' = nextCid
  BY DEF OtherSends, reader, device
<1>2. \A m \in Elems(outbox') : m \in Elems(outbox) \/ m.type = "init" \/ m.cid = otherCid
  <2> DEFINE a == [cid |-> otherCid, type |-> Cbor, num |-> 0, req |-> 0]
             b == [cid |-> Broadcast, type |-> "init", num |-> 0, req |-> 0]
  <2>1. a \in Packet /\ b \in Packet /\ a.cid = otherCid /\ b.type = "init"
    BY Bounds DEF IndInv, TypeOK, Packet, Types, Broadcast
  <2>2. ToKey(a) \/ ToKey(b)
    BY DEF OtherSends
  <2> HIDE DEF a, b
  <2> QED BY <2>1, <2>2, SentToKey DEF IndInv
<1>3. ASSUME pc = "await", NEW p \in Elems(inbox), p.type = "init", p.req = opens
      PROVE  Keeps(p.num)
  <2>1. p.num # otherCid
    BY <1>3 DEF IndInv, TypeOK, Channels, Granted
  <2> QED BY <2>1, OtherSendsKeeps
<1>4. \A x \in Elems(outbox') \cup Elems(inbox') : x.type # "init" => x.cid < nextCid'
  BY <1>1, <1>2 DEF IndInv, Channels, AnswerInv, Fresh
<1>5. key' # Idle => key'.cid < nextCid'
  BY <1>1 DEF AnswerInv, Fresh
<1>6. pc \in InUse => Keeps(cid)
  BY OtherSendsKeeps DEF IndInv, Channels
<1> QED BY <1>1, <1>3, <1>4, <1>5, <1>6, OthersKeep

\* A step of the key's puts one packet, if any, of a channel it knows into the
\* queue.
LEMMA KeyKeeps ==
  ASSUME IndInv, IndInv', AnswerInv, UNCHANGED <<pc, cid, reader, counts, history>>,
         pc # "closed" => \A c : Keeps(c), Elems(outbox') \subseteq Elems(outbox),
         \A p \in Elems(inbox') :
           \/ p \in Elems(inbox)
           \/ p.type # "init" /\ p.cid < nextCid
           \/ p.type = "init" /\ (pc # "closed" => Live(p.num, outbox', key', inbox') = {}),
         key' # Idle => key'.cid < nextCid, nextCid' \in {nextCid, nextCid + 1}
  PROVE  AnswerInv'
<1>1. ASSUME NEW n \in Nat, n < nextCid PROVE n < nextCid'
  <2>1. nextCid \in Nat
    BY DEF IndInv, TypeOK
  <2> QED BY <1>1, <2>1
<1>2. \A x \in Elems(outbox') \cup Elems(inbox') : x.type # "init" => x.cid < nextCid'
  <2>1. ASSUME NEW x \in Elems(outbox') \cup Elems(inbox'), x.type # "init" PROVE x.cid < nextCid'
    <3>1. x.cid < nextCid
      BY <2>1 DEF AnswerInv, Fresh
    <3>2. x \in Packet
      <4>1. inbox' \in Seq(Packet) /\ outbox' \in Seq(Packet)
        BY DEF IndInv, TypeOK
      <4> QED BY <4>1 DEF Elems
    <3> QED BY <1>1, <3>1, <3>2 DEF Packet
  <2> QED BY <2>1
<1>3. key' # Idle => key'.cid < nextCid'
  BY <1>1 DEF IndInv, TypeOK
<1>4. ASSUME pc = "await", NEW p \in Elems(inbox'), p.type = "init", p.req = opens
      PROVE  \/ p \in Elems(inbox) /\ Keeps(p.num)
             \/ Live(p.num, outbox', key', inbox') = {}
  BY <1>4
<1>5. pc \in InUse => Keeps(cid)
  BY DEF InUse
<1> QED BY <1>2, <1>3, <1>4, <1>5, OthersKeep DEF reader, counts

LEMMA QueuedPacket ==
  ASSUME TypeOK, NEW p \in Packet, ToHandle(p)
  PROVE  \A x \in Elems(inbox') : x \in Elems(inbox) \/ x = p
BY SentToHandle

LEMMA KeyAllocatesAnswer == IndInv /\ AnswerInv /\ KeyAllocates => AnswerInv'
<1> SUFFICES ASSUME IndInv, AnswerInv, KeyAllocates PROVE AnswerInv'
  OBVIOUS
<1>1. Elems(outbox') \subseteq Elems(outbox) /\ Head(outbox) \in Packet
  BY TailElems DEF IndInv, TypeOK, KeyAllocates
<1>2. PICK p \in Packet : ToHandle(p) /\ p.type = "init" /\ p.num = nextCid
  <2>1. [cid |-> Broadcast, type |-> "init", num |-> nextCid, req |-> Head(outbox).req] \in Packet
    BY <1>1 DEF IndInv, TypeOK, Packet, Types, Broadcast
  <2> QED BY <2>1 DEF KeyAllocates
<1>3. UNCHANGED <<pc, cid, reader, counts, key, history>> /\ nextCid' = nextCid + 1
  BY DEF KeyAllocates
<1>4. pc # "closed" => \A c : Keeps(c)
  BY KeyAllocatesKeeps
<1>5. Live(nextCid, outbox, key, inbox) = {}
  <2>1. ASSUME NEW x, x.cid < nextCid PROVE x.cid # nextCid
    BY <2>1 DEF IndInv, TypeOK
  <2> QED BY <2>1, LiveHas DEF AnswerInv, Fresh, On, WorksOn
<1>6. pc # "closed" => Live(p.num, outbox', key', inbox') = {}
  BY <1>2, <1>4, <1>5 DEF Keeps
<1>7. \A x \in Elems(inbox') : x \in Elems(inbox) \/ x = p
  BY <1>2, QueuedPacket DEF IndInv
<1>8. IndInv'
  BY KeyAllocatesInv
<1>9. key' # Idle => key'.cid < nextCid
  BY <1>3 DEF AnswerInv, Fresh
<1> QED BY <1>1, <1>2, <1>3, <1>4, <1>6, <1>7, <1>8, <1>9, KeyKeeps

LEMMA KeyTakesAnswer == IndInv /\ AnswerInv /\ KeyTakes => AnswerInv'
<1> SUFFICES ASSUME IndInv, AnswerInv, KeyTakes PROVE AnswerInv'
  OBVIOUS
<1>1. PICK m \in Packet : m = Head(outbox) /\ m.type \in Commands /\ m \in Elems(outbox)
  BY TailElems DEF IndInv, TypeOK, KeyTakes
<1>2. UNCHANGED <<pc, cid, reader, counts, nextCid, otherCid, history>>
      /\ Elems(outbox') \subseteq Elems(outbox)
  BY TailElems DEF IndInv, TypeOK, KeyTakes
<1>3. m.cid < nextCid
  BY <1>1, Kinds DEF AnswerInv, Fresh
<1>4. pc # "closed" => \A c : Keeps(c)
  BY KeyTakesKeeps
<1>5. IndInv'
  BY KeyTakesInv
<1>6. CASE /\ UNCHANGED inbox
           /\ \E n \in 0..MaxCont :
                key' = [cid |-> m.cid, type |-> m.type, cont |-> n, next |-> 0, req |-> m.req]
  BY <1>2, <1>3, <1>4, <1>5, <1>6, KeyKeeps
<1>7. CASE /\ UNCHANGED key
           /\ ToHandle([cid |-> m.cid, type |-> "error", num |-> 0, req |-> m.req])
  <2>1. PICK p \in Packet : p = [cid |-> m.cid, type |-> "error", num |-> 0, req |-> m.req]
    BY <1>1 DEF Packet, Types
  <2>2. ToHandle(p) /\ p.type # "init" /\ p.cid < nextCid
    BY <1>3, <1>7, <2>1
  <2>3. \A x \in Elems(inbox') : x \in Elems(inbox) \/ x = p
    BY <2>2, QueuedPacket DEF IndInv
  <2>4. key' # Idle => key'.cid < nextCid
    BY <1>7 DEF AnswerInv, Fresh
  <2> QED BY <1>2, <1>4, <1>5, <2>2, <2>3, <2>4, KeyKeeps
<1> QED BY <1>1, <1>6, <1>7 DEF KeyTakes

LEMMA KeyKeepsAliveAnswer == IndInv /\ AnswerInv /\ KeyKeepsAlive => AnswerInv'
<1> SUFFICES ASSUME IndInv, AnswerInv, KeyKeepsAlive PROVE AnswerInv'
  OBVIOUS
<1>1. PICK p \in Packet : p = [cid |-> key.cid, type |-> "keepalive", num |-> 0, req |-> key.req]
  BY DEF IndInv, TypeOK, Packet, Types
<1>2. /\ UNCHANGED <<pc, cid, reader, counts, outbox, key, nextCid, history>>
      /\ key # Idle /\ ToHandle(p) /\ p.type # "init" /\ p.cid < nextCid
  BY <1>1 DEF KeyKeepsAlive, device, AnswerInv, Fresh
<1>3. \A x \in Elems(inbox') : x \in Elems(inbox) \/ x = p
  BY <1>2, QueuedPacket DEF IndInv
<1>4. pc # "closed" => \A c : Keeps(c)
  BY KeyKeepsAliveKeeps
<1>5. IndInv' /\ key'.cid < nextCid
  BY <1>2, KeyKeepsAliveInv DEF AnswerInv, Fresh
<1> QED BY <1>2, <1>3, <1>4, <1>5, KeyKeeps

LEMMA KeyAnswersAnswer == IndInv /\ AnswerInv /\ KeyAnswers => AnswerInv'
<1> SUFFICES ASSUME IndInv, AnswerInv, KeyAnswers PROVE AnswerInv'
  OBVIOUS
<1>1. UNCHANGED <<pc, cid, reader, counts, outbox, nextCid, otherCid, history>>
      /\ key # Idle /\ key.cid < nextCid
  BY DEF KeyAnswers, AnswerInv, Fresh
<1>2. pc # "closed" => \A c : Keeps(c)
  BY KeyAnswersKeeps
<1>3. IndInv'
  BY KeyAnswersInv
<1>4. key' # Idle => key'.cid < nextCid
  BY <1>1 DEF KeyAnswers, IndInv, TypeOK
<1>5. \A x \in Elems(inbox') : x \in Elems(inbox) \/ (x.type # "init" /\ x.cid < nextCid)
  <2> DEFINE answer == [cid |-> key.cid, type |-> IF key.next = 0 THEN key.type ELSE "cont",
                        num |-> IF key.next = 0 THEN key.cont ELSE key.next - 1, req |-> key.req]
             refusal == [cid |-> key.cid, type |-> "error", num |-> 0, req |-> key.req]
  <2>1. /\ key.next \in Nat /\ key.cont \in Nat /\ key.cid \in Nat /\ key.req \in Nat
        /\ key.type \in Commands /\ key.type # "init"
    BY <1>1, Bounds DEF IndInv, TypeOK, KeyWorks
  <2>2. answer \in Packet /\ answer.type # "init" /\ answer.cid < nextCid
    <3>1. answer.num \in Nat
      BY <2>1
    <3>2. answer.type \in Types /\ answer.type # "init"
      BY <2>1 DEF Types
    <3> QED BY <1>1, <2>1, <3>1, <3>2 DEF Packet
  <2>3. refusal \in Packet /\ refusal.type # "init" /\ refusal.cid < nextCid
    BY <1>1, <2>1 DEF Packet, Types
  <2>4. ToHandle(answer) \/ ToHandle(refusal)
    BY DEF KeyAnswers
  <2> HIDE DEF answer, refusal
  <2> QED BY <2>2, <2>3, <2>4, QueuedPacket DEF IndInv
<1>6. nextCid' = nextCid /\ Elems(outbox') \subseteq Elems(outbox)
  BY <1>1
<1> QED BY <1>1, <1>2, <1>3, <1>4, <1>5, <1>6, KeyKeeps

-----------------------------------------------------------------------------
\* The transport's own steps.

LEMMA FreshKept ==
  ASSUME TypeOK, Fresh, UNCHANGED <<key, nextCid, opens>>, pc' = "await" => pc = "await",
         \A m \in Elems(outbox') : m \in Elems(outbox) \/ m.type = "init" \/ m.cid < nextCid,
         pc = "await" => UNCHANGED outbox, Elems(inbox') \subseteq Elems(inbox)
  PROVE  Fresh'
<1>1. ASSUME pc' = "await", NEW p \in Elems(inbox'), p.type = "init", p.req = opens
      PROVE  Live(p.num, outbox', key', inbox') = {}
  <2>1. Live(p.num, outbox, key, inbox) = {} /\ outbox' = outbox
    BY <1>1 DEF Fresh, Unused
  <2> QED BY <2>1, LiveHas
<1>2. \A x \in Elems(outbox') \cup Elems(inbox') : x.type # "init" => x.cid < nextCid'
  BY DEF Fresh
<1> QED BY <1>1, <1>2 DEF Fresh, Unused

\* No channel is in use afterwards.
LEMMA QuietKeeps ==
  ASSUME Fresh', pc' \notin InUse, result' # "ok" PROVE AnswerInv'
BY DEF AnswerInv, Busy, Stale, Part, Whole, InUse

LEMMA NotOk == AnswerInv /\ pc # "open" => result # "ok"
BY DEF AnswerInv, Whole

LEMMA OpenAnswer == IndInv /\ AnswerInv /\ Open => AnswerInv'
<1> SUFFICES ASSUME IndInv, AnswerInv, Open PROVE AnswerInv'
  OBVIOUS
<1>1. /\ pc' = "drain" /\ inbox' = <<>> /\ result' = "none"
      /\ UNCHANGED <<outbox, key, nextCid>>
  BY DEF Open, device
<1>2. Fresh'
  BY <1>1, EmptyElems DEF AnswerInv, Fresh
<1> QED BY <1>1, <1>2, QuietKeeps DEF InUse

LEMMA DrainAnswer == IndInv /\ AnswerInv /\ Drain => AnswerInv'
<1> SUFFICES ASSUME IndInv, AnswerInv, Drain PROVE AnswerInv'
  OBVIOUS
<1>1. /\ pc = "drain" /\ result' # "ok" /\ UNCHANGED <<key, nextCid, opens>>
      /\ pc' \in {"drain", "await", "closed"}
  BY NotOk DEF Drain, counts, device, history
<1>2. CASE inbox # <<>> /\ inbox' = Tail(inbox) /\ UNCHANGED <<pc, outbox>>
  <2>1. Fresh'
    BY <1>1, <1>2, TailElems, FreshKept DEF IndInv, TypeOK, AnswerInv
  <2> QED BY <1>1, <2>1, QuietKeeps DEF InUse
<1>3. CASE /\ ToKey([cid |-> Broadcast, type |-> "init", num |-> 0, req |-> opens])
           /\ pc' = "await" /\ UNCHANGED inbox
  <2>1. PICK m \in Packet : m = [cid |-> Broadcast, type |-> "init", num |-> 0, req |-> opens]
    <3>1. opens \in Nat
      BY Bounds DEF IndInv, TypeOK
    <3> QED BY <3>1 DEF Packet, Types, Broadcast
  <2>2. Elems(outbox') \subseteq Elems(outbox) \cup {m} /\ m.type = "init"
    BY <1>3, <2>1, SentToKey DEF IndInv
  <2>3. \A p \in Elems(inbox) : p.type = "init" => p.req # opens
    <3>1. ASSUME NEW p \in Elems(inbox), p.type = "init" PROVE p.req # opens
      <4>1. p.req < opens
        BY <1>1, <3>1 DEF IndInv, Channels, Granted
      <4>2. p \in Packet /\ opens \in Nat
        BY Bounds DEF IndInv, TypeOK, Elems
      <4> QED BY <4>1, <4>2 DEF Packet
    <3> QED BY <3>1
  <2>4. Fresh'
    BY <1>1, <1>3, <2>2, <2>3 DEF AnswerInv, Fresh
  <2> QED BY <1>1, <2>4, QuietKeeps DEF InUse
<1>4. CASE pc' = "closed" /\ UNCHANGED wire
  <2>1. Fresh'
    BY <1>1, <1>4 DEF AnswerInv, Fresh, wire
  <2> QED BY <1>1, <2>1, QuietKeeps DEF InUse
<1> QED BY <1>2, <1>3, <1>4 DEF Drain

\* Nothing is in disorder on a channel where nothing is under way.
LEMMA EmptyChannel ==
  ASSUME NEW c, NEW o \in Seq(Packet), NEW k, NEW q \in Seq(Packet), NEW s, Live(c, o, k, q) = {}
  PROVE  Requests(c, o, k, q, s) /\ Order(c, k, q)
<1>1. /\ \A x \in Elems(o) \cup Elems(q) : ~On(c, x)
      /\ \A r : ~WorksOn(c, k, r)
  BY LiveHas
<1>2. (\A i \in 1..Len(o) : o[i] \in Elems(o)) /\ (\A i \in 1..Len(q) : q[i] \in Elems(q))
  BY DEF Elems
<1>3. Requests(c, o, k, q, s)
  BY <1>1, <1>2 DEF Requests, WorksOn
<1>4. Order(c, k, q)
  BY <1>1, <1>2 DEF Order
<1> QED BY <1>3, <1>4

LEMMA AwaitAnswer == IndInv /\ AnswerInv /\ Await => AnswerInv'
<1> SUFFICES ASSUME IndInv, AnswerInv, Await PROVE AnswerInv'
  OBVIOUS
<1>1. /\ pc = "await" /\ result' # "ok"
      /\ UNCHANGED <<sent, opens, outbox, key, nextCid, abandoned>>
      /\ TypeOK /\ Fresh
  BY NotOk DEF Await, counts, device, history, IndInv, AnswerInv
<1>2. CASE pc' = "closed" /\ UNCHANGED <<cid, inbox>>
  <2>1. Fresh'
    BY <1>1, <1>2, FreshKept
  <2> QED BY <1>1, <1>2, <2>1, QuietKeeps DEF InUse
<1>3. CASE inbox # <<>> /\ inbox' = Tail(inbox)
  <2>1. /\ inbox' \in Seq(Packet) /\ Elems(inbox') \subseteq Elems(inbox)
        /\ Head(inbox) \in Elems(inbox) /\ outbox \in Seq(Packet)
    BY <1>1, <1>3, TailElems DEF TypeOK
  <2>2. ASSUME pc' \in {"await", "open"} PROVE Fresh'
    BY <1>1, <2>1, FreshKept
  <2>3. CASE UNCHANGED pc
    BY <1>1, <2>2, <2>3, QuietKeeps DEF InUse
  <2>4. CASE IsOurs(Head(inbox)) /\ pc' = "open" /\ cid' = Head(inbox).num
    <3>1. Live(cid', outbox, key, inbox) = {}
      BY <1>1, <2>1, <2>4 DEF Fresh, Unused, IsOurs
    <3>2. Live(cid', outbox, key, inbox') = {}
      BY <2>1, <3>1, LiveHas
    <3>3. Requests(cid', outbox', key', inbox', sent') /\ Order(cid', key', inbox')
      BY <1>1, <2>1, <3>2, EmptyChannel
    <3>4. Busy'
      BY <1>1, <3>2, <3>3 DEF Busy
    <3>5. Fresh' /\ Stale' /\ Part' /\ Whole'
      BY <1>1, <2>2, <2>4 DEF Stale, Part, Whole
    <3> QED BY <3>4, <3>5 DEF AnswerInv
  <2> QED BY <1>1, <1>3, <2>3, <2>4 DEF Await
<1> QED BY <1>1, <1>2, <1>3 DEF Await

LEMMA MoreRequests ==
  ASSUME NEW c, NEW o, NEW k, NEW q, NEW s \in Nat, Requests(c, o, k, q, s)
  PROVE  Requests(c, o, k, q, s + 1)
<1>1. 1..s \subseteq 1..(s + 1)
  OBVIOUS
<1> QED BY <1>1 DEF Requests

LEMMA SendAnswer == IndInv /\ AnswerInv /\ Send => AnswerInv'
<1> SUFFICES ASSUME IndInv, AnswerInv, Send PROVE AnswerInv'
  OBVIOUS
<1>1. /\ pc = "open" /\ sent' = sent + 1 /\ cmd' \in Commands /\ buf' = Blank
      /\ UNCHANGED <<cid, opens, inbox, key, nextCid, abandoned>>
      /\ TypeOK /\ Fresh
      /\ pc' \in {"open", "closed", "first"} /\ result' # "ok"
  BY DEF Send, Raise, device, IndInv, AnswerInv
<1>2. /\ Requests(cid, outbox, key, inbox, sent) /\ Order(cid, key, inbox)
      /\ ~abandoned => Live(cid, outbox, key, inbox) = {}
      /\ outbox \in Seq(Packet) /\ sent \in Nat /\ sent' \in Nat
  BY <1>1, Bounds DEF AnswerInv, Busy, InUse, TypeOK
<1>3. Part' /\ Whole' /\ Stale'
  BY <1>1, Kinds DEF Part, Whole, Stale, Blank
<1>4. CASE UNCHANGED outbox /\ pc' \in {"open", "closed"}
  <2>1. Fresh'
    BY <1>1, <1>4, FreshKept
  <2>2. Requests(cid', outbox', key', inbox', sent')
    BY <1>1, <1>2, <1>4, MoreRequests
  <2>3. Busy'
    BY <1>1, <1>2, <1>4, <2>2 DEF Busy
  <2> QED BY <1>3, <2>1, <2>3 DEF AnswerInv
<1>5. CASE /\ ToKey([cid |-> cid, type |-> cmd', num |-> 0, req |-> sent']) /\ pc' = "first"
  <2>1. PICK m \in Packet : m = [cid |-> cid, type |-> cmd', num |-> 0, req |-> sent']
    BY <1>1, <1>2 DEF TypeOK, Packet, Types
  <2>2. outbox' = Append(outbox, m) /\ m.cid = cid /\ m.req = sent + 1
    BY <1>1, <1>5, <2>1 DEF ToKey
  <2>3. Elems(outbox') \subseteq Elems(outbox) \cup {m}
    BY <1>2, <2>2, AppendElems
  <2>4. Fresh'
    <3>1. m.cid < nextCid
      BY <2>2 DEF IndInv, Channels
    <3> QED BY <1>1, <2>3, <3>1, FreshKept
  <2>5. Requests(cid', outbox', key', inbox', sent')
    BY <1>1, <1>2, <2>2, AskedRequests
  <2>6. ~abandoned' => Live(cid', outbox', key', inbox') \subseteq {sent'}
    BY <1>1, <1>2, <2>2, <2>3, LiveHas
  <2>7. Busy'
    BY <1>1, <1>2, <1>5, <2>5, <2>6 DEF Busy
  <2> QED BY <1>3, <2>4, <2>7 DEF AnswerInv
<1> QED BY <1>4, <1>5 DEF Send, Raise

LEMMA CloseAnswer == IndInv /\ AnswerInv /\ Close => AnswerInv'
<1> SUFFICES ASSUME IndInv, AnswerInv, Close PROVE AnswerInv'
  OBVIOUS
<1>1. /\ pc' = "closed" /\ inbox' = <<>> /\ result' = "none"
      /\ UNCHANGED <<outbox, key, nextCid>>
  BY DEF Close, device
<1>2. Fresh'
  BY <1>1, EmptyElems DEF AnswerInv, Fresh
<1> QED BY <1>1, <1>2, QuietKeeps DEF InUse

LEMMA ExpireAnswer == AnswerInv /\ (Expire \/ UNCHANGED vars) => AnswerInv'
<1> SUFFICES ASSUME AnswerInv,
      UNCHANGED <<pc, cid, cmd, buf, want, data, counts, wire, device, history>>
    PROVE AnswerInv'
  BY DEF Expire, vars, reader
<1>1. Fresh' /\ Busy'
  BY DEF AnswerInv, Fresh, Busy, Unused, counts, wire, device, history
<1>2. Stale' /\ Part' /\ Whole'
  BY DEF AnswerInv, Stale, Part, Whole, InSequence, counts, wire, device, history
<1> QED BY <1>1, <1>2 DEF AnswerInv

\* One read of a reader's.
LEMMA ReaderKeeps ==
  ASSUME IndInv, AnswerInv, pc \in InUse, UNCHANGED <<cid, sent, opens, outbox, device>>,
         inbox' = inbox \/ (inbox # <<>> /\ inbox' = Tail(inbox)),
         pc' \in {"open", "closed", "first", "cont"},
         ~abandoned' => Live(cid, outbox, key, inbox') \subseteq (IF pc' = "open" THEN {} ELSE {sent}),
         Stale', Part', Whole'
  PROVE  AnswerInv'
<1>1. /\ Requests(cid, outbox, key, inbox, sent) /\ Order(cid, key, inbox) /\ TypeOK /\ Fresh
      /\ inbox \in Seq(Packet) /\ outbox \in Seq(Packet) /\ UNCHANGED <<key, nextCid>>
  BY DEF IndInv, TypeOK, AnswerInv, Busy, device
<1>2. Elems(inbox') \subseteq Elems(inbox)
  BY <1>1, TailElems
<1>3. Requests(cid, outbox, key, inbox', sent)
  BY <1>1, <1>2, FewerRequests
<1>4. Order(cid, key, inbox')
  BY <1>1, ReadOrder
<1>5. Busy'
  BY <1>1, <1>3, <1>4 DEF Busy
<1>6. Fresh'
  BY <1>1, <1>2, FreshKept
<1> QED BY <1>5, <1>6 DEF AnswerInv

\* A request given up leaves what is under way for it where it is.
LEMMA GiveUpAnswer ==
  ASSUME IndInv, AnswerInv, pc \in InUse, UNCHANGED <<cid, sent, opens, outbox, device>>,
         inbox' = inbox \/ (inbox # <<>> /\ inbox' = Tail(inbox)), GiveUp
  PROVE  AnswerInv'
<1>1. pc' \in {"open", "closed"} /\ result' = "error" /\ abandoned'
  BY DEF GiveUp, Raise
<1>2. Stale' /\ Part' /\ Whole'
  BY <1>1 DEF Stale, Part, Whole
<1> QED BY <1>1, <1>2, ReaderKeeps

\* A request that is over leaves nothing under way.
LEMMA OverAnswer ==
  ASSUME IndInv, AnswerInv, pc \in InUse, UNCHANGED <<cid, sent, opens, outbox, device>>,
         inbox # <<>>, inbox' = Tail(inbox), pc' \in {"open", "closed"}, UNCHANGED abandoned,
         ~abandoned => Live(cid, outbox, key, Tail(inbox)) = {},
         result' = "ok" => pc' = "open" /\ Whole'
  PROVE  AnswerInv'
<1>1. Stale' /\ Part' /\ Whole'
  BY DEF Stale, Part, Whole
<1> QED BY <1>1, ReaderKeeps

LEMMA ReadFirstAnswer == IndInv /\ AnswerInv /\ ReadFirst => AnswerInv'
<1> SUFFICES ASSUME IndInv, AnswerInv, ReadFirst PROVE AnswerInv'
  OBVIOUS
<1>1. /\ pc = "first" /\ pc \in InUse
      /\ UNCHANGED <<cid, cmd, sent, opens, outbox, device, key>>
      /\ inbox \in Seq(Packet) /\ TypeOK /\ key.cont \in Nat /\ key.next \in Nat
      /\ key.next <= key.cont /\ sent \in Nat /\ cmd \in Commands
  BY Bounds DEF ReadFirst, InUse, counts, device, IndInv, TypeOK, KeyWorks
<1>2. /\ Requests(cid, outbox, key, inbox, sent) /\ Order(cid, key, inbox) /\ Stale
      /\ ~abandoned => Live(cid, outbox, key, inbox) \subseteq {sent}
      /\ result # "ok"
  BY <1>1, NotOk DEF AnswerInv, Busy
<1>3. CASE DeadlinePassed
  BY <1>1, <1>3, GiveUpAnswer DEF ReadFirst
<1>4. CASE ~DeadlinePassed
  <2>1. PICK p \in Packet : p = PacketRead /\ Sized(p)
    BY ReadPacket DEF IndInv
  <2>2. /\ inbox' = inbox \/ (inbox # <<>> /\ inbox' = Tail(inbox))
        /\ buf' = Kept(p)
    BY <1>4, <2>1 DEF ReadFirst, Rest
  <2>3. CASE Skips(p) /\ UNCHANGED <<pc, want, data, history>>
    <3>1. Stale'
      BY <1>1, <2>2, <2>3, Kinds DEF Stale, Kept, Waits, Skips
    <3>2. Part' /\ Whole'
      BY <1>1, <1>2, <2>3 DEF Part, Whole, history
    <3>3. ~abandoned' => Live(cid, outbox, key, inbox') \subseteq {sent}
      <4>1. Elems(inbox') \subseteq Elems(inbox)
        BY <1>1, <2>2, TailElems
      <4> QED BY <1>2, <2>3, <4>1, LiveHas DEF history
    <3> QED BY <1>1, <2>2, <2>3, <3>1, <3>2, <3>3, ReaderKeeps
  <2>4. CASE GiveUp
    BY <1>1, <2>2, <2>4, GiveUpAnswer
  <2>5. ASSUME ~Skips(p), p.type \in Commands \cup {"error"}
        PROVE  inbox # <<>> /\ p = Head(inbox) /\ inbox' = Tail(inbox) /\ On(cid, p)
    <3>1. inbox # <<>>
      BY <1>1, <1>2, <2>1, <2>5 DEF Stale, PacketRead, Skips
    <3>2. p.type # "init"
      BY <2>5, Kinds
    <3> QED BY <1>4, <2>1, <2>5, <3>1, <3>2 DEF ReadFirst, PacketRead, Rest, Skips, On
  <2>6. CASE ~Skips(p) /\ p.type = "error" /\ Refused
    <3>1. inbox # <<>> /\ p = Head(inbox) /\ inbox' = Tail(inbox) /\ On(cid, p)
      BY <2>5, <2>6
    <3>2. \A x : ~Before(p, x)
      BY <2>6, Kinds DEF Before
    <3>3. ~SentOf(key, p)
      BY <2>6, Kinds DEF SentOf
    <3>4. ~abandoned => Live(cid, outbox, key, Tail(inbox)) = {}
      BY <1>1, <1>2, <3>1, <3>2, <3>3, NothingLeft
    <3>5. pc' \in {"open", "closed"} /\ result' # "ok" /\ UNCHANGED abandoned
      BY <2>6 DEF Refused, Raise
    <3> QED BY <1>1, <3>1, <3>4, <3>5, OverAnswer
  <2>7. CASE ~Skips(p) /\ p.type = cmd /\ want' = p.num /\ data' = <<p>>
    <3>1. inbox # <<>> /\ p = Head(inbox) /\ inbox' = Tail(inbox) /\ On(cid, p) /\ p.type \in Commands
      BY <1>1, <2>5, <2>7
    <3>2. data'[1] = p /\ Len(data') = 1
      BY <2>7
    <3>3. InOrder(data')
      BY <3>2 DEF InOrder
    <3>4. p.req \in 1..sent /\ (~abandoned => p.req = sent)
      <4>1. p.req \in Live(cid, outbox, key, inbox)
        BY <1>1, <3>1, TailElems, LiveHas
      <4> QED BY <1>2, <4>1 DEF Requests
    <3>5. CASE p.num = 0 /\ Return
      <4>1. \A x : Before(p, x) => x.num < 0
        BY <3>1, <3>5, Kinds DEF Before
      <4>2. ASSUME NEW x \in Elems(Tail(inbox)) PROVE ~Before(p, x)
        <5>1. x \in Packet
          BY <1>1, <3>1, TailElems DEF Elems
        <5> QED BY <4>1, <5>1 DEF Packet
      <4>3. ~SentOf(key, p)
        BY <1>1, <3>1, <3>5, Kinds DEF SentOf
      <4>4. ~abandoned => Live(cid, outbox, key, Tail(inbox)) = {}
        BY <1>1, <1>2, <3>1, <4>2, <4>3, NothingLeft
      <4>5. /\ pc' \in {"open", "closed"} /\ UNCHANGED abandoned
            /\ result' = "ok" => pc' = "open"
        BY <3>5 DEF Return, Raise
      <4>6. pc' = "open" => Whole'
        BY <1>1, <3>2, <3>3, <3>4, <3>5, <4>5 DEF Whole
      <4> QED BY <1>1, <3>1, <4>4, <4>5, <4>6, OverAnswer
    <3>6. CASE pc' = "cont" /\ UNCHANGED history
      <4>1. Remains(cid, outbox, key, inbox', p, 0)
        BY <1>1, <1>2, <3>1, FirstRemains
      <4>2. Part'
        BY <1>1, <2>7, <3>1, <3>2, <3>3, <3>4, <3>6, <4>1 DEF Part, history, device
      <4>3. Whole'
        BY <1>2, <3>6 DEF Whole, history
      <4>4. Stale'
        BY <2>2, <3>1, <3>6, Kinds DEF Stale, InSequence, Kept, Waits
      <4>5. ~abandoned' => Live(cid, outbox, key, inbox') \subseteq {sent}
        <5>1. Elems(inbox') \subseteq Elems(inbox)
          BY <1>1, <2>2, TailElems
        <5> QED BY <1>2, <3>6, <5>1, LiveHas DEF history
      <4> QED BY <1>1, <2>2, <3>6, <4>2, <4>3, <4>4, <4>5, ReaderKeeps
    <3> QED BY <1>4, <2>1, <2>4, <2>7, <3>1, <3>5, <3>6, Kinds DEF ReadFirst
  <2> QED BY <1>4, <2>1, <2>3, <2>4, <2>6, <2>7 DEF ReadFirst
<1> QED BY <1>3, <1>4

LEMMA ReadContAnswer == IndInv /\ AnswerInv /\ ReadCont => AnswerInv'
<1> SUFFICES ASSUME IndInv, AnswerInv, ReadCont PROVE AnswerInv'
  OBVIOUS
<1> DEFINE n == Len(data) - 1
           d == data[1]
<1>1. /\ pc = "cont" /\ pc \in InUse
      /\ UNCHANGED <<cid, cmd, sent, opens, outbox, device, key>>
      /\ inbox \in Seq(Packet) /\ TypeOK /\ key.cont \in Nat /\ key.next \in Nat
      /\ key.next <= key.cont
  BY Bounds DEF ReadCont, InUse, counts, device, IndInv, TypeOK, KeyWorks
<1>2. /\ Requests(cid, outbox, key, inbox, sent) /\ Order(cid, key, inbox) /\ Stale
      /\ ~abandoned => Live(cid, outbox, key, inbox) \subseteq {sent}
      /\ Part /\ result # "ok"
  BY <1>1, NotOk DEF AnswerInv, Busy
<1>3. /\ n \in Nat /\ n < d.num /\ want = d.num /\ d.num \in Nat /\ d \in Packet
      /\ Len(data) = n + 1 /\ data \in Seq(Packet)
      /\ On(cid, d) /\ d.type \in Commands /\ InOrder(data)
      /\ d.req \in 1..sent /\ (~abandoned => d.req = sent)
      /\ Remains(cid, outbox, key, inbox, d, n)
  <2>1. data \in Seq(Packet) /\ Len(data) \in 1..want /\ want \in Nat
    BY <1>1, Bounds DEF TypeOK
  <2>2. d \in Packet
    BY <2>1
  <2>3. d.num \in Nat
    BY <2>2 DEF Packet
  <2>4. want = d.num
    BY <1>1, <1>2 DEF Part
  <2>5. n \in Nat /\ n < d.num /\ Len(data) = n + 1
    BY <2>1, <2>4
  <2>6. /\ On(cid, d) /\ d.type \in Commands /\ InOrder(data)
        /\ d.req \in 1..sent /\ (~abandoned => d.req = sent)
        /\ Remains(cid, outbox, key, inbox, d, n)
    BY <1>1, <1>2 DEF Part
  <2> QED BY <2>1, <2>2, <2>3, <2>4, <2>5, <2>6
<1> HIDE DEF n, d
<1>4. PICK p \in Packet : p = PacketRead /\ Sized(p)
  BY ReadPacket DEF IndInv
<1>5. /\ inbox' = inbox \/ (inbox # <<>> /\ inbox' = Tail(inbox))
      /\ buf' = Kept(p)
  BY <1>4 DEF ReadCont, Rest
<1>6. CASE p.cid # cid /\ UNCHANGED <<pc, want, data, history>>
  <2>1. Elems(inbox') \subseteq Elems(inbox)
    BY <1>1, <1>5, TailElems
  <2>2. ~abandoned' => Live(cid, outbox, key, inbox') \subseteq {sent}
    BY <1>2, <1>6, <2>1, LiveHas DEF history
  <2>3. Stale' /\ Whole'
    BY <1>1, <1>2, <1>5, <1>6 DEF Stale, Whole, Kept, Waits, history
  <2>4. Remains(cid, outbox, key, inbox', d, n)
    <3>1. CASE inbox' = inbox
      BY <1>3, <3>1
    <3>2. CASE inbox # <<>> /\ inbox' = Tail(inbox)
      <4>1. ~On(cid, Head(inbox))
        BY <1>4, <1>6, <3>2 DEF PacketRead, On
      <4> QED BY <1>1, <1>3, <3>2, <4>1, OtherRemains
    <3> QED BY <1>5, <3>1, <3>2
  <2>5. Part'
    BY <1>1, <1>2, <1>6, <2>4 DEF Part, history, d, n
  <2> QED BY <1>1, <1>5, <1>6, <2>2, <2>3, <2>5, ReaderKeeps
<1>7. CASE GiveUp
  BY <1>1, <1>5, <1>7, GiveUpAnswer
<1>8. CASE p.cid = cid /\ InSequence(p) /\ data' = Append(data, p) /\ UNCHANGED want
  <2>1. inbox # <<>> /\ p = Head(inbox) /\ inbox' = Tail(inbox)
    <3>1. inbox # <<>>
      BY <1>1, <1>2, <1>4, <1>8 DEF Stale, PacketRead
    <3> QED BY <1>4, <3>1 DEF ReadCont, PacketRead, Rest
  <2>2. p.type = "cont" /\ p.num = n /\ On(cid, p)
    BY <1>8 DEF InSequence, On, n
  <2>3. p.req = d.req /\ Remains(cid, outbox, key, inbox', d, n + 1)
    BY <1>1, <1>3, <2>1, <2>2, NextRemains
  <2>4. /\ data'[1] = d /\ Len(data') = n + 2 /\ data'[n + 2] = p
        /\ \A i \in 1..(n + 1) : data'[i] = data[i]
    BY <1>3, <1>8 DEF d
  <2>5. InOrder(data')
    <3>1. ASSUME NEW i \in 2..Len(data') PROVE data'[i].num = i - 2 /\ data'[i].req = data'[1].req
      <4>1. CASE i = n + 2
        BY <1>3, <2>2, <2>3, <2>4, <4>1
      <4>2. CASE i \in 2..(n + 1)
        BY <1>3, <2>4, <4>2 DEF InOrder, d
      <4> QED BY <1>3, <2>4, <4>1, <4>2
    <3> QED BY <3>1 DEF InOrder
  <2>6. CASE IsLast /\ Return
    <3>1. d.num = n + 1
      BY <1>3, <2>6 DEF IsLast
    <3>2. ASSUME NEW x \in Elems(Tail(inbox)), On(cid, x), x.req = p.req PROVE ~Before(p, x)
      <4>1. x \in Packet /\ x \in Elems(inbox)
        BY <1>1, <2>1, <3>2, TailElems DEF Elems
      <4>2. Before(d, x)
        BY <1>3, <2>3, <3>2, <4>1 DEF Remains
      <4>3. x.num < d.num /\ x.num \in Nat
        BY <1>3, <4>1, <4>2, Kinds DEF Before, Packet
      <4>4. ~(n < x.num)
        BY <1>3, <3>1, <4>3
      <4> QED BY <2>2, <4>4, Kinds DEF Before
    <3>3. ASSUME WorksOn(cid, key, p.req) PROVE ~SentOf(key, p)
      <4>1. SentOf(key, d)
        BY <1>3, <2>3, <3>3 DEF Remains
      <4>2. key.cont = n + 1
        BY <1>3, <3>1, <4>1, Kinds DEF SentOf
      <4>3. ~(n + 1 < key.next)
        BY <1>1, <1>3, <4>2
      <4> QED BY <2>2, <4>3, Kinds DEF SentOf
    <3>4. ~abandoned => Live(cid, outbox, key, Tail(inbox)) = {}
      BY <1>1, <1>2, <2>1, <2>2, <3>2, <3>3, NothingLeft
    <3>5. /\ pc' \in {"open", "closed"} /\ UNCHANGED abandoned
          /\ result' = "ok" => pc' = "open"
      BY <2>6 DEF Return, Raise
    <3>6. pc' = "open" => Whole'
      <4>1. Len(data') = data'[1].num + 1 /\ data'[1].req # 0
        BY <1>3, <2>4, <3>1
      <4> QED BY <1>1, <1>3, <2>4, <2>5, <3>5, <4>1 DEF Whole
    <3> QED BY <1>1, <2>1, <3>4, <3>5, <3>6, OverAnswer
  <2>7. CASE UNCHANGED <<pc, history>>
    <3>1. Len(data') - 1 = n + 1
      BY <1>3, <2>4
    <3>2. Part'
      BY <1>1, <1>3, <1>8, <2>3, <2>4, <2>5, <2>7, <3>1 DEF Part, history, device
    <3>3. Stale'
      <4>1. buf' = p /\ p.num # Len(data') - 1
        BY <1>1, <1>3, <1>5, <2>2, <2>7, <3>1 DEF Kept, Waits
      <4> QED BY <1>1, <2>7, <4>1 DEF Stale, InSequence
    <3>4. Whole'
      BY <1>2, <2>7 DEF Whole, history
    <3>5. ~abandoned' => Live(cid, outbox, key, inbox') \subseteq {sent}
      <4>1. Elems(inbox') \subseteq Elems(inbox)
        BY <1>1, <1>5, TailElems
      <4> QED BY <1>2, <2>7, <4>1, LiveHas DEF history
    <3> QED BY <1>1, <1>5, <2>7, <3>2, <3>3, <3>4, <3>5, ReaderKeeps
  <2> QED BY <1>4, <1>8, <2>6, <2>7 DEF ReadCont
<1> QED BY <1>4, <1>6, <1>7, <1>8 DEF ReadCont

LEMMA ReadFailsAnswer == IndInv /\ AnswerInv /\ ReadFails => AnswerInv'
BY GiveUpAnswer DEF ReadFails, InUse, counts, wire

LEMMA StepAnswer == IndInv /\ AnswerInv /\ [Next]_vars => AnswerInv'
BY OtherSendsAnswer, KeyAllocatesAnswer, KeyTakesAnswer, KeyKeepsAliveAnswer,
   KeyAnswersAnswer, OpenAnswer, SendAnswer, ReadFailsAnswer, CloseAnswer, ExpireAnswer,
   DrainAnswer, AwaitAnswer, ReadFirstAnswer, ReadContAnswer DEF Next, Transport

LEMMA AnswersInv == Spec => [](TypeOK /\ AnswerInv)
<1>1. IndInv /\ AnswerInv => TypeOK /\ AnswerInv
  BY DEF IndInv
<1> QED BY <1>1, InitInv, InitAnswer, StepInv, StepAnswer, PTL DEF Spec

-----------------------------------------------------------------------------

\* What read_hid_response() returns is one answer, whole and in order, for any
\* number of requests, of channels and of packets of an answer.
THEOREM AnswersAreWhole == Spec => []AnswerIsWhole
<1>1. TypeOK /\ AnswerInv => AnswerIsWhole
  BY DEF AnswerInv, Whole, InOrder, AnswerIsWhole
<1> QED BY <1>1, AnswersInv, PTL

\* It is the answer to the request just sent, as long as no request of the
\* channel was given up.
THEOREM AnswersAreOwn == Spec => []AnswerIsOwn
<1>1. ASSUME TypeOK, AnswerInv PROVE AnswerIsOwn
  <2> SUFFICES ASSUME result = "ok", ~abandoned, NEW i \in 1..Len(data) PROVE data[i].req = sent
    BY DEF AnswerIsOwn
  <2>1. data[1].req = sent /\ InOrder(data) /\ Len(data) \in Nat
    BY <1>1 DEF AnswerInv, Whole, TypeOK
  <2>2. i = 1 \/ i \in 2..Len(data)
    BY <2>1
  <2> QED BY <2>1, <2>2 DEF InOrder
<1> QED BY <1>1, AnswersInv, PTL

\* No packet for the other program is returned, whatever was given up before.
THEOREM ChannelsAreApart == Spec => []ChannelsStayApart
<1>1. ASSUME TypeOK, AnswerInv PROVE ChannelsStayApart
  <2> SUFFICES ASSUME result = "ok", NEW i \in 1..Len(data) PROVE data[i].req # 0
    BY DEF ChannelsStayApart
  <2>1. data[1].req # 0 /\ InOrder(data) /\ Len(data) \in Nat
    BY <1>1 DEF AnswerInv, Whole, TypeOK
  <2>2. i = 1 \/ i \in 2..Len(data)
    BY <2>1
  <2> QED BY <2>1, <2>2 DEF InOrder
<1> QED BY <1>1, AnswersInv, PTL

=============================================================================
