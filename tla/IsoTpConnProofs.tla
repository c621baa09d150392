-------------------------- MODULE IsoTpConnProofs ---------------------------
(***************************************************************************)
(* Two ISO-TP endpoints on a bus that loses and repeats nothing, for any   *)
(* lengths of messages, any block size, any number of messages that are    *)
(* given up in the middle, and a foreign peer whose frames carry no data.  *)
(* The argument: the data frames queued at an endpoint continue what its   *)
(* Receiver holds and one another (Follows), and the first frames among    *)
(* them are in the order of their messages.  Of the flow control: what a   *)
(* receiver counted of a block and what is queued for it is what the       *)
(* sender counted (FlowInv).                                               *)
(***************************************************************************)
EXTENDS IsoTpConn, FiniteSetTheorems, SequenceTheorems, TLAPS

Said == Message \cup {NoMessage}
Frame == [pci : {"SF"}, msg : Said, len : Nat]
           \cup [pci : {"FF"}, msg : Said, len : Nat, short : BOOLEAN]
           \cup [pci : {"CF"}, msg : Said, off : Nat, sn : Nat]
           \cup [pci : {"FC"}, bs : Nat,
                 status : {"continue", "wait", "overflow", "reserved"}]
Buffer == [len : Nat, parts : Seq(PartSet)]
Rx == [active : BOOLEAN, want : Nat, got : Nat, parts : Seq(PartSet),
       seq : 0 .. SeqNumbers - 1, inBlock : Nat]
Job == [msg : Said, off : Nat, seq : 0 .. SeqNumbers - 1, bs : Nat, i : Nat,
        waits : Nat]

\* A frame that carries nothing of a message.
Plain(f) == \/ f.pci = "FC"
            \/ f.pci = "SF" /\ f.len \notin 1 .. SFMax
            \/ f.pci = "FF" /\ (f.short \/ f.len < FrameLen)

\* A foreign peer may send any flow control, and malformed frames.
StraysAreFrames == Strays \subseteq Frame
StraysArePlain == \A f \in Strays : Plain(f)

TypeInv ==
  /\ TypeOK
  /\ inbox \in [Node -> Seq(Frame)]
  /\ got \in [Node -> Seq(Buffer)]
  /\ \A n \in Node : rx[n].active => rx[n].got < rx[n].want

\* s lists the messages an endpoint has begun to send, m among them.
Sent(s, m) == m.id \in 1 .. Len(s) /\ s[m.id] = m

\* Where a consecutive frame of m may begin.
Offset(m, off) == /\ m.len > SFMax /\ off < m.len
                  /\ \E j \in Nat : off = FFData + CFData * j

\* The data frames of the messages of s.
Start(s, f) ==
  /\ \/ f.pci = "SF" /\ f.len \in 1 .. SFMax
     \/ f.pci = "FF" /\ f.len > SFMax /\ ~f.short
  /\ Sent(s, f.msg) /\ f.len = f.msg.len
Middle(s, f) == f.pci = "CF" /\ Sent(s, f.msg) /\ Offset(f.msg, f.off)

\* Receiver r has the first bytes of m, up to off.
Holds(r, m, off) == r.parts[1].msg = m /\ r.got = off

\* A data frame f goes as far as off in m.
Ends(f, m, off) == /\ f.msg = m
                   /\ \/ f.pci = "FF" /\ off = FFData
                      \/ f.pci = "CF" /\ off = f.off + CFData

\* Whoever reads the first i - 1 frames of the inbox q with Receiver r is
\* then about to get the part of m at off, or is not in a transfer.
Follows(q, r, i, m, off) ==
  \/ \E j \in 1 .. i - 1 :
       /\ ~Plain(q[j]) /\ Ends(q[j], m, off)
       /\ \A k \in j + 1 .. i - 1 : Plain(q[k])
  \/ /\ \A j \in 1 .. i - 1 : Plain(q[j])
     /\ r.active => Holds(r, m, off)

\* The parts a Receiver holds are the first ones of a message of s.
Holding(s, r) ==
  LET m == r.parts[1].msg
      c == Len(r.parts)
  IN /\ Sent(s, m) /\ m.len > SFMax
     /\ r.want = m.len /\ r.got < r.want
     /\ c > 0 /\ r.got = FFData + CFData * (c - 1)
     /\ \A i \in 1 .. c : r.parts[i] = Split(m)[i]

\* The number of the last message received, g being what was.
LastGot(g) == IF g = <<>> THEN 0 ELSE g[Len(g)].parts[1].msg.id

\* What is queued: frames without data, first frames of messages of s, and
\* consecutive frames that follow what is before them.
FramesInv(q, r, s) ==
  \A i \in 1 .. Len(q) :
    \/ Plain(q[i]) \/ Start(s, q[i])
    \/ Middle(s, q[i]) /\ Follows(q, r, i, q[i].msg, q[i].off)

\* Messages begin in the order of their numbers.
OrderInv(q, r, s, g) ==
  /\ r.active => r.parts[1].msg.id > LastGot(g)
  /\ LastGot(g) \in 0 .. Len(s)
  /\ \A i \in 1 .. Len(q) :
       Start(s, q[i]) =>
         /\ q[i].msg.id > LastGot(g)
         /\ r.active => q[i].msg.id > r.parts[1].msg.id
         /\ \A j \in 1 .. i - 1 :
              Start(s, q[j]) => q[j].msg.id < q[i].msg.id

\* What was received are messages of s.
GotInv(s, g) ==
  \A i \in 1 .. Len(g) : \E k \in 1 .. Len(s) :
    g[i] = [len |-> s[k].len, parts |-> Split(s[k])]

OneWay(q, r, s, g) ==
  /\ FramesInv(q, r, s)
  /\ r.active => Holding(s, r)
  /\ OrderInv(q, r, s, g)
  /\ GotInv(s, g)

\* The frame with the part of m at off may be sent next.
Ahead(q, r, s, m, off) ==
  Sent(s, m) /\ Offset(m, off) /\ Follows(q, r, Len(q) + 1, m, off)

Sending(n) == pc[n] \in {"waitFC", "block"}

\* The messages have the numbers of their places.
SentInv == \A n \in Node : \A k \in 1 .. Len(sent[n]) :
  LET m == sent[n][k]
  IN m.id = k /\ m.from = n /\ m.len \in Lengths
     /\ k <= MaxMessages + MaxCalm

\* From the peer of n to n.
Direction(n) ==
  LET p == Peer(n)
  IN /\ OneWay(inbox[n], rx[n], sent[p], got[n])
     /\ rx[n].active => pc[n] = "receive"
     /\ Sending(p) =>
          Ahead(inbox[n], rx[n], sent[p], job[p].msg, job[p].off)

IInv == TypeInv /\ SentInv /\ \A n \in Node : Direction(n)

-----------------------------------------------------------------------------
(* The endpoints, the parts of a message, and Feed                         *)

LEMMA PeerFacts ==
  ASSUME NEW n \in Node
  PROVE  /\ Peer(n) \in Node /\ Peer(n) # n /\ Peer(Peer(n)) = n
         /\ \A m \in Node : m = n \/ m = Peer(n)
<1>0. PICK x \in Node : \E y \in Node \ {x} : Node = {x, y}
  BY NodeAssumption
<1>1. PICK y \in Node \ {x} : Node = {x, y}
  BY <1>0
<1>2. \A z \in Node : Peer(z) \in Node /\ Peer(z) # z
  <2>1. SUFFICES ASSUME NEW z \in Node PROVE \E m \in Node : m # z
    BY DEF Peer
  <2> QED BY <1>1
<1> QED BY <1>1, <1>2

LEMMA Quotient ==
  ASSUME NEW len \in Nat, NEW c \in Nat,
         FFData + CFData * (c - 1) < len, len <= FFData + CFData * c, c > 0
  PROVE  (len - FFData + CFData - 1) \div CFData = c
BY DEF FFData, CFData

\* The parts of a message of more than one frame.
LEMMA SplitParts ==
  ASSUME NEW m, m.len \in Nat, m.len > SFMax
  PROVE  LET s == Split(m)
         IN /\ Len(s) = 1 + (m.len - FFData + CFData - 1) \div CFData
            /\ DOMAIN s = 1 .. Len(s) /\ Len(s) \in Nat
            /\ s = [k \in 1 .. Len(s) |-> s[k]]
            /\ s[1] = Part(m, 0, FFData)
            /\ \A k \in 2 .. Len(s) :
                 LET off == FFData + CFData * (k - 2)
                 IN s[k] = Part(m, off, Lesser(m.len - off, CFData))
<1>1. PICK c \in Nat : c = (m.len - FFData + CFData - 1) \div CFData
  BY DEF FFData, CFData, SFMax
<1> DEFINE P(k) == LET off == FFData + CFData * (k - 1)
                   IN Part(m, off, Lesser(m.len - off, CFData))
           t == [k \in 1 .. c |-> P(k)]
           x == Part(m, 0, FFData)
<1>2. Split(m) = <<x>> \o t
  <2>1. Split(m) = <<Part(m, 0, FFData)>> \o
          [k \in 1 .. (m.len - FFData + CFData - 1) \div CFData |->
            LET off == FFData + CFData * (k - 1)
            IN Part(m, off, Lesser(m.len - off, CFData))]
    <3>1. ~(m.len <= SFMax)
      BY DEF SFMax
    <3> QED BY <3>1 DEF Split
  <2> QED BY <1>1, <2>1
<1>3. t \in Seq({P(k) : k \in 1 .. c}) /\ Len(t) = c
  <2> HIDE DEF P
  <2>1. t \in [1 .. c -> {P(k) : k \in 1 .. c}]
    OBVIOUS
  <2>2. \A S : \A u \in [1 .. c -> S] : u \in Seq(S) /\ Len(u) = c
    OBVIOUS
  <2> QED BY <2>1, <2>2
<1>4. \A k \in 2 .. 1 + c : t[k - 1] = P(k - 1)
  OBVIOUS
<1> HIDE DEF P, x, t
<1>5. \A S : \A u \in Seq(S) : \A y \in S :
        LET s == <<y>> \o u
        IN /\ Len(s) = 1 + Len(u) /\ s \in Seq(S)
           /\ s[1] = y
           /\ \A k \in 2 .. Len(s) : s[k] = u[k - 1]
  OBVIOUS
<1>6. x \in {P(k) : k \in 1 .. c} \cup {x}
      /\ t \in Seq({P(k) : k \in 1 .. c} \cup {x})
  BY <1>3
<1>7. PICK s : s = <<x>> \o t
  OBVIOUS
<1>8. /\ Len(s) = 1 + c /\ s \in Seq({P(k) : k \in 1 .. c} \cup {x})
      /\ s[1] = x
      /\ \A k \in 2 .. Len(s) : s[k] = t[k - 1]
  BY <1>3, <1>5, <1>6, <1>7
<1>9. DOMAIN s = 1 .. Len(s) /\ Len(s) \in Nat
      /\ s = [k \in 1 .. Len(s) |-> s[k]]
  BY <1>8
<1>10. s[1] = Part(m, 0, FFData)
  BY <1>8 DEF x
<1>11. ASSUME NEW k \in 2 .. Len(s)
       PROVE  LET off == FFData + CFData * (k - 2)
              IN s[k] = Part(m, off, Lesser(m.len - off, CFData))
  <2>1. s[k] = P(k - 1) /\ (k - 1) - 1 = k - 2
    BY <1>4, <1>8
  <2> QED BY <2>1 DEF P
<1> QED BY <1>1, <1>2, <1>7, <1>8, <1>9, <1>10, <1>11

\* What Feed gives back is a Receiver, a flow control frame, a buffer.
Receivers(r) == r \in Rx /\ (r.active => r.got < r.want)
Control(f) == f \in Frame /\ f.pci = "FC" /\ Plain(f)

LEMMA NewReceiverIs ==
  /\ Receivers(NewReceiver) /\ ~NewReceiver.active /\ NoMessage \in Buffer
  /\ NoMessage.len = 0
<1>1. <<>> \in Seq(PartSet) /\ 0 \in 0 .. SeqNumbers - 1
  BY SeqNumbersAssumption
<1> QED BY <1>1 DEF Receivers, NewReceiver, Rx, NoMessage, Buffer

LEMMA ControlFrames ==
  /\ Control(FlowControl("continue", BlockSize))
  /\ Control(FlowControl("overflow", 0))
<1>1. BlockSize \in Nat
  BY BlockSizeAssumption
<1> QED BY <1>1 DEF Control, FlowControl, Frame, Plain

LEMMA FeedTypes ==
  ASSUME NEW r, Receivers(r), NEW f \in Frame
  PROVE  LET fed == Feed(r, f)
         IN /\ Receivers(fed.r) /\ fed.msg \in Buffer
            /\ fed.fc = NoFrame \/ Control(fed.fc)
<1> DEFINE Good(fed) == /\ Receivers(fed.r) /\ fed.msg \in Buffer
                        /\ fed.fc = NoFrame \/ Control(fed.fc)
<1>1. \A q, fc, m, e : Receivers(q) /\ m \in Buffer
                         /\ (fc = NoFrame \/ Control(fc)) =>
                       Good(Fed(q, fc, m, e))
  BY DEF Fed
<1>2. \A q : Receivers(q) => Good(Ignore(q))
  BY <1>1, NewReceiverIs DEF Ignore
<1>3. \A fc, e : fc = NoFrame \/ Control(fc) => Good(Failed(fc, e))
  BY <1>1, NewReceiverIs DEF Failed
<1>4. \A m \in Said, off \in Nat, n \in Nat : Part(m, off, n) \in PartSet
  BY DEF Part, PartSet, Said
<1> HIDE DEF Good
<1>5. CASE f.pci = "SF"
  <2>1. f.msg \in Said /\ f.len \in Nat
    BY <1>5 DEF Frame
  <2>2. [len |-> f.len, parts |-> <<Part(f.msg, 0, f.len)>>] \in Buffer
    <3>1. <<Part(f.msg, 0, f.len)>> \in Seq(PartSet)
      BY <1>4, <2>1
    <3> QED BY <2>1, <3>1 DEF Buffer
  <2>3. Good(FeedSingle(f))
    BY <1>1, <1>3, <2>2, NewReceiverIs DEF FeedSingle
  <2> QED BY <1>5, <2>3 DEF Feed, Good
<1>6. CASE f.pci = "FF"
  <2>1. f.msg \in Said /\ f.len \in Nat
    BY <1>6 DEF Frame
  <2>2. CASE f.short \/ f.len = 0 \/ f.len < FrameLen
    <3>1. Good(FeedFirst(r, f))
      BY <1>2, <1>3, <2>2, NewReceiverIs, ControlFrames DEF FeedFirst
    <3> QED BY <1>6, <3>1 DEF Feed, Good
  <2>3. CASE ~(f.short \/ f.len = 0 \/ f.len < FrameLen)
    <3>1. PICK b : b = [active |-> TRUE, want |-> f.len, got |-> FFData,
                        parts |-> <<Part(f.msg, 0, FFData)>>, seq |-> 1,
                        inBlock |-> 0]
      OBVIOUS
    <3>2. <<Part(f.msg, 0, FFData)>> \in Seq(PartSet)
      BY <1>4, <2>1 DEF FFData
    <3>3. 1 \in 0 .. SeqNumbers - 1 /\ FFData < f.len /\ FFData \in Nat
      BY <2>1, <2>3, SeqNumbersAssumption DEF FFData, FrameLen
    <3>4. Receivers(b)
      BY <2>1, <3>1, <3>2, <3>3 DEF Receivers, Rx
    <3>5. FeedFirst(r, f) = Fed(b, FlowControl("continue", BlockSize),
                                NoMessage, "nil")
      BY <2>3, <3>1 DEF FeedFirst
    <3>6. Good(FeedFirst(r, f))
      BY <1>1, <3>4, <3>5, NewReceiverIs, ControlFrames
    <3> QED BY <1>6, <3>6 DEF Feed, Good
  <2> QED BY <2>2, <2>3
<1>7. CASE f.pci = "CF"
  <2>1. f.msg \in Said /\ f.off \in Nat
    BY <1>7 DEF Frame
  <2>2. CASE ~r.active \/ ~InSequence(r, f)
    <3>1. Good(FeedConsecutive(r, f))
      BY <1>2, <1>3, <2>2 DEF FeedConsecutive
    <3> QED BY <1>7, <3>1 DEF Feed, Good
  <2>3. CASE r.active /\ InSequence(r, f)
    <3>1. /\ r \in Rx /\ r.got < r.want /\ r.got \in Nat /\ r.want \in Nat
          /\ r.parts \in Seq(PartSet)
      BY <2>3 DEF Receivers, Rx
    <3>2. PICK take \in Nat : take = Lesser(r.want - r.got, CFData)
      BY <3>1 DEF Lesser, CFData
    <3>3. PICK parts \in Seq(PartSet) :
            parts = Append(r.parts, Part(f.msg, f.off, take))
      BY <1>4, <2>1, <3>1, AppendProperties
    <3>4. PICK sn \in 0 .. SeqNumbers - 1 : sn = (r.seq + 1) % SeqNumbers
      <4>1. r.seq + 1 \in Nat
        BY <3>1, SeqNumbersAssumption DEF Rx
      <4> QED BY <4>1, SeqNumbersAssumption
    <3>5. PICK ib \in Nat : ib = InBlockAfter(r)
      BY <3>1 DEF InBlockAfter, Rx
    <3>6. PICK next : next = [r EXCEPT !.got = r.got + take, !.parts = parts,
                                       !.seq = sn, !.inBlock = ib]
      OBVIOUS
    <3>7. r.got + take < r.want => Receivers(next)
      <4>1. r.got + take \in Nat /\ r \in Rx
        BY <3>1
      <4>2. next \in Rx /\ next.got = r.got + take /\ next.want = r.want
        BY <3>6, <4>1 DEF Rx
      <4> QED BY <4>2 DEF Receivers
    <3>8. FeedConsecutive(r, f) =
            IF r.got + take >= r.want
            THEN Fed(NewReceiver, NoFrame, [len |-> r.want, parts |-> parts],
                     "nil")
            ELSE IF BlockSize > 0 /\ next.inBlock = 0
            THEN Fed(next, FlowControl("continue", BlockSize), NoMessage,
                     "nil")
            ELSE Ignore(next)
      BY <2>3, <3>2, <3>3, <3>4, <3>5, <3>6 DEF FeedConsecutive
    <3>9. [len |-> r.want, parts |-> parts] \in Buffer
      BY <3>1 DEF Buffer
    <3>10. Good(FeedConsecutive(r, f))
      <4>1. r.got + take >= r.want \/ r.got + take < r.want
        BY <3>1
      <4> QED BY <1>1, <1>2, <3>7, <3>8, <3>9, <4>1, NewReceiverIs,
                 ControlFrames
    <3> QED BY <1>7, <3>10 DEF Feed, Good
  <2> QED BY <2>2, <2>3
<1>8. CASE f.pci \notin {"SF", "FF", "CF"}
  BY <1>2, <1>8 DEF Feed, Good
<1> QED BY <1>5, <1>6, <1>7, <1>8 DEF Good

LEMMA FeedPlain ==
  ASSUME NEW r, NEW f, Plain(f)
  PROVE  LET fed == Feed(r, f)
         IN \/ fed.err # "nil"
            \/ fed.msg = NoMessage /\ fed.r \in {r, NewReceiver}
<1>1. \A fc, e : Failed(fc, e).err = e
  BY DEF Failed, Fed
<1>2. \A q : Ignore(q).msg = NoMessage /\ Ignore(q).r = q
  BY DEF Ignore, Fed
<1>3. CASE f.pci = "FC"
  BY <1>2, <1>3 DEF Feed
<1>4. CASE f.pci = "SF" /\ f.len \notin 1 .. SFMax
  BY <1>1, <1>4 DEF Feed, FeedSingle
<1>5. CASE f.pci = "FF" /\ (f.short \/ f.len < FrameLen)
  <2>1. \/ Feed(r, f) = Failed(NoFrame, "invalid")
        \/ Feed(r, f) = Failed(FlowControl("overflow", 0), "tooLong")
        \/ Feed(r, f) = Ignore(NewReceiver)
    BY <1>5 DEF Feed, FeedFirst
  <2> QED BY <1>1, <1>2, <2>1
<1> QED BY <1>3, <1>4, <1>5 DEF Plain

\* A single frame is a message.
LEMMA FeedWhole ==
  ASSUME NEW r, NEW f, f.pci = "SF", f.len \in 1 .. SFMax,
         f.len = f.msg.len
  PROVE  LET fed == Feed(r, f)
         IN /\ fed.err = "nil" /\ fed.r = NewReceiver
            /\ fed.msg = [len |-> f.msg.len, parts |-> Split(f.msg)]
            /\ fed.msg # NoMessage
<1>1. Split(f.msg) = <<Part(f.msg, 0, f.len)>>
  BY DEF Split, SFMax
<1>2. Feed(r, f) = Fed(NewReceiver, NoFrame,
                       [len |-> f.msg.len, parts |-> Split(f.msg)], "nil")
  BY <1>1 DEF Feed, FeedSingle
<1>3. f.msg.len # 0
  BY DEF SFMax
<1> QED BY <1>2, <1>3, NewReceiverIs DEF Fed

\* A first frame begins a transfer.
LEMMA FeedBegins ==
  ASSUME NEW s, NEW r, NEW f, f.pci = "FF", Start(s, f), f.msg \in Message
  PROVE  LET fed == Feed(r, f)
         IN /\ fed.err = "nil" /\ fed.msg = NoMessage /\ fed.r.active
            /\ Holding(s, fed.r) /\ Holds(fed.r, f.msg, FFData)
<1>1. /\ f.len > SFMax /\ ~f.short /\ Sent(s, f.msg) /\ f.len = f.msg.len
      /\ f.msg.len \in Nat
  BY DEF Start, Message
<1>2. PICK b : b = [active |-> TRUE, want |-> f.len, got |-> FFData,
                    parts |-> <<Part(f.msg, 0, FFData)>>, seq |-> 1,
                    inBlock |-> 0]
  OBVIOUS
<1>3. Feed(r, f) = Fed(b, FlowControl("continue", BlockSize), NoMessage,
                       "nil")
  <2>1. ~(f.len = 0) /\ ~(f.len < FrameLen)
    BY <1>1 DEF SFMax, FrameLen
  <2> QED BY <1>1, <1>2, <2>1 DEF Feed, FeedFirst
<1>4. /\ b.parts = <<Part(f.msg, 0, FFData)>> /\ Len(b.parts) = 1
      /\ b.parts[1] = Part(f.msg, 0, FFData) /\ b.parts[1].msg = f.msg
  <2>1. \A x : Len(<<x>>) = 1 /\ <<x>>[1] = x
    OBVIOUS
  <2> QED BY <1>2, <2>1 DEF Part
<1>5. Split(f.msg)[1] = Part(f.msg, 0, FFData)
  BY <1>1, SplitParts
<1>6. Holding(s, b)
  <2>1. b.want = f.msg.len /\ b.got = FFData /\ FFData < f.msg.len
        /\ FFData = FFData + CFData * (1 - 1)
    BY <1>1, <1>2 DEF SFMax, FFData, CFData
  <2> QED BY <1>1, <1>4, <1>5, <2>1 DEF Holding
<1>7. b.active /\ Holds(b, f.msg, FFData)
  BY <1>2, <1>4 DEF Holds
<1> QED BY <1>3, <1>6, <1>7 DEF Fed

LEMMA EnoughParts ==
  ASSUME NEW len \in Nat, NEW c \in Nat, c > 0,
         FFData + CFData * (c - 1) < len
  PROVE  (len - FFData + CFData - 1) \div CFData >= c
BY DEF FFData, CFData

\* The next consecutive frame goes on with it, and the last completes it.
LEMMA FeedContinues ==
  ASSUME NEW s, NEW r, Receivers(r), r.active, Holding(s, r), NEW f,
         Middle(s, f), Holds(r, f.msg, f.off), f.msg \in Message
  PROVE  LET fed == Feed(r, f)
         IN \/ fed.err # "nil"
            \/ /\ fed.err = "nil" /\ fed.msg = NoMessage /\ fed.r.active
               /\ Holding(s, fed.r) /\ Holds(fed.r, f.msg, f.off + CFData)
            \/ /\ fed.err = "nil" /\ fed.r = NewReceiver
               /\ fed.msg = [len |-> f.msg.len, parts |-> Split(f.msg)]
               /\ fed.msg # NoMessage
<1>1. /\ f.pci = "CF" /\ Sent(s, f.msg) /\ f.off < f.msg.len
      /\ f.msg.len > SFMax /\ f.msg.len \in Nat
  BY DEF Middle, Offset, Message
<1>2. /\ r.got = f.off /\ r.parts[1].msg = f.msg /\ r.want = f.msg.len
      /\ r.parts \in Seq(PartSet) /\ r.got \in Nat
      /\ \A i \in 1 .. Len(r.parts) : r.parts[i] = Split(f.msg)[i]
  BY DEF Holding, Holds, Receivers, Rx
<1>3. PICK c \in Nat : /\ c = Len(r.parts) /\ c > 0
                       /\ f.off = FFData + CFData * (c - 1)
  BY <1>2 DEF Holding
<1>4. PICK take \in Nat : /\ take = Lesser(r.want - r.got, CFData)
                          /\ take = Lesser(f.msg.len - f.off, CFData)
  BY <1>1, <1>2 DEF Lesser, CFData
<1>5. PICK parts : parts = Append(r.parts, Part(f.msg, f.off, take))
  OBVIOUS
<1>6. /\ Len(parts) = c + 1 /\ parts[c + 1] = Part(f.msg, f.off, take)
      /\ \A i \in 1 .. c : parts[i] = r.parts[i]
      /\ parts \in Seq({Part(f.msg, f.off, take)} \cup PartSet)
  <2>1. r.parts \in Seq({Part(f.msg, f.off, take)} \cup PartSet)
    BY <1>2
  <2> QED BY <1>3, <1>5, <2>1, AppendProperties
<1>7. c + 1 \in 2 .. Len(Split(f.msg)) /\ Len(Split(f.msg)) \in Nat
      /\ Len(Split(f.msg))
           = 1 + (f.msg.len - FFData + CFData - 1) \div CFData
  <2>1. (f.msg.len - FFData + CFData - 1) \div CFData >= c
    BY <1>1, <1>3, EnoughParts
  <2>2. Len(Split(f.msg)) \in Nat
        /\ Len(Split(f.msg))
             = 1 + (f.msg.len - FFData + CFData - 1) \div CFData
    BY <1>1, SplitParts
  <2>3. (f.msg.len - FFData + CFData - 1) \div CFData \in Int
    BY <1>1 DEF FFData, CFData
  <2> QED BY <1>3, <2>1, <2>2, <2>3
<1>8. Split(f.msg)[c + 1] = Part(f.msg, f.off, take)
  <2>1. (c + 1) - 2 = c - 1
    BY <1>3
  <2> QED BY SMTT(30), <1>1, <1>3, <1>4, <1>7, <2>1, SplitParts
<1>9. \A i \in 1 .. c + 1 : parts[i] = Split(f.msg)[i]
  <2>1. \A i \in 1 .. c + 1 : i \in 1 .. c \/ i = c + 1
    OBVIOUS
  <2> QED BY <1>2, <1>3, <1>6, <1>8, <2>1
<1>10. PICK next : next = [r EXCEPT !.got = r.got + take, !.parts = parts,
                                    !.seq = (r.seq + 1) % SeqNumbers,
                                    !.inBlock = InBlockAfter(r)]
  OBVIOUS
<1>11. \/ Feed(r, f).err # "nil"
       \/ Feed(r, f) = Fed(NewReceiver, NoFrame,
                           [len |-> r.want, parts |-> parts], "nil")
            /\ r.got + take >= r.want
       \/ /\ Feed(r, f).err = "nil" /\ Feed(r, f).msg = NoMessage
          /\ Feed(r, f).r = next /\ ~(r.got + take >= r.want)
  <2>1. Feed(r, f) = FeedConsecutive(r, f)
    BY <1>1 DEF Feed
  <2>2. CASE ~InSequence(r, f)
    BY <2>1, <2>2 DEF FeedConsecutive, Failed, Fed
  <2>3. CASE InSequence(r, f)
    <3>1. FeedConsecutive(r, f) =
            IF r.got + take >= r.want
            THEN Fed(NewReceiver, NoFrame, [len |-> r.want, parts |-> parts],
                     "nil")
            ELSE IF BlockSize > 0 /\ next.inBlock = 0
            THEN Fed(next, FlowControl("continue", BlockSize), NoMessage,
                     "nil")
            ELSE Ignore(next)
      BY <1>4, <1>5, <1>10, <2>3 DEF FeedConsecutive
    <3> QED BY <2>1, <3>1 DEF Ignore, Fed
  <2> QED BY <2>2, <2>3
<1>12. CASE ~(r.got + take >= r.want)
  <2>1. take = CFData /\ r.got + take = f.off + CFData
        /\ f.off + CFData < f.msg.len
    BY <1>1, <1>2, <1>4, <1>12 DEF Lesser, CFData
  <2>2. /\ next.active /\ next.got = f.off + CFData /\ next.parts = parts
        /\ next.want = f.msg.len
    BY <1>2, <1>10, <2>1 DEF Receivers, Rx
  <2>3. parts[1].msg = f.msg
    BY <1>2, <1>3, <1>6
  <2>4. f.off + CFData = FFData + CFData * ((c + 1) - 1)
    BY <1>3 DEF FFData, CFData
  <2>5. Holding(s, next) /\ Holds(next, f.msg, f.off + CFData)
    <3>1. next.parts[1].msg = f.msg /\ Len(next.parts) = c + 1
      BY <1>6, <2>2, <2>3
    <3>2. \A i \in 1 .. Len(next.parts) : next.parts[i] = Split(f.msg)[i]
      BY <1>9, <2>2, <3>1
    <3>3. Len(next.parts) > 0 /\ next.got = FFData
                                   + CFData * (Len(next.parts) - 1)
      BY <1>3, <2>2, <2>4, <3>1
    <3>4. next.got < next.want /\ next.want = f.msg.len
      BY <2>1, <2>2
    <3>5. Holding(s, next)
      BY <1>1, <3>1, <3>2, <3>3, <3>4 DEF Holding
    <3> QED BY <2>2, <3>1, <3>5 DEF Holds
  <2> QED BY <1>11, <1>12, <2>2, <2>5
<1>13. CASE r.got + take >= r.want
  <2>1. f.msg.len <= FFData + CFData * c
    BY <1>1, <1>2, <1>3, <1>4, <1>13 DEF Lesser, CFData, FFData
  <2>2. Len(Split(f.msg)) = c + 1
    BY <1>1, <1>3, <1>7, <2>1, Quotient
  <2>3. parts = Split(f.msg)
    <3>1. Split(f.msg) = [i \in 1 .. c + 1 |-> Split(f.msg)[i]]
      BY <1>1, <2>2, SplitParts
    <3>2. parts = [i \in 1 .. c + 1 |-> parts[i]]
      BY <1>6
    <3> QED BY <1>9, <3>1, <3>2
  <2>4. f.msg.len # 0
    BY <1>1 DEF SFMax
  <2> QED BY <1>2, <1>11, <1>13, <2>3, <2>4, NewReceiverIs DEF Fed
<1> QED BY <1>12, <1>13

-----------------------------------------------------------------------------
(* Types                                                                   *)

PcOK == pc \in [Node -> {"idle", "waitFC", "block", "receive"}]
RxOK == /\ rx \in [Node -> Rx]
        /\ \A n \in Node : rx[n].active => rx[n].got < rx[n].want

LEMMA TypeParts ==
  TypeInv <=> /\ PcOK /\ RxOK /\ job \in [Node -> Job]
              /\ armed \in [Node -> BOOLEAN]
              /\ sent \in [Node -> Seq(Message)]
              /\ strays \in Nat /\ faults \in Nat
              /\ inbox \in [Node -> Seq(Frame)]
              /\ got \in [Node -> Seq(Buffer)]
BY DEF TypeInv, TypeOK, PcOK, RxOK, Rx, Job, Said

LEMMA TypeNext ==
  ASSUME PcOK', RxOK', job' \in [Node -> Job], armed' \in [Node -> BOOLEAN],
         sent' \in [Node -> Seq(Message)], strays' \in Nat, faults' \in Nat,
         inbox' \in [Node -> Seq(Frame)], got' \in [Node -> Seq(Buffer)]
  PROVE  TypeInv'
BY DEF TypeInv, TypeOK, PcOK, RxOK, Rx, Job, Said

LEMMA JobValues ==
  /\ NoJob \in Job /\ 1 \in 0 .. SeqNumbers - 1
  /\ \A s \in 0 .. SeqNumbers - 1 : NextSeq(s) \in 0 .. SeqNumbers - 1
<1>1. SeqNumbers \in Nat /\ SeqNumbers > 1
  BY SeqNumbersAssumption
<1>2. \A s \in 0 .. SeqNumbers - 1 : NextSeq(s) \in 0 .. SeqNumbers - 1
  BY <1>1 DEF NextSeq
<1>3. NoMessage \in Said
  BY DEF Said
<1> QED BY <1>1, <1>2, <1>3 DEF NoJob, Job

LEMMA ReturnTypes ==
  ASSUME TypeInv, NEW n \in Node, Return(n)
  PROVE  PcOK' /\ RxOK' /\ job' \in [Node -> Job]
         /\ armed' \in [Node -> BOOLEAN]
<1>1. PcOK /\ RxOK /\ job \in [Node -> Job] /\ armed \in [Node -> BOOLEAN]
  BY TypeParts
<1>2. pc' = [pc EXCEPT ![n] = "idle"] /\ job' = [job EXCEPT ![n] = NoJob]
      /\ rx' = [rx EXCEPT ![n] = NewReceiver]
      /\ armed' = [armed EXCEPT ![n] = FALSE]
  BY DEF Return
<1>3. PcOK'
  BY <1>1, <1>2 DEF PcOK
<1>4. NewReceiver \in Rx /\ ~NewReceiver.active
  BY NewReceiverIs DEF Receivers
<1>5. RxOK'
  BY <1>1, <1>2, <1>4 DEF RxOK
<1> QED BY <1>1, <1>2, <1>3, <1>5, JobValues

\* A frame at the end of the inbox of n.
LEMMA InboxMore ==
  ASSUME TypeInv, NEW n \in Node, NEW f \in Frame
  PROVE  /\ [inbox EXCEPT ![n] = Append(@, f)] \in [Node -> Seq(Frame)]
         /\ [inbox EXCEPT ![n] = Append(@, f)][n] = Append(inbox[n], f)
         /\ \A m \in Node :
              m # n => [inbox EXCEPT ![n] = Append(@, f)][m] = inbox[m]
<1>1. inbox \in [Node -> Seq(Frame)] /\ inbox[n] \in Seq(Frame)
  BY TypeParts
<1>2. Append(inbox[n], f) \in Seq(Frame)
  BY <1>1, AppendProperties
<1> QED BY <1>1, <1>2

\* The inbox of n without its first frame.
LEMMA InboxLess ==
  ASSUME TypeInv, NEW n \in Node, inbox[n] # <<>>
  PROVE  /\ [inbox EXCEPT ![n] = Tail(@)] \in [Node -> Seq(Frame)]
         /\ [inbox EXCEPT ![n] = Tail(@)][n] = Tail(inbox[n])
         /\ \A m \in Node :
              m # n => [inbox EXCEPT ![n] = Tail(@)][m] = inbox[m]
         /\ inbox[n] \in Seq(Frame) /\ Head(inbox[n]) \in Frame
         /\ Head(inbox[n]) = inbox[n][1]
<1>1. inbox \in [Node -> Seq(Frame)] /\ inbox[n] \in Seq(Frame)
  BY TypeParts
<1>2. Tail(inbox[n]) \in Seq(Frame) /\ Head(inbox[n]) \in Frame
      /\ Head(inbox[n]) = inbox[n][1]
  BY <1>1, HeadTailProperties
<1> QED BY <1>1, <1>2

\* What a Send begins with.
LEMMA Begins ==
  ASSUME TypeInv, NEW n \in Node, NEW len \in Lengths
  PROVE  LET m == NewMessage(n, len)
         IN /\ m \in Message /\ m.len = len /\ m.id = Len(sent[n]) + 1
            /\ m.from = n /\ len \in Nat /\ len > 0
            /\ [sent EXCEPT ![n] = Append(@, m)] \in [Node -> Seq(Message)]
            /\ [sent EXCEPT ![n] = Append(@, m)][n] = Append(sent[n], m)
            /\ \A d \in Node :
                 d # n => [sent EXCEPT ![n] = Append(@, m)][d] = sent[d]
            /\ SingleFrame(m, len) \in Frame
            /\ FirstFrame(m, len, FALSE) \in Frame
<1>1. sent \in [Node -> Seq(Message)] /\ sent[n] \in Seq(Message)
  BY TypeParts
<1>2. len \in Nat /\ len > 0 /\ Len(sent[n]) \in Nat
  BY <1>1, LengthsAssumption
<1>3. NewMessage(n, len) \in Message
  BY <1>2 DEF NewMessage, Message
<1>4. Append(sent[n], NewMessage(n, len)) \in Seq(Message)
  BY <1>1, <1>3, AppendProperties
<1>5. SingleFrame(NewMessage(n, len), len) \in Frame
      /\ FirstFrame(NewMessage(n, len), len, FALSE) \in Frame
  BY <1>2, <1>3 DEF SingleFrame, FirstFrame, Frame, Said
<1> QED BY <1>1, <1>2, <1>3, <1>4, <1>5 DEF NewMessage

LEMMA ConsecutiveIs ==
  ASSUME TypeInv, NEW n \in Node
  PROVE  /\ ConsecutiveFrame(job[n].msg, job[n].off, job[n].seq) \in Frame
         /\ Lesser(job[n].off + CFData, job[n].msg.len) \in Nat
         /\ job[n].off \in Nat /\ job[n].msg.len \in Nat
<1>1. job[n] \in Job
  BY TypeParts
<1>2. job[n].msg \in Said /\ job[n].off \in Nat
      /\ job[n].seq \in 0 .. SeqNumbers - 1
  BY <1>1 DEF Job
<1>3. job[n].seq \in Nat
  BY <1>2, SeqNumbersAssumption
<1>4. job[n].msg.len \in Nat
  BY <1>2, NewReceiverIs DEF Said, Message
<1> QED BY <1>2, <1>3, <1>4
        DEF ConsecutiveFrame, Frame, Lesser, CFData

LEMMA SendTypes ==
  ASSUME TypeInv, NEW n \in Node,
         \/ \E len \in Lengths : SendSingle(n, len) \/ SendFirst(n, len)
         \/ SendStep(n)
  PROVE  TypeInv'
<1>1. /\ PcOK /\ RxOK /\ job \in [Node -> Job] /\ job[n] \in Job
      /\ armed \in [Node -> BOOLEAN] /\ sent \in [Node -> Seq(Message)]
      /\ strays \in Nat /\ faults \in Nat
      /\ inbox \in [Node -> Seq(Frame)] /\ got \in [Node -> Seq(Buffer)]
  BY TypeParts
<1>2. Peer(n) \in Node
  BY PeerFacts
<1>3. ASSUME NEW len \in Lengths, SendSingle(n, len) PROVE TypeInv'
  <2>1. /\ inbox' = [inbox EXCEPT ![Peer(n)] = Append(@, SingleFrame(
                       NewMessage(n, len), len))]
        /\ sent' = [sent EXCEPT ![n] = Append(@, NewMessage(n, len))]
        /\ UNCHANGED <<pc, job, rx, armed, got, strays, faults>>
    BY <1>3 DEF SendSingle, Transmit
  <2>2. SingleFrame(NewMessage(n, len), len) \in Frame
        /\ sent' \in [Node -> Seq(Message)]
    BY <2>1, Begins
  <2>3. inbox' \in [Node -> Seq(Frame)]
    BY <1>2, <2>1, <2>2, InboxMore
  <2> QED BY <1>1, <2>1, <2>2, <2>3, TypeNext DEF PcOK, RxOK
<1>4. ASSUME NEW len \in Lengths, SendFirst(n, len) PROVE TypeInv'
  <2>1. PICK m : m = NewMessage(n, len)
    OBVIOUS
  <2>2. /\ inbox' = [inbox EXCEPT ![Peer(n)] =
                       Append(@, FirstFrame(m, len, FALSE))]
        /\ sent' = [sent EXCEPT ![n] = Append(@, m)]
        /\ job' = [job EXCEPT ![n] = [msg |-> m, off |-> FFData, seq |-> 1,
                                      bs |-> 0, i |-> 0, waits |-> 0]]
        /\ pc' = [pc EXCEPT ![n] = "waitFC"]
        /\ UNCHANGED <<rx, armed, got, strays, faults>>
    BY <1>4, <2>1 DEF SendFirst, Transmit
  <2>3. FirstFrame(m, len, FALSE) \in Frame
        /\ sent' \in [Node -> Seq(Message)] /\ m \in Said
    BY <2>1, <2>2, Begins DEF Said
  <2>4. inbox' \in [Node -> Seq(Frame)]
    BY <1>2, <2>2, <2>3, InboxMore
  <2>5. [msg |-> m, off |-> FFData, seq |-> 1, bs |-> 0, i |-> 0,
         waits |-> 0] \in Job
    BY <2>3, JobValues DEF Job, FFData
  <2>6. job' \in [Node -> Job]
    BY <1>1, <2>2, <2>5
  <2>7. PcOK'
    BY <1>1, <2>2 DEF PcOK
  <2> QED BY <1>1, <2>2, <2>3, <2>4, <2>6, <2>7, TypeNext DEF RxOK
<1>5. ASSUME ReadFlowControl(n) PROVE TypeInv'
  <2>1. /\ inbox[n] # <<>> /\ inbox' = [inbox EXCEPT ![n] = Tail(@)]
        /\ UNCHANGED <<sent, got, strays, faults>>
    BY <1>5 DEF ReadFlowControl
  <2>2. inbox' \in [Node -> Seq(Frame)] /\ Head(inbox[n]) \in Frame
    BY <2>1, InboxLess
  <2>3. CASE Return(n)
    BY <1>1, <2>1, <2>2, <2>3, ReturnTypes, TypeNext
  <2>4. ASSUME NEW f \in Frame, f.pci = "FC",
               job' = [job EXCEPT ![n].bs = f.bs, ![n].i = 0, ![n].waits = 0],
               pc' = [pc EXCEPT ![n] = "block"], UNCHANGED <<rx, armed>>
        PROVE  TypeInv'
    <3>1. f.bs \in Nat
      BY <2>4 DEF Frame
    <3>2. PICK j : j = [job[n] EXCEPT !.bs = f.bs, !.i = 0, !.waits = 0]
      OBVIOUS
    <3>3. j \in Job
      BY <1>1, <3>1, <3>2 DEF Job
    <3>4. job' = [job EXCEPT ![n] = j]
      BY <1>1, <2>4, <3>2
    <3>5. job' \in [Node -> Job]
      BY <1>1, <3>3, <3>4
    <3>6. PcOK'
      BY <1>1, <2>4 DEF PcOK
    <3> QED BY <1>1, <2>1, <2>2, <2>4, <3>5, <3>6, TypeNext DEF RxOK
  <2>5. ASSUME job' = [job EXCEPT ![n].waits = @ + 1],
               UNCHANGED <<pc, rx, armed>>
        PROVE  TypeInv'
    <3>1. PICK w \in Nat : w = job[n].waits
      BY <1>1 DEF Job
    <3>2. PICK j : j = [job[n] EXCEPT !.waits = w + 1]
      OBVIOUS
    <3>0. w + 1 \in Nat
      OBVIOUS
    <3>3. j \in Job
      BY <1>1, <3>0, <3>2 DEF Job
    <3>4. job' = [job EXCEPT ![n] = j]
      BY <1>1, <2>5, <3>1, <3>2
    <3>5. job' \in [Node -> Job]
      BY <1>1, <3>3, <3>4
    <3> QED BY <1>1, <2>1, <2>2, <2>5, <3>5, TypeNext DEF PcOK, RxOK
  <2>6. CASE UNCHANGED <<pc, job, rx, armed>>
    BY <1>1, <2>1, <2>2, <2>6, TypeNext DEF PcOK, RxOK
  <2> QED BY <1>5, <2>2, <2>3, <2>4, <2>5, <2>6 DEF ReadFlowControl
<1>6. ASSUME SendConsecutive(n) PROVE TypeInv'
  <2>1. PICK end : end = Lesser(job[n].off + CFData, job[n].msg.len)
    OBVIOUS
  <2>2. /\ inbox' = [inbox EXCEPT ![Peer(n)] = Append(@, ConsecutiveFrame(
                       job[n].msg, job[n].off, job[n].seq))]
        /\ UNCHANGED <<sent, got, strays, faults>>
        /\ \/ Return(n)
           \/ /\ job' = [job EXCEPT ![n].off = end, ![n].seq = NextSeq(@),
                                    ![n].i = @ + 1]
              /\ pc' = [pc EXCEPT ![n] = IF BlockDone(job[n].i, job[n].bs)
                                         THEN "waitFC" ELSE "block"]
              /\ UNCHANGED <<rx, armed>>
    BY <1>6, <2>1 DEF SendConsecutive, Transmit
  <2>3. inbox' \in [Node -> Seq(Frame)]
    BY <1>2, <2>2, ConsecutiveIs, InboxMore
  <2>4. CASE Return(n)
    BY <1>1, <2>2, <2>3, <2>4, ReturnTypes, TypeNext
  <2>5. CASE ~Return(n)
    <3>1. PICK s, i : s = NextSeq(job[n].seq) /\ i = job[n].i + 1
      OBVIOUS
    <3>2. PICK j : j = [job[n] EXCEPT !.off = end, !.seq = s, !.i = i]
      OBVIOUS
    <3>3. end \in Nat
      BY <2>1, ConsecutiveIs
    <3>4. s \in 0 .. SeqNumbers - 1
      BY <1>1, <3>1, JobValues DEF Job
    <3>5. i \in Nat
      BY <1>1, <3>1 DEF Job
    <3>6. j \in Job
      BY <1>1, <3>2, <3>3, <3>4, <3>5 DEF Job
    <3>7. job' = [job EXCEPT ![n] = j]
      BY <1>1, <2>2, <2>5, <3>1, <3>2
    <3>8. job' \in [Node -> Job]
      BY <1>1, <3>6, <3>7
    <3>9. PcOK'
      BY <1>1, <2>2, <2>5 DEF PcOK
    <3> QED BY <1>1, <2>2, <2>3, <2>5, <3>8, <3>9, TypeNext DEF RxOK
  <2> QED BY <2>4, <2>5
<1> QED BY <1>3, <1>4, <1>5, <1>6 DEF SendStep

\* What a frame read in Receive does.
LEMMA ReceiveIs ==
  ASSUME TypeInv, NEW n \in Node, ReceiveFrame(n)
  PROVE  LET f == Head(inbox[n])
             fed == Feed(rx[n], f)
             rest == [inbox EXCEPT ![n] = Tail(@)]
         IN /\ pc[n] = "receive" /\ inbox[n] # <<>> /\ f \in Frame
            /\ Receivers(fed.r) /\ fed.msg \in Buffer
            /\ \/ inbox' = rest
               \/ /\ Control(fed.fc)
                  /\ inbox' = [rest EXCEPT ![Peer(n)] = Append(@, fed.fc)]
            /\ inbox' \in [Node -> Seq(Frame)]
            /\ UNCHANGED <<calm, sent, strays, faults>>
<1>1. /\ pc[n] = "receive" /\ inbox[n] # <<>>
      /\ UNCHANGED <<calm, sent, strays, faults>>
  BY DEF ReceiveFrame
<1>2. PICK f : f = Head(inbox[n])
  OBVIOUS
<1>3. PICK rest : rest = [inbox EXCEPT ![n] = Tail(@)]
  OBVIOUS
<1>4. f \in Frame /\ rest \in [Node -> Seq(Frame)]
  BY <1>1, <1>2, <1>3, InboxLess
<1>5. Receivers(rx[n])
  BY TypeParts DEF RxOK, Receivers
<1>6. PICK fed : fed = Feed(rx[n], f)
  OBVIOUS
<1>7. /\ Receivers(fed.r) /\ fed.msg \in Buffer
      /\ fed.fc = NoFrame \/ Control(fed.fc)
  BY <1>4, <1>5, <1>6, FeedTypes
<1>8. inbox' = IF fed.fc = NoFrame THEN rest
               ELSE [rest EXCEPT ![Peer(n)] = Append(@, fed.fc)]
  BY <1>2, <1>3, <1>6 DEF ReceiveFrame
<1>9. ASSUME Control(fed.fc)
      PROVE  [rest EXCEPT ![Peer(n)] = Append(@, fed.fc)]
               \in [Node -> Seq(Frame)]
  <2>1. fed.fc \in Frame /\ Peer(n) \in Node
    BY <1>9, PeerFacts DEF Control
  <2>2. Append(rest[Peer(n)], fed.fc) \in Seq(Frame)
    BY <1>4, <2>1, AppendProperties
  <2> QED BY <1>4, <2>2
<1> QED BY <1>1, <1>2, <1>3, <1>4, <1>6, <1>7, <1>8, <1>9

LEMMA ReceiveTypes ==
  ASSUME TypeInv, NEW n \in Node, ReceiveCall(n) \/ ReceiveStep(n)
  PROVE  TypeInv'
<1>1. /\ PcOK /\ RxOK /\ job \in [Node -> Job]
      /\ armed \in [Node -> BOOLEAN] /\ sent \in [Node -> Seq(Message)]
      /\ strays \in Nat /\ faults \in Nat
      /\ inbox \in [Node -> Seq(Frame)] /\ got \in [Node -> Seq(Buffer)]
  BY TypeParts
<1>2. CASE ReceiveCall(n)
  <2>1. /\ pc' = [pc EXCEPT ![n] = "receive"]
        /\ rx' = [rx EXCEPT ![n] = NewReceiver]
        /\ armed' = [armed EXCEPT ![n] = FALSE]
        /\ UNCHANGED <<job, inbox, sent, got, strays, faults>>
    BY <1>2 DEF ReceiveCall
  <2>2. PcOK'
    BY <1>1, <2>1 DEF PcOK
  <2>3. RxOK'
    BY <1>1, <2>1, NewReceiverIs DEF RxOK, Receivers
  <2>4. armed' \in [Node -> BOOLEAN]
    BY <1>1, <2>1
  <2> QED BY <1>1, <2>1, <2>2, <2>3, <2>4, TypeNext
<1>3. CASE ReceiveFrame(n)
  <2>1. PICK fed : fed = Feed(rx[n], Head(inbox[n]))
    OBVIOUS
  <2>2. /\ Receivers(fed.r) /\ fed.msg \in Buffer
        /\ inbox' \in [Node -> Seq(Frame)]
        /\ UNCHANGED <<sent, strays, faults>>
    BY <1>3, <2>1, ReceiveIs
  <2>3. \/ /\ rx' = [rx EXCEPT ![n] = fed.r]
           /\ armed' = [armed EXCEPT ![n] = fed.r.active]
           /\ UNCHANGED <<pc, job, got>>
        \/ got' = [got EXCEPT ![n] = Append(@, fed.msg)] /\ Return(n)
        \/ Return(n) /\ UNCHANGED got
    BY <1>3, <2>1 DEF ReceiveFrame, ArmAfter
  <2>4. CASE /\ rx' = [rx EXCEPT ![n] = fed.r]
             /\ armed' = [armed EXCEPT ![n] = fed.r.active]
             /\ UNCHANGED <<pc, job, got>>
    <3>1. RxOK'
      BY <1>1, <2>2, <2>4 DEF RxOK, Receivers
    <3>2. fed.r.active \in BOOLEAN
      BY <2>2 DEF Receivers, Rx
    <3>3. armed' \in [Node -> BOOLEAN]
      BY <1>1, <2>4, <3>2
    <3> QED BY <1>1, <2>2, <2>4, <3>1, <3>3, TypeNext DEF PcOK
  <2>5. CASE got' = [got EXCEPT ![n] = Append(@, fed.msg)] /\ Return(n)
    <3>1. Append(got[n], fed.msg) \in Seq(Buffer)
      BY <1>1, <2>2, AppendProperties
    <3>2. got' \in [Node -> Seq(Buffer)]
      BY <1>1, <2>5, <3>1
    <3> QED BY <1>1, <2>2, <2>5, <3>2, ReturnTypes, TypeNext
  <2>6. CASE Return(n) /\ UNCHANGED got
    BY <1>1, <2>2, <2>6, ReturnTypes, TypeNext
  <2> QED BY <2>3, <2>4, <2>5, <2>6
<1>4. CASE ReceiveCannotAnswer(n)
  <2>1. /\ inbox[n] # <<>> /\ inbox' = [inbox EXCEPT ![n] = Tail(@)]
        /\ Return(n) /\ UNCHANGED <<sent, got, strays, faults>>
    BY <1>4 DEF ReceiveCannotAnswer
  <2>2. inbox' \in [Node -> Seq(Frame)]
    BY <2>1, InboxLess
  <2> QED BY <1>1, <2>1, <2>2, ReturnTypes, TypeNext
<1> QED BY <1>2, <1>3, <1>4 DEF ReceiveStep

LEMMA OtherTypes ==
  ASSUME TypeInv, StraysAreFrames, NEW n \in Node,
         \/ TimeoutNBs(n) \/ TimeoutNCr(n) \/ Cancel(n)
         \/ Fault(n) \/ \E f \in Strays : Stray(n, f)
  PROVE  TypeInv'
<1>1. /\ PcOK /\ RxOK /\ job \in [Node -> Job]
      /\ armed \in [Node -> BOOLEAN] /\ sent \in [Node -> Seq(Message)]
      /\ strays \in Nat /\ faults \in Nat
      /\ inbox \in [Node -> Seq(Frame)] /\ got \in [Node -> Seq(Buffer)]
  BY TypeParts
<1>2. CASE TimeoutNBs(n) \/ TimeoutNCr(n) \/ Cancel(n)
  <2>1. Return(n) /\ UNCHANGED <<inbox, sent, got, strays, faults>>
    BY <1>2 DEF TimeoutNBs, TimeoutNCr, Cancel
  <2> QED BY <1>1, <2>1, ReturnTypes, TypeNext
<1>3. ASSUME NEW f \in Strays, Stray(n, f) PROVE TypeInv'
  <2>1. /\ strays' = strays + 1
        /\ inbox' = [inbox EXCEPT ![n] = Append(@, f)]
        /\ UNCHANGED <<pc, job, rx, armed, sent, got, faults>>
    BY <1>3 DEF Stray
  <2>2. inbox' \in [Node -> Seq(Frame)]
    BY <2>1, InboxMore DEF StraysAreFrames
  <2>3. strays' \in Nat
    BY <1>1, <2>1
  <2> QED BY <1>1, <2>1, <2>2, <2>3, TypeNext DEF PcOK, RxOK
<1>4. CASE Fault(n)
  <2>1. /\ inbox[n] # <<>> /\ faults' = faults + 1
        /\ \/ inbox' = [inbox EXCEPT ![n] = Tail(@)]
           \/ inbox' = [inbox EXCEPT ![n] = <<Head(@)>> \o @]
        /\ UNCHANGED <<pc, job, rx, armed, sent, got, strays>>
    BY <1>4 DEF Fault
  <2>2. [inbox EXCEPT ![n] = Tail(@)] \in [Node -> Seq(Frame)]
        /\ inbox[n] \in Seq(Frame) /\ Head(inbox[n]) \in Frame
    BY <2>1, InboxLess
  <2>3. <<Head(inbox[n])>> \o inbox[n] \in Seq(Frame)
    <3>1. <<Head(inbox[n])>> \in Seq(Frame)
      BY <2>2
    <3> QED BY <2>2, <3>1, ConcatProperties
  <2>4. faults' \in Nat
    BY <1>1, <2>1
  <2>5. [inbox EXCEPT ![n] = <<Head(@)>> \o @] \in [Node -> Seq(Frame)]
    BY <1>1, <2>3
  <2>6. inbox' \in [Node -> Seq(Frame)]
    BY <2>1, <2>2, <2>5
  <2> QED BY <1>1, <2>1, <2>4, <2>6, TypeNext DEF PcOK, RxOK
<1> QED BY <1>2, <1>3, <1>4

LEMMA TypeInit == ASSUME Init PROVE TypeInv
<1>1. \A S : <<>> \in Seq(S)
  OBVIOUS
<1>2. PcOK
  BY DEF Init, PcOK
<1>3. RxOK
  BY NewReceiverIs DEF Init, RxOK, Receivers
<1>4. job \in [Node -> Job]
  BY JobValues DEF Init
<1>5. /\ armed \in [Node -> BOOLEAN] /\ strays \in Nat /\ faults \in Nat
      /\ inbox \in [Node -> Seq(Frame)] /\ got \in [Node -> Seq(Buffer)]
      /\ sent \in [Node -> Seq(Message)]
  BY <1>1 DEF Init
<1> QED BY <1>2, <1>3, <1>4, <1>5, TypeParts

LEMMA TypeStep ==
  ASSUME TypeInv, StraysAreFrames, [Next]_vars
  PROVE  TypeInv'
<1>1. CASE UNCHANGED vars
  <2>1. UNCHANGED <<pc, job, rx, armed, inbox, sent, got, strays, faults>>
    BY <1>1 DEF vars
  <2> QED BY <2>1, TypeParts, TypeNext DEF PcOK, RxOK
<1>2. CASE Next
  <2>1. PICK n \in Node :
          \/ \E len \in Lengths : SendSingle(n, len) \/ SendFirst(n, len)
          \/ ReceiveCall(n)
          \/ SendStep(n) \/ ReceiveStep(n)
          \/ TimeoutNBs(n) \/ TimeoutNCr(n) \/ Cancel(n)
          \/ Fault(n) \/ \E f \in Strays : Stray(n, f)
    BY <1>2 DEF Next
  <2> QED BY <2>1, SendTypes, ReceiveTypes, OtherTypes
<1> QED BY <1>1, <1>2

\* The types hold whatever a foreign peer sends, and however many frames are
\* lost or repeated; in particular the sequence numbers stay in their nibble
\* (conn.go's sn = (sn + 1) & 0x0F, Receiver.nextSN).
THEOREM TypeCorrect ==
  ASSUME StraysAreFrames
  PROVE  Spec => []TypeOK
<1>1. Init => TypeInv
  BY TypeInit
<1>2. TypeInv /\ [Next]_vars => TypeInv'
  BY TypeStep
<1>3. TypeInv => TypeOK
  BY DEF TypeInv
<1> QED BY <1>1, <1>2, <1>3, PTL DEF Spec

-----------------------------------------------------------------------------
(* What happens to the frames on their way                                 *)

LEMMA PlainIsNoData ==
  ASSUME NEW f \in Frame, Plain(f), NEW s
  PROVE  ~Start(s, f) /\ ~Middle(s, f)
BY DEF Frame, Plain, Start, Middle, SFMax, FrameLen

LEMMA AppendIs ==
  ASSUME NEW S, NEW q \in Seq(S), NEW f \in S
  PROVE  /\ Append(q, f) \in Seq(S) /\ Len(Append(q, f)) = Len(q) + 1
         /\ \A i \in 1 .. Len(q) : Append(q, f)[i] = q[i]
         /\ Append(q, f)[Len(q) + 1] = f
         /\ \A i \in 1 .. Len(q) + 1 : i \in 1 .. Len(q) \/ i = Len(q) + 1
         /\ Len(q) \in Nat
BY AppendProperties

LEMMA TailIs ==
  ASSUME NEW S, NEW q \in Seq(S), q # <<>>
  PROVE  /\ Tail(q) \in Seq(S) /\ Len(q) = Len(Tail(q)) + 1
         /\ \A i \in 1 .. Len(Tail(q)) : Tail(q)[i] = q[i + 1]
         /\ Head(q) = q[1] /\ Len(Tail(q)) \in Nat
BY HeadTailProperties

\* What follows the first frames does not depend on those behind them.
LEMMA FollowsMore ==
  ASSUME NEW q \in Seq(Frame), NEW f \in Frame, NEW r, NEW m, NEW off,
         NEW i \in 1 .. Len(q) + 1
  PROVE  Follows(Append(q, f), r, i, m, off) <=> Follows(q, r, i, m, off)
<1>1. PICK t : t = Append(q, f)
  OBVIOUS
<1>2. \A j \in 1 .. Len(q) : t[j] = q[j]
  BY <1>1, AppendIs
<1>3. Len(q) \in Nat
  BY AppendIs
<1>4. \A j \in 1 .. i - 1 : t[j] = q[j]
  BY <1>2, <1>3
<1>5. \A j \in 1 .. i - 1 : \A k \in j + 1 .. i - 1 : t[k] = q[k]
  BY <1>4
<1> QED BY <1>1, <1>4, <1>5 DEF Follows

\* A frame without data changes nothing.
LEMMA PlainMore ==
  ASSUME NEW q \in Seq(Frame), NEW r, NEW s, NEW g, NEW f \in Frame,
         Plain(f)
  PROVE  /\ OneWay(q, r, s, g) => OneWay(Append(q, f), r, s, g)
         /\ \A m, off : Ahead(q, r, s, m, off)
                          => Ahead(Append(q, f), r, s, m, off)
<1>1. PICK t \in Seq(Frame) : t = Append(q, f)
  BY AppendIs
<1>2. /\ \A j \in 1 .. Len(q) : t[j] = q[j]
      /\ Len(t) = Len(q) + 1 /\ t[Len(q) + 1] = f /\ Len(q) \in Nat
      /\ \A j \in 1 .. Len(t) : j \in 1 .. Len(q) \/ j = Len(q) + 1
  BY <1>1, AppendIs
<1>3. ~Start(s, f) /\ ~Middle(s, f)
  BY PlainIsNoData
<1>4. FramesInv(q, r, s) => FramesInv(t, r, s)
  BY <1>1, <1>2, FollowsMore DEF FramesInv
<1>5. OrderInv(q, r, s, g) => OrderInv(t, r, s, g)
  <2>1. \A i \in 1 .. Len(q) : \A j \in 1 .. i - 1 : t[j] = q[j]
    BY <1>2
  <2> QED BY <1>2, <1>3, <2>1 DEF OrderInv
<1>6. ASSUME NEW m, NEW off, Ahead(q, r, s, m, off)
      PROVE  Ahead(t, r, s, m, off)
  <2>1. Follows(t, r, Len(q) + 1, m, off)
    BY <1>1, <1>2, <1>6, FollowsMore DEF Ahead
  <2>2. Follows(t, r, Len(t) + 1, m, off)
    <3>1. PICK c \in Nat : c = Len(q)
      BY <1>2
    <3>2. c + 1 - 1 = c /\ Len(t) + 1 - 1 = c + 1 /\ Len(t) + 1 = c + 2
      BY <1>2, <3>1
    <3>3. CASE \E j \in 1 .. c : /\ ~Plain(t[j]) /\ Ends(t[j], m, off)
                                 /\ \A k \in j + 1 .. c : Plain(t[k])
      <4>1. PICK j \in 1 .. c : /\ ~Plain(t[j]) /\ Ends(t[j], m, off)
                                /\ \A k \in j + 1 .. c : Plain(t[k])
        BY <3>3
      <4>2. \A k \in j + 1 .. c + 1 : k \in j + 1 .. c \/ k = c + 1
        OBVIOUS
      <4>3. \A k \in j + 1 .. c + 1 : Plain(t[k])
        BY <1>2, <3>1, <4>1, <4>2
      <4> QED BY <3>2, <4>1, <4>3 DEF Follows
    <3>4. CASE /\ \A j \in 1 .. c : Plain(t[j])
               /\ r.active => Holds(r, m, off)
      <4>1. \A j \in 1 .. c + 1 : Plain(t[j])
        BY <1>2, <3>1, <3>4
      <4> QED BY <3>2, <3>4, <4>1 DEF Follows
    <3> QED BY <2>1, <3>1, <3>2, <3>3, <3>4 DEF Follows
  <2> QED BY <1>6, <2>2 DEF Ahead
<1> QED BY <1>1, <1>4, <1>5, <1>6 DEF OneWay

\* A transfer that is given up.
LEMMA GivenUp ==
  ASSUME NEW q, NEW r, NEW s, NEW g, NEW b, ~b.active
  PROVE  /\ OneWay(q, r, s, g) => OneWay(q, b, s, g)
         /\ \A m, off : Ahead(q, r, s, m, off) => Ahead(q, b, s, m, off)
<1>1. \A i, m, off : Follows(q, r, i, m, off) => Follows(q, b, i, m, off)
  BY DEF Follows
<1>2. FramesInv(q, r, s) => FramesInv(q, b, s)
  BY <1>1 DEF FramesInv
<1>3. OrderInv(q, r, s, g) => OrderInv(q, b, s, g)
  BY DEF OrderInv
<1> QED BY <1>1, <1>2, <1>3 DEF OneWay, Ahead

\* The first frame is read: what followed it, or went on with what the
\* Receiver had, still does, if the Receiver gives up or holds what it shall.
LEMMA FollowsLess ==
  ASSUME NEW q \in Seq(Frame), q # <<>>, NEW r, NEW b, NEW m, NEW off,
         NEW i \in Nat, i >= 1, i <= Len(q), Follows(q, r, i + 1, m, off),
         \/ ~b.active
         \/ Plain(q[1]) /\ b = r
         \/ /\ ~Plain(q[1])
            /\ \A x, y : Ends(q[1], x, y) => Holds(b, x, y)
  PROVE  Follows(Tail(q), b, i, m, off)
<1>1. PICK t : t = Tail(q)
  OBVIOUS
<1>2. \A j \in 1 .. Len(q) - 1 : t[j] = q[j + 1]
  BY <1>1, TailIs
<1>3. \A j \in 1 .. i - 1 : t[j] = q[j + 1]
  BY <1>2, TailIs
<1>4. (i + 1) - 1 = i
  OBVIOUS
<1>5. CASE \E j \in 1 .. i : /\ ~Plain(q[j]) /\ Ends(q[j], m, off)
                             /\ \A k \in j + 1 .. i : Plain(q[k])
  <2>1. PICK j \in 1 .. i : /\ ~Plain(q[j]) /\ Ends(q[j], m, off)
                            /\ \A k \in j + 1 .. i : Plain(q[k])
    BY <1>5
  <2>2. CASE j = 1
    <3>1. \A k \in 1 .. i - 1 : k + 1 \in j + 1 .. i
      BY <2>2
    <3>2. \A k \in 1 .. i - 1 : Plain(t[k])
      BY <1>3, <2>1, <3>1
    <3>3. b.active => Holds(b, m, off)
      BY <2>1, <2>2
    <3> QED BY <1>1, <3>2, <3>3 DEF Follows
  <2>3. CASE j # 1
    <3>1. PICK c \in 1 .. i - 1 : c = j - 1
      BY <2>3
    <3>2. t[c] = q[j]
      BY <1>3, <3>1
    <3>3. \A k \in c + 1 .. i - 1 : k + 1 \in j + 1 .. i /\ k \in 1 .. i - 1
      BY <3>1
    <3>4. \A k \in c + 1 .. i - 1 : Plain(t[k])
      BY <1>3, <2>1, <3>3
    <3> QED BY <1>1, <2>1, <3>2, <3>4 DEF Follows
  <2> QED BY <2>2, <2>3
<1>6. CASE /\ \A j \in 1 .. i : Plain(q[j])
           /\ r.active => Holds(r, m, off)
  <2>1. Plain(q[1])
    BY <1>6
  <2>2. \A j \in 1 .. i - 1 : j + 1 \in 1 .. i
    OBVIOUS
  <2>3. \A j \in 1 .. i - 1 : Plain(t[j])
    BY <1>3, <1>6, <2>2
  <2> QED BY <1>1, <1>6, <2>1, <2>3 DEF Follows
<1> QED BY <1>4, <1>5, <1>6 DEF Follows

\* The first frame is read and leads nowhere.
LEMMA FrameSkipped ==
  ASSUME NEW q \in Seq(Frame), q # <<>>, NEW r, NEW s, NEW g, NEW b,
         ~b.active \/ (Plain(q[1]) /\ b = r)
  PROVE  /\ OneWay(q, r, s, g) => OneWay(Tail(q), b, s, g)
         /\ \A m, off : Ahead(q, r, s, m, off)
                          => Ahead(Tail(q), b, s, m, off)
<1>1. PICK t \in Seq(Frame) : t = Tail(q)
  BY TailIs
<1>2. /\ \A j \in 1 .. Len(t) : t[j] = q[j + 1]
      /\ Len(q) = Len(t) + 1 /\ Len(t) \in Nat
  BY <1>1, TailIs
<1>3. \A j \in 1 .. Len(t) : j + 1 \in 1 .. Len(q) /\ j \in Nat /\ j >= 1
                             /\ j <= Len(q)
  BY <1>2
<1>4. \A i \in Nat : \A m, off :
        i >= 1 /\ i <= Len(q) /\ Follows(q, r, i + 1, m, off)
          => Follows(t, b, i, m, off)
  BY <1>1, FollowsLess
<1>5. FramesInv(q, r, s) => FramesInv(t, b, s)
  BY <1>2, <1>3, <1>4 DEF FramesInv
<1>6. OrderInv(q, r, s, g) => OrderInv(t, b, s, g)
  <2>1. \A i \in 1 .. Len(t) : \A j \in 1 .. i - 1 :
          j + 1 \in 1 .. (i + 1) - 1 /\ t[j] = q[j + 1]
    BY <1>2
  <2> QED BY <1>2, <1>3, <2>1 DEF OrderInv
<1>7. ASSUME NEW m, NEW off, Ahead(q, r, s, m, off)
      PROVE  Ahead(t, b, s, m, off)
  <2>1. Follows(q, r, Len(q) + 1, m, off) /\ Len(q) \in Nat
        /\ Len(q) >= 1 /\ Len(q) <= Len(q) /\ Len(t) + 1 = Len(q)
    BY <1>2, <1>7 DEF Ahead
  <2> QED BY <1>4, <1>7, <2>1 DEF Ahead
<1> QED BY <1>1, <1>5, <1>6, <1>7 DEF OneWay

\* The first frame is read and belongs to a message that is not complete.
LEMMA FrameTaken ==
  ASSUME NEW q \in Seq(Frame), q # <<>>, NEW r, NEW s, NEW g,
         OneWay(q, r, s, g), NEW b, Holding(s, b),
         \/ Start(s, q[1])
         \/ r.active /\ r.parts[1].msg = q[1].msg,
         ~Plain(q[1]), b.parts[1].msg = q[1].msg,
         \A m, off : Ends(q[1], m, off) => Holds(b, m, off)
  PROVE  /\ OneWay(Tail(q), b, s, g)
         /\ \A m, off : Ahead(q, r, s, m, off)
                          => Ahead(Tail(q), b, s, m, off)
<1>1. PICK t \in Seq(Frame) : t = Tail(q)
  BY TailIs
<1>2. /\ \A j \in 1 .. Len(t) : t[j] = q[j + 1]
      /\ Len(q) = Len(t) + 1 /\ Len(t) \in Nat
  BY <1>1, TailIs
<1>3. \A j \in 1 .. Len(t) : j + 1 \in 1 .. Len(q) /\ j \in Nat /\ j >= 1
                             /\ j <= Len(q)
  BY <1>2
<1>4. \A i \in Nat : \A m, off :
        i >= 1 /\ i <= Len(q) /\ Follows(q, r, i + 1, m, off)
          => Follows(t, b, i, m, off)
  BY <1>1, FollowsLess
<1>5. FramesInv(t, b, s)
  BY <1>2, <1>3, <1>4 DEF FramesInv, OneWay
<1>6. OrderInv(t, b, s, g)
  <2>1. \A i \in 1 .. Len(t) : \A j \in 1 .. i - 1 :
          j + 1 \in 1 .. (i + 1) - 1 /\ t[j] = q[j + 1]
    BY <1>2
  <2>2. 1 \in 1 .. Len(q) /\ \A i \in 1 .. Len(t) : 1 \in 1 .. (i + 1) - 1
    BY <1>2
  <2>3. OrderInv(q, r, s, g)
    BY DEF OneWay
  <2>4. b.parts[1].msg.id > LastGot(g)
    BY <2>2, <2>3 DEF OrderInv
  <2>5. \A i \in 1 .. Len(t) :
          Start(s, t[i]) => t[i].msg.id > b.parts[1].msg.id
    BY ZenonT(60), <1>2, <1>3, <2>2, <2>3 DEF OrderInv, Start, Sent
  <2> QED BY <1>2, <1>3, <2>1, <2>3, <2>4, <2>5 DEF OrderInv
<1>7. ASSUME NEW m, NEW off, Ahead(q, r, s, m, off)
      PROVE  Ahead(t, b, s, m, off)
  <2>1. Follows(q, r, Len(q) + 1, m, off) /\ Len(q) \in Nat
        /\ Len(q) >= 1 /\ Len(q) <= Len(q) /\ Len(t) + 1 = Len(q)
    BY <1>2, <1>7 DEF Ahead
  <2> QED BY <1>4, <1>7, <2>1 DEF Ahead
<1> QED BY <1>1, <1>5, <1>6, <1>7 DEF OneWay

\* The first frame is read and completes a message m of the sender.
LEMMA FrameCompletes ==
  ASSUME NEW q \in Seq(Frame), q # <<>>, NEW r, NEW s, NEW g \in Seq(Buffer),
         OneWay(q, r, s, g), NEW b, ~b.active, NEW m, Sent(s, m),
         Len(s) \in Nat,
         \/ Start(s, q[1]) /\ q[1].msg = m
         \/ r.active /\ r.parts[1].msg = m,
         Split(m)[1].msg = m, NEW x \in Buffer,
         x = [len |-> m.len, parts |-> Split(m)]
  PROVE  /\ OneWay(Tail(q), b, s, Append(g, x))
         /\ LastGot(Append(g, x)) = m.id /\ m.id > LastGot(g)
         /\ \A y, off : Ahead(q, r, s, y, off)
                          => Ahead(Tail(q), b, s, y, off)
<1>1. PICK t \in Seq(Frame) : t = Tail(q)
  BY TailIs
<1>2. /\ \A j \in 1 .. Len(t) : t[j] = q[j + 1]
      /\ Len(q) = Len(t) + 1 /\ Len(t) \in Nat
  BY <1>1, TailIs
<1>3. PICK h \in Seq(Buffer) : h = Append(g, x)
  BY AppendIs
<1>4. /\ Len(h) = Len(g) + 1 /\ h[Len(g) + 1] = x /\ Len(g) \in Nat
      /\ \A i \in 1 .. Len(g) : h[i] = g[i]
      /\ \A i \in 1 .. Len(h) : i \in 1 .. Len(g) \/ i = Len(g) + 1
  BY <1>3, AppendIs
<1>5. LastGot(h) = m.id
  <2>1. h # <<>>
    BY <1>4
  <2> QED BY <1>4, <2>1 DEF LastGot
<1>14. /\ OneWay(t, b, s, g)
       /\ \A y, off : Ahead(q, r, s, y, off) => Ahead(t, b, s, y, off)
  <2>1. OneWay(q, r, s, g) => OneWay(Tail(q), b, s, g)
    BY FrameSkipped
  <2>2. \A y, off : Ahead(q, r, s, y, off) => Ahead(Tail(q), b, s, y, off)
    BY FrameSkipped
  <2> QED BY <1>1, <2>1, <2>2
<1>6. OneWay(t, b, s, g) /\ OrderInv(q, r, s, g) /\ GotInv(s, g)
  BY <1>14 DEF OneWay
<1>7. 1 \in 1 .. Len(q) /\ \A i \in 1 .. Len(t) : i + 1 \in 1 .. Len(q)
                                                  /\ 1 \in 1 .. (i + 1) - 1
  BY <1>2
<1>8. m.id > LastGot(g)
  BY <1>6, <1>7 DEF OrderInv
<1>9. m.id \in 0 .. Len(s)
  BY DEF Sent
<1>10. \A i \in 1 .. Len(t) : Start(s, t[i]) => t[i].msg.id > m.id
  BY <1>2, <1>6, <1>7 DEF OrderInv
<1>11. OrderInv(t, b, s, h)
  BY <1>5, <1>6, <1>9, <1>10 DEF OrderInv, OneWay
<1>12. GotInv(s, h)
  <2>1. x = [len |-> s[m.id].len, parts |-> Split(s[m.id])]
        /\ m.id \in 1 .. Len(s)
    BY DEF Sent
  <2> QED BY ZenonT(60), <1>4, <1>6, <2>1 DEF GotInv
<1>13. OneWay(t, b, s, h)
  BY <1>6, <1>11, <1>12 DEF OneWay
<1> QED BY <1>1, <1>3, <1>5, <1>8, <1>13, <1>14

\* A frame that begins a message is sent: a single frame, or a first frame,
\* whose first consecutive frame is then ahead.
LEMMA StartMore ==
  ASSUME NEW q \in Seq(Frame), NEW r, NEW s \in Seq(Message), NEW g,
         OneWay(q, r, s, g), NEW m \in Message, m.id = Len(s) + 1,
         NEW f \in Frame, f.msg = m, f.len = m.len,
         \/ f.pci = "SF" /\ f.len \in 1 .. SFMax
         \/ f.pci = "FF" /\ f.len > SFMax /\ ~f.short
  PROVE  /\ OneWay(Append(q, f), r, Append(s, m), g)
         /\ f.pci = "FF" => Ahead(Append(q, f), r, Append(s, m), m, FFData)
<1>1. PICK t \in Seq(Frame) : t = Append(q, f)
  BY AppendIs
<1>2. /\ \A j \in 1 .. Len(q) : t[j] = q[j]
      /\ Len(t) = Len(q) + 1 /\ t[Len(q) + 1] = f /\ Len(q) \in Nat
      /\ \A j \in 1 .. Len(t) : j \in 1 .. Len(q) \/ j = Len(q) + 1
  BY <1>1, AppendIs
<1>3. PICK u \in Seq(Message) : u = Append(s, m)
  BY AppendIs
<1>4. /\ \A j \in 1 .. Len(s) : u[j] = s[j]
      /\ Len(u) = Len(s) + 1 /\ u[Len(s) + 1] = m /\ Len(s) \in Nat
      /\ \A j \in 1 .. Len(s) : j \in 1 .. Len(u)
  BY <1>3, AppendIs
<1>5. \A x : Sent(s, x) => Sent(u, x) /\ x.id \in 1 .. Len(s)
  BY <1>4 DEF Sent
<1>6. Sent(u, m)
  BY <1>4 DEF Sent
<1>7. Start(u, f) /\ ~Plain(f)
  <2>1. Start(u, f)
    BY <1>6 DEF Start
  <2> QED BY <2>1, PlainIsNoData
<1>8. \A x : Start(s, x) => Start(u, x)
  BY <1>5 DEF Start
<1>9. \A x : Middle(s, x) => Middle(u, x)
  BY <1>5 DEF Middle
<1>10. FramesInv(t, r, u)
  <2>1. ASSUME NEW i \in 1 .. Len(q)
        PROVE  \/ Plain(t[i]) \/ Start(u, t[i])
               \/ Middle(u, t[i]) /\ Follows(t, r, i, t[i].msg, t[i].off)
    <3>1. \/ Plain(q[i]) \/ Start(s, q[i])
          \/ Middle(s, q[i]) /\ Follows(q, r, i, q[i].msg, q[i].off)
      BY DEF OneWay, FramesInv
    <3>2. i \in 1 .. Len(q) + 1
      BY <1>2
    <3>3. \A x, off : Follows(t, r, i, x, off) <=> Follows(q, r, i, x, off)
      BY <1>1, <3>2, FollowsMore
    <3> QED BY <1>2, <1>8, <1>9, <3>1, <3>3
  <2> QED BY <1>2, <1>7, <2>1 DEF FramesInv
<1>11. r.active => Holding(u, r)
  <2>1. r.active => Holding(s, r)
    BY DEF OneWay
  <2>2. Holding(s, r) => Holding(u, r)
    BY <1>5 DEF Holding
  <2> QED BY <2>1, <2>2
<1>12. \A i \in 1 .. Len(q) : Start(u, q[i]) => Start(s, q[i])
  <2>1. ASSUME NEW i \in 1 .. Len(q), Start(u, q[i])
        PROVE  Start(s, q[i])
    <3>1. q[i] \in Frame
      OBVIOUS
    <3>2. ~Plain(q[i])
      BY <2>1, <3>1, PlainIsNoData
    <3>3. ~Middle(s, q[i])
      BY <2>1 DEF Start, Middle
    <3> QED BY <3>2, <3>3 DEF OneWay, FramesInv
  <2> QED BY <2>1
<1>13. OrderInv(t, r, u, g)
  <2>1. OrderInv(q, r, s, g) /\ (r.active => Holding(s, r))
    BY DEF OneWay
  <2>2. LastGot(g) \in 0 .. Len(u) /\ m.id > LastGot(g)
    BY <1>4, <2>1 DEF OrderInv
  <2>3. r.active => m.id > r.parts[1].msg.id
    BY <1>4, <1>5, <2>1 DEF Holding
  <2>4. \A i \in 1 .. Len(q) : Start(u, q[i]) => q[i].msg.id < m.id
    BY <1>4, <1>5, <1>12 DEF Start
  <2>5. \A i \in 1 .. Len(q) : \A j \in 1 .. i - 1 :
          j \in 1 .. Len(q) /\ t[j] = q[j]
    BY <1>2
  <2>6. \A j \in 1 .. (Len(q) + 1) - 1 : j \in 1 .. Len(q) /\ t[j] = q[j]
    BY <1>2
  <2>7. ASSUME NEW i \in 1 .. Len(q), Start(u, t[i])
        PROVE  /\ t[i].msg.id > LastGot(g)
               /\ r.active => t[i].msg.id > r.parts[1].msg.id
               /\ \A j \in 1 .. i - 1 :
                    Start(u, t[j]) => t[j].msg.id < t[i].msg.id
    <3>1. t[i] = q[i] /\ Start(s, q[i])
      BY <1>2, <1>12, <2>7
    <3>2. \A j \in 1 .. i - 1 : Start(u, t[j]) => Start(s, q[j])
      BY <1>12, <2>5
    <3> QED BY <2>1, <2>5, <3>1, <3>2 DEF OrderInv
  <2>8. ASSUME NEW i, i = Len(q) + 1
        PROVE  /\ t[i].msg.id > LastGot(g)
               /\ r.active => t[i].msg.id > r.parts[1].msg.id
               /\ \A j \in 1 .. i - 1 :
                    Start(u, t[j]) => t[j].msg.id < t[i].msg.id
    BY <1>2, <2>2, <2>3, <2>4, <2>6, <2>8
  <2>9. r.active => r.parts[1].msg.id > LastGot(g)
    BY <2>1 DEF OrderInv
  <2> QED BY <1>2, <2>2, <2>7, <2>8, <2>9 DEF OrderInv
<1>14. GotInv(u, g)
  <2>1. GotInv(s, g)
    BY DEF OneWay
  <2> QED BY <1>4, <2>1 DEF GotInv
<1>15. OneWay(t, r, u, g)
  BY <1>10, <1>11, <1>13, <1>14 DEF OneWay
<1>16. ASSUME f.pci = "FF" PROVE Ahead(t, r, u, m, FFData)
  <2>1. Offset(m, FFData)
    <3>1. FFData = FFData + CFData * 0 /\ m.len \in Nat /\ m.len > SFMax
      BY <1>16 DEF FFData, CFData, Message
    <3>2. FFData < m.len
      BY <3>1 DEF FFData, SFMax
    <3> QED BY <3>1, <3>2 DEF Offset
  <2>2. PICK c \in Nat : c = Len(q) + 1
    BY <1>2
  <2>3. c \in 1 .. (Len(t) + 1) - 1 /\ (Len(t) + 1) - 1 = c
    BY <1>2, <2>2
  <2>4. t[c] = f /\ Ends(f, m, FFData)
    BY <1>2, <1>16, <2>2 DEF Ends
  <2>5. \A k \in c + 1 .. c : FALSE
    OBVIOUS
  <2>6. Follows(t, r, Len(t) + 1, m, FFData)
    BY <1>7, <2>3, <2>4, <2>5 DEF Follows
  <2> QED BY <1>6, <2>1, <2>6 DEF Ahead
<1> QED BY <1>1, <1>3, <1>15, <1>16

\* The consecutive frame that is ahead is sent.
LEMMA MiddleMore ==
  ASSUME NEW q \in Seq(Frame), NEW r, NEW s, NEW g, OneWay(q, r, s, g),
         NEW f \in Frame, f.pci = "CF", Ahead(q, r, s, f.msg, f.off)
  PROVE  /\ OneWay(Append(q, f), r, s, g)
         /\ f.off + CFData < f.msg.len
              => Ahead(Append(q, f), r, s, f.msg, f.off + CFData)
<1>1. PICK t \in Seq(Frame) : t = Append(q, f)
  BY AppendIs
<1>2. /\ \A j \in 1 .. Len(q) : t[j] = q[j]
      /\ Len(t) = Len(q) + 1 /\ t[Len(q) + 1] = f /\ Len(q) \in Nat
      /\ \A j \in 1 .. Len(t) : j \in 1 .. Len(q) \/ j = Len(q) + 1
  BY <1>1, AppendIs
<1>3. Middle(s, f) /\ Follows(q, r, Len(q) + 1, f.msg, f.off)
  BY DEF Ahead, Middle
<1>4. ~Plain(f) /\ ~Start(s, f)
  BY DEF Plain, Start
<1>5. FramesInv(t, r, s)
  <2>1. ASSUME NEW i \in 1 .. Len(q)
        PROVE  \/ Plain(t[i]) \/ Start(s, t[i])
               \/ Middle(s, t[i]) /\ Follows(t, r, i, t[i].msg, t[i].off)
    <3>1. \/ Plain(q[i]) \/ Start(s, q[i])
          \/ Middle(s, q[i]) /\ Follows(q, r, i, q[i].msg, q[i].off)
      BY DEF OneWay, FramesInv
    <3>2. i \in 1 .. Len(q) + 1
      BY <1>2
    <3>3. \A x, off : Follows(t, r, i, x, off) <=> Follows(q, r, i, x, off)
      BY <1>1, <3>2, FollowsMore
    <3> QED BY <1>2, <3>1, <3>3
  <2>2. Len(q) + 1 \in 1 .. Len(q) + 1
    BY <1>2
  <2>3. Follows(t, r, Len(q) + 1, f.msg, f.off)
    BY <1>1, <1>3, <2>2, FollowsMore
  <2> QED BY <1>2, <1>3, <2>1, <2>3 DEF FramesInv
<1>6. OrderInv(t, r, s, g)
  <2>1. OrderInv(q, r, s, g)
    BY DEF OneWay
  <2>2. \A i \in 1 .. Len(q) : \A j \in 1 .. i - 1 : t[j] = q[j]
    BY <1>2
  <2> QED BY <1>2, <1>4, <2>1, <2>2 DEF OrderInv
<1>7. OneWay(t, r, s, g)
  BY <1>5, <1>6 DEF OneWay
<1>8. ASSUME f.off + CFData < f.msg.len
      PROVE  Ahead(t, r, s, f.msg, f.off + CFData)
  <2>1. Offset(f.msg, f.off + CFData)
    <3>1. PICK j \in Nat : f.off = FFData + CFData * j
      BY <1>3 DEF Middle, Offset
    <3>2. f.off + CFData = FFData + CFData * (j + 1) /\ j + 1 \in Nat
      BY <3>1 DEF FFData, CFData
    <3> QED BY <1>3, <1>8, <3>2 DEF Middle, Offset
  <2>2. PICK c \in Nat : c = Len(q) + 1
    BY <1>2
  <2>3. c \in 1 .. (Len(t) + 1) - 1 /\ (Len(t) + 1) - 1 = c
    BY <1>2, <2>2
  <2>4. t[c] = f /\ Ends(f, f.msg, f.off + CFData)
    BY <1>2, <2>2 DEF Ends
  <2>5. \A k \in c + 1 .. c : FALSE
    OBVIOUS
  <2>6. Follows(t, r, Len(t) + 1, f.msg, f.off + CFData)
    BY <1>4, <2>3, <2>4, <2>5 DEF Follows
  <2> QED BY <1>3, <2>1, <2>6 DEF Ahead, Middle
<1> QED BY <1>1, <1>7, <1>8

LEMMA SplitFirst ==
  ASSUME NEW m \in Message
  PROVE  Split(m)[1].msg = m
<1>1. m.len \in Nat
  BY DEF Message
<1>2. CASE m.len <= SFMax
  <2>1. Split(m) = <<Part(m, 0, m.len)>>
    BY <1>2 DEF Split
  <2> QED BY <2>1 DEF Part
<1>3. CASE m.len > SFMax
  <2>1. Split(m)[1] = Part(m, 0, FFData)
    BY <1>1, <1>3, SplitParts
  <2> QED BY <2>1 DEF Part
<1> QED BY <1>1, <1>2, <1>3 DEF SFMax

\* What feeding the first frame of q gives: the parts go on, or a message of
\* the sender is complete, begun later than the one before it, or the
\* transfer is given up.
FedWell(q, r, s, g, fed) ==
  LET t == Tail(q)
      Goes(b) == \A m, off : Ahead(q, r, s, m, off) => Ahead(t, b, s, m, off)
  IN /\ fed.err = "nil" /\ fed.msg = NoMessage =>
          OneWay(t, fed.r, s, g) /\ Goes(fed.r)
     /\ fed.err = "nil" /\ fed.msg # NoMessage =>
          /\ OneWay(t, NewReceiver, s, Append(g, fed.msg))
          /\ \E m \in Message :
               /\ Sent(s, m) /\ m.id > LastGot(g)
               /\ fed.msg = [len |-> m.len, parts |-> Split(m)]
     /\ OneWay(t, NewReceiver, s, g) /\ Goes(NewReceiver)

LEMMA FrameFed ==
  ASSUME NEW q \in Seq(Frame), q # <<>>, NEW r, Receivers(r),
         NEW s \in Seq(Message), NEW g \in Seq(Buffer), OneWay(q, r, s, g)
  PROVE  FedWell(q, r, s, g, Feed(r, Head(q)))
<1>1. PICK f : f = q[1] /\ f = Head(q) /\ f \in Frame
  BY HeadTailProperties
<1>2. PICK fed : fed = Feed(r, f)
  OBVIOUS
<1>3. fed.msg \in Buffer
  BY <1>1, <1>2, FeedTypes
<1>4. PICK t : t = Tail(q)
  OBVIOUS
<1>5. ~NewReceiver.active
  BY NewReceiverIs
<1>6. \A b : ~b.active => /\ OneWay(t, b, s, g)
                          /\ \A m, off : Ahead(q, r, s, m, off)
                                           => Ahead(t, b, s, m, off)
  BY <1>4, FrameSkipped
<1> DEFINE Goes == /\ OneWay(t, fed.r, s, g)
                   /\ \A m, off : Ahead(q, r, s, m, off)
                                    => Ahead(t, fed.r, s, m, off)
           Comes == /\ OneWay(t, NewReceiver, s, Append(g, fed.msg))
                    /\ \E m \in Message :
                         /\ Sent(s, m) /\ m.id > LastGot(g)
                         /\ fed.msg = [len |-> m.len, parts |-> Split(m)]
           Fine == /\ fed.err = "nil" /\ fed.msg = NoMessage => Goes
                   /\ fed.err = "nil" /\ fed.msg # NoMessage => Comes
<1>7. \A m : Sent(s, m) => m \in Message /\ m.len \in Nat
  <2>1. \A m : Sent(s, m) => m \in Message
    BY DEF Sent
  <2> QED BY <2>1 DEF Message
<1>8. ASSUME NEW m \in Message, Sent(s, m),
             \/ Start(s, f) /\ f.msg = m
             \/ r.active /\ r.parts[1].msg = m,
             fed.msg = [len |-> m.len, parts |-> Split(m)]
      PROVE  Comes
  <2>1. Split(m)[1].msg = m
    BY SplitFirst
  <2>2. \/ Start(s, q[1]) /\ q[1].msg = m
        \/ r.active /\ r.parts[1].msg = m
    BY <1>1, <1>8
  <2>3. Len(s) \in Nat
    OBVIOUS
  <2>4. /\ OneWay(Tail(q), NewReceiver, s, Append(g, fed.msg))
        /\ m.id > LastGot(g)
    BY <1>3, <1>5, <1>8, <2>1, <2>2, <2>3, FrameCompletes
  <2> QED BY <1>4, <1>8, <2>4
<1>9. ASSUME Holding(s, fed.r), ~Plain(f), fed.r.parts[1].msg = f.msg,
             \/ Start(s, f)
             \/ r.active /\ r.parts[1].msg = f.msg,
             \A m, off : Ends(f, m, off) => Holds(fed.r, m, off)
      PROVE  Goes
  BY <1>1, <1>4, <1>9, FrameTaken
<1> HIDE DEF Goes, Comes
<1>10. ASSUME Plain(f)
       PROVE  Fine
  <2>1. \/ fed.err # "nil"
        \/ fed.msg = NoMessage /\ fed.r \in {r, NewReceiver}
    BY <1>2, <1>10, FeedPlain
  <2>2. CASE fed.r = NewReceiver
    <3>1. Goes
      BY <1>5, <1>6, <2>2 DEF Goes
    <3> QED BY <2>1, <3>1
  <2>3. CASE fed.r = r
    <3>1. Goes
      BY <1>1, <1>4, <1>10, <2>3, FrameSkipped DEF Goes
    <3> QED BY <2>1, <3>1
  <2> QED BY <2>1, <2>2, <2>3
<1>11. ASSUME Start(s, f)
       PROVE  Fine
  <2>1. Sent(s, f.msg) /\ f.msg \in Message /\ f.len = f.msg.len
    BY <1>7, <1>11 DEF Start
  <2>2. CASE f.pci = "SF"
    <3>1. f.len \in 1 .. SFMax
      BY <1>11, <2>2 DEF Start
    <3>2. /\ fed.msg = [len |-> f.msg.len, parts |-> Split(f.msg)]
          /\ fed.msg # NoMessage
      BY <1>2, <2>1, <2>2, <3>1, FeedWhole
    <3>3. Comes
      BY <1>8, <1>11, <2>1, <3>2
    <3> QED BY <3>2, <3>3
  <2>3. CASE f.pci = "FF"
    <3>1. /\ fed.msg = NoMessage /\ Holding(s, fed.r)
          /\ Holds(fed.r, f.msg, FFData)
      BY <1>2, <1>11, <2>1, <2>3, FeedBegins
    <3>2. \A m, off : Ends(f, m, off) => m = f.msg /\ off = FFData
      BY <2>3 DEF Ends
    <3>3. ~Plain(f)
      BY <1>1, <1>11, PlainIsNoData
    <3>4. Goes
      BY <1>9, <1>11, <3>1, <3>2, <3>3 DEF Holds
    <3> QED BY <3>1, <3>4
  <2> QED BY <1>11, <2>2, <2>3 DEF Start
<1>12. ASSUME Middle(s, f) /\ Follows(q, r, 1, f.msg, f.off)
       PROVE  Fine
  <2>1. /\ Sent(s, f.msg) /\ f.msg \in Message /\ f.pci = "CF"
        /\ r.active => Holds(r, f.msg, f.off)
    <3>1. \A j \in 1 .. 1 - 1 : FALSE
      OBVIOUS
    <3> QED BY <1>7, <1>12, <3>1 DEF Middle, Follows
  <2>2. CASE ~r.active
    <3>1. fed.r = r /\ fed.msg = NoMessage
      BY <1>2, <2>1, <2>2 DEF Feed, FeedConsecutive, Ignore, Fed
    <3>2. Goes
      BY <1>6, <2>2, <3>1 DEF Goes
    <3> QED BY <3>1, <3>2
  <2>3. CASE r.active
    <3>1. Holding(s, r) /\ Holds(r, f.msg, f.off)
      BY <2>1, <2>3 DEF OneWay
    <3>2. \/ fed.err # "nil"
          \/ /\ fed.msg = NoMessage /\ Holding(s, fed.r)
             /\ Holds(fed.r, f.msg, f.off + CFData)
          \/ /\ fed.msg = [len |-> f.msg.len, parts |-> Split(f.msg)]
             /\ fed.msg # NoMessage
      BY <1>2, <1>12, <2>1, <2>3, <3>1, FeedContinues
    <3>3. \A m, off : Ends(f, m, off) => m = f.msg /\ off = f.off + CFData
      BY <2>1 DEF Ends
    <3>4. ~Plain(f) /\ r.parts[1].msg = f.msg
      BY <2>1, <3>1 DEF Plain, Holds
    <3>5. CASE /\ fed.msg = NoMessage /\ Holding(s, fed.r)
               /\ Holds(fed.r, f.msg, f.off + CFData)
      <4>1. Goes
        BY <1>9, <2>3, <3>3, <3>4, <3>5 DEF Holds
      <4> QED BY <3>5, <4>1
    <3>6. CASE /\ fed.msg = [len |-> f.msg.len, parts |-> Split(f.msg)]
               /\ fed.msg # NoMessage
      <4>1. Comes
        BY <1>8, <2>1, <2>3, <3>4, <3>6
      <4> QED BY <3>6, <4>1
    <3> QED BY <3>2, <3>5, <3>6
  <2> QED BY <2>2, <2>3
<1>13. Fine
  <2>1. 1 \in 1 .. Len(q)
    OBVIOUS
  <2>2. \/ Plain(f) \/ Start(s, f)
        \/ Middle(s, f) /\ Follows(q, r, 1, f.msg, f.off)
    BY <1>1, <2>1 DEF OneWay, FramesInv
  <2> QED BY <1>10, <1>11, <1>12, <2>2
<1> QED BY <1>1, <1>2, <1>4, <1>5, <1>6, <1>13 DEF Goes, Comes, FedWell

-----------------------------------------------------------------------------
(* The steps                                                               *)

LEMMA Now ==
  ASSUME TypeInv, NEW n \in Node
  PROVE  /\ inbox[n] \in Seq(Frame) /\ Receivers(rx[n])
         /\ got[n] \in Seq(Buffer) /\ sent[n] \in Seq(Message)
         /\ Peer(n) \in Node /\ Peer(n) # n /\ Peer(Peer(n)) = n
         /\ \A d \in Node : d = n \/ d = Peer(n)
         /\ Len(sent[n]) \in Nat
<1>1. inbox[n] \in Seq(Frame) /\ got[n] \in Seq(Buffer)
      /\ sent[n] \in Seq(Message) /\ Receivers(rx[n])
  BY TypeParts DEF RxOK, Receivers
<1> QED BY <1>1, PeerFacts

\* What a call leaves behind when it ends.
LEMMA Returned ==
  ASSUME TypeInv, NEW n \in Node, Return(n)
  PROVE  /\ ~rx'[n].active /\ ~Sending(n)' /\ rx'[n] = NewReceiver
         /\ \A d \in Node : d # n => rx'[d] = rx[d] /\ pc'[d] = pc[d]
                                       /\ job'[d] = job[d]
<1>1. PcOK /\ RxOK /\ job \in [Node -> Job]
  BY TypeParts
<1> QED BY <1>1, NewReceiverIs DEF Return, PcOK, RxOK, Sending

\* p sends what it was about to send, or nothing.
Resting(p) == Sending(p)' =>
  Sending(p) /\ job'[p].msg = job[p].msg /\ job'[p].off = job[p].off

\* The direction to n when neither its messages nor its transfer go on.
LEMMA Stays ==
  ASSUME TypeInv, NEW n \in Node, Direction(n), Resting(Peer(n)),
         sent'[Peer(n)] = sent[Peer(n)], got'[n] = got[n],
         \/ inbox'[n] = inbox[n]
         \/ \E f \in Frame : Plain(f) /\ inbox'[n] = Append(inbox[n], f),
         ~rx'[n].active \/ (rx'[n] = rx[n] /\ pc'[n] = pc[n])
  PROVE  Direction(n)'
<1>1. PICK p : p = Peer(n)
  OBVIOUS
<1>2. PICK q : q = inbox'[n]
  OBVIOUS
<1>3. inbox[n] \in Seq(Frame)
  BY Now
<1>4. OneWay(inbox[n], rx[n], sent[p], got[n])
  BY <1>1 DEF Direction
<1>5. /\ OneWay(q, rx[n], sent[p], got[n])
      /\ \A m, off : Ahead(inbox[n], rx[n], sent[p], m, off)
                       => Ahead(q, rx[n], sent[p], m, off)
  <2>1. CASE q = inbox[n]
    BY <1>4, <2>1
  <2>2. ASSUME NEW f \in Frame, Plain(f), q = Append(inbox[n], f)
        PROVE  /\ OneWay(q, rx[n], sent[p], got[n])
               /\ \A m, off : Ahead(inbox[n], rx[n], sent[p], m, off)
                                => Ahead(q, rx[n], sent[p], m, off)
    BY <1>3, <1>4, <2>2, PlainMore
  <2> QED BY <1>2, <2>1, <2>2
<1>6. /\ OneWay(q, rx'[n], sent[p], got[n])
      /\ \A m, off : Ahead(inbox[n], rx[n], sent[p], m, off)
                       => Ahead(q, rx'[n], sent[p], m, off)
  <2>1. CASE rx'[n] = rx[n]
    BY <1>5, <2>1
  <2>2. CASE ~rx'[n].active
    <3>1. PICK b : b = rx'[n]
      OBVIOUS
    <3>2. /\ OneWay(q, b, sent[p], got[n])
          /\ \A m, off : Ahead(q, rx[n], sent[p], m, off)
                           => Ahead(q, b, sent[p], m, off)
      BY <1>5, <2>2, <3>1, GivenUp
    <3> QED BY <1>5, <3>1, <3>2
  <2> QED BY <2>1, <2>2
<1>7. rx'[n].active => pc'[n] = "receive"
  BY DEF Direction
<1>8. Sending(p)' => Ahead(q, rx'[n], sent[p], job'[p].msg, job'[p].off)
  <2>1. ASSUME Sending(p)'
        PROVE  Ahead(q, rx'[n], sent[p], job'[p].msg, job'[p].off)
    <3>1. /\ Sending(p) /\ job'[p].msg = job[p].msg
          /\ job'[p].off = job[p].off
      BY <1>1, <2>1 DEF Resting
    <3>2. Ahead(inbox[n], rx[n], sent[p], job[p].msg, job[p].off)
      BY <1>1, <3>1 DEF Direction
    <3> QED BY <1>6, <3>1, <3>2
  <2> QED BY <2>1
<1> QED BY <1>1, <1>2, <1>6, <1>7, <1>8 DEF Direction

\* n reads a frame that takes it nowhere.
LEMMA Skips ==
  ASSUME TypeInv, NEW n \in Node, Direction(n), Resting(Peer(n)),
         inbox[n] # <<>>, inbox'[n] = Tail(inbox[n]),
         sent'[Peer(n)] = sent[Peer(n)], got'[n] = got[n], ~rx'[n].active
  PROVE  Direction(n)'
<1>1. PICK p : p = Peer(n)
  OBVIOUS
<1>2. PICK b : b = rx'[n]
  OBVIOUS
<1>3. inbox[n] \in Seq(Frame)
  BY Now
<1>4. OneWay(inbox[n], rx[n], sent[p], got[n])
  BY <1>1 DEF Direction
<1>5. /\ OneWay(Tail(inbox[n]), b, sent[p], got[n])
      /\ \A m, off : Ahead(inbox[n], rx[n], sent[p], m, off)
                       => Ahead(Tail(inbox[n]), b, sent[p], m, off)
  BY <1>2, <1>3, <1>4, FrameSkipped
<1>6. Sending(p)' => Ahead(Tail(inbox[n]), b, sent[p], job'[p].msg,
                           job'[p].off)
  BY <1>1, <1>5 DEF Resting, Direction
<1> QED BY <1>1, <1>2, <1>5, <1>6 DEF Direction

\* A direction no step has anything to do with.
LEMMA Quiet ==
  ASSUME TypeInv, NEW n \in Node, Direction(n), Resting(Peer(n)),
         sent'[Peer(n)] = sent[Peer(n)],
         inbox'[n] = inbox[n], got'[n] = got[n], rx'[n] = rx[n],
         pc'[n] = pc[n] \/ ~rx[n].active
  PROVE  Direction(n)'
<1>1. ~rx'[n].active \/ (rx'[n] = rx[n] /\ pc'[n] = pc[n])
  OBVIOUS
<1> QED BY <1>1, Stays

LEMMA SentMore ==
  ASSUME TypeInv, SentInv, NEW n \in Node, NEW len \in Lengths, MaySend(n),
         sent' = [sent EXCEPT ![n] = Append(@, NewMessage(n, len))]
  PROVE  SentInv' /\ Len(sent[n]) + 1 <= MaxMessages + MaxCalm
<1>1. PICK m \in Message : m = NewMessage(n, len) /\ m.len = len
                           /\ m.id = Len(sent[n]) + 1 /\ m.from = n
  <2>1. NewMessage(n, len) \in Message
    BY Begins
  <2> QED BY <2>1 DEF NewMessage
<1>2. /\ sent'[n] = Append(sent[n], m)
      /\ \A d \in Node : d # n => sent'[d] = sent[d]
  BY <1>1, Begins
<1>3. Len(sent[n]) + 1 <= MaxMessages + MaxCalm
  <2>1. Len(sent[n]) \in Nat /\ Len(sent[Peer(n)]) \in Nat
    <3>1. Peer(n) \in Node
      BY PeerFacts
    <3> QED BY <3>1, Now
  <2>2. MaxMessages \in Nat /\ MaxCalm \in Nat
    BY BoundsAssumption
  <2>3. Messages \in Nat /\ Messages <= MaxMessages + MaxCalm
    BY <2>2 DEF Messages
  <2>4. Len(sent[n]) + Len(sent[Peer(n)]) < Messages
    BY DEF MaySend
  <2>5. MaxMessages + MaxCalm \in Nat
    BY <2>2
  <2>6. \A x \in Nat, y \in Nat, z \in Nat, w \in Nat :
          x + y < z /\ z <= w => x + 1 <= w
    OBVIOUS
  <2> QED BY <2>1, <2>3, <2>4, <2>5, <2>6
<1>4. ASSUME NEW d \in Node, NEW k \in 1 .. Len(sent'[d])
      PROVE  /\ sent'[d][k].id = k /\ sent'[d][k].from = d
             /\ sent'[d][k].len \in Lengths
             /\ k <= MaxMessages + MaxCalm
  <2>1. CASE d # n
    BY <1>2, <1>4, <2>1 DEF SentInv
  <2>2. CASE d = n
    <3>1. sent[n] \in Seq(Message)
      BY Now
    <3>2. PICK u : u = sent'[n]
      OBVIOUS
    <3>3. /\ \A i \in 1 .. Len(sent[n]) : u[i] = sent[n][i]
          /\ Len(u) = Len(sent[n]) + 1 /\ u[Len(sent[n]) + 1] = m
          /\ \A i \in 1 .. Len(sent[n]) + 1 :
               i \in 1 .. Len(sent[n]) \/ i = Len(sent[n]) + 1
      BY <1>2, <3>1, <3>2, AppendIs
    <3>4. CASE k \in 1 .. Len(sent[n])
      BY <2>2, <3>2, <3>3, <3>4 DEF SentInv
    <3>5. CASE k = Len(sent[n]) + 1
      BY <1>1, <1>3, <2>2, <3>2, <3>3, <3>5
    <3> QED BY <1>4, <2>2, <3>2, <3>3, <3>4, <3>5
  <2> QED BY <2>1, <2>2
<1>5. SentInv'
  BY <1>4 DEF SentInv
<1> QED BY <1>3, <1>5

\* A Send begins.
LEMMA SendBegins ==
  ASSUME IInv, NEW n \in Node, NEW len \in Lengths,
         SendSingle(n, len) \/ SendFirst(n, len)
  PROVE  SentInv' /\ \A d \in Node : Direction(d)'
<1>1. TypeInv /\ SentInv /\ \A d \in Node : Direction(d)
  BY DEF IInv
<1>2. PICK p \in Node : p = Peer(n) /\ p # n /\ Peer(p) = n
  BY PeerFacts
<1>3. PICK m \in Message : m = NewMessage(n, len) /\ m.len = len
                           /\ m.id = Len(sent[n]) + 1
  <2>1. NewMessage(n, len) \in Message
    BY <1>1, Begins
  <2> QED BY <2>1 DEF NewMessage
<1>4. len \in Nat /\ len > 0
  BY <1>1, Begins
<1>5. PICK f \in Frame :
        /\ f.msg = m /\ f.len = m.len
        /\ \/ f.pci = "SF" /\ f.len \in 1 .. SFMax
           \/ f.pci = "FF" /\ f.len > SFMax /\ ~f.short
        /\ inbox' = [inbox EXCEPT ![p] = Append(@, f)]
        /\ \/ UNCHANGED <<pc, job>>
           \/ /\ f.pci = "FF" /\ pc' = [pc EXCEPT ![n] = "waitFC"]
              /\ job' = [job EXCEPT ![n] = [msg |-> m, off |-> FFData,
                           seq |-> 1, bs |-> 0, i |-> 0, waits |-> 0]]
  <2>1. CASE SendSingle(n, len)
    <3>1. PICK f : f = SingleFrame(m, len)
      OBVIOUS
    <3>2. f \in Frame /\ f.pci = "SF" /\ f.msg = m /\ f.len = len
      BY <1>1, <1>3, <3>1, Begins DEF SingleFrame
    <3>3. f.len \in 1 .. SFMax
      BY <1>4, <2>1, <3>2 DEF SendSingle, SFMax
    <3>4. inbox' = [inbox EXCEPT ![p] = Append(@, f)]
          /\ UNCHANGED <<pc, job>>
      BY <1>2, <1>3, <2>1, <3>1 DEF SendSingle, Transmit
    <3> QED BY <1>3, <3>2, <3>3, <3>4
  <2>2. CASE SendFirst(n, len)
    <3>1. PICK f : f = FirstFrame(m, len, FALSE)
      OBVIOUS
    <3>2. f \in Frame /\ f.pci = "FF" /\ f.msg = m /\ f.len = len
          /\ ~f.short
      BY <1>1, <1>3, <3>1, Begins DEF FirstFrame
    <3>3. f.len > SFMax
      BY <2>2, <3>2 DEF SendFirst
    <3>4. /\ inbox' = [inbox EXCEPT ![p] = Append(@, f)]
          /\ pc' = [pc EXCEPT ![n] = "waitFC"]
          /\ job' = [job EXCEPT ![n] = [msg |-> m, off |-> FFData,
                       seq |-> 1, bs |-> 0, i |-> 0, waits |-> 0]]
      BY <1>2, <1>3, <2>2, <3>1 DEF SendFirst, Transmit
    <3> QED BY <1>3, <3>2, <3>3, <3>4
  <2> QED BY <2>1, <2>2
<1>6. /\ MaySend(n) /\ pc[n] = "idle"
      /\ sent' = [sent EXCEPT ![n] = Append(@, m)]
      /\ UNCHANGED <<rx, got>>
  BY <1>3 DEF SendSingle, SendFirst, MaySend
<1>7. SentInv'
  BY <1>1, <1>3, <1>6, SentMore
<1>8. /\ sent'[n] = Append(sent[n], m) /\ sent'[p] = sent[p]
      /\ inbox'[p] = Append(inbox[p], f) /\ inbox'[n] = inbox[n]
  <2>1. sent'[n] = Append(sent[n], m) /\ sent'[p] = sent[p]
    BY ZenonT(60), <1>1, <1>2, <1>3, <1>6, Begins
  <2>2. inbox'[p] = Append(inbox[p], f) /\ inbox'[n] = inbox[n]
    BY <1>1, <1>2, <1>5, InboxMore
  <2> QED BY <2>1, <2>2
<1>9. PcOK /\ job \in [Node -> Job]
  BY <1>1, TypeParts
<1>10. pc'[p] = pc[p] /\ job'[p] = job[p]
  BY <1>2, <1>5, <1>9 DEF PcOK
<1>11. Direction(n)'
  <2>1. ~rx[n].active /\ Resting(p)
    BY <1>1, <1>6, <1>10 DEF Direction, Resting, Sending
  <2> QED BY <1>1, <1>2, <1>6, <1>8, <2>1, Quiet
<1>12. Direction(p)'
  <2>1. /\ inbox[p] \in Seq(Frame) /\ sent[n] \in Seq(Message)
    BY <1>1, Now
  <2>2. OneWay(inbox[p], rx[p], sent[n], got[p])
    BY <1>1, <1>2 DEF Direction
  <2>3. PICK q, u : q = Append(inbox[p], f) /\ u = Append(sent[n], m)
    OBVIOUS
  <2>4. /\ OneWay(q, rx[p], u, got[p])
        /\ f.pci = "FF" => Ahead(q, rx[p], u, m, FFData)
    BY <1>3, <1>5, <2>1, <2>2, <2>3, StartMore
  <2>5. rx'[p].active => pc'[p] = "receive"
    BY <1>1, <1>6, <1>10 DEF Direction
  <2>6. Sending(n)' => /\ f.pci = "FF" /\ job'[n].msg = m
                       /\ job'[n].off = FFData
    BY <1>5, <1>6, <1>9 DEF Sending
  <2> QED BY <1>2, <1>6, <1>8, <2>3, <2>4, <2>5, <2>6 DEF Direction
<1> QED BY <1>2, <1>7, <1>11, <1>12, PeerFacts

\* A flow control frame is read, or whatever else comes before it.
LEMMA FlowControlRead ==
  ASSUME IInv, NEW n \in Node, ReadFlowControl(n)
  PROVE  SentInv' /\ \A d \in Node : Direction(d)'
<1>1. TypeInv /\ SentInv /\ \A d \in Node : Direction(d)
  BY DEF IInv
<1>2. PICK p \in Node : p = Peer(n) /\ p # n /\ Peer(p) = n
  BY PeerFacts
<1>3. /\ pc[n] = "waitFC" /\ inbox[n] # <<>>
      /\ inbox' = [inbox EXCEPT ![n] = Tail(@)]
      /\ UNCHANGED <<sent, got>>
  BY DEF ReadFlowControl
<1>4. inbox'[n] = Tail(inbox[n]) /\ inbox'[p] = inbox[p]
  BY <1>1, <1>2, <1>3, InboxLess
<1>5. /\ ~rx'[n].active /\ rx'[p] = rx[p] /\ pc'[p] = pc[p]
      /\ job'[p] = job[p] /\ Resting(n)
  <2>1. CASE Return(n)
    BY <1>1, <1>2, <2>1, Returned DEF Resting
  <2>2. CASE ~Return(n)
    <3>1. /\ UNCHANGED rx /\ pc' \in {pc, [pc EXCEPT ![n] = "block"]}
          /\ \/ job' = job
             \/ job' = [job EXCEPT ![n].bs = Head(inbox[n]).bs,
                                   ![n].i = 0, ![n].waits = 0]
             \/ job' = [job EXCEPT ![n].waits = @ + 1]
      BY <2>2 DEF ReadFlowControl
    <3>2. PcOK /\ job \in [Node -> Job] /\ job[n] \in Job
      BY <1>1, TypeParts
    <3>3. pc'[p] = pc[p]
      BY <1>2, <3>1, <3>2 DEF PcOK
    <3>4. job'[p] = job[p] /\ job'[n].msg = job[n].msg
          /\ job'[n].off = job[n].off
      BY <1>2, <3>1, <3>2 DEF Job
    <3>5. ~rx[n].active
      BY <1>1, <1>3 DEF Direction
    <3> QED BY <1>3, <3>1, <3>3, <3>4, <3>5 DEF Resting, Sending
  <2> QED BY <2>1, <2>2
<1>6. Resting(p)
  BY <1>5 DEF Resting, Sending
<1>7. Direction(n)'
  BY <1>1, <1>2, <1>3, <1>4, <1>5, <1>6, Skips
<1>8. Direction(p)'
  BY <1>1, <1>2, <1>3, <1>4, <1>5, Quiet
<1>9. SentInv'
  BY <1>1, <1>3 DEF SentInv
<1> QED BY <1>2, <1>7, <1>8, <1>9, PeerFacts

\* A consecutive frame is sent.
LEMMA ConsecutiveSent ==
  ASSUME IInv, NEW n \in Node, SendConsecutive(n)
  PROVE  SentInv' /\ \A d \in Node : Direction(d)'
<1>1. TypeInv /\ SentInv /\ \A d \in Node : Direction(d)
  BY DEF IInv
<1>2. PICK p \in Node : p = Peer(n) /\ p # n /\ Peer(p) = n
  BY PeerFacts
<1>3. PICK f : f = ConsecutiveFrame(job[n].msg, job[n].off, job[n].seq)
  OBVIOUS
<1>4. f \in Frame /\ f.pci = "CF" /\ f.msg = job[n].msg
      /\ f.off = job[n].off
  BY <1>1, <1>3, ConsecutiveIs DEF ConsecutiveFrame
<1>5. PICK end : end = Lesser(job[n].off + CFData, job[n].msg.len)
  OBVIOUS
<1>6. /\ pc[n] = "block" /\ UNCHANGED <<sent, got>>
      /\ inbox' = [inbox EXCEPT ![p] = Append(@, f)]
      /\ \/ Return(n)
         \/ /\ end < job[n].msg.len
            /\ job' = [job EXCEPT ![n].off = end, ![n].seq = NextSeq(@),
                                  ![n].i = @ + 1]
            /\ pc' = [pc EXCEPT ![n] = IF BlockDone(job[n].i, job[n].bs)
                                       THEN "waitFC" ELSE "block"]
            /\ UNCHANGED rx
  BY <1>2, <1>3, <1>5 DEF SendConsecutive, Transmit
<1>7. inbox'[p] = Append(inbox[p], f) /\ inbox'[n] = inbox[n]
  BY <1>1, <1>2, <1>4, <1>6, InboxMore
<1>8. PcOK /\ job \in [Node -> Job] /\ job[n] \in Job
  BY <1>1, TypeParts
<1>9. ~rx[n].active
  BY <1>1, <1>6 DEF Direction
<1>10. /\ ~rx'[n].active /\ rx'[p] = rx[p] /\ pc'[p] = pc[p]
       /\ job'[p] = job[p]
       /\ Sending(n)' => /\ job'[n].msg = job[n].msg
                         /\ job'[n].off = job[n].off + CFData
                         /\ job[n].off + CFData < job[n].msg.len
  <2>1. CASE Return(n)
    BY <1>1, <1>2, <2>1, Returned
  <2>2. CASE ~Return(n)
    <3>1. job[n].off \in Nat /\ job[n].msg.len \in Nat
      BY <1>1, ConsecutiveIs
    <3>2. end = job[n].off + CFData /\ end < job[n].msg.len
      BY <1>5, <1>6, <2>2, <3>1 DEF Lesser, CFData
    <3>3. job'[n].msg = job[n].msg /\ job'[n].off = end
          /\ job'[p] = job[p]
      BY <1>2, <1>6, <1>8, <2>2 DEF Job
    <3>4. pc'[p] = pc[p]
      BY <1>2, <1>6, <1>8, <2>2 DEF PcOK
    <3> QED BY <1>6, <1>9, <2>2, <3>2, <3>3, <3>4
  <2> QED BY <2>1, <2>2
<1>11. Direction(n)'
  <2>1. Resting(p)
    BY <1>10 DEF Resting, Sending
  <2> QED BY <1>1, <1>2, <1>6, <1>7, <1>10, <2>1, Stays
<1>12. Direction(p)'
  <2>1. inbox[p] \in Seq(Frame)
    BY <1>1, Now
  <2>2. OneWay(inbox[p], rx[p], sent[n], got[p])
        /\ Ahead(inbox[p], rx[p], sent[n], f.msg, f.off)
    BY <1>1, <1>2, <1>4, <1>6 DEF Direction, Sending
  <2>3. PICK q : q = Append(inbox[p], f)
    OBVIOUS
  <2>4. /\ OneWay(q, rx[p], sent[n], got[p])
        /\ f.off + CFData < f.msg.len
             => Ahead(q, rx[p], sent[n], f.msg, f.off + CFData)
    BY <1>4, <2>1, <2>2, <2>3, MiddleMore
  <2>5. rx'[p].active => pc'[p] = "receive"
    BY <1>1, <1>10 DEF Direction
  <2> QED BY <1>2, <1>4, <1>6, <1>7, <1>10, <2>3, <2>4, <2>5 DEF Direction
<1>13. SentInv'
  BY <1>1, <1>6 DEF SentInv
<1> QED BY <1>2, <1>11, <1>12, <1>13, PeerFacts

\* A message that is received is one the peer began after the last one.
Arrives(n) ==
  \E x \in Buffer, m \in Message :
    /\ got' = [got EXCEPT ![n] = Append(@, x)]
    /\ Sent(sent[Peer(n)], m) /\ m.id > LastGot(got[n])
    /\ x = [len |-> m.len, parts |-> Split(m)]

\* A frame is received.
LEMMA FrameReceived ==
  ASSUME IInv, NEW n \in Node, ReceiveFrame(n)
  PROVE  /\ SentInv' /\ \A d \in Node : Direction(d)'
         /\ UNCHANGED sent /\ (UNCHANGED got \/ Arrives(n))
<1>1. TypeInv /\ SentInv /\ \A d \in Node : Direction(d)
  BY DEF IInv
<1>2. PICK p \in Node : p = Peer(n) /\ p # n /\ Peer(p) = n
  BY PeerFacts
<1>3. PICK fed : fed = Feed(rx[n], Head(inbox[n]))
  OBVIOUS
<1>4. PICK rest : rest = [inbox EXCEPT ![n] = Tail(@)]
  OBVIOUS
<1>5. /\ pc[n] = "receive" /\ inbox[n] # <<>> /\ fed.msg \in Buffer
      /\ \/ inbox' = rest
         \/ /\ Control(fed.fc)
            /\ inbox' = [rest EXCEPT ![p] = Append(@, fed.fc)]
      /\ UNCHANGED <<sent, strays, faults>>
  BY <1>1, <1>2, <1>3, <1>4, ReceiveIs
<1>6. /\ rest \in [Node -> Seq(Frame)] /\ rest[n] = Tail(inbox[n])
      /\ rest[p] = inbox[p]
  BY <1>1, <1>2, <1>4, <1>5, InboxLess
<1>7. inbox'[n] = Tail(inbox[n])
  BY <1>2, <1>5, <1>6
<1>8. \/ inbox'[p] = inbox[p]
      \/ \E f \in Frame : Plain(f) /\ inbox'[p] = Append(inbox[p], f)
  BY <1>5, <1>6 DEF Control
<1>9. PcOK /\ RxOK /\ got \in [Node -> Seq(Buffer)]
  BY <1>1, TypeParts
<1>10. \/ /\ fed.err = "nil" /\ fed.msg = NoMessage
          /\ rx' = [rx EXCEPT ![n] = fed.r]
          /\ UNCHANGED <<pc, job, got>>
       \/ /\ fed.err = "nil" /\ fed.msg # NoMessage
          /\ got' = [got EXCEPT ![n] = Append(@, fed.msg)]
          /\ Return(n)
       \/ Return(n) /\ UNCHANGED got
  BY <1>3 DEF ReceiveFrame
<1>11. /\ rx'[p] = rx[p] /\ pc'[p] = pc[p] /\ job'[p] = job[p]
       /\ got'[p] = got[p] /\ ~Sending(n)'
  <2>1. CASE Return(n)
    <3>1. got'[p] = got[p]
      BY <1>2, <1>9, <1>10
    <3> QED BY <1>1, <1>2, <2>1, <3>1, Returned
  <2>2. CASE ~Return(n)
    BY <1>2, <1>5, <1>9, <1>10, <2>2 DEF RxOK, Sending
  <2> QED BY <2>1, <2>2
<1>12. Direction(p)'
  <2>1. Resting(n)
    BY <1>11 DEF Resting
  <2> QED BY <1>1, <1>2, <1>5, <1>8, <1>11, <2>1, Stays
<1>13. SentInv'
  BY <1>1, <1>5 DEF SentInv
<1>14. PICK s, g : s = sent[p] /\ g = got[n]
  OBVIOUS
<1>15. /\ inbox[n] \in Seq(Frame) /\ Receivers(rx[n])
       /\ s \in Seq(Message) /\ g \in Seq(Buffer)
       /\ OneWay(inbox[n], rx[n], s, g)
  BY <1>1, <1>2, <1>14, Now DEF Direction
<1>16. FedWell(inbox[n], rx[n], s, g, fed)
  BY <1>3, <1>5, <1>15, FrameFed
<1>17. \A b : (\A m, off : Ahead(inbox[n], rx[n], s, m, off)
                             => Ahead(Tail(inbox[n]), b, s, m, off))
         => (Sending(p)' => Ahead(Tail(inbox[n]), b, s, job'[p].msg,
                                  job'[p].off))
  <2>1. Sending(p)' => Ahead(inbox[n], rx[n], s, job'[p].msg, job'[p].off)
    BY <1>1, <1>2, <1>11, <1>14 DEF Direction, Sending
  <2> QED BY <2>1
<1>18. ASSUME NEW b, rx'[n] = b, b.active => pc'[n] = "receive", NEW h,
              got'[n] = h, OneWay(Tail(inbox[n]), b, s, h),
              \A m, off : Ahead(inbox[n], rx[n], s, m, off)
                            => Ahead(Tail(inbox[n]), b, s, m, off)
       PROVE  Direction(n)'
  <2>1. Sending(p)' => Ahead(Tail(inbox[n]), b, s, job'[p].msg, job'[p].off)
    BY <1>17, <1>18
  <2> QED BY <1>2, <1>5, <1>7, <1>14, <1>18, <2>1 DEF Direction
<1>19. CASE /\ fed.err = "nil" /\ fed.msg = NoMessage
            /\ rx' = [rx EXCEPT ![n] = fed.r]
            /\ UNCHANGED <<pc, job, got>>
  <2>1. rx'[n] = fed.r /\ got'[n] = g /\ pc'[n] = "receive"
    BY <1>5, <1>9, <1>14, <1>19 DEF RxOK
  <2>2. Direction(n)'
    BY <1>16, <1>18, <1>19, <2>1 DEF FedWell
  <2> QED BY <1>2, <1>5, <1>12, <1>13, <1>19, <2>2, PeerFacts
<1>20. CASE /\ fed.err = "nil" /\ fed.msg # NoMessage
            /\ got' = [got EXCEPT ![n] = Append(@, fed.msg)]
            /\ Return(n)
  <2>1. rx'[n] = NewReceiver /\ ~NewReceiver.active
        /\ got'[n] = Append(g, fed.msg)
    BY <1>1, <1>9, <1>14, <1>20, Returned
  <2>2. Direction(n)'
    BY <1>16, <1>18, <1>20, <2>1 DEF FedWell
  <2>3. Arrives(n)
    BY <1>2, <1>5, <1>14, <1>16, <1>20 DEF Arrives, FedWell
  <2> QED BY <1>2, <1>5, <1>12, <1>13, <2>2, <2>3, PeerFacts
<1>21. CASE Return(n) /\ UNCHANGED got
  <2>1. rx'[n] = NewReceiver /\ ~NewReceiver.active /\ got'[n] = g
    BY <1>1, <1>9, <1>14, <1>21, Returned
  <2>2. Direction(n)'
    BY <1>16, <1>18, <1>21, <2>1 DEF FedWell
  <2> QED BY <1>2, <1>5, <1>12, <1>13, <1>21, <2>2, PeerFacts
<1> QED BY <1>10, <1>19, <1>20, <1>21

\* A call begins or ends, or a foreign frame comes, without a message.
LEMMA OtherSteps ==
  ASSUME IInv, NEW n \in Node, StraysAreFrames, StraysArePlain,
         \/ ReceiveCall(n) \/ ReceiveCannotAnswer(n)
         \/ TimeoutNBs(n) \/ TimeoutNCr(n) \/ Cancel(n)
         \/ \E f \in Strays : Stray(n, f)
  PROVE  /\ SentInv' /\ \A d \in Node : Direction(d)'
         /\ UNCHANGED <<sent, got>>
<1>1. TypeInv /\ SentInv /\ \A d \in Node : Direction(d)
  BY DEF IInv
<1>2. PICK p \in Node : p = Peer(n) /\ p # n /\ Peer(p) = n
  BY PeerFacts
<1>3. PcOK /\ RxOK /\ job \in [Node -> Job]
  BY <1>1, TypeParts
<1>4. UNCHANGED <<sent, got>>
  BY DEF ReceiveCall, ReceiveCannotAnswer, TimeoutNBs, TimeoutNCr, Cancel,
         Stray
<1>5. SentInv'
  BY <1>1, <1>4 DEF SentInv
<1>6. CASE ReceiveCall(n)
  <2>1. /\ pc' = [pc EXCEPT ![n] = "receive"]
        /\ rx' = [rx EXCEPT ![n] = NewReceiver]
        /\ UNCHANGED <<job, inbox>>
    BY <1>6 DEF ReceiveCall
  <2>2. /\ ~rx'[n].active /\ rx'[p] = rx[p] /\ pc'[p] = pc[p]
    BY <1>2, <1>3, <2>1, NewReceiverIs DEF PcOK, RxOK
  <2>3. Resting(n)
    BY <1>3, <2>1 DEF Resting, Sending, PcOK
  <2>4. Resting(p)
    BY <2>1, <2>2 DEF Resting, Sending
  <2>5. Direction(n)'
    BY <1>1, <1>2, <1>4, <2>1, <2>2, <2>4, Stays
  <2>6. Direction(p)'
    BY <1>1, <1>2, <1>4, <2>1, <2>2, <2>3, Quiet
  <2> QED BY <1>2, <1>4, <1>5, <2>5, <2>6, PeerFacts
<1>7. CASE TimeoutNBs(n) \/ TimeoutNCr(n) \/ Cancel(n)
  <2>1. Return(n) /\ UNCHANGED inbox
    BY <1>7 DEF TimeoutNBs, TimeoutNCr, Cancel
  <2>2. /\ ~rx'[n].active /\ rx'[p] = rx[p] /\ pc'[p] = pc[p]
        /\ job'[p] = job[p] /\ Resting(n)
    BY <1>1, <1>2, <2>1, Returned DEF Resting
  <2>3. Resting(p)
    BY <2>2 DEF Resting, Sending
  <2>4. Direction(n)'
    BY <1>1, <1>2, <1>4, <2>1, <2>2, <2>3, Stays
  <2>5. Direction(p)'
    BY <1>1, <1>2, <1>4, <2>1, <2>2, Quiet
  <2> QED BY <1>2, <1>4, <1>5, <2>4, <2>5, PeerFacts
<1>8. CASE ReceiveCannotAnswer(n)
  <2>1. /\ Return(n) /\ inbox[n] # <<>>
        /\ inbox' = [inbox EXCEPT ![n] = Tail(@)]
    BY <1>8 DEF ReceiveCannotAnswer
  <2>2. inbox'[n] = Tail(inbox[n]) /\ inbox'[p] = inbox[p]
    BY <1>1, <1>2, <2>1, InboxLess
  <2>3. /\ ~rx'[n].active /\ rx'[p] = rx[p] /\ pc'[p] = pc[p]
        /\ job'[p] = job[p] /\ Resting(n)
    BY <1>1, <1>2, <2>1, Returned DEF Resting
  <2>4. Resting(p)
    BY <2>3 DEF Resting, Sending
  <2>5. Direction(n)'
    BY <1>1, <1>2, <1>4, <2>1, <2>2, <2>3, <2>4, Skips
  <2>6. Direction(p)'
    BY <1>1, <1>2, <1>4, <2>2, <2>3, Quiet
  <2> QED BY <1>2, <1>4, <1>5, <2>5, <2>6, PeerFacts
<1>9. ASSUME NEW f \in Strays, Stray(n, f)
      PROVE  /\ SentInv' /\ \A d \in Node : Direction(d)'
             /\ UNCHANGED <<sent, got>>
  <2>1. f \in Frame /\ Plain(f)
    BY DEF StraysAreFrames, StraysArePlain
  <2>2. inbox' = [inbox EXCEPT ![n] = Append(@, f)]
        /\ UNCHANGED <<pc, job, rx>>
    BY <1>9 DEF Stray
  <2>3. inbox'[n] = Append(inbox[n], f) /\ inbox'[p] = inbox[p]
    BY <1>1, <1>2, <2>1, <2>2, InboxMore
  <2>4. Resting(n) /\ Resting(p)
    BY <2>2 DEF Resting, Sending
  <2>5. rx'[n] = rx[n] /\ pc'[n] = pc[n] /\ rx'[p] = rx[p]
        /\ pc'[p] = pc[p]
    BY <2>2
  <2>6. Direction(n)'
    BY <1>1, <1>2, <1>4, <2>1, <2>3, <2>4, <2>5, Stays
  <2>7. Direction(p)'
    BY <1>1, <1>2, <1>4, <2>3, <2>4, <2>5, Quiet
  <2> QED BY <1>2, <1>4, <1>5, <2>6, <2>7, PeerFacts
<1> QED BY <1>6, <1>7, <1>8, <1>9

\* A message that a Send begins.
Begun(n, len) == /\ MaySend(n)
                 /\ sent' = [sent EXCEPT ![n] = Append(@, NewMessage(n, len))]
                 /\ UNCHANGED got

\* No frame is lost or repeated.
Faultless == calm \/ MaxFaults = 0

LEMMA FaultlessStays ==
  ASSUME [Next]_vars
  PROVE  calm' = calm /\ (Faultless' <=> Faultless)
<1>1. calm' = calm
  BY ZenonT(60) DEF vars, Next, SendStep, ReceiveStep, SendSingle, SendFirst,
         ReadFlowControl, SendConsecutive, ReceiveCall, ReceiveFrame,
         ReceiveCannotAnswer, TimeoutNBs, TimeoutNCr, Cancel, Fault, Stray
<1> QED BY <1>1 DEF Faultless

\* Every step keeps the invariant and is a step of the channel or none.
LEMMA Step ==
  ASSUME IInv, Next, StraysAreFrames, StraysArePlain, Faultless
  PROVE  /\ IInv'
         /\ \/ UNCHANGED <<sent, got>>
            \/ \E n \in Node, len \in Lengths : Begun(n, len)
            \/ \E n \in Node : Arrives(n) /\ UNCHANGED sent
<1>1. TypeInv'
  BY TypeStep DEF IInv
<1>2. PICK n \in Node :
        \/ \E len \in Lengths : SendSingle(n, len) \/ SendFirst(n, len)
        \/ ReadFlowControl(n) \/ SendConsecutive(n)
        \/ ReceiveFrame(n)
        \/ \/ ReceiveCall(n) \/ ReceiveCannotAnswer(n)
           \/ TimeoutNBs(n) \/ TimeoutNCr(n) \/ Cancel(n)
           \/ \E f \in Strays : Stray(n, f)
        \/ Fault(n)
  BY DEF Next, SendStep, ReceiveStep
<1>3. CASE \E len \in Lengths : SendSingle(n, len) \/ SendFirst(n, len)
  <2>1. PICK len \in Lengths : SendSingle(n, len) \/ SendFirst(n, len)
    BY <1>3
  <2>2. SentInv' /\ \A d \in Node : Direction(d)'
    BY <2>1, SendBegins
  <2>3. Begun(n, len)
    BY <2>1 DEF SendSingle, SendFirst, Begun
  <2> QED BY <1>1, <2>2, <2>3 DEF IInv
<1>4. CASE ReadFlowControl(n) \/ SendConsecutive(n)
  <2>1. SentInv' /\ \A d \in Node : Direction(d)'
    BY <1>4, FlowControlRead, ConsecutiveSent
  <2>2. UNCHANGED <<sent, got>>
    BY <1>4 DEF ReadFlowControl, SendConsecutive
  <2> QED BY <1>1, <2>1, <2>2 DEF IInv
<1>5. CASE ReceiveFrame(n)
  <2>1. /\ SentInv' /\ \A d \in Node : Direction(d)'
        /\ UNCHANGED sent /\ (UNCHANGED got \/ Arrives(n))
    BY <1>5, FrameReceived
  <2> QED BY <1>1, <2>1 DEF IInv
<1>6. CASE \/ ReceiveCall(n) \/ ReceiveCannotAnswer(n)
           \/ TimeoutNBs(n) \/ TimeoutNCr(n) \/ Cancel(n)
           \/ \E f \in Strays : Stray(n, f)
  <2>1. /\ SentInv' /\ \A d \in Node : Direction(d)'
        /\ UNCHANGED <<sent, got>>
    BY <1>6, OtherSteps
  <2> QED BY <1>1, <2>1 DEF IInv
<1>7. CASE Fault(n)
  <2>1. faults \in Nat /\ faults < 0
    BY <1>7, TypeParts DEF Fault, IInv, Faultless
  <2> QED BY <2>1
<1> QED BY <1>2, <1>3, <1>4, <1>5, <1>6, <1>7

LEMMA Stutter == ASSUME IInv, UNCHANGED vars PROVE IInv'
<1>1. UNCHANGED <<calm, pc, job, rx, armed, inbox, sent, got, strays, faults>>
  BY DEF vars
<1>2. TypeInv' /\ SentInv'
  BY <1>1, TypeParts, TypeNext DEF IInv, SentInv, PcOK, RxOK
<1>3. \A d \in Node : Direction(d)'
  BY <1>1 DEF IInv, Direction, Sending
<1> QED BY <1>2, <1>3 DEF IInv

LEMMA Initially == ASSUME Init PROVE IInv
<1>1. TypeInv
  BY TypeInit
<1>2. SentInv
  BY DEF Init, SentInv
<1>3. ASSUME NEW n \in Node PROVE Direction(n)
  <2>1. /\ inbox[n] = <<>> /\ rx[n] = NewReceiver /\ got[n] = <<>>
        /\ sent[Peer(n)] = <<>> /\ pc[Peer(n)] = "idle"
    BY PeerFacts DEF Init
  <2>2. ~rx[n].active
    BY <2>1, NewReceiverIs
  <2>3. LastGot(got[n]) = 0
    BY <2>1 DEF LastGot
  <2>4. Len(inbox[n]) = 0 /\ Len(got[n]) = 0 /\ Len(sent[Peer(n)]) = 0
    BY <2>1
  <2>5. OneWay(inbox[n], rx[n], sent[Peer(n)], got[n])
    BY <2>2, <2>3, <2>4 DEF OneWay, FramesInv, OrderInv, GotInv
  <2> QED BY <2>1, <2>2, <2>5 DEF Direction, Sending
<1> QED BY <1>1, <1>2, <1>3 DEF IInv

\* The inductive invariant: whatever is queued at an endpoint goes on where
\* its Receiver stands, as long as no frame is lost or repeated.  (When one
\* is, frames of two messages of the same length can fit together, see the
\* README.)
THEOREM Inductive ==
  ASSUME StraysAreFrames, StraysArePlain
  PROVE  Spec => [](Faultless => IInv)
<1>1. Init => IInv
  BY Initially
<1>2. (Faultless => IInv) /\ [Next]_vars => (Faultless => IInv)'
  BY Step, Stutter, FaultlessStays
<1> QED BY <1>1, <1>2, PTL DEF Spec

\* Receive returns only messages the peer has begun to send, every byte in
\* its place, however many transfers were given up in the middle and whatever
\* flow control a foreign peer sends (conn.go's Receive, Receiver.Feed).
THEOREM MessagesAreWhole ==
  ASSUME StraysAreFrames, StraysArePlain
  PROVE  Spec => [](Faultless => Integrity)
<1>1. IInv => Integrity
  BY DEF IInv, Direction, OneWay, GotInv, Integrity
<1> QED BY <1>1, Inductive, PTL

-----------------------------------------------------------------------------
(* The message channel                                                     *)

\* What a Receive returned stands for one message only.
LEMMA WholeIs ==
  ASSUME NEW s \in Seq(Message), NEW k \in 1 .. Len(s), NEW x,
         x = [len |-> s[k].len, parts |-> Split(s[k])]
  PROVE  Whole(s, x) = s[k]
<1>1. \A i \in 1 .. Len(s) : s[i] \in Message
  OBVIOUS
<1>2. PICK same :
        same = {i \in 1 .. Len(s) :
                  x = [len |-> s[i].len, parts |-> Split(s[i])]}
  OBVIOUS
<1>3. k \in same
  BY <1>2
<1>4. ASSUME NEW i \in same PROVE s[i] = s[k]
  <2>1. Split(s[i])[1].msg = s[i] /\ Split(s[k])[1].msg = s[k]
    BY <1>1, <1>2, SplitFirst
  <2>2. x.parts = Split(s[i]) /\ x.parts = Split(s[k])
    BY <1>2
  <2> QED BY <2>1, <2>2
<1>5. (CHOOSE i \in same : TRUE) \in same
  BY <1>3
<1>6. Whole(s, x) = IF same = {} THEN NoMessage
                    ELSE s[CHOOSE i \in same : TRUE]
  BY <1>2 DEF Whole
<1> QED BY <1>3, <1>4, <1>5, <1>6

Wholes(s, g) == [i \in 1 .. Len(g) |-> Whole(s, g[i])]

\* A message that is begun changes nothing about those received.
LEMMA WholesKept ==
  ASSUME NEW s \in Seq(Message), NEW m \in Message, NEW g, GotInv(s, g)
  PROVE  Wholes(Append(s, m), g) = Wholes(s, g)
<1>1. PICK u \in Seq(Message) : u = Append(s, m)
  BY AppendIs
<1>2. \A k \in 1 .. Len(s) : u[k] = s[k] /\ k \in 1 .. Len(u)
  BY <1>1, AppendIs
<1>3. ASSUME NEW i \in 1 .. Len(g) PROVE Whole(u, g[i]) = Whole(s, g[i])
  <2>1. PICK k \in 1 .. Len(s) :
          g[i] = [len |-> s[k].len, parts |-> Split(s[k])]
    BY DEF GotInv
  <2>2. Whole(s, g[i]) = s[k]
    BY <2>1, WholeIs
  <2>3. k \in 1 .. Len(u) /\ u[k] = s[k]
    BY <1>2
  <2>4. g[i] = [len |-> u[k].len, parts |-> Split(u[k])]
    BY <2>1, <2>3
  <2>5. Whole(u, g[i]) = u[k]
    BY <2>3, <2>4, WholeIs
  <2> QED BY <2>2, <2>3, <2>5
<1> QED BY <1>1, <1>3 DEF Wholes

\* A message that is received is appended.
LEMMA WholesMore ==
  ASSUME NEW s \in Seq(Message), NEW g \in Seq(Buffer), NEW x \in Buffer,
         NEW m \in Message, Sent(s, m),
         x = [len |-> m.len, parts |-> Split(m)]
  PROVE  Wholes(s, Append(g, x)) = Append(Wholes(s, g), m)
<1>1. PICK h \in Seq(Buffer) : h = Append(g, x)
  BY AppendIs
<1>2. /\ \A i \in 1 .. Len(g) : h[i] = g[i]
      /\ Len(h) = Len(g) + 1 /\ h[Len(g) + 1] = x /\ Len(g) \in Nat
  BY <1>1, AppendIs
<1>3. Whole(s, x) = m
  <2>1. m.id \in 1 .. Len(s) /\ s[m.id] = m
    BY DEF Sent
  <2> QED BY <2>1, WholeIs
<1>4. PICK w : w = Wholes(s, g)
  OBVIOUS
<1>5. w = [i \in 1 .. Len(g) |-> Whole(s, g[i])]
  BY <1>4 DEF Wholes
<1>6. PICK c \in Nat : c = Len(g)
  BY <1>2
<1>8. PICK S : S = {w[i] : i \in 1 .. c} \cup {m}
  OBVIOUS
<1>9. w \in Seq(S) /\ Len(w) = c /\ m \in S
  <2>1. \A v \in [1 .. c -> S] : v \in Seq(S) /\ Len(v) = c
    OBVIOUS
  <2> QED BY <1>5, <1>6, <1>8, <2>1
<1>10. /\ Append(w, m) \in Seq(S) /\ Len(Append(w, m)) = c + 1
       /\ \A i \in 1 .. c : Append(w, m)[i] = w[i]
       /\ Append(w, m)[c + 1] = m
  BY <1>9, AppendIs
<1>11. PICK v : v = Append(w, m)
  OBVIOUS
<1>12. \A i \in 1 .. c + 1 : v[i] = Whole(s, h[i])
  <2>1. \A i \in 1 .. c + 1 : i \in 1 .. c \/ i = c + 1
    OBVIOUS
  <2>2. \A i \in 1 .. c : v[i] = Whole(s, h[i])
    BY <1>2, <1>5, <1>6, <1>10, <1>11
  <2>3. v[c + 1] = Whole(s, h[c + 1])
    BY <1>2, <1>3, <1>6, <1>10, <1>11
  <2> QED BY <2>1, <2>2, <2>3
<1>13. v = [i \in 1 .. c + 1 |-> Whole(s, h[i])]
  <2>1. \A y \in Seq(S) : y = [i \in 1 .. Len(y) |-> y[i]]
    OBVIOUS
  <2> QED BY <1>10, <1>11, <1>12, <2>1
<1> QED BY <1>1, <1>2, <1>4, <1>6, <1>11, <1>13 DEF Wholes

\* The number of the last message received is the one of the channel.
LEMMA LastIs ==
  ASSUME NEW s \in Seq(Message), NEW g \in Seq(Buffer), GotInv(s, g)
  PROVE  LastGot(g) = IF Wholes(s, g) = <<>> THEN 0
                      ELSE Wholes(s, g)[Len(Wholes(s, g))].id
<1>1. PICK c \in Nat : c = Len(g)
  OBVIOUS
<1>2. PICK w : w = Wholes(s, g)
  OBVIOUS
<1>3. w = [i \in 1 .. c |-> Whole(s, g[i])] /\ Len(w) = c
  <2>1. w = [i \in 1 .. c |-> Whole(s, g[i])]
    BY <1>1, <1>2 DEF Wholes
  <2>2. \A v : \A S : v \in [1 .. c -> S] => Len(v) = c
    OBVIOUS
  <2>3. w \in [1 .. c -> {w[i] : i \in 1 .. c}]
    BY <2>1
  <2> QED BY <2>1, <2>2, <2>3
<1>4. CASE c = 0
  <2>1. g = <<>>
    BY <1>1, <1>4, EmptySeq
  <2>2. w = <<>>
    BY <1>3, <1>4
  <2> QED BY <1>2, <2>1, <2>2 DEF LastGot
<1>5. CASE c # 0
  <2>1. c \in 1 .. Len(g) /\ g # <<>>
    BY <1>1, <1>5
  <2>2. PICK k \in 1 .. Len(s) :
          g[c] = [len |-> s[k].len, parts |-> Split(s[k])]
    BY <2>1 DEF GotInv
  <2>3. w[c] = s[k]
    BY <1>1, <1>3, <2>1, <2>2, WholeIs
  <2>4. g[c].parts[1].msg = s[k]
    <3>1. s[k] \in Message
      OBVIOUS
    <3> QED BY <2>2, <3>1, SplitFirst
  <2>5. w # <<>>
    BY <1>3, <1>5
  <2> QED BY <1>1, <1>2, <1>3, <2>1, <2>3, <2>4, <2>5 DEF LastGot
<1> QED BY <1>4, <1>5

LEMMA DeliveredIs == Delivered = [n \in Node |-> Wholes(sent[Peer(n)], got[n])]
BY DEF Delivered, Wholes

LEMMA ChannelStep ==
  ASSUME IInv,
         \/ UNCHANGED <<sent, got>>
         \/ \E n \in Node, len \in Lengths : Begun(n, len)
         \/ \E n \in Node : Arrives(n) /\ UNCHANGED sent
  PROVE  Channel!Next \/ UNCHANGED <<sent, Delivered>>
<1>1. TypeInv /\ SentInv /\ \A d \in Node : Direction(d)
  BY DEF IInv
<1>2. /\ sent \in [Node -> Seq(Message)] /\ got \in [Node -> Seq(Buffer)]
  BY <1>1, TypeParts
<1>3. Delivered' = [n \in Node |-> Wholes(sent'[Peer(n)], got'[n])]
  BY DEF Delivered, Wholes
<1>4. \A n \in Node : GotInv(sent[Peer(n)], got[n])
  BY <1>1 DEF Direction, OneWay
<1>5. CASE UNCHANGED <<sent, got>>
  BY <1>3, <1>5, DeliveredIs
<1>6. ASSUME NEW n \in Node, NEW len \in Lengths, Begun(n, len)
      PROVE  Channel!Next
  <2>1. PICK m \in Message : m = NewMessage(n, len) /\ m.len = len
                             /\ m.id = Len(sent[n]) + 1 /\ m.from = n
    <3>1. NewMessage(n, len) \in Message
      BY <1>1, Begins
    <3> QED BY <3>1 DEF NewMessage
  <2>2. /\ sent' = [sent EXCEPT ![n] = Append(@, m)] /\ UNCHANGED got
        /\ MaySend(n)
    BY <1>6, <2>1 DEF Begun
  <2>3. m \in [from : Node, id : 1 .. MaxMessages + MaxCalm, len : Lengths]
    <3>1. Len(sent[n]) + 1 <= MaxMessages + MaxCalm
      BY <1>1, <2>1, <2>2, SentMore
    <3>2. Len(sent[n]) \in Nat /\ MaxMessages + MaxCalm \in Nat
      BY <1>1, Now, BoundsAssumption
    <3>3. m.id \in 1 .. MaxMessages + MaxCalm
      BY <2>1, <3>1, <3>2
    <3>4. m = [from |-> m.from, id |-> m.id, len |-> m.len]
      BY DEF Message
    <3> QED BY <2>1, <3>3, <3>4
  <2>4. \A d \in Node :
          Wholes(sent'[Peer(d)], got[d]) = Wholes(sent[Peer(d)], got[d])
    <3>1. ASSUME NEW d \in Node
          PROVE  Wholes(sent'[Peer(d)], got[d]) = Wholes(sent[Peer(d)], got[d])
      <4>1. Peer(d) \in Node /\ sent[Peer(d)] \in Seq(Message)
        BY <1>2, PeerFacts
      <4>2. sent'[Peer(d)] = sent[Peer(d)]
            \/ sent'[Peer(d)] = Append(sent[Peer(d)], m)
        BY <1>2, <2>2, <4>1
      <4> QED BY <1>4, <4>1, <4>2, WholesKept
    <3> QED BY <3>1
  <2>5. Delivered' = Delivered
    BY <1>3, <2>2, <2>4, DeliveredIs
  <2>6. Channel!Submit(n, m)
    BY <2>2, <2>5 DEF Channel!Submit
  <2> QED BY <2>3, <2>6 DEF Channel!Next
<1>7. ASSUME NEW n \in Node, Arrives(n), UNCHANGED sent
      PROVE  Channel!Next
  <2>1. PICK s \in Seq(Message), g \in Seq(Buffer) :
          s = sent[Peer(n)] /\ g = got[n]
    BY <1>2, PeerFacts
  <2>2. PICK x \in Buffer, m \in Message :
          /\ got' = [got EXCEPT ![n] = Append(@, x)]
          /\ Sent(s, m) /\ m.id > LastGot(g)
          /\ x = [len |-> m.len, parts |-> Split(m)]
    BY <1>7, <2>1 DEF Arrives
  <2>3. Wholes(s, Append(g, x)) = Append(Wholes(s, g), m)
    BY <2>1, <2>2, WholesMore
  <2>4. Delivered' = [Delivered EXCEPT ![n] = Append(@, m)]
    <3>1. \A d \in Node : d # n => got'[d] = got[d]
      BY <1>2, <2>2
    <3>2. got'[n] = Append(g, x)
      BY <1>2, <2>1, <2>2
    <3>3. \A d \in Node : Wholes(sent'[Peer(d)], got'[d]) =
            IF d = n THEN Append(Wholes(s, g), m)
            ELSE Wholes(sent[Peer(d)], got[d])
      BY <1>7, <2>1, <2>3, <3>1, <3>2
    <3>4. Delivered[n] = Wholes(s, g)
      BY <2>1, DeliveredIs
    <3> QED BY <1>3, <3>3, <3>4, DeliveredIs
  <2>5. Channel!LastSeen(n) = LastGot(g)
    <3>1. Delivered[n] = Wholes(s, g)
      BY <2>1, DeliveredIs
    <3>2. LastGot(g) = IF Wholes(s, g) = <<>> THEN 0
                       ELSE Wholes(s, g)[Len(Wholes(s, g))].id
      BY <1>4, <2>1, LastIs
    <3> QED BY <3>1, <3>2 DEF Channel!LastSeen
  <2>6. PICK k : k = m.id /\ k \in LastGot(g) + 1 .. Len(s) /\ s[k] = m
    <3>1. LastGot(g) \in 0 .. Len(s)
      BY <1>1, <2>1 DEF Direction, OneWay, OrderInv
    <3>2. m.id \in 1 .. Len(s) /\ s[m.id] = m /\ Len(s) \in Nat
      BY <2>2 DEF Sent
    <3> QED BY <2>2, <3>1, <3>2
  <2>7. Channel!Deliver(n)
    BY <1>7, <2>1, <2>4, <2>5, <2>6 DEF Channel!Deliver
  <2> QED BY <2>7 DEF Channel!Next
<1> QED BY <1>5, <1>6, <1>7

\* Two endpoints are a message channel in each direction: Receive returns
\* messages of the peer in the order in which they were begun and none of
\* them twice, whatever was given up in between.
THEOREM Refinement ==
  ASSUME StraysAreFrames, StraysArePlain
  PROVE  Spec /\ Faultless => ImplementsMessageChannel
<1>1. Init => Channel!Init
  <2>1. SUFFICES ASSUME Init PROVE Channel!Init
    OBVIOUS
  <2>2. sent = [n \in Node |-> <<>>] /\ got = [n \in Node |-> <<>>]
    BY <2>1 DEF Init
  <2>3. Delivered = [n \in Node |-> <<>>]
    <3>1. \A s : Wholes(s, <<>>) = <<>>
      BY DEF Wholes
    <3> QED BY <2>2, <3>1, DeliveredIs
  <2> QED BY <2>2, <2>3 DEF Channel!Init
<1>2. IInv /\ Faultless /\ [Next]_vars
        => [Channel!Next]_<<sent, Delivered>>
  <2>1. SUFFICES ASSUME IInv, Faultless, [Next]_vars
                 PROVE  Channel!Next \/ UNCHANGED <<sent, Delivered>>
    OBVIOUS
  <2>2. CASE Next
    BY <2>1, <2>2, Step, ChannelStep
  <2>3. CASE UNCHANGED vars
    <3>1. UNCHANGED <<sent, got>>
      BY <2>3 DEF vars
    <3> QED BY <2>1, <3>1, ChannelStep
  <2> QED BY <2>1, <2>2, <2>3
<1>3. Faultless /\ [Next]_vars => Faultless'
  BY FaultlessStays
<1> QED BY <1>1, <1>2, <1>3, Inductive, PTL
        DEF Spec, ImplementsMessageChannel, Channel!Spec


-----------------------------------------------------------------------------
(* Blocks                                                                  *)

Grant == FlowControl("continue", BlockSize)

\* A first frame in the inbox q is the last one there, and its sender, at j
\* and w, waits for the answer to it.
FirstsWait(q, j, w) ==
  \A k \in 1 .. Len(q) :
    q[k].pci = "FF" =>
      /\ k = Len(q) /\ w = "waitFC" /\ q[k].msg = j.msg
      /\ ~q[k].short /\ q[k].len > SFMax

\* There is at most one flow control frame on its way back, in o, and then
\* nothing on its way to the receiver r.
Granted(q, o, r, w) ==
  \A k \in 1 .. Len(o) :
    o[k].pci = "FC" =>
      /\ o[k] = Grant /\ \A l \in 1 .. Len(o) : o[l].pci = "FC" => l = k
      /\ w = "waitFC" /\ r.active /\ r.inBlock = 0 /\ Len(q) = 0

\* The sender is still at work on the message that r has begun: what r
\* counted and what is queued is what the sender counted.
UnderWay(q, r, j, w) ==
  /\ w \in {"waitFC", "block"} /\ r.parts[1].msg = j.msg
  /\ \A k \in 1 .. Len(q) : q[k].pci = "CF"
  /\ r.inBlock + Len(q) <= BlockSize
  /\ w = "block" => r.inBlock + Len(q) = j.i

\* The frame that completes it is queued, behind it no frame of a block.
Queued(q, r, w) ==
  /\ w # "block"
  /\ \E t \in 1 .. Len(q) :
       /\ \A k \in 1 .. Len(q) : q[k].pci = "CF" <=> k <= t
       /\ q[t].msg = r.parts[1].msg /\ q[t].off + CFData >= q[t].msg.len
       /\ r.inBlock + t <= BlockSize

Counted(q, r, j, w) ==
  r.active => /\ r.inBlock < BlockSize
              /\ UnderWay(q, r, j, w) \/ Queued(q, r, w)

\* Inbox q with Receiver r, whose flow control frames go to o; the sender is
\* at w in its job j.
FlowOf(q, o, r, j, w) ==
  /\ FirstsWait(q, j, w) /\ Granted(q, o, r, w)
  /\ w = "block" => j.bs = BlockSize /\ j.i < BlockSize
  /\ Counted(q, r, j, w)

Flow(n) == LET p == Peer(n)
           IN FlowOf(inbox[n], inbox[p], rx[n], job[p], pc[p])

FlowInv == IInv /\ \A n \in Node : Flow(n)

\* A message begins.
LEMMA FlowBegins ==
  ASSUME NEW q \in Seq(Frame), NEW o, NEW r, NEW j, NEW k,
         FlowOf(q, o, r, j, "idle"), NEW f \in Frame
  PROVE  LET q2 == Append(q, f)
         IN /\ f.pci = "SF" => FlowOf(q2, o, r, j, "idle")
            /\ f.pci = "FF" /\ ~f.short /\ f.len > SFMax /\ f.msg = k.msg
                 => FlowOf(q2, o, r, k, "waitFC")
<1>1. PICK q2 : q2 = Append(q, f)
  OBVIOUS
<1>2. /\ Len(q2) = Len(q) + 1 /\ q2[Len(q) + 1] = f /\ Len(q) \in Nat
      /\ \A i \in 1 .. Len(q) : q2[i] = q[i]
      /\ \A i \in 1 .. Len(q) + 1 : i \in 1 .. Len(q) \/ i = Len(q) + 1
  BY <1>1, AppendIs
<1>3. \A i \in 1 .. Len(q) : q[i].pci # "FF"
  BY DEF FlowOf, FirstsWait
<1>4. \A i \in 1 .. Len(o) : o[i].pci # "FC"
  BY DEF FlowOf, Granted
<1>5. r.active => r.inBlock < BlockSize /\ Queued(q, r, "idle")
  BY DEF FlowOf, Counted, UnderWay
<1>6. ASSUME f.pci # "CF", NEW w \in {"idle", "waitFC"}, r.active
      PROVE  Queued(q2, r, w)
  <2>1. PICK t \in 1 .. Len(q) :
          /\ \A i \in 1 .. Len(q) : q[i].pci = "CF" <=> i <= t
          /\ q[t].msg = r.parts[1].msg
          /\ q[t].off + CFData >= q[t].msg.len
          /\ r.inBlock + t <= BlockSize
    BY <1>5, <1>6 DEF Queued
  <2>2. t \in 1 .. Len(q2) /\ q2[t] = q[t]
    BY <1>2
  <2>3. \A i \in 1 .. Len(q2) : q2[i].pci = "CF" <=> i <= t
    BY <1>2, <1>6, <2>1
  <2> QED BY <1>6, <2>1, <2>2, <2>3 DEF Queued
<1>7. CASE f.pci = "SF"
  <2>1. FirstsWait(q2, j, "idle")
    BY <1>2, <1>3, <1>7 DEF FirstsWait
  <2> QED BY <1>1, <1>4, <1>5, <1>6, <1>7, <2>1
          DEF FlowOf, Granted, Counted
<1>8. CASE f.pci = "FF" /\ ~f.short /\ f.len > SFMax /\ f.msg = k.msg
  <2>1. FirstsWait(q2, k, "waitFC")
    BY <1>2, <1>3, <1>8 DEF FirstsWait
  <2> QED BY <1>1, <1>4, <1>5, <1>6, <1>8, <2>1
          DEF FlowOf, Granted, Counted
<1> QED BY <1>1, <1>7, <1>8

\* A consecutive frame goes out, the last one or one of a block.
LEMMA FlowGoesOn ==
  ASSUME NEW q \in Seq(Frame), NEW o, NEW r, NEW j, NEW k,
         BlockSize > 0, j.i \in Nat, r.inBlock \in Nat,
         FlowOf(q, o, r, j, "block"), NEW f \in Frame, f.pci = "CF",
         f.msg = j.msg
  PROVE  LET q2 == Append(q, f)
         IN /\ f.off + CFData >= f.msg.len => FlowOf(q2, o, r, k, "idle")
            /\ k.msg = j.msg /\ k.bs = j.bs /\ k.i = j.i + 1 =>
                 FlowOf(q2, o, r, k,
                        IF BlockDone(j.i, j.bs) THEN "waitFC" ELSE "block")
<1>1. PICK q2 : q2 = Append(q, f)
  OBVIOUS
<1>2. /\ Len(q2) = Len(q) + 1 /\ q2[Len(q) + 1] = f /\ Len(q) \in Nat
      /\ \A i \in 1 .. Len(q) : q2[i] = q[i]
      /\ \A i \in 1 .. Len(q) + 1 : i \in 1 .. Len(q) \/ i = Len(q) + 1
  BY <1>1, AppendIs
<1>3. \A i \in 1 .. Len(q) : q[i].pci # "FF"
  BY DEF FlowOf, FirstsWait
<1>4. \A i \in 1 .. Len(o) : o[i].pci # "FC"
  BY DEF FlowOf, Granted
<1>5. /\ j.bs = BlockSize /\ j.i < BlockSize /\ BlockSize \in Nat
      /\ BlockDone(j.i, j.bs) <=> j.i + 1 = BlockSize
  BY BlockSizeAssumption DEF FlowOf, BlockDone
<1>6. r.active =>
        /\ r.inBlock < BlockSize /\ r.parts[1].msg = j.msg
        /\ \A i \in 1 .. Len(q) : q[i].pci = "CF"
        /\ r.inBlock + Len(q) = j.i
  BY DEF FlowOf, Counted, UnderWay, Queued
<1>7. \A w, l : FirstsWait(q2, l, w) /\ Granted(q2, o, r, w)
  BY <1>2, <1>3, <1>4 DEF FirstsWait, Granted
<1>8. \A i \in 1 .. Len(q2) : r.active => q2[i].pci = "CF"
  BY <1>2, <1>6
<1>9. r.active => r.inBlock + Len(q2) = j.i + 1
  BY <1>2, <1>6
<1>10. ASSUME f.off + CFData >= f.msg.len
       PROVE  FlowOf(q2, o, r, k, "idle")
  <2>1. r.active => Queued(q2, r, "idle")
    <3>1. SUFFICES ASSUME r.active PROVE Queued(q2, r, "idle")
      OBVIOUS
    <3>2. PICK t \in 1 .. Len(q2) : t = Len(q2) /\ q2[t] = f
      BY <1>2
    <3>3. \A i \in 1 .. Len(q2) : q2[i].pci = "CF" <=> i <= t
      BY <1>2, <1>8, <3>1, <3>2
    <3>4. r.inBlock + t <= BlockSize
      BY <1>5, <1>9, <3>1, <3>2
    <3> QED BY <1>6, <1>10, <3>1, <3>2, <3>3, <3>4 DEF Queued
  <2> QED BY <1>6, <1>7, <2>1 DEF FlowOf, Counted
<1>11. ASSUME k.msg = j.msg, k.bs = j.bs, k.i = j.i + 1
       PROVE  FlowOf(q2, o, r, k,
                     IF BlockDone(j.i, j.bs) THEN "waitFC" ELSE "block")
  <2>1. PICK w : w = IF BlockDone(j.i, j.bs) THEN "waitFC" ELSE "block"
    OBVIOUS
  <2>2. w = "block" => k.bs = BlockSize /\ k.i < BlockSize
    BY <1>5, <1>11, <2>1
  <2>3. r.active => UnderWay(q2, r, k, w)
    BY <1>5, <1>6, <1>8, <1>9, <1>11, <2>1 DEF UnderWay
  <2>4. FlowOf(q2, o, r, k, w)
    BY <1>6, <1>7, <2>2, <2>3 DEF FlowOf, Counted
  <2> QED BY <2>1, <2>4
<1> QED BY <1>1, <1>10, <1>11

\* The sender reads a frame: any, or the flow control frame it waits for.
LEMMA FlowRead ==
  ASSUME NEW q, Len(q) \in Nat, NEW o \in Seq(Frame), o # <<>>, NEW r,
         NEW j, NEW w, FlowOf(q, o, r, j, w)
  PROVE  /\ FlowOf(q, Tail(o), r, j, w)
         /\ o[1].pci = "FC" =>
              /\ o[1] = Grant
              /\ \A k : k.msg = j.msg /\ k.bs = BlockSize /\ k.i = 0
                          /\ BlockSize > 0 =>
                        FlowOf(q, Tail(o), r, k, "block")
<1>1. /\ Len(o) = Len(Tail(o)) + 1 /\ Len(Tail(o)) \in Nat
      /\ \A i \in 1 .. Len(Tail(o)) : Tail(o)[i] = o[i + 1]
  BY TailIs
<1>2. Granted(q, Tail(o), r, w)
  <2> SUFFICES ASSUME NEW i \in 1 .. Len(Tail(o)), Tail(o)[i].pci = "FC"
               PROVE  /\ Tail(o)[i] = Grant
                      /\ \A l \in 1 .. Len(Tail(o)) :
                           Tail(o)[l].pci = "FC" => l = i
                      /\ w = "waitFC" /\ r.active /\ r.inBlock = 0
                      /\ Len(q) = 0
    BY DEF Granted
  <2>1. i + 1 \in 1 .. Len(o) /\ o[i + 1].pci = "FC"
    BY <1>1
  <2>2. \A l \in 1 .. Len(Tail(o)) :
          l + 1 \in 1 .. Len(o) /\ o[l + 1] = Tail(o)[l]
    BY <1>1
  <2>3. \A l \in 1 .. Len(Tail(o)) :
          Tail(o)[l].pci = "FC" => l + 1 = i + 1
    BY <2>1, <2>2 DEF FlowOf, Granted
  <2> QED BY <1>1, <2>1, <2>3 DEF FlowOf, Granted
<1>3. FlowOf(q, Tail(o), r, j, w)
  BY <1>2 DEF FlowOf
<1>4. ASSUME o[1].pci = "FC"
      PROVE  /\ o[1] = Grant
             /\ \A k : k.msg = j.msg /\ k.bs = BlockSize /\ k.i = 0
                         /\ BlockSize > 0 =>
                       FlowOf(q, Tail(o), r, k, "block")
  <2>1. 1 \in 1 .. Len(o)
    BY <1>1
  <2>2. /\ o[1] = Grant /\ \A l \in 1 .. Len(o) : o[l].pci = "FC" => l = 1
        /\ w = "waitFC" /\ r.active /\ r.inBlock = 0 /\ Len(q) = 0
    BY <1>4, <2>1 DEF FlowOf, Granted
  <2>3. \A l \in 1 .. Len(Tail(o)) : Tail(o)[l].pci # "FC"
    BY <1>1, <2>2
  <2>4. r.parts[1].msg = j.msg
    BY <2>2 DEF FlowOf, Counted, UnderWay, Queued
  <2>5. ASSUME NEW k, k.msg = j.msg, k.bs = BlockSize, k.i = 0,
               BlockSize > 0
        PROVE  FlowOf(q, Tail(o), r, k, "block")
    <3>1. FirstsWait(q, k, "block") /\ Granted(q, Tail(o), r, "block")
      BY <2>2, <2>3 DEF FirstsWait, Granted
    <3>2. UnderWay(q, r, k, "block")
      BY <2>2, <2>4, <2>5, BlockSizeAssumption DEF UnderWay
    <3> QED BY <2>2, <2>5, <3>1, <3>2 DEF FlowOf, Counted
  <2> QED BY <2>2, <2>5
<1> QED BY <1>3, <1>4

\* What does not concern the frames of a block.
LEMMA FlowStays ==
  ASSUME NEW q \in Seq(Frame), NEW o \in Seq(Frame), NEW r, NEW j, NEW w,
         FlowOf(q, o, r, j, w)
  PROVE  /\ \A f \in Frame : f.pci # "FC" =>
                               FlowOf(q, Append(o, f), r, j, w)
         /\ \A b : ~r.active /\ ~b.active => FlowOf(q, o, b, j, w)
         /\ \A k, v : {v, w} \cap {"waitFC", "block"} = {} =>
                        FlowOf(q, o, r, k, v)
         /\ \A f \in Frame :
              f.pci = "FC" /\ w \notin {"waitFC", "block"} /\ ~r.active =>
                FlowOf(Append(q, f), o, r, j, w)
<1>1. \A f \in Frame :
        /\ Len(Append(o, f)) = Len(o) + 1 /\ Append(o, f)[Len(o) + 1] = f
        /\ \A i \in 1 .. Len(o) : Append(o, f)[i] = o[i]
        /\ \A i \in 1 .. Len(o) + 1 : i \in 1 .. Len(o) \/ i = Len(o) + 1
  BY AppendIs
<1>2. \A f \in Frame :
        /\ Len(Append(q, f)) = Len(q) + 1 /\ Append(q, f)[Len(q) + 1] = f
        /\ \A i \in 1 .. Len(q) : Append(q, f)[i] = q[i]
        /\ \A i \in 1 .. Len(q) + 1 : i \in 1 .. Len(q) \/ i = Len(q) + 1
  BY AppendIs
<1>3. ASSUME NEW f \in Frame, f.pci # "FC"
      PROVE  FlowOf(q, Append(o, f), r, j, w)
  <2>1. Granted(q, Append(o, f), r, w)
    <3>1. PICK u : u = Append(o, f)
      OBVIOUS
    <3>2. \A i \in 1 .. Len(u) :
            u[i].pci = "FC" => i \in 1 .. Len(o) /\ u[i] = o[i]
      BY <1>1, <1>3, <3>1
    <3>3. Granted(q, u, r, w)
      BY <3>2 DEF FlowOf, Granted
    <3> QED BY <3>1, <3>3
  <2> QED BY <2>1 DEF FlowOf
<1>4. ASSUME NEW b, ~r.active, ~b.active PROVE FlowOf(q, o, b, j, w)
  BY <1>4 DEF FlowOf, Granted, Counted
<1>5. ASSUME NEW k, NEW v, {v, w} \cap {"waitFC", "block"} = {}
      PROVE  FlowOf(q, o, r, k, v)
  <2>1. v \notin {"waitFC", "block"} /\ w \notin {"waitFC", "block"}
    BY <1>5
  <2>2. FirstsWait(q, k, v) /\ Granted(q, o, r, v)
    BY <2>1 DEF FlowOf, FirstsWait, Granted
  <2>3. Counted(q, r, k, v)
    BY <2>1 DEF FlowOf, Counted, UnderWay, Queued
  <2> QED BY <2>1, <2>2, <2>3 DEF FlowOf
<1>6. ASSUME NEW f \in Frame, f.pci = "FC", w \notin {"waitFC", "block"},
             ~r.active
      PROVE  FlowOf(Append(q, f), o, r, j, w)
  <2>1. FirstsWait(Append(q, f), j, w)
    <3>1. PICK u : u = Append(q, f)
      OBVIOUS
    <3>2. \A i \in 1 .. Len(u) :
            u[i].pci = "FF" => i \in 1 .. Len(q) /\ u[i] = q[i]
      BY <1>2, <1>6, <3>1
    <3>3. FirstsWait(u, j, w)
      BY <1>6, <3>2 DEF FlowOf, FirstsWait
    <3> QED BY <3>1, <3>3
  <2>2. Granted(Append(q, f), o, r, w)
    BY <1>6 DEF FlowOf, Granted
  <2> QED BY <1>6, <2>1, <2>2 DEF FlowOf, Counted
<1> QED BY <1>3, <1>4, <1>5, <1>6

\* The receiver reads a frame after which it is in no transfer.
LEMMA FlowDrops ==
  ASSUME NEW q \in Seq(Frame), q # <<>>, NEW o, NEW r, NEW j, NEW w,
         FlowOf(q, o, r, j, w), NEW b, ~b.active
  PROVE  FlowOf(Tail(q), o, b, j, w)
<1>1. PICK u : u = Tail(q)
  OBVIOUS
<1>2. /\ Len(q) = Len(u) + 1 /\ Len(u) \in Nat
      /\ \A i \in 1 .. Len(u) : u[i] = q[i + 1]
  BY <1>1, TailIs
<1>3. \A i \in 1 .. Len(o) : o[i].pci # "FC"
  BY <1>2 DEF FlowOf, Granted
<1>4. ASSUME NEW i \in 1 .. Len(u), u[i].pci = "FF"
      PROVE  /\ i = Len(u) /\ w = "waitFC" /\ u[i].msg = j.msg
             /\ ~u[i].short /\ u[i].len > SFMax
  <2>1. i + 1 \in 1 .. Len(q) /\ u[i] = q[i + 1]
    BY <1>2
  <2> QED BY <1>2, <1>4, <2>1 DEF FlowOf, FirstsWait
<1>5. FirstsWait(u, j, w) /\ Granted(u, o, b, w) /\ Counted(u, b, j, w)
  BY <1>3, <1>4 DEF FirstsWait, Granted, Counted
<1> QED BY <1>1, <1>5 DEF FlowOf

\* The receiver has a new flow control frame sent: the next block begins.
LEMMA FlowGrants ==
  ASSUME NEW q, Len(q) = 0, NEW o \in Seq(Frame), NEW r, NEW j,
         \A i \in 1 .. Len(o) : o[i].pci # "FC", Grant \in Frame,
         r.active, r.inBlock = 0, r.parts[1].msg = j.msg, BlockSize > 0
  PROVE  FlowOf(q, Append(o, Grant), r, j, "waitFC")
<1>1. PICK u : u = Append(o, Grant)
  OBVIOUS
<1>2. /\ Len(u) = Len(o) + 1 /\ u[Len(o) + 1] = Grant /\ Len(o) \in Nat
      /\ \A i \in 1 .. Len(o) : u[i] = o[i]
      /\ \A i \in 1 .. Len(o) + 1 : i \in 1 .. Len(o) \/ i = Len(o) + 1
  BY <1>1, AppendIs
<1>3. \A i \in 1 .. Len(u) : u[i].pci = "FC" => i = Len(o) + 1
  BY <1>2
<1>4. Granted(q, u, r, "waitFC")
  BY <1>2, <1>3 DEF Granted
<1>5. FirstsWait(q, j, "waitFC")
  BY DEF FirstsWait
<1>6. UnderWay(q, r, j, "waitFC")
  BY BlockSizeAssumption DEF UnderWay
<1> QED BY <1>1, <1>4, <1>5, <1>6 DEF FlowOf, Counted

\* The receiver takes a consecutive frame that is not the last.
LEMMA FlowTakes ==
  ASSUME NEW q \in Seq(Frame), q # <<>>, NEW o \in Seq(Frame), NEW r,
         NEW j, NEW w, BlockSize > 0, r.inBlock \in Nat, r.active,
         FlowOf(q, o, r, j, w), NEW b, b.active,
         q[1].pci = "CF", q[1].msg = r.parts[1].msg,
         q[1].off + CFData < q[1].msg.len,
         q[1].off \in Nat, q[1].msg.len \in Nat,
         b.parts[1].msg = r.parts[1].msg, Grant \in Frame
  PROVE  /\ r.inBlock + 1 # BlockSize /\ b.inBlock = r.inBlock + 1 =>
              FlowOf(Tail(q), o, b, j, w)
         /\ r.inBlock + 1 = BlockSize /\ b.inBlock = 0 =>
              FlowOf(Tail(q), Append(o, Grant), b, j, w)
<1>1. PICK u : u = Tail(q)
  OBVIOUS
<1>2. /\ Len(q) = Len(u) + 1 /\ Len(u) \in Nat
      /\ \A i \in 1 .. Len(u) : u[i] = q[i + 1]
  BY <1>1, TailIs
<1>3. \A i \in 1 .. Len(o) : o[i].pci # "FC"
  BY <1>2 DEF FlowOf, Granted
<1>4. FirstsWait(u, j, w)
  <2>1. ASSUME NEW i \in 1 .. Len(u), u[i].pci = "FF"
        PROVE  /\ i = Len(u) /\ w = "waitFC" /\ u[i].msg = j.msg
               /\ ~u[i].short /\ u[i].len > SFMax
    <3>1. i + 1 \in 1 .. Len(q) /\ u[i] = q[i + 1]
      BY <1>2
    <3> QED BY <1>2, <2>1, <3>1 DEF FlowOf, FirstsWait
  <2> QED BY <2>1 DEF FirstsWait
<1>5. BlockSize \in Nat /\ r.inBlock + 1 <= BlockSize
  BY BlockSizeAssumption DEF FlowOf, Counted
<1>6. CASE UnderWay(q, r, j, w)
  <2>1. /\ w \in {"waitFC", "block"} /\ b.parts[1].msg = j.msg
        /\ \A i \in 1 .. Len(u) : u[i].pci = "CF"
        /\ r.inBlock + 1 + Len(u) <= BlockSize
        /\ w = "block" => r.inBlock + 1 + Len(u) = j.i
    BY <1>2, <1>6 DEF UnderWay
  <2>2. ASSUME r.inBlock + 1 # BlockSize, b.inBlock = r.inBlock + 1
        PROVE  FlowOf(u, o, b, j, w)
    <3>1. UnderWay(u, b, j, w)
      BY <2>1, <2>2 DEF UnderWay
    <3>2. b.inBlock < BlockSize
      BY <1>5, <2>2
    <3> QED BY <1>3, <1>4, <3>1, <3>2 DEF FlowOf, Granted, Counted
  <2>3. ASSUME r.inBlock + 1 = BlockSize, b.inBlock = 0
        PROVE  FlowOf(u, Append(o, Grant), b, j, w)
    <3>1. Len(u) = 0
      BY <1>2, <1>5, <2>1, <2>3
    <3>2. w # "block"
      BY <2>1, <2>3, <3>1 DEF FlowOf
    <3>3. FlowOf(u, Append(o, Grant), b, j, "waitFC")
      BY <1>3, <2>1, <2>3, <3>1, FlowGrants
    <3> QED BY <2>1, <3>2, <3>3
  <2> QED BY <1>1, <2>2, <2>3
<1>7. CASE Queued(q, r, w)
  <2>1. PICK t \in 1 .. Len(q) :
          /\ \A i \in 1 .. Len(q) : q[i].pci = "CF" <=> i <= t
          /\ q[t].msg = r.parts[1].msg
          /\ q[t].off + CFData >= q[t].msg.len
          /\ r.inBlock + t <= BlockSize
    BY <1>7 DEF Queued
  <2>2. t # 1
    BY <2>1 DEF CFData
  <2>3. t - 1 \in 1 .. Len(u) /\ u[t - 1] = q[t]
    BY <1>2, <2>2
  <2>4. r.inBlock + 1 # BlockSize
    BY <1>5, <2>1, <2>2
  <2>5. ASSUME b.inBlock = r.inBlock + 1
        PROVE  FlowOf(u, o, b, j, w)
    <3>1. \A i \in 1 .. Len(u) : u[i].pci = "CF" <=> i <= t - 1
      <4>1. ASSUME NEW i \in 1 .. Len(u)
            PROVE  u[i].pci = "CF" <=> i <= t - 1
        <5>1. i + 1 \in 1 .. Len(q) /\ u[i] = q[i + 1]
          BY <1>2
        <5>2. q[i + 1].pci = "CF" <=> i + 1 <= t
          BY <2>1, <5>1
        <5> QED BY <5>1, <5>2
      <4> QED BY <4>1
    <3>2. b.inBlock + (t - 1) <= BlockSize
      BY <2>1, <2>5
    <3>3. Queued(u, b, w)
      BY <1>7, <2>1, <2>3, <3>1, <3>2 DEF Queued
    <3>4. b.inBlock < BlockSize
      BY <1>5, <2>4, <2>5
    <3> QED BY <1>3, <1>4, <1>7, <3>3, <3>4
            DEF FlowOf, Granted, Counted, Queued
  <2> QED BY <1>1, <2>4, <2>5
<1> QED BY <1>6, <1>7 DEF FlowOf, Counted

\* What Feed does to the count and when it has a flow control frame sent.
LEMMA FeedCounts ==
  ASSUME NEW s, NEW r, Receivers(r), NEW f \in Frame, BlockSize > 0,
         r.active /\ f.pci = "CF" => Holding(s, r) /\ Holds(r, f.msg, f.off)
  PROVE  LET fed == Feed(r, f)
         IN /\ f.pci = "SF" => ~fed.r.active /\ fed.fc = NoFrame
            /\ f.pci = "FF" /\ ~f.short /\ f.len > SFMax =>
                 /\ fed.err = "nil" /\ fed.msg = NoMessage /\ fed.fc = Grant
                 /\ fed.r.active /\ fed.r.inBlock = 0
                 /\ fed.r.parts[1].msg = f.msg
            /\ f.pci = "CF" =>
                 \/ ~fed.r.active /\ fed.fc = NoFrame
                 \/ /\ fed.err = "nil" /\ fed.msg = NoMessage
                    /\ r.active /\ fed.r.active
                    /\ fed.r.parts[1].msg = r.parts[1].msg
                    /\ f.off + CFData < f.msg.len
                    /\ \/ /\ r.inBlock + 1 # BlockSize /\ fed.fc = NoFrame
                          /\ fed.r.inBlock = r.inBlock + 1
                       \/ /\ r.inBlock + 1 = BlockSize /\ fed.fc = Grant
                          /\ fed.r.inBlock = 0
<1>1. CASE f.pci = "SF"
  <2>1. \/ Feed(r, f) = Failed(NoFrame, "invalid")
        \/ \E m : Feed(r, f) = Fed(NewReceiver, NoFrame, m, "nil")
    BY <1>1 DEF Feed, FeedSingle
  <2> QED BY <1>1, <2>1, NewReceiverIs DEF Failed, Fed
<1>2. CASE f.pci = "FF"
  <2> SUFFICES ASSUME ~f.short, f.len > SFMax
               PROVE  LET fed == Feed(r, f)
                      IN /\ fed.err = "nil" /\ fed.msg = NoMessage
                         /\ fed.fc = Grant
                         /\ fed.r.active /\ fed.r.inBlock = 0
                         /\ fed.r.parts[1].msg = f.msg
    BY <1>2
  <2>1. f.len \in Nat
    BY <1>2 DEF Frame
  <2>2. f.len # 0 /\ ~(f.len < FrameLen)
    BY <2>1 DEF SFMax, FrameLen
  <2>3. PICK b : b = [active |-> TRUE, want |-> f.len, got |-> FFData,
                      parts |-> <<Part(f.msg, 0, FFData)>>, seq |-> 1,
                      inBlock |-> 0]
    OBVIOUS
  <2>4. Feed(r, f) = Fed(b, Grant, NoMessage, "nil")
    BY <1>2, <2>2, <2>3 DEF Feed, FeedFirst, Grant
  <2>5. b.parts[1].msg = f.msg /\ b.active /\ b.inBlock = 0
    BY <2>3 DEF Part
  <2> QED BY <2>4, <2>5 DEF Fed
<1>3. CASE f.pci = "CF"
  <2>1. Feed(r, f) = FeedConsecutive(r, f)
    BY <1>3 DEF Feed
  <2>2. CASE ~r.active
    BY <1>3, <2>1, <2>2 DEF FeedConsecutive, Ignore, Fed
  <2>3. CASE ~InSequence(r, f) /\ r.active
    BY <1>3, <2>1, <2>3, NewReceiverIs DEF FeedConsecutive, Failed, Fed
  <2>4. CASE r.active /\ InSequence(r, f)
    <3>1. /\ r \in Rx /\ r.got = f.off /\ r.want = f.msg.len
          /\ r.got \in Nat /\ r.want \in Nat /\ r.inBlock \in Nat
          /\ r.parts \in Seq(PartSet) /\ Len(r.parts) > 0
      BY <1>3, <2>4 DEF Receivers, Rx, Holding, Holds
    <3>2. PICK take : take = Lesser(r.want - r.got, CFData)
      OBVIOUS
    <3>3. PICK parts : parts = Append(r.parts, Part(f.msg, f.off, take))
      OBVIOUS
    <3>4. parts[1] = r.parts[1]
      BY <3>1, <3>3
    <3>5. PICK next : next = [r EXCEPT !.got = r.got + take, !.parts = parts,
                                       !.seq = (r.seq + 1) % SeqNumbers,
                                       !.inBlock = InBlockAfter(r)]
      OBVIOUS
    <3>6. Feed(r, f) =
            IF r.got + take >= r.want
            THEN Fed(NewReceiver, NoFrame, [len |-> r.want, parts |-> parts],
                     "nil")
            ELSE IF BlockSize > 0 /\ next.inBlock = 0
            THEN Fed(next, Grant, NoMessage, "nil")
            ELSE Ignore(next)
      BY <2>1, <2>4, <3>2, <3>3, <3>5 DEF FeedConsecutive, Grant
    <3>7. /\ next.active /\ next.parts = parts
          /\ next.inBlock = InBlockAfter(r)
      BY <2>4, <3>1, <3>5 DEF Rx
    <3>8. CASE r.got + take >= r.want
      BY <1>3, <3>6, <3>8, NewReceiverIs DEF Fed
    <3>9. CASE ~(r.got + take >= r.want)
      <4>1. f.off + CFData < f.msg.len
        BY <3>1, <3>2, <3>9 DEF Lesser, CFData
      <4>2. CASE r.inBlock + 1 = BlockSize
        <5>1. next.inBlock = 0
          BY <3>7, <4>2 DEF InBlockAfter
        <5>2. Feed(r, f) = Fed(next, Grant, NoMessage, "nil")
          BY <3>6, <3>9, <5>1
        <5> QED BY <1>3, <2>4, <3>4, <3>7, <4>1, <4>2, <5>1, <5>2 DEF Fed
      <4>3. CASE r.inBlock + 1 # BlockSize
        <5>1. next.inBlock = r.inBlock + 1 /\ next.inBlock # 0
          BY <3>1, <3>7, <4>3 DEF InBlockAfter
        <5>2. Feed(r, f) = Fed(next, NoFrame, NoMessage, "nil")
          BY <3>6, <3>9, <5>1 DEF Ignore
        <5> QED BY <1>3, <2>4, <3>4, <3>7, <4>1, <4>3, <5>1, <5>2 DEF Fed
      <4> QED BY <4>2, <4>3
    <3> QED BY <3>8, <3>9
  <2> QED BY <2>2, <2>3, <2>4
<1> QED BY <1>1, <1>2, <1>3

LEMMA GrantIs == Grant \in Frame /\ Grant.pci = "FC"
                   /\ Grant.status = "continue" /\ Grant.bs = BlockSize
BY ControlFrames DEF Grant, Control, FlowControl

LEMMA FlowIs ==
  ASSUME FlowInv, NEW n \in Node
  PROVE  /\ TypeInv /\ Peer(n) \in Node /\ Peer(n) # n /\ Peer(Peer(n)) = n
         /\ inbox[n] \in Seq(Frame) /\ inbox[Peer(n)] \in Seq(Frame)
         /\ Len(inbox[n]) \in Nat /\ Receivers(rx[n])
         /\ rx[n].active => pc[n] = "receive"
         /\ job[n] \in Job /\ job[n].i \in Nat /\ rx[n].inBlock \in Nat
         /\ FlowOf(inbox[n], inbox[Peer(n)], rx[n], job[Peer(n)],
                   pc[Peer(n)])
         /\ FlowOf(inbox[Peer(n)], inbox[n], rx[Peer(n)], job[n], pc[n])
<1>1. TypeInv /\ Direction(n) /\ Flow(n) /\ Peer(n) \in Node
        /\ Peer(Peer(n)) = n /\ Peer(n) # n
  BY PeerFacts DEF FlowInv, IInv
<1>2. Flow(Peer(n))
  BY <1>1 DEF FlowInv
<1>3. inbox[n] \in Seq(Frame) /\ Receivers(rx[n]) /\ job[n] \in Job
        /\ inbox[Peer(n)] \in Seq(Frame)
  BY <1>1, Now, TypeParts
<1>4. rx[n].inBlock \in Nat /\ job[n].i \in Nat
  BY <1>3 DEF Receivers, Rx, Job
<1> QED BY <1>1, <1>2, <1>3, <1>4 DEF Direction, Flow

\* The two directions after a step of n.
LEMMA FlowBoth ==
  ASSUME NEW n \in Node, NEW p, p = Peer(n),
         FlowOf(inbox'[n], inbox'[p], rx'[n], job'[p], pc'[p]),
         FlowOf(inbox'[p], inbox'[n], rx'[p], job'[n], pc'[n])
  PROVE  \A d \in Node : Flow(d)'
BY PeerFacts DEF Flow

LEMMA FlowSend ==
  ASSUME FlowInv, BlockSize > 0, NEW n \in Node, NEW len \in Lengths,
         SendSingle(n, len) \/ SendFirst(n, len)
  PROVE  \A d \in Node : Flow(d)'
<1>1. PICK p \in Node : p = Peer(n) /\ p # n /\ Peer(p) = n
  BY PeerFacts
<1>2. /\ TypeInv /\ inbox[n] \in Seq(Frame) /\ inbox[p] \in Seq(Frame)
      /\ job[n] \in Job /\ job \in [Node -> Job] /\ PcOK
      /\ FlowOf(inbox[n], inbox[p], rx[n], job[p], pc[p])
      /\ FlowOf(inbox[p], inbox[n], rx[p], job[n], pc[n])
  BY <1>1, FlowIs, TypeParts
<1>3. PICK m : m = NewMessage(n, len)
  OBVIOUS
<1>4. SingleFrame(m, len) \in Frame /\ FirstFrame(m, len, FALSE) \in Frame
  BY <1>2, <1>3, Begins
<1>5. pc[n] = "idle"
  BY DEF SendSingle, SendFirst, MaySend
<1>6. CASE SendSingle(n, len)
  <2>1. PICK f \in Frame : f = SingleFrame(m, len) /\ f.pci = "SF"
    BY <1>4 DEF SingleFrame
  <2>2. /\ inbox' = [inbox EXCEPT ![p] = Append(@, f)]
        /\ UNCHANGED <<pc, job, rx>>
    BY <1>1, <1>3, <1>6, <2>1 DEF SendSingle, Transmit
  <2>3. inbox'[p] = Append(inbox[p], f) /\ inbox'[n] = inbox[n]
    BY <1>1, <1>2, <2>2, InboxMore
  <2>4. FlowOf(inbox'[p], inbox[n], rx[p], job[n], pc[n])
    BY <1>2, <1>5, <2>1, <2>3, FlowBegins
  <2>5. FlowOf(inbox[n], inbox'[p], rx[n], job[p], pc[p])
    BY <1>2, <2>1, <2>3, FlowStays
  <2> QED BY <1>1, <2>2, <2>3, <2>4, <2>5, FlowBoth
<1>7. CASE SendFirst(n, len)
  <2>1. PICK f \in Frame : f = FirstFrame(m, len, FALSE)
    BY <1>4
  <2>2. f.pci = "FF" /\ ~f.short /\ f.len > SFMax /\ f.msg = m
    BY <1>7, <2>1 DEF SendFirst, FirstFrame
  <2>3. PICK k : k = [msg |-> m, off |-> FFData, seq |-> 1, bs |-> 0,
                      i |-> 0, waits |-> 0]
    OBVIOUS
  <2>4. /\ inbox' = [inbox EXCEPT ![p] = Append(@, f)]
        /\ job' = [job EXCEPT ![n] = k]
        /\ pc' = [pc EXCEPT ![n] = "waitFC"]
        /\ UNCHANGED rx
    BY <1>1, <1>3, <1>7, <2>1, <2>3 DEF SendFirst, Transmit
  <2>5. inbox'[p] = Append(inbox[p], f) /\ inbox'[n] = inbox[n]
    BY <1>1, <1>2, <2>4, InboxMore
  <2>6. job'[n] = k /\ pc'[n] = "waitFC" /\ job'[p] = job[p]
        /\ pc'[p] = pc[p] /\ k.msg = m
    BY <1>1, <1>2, <2>3, <2>4 DEF PcOK
  <2>7. FlowOf(inbox'[p], inbox[n], rx[p], k, "waitFC")
    BY <1>2, <1>5, <2>2, <2>5, <2>6, FlowBegins
  <2>8. FlowOf(inbox[n], inbox'[p], rx[n], job[p], pc[p])
    BY <1>2, <2>2, <2>5, FlowStays
  <2> QED BY <1>1, <2>4, <2>5, <2>6, <2>7, <2>8, FlowBoth
<1> QED BY <1>6, <1>7

LEMMA FlowConsecutive ==
  ASSUME FlowInv, BlockSize > 0, NEW n \in Node, SendConsecutive(n)
  PROVE  \A d \in Node : Flow(d)'
<1>1. PICK p \in Node : p = Peer(n) /\ p # n /\ Peer(p) = n
  BY PeerFacts
<1>2. /\ TypeInv /\ inbox[n] \in Seq(Frame) /\ inbox[p] \in Seq(Frame)
      /\ job[n] \in Job /\ job \in [Node -> Job] /\ PcOK
      /\ rx[p].inBlock \in Nat /\ job[n].i \in Nat
      /\ (rx[n].active => pc[n] = "receive")
      /\ FlowOf(inbox[n], inbox[p], rx[n], job[p], pc[p])
      /\ FlowOf(inbox[p], inbox[n], rx[p], job[n], pc[n])
  BY <1>1, FlowIs, TypeParts
<1>3. PICK f : f = ConsecutiveFrame(job[n].msg, job[n].off, job[n].seq)
  OBVIOUS
<1>4. f \in Frame /\ f.pci = "CF" /\ f.msg = job[n].msg
      /\ f.off = job[n].off
  BY <1>2, <1>3, ConsecutiveIs DEF ConsecutiveFrame
<1>5. PICK end : end = Lesser(job[n].off + CFData, job[n].msg.len)
  OBVIOUS
<1>6. /\ pc[n] = "block"
      /\ inbox' = [inbox EXCEPT ![p] = Append(@, f)]
      /\ \/ end = job[n].msg.len /\ Return(n)
         \/ /\ job' = [job EXCEPT ![n].off = end, ![n].seq = NextSeq(@),
                                  ![n].i = @ + 1]
            /\ pc' = [pc EXCEPT ![n] = IF BlockDone(job[n].i, job[n].bs)
                                       THEN "waitFC" ELSE "block"]
            /\ UNCHANGED rx
  BY <1>1, <1>3, <1>5 DEF SendConsecutive, Transmit
<1>7. inbox'[p] = Append(inbox[p], f) /\ inbox'[n] = inbox[n]
  BY <1>1, <1>2, <1>4, <1>6, InboxMore
<1>8. ~rx[n].active
  BY <1>2, <1>6
<1>9. FlowOf(inbox[n], inbox'[p], rx[n], job[p], pc[p])
  BY <1>2, <1>4, <1>7, FlowStays
<1>10. PICK k : k = job'[n]
  OBVIOUS
<1>11. /\ f.off + CFData >= f.msg.len =>
            FlowOf(Append(inbox[p], f), inbox[n], rx[p], k, "idle")
       /\ k.msg = job[n].msg /\ k.bs = job[n].bs /\ k.i = job[n].i + 1 =>
            FlowOf(Append(inbox[p], f), inbox[n], rx[p], k,
                   IF BlockDone(job[n].i, job[n].bs) THEN "waitFC"
                   ELSE "block")
  <2>1. FlowOf(inbox[p], inbox[n], rx[p], job[n], "block")
    BY <1>2, <1>6
  <2> QED BY <1>2, <1>4, <2>1, FlowGoesOn
<1>12. CASE end = job[n].msg.len /\ Return(n)
  <2>1. f.off + CFData >= f.msg.len
    <3>1. job[n].off \in Nat /\ job[n].msg.len \in Nat
      BY <1>2, ConsecutiveIs
    <3> QED BY <1>4, <1>5, <1>12, <3>1 DEF Lesser, CFData
  <2>2. FlowOf(inbox'[p], inbox[n], rx[p], job'[n], "idle")
    BY <1>7, <1>10, <1>11, <2>1
  <2>3. pc'[n] = "idle" /\ ~rx'[n].active /\ rx'[p] = rx[p]
        /\ pc'[p] = pc[p] /\ job'[p] = job[p]
    BY <1>1, <1>2, <1>12, Returned DEF Return, PcOK
  <2>4. inbox'[p] \in Seq(Frame)
    BY <1>2, <1>4, <1>7, AppendProperties
  <2>5. FlowOf(inbox[n], inbox'[p], rx'[n], job[p], pc[p])
    BY <1>2, <1>8, <1>9, <2>3, <2>4, FlowStays
  <2> QED BY <1>1, <1>7, <2>2, <2>3, <2>5, FlowBoth
<1>13. CASE /\ job' = [job EXCEPT ![n].off = end, ![n].seq = NextSeq(@),
                                  ![n].i = @ + 1]
            /\ pc' = [pc EXCEPT ![n] = IF BlockDone(job[n].i, job[n].bs)
                                       THEN "waitFC" ELSE "block"]
            /\ UNCHANGED rx
  <2>1. /\ job'[n].msg = job[n].msg /\ job'[n].bs = job[n].bs
        /\ job'[n].i = job[n].i + 1 /\ job'[p] = job[p]
    BY <1>1, <1>2, <1>13 DEF Job
  <2>2. pc'[n] = (IF BlockDone(job[n].i, job[n].bs) THEN "waitFC"
                  ELSE "block") /\ pc'[p] = pc[p]
    BY <1>1, <1>2, <1>13 DEF PcOK
  <2>3. FlowOf(inbox'[p], inbox[n], rx[p], job'[n], pc'[n])
    BY <1>7, <1>10, <1>11, <2>1, <2>2
  <2> QED BY <1>1, <1>7, <1>9, <1>13, <2>1, <2>2, <2>3, FlowBoth
<1> QED BY <1>6, <1>12, <1>13

LEMMA FlowReads ==
  ASSUME FlowInv, BlockSize > 0, NEW n \in Node, ReadFlowControl(n)
  PROVE  \A d \in Node : Flow(d)'
<1>1. PICK p \in Node : p = Peer(n) /\ p # n /\ Peer(p) = n
  BY PeerFacts
<1>2. /\ TypeInv /\ inbox[n] \in Seq(Frame) /\ inbox[p] \in Seq(Frame)
      /\ job[n] \in Job /\ job \in [Node -> Job] /\ PcOK
      /\ (rx[n].active => pc[n] = "receive") /\ Len(inbox[p]) \in Nat
      /\ FlowOf(inbox[n], inbox[p], rx[n], job[p], pc[p])
      /\ FlowOf(inbox[p], inbox[n], rx[p], job[n], pc[n])
  BY <1>1, FlowIs, TypeParts
<1>3. /\ pc[n] = "waitFC" /\ inbox[n] # <<>>
      /\ inbox' = [inbox EXCEPT ![n] = Tail(@)]
  BY DEF ReadFlowControl
<1>4. /\ inbox'[n] = Tail(inbox[n]) /\ inbox'[p] = inbox[p]
      /\ Head(inbox[n]) = inbox[n][1]
  BY <1>1, <1>2, <1>3, InboxLess
<1>5. PICK f : f = inbox[n][1]
  OBVIOUS
<1>6. /\ FlowOf(inbox[p], Tail(inbox[n]), rx[p], job[n], pc[n])
      /\ f.pci = "FC" =>
           /\ f = Grant
           /\ \A k : k.msg = job[n].msg /\ k.bs = BlockSize /\ k.i = 0 =>
                     FlowOf(inbox[p], Tail(inbox[n]), rx[p], k, "block")
  BY <1>2, <1>3, <1>5, FlowRead
<1>7. \/ f.pci # "FC" /\ UNCHANGED <<pc, job, rx>>
      \/ /\ f.pci = "FC" /\ UNCHANGED rx
         /\ job' = [job EXCEPT ![n].bs = f.bs, ![n].i = 0, ![n].waits = 0]
         /\ pc' = [pc EXCEPT ![n] = "block"]
  BY <1>4, <1>5, <1>6, GrantIs DEF ReadFlowControl
<1>8. UNCHANGED rx /\ ~rx[n].active
  BY <1>2, <1>3, <1>7
<1>9. FlowOf(inbox'[n], inbox[p], rx[n], job[p], pc[p])
  BY <1>2, <1>3, <1>4, <1>8, FlowDrops
<1>10. CASE f.pci # "FC" /\ UNCHANGED <<pc, job, rx>>
  BY <1>1, <1>4, <1>6, <1>8, <1>9, <1>10, FlowBoth
<1>11. CASE /\ f.pci = "FC" /\ UNCHANGED rx
            /\ job' = [job EXCEPT ![n].bs = f.bs, ![n].i = 0,
                                  ![n].waits = 0]
            /\ pc' = [pc EXCEPT ![n] = "block"]
  <2>1. /\ job'[n].msg = job[n].msg /\ job'[n].bs = f.bs
        /\ job'[n].i = 0 /\ job'[p] = job[p]
    BY <1>1, <1>2, <1>11 DEF Job
  <2>2. pc'[n] = "block" /\ pc'[p] = pc[p]
    BY <1>1, <1>2, <1>11 DEF PcOK
  <2>3. f.bs = BlockSize
    BY <1>6, <1>11, GrantIs
  <2>4. PICK k : k = job'[n]
    OBVIOUS
  <2>5. FlowOf(inbox[p], Tail(inbox[n]), rx[p], k, "block")
    BY <1>6, <1>11, <2>1, <2>3, <2>4
  <2> QED BY <1>1, <1>4, <1>8, <1>9, <2>1, <2>2, <2>4, <2>5, FlowBoth
<1> QED BY <1>7, <1>10, <1>11

\* How a frame that is received changes what the receiver counts.
LEMMA FlowFed ==
  ASSUME FlowInv, BlockSize > 0, NEW n \in Node, NEW p \in Node,
         p = Peer(n), pc[n] = "receive", inbox[n] # <<>>
  PROVE  LET fed == Feed(rx[n], inbox[n][1])
             rest == Tail(inbox[n])
         IN \/ /\ fed.fc = NoFrame /\ ~fed.r.active
               /\ \A b : ~b.active =>
                         FlowOf(rest, inbox[p], b, job[p], pc[p])
            \/ /\ fed.fc = NoFrame /\ fed.err = "nil" /\ fed.msg = NoMessage
               /\ FlowOf(rest, inbox[p], fed.r, job[p], pc[p])
            \/ /\ fed.fc = Grant /\ fed.err = "nil" /\ fed.msg = NoMessage
               /\ pc[p] = "waitFC"
               /\ FlowOf(rest, Append(inbox[p], Grant), fed.r, job[p], pc[p])
<1>1. PICK q, o, r, j, w : /\ q = inbox[n] /\ o = inbox[p] /\ r = rx[n]
                           /\ j = job[p] /\ w = pc[p]
  OBVIOUS
<1>2. /\ TypeInv /\ q \in Seq(Frame) /\ o \in Seq(Frame) /\ q # <<>>
      /\ r.inBlock \in Nat /\ Receivers(r) /\ Len(q) \in Nat
      /\ FlowOf(q, o, r, j, w)
      /\ FlowOf(o, q, rx[p], job[n], pc[n])
  BY <1>1, FlowIs
<1>3. PICK s : s = sent[p]
  OBVIOUS
<1>4. OneWay(q, r, s, got[n])
  BY <1>1, <1>3 DEF FlowInv, IInv, Direction
<1>5. /\ Len(q) = Len(Tail(q)) + 1 /\ Len(Tail(q)) \in Nat
      /\ 1 \in 1 .. Len(q) /\ q[1] \in Frame
  BY <1>2, TailIs
<1>6. PICK f \in Frame : f = q[1]
  BY <1>5
<1>7. PICK fed : fed = Feed(r, f)
  OBVIOUS
<1>8. \A i \in 1 .. Len(o) : o[i].pci # "FC"
  BY <1>2, <1>5 DEF FlowOf, Granted
<1>9. \A b : ~b.active => FlowOf(Tail(q), o, b, j, w)
  BY <1>2, FlowDrops
<1>10. ASSUME f.pci = "CF" PROVE Middle(s, f)
  <2>1. Plain(q[1]) \/ Start(s, q[1]) \/ Middle(s, q[1])
    BY <1>4, <1>5 DEF OneWay, FramesInv
  <2> QED BY <1>6, <1>10, <2>1 DEF Plain, Start
<1>11. ASSUME f.pci = "CF", r.active
       PROVE  Holding(s, r) /\ Holds(r, f.msg, f.off)
  <2>1. Holding(s, r)
    BY <1>4, <1>11 DEF OneWay
  <2>2. ~Plain(q[1]) /\ ~Start(s, q[1])
    BY <1>6, <1>11 DEF Plain, Start
  <2>3. Follows(q, r, 1, q[1].msg, q[1].off)
    BY <1>4, <1>5, <2>2 DEF OneWay, FramesInv
  <2>4. \A i \in 1 .. 1 - 1 : FALSE
    OBVIOUS
  <2>5. Holds(r, q[1].msg, q[1].off)
    BY <1>11, <2>3, <2>4 DEF Follows
  <2> QED BY <1>6, <2>1, <2>5
<1>12. /\ f.pci = "SF" => ~fed.r.active /\ fed.fc = NoFrame
       /\ f.pci = "FF" /\ ~f.short /\ f.len > SFMax =>
            /\ fed.err = "nil" /\ fed.msg = NoMessage /\ fed.fc = Grant
            /\ fed.r.active /\ fed.r.inBlock = 0
            /\ fed.r.parts[1].msg = f.msg
       /\ f.pci = "CF" =>
            \/ ~fed.r.active /\ fed.fc = NoFrame
            \/ /\ fed.err = "nil" /\ fed.msg = NoMessage
               /\ r.active /\ fed.r.active
               /\ fed.r.parts[1].msg = r.parts[1].msg
               /\ f.off + CFData < f.msg.len
               /\ \/ /\ r.inBlock + 1 # BlockSize /\ fed.fc = NoFrame
                     /\ fed.r.inBlock = r.inBlock + 1
                  \/ /\ r.inBlock + 1 = BlockSize /\ fed.fc = Grant
                     /\ fed.r.inBlock = 0
  BY <1>2, <1>7, <1>11, FeedCounts
<1> DEFINE Goal ==
      \/ /\ fed.fc = NoFrame /\ ~fed.r.active
         /\ \A b : ~b.active => FlowOf(Tail(q), o, b, j, w)
      \/ /\ fed.fc = NoFrame /\ fed.err = "nil" /\ fed.msg = NoMessage
         /\ FlowOf(Tail(q), o, fed.r, j, w)
      \/ /\ fed.fc = Grant /\ fed.err = "nil" /\ fed.msg = NoMessage
         /\ w = "waitFC"
         /\ FlowOf(Tail(q), Append(o, Grant), fed.r, j, w)
<1>13. ASSUME f.pci = "SF" PROVE Goal
  BY <1>9, <1>12, <1>13
<1>14. ASSUME f.pci = "FF" PROVE Goal
  <2>1. /\ Len(q) = 1 /\ w = "waitFC" /\ f.msg = j.msg
        /\ ~f.short /\ f.len > SFMax
    BY <1>2, <1>5, <1>6, <1>14 DEF FlowOf, FirstsWait
  <2>2. /\ fed.err = "nil" /\ fed.msg = NoMessage /\ fed.fc = Grant
        /\ fed.r.active /\ fed.r.inBlock = 0
        /\ fed.r.parts[1].msg = j.msg
    BY <1>12, <1>14, <2>1
  <2>3. PICK b : b = fed.r
    OBVIOUS
  <2>4. PICK u : u = Tail(q)
    OBVIOUS
  <2>5. Len(u) = 0
    BY <1>5, <2>1, <2>4
  <2>6. FlowOf(u, Append(o, Grant), b, j, "waitFC")
    BY <1>2, <1>8, <2>2, <2>3, <2>5, GrantIs, FlowGrants
  <2> QED BY <2>1, <2>2, <2>3, <2>4, <2>6
<1>15. ASSUME f.pci = "FC" PROVE Goal
  <2>1. pc[n] = "waitFC"
    BY <1>2, <1>5, <1>6, <1>15 DEF FlowOf, Granted
  <2> QED BY <2>1
<1>16. ASSUME f.pci = "CF", fed.r.active PROVE Goal
  <2>1. /\ fed.err = "nil" /\ fed.msg = NoMessage /\ r.active
        /\ fed.r.parts[1].msg = r.parts[1].msg
        /\ f.off + CFData < f.msg.len
        /\ \/ /\ r.inBlock + 1 # BlockSize /\ fed.fc = NoFrame
              /\ fed.r.inBlock = r.inBlock + 1
           \/ /\ r.inBlock + 1 = BlockSize /\ fed.fc = Grant
              /\ fed.r.inBlock = 0
    BY <1>12, <1>16
  <2>2. f.msg = r.parts[1].msg
    BY <1>11, <1>16, <2>1 DEF Holds
  <2>3. f.off \in Nat /\ f.msg.len \in Nat
    BY <1>16, NewReceiverIs DEF Frame, Said, Message
  <2>4. PICK b : b = fed.r
    OBVIOUS
  <2>5. /\ r.inBlock + 1 # BlockSize /\ b.inBlock = r.inBlock + 1 =>
             FlowOf(Tail(q), o, b, j, w)
        /\ r.inBlock + 1 = BlockSize /\ b.inBlock = 0 =>
             FlowOf(Tail(q), Append(o, Grant), b, j, w)
    BY <1>2, <1>6, <1>16, <2>1, <2>2, <2>3, <2>4, GrantIs, FlowTakes
  <2>6. CASE /\ r.inBlock + 1 # BlockSize /\ fed.fc = NoFrame
             /\ fed.r.inBlock = r.inBlock + 1
    BY <2>1, <2>4, <2>5, <2>6
  <2>7. CASE /\ r.inBlock + 1 = BlockSize /\ fed.fc = Grant
             /\ fed.r.inBlock = 0
    <3>1. PICK u : u = Append(o, Grant)
      OBVIOUS
    <3>2. Len(o) + 1 \in 1 .. Len(u) /\ u[Len(o) + 1] = Grant
      BY <1>2, <3>1, GrantIs, AppendIs
    <3>3. FlowOf(Tail(q), u, b, j, w)
      BY <2>4, <2>5, <2>7, <3>1
    <3>4. w = "waitFC"
      BY <3>2, <3>3, GrantIs DEF FlowOf, Granted
    <3> QED BY <2>1, <2>4, <2>7, <3>1, <3>3, <3>4
  <2> QED BY <2>1, <2>6, <2>7
<1>17. ASSUME f.pci = "CF", ~fed.r.active PROVE Goal
  BY <1>9, <1>12, <1>17
<1>18. Goal
  BY <1>13, <1>14, <1>15, <1>16, <1>17 DEF Frame
<1> QED BY <1>1, <1>6, <1>7, <1>18

LEMMA FlowReceives ==
  ASSUME FlowInv, BlockSize > 0, NEW n \in Node, ReceiveFrame(n)
  PROVE  \A d \in Node : Flow(d)'
<1>1. PICK p \in Node : p = Peer(n) /\ p # n /\ Peer(p) = n
  BY PeerFacts
<1>2. /\ TypeInv /\ inbox[n] \in Seq(Frame) /\ inbox[p] \in Seq(Frame)
      /\ PcOK /\ RxOK /\ inbox \in [Node -> Seq(Frame)]
      /\ (rx[p].active => pc[p] = "receive") /\ Len(inbox[p]) \in Nat
      /\ FlowOf(inbox[p], inbox[n], rx[p], job[n], pc[n])
  BY <1>1, FlowIs, TypeParts
<1>3. pc[n] = "receive" /\ inbox[n] # <<>>
  BY DEF ReceiveFrame
<1>4. Head(inbox[n]) = inbox[n][1]
  BY <1>2, <1>3, InboxLess
<1>5. PICK fed : fed = Feed(rx[n], inbox[n][1])
  OBVIOUS
<1>6. PICK rest : rest = [inbox EXCEPT ![n] = Tail(@)]
  OBVIOUS
<1>7. /\ rest \in [Node -> Seq(Frame)] /\ rest[n] = Tail(inbox[n])
      /\ rest[p] = inbox[p]
  BY <1>1, <1>2, <1>3, <1>6, InboxLess
<1>8. inbox' = IF fed.fc = NoFrame THEN rest
               ELSE [rest EXCEPT ![p] = Append(@, fed.fc)]
  BY <1>1, <1>4, <1>5, <1>6 DEF ReceiveFrame
<1>9. \/ /\ fed.err = "nil" /\ fed.msg = NoMessage
         /\ rx' = [rx EXCEPT ![n] = fed.r] /\ UNCHANGED <<pc, job>>
      \/ /\ ~(fed.err = "nil" /\ fed.msg = NoMessage)
         /\ Return(n)
  BY <1>4, <1>5 DEF ReceiveFrame
<1>10. /\ rx'[p] = rx[p] /\ pc'[p] = pc[p] /\ job'[p] = job[p]
       /\ pc'[n] \in {"receive", "idle"}
       /\ \/ fed.err = "nil" /\ fed.msg = NoMessage /\ rx'[n] = fed.r
          \/ ~(fed.err = "nil" /\ fed.msg = NoMessage) /\ ~rx'[n].active
  <2>1. CASE Return(n)
    <3>1. rx'[p] = rx[p] /\ pc'[p] = pc[p] /\ job'[p] = job[p]
            /\ ~rx'[n].active /\ rx'[n] = NewReceiver
      BY <1>1, <1>2, <2>1, Returned
    <3>2. pc'[n] = "idle"
      BY <1>2, <2>1 DEF Return, PcOK
    <3>3. (fed.err = "nil" /\ fed.msg = NoMessage) => rx'[n] = fed.r
      BY <1>2, <1>9 DEF RxOK
    <3> QED BY <3>1, <3>2, <3>3
  <2>2. CASE ~Return(n)
    BY <1>1, <1>2, <1>3, <1>9, <2>2 DEF PcOK, RxOK
  <2> QED BY <2>1, <2>2
<1>11. FlowOf(inbox[p], Tail(inbox[n]), rx[p], job'[n], pc'[n])
  <2>1. FlowOf(inbox[p], Tail(inbox[n]), rx[p], job[n], pc[n])
    BY <1>2, <1>3, FlowRead
  <2>2. Tail(inbox[n]) \in Seq(Frame)
    BY <1>7
  <2>3. {pc'[n], pc[n]} \cap {"waitFC", "block"} = {}
    BY <1>3, <1>10
  <2> QED BY <1>2, <2>1, <2>2, <2>3, FlowStays
<1>12. \/ /\ fed.fc = NoFrame /\ ~fed.r.active
          /\ \A b : ~b.active =>
                    FlowOf(Tail(inbox[n]), inbox[p], b, job[p], pc[p])
       \/ /\ fed.fc = NoFrame /\ fed.err = "nil" /\ fed.msg = NoMessage
          /\ FlowOf(Tail(inbox[n]), inbox[p], fed.r, job[p], pc[p])
       \/ /\ fed.fc = Grant /\ fed.err = "nil" /\ fed.msg = NoMessage
          /\ pc[p] = "waitFC"
          /\ FlowOf(Tail(inbox[n]), Append(inbox[p], Grant), fed.r, job[p],
                    pc[p])
  BY <1>1, <1>3, <1>5, FlowFed
<1>13. CASE /\ fed.fc = NoFrame
            /\ \/ /\ ~fed.r.active
                  /\ \A b : ~b.active =>
                        FlowOf(Tail(inbox[n]), inbox[p], b, job[p], pc[p])
               \/ /\ fed.err = "nil" /\ fed.msg = NoMessage
                  /\ FlowOf(Tail(inbox[n]), inbox[p], fed.r, job[p], pc[p])
  <2>1. inbox'[n] = Tail(inbox[n]) /\ inbox'[p] = inbox[p]
    BY <1>7, <1>8, <1>13
  <2>2. FlowOf(Tail(inbox[n]), inbox[p], rx'[n], job[p], pc[p])
    BY <1>10, <1>13
  <2> QED BY <1>1, <1>10, <1>11, <2>1, <2>2, FlowBoth
<1>14. CASE /\ fed.fc = Grant /\ fed.err = "nil" /\ fed.msg = NoMessage
            /\ pc[p] = "waitFC"
            /\ FlowOf(Tail(inbox[n]), Append(inbox[p], Grant), fed.r,
                      job[p], pc[p])
  <2>1. fed.fc # NoFrame
    BY <1>14, GrantIs DEF NoFrame
  <2>2. inbox'[n] = Tail(inbox[n]) /\ inbox'[p] = Append(inbox[p], Grant)
    BY <1>1, <1>7, <1>8, <1>14, <2>1
  <2>3. ~rx[p].active
    BY <1>2, <1>14
  <2>4. FlowOf(Append(inbox[p], Grant), Tail(inbox[n]), rx[p], job'[n],
               pc'[n])
    <3>1. Tail(inbox[n]) \in Seq(Frame) /\ pc'[n] \notin {"waitFC", "block"}
      BY <1>7, <1>10
    <3> QED BY <1>2, <1>11, <2>3, <3>1, GrantIs, FlowStays
  <2>5. FlowOf(Tail(inbox[n]), Append(inbox[p], Grant), rx'[n], job[p],
               pc[p])
    BY <1>10, <1>14
  <2> QED BY <1>1, <1>10, <2>2, <2>4, <2>5, FlowBoth
<1> QED BY <1>12, <1>13, <1>14

LEMMA FlowCall ==
  ASSUME FlowInv, BlockSize > 0, NEW n \in Node, ReceiveCall(n)
  PROVE  \A d \in Node : Flow(d)'
<1>1. PICK p \in Node : p = Peer(n) /\ p # n /\ Peer(p) = n
  BY PeerFacts
<1>2. /\ inbox[n] \in Seq(Frame) /\ inbox[p] \in Seq(Frame)
      /\ PcOK /\ RxOK /\ (rx[n].active => pc[n] = "receive")
      /\ FlowOf(inbox[n], inbox[p], rx[n], job[p], pc[p])
      /\ FlowOf(inbox[p], inbox[n], rx[p], job[n], pc[n])
  BY <1>1, FlowIs, TypeParts
<1>3. /\ pc[n] = "idle" /\ pc' = [pc EXCEPT ![n] = "receive"]
      /\ rx' = [rx EXCEPT ![n] = NewReceiver] /\ UNCHANGED <<job, inbox>>
  BY DEF ReceiveCall
<1>4. /\ pc'[n] = "receive" /\ pc'[p] = pc[p] /\ rx'[p] = rx[p]
      /\ ~rx'[n].active /\ ~rx[n].active
  BY <1>1, <1>2, <1>3, NewReceiverIs DEF PcOK, RxOK
<1>5. FlowOf(inbox[n], inbox[p], rx'[n], job[p], pc[p])
  BY <1>2, <1>4, FlowStays
<1>6. FlowOf(inbox[p], inbox[n], rx[p], job[n], pc'[n])
  BY <1>2, <1>3, <1>4, FlowStays
<1> QED BY <1>1, <1>3, <1>4, <1>5, <1>6, FlowBoth

\* The inductive invariant of a calm behaviour.
THEOREM FlowInductive ==
  ASSUME StraysAreFrames, StraysArePlain, BlockSize > 0
  PROVE  Spec => [](calm => FlowInv)
<1>1. Init => FlowInv
  <2> SUFFICES ASSUME Init PROVE FlowInv
    OBVIOUS
  <2>1. IInv
    BY Initially
  <2>2. ASSUME NEW n \in Node PROVE Flow(n)
    <3>1. /\ inbox[n] = <<>> /\ inbox[Peer(n)] = <<>>
          /\ rx[n] = NewReceiver /\ pc[Peer(n)] = "idle"
      BY PeerFacts DEF Init
    <3>2. Len(<<>>) = 0 /\ ~NewReceiver.active
      BY NewReceiverIs
    <3> QED BY <3>1, <3>2 DEF Flow, FlowOf, FirstsWait, Granted, Counted
  <2> QED BY <2>1, <2>2 DEF FlowInv
<1>2. (calm => FlowInv) /\ [Next]_vars => (calm => FlowInv)'
  <2> SUFFICES ASSUME calm => FlowInv, [Next]_vars, calm'
               PROVE  FlowInv'
    OBVIOUS
  <2>1. calm /\ FlowInv /\ IInv /\ Faultless
    BY FaultlessStays DEF FlowInv, Faultless
  <2>2. CASE Next
    <3>1. IInv'
      BY <2>1, <2>2, Step
    <3>2. PICK n \in Node :
            \/ \E len \in Lengths : SendSingle(n, len) \/ SendFirst(n, len)
            \/ ReceiveCall(n) \/ ReadFlowControl(n) \/ SendConsecutive(n)
            \/ ReceiveFrame(n) \/ ReceiveCannotAnswer(n)
            \/ TimeoutNBs(n) \/ TimeoutNCr(n) \/ Cancel(n)
            \/ Fault(n) \/ \E f \in Strays : Stray(n, f)
      BY <2>2 DEF Next, SendStep, ReceiveStep
    <3>3. ~ \/ ReceiveCannotAnswer(n)
            \/ TimeoutNBs(n) \/ TimeoutNCr(n) \/ Cancel(n)
            \/ Fault(n) \/ \E f \in Strays : Stray(n, f)
      BY <2>1 DEF ReceiveCannotAnswer, TimeoutNBs, TimeoutNCr, Cancel,
                  Fault, Stray
    <3>4. \A d \in Node : Flow(d)'
      BY <2>1, <3>2, <3>3, FlowSend, FlowCall, FlowReads, FlowConsecutive,
         FlowReceives
    <3> QED BY <3>1, <3>4 DEF FlowInv
  <2>3. CASE UNCHANGED vars
    <3>1. IInv'
      BY <2>1, <2>3, Stutter
    <3>2. UNCHANGED <<inbox, rx, job, pc>>
      BY <2>3 DEF vars
    <3>3. \A d \in Node : Flow(d)'
      BY <2>1, <3>2 DEF FlowInv, Flow
    <3> QED BY <3>1, <3>3 DEF FlowInv
  <2> QED BY <2>2, <2>3
<1> QED BY <1>1, <1>2, PTL DEF Spec

LEMMA BlockBound ==
  ASSUME FlowInv, NEW n \in Node, rx[n].active
  PROVE  rx[n].inBlock + Cardinality({k \in 1 .. Len(inbox[n]) :
                                        inbox[n][k].pci = "CF"}) <= BlockSize
<1>1. PICK q : q = inbox[n]
  OBVIOUS
<1>2. PICK r : r = rx[n]
  OBVIOUS
<1>3. Len(q) \in Nat /\ r.inBlock \in Nat
  BY <1>1, <1>2, FlowIs
<1>4. \E t \in 0 .. Len(q) :
        /\ \A k \in 1 .. Len(q) : q[k].pci = "CF" <=> k <= t
        /\ r.inBlock + t <= BlockSize
  <2>1. PICK j, w : FlowOf(q, inbox[Peer(n)], r, j, w)
    BY <1>1, <1>2, FlowIs
  <2>2. CASE UnderWay(q, r, j, w)
    BY <1>3, <2>2 DEF UnderWay
  <2>3. CASE Queued(q, r, w)
    BY <1>3, <2>3 DEF Queued
  <2> QED BY <1>2, <2>1, <2>2, <2>3 DEF FlowOf, Counted
<1>5. PICK t \in 0 .. Len(q) :
        /\ \A k \in 1 .. Len(q) : q[k].pci = "CF" <=> k <= t
        /\ r.inBlock + t <= BlockSize
  BY <1>4
<1>6. {k \in 1 .. Len(q) : q[k].pci = "CF"} = 1 .. t
  BY <1>3, <1>5
<1>7. Cardinality(1 .. t) = t
  BY <1>3, <1>5, FS_Interval
<1> QED BY <1>1, <1>2, <1>5, <1>6, <1>7

\* Never more consecutive frames are on their way to a receiver and counted
\* by it than its block size, for any block size, lengths and number of
\* messages (conn.go's Send and Receive, which count on their own).
THEOREM BlocksAreKept ==
  ASSUME StraysAreFrames, StraysArePlain
  PROVE  Spec => []BlockSizeRespected
<1>1. CASE BlockSize > 0
  <2>1. (calm => FlowInv) => BlockSizeRespected
    BY BlockBound DEF BlockSizeRespected
  <2> QED BY <1>1, <2>1, FlowInductive, PTL
<1>2. CASE ~(BlockSize > 0)
  <2>1. BlockSizeRespected
    BY <1>2 DEF BlockSizeRespected
  <2> QED BY <2>1, PTL
<1> QED BY <1>1, <1>2

=============================================================================
