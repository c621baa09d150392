---------------------------- MODULE EcuSimProofs ----------------------------
(***************************************************************************)
(* Simulated ECUs and testers on one bus, in any world: whatever is given  *)
(* up, missed or taken by another reader, a tester gets answers as an ECU  *)
(* gave them.  The argument: a consecutive frame is queued behind the one  *)
(* before it, or a Receiver that is active has just that one (Follows).    *)
(* And in a calm world every call gets all its answers: each ECU is in a   *)
(* stage of the call, its request still to take, its answer a chain of     *)
(* frames on their way, heard, or with nothing to say (Stage).             *)
(***************************************************************************)
EXTENDS EcuSim, Integers, FiniteSetTheorems, FunctionTheorems,
        SequenceTheorems, TLAPS

\* The answers of ECUs, and those of several frames.
Said(a) == /\ a = [kind |-> a.kind, ecu |-> a.ecu, to |-> a.to,
                   list |-> a.list, len |-> a.len]
           /\ a.kind \in {"positive", "negative"} /\ a.len \in Nat \ {0}
Long(a) == a.len > SFMax

\* Receiver r has the first k parts of a, and not all.
Held(r, a, k) ==
  /\ k \in 1 .. Len(Split(a)) - 1 /\ FFData + CFData * (k - 1) < a.len
  /\ r = [active |-> TRUE, want |-> a.len, got |-> FFData + CFData * (k - 1),
          parts |-> [i \in 1 .. k |-> Split(a)[i]], seq |-> k % SeqNumbers,
          inBlock |-> r.inBlock]

\* Part k of a at place i of the queue q of a tester continues what is there
\* of ECU e, r being the tester's Receiver for it.
Follows(q, r, i, e, a, k) ==
  \/ \E j \in 1 .. i - 1 :
       /\ q[j].ecu = e /\ q[j].frame = Frames(a)[k - 1]
       /\ \A l \in j + 1 .. i - 1 : q[l].ecu # e
  \/ /\ \A j \in 1 .. i - 1 : q[j].ecu # e
     /\ r.active => Held(r, a, k - 1)

\* What ECU e may have sent at place i, g being the answers so far.
Fits(g, q, r, i, e, f) ==
  \/ f.pci = "FC"
  \/ f.pci = "SF" /\ f.len = 3 /\ f.msg.kind = "pending"
  \/ \E a \in g : ~Long(a) /\ f = SingleFrame(a, a.len)
  \/ \E a \in g : \E k \in 1 .. Len(Split(a)) :
       /\ Long(a) /\ f = Frames(a)[k]
       /\ k > 1 => Follows(q, r, i, e, a, k)

InAnswer(j) == j.pc \in {"waitFC", "block"}

\* The next frame of ECU e, at work on j.
Coming(g, q, r, e, j) ==
  InAnswer(j) =>
    \E a \in g : /\ Long(a) /\ j.frames = Frames(a)
                 /\ j.next \in 2 .. Len(Split(a))
                 /\ Follows(q, r, Len(q) + 1, e, a, j.next)

\* The queue and the Receivers of a tester.
Orderly(g, q, rs, jobs) ==
  /\ \A i \in 1 .. Len(q) :
       /\ q[i].ecu \in Ecu
       /\ Fits(g, q, rs[q[i].ecu], i, q[i].ecu, q[i].frame)
  /\ \A e \in Ecu : Coming(g, q, rs[e], e, jobs[e])

\* x is an answer as it was given, all of it.
IsOf(g, x) == \E a \in g : x = [len |-> a.len, parts |-> Split(a)]
IsPending(x) == Bytes(x).kind = "pending"

IsSequence(q) == \E S : q \in Seq(S)

-----------------------------------------------------------------------------
(* Numbers, queues, messages                                               *)

LEMMA Remainder ==
  ASSUME NEW n \in Nat, n > 1, NEW q \in Int, NEW r \in 0 .. n - 1
  PROVE  (n * q + r) % n = r
OBVIOUS

LEMMA NextRemainder ==
  ASSUME NEW n \in Nat, n > 1, NEW k \in Nat
  PROVE  ((k % n) + 1) % n = (k + 1) % n
<1>1. k % n \in 0 .. n - 1 /\ k \div n \in Int
  OBVIOUS
<1>2. k = n * (k \div n) + (k % n)
  OBVIOUS
<1>3. PICK q \in Int, r \in 0 .. n - 1 : k = n * q + r /\ r = k % n
  BY <1>1, <1>2
<1>4. CASE r + 1 < n
  <2>1. (n * q + (r + 1)) % n = r + 1 /\ (n * 0 + (r + 1)) % n = r + 1
    <3>1. r + 1 \in 0 .. n - 1
      BY <1>4
    <3> QED BY <3>1, Remainder
  <2>2. k + 1 = n * q + (r + 1)
    BY <1>3
  <2> QED BY <1>3, <2>1, <2>2
<1>5. CASE r + 1 = n
  <2>1. (n * (q + 1) + 0) % n = 0 /\ n % n = 0
    OBVIOUS
  <2>2. k + 1 = n * (q + 1) + 0
    BY <1>3, <1>5
  <2> QED BY <1>3, <1>5, <2>1, <2>2
<1> QED BY <1>3, <1>4, <1>5

LEMMA AppendIs ==
  ASSUME NEW q, IsSequence(q), NEW x
  PROVE  /\ IsSequence(Append(q, x)) /\ Len(Append(q, x)) = Len(q) + 1
         /\ \A i \in 1 .. Len(q) : Append(q, x)[i] = q[i]
         /\ Append(q, x)[Len(q) + 1] = x
         /\ \A i \in 1 .. Len(q) + 1 : i \in 1 .. Len(q) \/ i = Len(q) + 1
         /\ Len(q) \in Nat
<1>1. PICK S : q \in Seq(S)
  BY DEF IsSequence
<1>2. q \in Seq(S \cup {x})
  BY <1>1, SeqMonotonic
<1>3. Append(q, x) \in Seq(S \cup {x})
  BY <1>2, AppendProperties
<1>4. /\ Len(Append(q, x)) = Len(q) + 1 /\ Append(q, x)[Len(q) + 1] = x
      /\ \A i \in 1 .. Len(q) : Append(q, x)[i] = q[i]
  BY <1>2, AppendProperties
<1>5. Len(q) \in Nat
  BY <1>1
<1> QED BY <1>3, <1>4, <1>5 DEF IsSequence

LEMMA TailIs ==
  ASSUME NEW q, IsSequence(q), q # <<>>
  PROVE  /\ IsSequence(Tail(q)) /\ Len(q) = Len(Tail(q)) + 1
         /\ \A i \in 1 .. Len(Tail(q)) : Tail(q)[i] = q[i + 1]
         /\ Head(q) = q[1] /\ Len(Tail(q)) \in Nat
<1>1. PICK S : q \in Seq(S)
  BY DEF IsSequence
<1>2. Tail(q) \in Seq(S)
  BY <1>1
<1> QED BY <1>1, <1>2, HeadTailProperties DEF IsSequence

LEMMA NoneIsSequence == IsSequence(<<>>) /\ Len(<<>>) = 0
BY DEF IsSequence

LEMMA Quotient ==
  ASSUME NEW len \in Nat, NEW c \in Nat,
         FFData + CFData * (c - 1) < len, len <= FFData + CFData * c, c > 0
  PROVE  (len - FFData + CFData - 1) \div CFData = c
BY DEF FFData, CFData

LEMMA EnoughParts ==
  ASSUME NEW len \in Nat, NEW c \in Nat, c > 0,
         FFData + CFData * (c - 1) < len
  PROVE  (len - FFData + CFData - 1) \div CFData >= c
BY DEF FFData, CFData

\* The parts of a message of more than one frame.
LEMMA SplitIs ==
  ASSUME NEW m, m.len \in Nat, Long(m)
  PROVE  LET s == Split(m)
         IN /\ Len(s) = 1 + ((m.len - FFData + CFData - 1) \div CFData)
            /\ Len(s) \in Nat /\ Len(s) > 1 /\ DOMAIN s = 1 .. Len(s)
            /\ s = [k \in 1 .. Len(s) |-> s[k]]
            /\ s[1] = Part(m, 0, FFData)
            /\ \A k \in 2 .. Len(s) :
                 LET off == FFData + CFData * (k - 2)
                 IN s[k] = Part(m, off, Lesser(m.len - off, CFData))
<1>1. PICK c \in Nat : c = (m.len - FFData + CFData - 1) \div CFData
                       /\ c > 0
  BY DEF FFData, CFData, SFMax, Long
<1> DEFINE P(k) == LET off == FFData + CFData * (k - 1)
                   IN Part(m, off, Lesser(m.len - off, CFData))
           t == [k \in 1 .. c |-> P(k)]
           x == Part(m, 0, FFData)
<1>2. Split(m) = <<x>> \o t
  <2>1. Split(m) = <<Part(m, 0, FFData)>> \o
          [k \in 1 .. (m.len - FFData + CFData - 1) \div CFData |->
            LET off == FFData + CFData * (k - 1)
            IN Part(m, off, Lesser(m.len - off, CFData))]
    <3>1. ~(m.len <= SFMax)
      BY DEF SFMax, Long
    <3> QED BY <3>1 DEF Split
  <2> QED BY <1>1, <2>1
<1>3. t \in Seq({P(k) : k \in 1 .. c}) /\ Len(t) = c
  <2> HIDE DEF P
  <2>1. t \in [1 .. c -> {P(k) : k \in 1 .. c}]
    OBVIOUS
  <2>2. \A S : \A u \in [1 .. c -> S] : u \in Seq(S) /\ Len(u) = c
    OBVIOUS
  <2> QED BY <2>1, <2>2
<1>4. \A k \in 2 .. 1 + c : t[k - 1] = P(k - 1)
  OBVIOUS
<1> HIDE DEF P, x, t
<1>5. \A S : \A u \in Seq(S) : \A y \in S :
        LET s == <<y>> \o u
        IN /\ Len(s) = 1 + Len(u) /\ s \in Seq(S)
           /\ s[1] = y
           /\ \A k \in 2 .. Len(s) : s[k] = u[k - 1]
  OBVIOUS
<1>6. x \in {P(k) : k \in 1 .. c} \cup {x}
      /\ t \in Seq({P(k) : k \in 1 .. c} \cup {x})
  BY <1>3
<1>7. PICK s : s = <<x>> \o t
  OBVIOUS
<1>8. /\ Len(s) = 1 + c /\ s \in Seq({P(k) : k \in 1 .. c} \cup {x})
      /\ s[1] = x
      /\ \A k \in 2 .. Len(s) : s[k] = t[k - 1]
  BY <1>3, <1>5, <1>6, <1>7
<1>9. DOMAIN s = 1 .. Len(s) /\ Len(s) \in Nat
      /\ s = [k \in 1 .. Len(s) |-> s[k]] /\ Len(s) > 1
  BY <1>1, <1>8
<1>10. s[1] = Part(m, 0, FFData)
  BY <1>8 DEF x
<1>11. ASSUME NEW k \in 2 .. Len(s)
       PROVE  LET off == FFData + CFData * (k - 2)
              IN s[k] = Part(m, off, Lesser(m.len - off, CFData))
  <2>1. s[k] = P(k - 1) /\ (k - 1) - 1 = k - 2
    BY <1>4, <1>8
  <2> QED BY <2>1 DEF P
<1> QED BY <1>1, <1>2, <1>7, <1>8, <1>9, <1>10, <1>11

\* The frames of a message of more than one frame.
LEMMA FramesOfLong ==
  ASSUME NEW a, a.len \in Nat, Long(a)
  PROVE  /\ Len(Frames(a)) = Len(Split(a))
         /\ Frames(a)[1] = FirstFrame(a, a.len, FALSE)
         /\ \A k \in 2 .. Len(Split(a)) :
              Frames(a)[k] = ConsecutiveFrame(a, FFData + CFData * (k - 2),
                                              (k - 1) % SeqNumbers)
<1>1. PICK s : s = Split(a)
  OBVIOUS
<1>2. Len(s) \in Nat /\ Len(s) > 1 /\ DOMAIN s = 1 .. Len(s)
  BY <1>1, SplitIs
<1>3. ASSUME NEW k \in 2 .. Len(s)
      PROVE  s[k].off = FFData + CFData * (k - 2)
  <2>1. PICK off : off = FFData + CFData * (k - 2)
    OBVIOUS
  <2>2. s[k] = Part(a, off, Lesser(a.len - off, CFData))
    BY <1>1, <2>1, SplitIs
  <2> QED BY <2>1, <2>2 DEF Part
<1> DEFINE F(k) == IF k = 1 THEN FirstFrame(a, a.len, FALSE)
                   ELSE ConsecutiveFrame(a, s[k].off, (k - 1) % SeqNumbers)
           fs == [k \in 1 .. Len(s) |-> F(k)]
<1>4. Frames(a) = fs
  <2>1. Len(s) # 1
    BY <1>2
  <2> QED BY <1>1, <1>2, <2>1 DEF Frames
<1>5. F(1) = FirstFrame(a, a.len, FALSE)
  OBVIOUS
<1>6. ASSUME NEW k \in 2 .. Len(s)
      PROVE  F(k) = ConsecutiveFrame(a, FFData + CFData * (k - 2),
                                     (k - 1) % SeqNumbers)
  <2>1. k # 1
    BY <1>2
  <2>2. s[k].off = FFData + CFData * (k - 2)
    BY <1>3
  <2>3. F(k) = ConsecutiveFrame(a, s[k].off, (k - 1) % SeqNumbers)
    BY <2>1
  <2> HIDE DEF F
  <2> QED BY <2>2, <2>3
<1> HIDE DEF F
<1>7. Len(fs) = Len(s) /\ fs[1] = F(1)
      /\ \A k \in 2 .. Len(s) : fs[k] = F(k)
  BY <1>2
<1> QED BY <1>1, <1>4, <1>5, <1>6, <1>7

LEMMA FramesOfShort ==
  ASSUME NEW a, a.len \in Nat \ {0}, ~Long(a)
  PROVE  /\ Split(a) = <<Part(a, 0, a.len)>> /\ a.len \in 1 .. SFMax
         /\ Frames(a)[1] = SingleFrame(a, a.len) /\ Len(Frames(a)) = 1
<1>1. Split(a) = <<Part(a, 0, a.len)>> /\ a.len \in 1 .. SFMax
  BY DEF Long, Split, SFMax
<1>2. \A x : Len(<<x>>) = 1 /\ DOMAIN <<x>> = 1 .. 1
  OBVIOUS
<1>3. Frames(a) = [k \in 1 .. 1 |-> SingleFrame(a, a.len)]
  BY <1>1, <1>2 DEF Frames
<1>4. \A x : Len([k \in 1 .. 1 |-> x]) = 1 /\ [k \in 1 .. 1 |-> x][1] = x
  OBVIOUS
<1> QED BY <1>1, <1>3, <1>4

\* A frame tells the answer and the part it is.
LEMMA FrameNames ==
  ASSUME NEW a, NEW b, a.len \in Nat, b.len \in Nat, Long(a), Long(b),
         NEW k \in 1 .. Len(Split(a)), NEW l \in 1 .. Len(Split(b)),
         Frames(a)[k] = Frames(b)[l]
  PROVE  a = b /\ k = l
<1>1. Len(Split(a)) \in Nat /\ Len(Split(b)) \in Nat
  BY SplitIs
<1>2. k = 1 \/ k \in 2 .. Len(Split(a))
  BY <1>1
<1>3. l = 1 \/ l \in 2 .. Len(Split(b))
  BY <1>1
<1>4. \A x, y, z : /\ FirstFrame(x, y, FALSE).pci = "FF"
                   /\ FirstFrame(x, y, FALSE).msg = x
                   /\ ConsecutiveFrame(x, y, z).pci = "CF"
                   /\ ConsecutiveFrame(x, y, z).msg = x
                   /\ ConsecutiveFrame(x, y, z).off = y
  BY DEF FirstFrame, ConsecutiveFrame
<1>5. ASSUME NEW c, c.len \in Nat, Long(c), NEW i \in 1 .. Len(Split(c))
      PROVE  /\ Frames(c)[i].msg = c
             /\ i = 1 => Frames(c)[i].pci = "FF"
             /\ i # 1 => /\ Frames(c)[i].pci = "CF"
                         /\ Frames(c)[i].off = FFData + CFData * (i - 2)
  <2>1. CASE i = 1
    <3>1. Frames(c)[1] = FirstFrame(c, c.len, FALSE)
      BY <1>5, FramesOfLong
    <3>2. PICK f : f = FirstFrame(c, c.len, FALSE)
      OBVIOUS
    <3>3. f.msg = c /\ f.pci = "FF"
      BY <3>2 DEF FirstFrame
    <3>4. Frames(c)[i] = f
      BY <2>1, <3>1, <3>2
    <3> QED BY <2>1, <3>3, <3>4
  <2>2. CASE i # 1
    <3>1. Len(Split(c)) \in Nat
      BY <1>5, SplitIs
    <3>2. i \in 2 .. Len(Split(c))
      BY <2>2, <3>1
    <3>3. Frames(c)[i] = ConsecutiveFrame(c, FFData + CFData * (i - 2),
                                          (i - 1) % SeqNumbers)
      BY <1>5, <3>2, FramesOfLong
    <3> QED BY <1>4, <2>2, <3>3
  <2> QED BY <2>1, <2>2
<1>6. a = b
  BY <1>5
<1>7. CASE k = 1
  BY <1>5, <1>7
<1>8. CASE k # 1
  <2>1. l # 1
    BY <1>5, <1>8
  <2>2. FFData + CFData * (k - 2) = FFData + CFData * (l - 2)
    BY <1>5, <1>8, <2>1
  <2>3. FFData + CFData * (k - 2) = FFData + CFData * (l - 2) => k = l
    BY <1>1 DEF FFData, CFData
  <2> QED BY <1>6, <2>2, <2>3
<1> QED BY <1>6, <1>7, <1>8

-----------------------------------------------------------------------------
(* What Feed does with the frames of an ECU                                *)

LEMMA SequenceNumbers == SeqNumbers \in Nat /\ SeqNumbers > 1
                           /\ 1 % SeqNumbers = 1
<1>1. SeqNumbers \in Nat /\ SeqNumbers > 1
  BY SeqNumbersAssumption
<1> QED BY <1>1

LEMMA NewIsIdle == ~NewReceiver.active
BY DEF NewReceiver

LEMMA FeedWhole ==
  ASSUME NEW r, NEW f, f.pci = "SF", f.len \in 1 .. SFMax
  PROVE  LET fed == Feed(r, f)
         IN /\ fed.err = "nil" /\ fed.r = NewReceiver /\ fed.fc = NoFrame
            /\ fed.msg = [len |-> f.len, parts |-> <<Part(f.msg, 0, f.len)>>]
            /\ fed.msg # NoMessage /\ Bytes(fed.msg) = f.msg
<1>1. PICK m : m = [len |-> f.len, parts |-> <<Part(f.msg, 0, f.len)>>]
  OBVIOUS
<1>2. Feed(r, f) = Fed(NewReceiver, NoFrame, m, "nil")
  BY <1>1 DEF Feed, FeedSingle
<1>3. m.len # 0 /\ NoMessage.len = 0
  BY <1>1 DEF NoMessage
<1>4. Bytes(m) = f.msg
  BY <1>1 DEF Bytes, Part
<1> QED BY <1>1, <1>2, <1>3, <1>4 DEF Fed

LEMMA FeedControl ==
  ASSUME NEW r, NEW f, f.pci = "FC"
  PROVE  LET fed == Feed(r, f)
         IN fed.err = "nil" /\ fed.r = r /\ fed.msg = NoMessage
              /\ fed.fc = NoFrame
BY DEF Feed, Ignore, Fed

LEMMA FeedBegins ==
  ASSUME NEW r, NEW a, a.len \in Nat, Long(a)
  PROVE  LET fed == Feed(r, Frames(a)[1])
         IN /\ fed.err = "nil" /\ fed.msg = NoMessage /\ Held(fed.r, a, 1)
            /\ fed.fc = FlowControl("continue", BlockSize)
<1>1. PICK f : f = Frames(a)[1]
  OBVIOUS
<1>2. f.pci = "FF" /\ f.msg = a /\ f.len = a.len /\ ~f.short
  <2>1. f = FirstFrame(a, a.len, FALSE)
    BY <1>1, FramesOfLong
  <2> QED BY <2>1 DEF FirstFrame
<1>3. PICK b : b = [active |-> TRUE, want |-> f.len, got |-> FFData,
                    parts |-> <<Part(f.msg, 0, FFData)>>, seq |-> 1,
                    inBlock |-> 0]
  OBVIOUS
<1>4. Feed(r, f) = Fed(b, FlowControl("continue", BlockSize), NoMessage,
                       "nil")
  <2>1. ~(f.len = 0) /\ ~(f.len < FrameLen)
    BY <1>2 DEF SFMax, FrameLen, Long
  <2> QED BY <1>2, <1>3, <2>1 DEF Feed, FeedFirst
<1>5. Held(b, a, 1)
  <2>1. /\ 1 \in 1 .. Len(Split(a)) - 1 /\ Split(a)[1] = Part(a, 0, FFData)
        /\ FFData + CFData * (1 - 1) = FFData /\ FFData < a.len
    BY SplitIs DEF FFData, CFData, SFMax, Long
  <2>2. \A x : <<x>> = [i \in 1 .. 1 |-> x]
    OBVIOUS
  <2>3. [i \in 1 .. 1 |-> Split(a)[i]] = [i \in 1 .. 1 |-> Split(a)[1]]
    OBVIOUS
  <2>4. b.parts = [i \in 1 .. 1 |-> Split(a)[i]] /\ b.seq = 1 % SeqNumbers
    BY <1>2, <1>3, <2>1, <2>2, <2>3, SequenceNumbers
  <2> QED BY <1>2, <1>3, <2>1, <2>4 DEF Held
<1> QED BY <1>1, <1>4, <1>5 DEF Fed

LEMMA FeedIdle ==
  ASSUME NEW r, ~r.active, NEW f, f.pci = "CF"
  PROVE  LET fed == Feed(r, f)
         IN /\ fed.err = "nil" /\ fed.r = r /\ fed.msg = NoMessage
            /\ fed.fc = NoFrame
BY DEF Feed, FeedConsecutive, Ignore, Fed

\* The next consecutive frame goes on with it, and the last completes it.
LEMMA FeedContinues ==
  ASSUME NEW r, NEW a, a.len \in Nat, Long(a), NEW k \in Nat,
         k + 1 \in 2 .. Len(Split(a)), Held(r, a, k)
  PROVE  LET fed == Feed(r, Frames(a)[k + 1])
         IN /\ fed.err = "nil"
            /\ \/ /\ k + 1 # Len(Split(a)) /\ fed.msg = NoMessage
                  /\ Held(fed.r, a, k + 1)
               \/ /\ k + 1 = Len(Split(a)) /\ fed.r = NewReceiver
                  /\ fed.fc = NoFrame /\ fed.msg # NoMessage
                  /\ fed.msg = [len |-> a.len, parts |-> Split(a)]
<1>1. PICK s : s = Split(a)
  OBVIOUS
<1>2. PICK off \in Nat : off = FFData + CFData * (k - 1) /\ off < a.len
  BY DEF Held, FFData, CFData
<1>3. /\ Len(s) \in Nat /\ s = [i \in 1 .. Len(s) |-> s[i]]
      /\ Len(s) = 1 + ((a.len - FFData + CFData - 1) \div CFData)
      /\ k \in 1 .. Len(s) - 1 /\ k + 1 \in 2 .. Len(s)
  BY <1>1, SplitIs DEF Held
<1>4. PICK take : take = Lesser(a.len - off, CFData)
  OBVIOUS
<1>5. s[k + 1] = Part(a, off, take)
  <2>1. PICK l \in 2 .. Len(s) : l = k + 1 /\ l - 2 = k - 1
    BY <1>3
  <2>2. s[l] = Part(a, off, take)
    BY <1>1, <1>2, <1>4, <2>1, SplitIs
  <2> QED BY <2>1, <2>2
<1>6. PICK f : f = Frames(a)[k + 1]
  OBVIOUS
<1>7. f.pci = "CF" /\ f.msg = a /\ f.off = off /\ f.sn = k % SeqNumbers
  <2>1. PICK l \in 2 .. Len(s) : l = k + 1 /\ l - 2 = k - 1 /\ l - 1 = k
    BY <1>3
  <2>2. f = ConsecutiveFrame(a, off, k % SeqNumbers)
    BY <1>1, <1>2, <1>6, <2>1, FramesOfLong
  <2> QED BY <2>2 DEF ConsecutiveFrame
<1>8. PICK b : b = r.inBlock
  OBVIOUS
<1>9. r = [active |-> TRUE, want |-> a.len, got |-> off,
           parts |-> [i \in 1 .. k |-> s[i]], seq |-> k % SeqNumbers,
           inBlock |-> b]
  BY <1>1, <1>2, <1>8 DEF Held
<1>10. PICK parts : parts = Append(r.parts, Part(a, off, take))
  OBVIOUS
<1>11. parts = [i \in 1 .. k + 1 |-> s[i]]
  <2> DEFINE u == [i \in 1 .. k |-> s[i]]
  <2>1. PICK S : S = {s[i] : i \in 1 .. Len(s)}
    OBVIOUS
  <2>2. s[k + 1] \in S /\ u \in [1 .. k -> S]
    BY <1>3, <2>1
  <2>3. \A v \in [1 .. k -> S] : v \in Seq(S) /\ Len(v) = k
    OBVIOUS
  <2>4. \A i \in 1 .. k : u[i] = s[i]
    OBVIOUS
  <2>5. parts = Append(u, s[k + 1])
    BY <1>5, <1>9, <1>10
  <2> HIDE DEF u
  <2>6. u \in Seq(S) /\ Len(u) = k
    BY <2>2, <2>3
  <2>7. /\ parts \in Seq(S) /\ Len(parts) = k + 1
        /\ parts[k + 1] = s[k + 1]
        /\ \A i \in 1 .. k : parts[i] = u[i]
    BY <2>2, <2>5, <2>6, AppendProperties
  <2>8. \A i \in 1 .. k + 1 : i \in 1 .. k \/ i = k + 1
    BY <1>3
  <2>9. \A i \in 1 .. k + 1 : parts[i] = s[i]
    BY <2>4, <2>7, <2>8
  <2>10. parts = [i \in 1 .. Len(parts) |-> parts[i]]
    BY <2>7
  <2> QED BY <2>7, <2>9, <2>10
<1>12. PICK next : next = [r EXCEPT !.got = off + take, !.parts = parts,
                                    !.seq = (r.seq + 1) % SeqNumbers,
                                    !.inBlock = InBlockAfter(r)]
  OBVIOUS
<1>13. Feed(r, f) = IF off + take >= a.len
            THEN Fed(NewReceiver, NoFrame, [len |-> a.len, parts |-> parts],
                     "nil")
            ELSE IF BlockSize > 0 /\ next.inBlock = 0
            THEN Fed(next, FlowControl("continue", BlockSize), NoMessage,
                     "nil")
            ELSE Ignore(next)
  <2>1. Feed(r, f) = FeedConsecutive(r, f)
    BY <1>7 DEF Feed
  <2>2. r.active /\ InSequence(r, f) /\ r.want = a.len /\ r.got = off
    BY <1>7, <1>9 DEF InSequence
  <2> QED BY <1>4, <1>7, <1>10, <1>12, <2>1, <2>2 DEF FeedConsecutive
<1>14. CASE off + take >= a.len
  <2>1. a.len <= FFData + CFData * k
    BY <1>2, <1>4, <1>14 DEF Lesser, FFData, CFData
  <2>2. Len(s) = k + 1
    BY <1>2, <1>3, <2>1, Quotient
  <2>3. parts = s
    BY <1>3, <1>11, <2>2
  <2>4. a.len # 0 /\ NoMessage.len = 0
    BY DEF Long, SFMax, NoMessage
  <2> QED BY <1>1, <1>6, <1>13, <1>14, <2>2, <2>3, <2>4 DEF Fed
<1>15. CASE ~(off + take >= a.len)
  <2>1. off + take = FFData + CFData * ((k + 1) - 1)
        /\ FFData + CFData * ((k + 1) - 1) < a.len
    BY <1>2, <1>4, <1>15 DEF Lesser, FFData, CFData
  <2>2. k + 1 # Len(s) /\ k + 1 \in 1 .. Len(s) - 1
    <3>1. (a.len - FFData + CFData - 1) \div CFData >= k + 1
      BY <1>3, <2>1, EnoughParts
    <3>2. (a.len - FFData + CFData - 1) \div CFData \in Int
      BY DEF FFData, CFData
    <3> QED BY <1>3, <3>1, <3>2
  <2>3. r.seq = k % SeqNumbers
        /\ (r.seq + 1) % SeqNumbers = (k + 1) % SeqNumbers
    BY <1>9, NextRemainder, SequenceNumbers
  <2>4. next = [active |-> TRUE, want |-> a.len, got |-> off + take,
                parts |-> parts, seq |-> (k + 1) % SeqNumbers,
                inBlock |-> next.inBlock]
    BY <1>9, <1>12, <2>3
  <2>5. Held(next, a, k + 1)
    BY <1>1, <1>11, <2>1, <2>2, <2>4 DEF Held
  <2>6. Feed(r, f).err = "nil" /\ Feed(r, f).msg = NoMessage
        /\ Feed(r, f).r = next
    BY <1>13, <1>15 DEF Fed, Ignore
  <2> QED BY <1>1, <1>6, <2>2, <2>5, <2>6
<1> QED BY <1>14, <1>15


\* Feed answers with a flow control frame or not at all.
LEMMA FeedControls ==
  ASSUME NEW r, NEW f
  PROVE  Feed(r, f).fc = NoFrame \/ Feed(r, f).fc.pci = "FC"
<1>1. \A r1, fc, m, err : Fed(r1, fc, m, err).fc = fc
  BY DEF Fed
<1>2. \A st, bs : FlowControl(st, bs).pci = "FC"
  BY DEF FlowControl
<1>3. FeedSingle(f).fc = NoFrame /\ Ignore(r).fc = NoFrame
  BY <1>1 DEF FeedSingle, Failed, Ignore
<1>4. FeedFirst(r, f).fc = NoFrame \/ FeedFirst(r, f).fc.pci = "FC"
  BY <1>1, <1>2 DEF FeedFirst, Failed, Ignore
<1>5. FeedConsecutive(r, f).fc = NoFrame
      \/ FeedConsecutive(r, f).fc.pci = "FC"
  <2>1. PICK take : take = Lesser(r.want - r.got, CFData)
    OBVIOUS
  <2>2. PICK parts : parts = Append(r.parts, Part(f.msg, f.off, take))
    OBVIOUS
  <2>3. PICK next : next = [r EXCEPT !.got = r.got + take, !.parts = parts,
                                     !.seq = (r.seq + 1) % SeqNumbers,
                                     !.inBlock = InBlockAfter(r)]
    OBVIOUS
  <2>4. FeedConsecutive(r, f) \in
          {Ignore(r), Failed(NoFrame, "sequence"), Ignore(next),
           Fed(NewReceiver, NoFrame, [len |-> r.want, parts |-> parts],
               "nil"),
           Fed(next, FlowControl("continue", BlockSize), NoMessage, "nil")}
    BY <2>1, <2>2, <2>3, Zenon DEF FeedConsecutive
  <2> QED BY <1>1, <1>2, <2>4 DEF Failed, Ignore
<1> QED BY <1>3, <1>4, <1>5 DEF Feed

\* What comes of the first frame of a queue.
LEMMA HeadFed ==
  ASSUME NEW g, \A a \in g : Said(a), NEW q, NEW r, NEW e, NEW f,
         Fits(g, q, r, 1, e, f)
  PROVE  LET fed == Feed(r, f)
         IN /\ fed.err = "nil"
            /\ fed.msg = NoMessage \/ IsPending(fed.msg) \/ IsOf(g, fed.msg)
            /\ \A a \in g : \A k \in 2 .. Len(Split(a)) :
                 Long(a) /\ f = Frames(a)[k - 1] /\ fed.r.active =>
                   Held(fed.r, a, k - 1)
<1>1. PICK fed : fed = Feed(r, f)
  OBVIOUS
<1>2. \A a \in g : a.len \in Nat \ {0}
  BY DEF Said
<1>3. ASSUME NEW a \in g, Long(a), NEW k \in 1 .. Len(Split(a)),
             f = Frames(a)[k]
      PROVE  /\ f.pci = IF k = 1 THEN "FF" ELSE "CF"
             /\ a.len \in Nat /\ Len(Split(a)) \in Nat
  <2>1. a.len \in Nat
    BY <1>2
  <2>2. Len(Split(a)) \in Nat
    BY <1>3, <2>1, SplitIs
  <2>3. CASE k = 1
    <3>1. PICK b : b = FirstFrame(a, a.len, FALSE)
      OBVIOUS
    <3>2. b.pci = "FF"
      BY <3>1 DEF FirstFrame
    <3>3. f = b
      BY <1>3, <2>1, <2>3, <3>1, FramesOfLong
    <3> QED BY <2>1, <2>2, <2>3, <3>2, <3>3
  <2>4. CASE k # 1
    <3>1. k \in 2 .. Len(Split(a))
      BY <2>2, <2>4
    <3>2. PICK b : b = ConsecutiveFrame(a, FFData + CFData * (k - 2),
                                        (k - 1) % SeqNumbers)
      OBVIOUS
    <3>3. b.pci = "CF"
      BY <3>2 DEF ConsecutiveFrame
    <3>4. f = b
      BY <1>3, <2>1, <3>1, <3>2, FramesOfLong
    <3> QED BY <2>1, <2>2, <2>4, <3>3, <3>4
  <2> QED BY <2>3, <2>4
<1>4. ASSUME NEW a \in g, NEW k \in 2 .. Len(Split(a)), Long(a)
      PROVE  k - 1 \in 1 .. Len(Split(a)) /\ k - 1 # Len(Split(a))
             /\ (k - 1 # 1 => k - 1 \in 2 .. Len(Split(a))
                                /\ k - 2 \in Nat)
  <2>1. Len(Split(a)) \in Nat
    BY <1>2, <1>4, SplitIs
  <2> QED BY <2>1
<1>5. CASE f.pci = "FC"
  <2>1. fed.err = "nil" /\ fed.msg = NoMessage
    BY <1>1, <1>5, FeedControl
  <2>2. \A a \in g : \A k \in 2 .. Len(Split(a)) :
          ~(Long(a) /\ f = Frames(a)[k - 1])
    <3>1. f.pci \notin {"FF", "CF"}
      BY <1>5
    <3> QED BY <1>3, <1>4, <3>1
  <2> QED BY <1>1, <2>1, <2>2
<1>6. CASE f.pci = "SF" /\ f.len = 3 /\ f.msg.kind = "pending"
  <2>1. f.len \in 1 .. SFMax
    BY <1>6 DEF SFMax
  <2>2. fed.err = "nil" /\ Bytes(fed.msg) = f.msg
    BY <1>1, <1>6, <2>1, FeedWhole
  <2>3. \A a \in g : \A k \in 2 .. Len(Split(a)) :
          ~(Long(a) /\ f = Frames(a)[k - 1])
    <3>1. f.pci \notin {"FF", "CF"}
      BY <1>6
    <3> QED BY <1>3, <1>4, <3>1
  <2>4. IsPending(fed.msg)
    BY <1>6, <2>2 DEF IsPending
  <2> QED BY <1>1, <2>2, <2>3, <2>4
<1>7. ASSUME NEW b \in g, ~Long(b), f = SingleFrame(b, b.len)
      PROVE  /\ fed.err = "nil"
             /\ fed.msg = [len |-> b.len, parts |-> Split(b)]
             /\ f.pci = "SF"
  <2>1. f.pci = "SF" /\ f.msg = b /\ f.len = b.len
    BY <1>7 DEF SingleFrame
  <2>2. b.len \in 1 .. SFMax /\ Split(b) = <<Part(b, 0, b.len)>>
    BY <1>2, <1>7, FramesOfShort
  <2> QED BY <1>1, <2>1, <2>2, FeedWhole
<1>8. CASE \E b \in g : ~Long(b) /\ f = SingleFrame(b, b.len)
  <2>1. \A a \in g : \A k \in 2 .. Len(Split(a)) :
          ~(Long(a) /\ f = Frames(a)[k - 1])
    <3>1. f.pci \notin {"FF", "CF"}
      BY <1>7, <1>8
    <3> QED BY <1>3, <1>4, <3>1
  <2>2. fed.err = "nil" /\ IsOf(g, fed.msg)
    BY <1>7, <1>8 DEF IsOf
  <2> QED BY <1>1, <2>1, <2>2
<1>9. ASSUME NEW b \in g, NEW l \in 1 .. Len(Split(b)), Long(b),
             f = Frames(b)[l], l > 1 => Follows(q, r, 1, e, b, l)
      PROVE  /\ fed.err = "nil"
             /\ fed.msg # NoMessage =>
                  fed.msg = [len |-> b.len, parts |-> Split(b)]
             /\ l # Len(Split(b)) /\ fed.r.active => Held(fed.r, b, l)
  <2>1. b.len \in Nat /\ Len(Split(b)) \in Nat /\ Len(Split(b)) > 1
    BY <1>2, <1>9, SplitIs
  <2>2. CASE l = 1
    BY <1>1, <1>9, <2>1, <2>2, FeedBegins
  <2>3. CASE l # 1
    <3>1. PICK k \in Nat : l = k + 1 /\ k = l - 1 /\ k + 1 > 1
      BY <2>1, <2>3
    <3>2. r.active => Held(r, b, k)
      <4>1. Follows(q, r, 1, e, b, l)
        BY <1>9, <3>1
      <4> QED BY <3>1, <4>1 DEF Follows
    <3>3. k + 1 \in 2 .. Len(Split(b))
      BY <2>1, <3>1
    <3>4. CASE r.active
      <4>1. Held(r, b, k)
        BY <3>2, <3>4
      <4> QED BY <1>1, <1>9, <2>1, <3>1, <3>3, <4>1, FeedContinues
    <3>5. CASE ~r.active
      <4>1. f.pci = "CF"
        BY <1>3, <1>9, <2>3
      <4> QED BY <1>1, <3>5, <4>1, FeedIdle
    <3> QED BY <3>4, <3>5
  <2> QED BY <2>2, <2>3
<1>10. CASE \E b \in g : \E l \in 1 .. Len(Split(b)) :
              /\ Long(b) /\ f = Frames(b)[l]
              /\ l > 1 => Follows(q, r, 1, e, b, l)
  <2>1. PICK b \in g : \E l \in 1 .. Len(Split(b)) :
              /\ Long(b) /\ f = Frames(b)[l]
              /\ l > 1 => Follows(q, r, 1, e, b, l)
    BY <1>10
  <2>2. PICK l \in 1 .. Len(Split(b)) :
              /\ Long(b) /\ f = Frames(b)[l]
              /\ l > 1 => Follows(q, r, 1, e, b, l)
    BY <2>1
  <2>3. ASSUME NEW a \in g, NEW k \in 2 .. Len(Split(a)), Long(a),
               f = Frames(a)[k - 1], fed.r.active
        PROVE  Held(fed.r, a, k - 1)
    <3>1. PICK m \in 1 .. Len(Split(a)) : m = k - 1 /\ m # Len(Split(a))
      BY <1>4, <2>3
    <3>2. /\ Frames(a)[m] = Frames(b)[l] /\ a.len \in Nat /\ b.len \in Nat
          /\ Long(a) /\ Long(b) /\ l \in 1 .. Len(Split(b))
      BY <1>2, <2>2, <2>3, <3>1
    <3>3. a = b /\ m = l
      BY <3>1, <3>2, FrameNames
    <3> QED BY <1>9, <2>2, <2>3, <3>1, <3>3
  <2>4. fed.msg = NoMessage \/ IsOf(g, fed.msg)
    BY <1>9, <2>2 DEF IsOf
  <2> QED BY <1>1, <1>9, <2>2, <2>3, <2>4
<1> QED BY <1>5, <1>6, <1>8, <1>10 DEF Fits

-----------------------------------------------------------------------------
(* A tester's queue stays orderly                                          *)

\* Answers are added, Receivers given up, and ECUs stop sending.
LEMMA OrderlyWeakens ==
  ASSUME NEW g, NEW h, g \subseteq h, NEW q, NEW rs, NEW ss, NEW js, NEW ks,
         Orderly(g, q, rs, js),
         \A e \in Ecu : ss[e] = rs[e] \/ ~ss[e].active,
         \A e \in Ecu : \/ ~InAnswer(ks[e])
                        \/ /\ InAnswer(js[e])
                           /\ ks[e].frames = js[e].frames
                           /\ ks[e].next = js[e].next
  PROVE  Orderly(h, q, ss, ks)
<1>1. ASSUME NEW e \in Ecu, NEW i, NEW a, NEW k,
             Follows(q, rs[e], i, e, a, k)
      PROVE  Follows(q, ss[e], i, e, a, k)
  <2>1. (ss[e].active => Held(ss[e], a, k - 1))
          \/ ~(rs[e].active => Held(rs[e], a, k - 1))
    OBVIOUS
  <2> QED BY <1>1, <2>1 DEF Follows
<1>2. ASSUME NEW i \in 1 .. Len(q)
      PROVE  /\ q[i].ecu \in Ecu
             /\ Fits(h, q, ss[q[i].ecu], i, q[i].ecu, q[i].frame)
  <2>1. q[i].ecu \in Ecu
        /\ Fits(g, q, rs[q[i].ecu], i, q[i].ecu, q[i].frame)
    BY DEF Orderly
  <2> QED BY <1>1, <2>1 DEF Fits
<1>3. ASSUME NEW e \in Ecu, InAnswer(ks[e])
      PROVE  Coming(h, q, ss[e], e, ks[e])
  <2>1. PICK a \in g : /\ Long(a) /\ js[e].frames = Frames(a)
                       /\ js[e].next \in 2 .. Len(Split(a))
                       /\ Follows(q, rs[e], Len(q) + 1, e, a, js[e].next)
    BY <1>3 DEF Orderly, Coming
  <2> QED BY <1>1, <1>3, <2>1 DEF Coming
<1> QED BY <1>2, <1>3 DEF Orderly, Coming

\* ECU e sends a frame.
LEMMA OrderlySent ==
  ASSUME NEW g, NEW q, IsSequence(q), NEW rs, NEW js, NEW ks, NEW e \in Ecu,
         NEW f, Orderly(g, q, rs, js),
         Fits(g, q, rs[e], Len(q) + 1, e, f),
         \A d \in Ecu : d # e => ks[d] = js[d],
         InAnswer(ks[e]) =>
           \E a \in g : /\ Long(a) /\ ks[e].frames = Frames(a)
                        /\ ks[e].next \in 2 .. Len(Split(a))
                        /\ f = Frames(a)[ks[e].next - 1]
  PROVE  Orderly(g, Append(q, [ecu |-> e, frame |-> f]), rs, ks)
<1>1. PICK p : p = Append(q, [ecu |-> e, frame |-> f])
  OBVIOUS
<1>2. /\ Len(q) \in Nat /\ Len(p) = Len(q) + 1
      /\ \A i \in 1 .. Len(q) : p[i] = q[i]
      /\ p[Len(q) + 1].ecu = e /\ p[Len(q) + 1].frame = f
      /\ \A i \in 1 .. Len(p) : i \in 1 .. Len(q) \/ i = Len(q) + 1
  BY <1>1, AppendIs
<1>3. ASSUME NEW r, NEW i \in 1 .. Len(q) + 1, NEW d, NEW a, NEW k,
             Follows(q, r, i, d, a, k)
      PROVE  Follows(p, r, i, d, a, k)
  <2>1. \A j \in 1 .. i - 1 : j \in 1 .. Len(q) /\ p[j] = q[j]
    BY <1>2
  <2>2. \A j \in 1 .. i - 1 : \A l \in j + 1 .. i - 1 : p[l] = q[l]
    BY <2>1
  <2> QED BY <1>3, <2>1, <2>2 DEF Follows
<1>4. ASSUME NEW r, NEW i \in 1 .. Len(q) + 1, NEW d, NEW b,
             Fits(g, q, r, i, d, b)
      PROVE  Fits(g, p, r, i, d, b)
  BY <1>3, <1>4 DEF Fits
<1>5. ASSUME NEW i \in 1 .. Len(p)
      PROVE  /\ p[i].ecu \in Ecu
             /\ Fits(g, p, rs[p[i].ecu], i, p[i].ecu, p[i].frame)
  <2>1. CASE i \in 1 .. Len(q)
    <3>1. /\ q[i].ecu \in Ecu
          /\ Fits(g, q, rs[q[i].ecu], i, q[i].ecu, q[i].frame)
      BY <2>1 DEF Orderly
    <3>2. i \in 1 .. Len(q) + 1 /\ p[i] = q[i]
      BY <1>2, <2>1
    <3> QED BY <1>4, <3>1, <3>2
  <2>2. CASE i = Len(q) + 1
    <3>1. i \in 1 .. Len(q) + 1
      BY <1>2, <2>2
    <3>2. Fits(g, p, rs[e], i, e, f)
      BY <1>4, <2>2, <3>1
    <3> QED BY <1>2, <2>2, <3>2
  <2> QED BY <1>2, <2>1, <2>2
<1>6. ASSUME NEW d \in Ecu, d # e, InAnswer(ks[d])
      PROVE  Coming(g, p, rs[d], d, ks[d])
  <2>1. PICK a \in g : /\ Long(a) /\ js[d].frames = Frames(a)
                       /\ js[d].next \in 2 .. Len(Split(a))
                       /\ Follows(q, rs[d], Len(q) + 1, d, a, js[d].next)
    BY <1>6 DEF Orderly, Coming
  <2>2. Follows(p, rs[d], Len(p) + 1, d, a, js[d].next)
    <3>1. CASE \E j \in 1 .. Len(q) :
                 /\ q[j].ecu = d /\ q[j].frame = Frames(a)[js[d].next - 1]
                 /\ \A l \in j + 1 .. Len(q) : q[l].ecu # d
      <4>1. PICK j \in 1 .. Len(q) :
                 /\ q[j].ecu = d /\ q[j].frame = Frames(a)[js[d].next - 1]
                 /\ \A l \in j + 1 .. Len(q) : q[l].ecu # d
        BY <3>1
      <4>2. j \in 1 .. Len(p) + 1 - 1 /\ p[j] = q[j]
        BY <1>2
      <4>3. \A l \in j + 1 .. Len(p) + 1 - 1 : p[l].ecu # d
        BY <1>2, <1>6, <4>1
      <4> QED BY <4>1, <4>2, <4>3 DEF Follows
    <3>2. CASE /\ \A j \in 1 .. Len(q) : q[j].ecu # d
               /\ rs[d].active => Held(rs[d], a, js[d].next - 1)
      <4>1. \A l \in 1 .. Len(p) + 1 - 1 : p[l].ecu # d
        BY <1>2, <1>6, <3>2
      <4> QED BY <3>2, <4>1 DEF Follows
    <3>3. Len(q) + 1 - 1 = Len(q)
      BY <1>2
    <3> QED BY <2>1, <3>1, <3>2, <3>3 DEF Follows
  <2> QED BY <1>6, <2>1, <2>2 DEF Coming
<1>7. ASSUME InAnswer(ks[e])
      PROVE  Coming(g, p, rs[e], e, ks[e])
  <2>1. PICK a \in g : /\ Long(a) /\ ks[e].frames = Frames(a)
                       /\ ks[e].next \in 2 .. Len(Split(a))
                       /\ f = Frames(a)[ks[e].next - 1]
    BY <1>7
  <2>2. Follows(p, rs[e], Len(p) + 1, e, a, ks[e].next)
    <3>1. Len(p) \in 1 .. Len(p) + 1 - 1 /\ p[Len(p)].ecu = e
          /\ p[Len(p)].frame = f
      BY <1>2
    <3>2. \A l \in Len(p) + 1 .. Len(p) + 1 - 1 : p[l].ecu # e
      BY <1>2
    <3> QED BY <2>1, <3>1, <3>2 DEF Follows
  <2> QED BY <2>1, <2>2 DEF Coming
<1> QED BY <1>1, <1>5, <1>6, <1>7 DEF Orderly, Coming

\* The tester takes the first frame of its queue, or drops it.
LEMMA OrderlyRead ==
  ASSUME NEW g, \A a \in g : Said(a), NEW q, IsSequence(q), q # <<>>,
         NEW rs, NEW ss, NEW js, Orderly(g, q, rs, js),
         \A d \in Ecu : d # Head(q).ecu => ss[d] = rs[d],
         \/ ss[Head(q).ecu] = Feed(rs[Head(q).ecu], Head(q).frame).r
         \/ ~ss[Head(q).ecu].active
  PROVE  Orderly(g, Tail(q), ss, js)
<1>1. PICK p : p = Tail(q)
  OBVIOUS
<1>2. PICK e, f : e = q[1].ecu /\ f = q[1].frame
  OBVIOUS
<1>3. /\ Len(p) \in Nat /\ Len(q) = Len(p) + 1 /\ Head(q) = q[1]
      /\ \A i \in 1 .. Len(p) : p[i] = q[i + 1]
  BY <1>1, TailIs
<1>4. e \in Ecu /\ Fits(g, q, rs[e], 1, e, f)
  <2>1. 1 \in 1 .. Len(q)
    BY <1>3
  <2> QED BY <1>2, <2>1 DEF Orderly
<1>5. ASSUME NEW a \in g, NEW k \in 2 .. Len(Split(a)), Long(a),
             f = Frames(a)[k - 1], ss[e].active
      PROVE  Held(ss[e], a, k - 1)
  <2>1. ss[e] = Feed(rs[e], f).r
    BY <1>2, <1>3, <1>5
  <2> QED BY <1>4, <1>5, <2>1, HeadFed
<1>6. ASSUME NEW i \in 1 .. Len(p) + 1, NEW d \in Ecu, NEW a \in g, Long(a),
             NEW k \in 2 .. Len(Split(a)), Follows(q, rs[d], i + 1, d, a, k)
      PROVE  Follows(p, ss[d], i, d, a, k)
  <2>1. CASE \E j \in 1 .. i + 1 - 1 :
               /\ q[j].ecu = d /\ q[j].frame = Frames(a)[k - 1]
               /\ \A l \in j + 1 .. i + 1 - 1 : q[l].ecu # d
    <3>1. PICK j \in 1 .. i + 1 - 1 :
               /\ q[j].ecu = d /\ q[j].frame = Frames(a)[k - 1]
               /\ \A l \in j + 1 .. i + 1 - 1 : q[l].ecu # d
      BY <2>1
    <3>2. \A l \in 1 .. i - 1 : p[l] = q[l + 1] /\ l + 1 \in 2 .. i + 1 - 1
      BY <1>3
    <3>3. CASE j = 1
      <4>1. \A l \in 1 .. i - 1 : p[l].ecu # d
        BY <3>1, <3>2, <3>3
      <4>2. d = e /\ f = Frames(a)[k - 1]
        BY <1>2, <3>1, <3>3
      <4> QED BY <1>5, <1>6, <4>1, <4>2 DEF Follows
    <3>4. CASE j # 1
      <4>1. PICK m \in 1 .. i - 1 : j = m + 1
        <5>1. j \in 1 .. i + 1 - 1
          BY <3>1
        <5>2. j - 1 \in 1 .. i - 1 /\ j = (j - 1) + 1
          BY <1>3, <3>4, <5>1
        <5> QED BY <5>2
      <4>2. p[m].ecu = d /\ p[m].frame = Frames(a)[k - 1]
        BY <3>1, <3>2, <4>1
      <4>3. \A l \in m + 1 .. i - 1 :
              p[l] = q[l + 1] /\ l + 1 \in j + 1 .. i + 1 - 1
        BY <3>1, <3>2, <4>1
      <4>4. \A l \in m + 1 .. i - 1 : p[l].ecu # d
        BY <3>1, <4>3
      <4> QED BY <4>2, <4>4 DEF Follows
    <3> QED BY <3>3, <3>4
  <2>2. CASE /\ \A j \in 1 .. i + 1 - 1 : q[j].ecu # d
             /\ rs[d].active => Held(rs[d], a, k - 1)
    <3>1. 1 \in 1 .. i + 1 - 1
      BY <1>3
    <3>2. d # e
      BY <1>2, <2>2, <3>1
    <3>3. ss[d] = rs[d]
      BY <1>2, <1>3, <3>2
    <3>4. \A l \in 1 .. i - 1 : p[l] = q[l + 1] /\ l + 1 \in 1 .. i + 1 - 1
      BY <1>3
    <3>5. \A l \in 1 .. i - 1 : p[l].ecu # d
      BY <2>2, <3>4
    <3> QED BY <2>2, <3>3, <3>5 DEF Follows
  <2> QED BY <1>6, <2>1, <2>2 DEF Follows
<1>7. ASSUME NEW i \in 1 .. Len(p)
      PROVE  /\ p[i].ecu \in Ecu
             /\ Fits(g, p, ss[p[i].ecu], i, p[i].ecu, p[i].frame)
  <2>1. PICK d, b : d = p[i].ecu /\ b = p[i].frame
    OBVIOUS
  <2>2. i + 1 \in 1 .. Len(q) /\ q[i + 1] = p[i] /\ i \in 1 .. Len(p) + 1
    BY <1>3
  <2>3. d \in Ecu /\ Fits(g, q, rs[d], i + 1, d, b)
    BY <2>1, <2>2 DEF Orderly
  <2>4. ASSUME NEW a \in g, NEW k \in 1 .. Len(Split(a)), Long(a), k > 1,
               Follows(q, rs[d], i + 1, d, a, k)
        PROVE  Follows(p, ss[d], i, d, a, k)
    <3>1. a.len \in Nat
      BY DEF Said
    <3>2. k \in 2 .. Len(Split(a))
      BY <2>4, <3>1, SplitIs
    <3> QED BY <1>6, <2>2, <2>3, <2>4, <3>2
  <2> QED BY <2>1, <2>3, <2>4 DEF Fits
<1>8. ASSUME NEW d \in Ecu, InAnswer(js[d])
      PROVE  Coming(g, p, ss[d], d, js[d])
  <2>1. PICK a \in g : /\ Long(a) /\ js[d].frames = Frames(a)
                       /\ js[d].next \in 2 .. Len(Split(a))
                       /\ Follows(q, rs[d], Len(q) + 1, d, a, js[d].next)
    BY <1>8 DEF Orderly, Coming
  <2>2. Len(p) + 1 \in 1 .. Len(p) + 1 /\ Len(p) + 1 + 1 = Len(q) + 1
    BY <1>3
  <2>3. Follows(p, ss[d], Len(p) + 1, d, a, js[d].next)
    BY <1>6, <2>1, <2>2
  <2> QED BY <2>1, <2>3 DEF Coming
<1> QED BY <1>1, <1>7, <1>8 DEF Orderly, Coming

-----------------------------------------------------------------------------
(* The invariant                                                           *)

IsJob(j) == j = [pc |-> j.pc, left |-> j.left, frames |-> j.frames,
                 next |-> j.next, bs |-> j.bs, i |-> j.i]
IsCall(c) == /\ c = [pc |-> c.pc, n |-> c.n, req |-> c.req, out |-> c.out,
                     rx |-> c.rx, result |-> c.result]
             /\ c.rx = [e \in Ecu |-> c.rx[e]]

\* What is in the sequence s.
Among(s) == {s[i] : i \in 1 .. Len(s)}

\* The Receivers of a tester; it starts with new ones in each call.
Hears(t) == IF call[t].pc = "receiving" THEN call[t].rx ELSE NoCall.rx

Bench ==
  /\ world \in Worlds
  /\ queue = [x \in Ecu \cup Tester |-> queue[x]]
  /\ stored \in [Ecu -> Nat]
  /\ job = [e \in Ecu |-> job[e]] /\ call = [t \in Tester |-> call[t]]
  /\ \A a \in gave : Said(a)

Serves(e) ==
  /\ IsJob(job[e])
  /\ job[e].pc = "reply" => \E a \in gave : job[e].frames = Frames(a)

Listens(t) ==
  /\ IsCall(call[t])
  /\ world.calls[t] = 0 => call[t] = NoCall
  /\ world.calls[t] > 0 => /\ IsSequence(queue[t])
                           /\ Orderly(gave, queue[t], Hears(t), job)
  /\ call[t].pc = "sendFC" => call[t].rx = NoCall.rx
  /\ \A e \in Ecu : call[t].pc = "receiving" /\ call[t].rx[e].active =>
       call[t].req.to \in {e, Everyone}
  /\ IsSequence(call[t].out)
  /\ \A x \in Among(call[t].out) : Whole(x)

MixInv == Bench /\ (\A e \in Ecu : Serves(e)) /\ \A t \in Tester : Listens(t)

LEMMA WorldIs ==
  ASSUME world \in Worlds
  PROVE  /\ world.calls \in [Tester -> Nat] /\ world.codes \in [Ecu -> Nat]
         /\ Ecu \cap Tester = {} /\ Everyone \notin Ecu
BY BenchAssumption DEF World

LEMMA AmongIs ==
  /\ Among(<<>>) = {}
  /\ \A s, x : IsSequence(s) => /\ IsSequence(Append(s, x))
                                /\ Among(Append(s, x)) = Among(s) \cup {x}
<1>1. Among(<<>>) = {}
  BY DEF Among
<1>2. ASSUME NEW s, NEW x, IsSequence(s)
      PROVE  /\ IsSequence(Append(s, x))
             /\ Among(Append(s, x)) = Among(s) \cup {x}
  <2>1. PICK n, d : n = Len(s) /\ d = Append(s, x)
    OBVIOUS
  <2>2. /\ IsSequence(d) /\ Len(d) = n + 1 /\ d[n + 1] = x /\ n \in Nat
        /\ \A i \in 1 .. n : d[i] = s[i]
    BY <1>2, <2>1, AppendIs
  <2>3. \A i : i \in 1 .. n + 1 <=> i \in 1 .. n \/ i = n + 1
    BY <2>2
  <2> QED BY <2>1, <2>2, <2>3 DEF Among
<1> QED BY <1>1, <1>2

LEMMA NoCallIs ==
  /\ IsCall(NoCall) /\ NoCall.pc = "idle" /\ NoCall.n = 0
  /\ NoCall.out = <<>> /\ Among(NoCall.out) = {} /\ IsSequence(NoCall.out)
  /\ NoCall.rx = [e \in Ecu |-> NewReceiver]
  /\ \A e \in Ecu : ~NoCall.rx[e].active
BY NewIsIdle, AmongIs, NoneIsSequence DEF IsCall, NoCall

LEMMA ListeningIs == IsJob(Listening) /\ Listening.pc = "receive"
                       /\ ~InAnswer(Listening)
BY DEF IsJob, Listening, InAnswer

\* Nothing is queued for the testers.
LEMMA QuietKeeps ==
  ASSUME MixInv, world' = world, call' = call, gave \subseteq gave',
         \A t \in Tester : queue'[t] = queue[t],
         \A e \in Ecu : job'[e] = job[e] \/ ~InAnswer(job'[e])
                         \/ /\ InAnswer(job[e])
                            /\ job'[e].frames = job[e].frames
                            /\ job'[e].next = job[e].next
  PROVE  \A t \in Tester : Listens(t)'
<1> SUFFICES ASSUME NEW t \in Tester PROVE Listens(t)'
  OBVIOUS
<1>1. Listens(t) /\ Hears(t)' = Hears(t)
  BY DEF MixInv, Hears
<1>2. \A x : Whole(x) => Whole(x)'
  BY DEF Whole
<1>3. ASSUME world.calls[t] > 0
      PROVE  Orderly(gave', queue[t], Hears(t), job')
  <2>1. \A e \in Ecu : \/ ~InAnswer(job'[e])
                       \/ /\ InAnswer(job[e])
                          /\ job'[e].frames = job[e].frames
                          /\ job'[e].next = job[e].next
    OBVIOUS
  <2>2. Orderly(gave, queue[t], Hears(t), job)
    BY <1>1, <1>3 DEF Listens
  <2> QED BY <2>1, <2>2, OrderlyWeakens
<1> QED BY <1>1, <1>2, <1>3 DEF Listens

\* ECU e queues a frame for them.
LEMMA SentKeeps ==
  ASSUME MixInv, world' = world, call' = call, gave \subseteq gave',
         NEW e \in Ecu, NEW f, NEW q,
         DOMAIN q = Ecu \cup Tester, \A t \in Tester : q[t] = queue[t],
         queue' = ToTesters(q, e, f),
         \A d \in Ecu : d # e => job'[d] = job[d],
         \A t \in Tester : world.calls[t] > 0 =>
           /\ Fits(gave, queue[t], Hears(t)[e], Len(queue[t]) + 1, e, f)
           /\ InAnswer(job'[e]) =>
                \E a \in gave : /\ Long(a) /\ job'[e].frames = Frames(a)
                                /\ job'[e].next \in 2 .. Len(Split(a))
                                /\ f = Frames(a)[job'[e].next - 1]
  PROVE  /\ \A t \in Tester : Listens(t)'
         /\ queue' = [x \in Ecu \cup Tester |-> queue'[x]]
<1>1. queue' = [x \in Ecu \cup Tester |-> queue'[x]]
  BY DEF ToTesters
<1> SUFFICES ASSUME NEW t \in Tester PROVE Listens(t)'
  BY <1>1
<1>2. Listens(t) /\ Hears(t)' = Hears(t)
  BY DEF MixInv, Hears
<1>3. \A x : Whole(x) => Whole(x)'
  BY DEF Whole
<1>4. ASSUME world.calls[t] > 0
      PROVE  IsSequence(queue'[t])
             /\ Orderly(gave', queue'[t], Hears(t), job')
  <2>1. IsSequence(queue[t]) /\ Orderly(gave, queue[t], Hears(t), job)
    BY <1>2, <1>4 DEF Listens
  <2>2. queue'[t] = Append(queue[t], [ecu |-> e, frame |-> f])
    BY <1>4 DEF ToTesters
  <2>3. Orderly(gave, queue'[t], Hears(t), job')
    BY <1>4, <2>1, <2>2, OrderlySent
  <2>4. \A d \in Ecu : \/ ~InAnswer(job'[d])
                       \/ /\ InAnswer(job'[d])
                          /\ job'[d].frames = job'[d].frames
                          /\ job'[d].next = job'[d].next
    OBVIOUS
  <2>5. \A d \in Ecu : Hears(t)[d] = Hears(t)[d] \/ ~Hears(t)[d].active
    OBVIOUS
  <2>6. Orderly(gave', queue'[t], Hears(t), job')
    BY <2>3, <2>4, <2>5, OrderlyWeakens
  <2> QED BY <2>1, <2>2, <2>6, AppendIs
<1> QED BY <1>2, <1>3, <1>4 DEF Listens

\* A step of tester t.
LEMMA TripKeeps ==
  ASSUME MixInv, world' = world, ecuVars' = ecuVars, NEW t \in Tester,
         NEW q, q = [x \in Ecu \cup Tester |-> q[x]], queue' = q,
         \A d \in Tester : d # t => q[d] = queue[d],
         NEW c, call' = [call EXCEPT ![t] = c], Listens(t)'
  PROVE  MixInv'
<1>1. Bench'
  <2>1. queue' = [x \in Ecu \cup Tester |-> queue'[x]]
    OBVIOUS
  <2>2. call' = [d \in Tester |-> call'[d]]
    BY DEF MixInv, Bench
  <2> QED BY <2>1, <2>2 DEF MixInv, Bench, ecuVars
<1>2. \A e \in Ecu : Serves(e)'
  BY DEF MixInv, Serves, ecuVars
<1>3. ASSUME NEW d \in Tester, d # t PROVE Listens(d)'
  <2>1. call'[d] = call[d] /\ queue'[d] = queue[d] /\ Listens(d)
    BY <1>3 DEF MixInv, Bench
  <2>2. Hears(d)' = Hears(d)
    BY <2>1 DEF Hears
  <2>3. \A x : Whole(x)' <=> Whole(x)
    BY DEF Whole, ecuVars
  <2> QED BY <2>1, <2>2, <2>3 DEF Listens, ecuVars
<1> QED BY <1>1, <1>2, <1>3 DEF MixInv

-----------------------------------------------------------------------------
(* The steps of a tester                                                   *)

LEMMA QueuesAre ==
  ASSUME world \in Worlds, NEW q, q = [x \in Ecu \cup Tester |-> q[x]],
         NEW to, NEW f
  PROVE  /\ ToEcus(q, to, f)
              = [x \in Ecu \cup Tester |-> ToEcus(q, to, f)[x]]
         /\ \A t \in Tester : ToEcus(q, to, f)[t] = q[t]
<1>1. Ecu \cap Tester = {} /\ DOMAIN q = Ecu \cup Tester
  BY WorldIs
<1> QED BY <1>1 DEF ToEcus

LEMMA RestIs ==
  ASSUME Bench, NEW x \in Ecu \cup Tester
  PROVE  /\ Rest(x) = [y \in Ecu \cup Tester |-> Rest(x)[y]]
         /\ Rest(x)[x] = Tail(queue[x])
         /\ \A y \in Ecu \cup Tester : y # x => Rest(x)[y] = queue[y]
BY DEF Bench, Rest

LEMMA MixedCall ==
  ASSUME MixInv, NEW t \in Tester, NEW a \in world.asks, Call(t, a)
  PROVE  MixInv'
<1>1. Bench /\ Listens(t) /\ world \in Worlds
  BY DEF MixInv, Bench
<1>2. call[t].pc = "idle" /\ call[t].n < world.calls[t]
      /\ world' = world /\ ecuVars' = ecuVars
  BY DEF Call
<1>3. world.calls[t] # 0 /\ world.calls[t] > 0
  <2>1. world.calls[t] \in Nat
    BY <1>1, WorldIs
  <2>2. world.calls[t] # 0
    BY <1>1, <1>2, NoCallIs DEF Listens
  <2> QED BY <2>1, <2>2
<1>4. PICK m : m = [by |-> t, n |-> call[t].n + 1, svc |-> a.svc,
                    id |-> a.id, to |-> a.to, len |-> a.len]
  OBVIOUS
<1>5. PICK c : /\ call' = [call EXCEPT ![t] = c]
               /\ IsCall(c) /\ c.rx = NoCall.rx
               /\ c.out = NoCall.out
  <2>1. PICK new : new = [NoCall EXCEPT !.n = m.n, !.req = m]
    OBVIOUS
  <2>2. \/ call' = [call EXCEPT ![t] = [new EXCEPT !.result = "error"]]
        \/ call' = [call EXCEPT ![t] =
                      [new EXCEPT !.pc = IF m.len > SFMax THEN "sendFC"
                                         ELSE "receiving"]]
    BY <1>4, <2>1 DEF Call
  <2>3. PICK b : b = NoCall
    OBVIOUS
  <2>4. IsCall(b) /\ b.rx = NoCall.rx /\ b.out = NoCall.out
    BY <2>3, NoCallIs
  <2>5. IsCall(new) /\ new.rx = b.rx /\ new.out = b.out
    BY <2>1, <2>3, <2>4 DEF IsCall
  <2>6. \A y, d : d = [new EXCEPT !.result = y] \/ d = [new EXCEPT !.pc = y]
                 => IsCall(d) /\ d.rx = new.rx /\ d.out = new.out
    BY <2>5 DEF IsCall
  <2> QED BY <2>2, <2>4, <2>5, <2>6
<1>6. PICK q : /\ queue' = q /\ q = [x \in Ecu \cup Tester |-> q[x]]
               /\ \A d \in Tester : q[d] = queue[d]
  <2>1. queue' = queue \/ queue' = ToEcus(queue, m.to, Frames(m)[1])
    BY <1>4 DEF Call
  <2> QED BY <1>1, <2>1, QueuesAre DEF Bench
<1>7. call'[t] = c
  BY <1>1, <1>5 DEF Bench
<1>8. Hears(t)' = NoCall.rx /\ Hears(t) = NoCall.rx
  BY <1>2, <1>5, <1>7 DEF Hears
<1>9. Listens(t)'
  <2>1. IsSequence(queue[t]) /\ Orderly(gave, queue[t], NoCall.rx, job)
    BY <1>1, <1>3, <1>8 DEF Listens
  <2>2. /\ \A e \in Ecu : ~call'[t].rx[e].active
        /\ IsSequence(call'[t].out) /\ Among(call'[t].out) = {}
    BY <1>5, <1>7, NoCallIs
  <2> QED BY <1>2, <1>3, <1>5, <1>6, <1>7, <1>8, <2>1, <2>2
          DEF Listens, ecuVars
<1> QED BY <1>2, <1>5, <1>6, <1>9, TripKeeps

LEMMA MixedTakeFlowControl ==
  ASSUME MixInv, NEW t \in Tester, TakeFlowControl(t)
  PROVE  MixInv'
<1>1. Bench /\ Listens(t) /\ world \in Worlds
  BY DEF MixInv, Bench
<1>2. /\ call[t].pc = "sendFC" /\ queue[t] # <<>>
      /\ world' = world /\ ecuVars' = ecuVars
  BY DEF TakeFlowControl
<1>3. world.calls[t] # 0 /\ world.calls[t] > 0
  <2>1. world.calls[t] \in Nat
    BY <1>1, WorldIs
  <2>2. world.calls[t] # 0
    BY <1>1, <1>2, NoCallIs DEF Listens
  <2> QED BY <2>1, <2>2
<1>4. PICK c : /\ call' = [call EXCEPT ![t] = c]
               /\ IsCall(c) /\ c.rx = NoCall.rx /\ c.out = call[t].out
  <2>1. call' = call \/ call' = [call EXCEPT ![t].pc = "receiving"]
    BY DEF TakeFlowControl
  <2>2. call' = [call EXCEPT ![t] = call[t]]
        \/ call' = [call EXCEPT ![t] = [call[t] EXCEPT !.pc = "receiving"]]
    BY <1>1, <2>1 DEF Bench
  <2>3. PICK b : b = call[t]
    OBVIOUS
  <2>4. IsCall(b) /\ b.rx = NoCall.rx
    BY <1>1, <1>2, <2>3 DEF Listens
  <2>5. PICK d : d = [b EXCEPT !.pc = "receiving"]
    OBVIOUS
  <2>6. IsCall(d) /\ d.rx = NoCall.rx /\ d.out = b.out
    BY <2>4, <2>5 DEF IsCall
  <2> QED BY <2>2, <2>3, <2>4, <2>5, <2>6
<1>5. PICK q : /\ queue' = q /\ q = [x \in Ecu \cup Tester |-> q[x]]
               /\ q[t] = Tail(queue[t])
               /\ \A d \in Tester : d # t => q[d] = queue[d]
  <2>1. queue' = Rest(t)
          \/ \E to, f : queue' = ToEcus(Rest(t), to, f)
    BY DEF TakeFlowControl
  <2> QED BY <1>1, <2>1, RestIs, QueuesAre
<1>6. call'[t] = c
  BY <1>1, <1>4 DEF Bench
<1>7. Hears(t)' = NoCall.rx /\ Hears(t) = NoCall.rx
  BY <1>2, <1>4, <1>6 DEF Hears
<1>8. IsSequence(queue[t]) /\ Orderly(gave, queue[t], NoCall.rx, job)
  BY <1>1, <1>3, <1>7 DEF Listens
<1>9. IsSequence(q[t])
  BY <1>2, <1>5, <1>8, TailIs
<1>10. Orderly(gave, q[t], NoCall.rx, job)
  <2>1. PICK e : e = Head(queue[t]).ecu
    OBVIOUS
  <2>2. e \in Ecu
    <3>1. PICK p : p = queue[t]
      OBVIOUS
    <3>2. Head(p) = p[1] /\ 1 \in 1 .. Len(p)
      BY <1>2, <1>8, <3>1, TailIs
    <3> QED BY <1>8, <2>1, <3>1, <3>2 DEF Orderly
  <2>3. ~NoCall.rx[e].active
    BY <2>2, NoCallIs
  <2>4. \A a \in gave : Said(a)
    BY <1>1 DEF Bench
  <2>5. PICK p : p = queue[t]
    OBVIOUS
  <2>6. PICK rs : rs = NoCall.rx
    OBVIOUS
  <2>7. IsSequence(p) /\ p # <<>> /\ Orderly(gave, p, rs, job)
        /\ ~rs[Head(p).ecu].active
    BY <1>2, <1>8, <2>1, <2>3, <2>5, <2>6
  <2>8. Orderly(gave, Tail(p), rs, job)
    BY <2>4, <2>7, OrderlyRead
  <2> QED BY <1>5, <2>5, <2>6, <2>8
<1>11. Listens(t)'
  <2>1. \A e \in Ecu : ~call'[t].rx[e].active
    BY <1>4, <1>6, NoCallIs
  <2>2. \A x : Whole(x)' <=> Whole(x)
    BY <1>2 DEF Whole, ecuVars
  <2>3. /\ IsSequence(call'[t].out)
        /\ \A x \in Among(call'[t].out) : Whole(x)'
    BY <1>1, <1>4, <1>6, <2>2 DEF Listens
  <2> QED BY <1>2, <1>3, <1>4, <1>5, <1>6, <1>7, <1>9, <1>10, <2>1, <2>3
          DEF Listens, ecuVars
<1> QED BY <1>2, <1>4, <1>5, <1>11, TripKeeps

LEMMA MixedReturn ==
  ASSUME MixInv, NEW t \in Tester, Return(t)
  PROVE  MixInv'
<1>1. Bench /\ Listens(t) /\ world \in Worlds
  BY DEF MixInv, Bench
<1>2. world' = world /\ ecuVars' = ecuVars /\ queue' = queue
  BY DEF Return
<1>3. PICK c : /\ call' = [call EXCEPT ![t] = c]
               /\ IsCall(c) /\ c.pc = "idle" /\ c.out = call[t].out
  <2>1. call[t].pc # "idle"
    BY DEF Return
  <2>2. PICK y : call' = [call EXCEPT ![t].pc = "idle", ![t].result = y]
    BY DEF Return
  <2>3. PICK b : b = call[t]
    OBVIOUS
  <2>4. IsCall(b)
    BY <1>1, <2>3 DEF Listens
  <2>5. PICK d : d = [b EXCEPT !.pc = "idle", !.result = y]
    OBVIOUS
  <2>6. IsCall(d) /\ d.pc = "idle" /\ d.out = b.out
    BY <2>4, <2>5 DEF IsCall
  <2>7. call' = [call EXCEPT ![t] = d]
    BY <1>1, <2>2, <2>3, <2>5 DEF Bench
  <2> QED BY <2>1, <2>3, <2>6, <2>7, NoCallIs
<1>4. call'[t] = c
  BY <1>1, <1>3 DEF Bench
<1>5. Hears(t)' = NoCall.rx
  BY <1>3, <1>4 DEF Hears
<1>6. ASSUME world.calls[t] > 0
      PROVE  IsSequence(queue[t]) /\ Orderly(gave, queue[t], NoCall.rx, job)
  <2>1. IsSequence(queue[t]) /\ Orderly(gave, queue[t], Hears(t), job)
    BY <1>1, <1>6 DEF Listens
  <2>2. \A e \in Ecu : \/ ~InAnswer(job[e])
                       \/ /\ InAnswer(job[e])
                          /\ job[e].frames = job[e].frames
                          /\ job[e].next = job[e].next
    OBVIOUS
  <2>3. \A e \in Ecu : NoCall.rx[e] = Hears(t)[e] \/ ~NoCall.rx[e].active
    BY NoCallIs
  <2> QED BY <2>1, <2>2, <2>3, OrderlyWeakens
<1>7. Listens(t)'
  <2>1. \A x : Whole(x)' <=> Whole(x)
    BY <1>2 DEF Whole, ecuVars
  <2>2. /\ IsSequence(call'[t].out)
        /\ \A x \in Among(call'[t].out) : Whole(x)'
    BY <1>1, <1>3, <1>4, <2>1 DEF Listens
  <2>3. world.calls[t] # 0
    <3>1. call[t].pc # "idle"
      BY DEF Return
    <3> QED BY <1>1, <3>1, NoCallIs DEF Listens
  <2> QED BY <1>2, <1>3, <1>4, <1>5, <1>6, <2>2, <2>3 DEF Listens, ecuVars
<1>8. queue = [x \in Ecu \cup Tester |-> queue[x]]
  BY <1>1 DEF Bench
<1> QED BY <1>2, <1>3, <1>7, <1>8, TripKeeps

\* The first frame is an ECU's, in the order of the queue.
LEMMA HeadIs ==
  ASSUME NEW g, NEW q, IsSequence(q), q # <<>>, NEW rs, NEW js,
         Orderly(g, q, rs, js)
  PROVE  /\ Head(q).ecu \in Ecu
         /\ Fits(g, q, rs[Head(q).ecu], 1, Head(q).ecu, Head(q).frame)
<1>1. Head(q) = q[1] /\ 1 \in 1 .. Len(q)
  BY TailIs
<1> QED BY <1>1 DEF Orderly

LEMMA MixedTakeFrame ==
  ASSUME MixInv, NEW t \in Tester, TakeFrame(t)
  PROVE  MixInv'
<1>1. Bench /\ Listens(t) /\ world \in Worlds
  BY DEF MixInv, Bench
<1>2. /\ call[t].pc = "receiving" /\ queue[t] # <<>>
      /\ world' = world /\ ecuVars' = ecuVars
  BY DEF TakeFrame
<1>3. world.calls[t] # 0 /\ world.calls[t] > 0
  <2>1. world.calls[t] \in Nat
    BY <1>1, WorldIs
  <2>2. world.calls[t] # 0
    BY <1>1, <1>2, NoCallIs DEF Listens
  <2> QED BY <2>1, <2>2
<1>4. PICK c : c = call[t]
  OBVIOUS
<1>5. /\ IsCall(c) /\ Hears(t) = c.rx /\ IsSequence(c.out)
      /\ \A x \in Among(c.out) : Whole(x)
  BY <1>1, <1>2, <1>4 DEF Listens, Hears
<1>6. IsSequence(queue[t]) /\ Orderly(gave, queue[t], c.rx, job)
  BY <1>1, <1>3, <1>5 DEF Listens
<1>7. PICK e, f : e = Head(queue[t]).ecu /\ f = Head(queue[t]).frame
  OBVIOUS
<1>8. e \in Ecu /\ Fits(gave, queue[t], c.rx[e], 1, e, f)
  BY <1>2, <1>6, <1>7, HeadIs
<1>9. PICK fed : fed = Feed(c.rx[e], f)
  OBVIOUS
<1>10. \A a \in gave : Said(a)
  BY <1>1 DEF Bench
<1>11. /\ fed.err = "nil"
       /\ fed.msg # NoMessage => fed.msg.parts[1].msg.kind = "pending"
                                 \/ Whole(fed.msg)
  <2>1. fed.err = "nil" /\ (\/ fed.msg = NoMessage \/ IsPending(fed.msg)
                             \/ IsOf(gave, fed.msg))
    BY <1>8, <1>9, <1>10, HeadFed
  <2>2. /\ IsOf(gave, fed.msg) => Whole(fed.msg)
        /\ IsPending(fed.msg) => fed.msg.parts[1].msg.kind = "pending"
    BY DEF Whole, IsOf, IsPending, Bytes
  <2> QED BY <2>1, <2>2
<1>12. \A x : Whole(x)' <=> Whole(x)
  BY <1>2 DEF Whole, ecuVars
<1>13. PICK q : /\ queue' = q /\ q = [x \in Ecu \cup Tester |-> q[x]]
                /\ q[t] = Tail(queue[t])
                /\ \A d \in Tester : d # t => q[d] = queue[d]
  <2>1. queue' = Rest(t)
          \/ \E to, b : queue' = ToEcus(Rest(t), to, b)
    BY DEF TakeFrame
  <2> QED BY <1>1, <2>1, RestIs, QueuesAre
<1>14. IsSequence(q[t])
  BY <1>2, <1>6, <1>13, TailIs
<1>15. ASSUME NEW rs, \A d \in Ecu : d # e => rs[d] = c.rx[d],
              rs[e] = fed.r \/ ~rs[e].active
       PROVE  Orderly(gave, q[t], rs, job)
  <2>1. PICK p : p = queue[t]
    OBVIOUS
  <2>2. PICK ss : ss = c.rx
    OBVIOUS
  <2>3. /\ IsSequence(p) /\ p # <<>> /\ Orderly(gave, p, ss, job)
        /\ e = Head(p).ecu /\ f = Head(p).frame
    BY <1>2, <1>6, <1>7, <2>1, <2>2
  <2>4. Orderly(gave, Tail(p), rs, job)
    <3>1. \A d \in Ecu : d # Head(p).ecu => rs[d] = ss[d]
      BY <1>15, <2>2, <2>3
    <3>2. \/ rs[Head(p).ecu] = Feed(ss[Head(p).ecu], Head(p).frame).r
          \/ ~rs[Head(p).ecu].active
      BY <1>9, <1>15, <2>2, <2>3
    <3> QED BY <1>10, <2>3, <3>1, <3>2, OrderlyRead
  <2> QED BY <1>13, <2>1, <2>4
<1>16. CASE c.req.to \notin {e, Everyone}
  <2>1. call' = [call EXCEPT ![t] = c]
    <3>1. call' = call
      BY <1>4, <1>7, <1>16 DEF TakeFrame
    <3> QED BY <1>1, <1>4, <3>1 DEF Bench
  <2>2. call'[t] = c
    BY <1>1, <2>1 DEF Bench
  <2>3. ~c.rx[e].active
    BY <1>1, <1>2, <1>4, <1>8, <1>16 DEF Listens
  <2>4. Orderly(gave, q[t], c.rx, job)
    BY <1>15, <2>3
  <2>5. Hears(t)' = c.rx
    BY <1>2, <1>4, <2>2 DEF Hears
  <2>6. Listens(t)'
    BY <1>1, <1>2, <1>3, <1>4, <1>5, <1>12, <1>13, <1>14, <2>2, <2>4, <2>5
       DEF Listens, ecuVars
  <2> QED BY <1>2, <1>13, <2>1, <2>6, TripKeeps
<1>17. CASE c.req.to \in {e, Everyone}
  <2>1. PICK mine \in BOOLEAN :
          /\ mine => /\ fed.msg # NoMessage
                     /\ fed.msg.parts[1].msg.kind # "pending"
          /\ call' = [call EXCEPT ![t] =
               IF mine
               THEN [c EXCEPT !.rx[e] = fed.r, !.out = Append(@, fed.msg),
                              !.pc = IF c.req.to = e THEN "idle" ELSE @,
                              !.result = IF c.req.to = e THEN "ok" ELSE @]
               ELSE [c EXCEPT !.rx[e] = fed.r]]
    BY <1>4, <1>7, <1>9, <1>11, <1>17 DEF TakeFrame
  <2>2. PICK d : d = IF mine
               THEN [c EXCEPT !.rx[e] = fed.r, !.out = Append(@, fed.msg),
                              !.pc = IF c.req.to = e THEN "idle" ELSE @,
                              !.result = IF c.req.to = e THEN "ok" ELSE @]
               ELSE [c EXCEPT !.rx[e] = fed.r]
    OBVIOUS
  <2>3. call' = [call EXCEPT ![t] = d] /\ call'[t] = d
    BY <1>1, <2>1, <2>2 DEF Bench
  <2>4. PICK rs : rs = [c.rx EXCEPT ![e] = fed.r]
    OBVIOUS
  <2>5. /\ IsCall(d) /\ d.rx = rs /\ d.req = c.req
        /\ d.pc \in {"idle", "receiving"}
        /\ d.out = c.out \/ (mine /\ d.out = Append(c.out, fed.msg))
    <3>1. c.pc = "receiving"
      BY <1>2, <1>4
    <3>2. /\ c = [pc |-> c.pc, n |-> c.n, req |-> c.req, out |-> c.out,
                  rx |-> c.rx, result |-> c.result]
          /\ c.rx = [x \in Ecu |-> c.rx[x]]
      BY <1>5 DEF IsCall
    <3>3. rs = [x \in Ecu |-> rs[x]]
      BY <2>4, <3>2
    <3>4. CASE mine
      <4>1. PICK pc, res, out :
              /\ pc \in {"idle", "receiving"} /\ out = Append(c.out, fed.msg)
              /\ d = [pc |-> pc, n |-> c.n, req |-> c.req, out |-> out,
                      rx |-> rs, result |-> res]
        <5> DEFINE pc == IF c.req.to = e THEN "idle" ELSE c.pc
                   res == IF c.req.to = e THEN "ok" ELSE c.result
        <5>1. d = [c EXCEPT !.rx[e] = fed.r, !.out = Append(@, fed.msg),
                            !.pc = pc, !.result = res]
          BY <2>2, <3>4
        <5>2. pc \in {"idle", "receiving"}
          BY <3>1
        <5> HIDE DEF pc, res
        <5>3. d = [pc |-> pc, n |-> c.n, req |-> c.req,
                   out |-> Append(c.out, fed.msg), rx |-> rs, result |-> res]
          BY <2>4, <3>2, <5>1
        <5> QED BY <5>2, <5>3
      <4> QED BY <3>2, <3>3, <3>4, <4>1 DEF IsCall
    <3>5. CASE ~mine
      <4>1. d = [pc |-> c.pc, n |-> c.n, req |-> c.req, out |-> c.out,
                 rx |-> rs, result |-> c.result]
        <5>1. d = [c EXCEPT !.rx[e] = fed.r]
          BY <2>2, <3>5
        <5> QED BY <2>4, <3>2, <5>1
      <4> QED BY <3>1, <3>2, <3>3, <4>1 DEF IsCall
    <3> QED BY <3>4, <3>5
  <2>6. rs[e] = fed.r /\ \A x \in Ecu : x # e => rs[x] = c.rx[x]
    BY <1>5, <1>8, <2>4 DEF IsCall
  <2>7. Orderly(gave, q[t], rs, job)
    BY <1>15, <2>6
  <2>8. Orderly(gave, q[t], Hears(t)', job)
    <3>1. Hears(t)' = rs \/ Hears(t)' = NoCall.rx
      BY <2>3, <2>5 DEF Hears
    <3>2. Orderly(gave, q[t], NoCall.rx, job)
      <4>1. \A x \in Ecu : \/ ~InAnswer(job[x])
                           \/ /\ InAnswer(job[x])
                              /\ job[x].frames = job[x].frames
                              /\ job[x].next = job[x].next
        OBVIOUS
      <4>2. \A x \in Ecu : NoCall.rx[x] = rs[x] \/ ~NoCall.rx[x].active
        BY NoCallIs
      <4> QED BY <2>7, <4>1, <4>2, OrderlyWeakens
    <3> QED BY <2>7, <3>1, <3>2
  <2>9. \A x \in Ecu : d.rx[x].active => d.req.to \in {x, Everyone}
    <3>1. \A x \in Ecu : c.rx[x].active => c.req.to \in {x, Everyone}
      BY <1>1, <1>2, <1>4 DEF Listens
    <3> QED BY <1>17, <2>5, <2>6, <3>1
  <2>10. IsSequence(d.out) /\ \A x \in Among(d.out) : Whole(x)'
    <3>1. \/ d.out = c.out
          \/ /\ mine /\ IsSequence(d.out)
             /\ Among(d.out) = Among(c.out) \cup {fed.msg}
      <4>1. PICK l, x, o : l = c.out /\ x = fed.msg /\ o = d.out
        OBVIOUS
      <4>2. IsSequence(l) /\ (o = l \/ (mine /\ o = Append(l, x)))
        BY <1>5, <2>5, <4>1
      <4>3. \/ o = l
            \/ mine /\ IsSequence(o) /\ Among(o) = Among(l) \cup {x}
        BY <4>2, AmongIs
      <4> QED BY <4>1, <4>3
    <3>2. IsSequence(d.out)
      BY <1>5, <3>1
    <3>3. mine => Whole(fed.msg)
      BY <1>11, <2>1
    <3>4. ASSUME NEW x \in Among(d.out) PROVE Whole(x)
      BY <1>5, <3>1, <3>3
    <3> QED BY <1>12, <3>2, <3>4
  <2>11. Listens(t)'
    <3>1. d.pc # "sendFC"
      BY <2>5
    <3> QED BY <1>2, <1>3, <1>13, <1>14, <2>3, <2>5, <2>8, <2>9, <2>10, <3>1
            DEF Listens, ecuVars
  <2> QED BY <1>2, <1>13, <2>3, <2>11, TripKeeps
<1> QED BY <1>16, <1>17

-----------------------------------------------------------------------------
(* The steps of an ECU                                                     *)

LEMMA AnswerIs ==
  ASSUME Bench, NEW e \in Ecu, NEW req, NEW fn
  PROVE  AnswerTo(e, req, fn) = Silence \/ Said(AnswerTo(e, req, fn))
<1>1. world.codes[e] \in Nat /\ stored[e] \in Nat
  BY WorldIs DEF Bench
<1>2. ASSUME NEW kind \in {"positive", "negative"}, NEW list,
             NEW len \in Nat \ {0}
      PROVE  Said(Reply(e, req, kind, list, len))
  BY DEF Said, Reply
<1>3. ASSUME NEW list, NEW n \in Nat
      PROVE  Said(DTCResponse(e, req, list, n))
  <2>1. 2 + 2 * n \in Nat \ {0}
    OBVIOUS
  <2> QED BY <1>2, <2>1 DEF DTCResponse
<1>4. \A svc : Size(svc) \in Nat \ {0}
  BY DEF Size
<1>5. Negative(e, req, fn) = Silence \/ Said(Negative(e, req, fn))
  BY <1>2 DEF Negative
<1>6. Said(Reply(e, req, "positive", <<>>, 1))
      /\ Said(Reply(e, req, "positive", <<req.svc, req.id>>, Size(req.svc)))
  BY <1>2, <1>4
<1>7. /\ Said(DTCResponse(e, req, "stored", stored[e]))
      /\ Said(DTCResponse(e, req, "pending", stored[e]))
      /\ Said(DTCResponse(e, req, "permanent", world.codes[e]))
  BY <1>1, <1>3
<1> QED BY <1>5, <1>6, <1>7 DEF AnswerTo

\* What a complete request changes.
LEMMA Answered ==
  ASSUME Bench, \A d \in Ecu : Serves(d), world' = world, NEW e \in Ecu,
         NEW req, NEW fn, Answering(e, req, fn), job[e].pc = "receive"
  PROVE  /\ stored' \in [Ecu -> Nat] /\ job' = [d \in Ecu |-> job'[d]]
         /\ gave \subseteq gave' /\ \A a \in gave' : Said(a)
         /\ \A d \in Ecu : Serves(d)'
         /\ \A d \in Ecu : d # e => job'[d] = job[d]
         /\ ~InAnswer(job'[e])
<1>1. PICK a : a = AnswerTo(e, req, fn)
  OBVIOUS
<1>2. stored' \in [Ecu -> Nat]
  BY DEF Answering, Bench
<1>3. ~InAnswer(job[e])
  BY DEF InAnswer
<1>4. CASE a = Silence
  <2>1. job' = job /\ gave' = gave
    BY <1>1, <1>4 DEF Answering
  <2> QED BY <1>2, <1>3, <2>1 DEF Bench, Serves
<1>5. CASE a # Silence
  <2>1. Said(a)
    BY <1>1, <1>5, AnswerIs
  <2>2. gave' = gave \cup {a}
    BY <1>1, <1>5 DEF Answering
  <2>3. PICK left : job' = [job EXCEPT ![e] =
          [Listening EXCEPT !.pc = "reply", !.frames = Frames(a),
                            !.left = left]]
    BY <1>1, <1>5 DEF Answering
  <2>4. PICK j : j = [Listening EXCEPT !.pc = "reply", !.frames = Frames(a),
                                       !.left = left]
    OBVIOUS
  <2>5. IsJob(j) /\ j.pc = "reply" /\ j.frames = Frames(a)
    BY <2>4 DEF IsJob, Listening
  <2>6. job = [d \in Ecu |-> job[d]] /\ job' = [job EXCEPT ![e] = j]
    BY <2>3, <2>4 DEF Bench
  <2>7. /\ job' = [d \in Ecu |-> job'[d]] /\ job'[e] = j
        /\ \A d \in Ecu : d # e => job'[d] = job[d]
    BY <2>6
  <2>8. \A d \in Ecu : Serves(d)'
    BY <2>2, <2>5, <2>7 DEF Serves
  <2>9. \A b \in gave' : Said(b)
    BY <2>1, <2>2 DEF Bench
  <2> QED BY <1>2, <2>2, <2>5, <2>7, <2>8, <2>9 DEF InAnswer
<1> QED BY <1>4, <1>5

LEMMA RestForEcu ==
  ASSUME Bench, NEW e \in Ecu
  PROVE  /\ Rest(e) = [x \in Ecu \cup Tester |-> Rest(e)[x]]
         /\ DOMAIN Rest(e) = Ecu \cup Tester
         /\ \A t \in Tester : Rest(e)[t] = queue[t]
<1>1. Ecu \cap Tester = {}
  BY BenchAssumption
<1> QED BY <1>1, RestIs

LEMMA MixedServeFunctional ==
  ASSUME MixInv, NEW e \in Ecu, ServeFunctional(e)
  PROVE  MixInv'
<1>1. Bench /\ \A d \in Ecu : Serves(d)
  BY DEF MixInv
<1>2. PICK req : Answering(e, req, TRUE)
  BY DEF ServeFunctional
<1>3. /\ job[e].pc = "receive" /\ queue' = Rest(e)
      /\ world' = world /\ call' = call
  BY DEF ServeFunctional
<1>4. /\ stored' \in [Ecu -> Nat] /\ job' = [d \in Ecu |-> job'[d]]
      /\ gave \subseteq gave' /\ \A a \in gave' : Said(a)
      /\ \A d \in Ecu : Serves(d)'
      /\ \A d \in Ecu : d # e => job'[d] = job[d]
      /\ ~InAnswer(job'[e])
  BY <1>1, <1>2, <1>3, Answered
<1>5. Bench'
  BY <1>1, <1>3, <1>4, RestForEcu DEF Bench
<1>6. \A t \in Tester : queue'[t] = queue[t]
  BY <1>1, <1>3, RestForEcu
<1>7. \A t \in Tester : Listens(t)'
  BY <1>3, <1>4, <1>6, QuietKeeps
<1> QED BY <1>4, <1>5, <1>7 DEF MixInv

LEMMA MixedServePhysical ==
  ASSUME MixInv, NEW e \in Ecu, ServePhysical(e)
  PROVE  MixInv'
<1>1. Bench /\ \A d \in Ecu : Serves(d)
  BY DEF MixInv
<1>2. PICK fed : fed = Feed(rx[e], Head(queue[e]).frame)
  OBVIOUS
<1>3. /\ job[e].pc = "receive"
      /\ queue' = IF fed.fc = NoFrame THEN Rest(e)
                  ELSE ToTesters(Rest(e), e, fed.fc)
      /\ \/ UNCHANGED <<stored, job, gave>>
         \/ Answering(e, fed.msg.parts[1].msg, FALSE)
      /\ world' = world /\ call' = call
  BY <1>2 DEF ServePhysical
<1>4. /\ stored' \in [Ecu -> Nat] /\ job' = [d \in Ecu |-> job'[d]]
      /\ gave \subseteq gave' /\ \A a \in gave' : Said(a)
      /\ \A d \in Ecu : Serves(d)'
      /\ \A d \in Ecu : d # e => job'[d] = job[d]
      /\ ~InAnswer(job'[e])
  <2>1. CASE UNCHANGED <<stored, job, gave>>
    BY <1>1, <1>3, <2>1 DEF Bench, Serves, InAnswer
  <2>2. CASE Answering(e, fed.msg.parts[1].msg, FALSE)
    BY <1>1, <1>3, <2>2, Answered
  <2> QED BY <1>3, <2>1, <2>2
<1>5. CASE fed.fc = NoFrame
  <2>1. queue' = Rest(e)
    BY <1>3, <1>5
  <2>2. \A t \in Tester : queue'[t] = queue[t]
    BY <1>1, <2>1, RestForEcu
  <2>3. \A t \in Tester : Listens(t)'
    BY <1>3, <1>4, <2>2, QuietKeeps
  <2>4. Bench'
    BY <1>1, <1>3, <1>4, <2>1, RestForEcu DEF Bench
  <2> QED BY <1>4, <2>3, <2>4 DEF MixInv
<1>6. CASE fed.fc # NoFrame
  <2>1. PICK f : f = fed.fc /\ f.pci = "FC"
    BY <1>2, <1>6, FeedControls
  <2>2. PICK q : q = Rest(e)
    OBVIOUS
  <2>3. DOMAIN q = Ecu \cup Tester /\ \A t \in Tester : q[t] = queue[t]
    BY <1>1, <2>2, RestForEcu
  <2>4. queue' = ToTesters(q, e, f)
    BY <1>3, <1>6, <2>1, <2>2
  <2>5. \A t \in Tester :
          Fits(gave, queue[t], Hears(t)[e], Len(queue[t]) + 1, e, f)
    BY <2>1 DEF Fits
  <2>6. /\ \A t \in Tester : Listens(t)'
        /\ queue' = [x \in Ecu \cup Tester |-> queue'[x]]
    BY <1>3, <1>4, <2>3, <2>4, <2>5, SentKeeps
  <2>7. Bench'
    BY <1>1, <1>3, <1>4, <2>6 DEF Bench
  <2> QED BY <1>4, <2>6, <2>7 DEF MixInv
<1> QED BY <1>5, <1>6

\* A step of ECU e that leaves its answers and those of others as they are.
LEMMA WorkKeeps ==
  ASSUME MixInv, NEW e \in Ecu, NEW j, job' = [job EXCEPT ![e] = j],
         IsJob(j),
         j.pc = "reply" =>
           job[e].pc = "reply" /\ j.frames = job[e].frames,
         UNCHANGED <<world, stored, gave, call>>,
         queue' = [x \in Ecu \cup Tester |-> queue'[x]],
         \A t \in Tester : Listens(t)'
  PROVE  MixInv'
<1>1. Bench /\ \A d \in Ecu : Serves(d)
  BY DEF MixInv
<1>2. /\ job' = [d \in Ecu |-> job'[d]] /\ job'[e] = j
      /\ \A d \in Ecu : d # e => job'[d] = job[d]
  BY <1>1 DEF Bench
<1>3. \A d \in Ecu : Serves(d)'
  BY <1>1, <1>2 DEF Serves
<1>4. Bench'
  BY <1>1, <1>2 DEF Bench
<1> QED BY <1>3, <1>4 DEF MixInv

\* The same, nothing being sent.
LEMMA QuietWork ==
  ASSUME MixInv, NEW e \in Ecu, NEW j, job' = [job EXCEPT ![e] = j],
         IsJob(j), j.pc # "reply",
         \/ ~InAnswer(j)
         \/ /\ InAnswer(job[e]) /\ j.frames = job[e].frames
            /\ j.next = job[e].next,
         UNCHANGED <<world, stored, gave, call>>,
         queue' = queue \/ queue' = Rest(e)
  PROVE  MixInv'
<1>1. Bench /\ queue = [x \in Ecu \cup Tester |-> queue[x]]
  BY DEF MixInv, Bench
<1>2. queue' = [x \in Ecu \cup Tester |-> queue'[x]]
      /\ \A t \in Tester : queue'[t] = queue[t]
  BY <1>1, RestForEcu
<1>3. job'[e] = j /\ \A d \in Ecu : d # e => job'[d] = job[d]
  BY <1>1 DEF Bench
<1>4. \A t \in Tester : Listens(t)'
  <2>1. gave \subseteq gave' /\ world' = world /\ call' = call
    OBVIOUS
  <2>2. \A d \in Ecu : job'[d] = job[d] \/ ~InAnswer(job'[d])
                         \/ /\ InAnswer(job[d])
                            /\ job'[d].frames = job[d].frames
                            /\ job'[d].next = job[d].next
    BY <1>3
  <2> QED BY <1>2, <2>1, <2>2, QuietKeeps
<1> QED BY <1>2, <1>4, WorkKeeps

LEMMA FirstNames ==
  ASSUME NEW a, Said(a)
  PROVE  Frames(a)[1].msg = a
<1>1. a.len \in Nat \ {0}
  BY DEF Said
<1>2. CASE Long(a)
  <2>1. PICK f : f = FirstFrame(a, a.len, FALSE)
    OBVIOUS
  <2>2. f.msg = a
    BY <2>1 DEF FirstFrame
  <2> QED BY <1>1, <1>2, <2>1, <2>2, FramesOfLong
<1>3. CASE ~Long(a)
  <2>1. PICK f : f = SingleFrame(a, a.len)
    OBVIOUS
  <2>2. f.msg = a
    BY <2>1 DEF SingleFrame
  <2> QED BY <1>1, <1>3, <2>1, <2>2, FramesOfShort
<1> QED BY <1>2, <1>3

LEMMA QueueIs ==
  ASSUME Bench
  PROVE  DOMAIN queue = Ecu \cup Tester
BY DEF Bench

LEMMA MixedSendPending ==
  ASSUME MixInv, NEW e \in Ecu, SendPending(e)
  PROVE  MixInv'
<1>1. Bench /\ Serves(e)
  BY DEF MixInv
<1>2. PICK a \in gave : job[e].frames = Frames(a)
  BY <1>1 DEF Serves, SendPending
<1>3. Said(a)
  BY <1>1 DEF Bench
<1>4. PICK f : f = SingleFrame([a EXCEPT !.kind = "pending"], 3)
  OBVIOUS
<1>5. f.pci = "SF" /\ f.len = 3 /\ f.msg.kind = "pending"
  <2>1. PICK b : b = [a EXCEPT !.kind = "pending"]
    OBVIOUS
  <2>2. b.kind = "pending"
    BY <1>3, <2>1 DEF Said
  <2>3. f = SingleFrame(b, 3)
    BY <1>4, <2>1
  <2> QED BY <2>2, <2>3 DEF SingleFrame
<1>6. queue' = ToTesters(queue, e, f)
  <2>1. job[e].frames[1].msg = a
    BY <1>2, <1>3, FirstNames
  <2> QED BY <1>4, <2>1 DEF SendPending
<1>7. /\ job[e].pc = "reply" /\ UNCHANGED <<world, stored, gave, call>>
      /\ job' = [job EXCEPT ![e].left = @ - 1]
  BY DEF SendPending
<1>8. PICK j : /\ IsJob(j) /\ j.pc = "reply" /\ j.frames = job[e].frames
               /\ job' = [job EXCEPT ![e] = j]
  <2>1. PICK j : j = [job[e] EXCEPT !.left = @ - 1]
    OBVIOUS
  <2>2. PICK b : b = job[e]
    OBVIOUS
  <2>3. IsJob(b) /\ b.pc = "reply" /\ j = [b EXCEPT !.left = b.left - 1]
    BY <1>1, <1>7, <2>1, <2>2 DEF Serves
  <2>4. IsJob(j) /\ j.pc = "reply" /\ j.frames = b.frames
    BY <2>3 DEF IsJob
  <2>5. job' = [job EXCEPT ![e] = j]
    BY <1>1, <1>7, <2>1 DEF Bench
  <2> QED BY <2>2, <2>4, <2>5
<1>9. /\ job'[e] = j /\ \A d \in Ecu : d # e => job'[d] = job[d]
      /\ ~InAnswer(j)
  BY <1>1, <1>8 DEF Bench, InAnswer
<1>10. \A t \in Tester :
         Fits(gave, queue[t], Hears(t)[e], Len(queue[t]) + 1, e, f)
  BY <1>5 DEF Fits
<1>11. /\ \A t \in Tester : Listens(t)'
       /\ queue' = [x \in Ecu \cup Tester |-> queue'[x]]
  <2>1. gave \subseteq gave' /\ world' = world /\ call' = call
    BY <1>7
  <2>2. DOMAIN queue = Ecu \cup Tester
    BY <1>1, QueueIs
  <2> QED BY <1>6, <1>9, <1>10, <2>1, <2>2, SentKeeps
<1> QED BY <1>7, <1>8, <1>11, WorkKeeps

LEMMA MixedSendAnswer ==
  ASSUME MixInv, NEW e \in Ecu, SendAnswer(e)
  PROVE  MixInv'
<1>1. Bench /\ Serves(e)
  BY DEF MixInv
<1>2. PICK a \in gave : job[e].frames = Frames(a)
  BY <1>1 DEF Serves, SendAnswer
<1>3. Said(a) /\ a.len \in Nat \ {0}
  BY <1>1 DEF Bench, Said
<1>4. PICK f : f = Frames(a)[1]
  OBVIOUS
<1>5. /\ job[e].pc = "reply" /\ UNCHANGED <<world, stored, gave, call>>
      /\ queue' = ToTesters(queue, e, f)
      /\ job' = [job EXCEPT ![e] =
           IF Len(Frames(a)) = 1 THEN Listening
           ELSE [job[e] EXCEPT !.pc = "waitFC", !.next = 2]]
  <2>1. job' = [job EXCEPT ![e] =
           IF Len(@.frames) = 1 THEN Listening
           ELSE [@ EXCEPT !.pc = "waitFC", !.next = 2]]
    BY DEF SendAnswer
  <2>2. job' = [job EXCEPT ![e] =
           IF Len(job[e].frames) = 1 THEN Listening
           ELSE [job[e] EXCEPT !.pc = "waitFC", !.next = 2]]
    BY <1>1, <2>1 DEF Bench
  <2> QED BY <1>2, <1>4, <2>2 DEF SendAnswer
<1>6. PICK j : /\ IsJob(j) /\ job' = [job EXCEPT ![e] = j]
               /\ \/ ~InAnswer(j) /\ j.pc = "receive"
                  \/ /\ j.pc = "waitFC" /\ Len(Frames(a)) # 1
                     /\ j.frames = Frames(a) /\ j.next = 2
  <2>1. CASE Len(Frames(a)) = 1
    BY <1>5, <2>1, ListeningIs
  <2>2. CASE Len(Frames(a)) # 1
    <3>1. PICK b : b = job[e]
      OBVIOUS
    <3>2. PICK j : j = [b EXCEPT !.pc = "waitFC", !.next = 2]
      OBVIOUS
    <3>3. IsJob(b) /\ b.frames = Frames(a)
      BY <1>1, <1>2, <3>1 DEF Serves
    <3>4. IsJob(j) /\ j.pc = "waitFC" /\ j.frames = b.frames /\ j.next = 2
      BY <3>2, <3>3 DEF IsJob
    <3>5. job' = [job EXCEPT ![e] = j]
      BY <1>5, <2>2, <3>1, <3>2
    <3> QED BY <2>2, <3>3, <3>4, <3>5
  <2> QED BY <2>1, <2>2
<1>7. job'[e] = j /\ \A d \in Ecu : d # e => job'[d] = job[d]
  BY <1>1, <1>6 DEF Bench
<1>8. CASE Long(a)
  <2>1. /\ Len(Split(a)) \in Nat /\ Len(Split(a)) > 1
    BY <1>3, <1>8, SplitIs
  <2>2. 1 \in 1 .. Len(Split(a)) /\ 2 \in 2 .. Len(Split(a))
        /\ ~(1 > 1) /\ f = Frames(a)[2 - 1]
    BY <1>4, <2>1
  <2>3. \A t \in Tester :
          Fits(gave, queue[t], Hears(t)[e], Len(queue[t]) + 1, e, f)
    BY <1>4, <1>8, <2>2 DEF Fits
  <2>4. InAnswer(job'[e]) => /\ Long(a) /\ job'[e].frames = Frames(a)
                             /\ job'[e].next \in 2 .. Len(Split(a))
                             /\ f = Frames(a)[job'[e].next - 1]
    BY <1>6, <1>7, <1>8, <2>2
  <2>5. /\ \A t \in Tester : Listens(t)'
        /\ queue' = [x \in Ecu \cup Tester |-> queue'[x]]
    BY <1>1, <1>5, <1>7, <2>3, <2>4, QueueIs, SentKeeps
  <2> QED BY <1>5, <1>6, <2>5, WorkKeeps
<1>9. CASE ~Long(a)
  <2>1. f = SingleFrame(a, a.len) /\ Len(Frames(a)) = 1
    BY <1>3, <1>4, <1>9, FramesOfShort
  <2>2. \A t \in Tester :
          Fits(gave, queue[t], Hears(t)[e], Len(queue[t]) + 1, e, f)
    BY <1>9, <2>1 DEF Fits
  <2>3. ~InAnswer(j)
    BY <1>6, <2>1
  <2>4. /\ \A t \in Tester : Listens(t)'
        /\ queue' = [x \in Ecu \cup Tester |-> queue'[x]]
    BY <1>1, <1>5, <1>7, <2>2, <2>3, QueueIs, SentKeeps
  <2> QED BY <1>5, <1>6, <2>4, WorkKeeps
<1> QED BY <1>8, <1>9

LEMMA MixedSendConsecutive ==
  ASSUME MixInv, NEW e \in Ecu, SendConsecutive(e)
  PROVE  MixInv'
<1>1. Bench /\ Serves(e)
  BY DEF MixInv
<1>2. PICK b : b = job[e]
  OBVIOUS
<1>3. /\ b.pc = "block" /\ IsJob(b) /\ UNCHANGED <<world, stored, gave, call>>
      /\ queue' = ToTesters(queue, e, b.frames[b.next])
      /\ job' = [job EXCEPT ![e] = AfterFrame(b)]
  <2>1. job' = [job EXCEPT ![e] = AfterFrame(@)]
    BY DEF SendConsecutive
  <2> QED BY <1>1, <1>2, <2>1 DEF SendConsecutive, Serves, Bench
<1>4. PICK f : f = b.frames[b.next]
  OBVIOUS
<1>5. PICK j : /\ j = AfterFrame(b) /\ IsJob(j) /\ j.pc # "reply"
               /\ \/ ~InAnswer(j)
                  \/ /\ b.next # Len(b.frames) /\ j.frames = b.frames
                     /\ j.next = b.next + 1
  <2>1. PICK j : j = AfterFrame(b)
    OBVIOUS
  <2>2. CASE j = Listening
    BY <2>1, <2>2, ListeningIs
  <2>3. CASE b.next # Len(b.frames)
             /\ j = [b EXCEPT !.pc = "waitFC", !.next = b.next + 1]
    BY <1>3, <2>1, <2>3 DEF IsJob
  <2>4. CASE b.next # Len(b.frames)
             /\ j = [b EXCEPT !.next = b.next + 1, !.i = b.i + 1]
    BY <1>3, <2>1, <2>4 DEF IsJob
  <2> QED BY <2>1, <2>2, <2>3, <2>4 DEF AfterFrame
<1>6. job'[e] = j /\ \A d \in Ecu : d # e => job'[d] = job[d]
  BY <1>1, <1>3, <1>5 DEF Bench
<1>7. ASSUME NEW t \in Tester, world.calls[t] > 0
      PROVE  /\ Fits(gave, queue[t], Hears(t)[e], Len(queue[t]) + 1, e, f)
             /\ InAnswer(j) =>
                  \E a \in gave : /\ Long(a) /\ j.frames = Frames(a)
                                  /\ j.next \in 2 .. Len(Split(a))
                                  /\ f = Frames(a)[j.next - 1]
  <2>1. Orderly(gave, queue[t], Hears(t), job)
    BY <1>7 DEF MixInv, Listens
  <2>2. InAnswer(b)
    BY <1>3 DEF InAnswer
  <2>3. PICK a \in gave :
          /\ Long(a) /\ b.frames = Frames(a) /\ b.next \in 2 .. Len(Split(a))
          /\ Follows(queue[t], Hears(t)[e], Len(queue[t]) + 1, e, a, b.next)
    BY <1>2, <2>1, <2>2 DEF Orderly, Coming
  <2>4. a.len \in Nat /\ Len(Split(a)) \in Nat
        /\ Len(Frames(a)) = Len(Split(a))
    <3>1. a.len \in Nat
      BY <1>1 DEF Bench, Said
    <3> QED BY <2>3, <3>1, SplitIs, FramesOfLong
  <2>5. b.next \in 1 .. Len(Split(a)) /\ f = Frames(a)[b.next]
    BY <1>4, <2>3, <2>4
  <2>6. Fits(gave, queue[t], Hears(t)[e], Len(queue[t]) + 1, e, f)
    BY <2>3, <2>5 DEF Fits
  <2>7. b.next # Len(b.frames) => b.next + 1 \in 2 .. Len(Split(a))
          /\ (b.next + 1) - 1 = b.next
    BY <2>3, <2>4
  <2> QED BY <1>5, <2>3, <2>5, <2>6, <2>7
<1>8. /\ \A t \in Tester : Listens(t)'
      /\ queue' = [x \in Ecu \cup Tester |-> queue'[x]]
  BY <1>1, <1>3, <1>4, <1>6, <1>7, QueueIs, SentKeeps
<1> QED BY <1>3, <1>5, <1>8, WorkKeeps

LEMMA MixedReadFlowControl ==
  ASSUME MixInv, NEW e \in Ecu, ReadFlowControl(e)
  PROVE  MixInv'
<1>1. Bench /\ Serves(e) /\ job[e].pc = "waitFC"
  BY DEF MixInv, ReadFlowControl
<1>2. PICK b : b = job[e]
  OBVIOUS
<1>3. IsJob(b) /\ b.pc = "waitFC"
  BY <1>1, <1>2 DEF Serves
<1>4. PICK j : /\ job' = [job EXCEPT ![e] = j] /\ IsJob(j)
               /\ j.pc # "reply" /\ j.frames = b.frames /\ j.next = b.next
  <2>1. CASE job' = job
    BY <1>1, <1>2, <1>3, <2>1 DEF Bench
  <2>2. CASE job' # job
    <3>1. PICK bs : job' = [job EXCEPT ![e].pc = "block", ![e].i = 0,
                                       ![e].bs = bs]
      BY <2>2 DEF ReadFlowControl
    <3>2. PICK j : j = [b EXCEPT !.pc = "block", !.i = 0, !.bs = bs]
      OBVIOUS
    <3>3. IsJob(j) /\ j.pc = "block" /\ j.frames = b.frames
          /\ j.next = b.next
      BY <1>3, <3>2 DEF IsJob
    <3>4. job' = [job EXCEPT ![e] = j]
      BY <1>1, <1>2, <3>1, <3>2 DEF Bench
    <3> QED BY <3>3, <3>4
  <2> QED BY <2>1, <2>2
<1>5. InAnswer(job[e])
  BY <1>1 DEF InAnswer
<1>6. UNCHANGED <<world, stored, gave, call>> /\ queue' = Rest(e)
  BY DEF ReadFlowControl
<1> QED BY <1>2, <1>4, <1>5, <1>6, QuietWork

LEMMA MixedSendTimesOut ==
  ASSUME MixInv, NEW e \in Ecu, SendTimesOut(e)
  PROVE  MixInv'
<1>1. job' = [job EXCEPT ![e] = Listening]
      /\ UNCHANGED <<world, stored, gave, call>> /\ queue' = queue
  BY DEF SendTimesOut, AfterTimeout
<1> QED BY <1>1, ListeningIs, QuietWork

LEMMA MixedStop ==
  ASSUME MixInv, NEW e \in Ecu, Stop(e)
  PROVE  MixInv'
<1>1. PICK j : j = [Listening EXCEPT !.pc = "stopped"]
  OBVIOUS
<1>2. IsJob(j) /\ j.pc = "stopped"
  BY <1>1 DEF IsJob, Listening
<1>3. ~InAnswer(j)
  BY <1>2 DEF InAnswer
<1>4. job' = [job EXCEPT ![e] = j]
      /\ UNCHANGED <<world, stored, gave, call>> /\ queue' = queue
  BY <1>1 DEF Stop
<1> QED BY <1>2, <1>3, <1>4, QuietWork

-----------------------------------------------------------------------------
(* In every world a tester gets answers as ECUs gave them.                 *)

THEOREM MixInductive == Spec => []MixInv
<1>1. ASSUME Init PROVE MixInv
  <2>1. Bench
    <3>1. stored \in [Ecu -> Nat]
      BY <1>1, WorldIs DEF Init
    <3> QED BY <1>1, <3>1 DEF Init, Bench
  <2>2. \A e \in Ecu : Serves(e)
    BY <1>1, ListeningIs DEF Init, Serves
  <2>3. ASSUME NEW t \in Tester PROVE Listens(t)
    <3>1. queue[t] = <<>> /\ call[t] = NoCall
      BY <1>1 DEF Init
    <3>2. Orderly(gave, <<>>, Hears(t), job)
      <4>1. \A e \in Ecu : Coming(gave, <<>>, Hears(t)[e], e, job[e])
        BY <1>1, ListeningIs DEF Init, Coming
      <4>2. \A i \in 1 .. Len(<<>>) : FALSE
        OBVIOUS
      <4> QED BY <4>1, <4>2 DEF Orderly
    <3> QED BY <3>1, <3>2, NoCallIs, NoneIsSequence DEF Listens
  <2> QED BY <2>1, <2>2, <2>3 DEF MixInv
<1>2. ASSUME MixInv, [Next]_vars PROVE MixInv'
  <2>1. ASSUME NEW e \in Ecu, ServeStep(e) PROVE MixInv'
    BY <1>2, <2>1, MixedServeFunctional, MixedServePhysical,
       MixedSendPending, MixedSendAnswer, MixedReadFlowControl,
       MixedSendConsecutive, MixedSendTimesOut DEF ServeStep
  <2>2. ASSUME NEW e \in Ecu, Stop(e) PROVE MixInv'
    BY <1>2, <2>2, MixedStop
  <2>3. ASSUME NEW t \in Tester, TripStep(t) PROVE MixInv'
    BY <1>2, <2>3, MixedTakeFlowControl, MixedTakeFrame, MixedReturn
       DEF TripStep
  <2>4. ASSUME NEW t \in Tester, NEW a \in world.asks, Call(t, a)
        PROVE  MixInv'
    BY <1>2, <2>4, MixedCall
  <2>5. CASE UNCHANGED vars
    BY <1>2, <2>5 DEF vars, ecuVars, MixInv, Bench, Serves, Listens, Hears,
                      Whole
  <2> QED BY <1>2, <2>1, <2>2, <2>3, <2>4, <2>5 DEF Next
<1> QED BY <1>1, <1>2, PTL DEF Spec

\* What a tester returns is one answer of one ECU, whole, whatever was given
\* up, missed or read by another (CANTransport.roundTrip with ECU.Serve).
THEOREM NeverMixed == Spec => []NothingMixed
<1>1. MixInv => NothingMixed
  BY DEF MixInv, Listens, NothingMixed, Among
<1> QED BY <1>1, MixInductive, PTL

-----------------------------------------------------------------------------
(* A calm world with one tester: everybody who answers a call is heard     *)

\* Requests as Call makes them.
Proper(m) == /\ m.svc \in Services /\ m.len \in 1 .. FFData + CFData
             /\ m.to \in Ecu \cup {Everyone}
             /\ m.len > SFMax => m.to \in Ecu
Request(m, k) == [functional |-> m.to = Everyone, frame |-> Frames(m)[k]]

\* Queues of an ECU: with left-over flow control frames only, and x besides.
Control(x) == ~x.functional /\ x.frame.pci = "FC"
Clean(q) == \A i \in 1 .. Len(q) : Control(q[i])
Only(q, x) == \E i \in 1 .. Len(q) : /\ q[i] = x
                                     /\ \A j \in 1 .. Len(q) :
                                          j # i => Control(q[j])

AsksForTime(f) == f.pci = "SF" /\ f.len = 3 /\ f.msg.kind = "pending"

\* What ECU e has in queue q of a tester are requests for time and then the
\* frames l to k - 1 of a; the tester's Receiver r has those before.
Chain(q, r, e, a, k) ==
  \E l \in 1 .. k : \E pos \in [l .. k - 1 -> 1 .. Len(q)] :
    /\ \A i, j \in l .. k - 1 : i < j => pos[i] < pos[j]
    /\ \A i \in l .. k - 1 :
         q[pos[i]].ecu = e /\ q[pos[i]].frame = Frames(a)[i]
    /\ \A i \in 1 .. Len(q) : q[i].ecu = e =>
         \/ \E j \in l .. k - 1 : pos[j] = i
         \/ /\ l = 1 /\ AsksForTime(q[i].frame)
            /\ \A j \in l .. k - 1 : i < pos[j]
    /\ IF l = 1 THEN ~r.active ELSE Held(r, a, l - 1)

Mute(q, e) == \A i \in 1 .. Len(q) : q[i].ecu # e
Unheard(out, e) == \A i \in 1 .. Len(out) : Bytes(out[i]).ecu # e

IsAnswer(a, e, m) == a.ecu = e /\ a.to = m /\ e \in Answerers(m)

AtRest(e) == job[e].pc = "receive" /\ Clean(queue[e])

\* An ECU that is addressed has the request of tester t still to take,
Asked(e, t) ==
  LET c == call[t]
      m == call[t].req
  IN /\ job[e].pc = "receive" /\ m.to \in {e, Everyone}
     /\ IF m.len <= SFMax THEN Only(queue[e], Request(m, 1))
        ELSE Only(queue[e], Request(m, 2)) /\ Held(rx[e], m, 1)
     /\ Mute(queue[t], e) /\ ~c.rx[e].active /\ Unheard(c.out, e)

\* is at work on its answer, or has it on its way,
Sends(j, a, k) ==
  \/ j.pc = "reply" /\ j.frames = Frames(a) /\ k = 1
  \/ /\ InAnswer(j) /\ j.frames = Frames(a)
     /\ k = j.next /\ k \in 2 .. Len(Frames(a))
  \/ j.pc = "receive" /\ k = Len(Frames(a)) + 1
AtWork(q, r, e, j, a) ==
  \E k \in 1 .. Len(Frames(a)) + 1 : Chain(q, r, e, a, k) /\ Sends(j, a, k)
Working(e, t) ==
  LET c == call[t]
  IN /\ Clean(queue[e]) /\ Unheard(c.out, e)
     /\ \E a \in gave : /\ IsAnswer(a, e, c.req)
                        /\ AtWork(queue[t], c.rx[e], e, job[e], a)

\* was heard, or has nothing to say.
OneOf(out, e) ==
  \E i \in 1 .. Len(out) :
    \A j \in 1 .. Len(out) : Bytes(out[j]).ecu = e <=> j = i
Heard(e, t) == /\ AtRest(e) /\ Mute(queue[t], e)
               /\ e \in Answerers(call[t].req) /\ OneOf(call[t].out, e)
Silent(e, t) == /\ AtRest(e) /\ Mute(queue[t], e)
                /\ e \notin Answerers(call[t].req) /\ Unheard(call[t].out, e)

Stage(e, t) == Asked(e, t) \/ Working(e, t) \/ Heard(e, t) \/ Silent(e, t)

\* What a call returns.
Settled(c) ==
  \/ c.req.len > SFMax /\ c.req.to = Everyone /\ c.result = "error"
  \/ /\ \A x \in Among(c.out) : Bytes(x).to = c.req
     /\ {Bytes(x).ecu : x \in Among(c.out)} = Answerers(c.req)
     /\ \A i, j \in 1 .. Len(c.out) :
          Bytes(c.out[i]).ecu = Bytes(c.out[j]).ecu => i = j
     /\ c.result = (IF c.out = <<>> THEN "noResponse" ELSE "ok")

Resting(t) ==
  /\ queue[t] = <<>> /\ \A e \in Ecu : AtRest(e)
  /\ call[t].n > 0 => Settled(call[t])

Sending(t) ==
  LET m == call[t].req
  IN /\ m.len > SFMax /\ call[t].out = <<>>
     /\ \A e \in Ecu \ {m.to} : AtRest(e)
     /\ job[m.to].pc = "receive"
     /\ \/ queue[t] = <<>> /\ Only(queue[m.to], Request(m, 1))
        \/ /\ Len(queue[t]) = 1 /\ queue[t][1].ecu = m.to
           /\ queue[t][1].frame.pci = "FC"
           /\ Clean(queue[m.to]) /\ Held(rx[m.to], m, 1)

Receiving(t) ==
  /\ \A e \in Ecu : Stage(e, t)
  /\ \A x \in Among(call[t].out) : /\ Bytes(x).to = call[t].req
                                   /\ Bytes(x).ecu \in Ecu

Trip(t) ==
  \/ call[t].pc = "idle" /\ Resting(t)
  \/ /\ Proper(call[t].req) /\ call[t].n > 0
     /\ \/ call[t].pc = "sendFC" /\ Sending(t)
        \/ call[t].pc = "receiving" /\ Receiving(t)

Shapes ==
  /\ rx = [e \in Ecu |-> rx[e]]
  /\ \A x \in Ecu \cup Tester : IsSequence(queue[x])
  /\ \A t \in Tester : call[t].n \in Nat

CalmInv == world.calm => \A t \in Tester : world.calls[t] > 0 => Trip(t)

\* One more answer, and whose it is.
LEMMA Gathering ==
  ASSUME NEW s, IsSequence(s), NEW x, NEW d, d = Append(s, x)
  PROVE  /\ IsSequence(d) /\ d # <<>> /\ Among(d) = Among(s) \cup {x}
         /\ \A e : /\ Bytes(x).ecu # e /\ Unheard(s, e) => Unheard(d, e)
                   /\ Bytes(x).ecu # e /\ OneOf(s, e) => OneOf(d, e)
                   /\ Bytes(x).ecu = e /\ Unheard(s, e) => OneOf(d, e)
<1>1. PICK n : n = Len(s)
  OBVIOUS
<1>2. /\ Len(d) = n + 1 /\ d[n + 1] = x /\ n \in Nat
      /\ \A i \in 1 .. n : d[i] = s[i]
  BY <1>1, AppendIs
<1>3. /\ \A i : i \in 1 .. n + 1 <=> i \in 1 .. n \/ i = n + 1
      /\ n + 1 \in 1 .. n + 1 /\ n + 1 \notin 1 .. n
  BY <1>2
<1>4. d # <<>>
  BY <1>2, NoneIsSequence
<1>5. ASSUME NEW e
      PROVE  /\ Bytes(x).ecu # e /\ Unheard(s, e) => Unheard(d, e)
             /\ Bytes(x).ecu # e /\ OneOf(s, e) => OneOf(d, e)
             /\ Bytes(x).ecu = e /\ Unheard(s, e) => OneOf(d, e)
  <2>1. Bytes(x).ecu # e /\ Unheard(s, e) => Unheard(d, e)
    BY <1>1, <1>2, <1>3 DEF Unheard
  <2>2. ASSUME Bytes(x).ecu # e, OneOf(s, e) PROVE OneOf(d, e)
    <3>1. PICK i \in 1 .. n :
            \A j \in 1 .. n : Bytes(s[j]).ecu = e <=> j = i
      BY <1>1, <2>2 DEF OneOf
    <3>2. i \in 1 .. n + 1 /\ i # n + 1
      BY <1>3
    <3>3. \A j \in 1 .. n + 1 : Bytes(d[j]).ecu = e <=> j = i
      BY <1>2, <1>3, <2>2, <3>1, <3>2
    <3>4. i \in 1 .. Len(d)
      BY <1>2, <3>2
    <3>5. \A j \in 1 .. Len(d) : Bytes(d[j]).ecu = e <=> j = i
      BY <1>2, <3>3
    <3> QED BY <3>4, <3>5, Zenon DEF OneOf
  <2>3. ASSUME Bytes(x).ecu = e, Unheard(s, e) PROVE OneOf(d, e)
    <3>1. \A j \in 1 .. n + 1 : Bytes(d[j]).ecu = e <=> j = n + 1
      BY <1>1, <1>2, <1>3, <2>3 DEF Unheard
    <3> QED BY <1>2, <1>3, <3>1 DEF OneOf
  <2> QED BY <2>1, <2>2, <2>3
<1> QED BY <1>4, <1>5, AmongIs

LEMMA NoneHeard == \A e : Unheard(<<>>, e)
BY DEF Unheard

LEMMA CleanGrows ==
  ASSUME NEW q, IsSequence(q), NEW x
  PROVE  /\ Clean(q) /\ Control(x) => Clean(Append(q, x))
         /\ Clean(q) => Only(Append(q, x), x)
         /\ \A y : Only(q, y) /\ Control(x) => Only(Append(q, x), y)
<1>1. PICK p : p = Append(q, x)
  OBVIOUS
<1>2. /\ Len(q) \in Nat /\ Len(p) = Len(q) + 1
      /\ \A i \in 1 .. Len(q) : p[i] = q[i]
      /\ p[Len(q) + 1] = x
      /\ \A i \in 1 .. Len(p) : i \in 1 .. Len(q) \/ i = Len(q) + 1
  BY <1>1, AppendIs
<1>3. \A i \in 1 .. Len(q) : i \in 1 .. Len(p)
  BY <1>2
<1>4. Len(q) + 1 \in 1 .. Len(p)
  BY <1>2
<1>5. Clean(q) /\ Control(x) => Clean(p)
  BY <1>2 DEF Clean
<1>6. Clean(q) => Only(p, x)
  BY <1>2, <1>4 DEF Clean, Only
<1>7. ASSUME NEW y, Only(q, y), Control(x) PROVE Only(p, y)
  <2>1. PICK i \in 1 .. Len(q) : /\ q[i] = y
                                 /\ \A j \in 1 .. Len(q) :
                                      j # i => Control(q[j])
    BY <1>7 DEF Only
  <2>2. p[i] = y /\ \A j \in 1 .. Len(p) : j # i => Control(p[j])
    BY <1>2, <1>7, <2>1
  <2> QED BY <1>3, <2>2 DEF Only
<1> QED BY <1>1, <1>5, <1>6, <1>7

LEMMA CleanShrinks ==
  ASSUME NEW q, IsSequence(q), q # <<>>
  PROVE  /\ Clean(q) => Control(Head(q)) /\ Clean(Tail(q))
         /\ \A x : Only(q, x) => \/ Head(q) = x /\ Clean(Tail(q))
                                 \/ Control(Head(q)) /\ Only(Tail(q), x)
<1>1. PICK p : p = Tail(q)
  OBVIOUS
<1>2. /\ Len(p) \in Nat /\ Len(q) = Len(p) + 1 /\ Head(q) = q[1]
      /\ \A i \in 1 .. Len(p) : p[i] = q[i + 1]
  BY <1>1, TailIs
<1>3. 1 \in 1 .. Len(q)
      /\ \A i \in 1 .. Len(p) : i + 1 \in 1 .. Len(q) /\ i + 1 # 1
  BY <1>2
<1>4. Clean(q) => Control(Head(q)) /\ Clean(p)
  BY <1>2, <1>3 DEF Clean
<1>5. ASSUME NEW x, Only(q, x)
      PROVE  \/ Head(q) = x /\ Clean(p)
             \/ Control(Head(q)) /\ Only(p, x)
  <2>1. PICK i \in 1 .. Len(q) : /\ q[i] = x
                                 /\ \A j \in 1 .. Len(q) :
                                      j # i => Control(q[j])
    BY <1>5 DEF Only
  <2>2. CASE i = 1
    BY <1>2, <1>3, <2>1, <2>2 DEF Clean
  <2>3. CASE i # 1
    <3>1. PICK k \in 1 .. Len(p) : i = k + 1
      <4>1. i - 1 \in 1 .. Len(p) /\ i = (i - 1) + 1
        BY <1>2, <2>3
      <4> QED BY <4>1
    <3>2. p[k] = x
      BY <1>2, <2>1, <3>1
    <3>3. \A j \in 1 .. Len(p) : j # k => j + 1 # i
      BY <3>1
    <3>4. \A j \in 1 .. Len(p) : j # k => Control(p[j])
      BY <1>2, <1>3, <2>1, <3>3
    <3>5. Control(Head(q))
      BY <1>2, <1>3, <2>1, <2>3
    <3> QED BY <3>2, <3>4, <3>5 DEF Only
  <2> QED BY <2>2, <2>3
<1> QED BY <1>1, <1>4, <1>5

LEMMA MuteChanges ==
  ASSUME NEW q, IsSequence(q), NEW e, Mute(q, e)
  PROVE  /\ \A d, f : d # e => Mute(Append(q, [ecu |-> d, frame |-> f]), e)
         /\ q # <<>> => Mute(Tail(q), e) /\ Head(q).ecu # e
<1>1. ASSUME NEW d, NEW f, d # e
      PROVE  Mute(Append(q, [ecu |-> d, frame |-> f]), e)
  <2>1. PICK x : x = [ecu |-> d, frame |-> f]
    OBVIOUS
  <2>2. x.ecu = d
    BY <2>1
  <2>3. PICK p : p = Append(q, x)
    OBVIOUS
  <2>4. /\ Len(q) \in Nat /\ Len(p) = Len(q) + 1
        /\ \A i \in 1 .. Len(q) : p[i] = q[i]
        /\ p[Len(q) + 1] = x
        /\ \A i \in 1 .. Len(p) : i \in 1 .. Len(q) \/ i = Len(q) + 1
    BY <2>3, AppendIs
  <2>5. Mute(p, e)
    BY <1>1, <2>2, <2>4 DEF Mute
  <2> QED BY <2>1, <2>3, <2>5
<1>2. ASSUME q # <<>>
      PROVE  Mute(Tail(q), e) /\ Head(q).ecu # e
  <2>1. PICK p : p = Tail(q)
    OBVIOUS
  <2>2. /\ Len(p) \in Nat /\ Len(q) = Len(p) + 1 /\ Head(q) = q[1]
        /\ \A i \in 1 .. Len(p) : p[i] = q[i + 1]
    BY <1>2, <2>1, TailIs
  <2>3. 1 \in 1 .. Len(q) /\ \A i \in 1 .. Len(p) : i + 1 \in 1 .. Len(q)
    BY <2>2
  <2> QED BY <2>1, <2>2, <2>3 DEF Mute
<1> QED BY <1>1, <1>2

-----------------------------------------------------------------------------
(* Chains                                                                  *)

\* Chain, with its witnesses.
Linked(q, r, e, a, k, l, pos) ==
  /\ \A i, j \in l .. k - 1 : i < j => pos[i] < pos[j]
  /\ \A i \in l .. k - 1 : q[pos[i]].ecu = e /\ q[pos[i]].frame = Frames(a)[i]
  /\ \A i \in 1 .. Len(q) : q[i].ecu = e =>
       \/ \E j \in l .. k - 1 : pos[j] = i
       \/ /\ l = 1 /\ AsksForTime(q[i].frame)
          /\ \A j \in l .. k - 1 : i < pos[j]
  /\ IF l = 1 THEN ~r.active ELSE Held(r, a, l - 1)

LEMMA ChainIs ==
  ASSUME NEW q, NEW r, NEW e, NEW a, NEW k
  PROVE  Chain(q, r, e, a, k) <=>
           \E l \in 1 .. k : \E pos \in [l .. k - 1 -> 1 .. Len(q)] :
             Linked(q, r, e, a, k, l, pos)
BY DEF Chain, Linked

LEMMA ChainBegins ==
  ASSUME NEW q, NEW r, NEW e, NEW a, Mute(q, e), ~r.active
  PROVE  Chain(q, r, e, a, 1)
<1>1. PICK pos : pos = [i \in 1 .. 1 - 1 |-> 1]
  OBVIOUS
<1>2. pos \in [1 .. 1 - 1 -> 1 .. Len(q)]
  BY <1>1
<1>3. Linked(q, r, e, a, 1, 1, pos)
  BY DEF Linked, Mute
<1>4. 1 \in 1 .. 1
  OBVIOUS
<1> QED BY <1>2, <1>3, <1>4, ChainIs

\* A frame of another ECU, or a request for time, is queued behind it.
LEMMA ChainStays ==
  ASSUME NEW q, IsSequence(q), NEW r, NEW e, NEW a, NEW k \in Nat,
         Chain(q, r, e, a, k), NEW x,
         \/ x.ecu # e
         \/ x.ecu = e /\ AsksForTime(x.frame) /\ k = 1
  PROVE  Chain(Append(q, x), r, e, a, k)
<1>1. PICK p : p = Append(q, x)
  OBVIOUS
<1>2. /\ Len(q) \in Nat /\ Len(p) = Len(q) + 1
      /\ \A i \in 1 .. Len(q) : p[i] = q[i]
      /\ p[Len(q) + 1] = x
      /\ \A i \in 1 .. Len(p) : i \in 1 .. Len(q) \/ i = Len(q) + 1
  BY <1>1, AppendIs
<1>3. PICK l \in 1 .. k : \E pos \in [l .. k - 1 -> 1 .. Len(q)] :
        Linked(q, r, e, a, k, l, pos)
  BY ChainIs
<1>10. PICK pos \in [l .. k - 1 -> 1 .. Len(q)] :
         Linked(q, r, e, a, k, l, pos)
  BY <1>3
<1>4. /\ pos \in [l .. k - 1 -> 1 .. Len(p)]
      /\ \A i \in l .. k - 1 : p[pos[i]] = q[pos[i]]
  BY <1>2
<1>5. ASSUME NEW i \in 1 .. Len(p), p[i].ecu = e
      PROVE  \/ \E j \in l .. k - 1 : pos[j] = i
             \/ /\ l = 1 /\ AsksForTime(p[i].frame)
                /\ \A j \in l .. k - 1 : i < pos[j]
  <2>1. CASE i \in 1 .. Len(q)
    BY <1>2, <1>10, <1>5, <2>1 DEF Linked
  <2>2. CASE i = Len(q) + 1
    <3>1. p[i] = x /\ k = 1
      BY <1>2, <1>5, <2>2
    <3>2. l = 1 /\ \A j \in l .. k - 1 : FALSE
      BY <3>1
    <3> QED BY <1>5, <3>1, <3>2
  <2> QED BY <1>2, <2>1, <2>2
<1>6. Linked(p, r, e, a, k, l, pos)
  BY <1>10, <1>4, <1>5 DEF Linked
<1> QED BY <1>1, <1>4, <1>6, ChainIs

\* The next frame of the answer is.
LEMMA ChainGrows ==
  ASSUME NEW q, IsSequence(q), NEW r, NEW e, NEW a, NEW k \in Nat,
         Chain(q, r, e, a, k)
  PROVE  Chain(Append(q, [ecu |-> e, frame |-> Frames(a)[k]]), r, e, a,
               k + 1)
<1>1. PICK x : x = [ecu |-> e, frame |-> Frames(a)[k]]
  OBVIOUS
<1>2. x.ecu = e /\ x.frame = Frames(a)[k]
  BY <1>1
<1>3. PICK p : p = Append(q, x)
  OBVIOUS
<1>4. /\ Len(q) \in Nat /\ Len(p) = Len(q) + 1
      /\ \A i \in 1 .. Len(q) : p[i] = q[i]
      /\ p[Len(q) + 1] = x
      /\ \A i \in 1 .. Len(p) : i \in 1 .. Len(q) \/ i = Len(q) + 1
  BY <1>3, AppendIs
<1>5. PICK l \in 1 .. k : \E pos \in [l .. k - 1 -> 1 .. Len(q)] :
        Linked(q, r, e, a, k, l, pos)
  BY ChainIs
<1>15. PICK pos \in [l .. k - 1 -> 1 .. Len(q)] :
         Linked(q, r, e, a, k, l, pos)
  BY <1>5
<1>6. PICK new : new = [i \in l .. (k + 1) - 1 |->
                          IF i = k THEN Len(q) + 1 ELSE pos[i]]
  OBVIOUS
<1>7. /\ (k + 1) - 1 = k /\ k \in l .. k
      /\ \A i \in l .. k : i = k \/ i \in l .. k - 1
      /\ \A i \in l .. k - 1 : i \in l .. k /\ i # k /\ i < k
  OBVIOUS
<1>8. /\ new[k] = Len(q) + 1
      /\ \A i \in l .. k - 1 : new[i] = pos[i] /\ pos[i] \in 1 .. Len(q)
  BY <1>6, <1>7
<1>9. new \in [l .. (k + 1) - 1 -> 1 .. Len(p)]
  BY <1>4, <1>6, <1>7, <1>8
<1>10. \A i, j \in l .. k : i < j => new[i] < new[j]
  <2>1. \A i, j \in l .. k - 1 : i < j => new[i] < new[j]
    BY <1>15, <1>8 DEF Linked
  <2>2. \A i \in l .. k - 1 : new[i] < new[k]
    BY <1>4, <1>8
  <2>3. \A i \in l .. k : ~(k < i)
    OBVIOUS
  <2> QED BY <1>7, <2>1, <2>2, <2>3
<1>11. ASSUME NEW i \in l .. k
       PROVE  p[new[i]].ecu = e /\ p[new[i]].frame = Frames(a)[i]
  <2>1. CASE i = k
    BY <1>2, <1>4, <1>8, <2>1
  <2>2. CASE i \in l .. k - 1
    <3>1. p[new[i]] = q[pos[i]]
      BY <1>4, <1>8, <2>2
    <3> QED BY <1>15, <2>2, <3>1 DEF Linked
  <2> QED BY <1>7, <2>1, <2>2
<1>12. ASSUME NEW i \in 1 .. Len(p), p[i].ecu = e
       PROVE  \/ \E j \in l .. k : new[j] = i
              \/ /\ l = 1 /\ AsksForTime(p[i].frame)
                 /\ \A j \in l .. k : i < new[j]
  <2>1. CASE i = Len(q) + 1
    BY <1>7, <1>8, <2>1
  <2>2. CASE i \in 1 .. Len(q)
    <3>1. p[i] = q[i] /\ i < Len(q) + 1
      BY <1>4, <2>2
    <3>2. CASE \E j \in l .. k - 1 : pos[j] = i
      BY <1>7, <1>8, <3>2
    <3>3. CASE /\ l = 1 /\ AsksForTime(q[i].frame)
               /\ \A j \in l .. k - 1 : i < pos[j]
      <4>1. \A j \in l .. k : i < new[j]
        BY <1>7, <1>8, <3>1, <3>3
      <4> QED BY <3>1, <3>3, <4>1
    <3> QED BY <1>15, <1>12, <2>2, <3>1, <3>2, <3>3 DEF Linked
  <2> QED BY <1>4, <2>1, <2>2
<1>13. Linked(p, r, e, a, k + 1, l, new)
  <2>1. IF l = 1 THEN ~r.active ELSE Held(r, a, l - 1)
    BY <1>15 DEF Linked
  <2> QED BY <1>7, <1>10, <1>11, <1>12, <2>1 DEF Linked
<1>14. l \in 1 .. k + 1
  OBVIOUS
<1> QED BY <1>1, <1>3, <1>9, <1>13, <1>14, ChainIs

\* What is at the head of a chain's queue: a frame of another ECU, a request
\* for time, or the next frame of the answer; and what is left then.
LEMMA ChainHead ==
  ASSUME NEW q, IsSequence(q), q # <<>>, NEW r, NEW e, NEW a, NEW k \in Nat,
         Chain(q, r, e, a, k)
  PROVE  \/ Head(q).ecu # e /\ Chain(Tail(q), r, e, a, k)
         \/ /\ Head(q).ecu = e /\ AsksForTime(Head(q).frame)
            /\ \A s : ~s.active => Chain(Tail(q), s, e, a, k)
         \/ \E l \in 1 .. k - 1 :
              /\ Head(q).ecu = e /\ Head(q).frame = Frames(a)[l]
              /\ IF l = 1 THEN ~r.active ELSE Held(r, a, l - 1)
              /\ \A s : Held(s, a, l) => Chain(Tail(q), s, e, a, k)
              /\ l = k - 1 => Mute(Tail(q), e)
<1>1. PICK p : p = Tail(q)
  OBVIOUS
<1>2. /\ Len(p) \in Nat /\ Len(q) = Len(p) + 1 /\ Head(q) = q[1]
      /\ \A i \in 1 .. Len(p) : p[i] = q[i + 1]
  BY <1>1, TailIs
<1>3. PICK l \in 1 .. k : \E pos \in [l .. k - 1 -> 1 .. Len(q)] :
        Linked(q, r, e, a, k, l, pos)
  BY ChainIs
<1>4. PICK pos \in [l .. k - 1 -> 1 .. Len(q)] :
        Linked(q, r, e, a, k, l, pos)
  BY <1>3
<1>5. 1 \in 1 .. Len(q)
      /\ \A i \in 1 .. Len(p) : i + 1 \in 1 .. Len(q) /\ i + 1 # 1
  BY <1>2
\* The frames from m on, when none of them is the head.
<1>6. ASSUME NEW m \in l .. k, m \in 1 .. k,
             \A j \in m .. k - 1 : pos[j] # 1, NEW s,
             IF m = 1 THEN ~s.active ELSE Held(s, a, m - 1),
             \A i \in 1 .. Len(p) : q[i + 1].ecu = e =>
               \/ \E j \in m .. k - 1 : pos[j] = i + 1
               \/ /\ m = 1 /\ AsksForTime(q[i + 1].frame)
                  /\ \A j \in m .. k - 1 : i + 1 < pos[j]
      PROVE  Chain(p, s, e, a, k)
  <2>1. PICK new : new = [j \in m .. k - 1 |-> pos[j] - 1]
    OBVIOUS
  <2>2. \A j \in m .. k - 1 :
          /\ j \in l .. k - 1 /\ pos[j] \in 1 .. Len(q) /\ pos[j] # 1
    BY <1>6
  <2>3. \A j \in m .. k - 1 :
          new[j] = pos[j] - 1 /\ new[j] + 1 = pos[j] /\ new[j] \in 1 .. Len(p)
    <3>1. \A x \in 1 .. Len(q) :
            x # 1 => (x - 1) + 1 = x /\ x - 1 \in 1 .. Len(p)
      BY <1>2
    <3> QED BY <2>1, <2>2, <3>1
  <2>4. new \in [m .. k - 1 -> 1 .. Len(p)]
    BY <2>1, <2>3
  <2>5. \A i, j \in m .. k - 1 : i < j => new[i] < new[j]
    <3>1. \A i, j \in m .. k - 1 : i < j => pos[i] < pos[j]
      BY <1>4, <2>2 DEF Linked
    <3>2. \A x, y \in 1 .. Len(q) : x < y => x - 1 < y - 1
      BY <1>2
    <3> QED BY <2>2, <2>3, <3>1, <3>2
  <2>6. \A j \in m .. k - 1 :
          p[new[j]].ecu = e /\ p[new[j]].frame = Frames(a)[j]
    BY <1>2, <1>4, <2>2, <2>3 DEF Linked
  <2>7. ASSUME NEW i \in 1 .. Len(p), p[i].ecu = e
        PROVE  \/ \E j \in m .. k - 1 : new[j] = i
               \/ /\ m = 1 /\ AsksForTime(p[i].frame)
                  /\ \A j \in m .. k - 1 : i < new[j]
    <3>1. p[i] = q[i + 1]
      BY <1>2
    <3>2. CASE \E j \in m .. k - 1 : pos[j] = i + 1
      <4>1. PICK j \in m .. k - 1 : pos[j] = i + 1
        BY <3>2
      <4>2. new[j] = i
        BY <2>3, <4>1
      <4> QED BY <4>2
    <3>3. CASE /\ m = 1 /\ AsksForTime(q[i + 1].frame)
               /\ \A j \in m .. k - 1 : i + 1 < pos[j]
      <4>1. \A x \in 1 .. Len(q) : i + 1 < x => i < x - 1
        BY <1>2
      <4>2. \A j \in m .. k - 1 : i < new[j]
        BY <2>2, <2>3, <3>3, <4>1
      <4> QED BY <3>1, <3>3, <4>2
    <3> QED BY <1>6, <2>7, <3>1, <3>2, <3>3
  <2>8. Linked(p, s, e, a, k, m, new)
    BY <1>6, <2>5, <2>6, <2>7 DEF Linked
  <2> QED BY <1>6, <2>4, <2>8, ChainIs
<1>7. \A i \in 1 .. Len(q) : q[i].ecu = e =>
        \/ \E j \in l .. k - 1 : pos[j] = i
        \/ /\ l = 1 /\ AsksForTime(q[i].frame)
           /\ \A j \in l .. k - 1 : i < pos[j]
  BY <1>4 DEF Linked
<1>8. \A j \in l .. k - 1 :
        q[pos[j]].ecu = e /\ q[pos[j]].frame = Frames(a)[j]
  BY <1>4 DEF Linked
<1>9. IF l = 1 THEN ~r.active ELSE Held(r, a, l - 1)
  BY <1>4 DEF Linked
<1>10. CASE q[1].ecu # e
  <2>1. \A j \in l .. k - 1 : pos[j] # 1
    BY <1>8, <1>10
  <2>2. l \in l .. k /\ l \in 1 .. k
    OBVIOUS
  <2>3. Chain(p, r, e, a, k)
    BY <1>5, <1>6, <1>7, <1>9, <2>1, <2>2
  <2> QED BY <1>1, <1>2, <1>10, <2>3
<1>11. CASE q[1].ecu = e /\ \E j \in l .. k - 1 : pos[j] = 1
  <2>1. PICK j \in l .. k - 1 : pos[j] = 1
    BY <1>11
  <2>2. j = l
    <3>1. ~(l < j)
      <4>1. l \in l .. k - 1
        BY <2>1
      <4>2. l < j => pos[l] < pos[j]
        BY <1>4, <2>1, <4>1 DEF Linked
      <4>3. pos[l] \in 1 .. Len(q)
        BY <4>1
      <4> QED BY <1>2, <2>1, <4>2, <4>3
    <3> QED BY <3>1
  <2>3. l \in 1 .. k - 1 /\ Frames(a)[l] = Head(q).frame
    BY <1>2, <1>8, <2>1, <2>2
  <2>4. \A i \in l + 1 .. k - 1 : pos[i] # 1
    <3>1. \A i \in l + 1 .. k - 1 : pos[l] < pos[i] /\ i \in l .. k - 1
      BY <1>4, <2>1, <2>2 DEF Linked
    <3> QED BY <1>2, <2>1, <2>2, <3>1
  <2>5. \A i \in 1 .. Len(p) : q[i + 1].ecu = e =>
          \E m \in l + 1 .. k - 1 : pos[m] = i + 1
    <3>1. ASSUME NEW i \in 1 .. Len(p), q[i + 1].ecu = e
          PROVE  \E m \in l + 1 .. k - 1 : pos[m] = i + 1
      <4>1. i + 1 \in 1 .. Len(q) /\ i + 1 # 1 /\ ~(i + 1 < 1)
        BY <1>5
      <4>2. PICK m \in l .. k - 1 : pos[m] = i + 1
        BY <1>7, <2>1, <3>1, <4>1
      <4>3. m \in l + 1 .. k - 1
        BY <2>1, <2>2, <4>1, <4>2
      <4> QED BY <4>2, <4>3
    <3> QED BY <3>1
  <2>6. ASSUME NEW s, Held(s, a, l)
        PROVE  Chain(p, s, e, a, k)
    <3>1. l + 1 \in l .. k /\ l + 1 \in 1 .. k /\ l + 1 # 1
          /\ (l + 1) - 1 = l
      BY <2>3
    <3> QED BY <1>6, <2>4, <2>5, <2>6, <3>1
  <2>7. l = k - 1 => Mute(p, e)
    BY <1>2, <2>5 DEF Mute
  <2> QED BY <1>1, <1>2, <1>9, <1>11, <2>3, <2>6, <2>7
<1>12. CASE q[1].ecu = e /\ ~\E j \in l .. k - 1 : pos[j] = 1
  <2>1. l = 1 /\ AsksForTime(q[1].frame)
    BY <1>5, <1>7, <1>12
  <2>2. ASSUME NEW s, ~s.active
        PROVE  Chain(p, s, e, a, k)
    <3>1. l \in l .. k /\ l \in 1 .. k
      OBVIOUS
    <3>2. \A j \in l .. k - 1 : pos[j] # 1
      BY <1>12
    <3> QED BY <1>5, <1>6, <1>7, <2>1, <2>2, <3>1, <3>2
  <2> QED BY <1>1, <1>2, <1>12, <2>1, <2>2
<1> QED BY <1>10, <1>11, <1>12

\* What the tester makes of the head of a chain's queue.
LEMMA ChainFed ==
  ASSUME NEW q, IsSequence(q), q # <<>>, NEW r, NEW e, NEW a, Said(a),
         NEW k \in 1 .. Len(Frames(a)) + 1, Chain(q, r, e, a, k),
         Head(q).ecu = e
  PROVE  LET fed == Feed(r, Head(q).frame)
         IN /\ fed.err = "nil"
            /\ \/ /\ fed.msg = NoMessage \/ IsPending(fed.msg)
                  /\ Chain(Tail(q), fed.r, e, a, k)
               \/ /\ fed.msg # NoMessage /\ Bytes(fed.msg) = a
                  /\ Mute(Tail(q), e) /\ k = Len(Frames(a)) + 1
<1>1. PICK f : f = Head(q).frame
  OBVIOUS
<1>2. PICK fed : fed = Feed(r, f)
  OBVIOUS
<1>3. a.len \in Nat \ {0} /\ Len(Frames(a)) \in Nat
  <2>1. a.len \in Nat \ {0}
    BY DEF Said
  <2>2. CASE Long(a)
    BY <2>1, <2>2, SplitIs, FramesOfLong
  <2>3. CASE ~Long(a)
    BY <2>1, <2>3, FramesOfShort
  <2> QED BY <2>1, <2>2, <2>3
<1>4. CASE AsksForTime(f) /\ \A s : ~s.active => Chain(Tail(q), s, e, a, k)
  <2>1. f.pci = "SF" /\ f.len = 3 /\ f.msg.kind = "pending"
    BY <1>4 DEF AsksForTime
  <2>2. f.len \in 1 .. SFMax
    BY <2>1 DEF SFMax
  <2>3. /\ Feed(r, f).err = "nil" /\ Feed(r, f).r = NewReceiver
        /\ Bytes(Feed(r, f).msg) = f.msg
    BY <2>1, <2>2, FeedWhole
  <2>4. IsPending(fed.msg)
    BY <1>2, <2>1, <2>3 DEF IsPending
  <2>5. Chain(Tail(q), fed.r, e, a, k)
    BY <1>2, <1>4, <2>3, NewIsIdle
  <2> QED BY <1>1, <1>2, <2>3, <2>4, <2>5
<1>5. ASSUME NEW l \in 1 .. k - 1, f = Frames(a)[l],
             IF l = 1 THEN ~r.active ELSE Held(r, a, l - 1),
             \A s : Held(s, a, l) => Chain(Tail(q), s, e, a, k),
             l = k - 1 => Mute(Tail(q), e)
      PROVE  /\ fed.err = "nil"
             /\ \/ fed.msg = NoMessage /\ Chain(Tail(q), fed.r, e, a, k)
                \/ /\ fed.msg # NoMessage /\ Bytes(fed.msg) = a
                   /\ Mute(Tail(q), e) /\ k = Len(Frames(a)) + 1
  <2>1. CASE ~Long(a)
    <3>1. Frames(a)[1] = SingleFrame(a, a.len) /\ Len(Frames(a)) = 1
          /\ a.len \in 1 .. SFMax
      BY <1>3, <2>1, FramesOfShort
    <3>2. l = 1 /\ k = Len(Frames(a)) + 1 /\ l = k - 1
      BY <1>5, <3>1
    <3>3. f = SingleFrame(a, a.len)
      BY <1>5, <3>1, <3>2
    <3>4. f.pci = "SF" /\ f.len = a.len /\ f.msg = a
      BY <3>3 DEF SingleFrame
    <3>5. /\ Feed(r, f).err = "nil" /\ Feed(r, f).msg # NoMessage
          /\ Bytes(Feed(r, f).msg) = f.msg
      <4>1. f.len \in 1 .. SFMax
        BY <3>1, <3>4
      <4> QED BY <3>4, <4>1, FeedWhole
    <3> QED BY <1>2, <1>5, <3>2, <3>4, <3>5
  <2>2. CASE Long(a) /\ l = 1
    <3>1. /\ Feed(r, Frames(a)[1]).err = "nil"
          /\ Feed(r, Frames(a)[1]).msg = NoMessage
          /\ Held(Feed(r, Frames(a)[1]).r, a, 1)
      BY <1>3, <2>2, FeedBegins
    <3> QED BY <1>2, <1>5, <2>2, <3>1
  <2>3. CASE Long(a) /\ l # 1
    <3>1. Len(Frames(a)) = Len(Split(a)) /\ Len(Split(a)) \in Nat
          /\ Split(a)[1] = Part(a, 0, FFData)
      BY <1>3, <2>3, SplitIs, FramesOfLong
    <3>2. PICK i \in Nat : /\ l = i + 1 /\ i = l - 1
                          /\ i + 1 \in 2 .. Len(Split(a))
      <4>1. /\ l - 1 \in Nat /\ l = (l - 1) + 1
            /\ (l - 1) + 1 \in 2 .. Len(Split(a))
        BY <2>3, <3>1
      <4> QED BY <4>1
    <3>3. Held(r, a, i) /\ f = Frames(a)[i + 1]
      BY <1>5, <2>3, <3>2
    <3>4. /\ fed.err = "nil"
          /\ \/ /\ i + 1 # Len(Split(a)) /\ fed.msg = NoMessage
                /\ Held(fed.r, a, i + 1)
             \/ /\ i + 1 = Len(Split(a)) /\ fed.msg # NoMessage
                /\ fed.msg = [len |-> a.len, parts |-> Split(a)]
      BY <1>2, <1>3, <2>3, <3>2, <3>3, FeedContinues
    <3>5. CASE i + 1 # Len(Split(a))
      BY <1>5, <3>2, <3>4, <3>5
    <3>6. CASE i + 1 = Len(Split(a))
      <4>1. k = Len(Frames(a)) + 1 /\ l = k - 1
        BY <3>1, <3>2, <3>6
      <4>2. fed.msg # NoMessage
            /\ fed.msg = [len |-> a.len, parts |-> Split(a)]
        BY <3>4, <3>6
      <4>3. Bytes(fed.msg) = Split(a)[1].msg
        <5>1. fed.msg.parts = Split(a)
          BY <4>2
        <5> QED BY <5>1 DEF Bytes
      <4>4. Part(a, 0, FFData).msg = a
        BY DEF Part
      <4> QED BY <1>5, <3>1, <3>4, <4>1, <4>2, <4>3, <4>4
    <3> QED BY <3>5, <3>6
  <2> QED BY <2>1, <2>2, <2>3
<1>6. k \in Nat
  BY <1>3
<1>7. \/ AsksForTime(f) /\ \A s : ~s.active => Chain(Tail(q), s, e, a, k)
      \/ \E l \in 1 .. k - 1 :
           /\ f = Frames(a)[l]
           /\ IF l = 1 THEN ~r.active ELSE Held(r, a, l - 1)
           /\ \A s : Held(s, a, l) => Chain(Tail(q), s, e, a, k)
           /\ l = k - 1 => Mute(Tail(q), e)
  BY <1>1, <1>6, ChainHead
<1> QED BY <1>1, <1>2, <1>4, <1>5, <1>7

-----------------------------------------------------------------------------
(* Requests                                                                *)

\* A request is one frame, or two.
LEMMA RequestIs ==
  ASSUME NEW m, Proper(m)
  PROVE  /\ m.len \in Nat \ {0}
         /\ m.len <= SFMax => ~Long(m)
         /\ m.len > SFMax => Long(m) /\ Len(Split(m)) = 2
<1>1. m.len \in Nat \ {0} /\ m.len <= FFData + CFData
  BY DEF Proper, FFData, CFData
<1>2. m.len <= SFMax => ~Long(m)
  BY <1>1 DEF Long, SFMax
<1>3. ASSUME m.len > SFMax PROVE Long(m) /\ Len(Split(m)) = 2
  <2>1. Long(m)
    BY <1>3 DEF Long
  <2>2. FFData + CFData * (1 - 1) < m.len /\ m.len <= FFData + CFData * 1
    BY <1>1, <1>3 DEF FFData, CFData, SFMax
  <2>3. (m.len - FFData + CFData - 1) \div CFData = 1
    BY <1>1, <2>2 DEF FFData, CFData
  <2>4. Len(Split(m)) = 1 + ((m.len - FFData + CFData - 1) \div CFData)
    BY <1>1, <2>1, SplitIs
  <2> QED BY <2>1, <2>3, <2>4
<1> QED BY <1>1, <1>2, <1>3

\* An ECU answers just the requests that it should.
LEMMA AnswersWhom ==
  ASSUME NEW m, Proper(m), NEW e \in Ecu, m.to \in {e, Everyone},
         world \in Worlds
  PROVE  LET a == AnswerTo(e, m, m.to = Everyone)
         IN /\ a = Silence <=> e \notin Answerers(m)
            /\ a # Silence => IsAnswer(a, e, m)
<1>1. PICK a : a = AnswerTo(e, m, m.to = Everyone)
  OBVIOUS
<1>2. \A kind, list, len : LET b == Reply(e, m, kind, list, len)
                           IN b # Silence /\ b.ecu = e /\ b.to = m
  <2>1. ASSUME NEW kind, NEW list, NEW len
        PROVE  LET b == Reply(e, m, kind, list, len)
               IN b # Silence /\ b.ecu = e /\ b.to = m
    <3>1. PICK b : b = Reply(e, m, kind, list, len)
      OBVIOUS
    <3>2. b.ecu = e /\ b.to = m
      BY <3>1 DEF Reply
    <3>3. "ecu" \in DOMAIN b /\ "ecu" \notin DOMAIN Silence
      BY <3>1 DEF Reply, Silence
    <3> QED BY <3>1, <3>2, <3>3
  <2> QED BY <2>1
<1>3. e # Everyone
  BY WorldIs
<1>4. e \in Answerers(m) <=>
        \/ m.svc \in {"03", "04", "07", "0A"}
        \/ <<m.svc, m.id>> \in world.holds[e]
        \/ m.to = e /\ m.svc \in {"10", "22"}
  BY DEF Answerers
<1>5. m.svc \in {"01", "03", "04", "07", "09", "0A", "10", "22"}
  BY DEF Proper, Services
<1>6. CASE m.svc \in {"03", "04", "07", "0A"}
  <2>1. a # Silence /\ a.ecu = e /\ a.to = m
    BY <1>1, <1>2, <1>6 DEF AnswerTo, DTCResponse
  <2> QED BY <1>1, <1>4, <1>6, <2>1 DEF IsAnswer
<1>7. CASE m.svc \notin {"03", "04", "07", "0A"}
           /\ <<m.svc, m.id>> \in world.holds[e]
  <2>1. a = Reply(e, m, "positive", <<m.svc, m.id>>, Size(m.svc))
    BY <1>1, <1>7 DEF AnswerTo
  <2> QED BY <1>1, <1>2, <1>4, <1>7, <2>1 DEF IsAnswer
<1>8. CASE m.svc \in {"01", "09"} /\ <<m.svc, m.id>> \notin world.holds[e]
  <2>1. a = Silence
    BY <1>1, <1>8 DEF AnswerTo
  <2> QED BY <1>1, <1>4, <1>8, <2>1
<1>9. CASE m.svc \in {"10", "22"} /\ <<m.svc, m.id>> \notin world.holds[e]
  <2>1. a = Negative(e, m, m.to = Everyone)
    BY <1>1, <1>9 DEF AnswerTo
  <2>2. CASE m.to = Everyone
    <3>1. a = Silence
      BY <2>1, <2>2 DEF Negative
    <3> QED BY <1>1, <1>3, <1>4, <1>9, <2>2, <3>1
  <2>3. CASE m.to = e
    <3>1. a = Reply(e, m, "negative", <<>>, 3)
      BY <1>3, <2>1, <2>3 DEF Negative
    <3> QED BY <1>1, <1>2, <1>4, <1>9, <2>3, <3>1 DEF IsAnswer
  <2> QED BY <2>2, <2>3
<1> QED BY <1>5, <1>6, <1>7, <1>8, <1>9

-----------------------------------------------------------------------------
(* The queues stay sequences                                               *)

LEMMA SequencesKept ==
  ASSUME Bench, \A x \in Ecu \cup Tester : IsSequence(queue[x]),
         NEW q, DOMAIN q = Ecu \cup Tester,
         \A x \in Ecu \cup Tester :
           q[x] = queue[x] \/ (queue[x] # <<>> /\ q[x] = Tail(queue[x])),
         NEW p, NEW to, NEW f,
         p = q \/ p = ToEcus(q, to, f) \/ p = ToTesters(q, to, f)
  PROVE  \A x \in Ecu \cup Tester : IsSequence(p[x])
<1> SUFFICES ASSUME NEW x \in Ecu \cup Tester PROVE IsSequence(p[x])
  OBVIOUS
<1>1. IsSequence(q[x])
  BY TailIs
<1>2. DOMAIN q = Ecu \cup Tester /\ world \in Worlds
  BY DEF Bench
<1>3. CASE p = q
  BY <1>1, <1>3
<1>4. CASE p = ToEcus(q, to, f)
  <2>2. PICK y : y = [functional |-> to = Everyone, frame |-> f]
    OBVIOUS
  <2>1. p[x] = q[x] \/ p[x] = Append(q[x], y)
    BY <1>2, <1>4, <2>2 DEF ToEcus
  <2>3. PICK z : z = q[x]
    OBVIOUS
  <2>4. IsSequence(z) /\ IsSequence(Append(z, y))
    BY <1>1, <2>3, AppendIs
  <2> QED BY <2>1, <2>3, <2>4
<1>5. CASE p = ToTesters(q, to, f)
  <2>2. PICK y : y = [ecu |-> to, frame |-> f]
    OBVIOUS
  <2>1. p[x] = q[x] \/ p[x] = Append(q[x], y)
    BY <1>2, <1>5, <2>2 DEF ToTesters
  <2>3. PICK z : z = q[x]
    OBVIOUS
  <2>4. IsSequence(z) /\ IsSequence(Append(z, y))
    BY <1>1, <2>3, AppendIs
  <2> QED BY <2>1, <2>3, <2>4
<1> QED BY <1>3, <1>4, <1>5

\* A step reads one queue and then sends, or does one of the two.
LEMMA QueuesKept ==
  ASSUME Bench, Shapes, NEW q, NEW x \in Ecu \cup Tester,
         q = queue \/ (queue[x] # <<>> /\ q = Rest(x)),
         NEW to, NEW f,
         \/ queue' = q \/ queue' = ToEcus(q, to, f)
         \/ queue' = ToTesters(q, to, f)
  PROVE  \A y \in Ecu \cup Tester : IsSequence(queue'[y])
<1>1. PICK p : p = queue'
  OBVIOUS
<1>2. DOMAIN q = Ecu \cup Tester
      /\ \A y \in Ecu \cup Tester :
           q[y] = queue[y] \/ (queue[y] # <<>> /\ q[y] = Tail(queue[y]))
  <2>1. CASE q = queue
    BY <2>1 DEF Bench
  <2>2. CASE queue[x] # <<>> /\ q = Rest(x)
    <3>1. \A y \in Ecu \cup Tester : y = x \/ q[y] = queue[y]
      BY <2>2, RestIs
    <3>2. q[x] = Tail(queue[x]) /\ DOMAIN q = Ecu \cup Tester
      BY <2>2, RestIs
    <3> QED BY <2>2, <3>1, <3>2
  <2> QED BY <2>1, <2>2
<1>3. \A y \in Ecu \cup Tester : IsSequence(queue[y])
  BY DEF Shapes
<1>4. p = q \/ p = ToEcus(q, to, f) \/ p = ToTesters(q, to, f)
  BY <1>1
<1>5. \A y \in Ecu \cup Tester : IsSequence(p[y])
  BY <1>2, <1>3, <1>4, SequencesKept
<1> QED BY <1>1, <1>5

\* What a tester does with the frame at the head of its queue.
Mine(req, msg) == /\ msg # NoMessage /\ Answers(req, Bytes(msg))
                  /\ ~IsPending(msg)

Took(t, c, e, fed) ==
  /\ c = call[t] /\ e = Head(queue[t]).ecu
  /\ fed = Feed(c.rx[e], Head(queue[t]).frame)
  /\ e \in Ecu /\ queue[t] # <<>> /\ c.pc = "receiving" /\ IsCall(c)
  /\ world.calls[t] > 0 /\ UNCHANGED <<world, stored, rx, job, gave>>
  /\ \/ c.req.to \notin {e, Everyone} /\ queue' = Rest(t) /\ call' = call
     \/ /\ c.req.to \in {e, Everyone}
        /\ queue' = IF fed.fc = NoFrame THEN Rest(t)
                    ELSE ToEcus(Rest(t), e, fed.fc)
        /\ \E d : /\ call' = [call EXCEPT ![t] = d] /\ IsCall(d)
                  /\ d.n = c.n /\ d.req = c.req
                  /\ d.rx = [c.rx EXCEPT ![e] = fed.r]
                  /\ IF Mine(c.req, fed.msg)
                     THEN /\ d.out = Append(c.out, fed.msg)
                          /\ c.req.to = e => d.pc = "idle" /\ d.result = "ok"
                          /\ c.req.to # e => d.pc = "receiving"
                     ELSE d.out = c.out /\ d.pc = "receiving"

LEMMA TakeFrameIs ==
  ASSUME MixInv, NEW t \in Tester, TakeFrame(t)
  PROVE  \E c, e, fed : Took(t, c, e, fed)
<1>0. PICK c, e, fed : /\ c = call[t] /\ e = Head(queue[t]).ecu
                       /\ fed = Feed(c.rx[e], Head(queue[t]).frame)
  OBVIOUS
<1>1. Bench /\ Listens(t) /\ world \in Worlds
  BY DEF MixInv, Bench
<1>2. /\ c.pc = "receiving" /\ queue[t] # <<>>
      /\ UNCHANGED <<world, stored, rx, job, gave>>
  BY <1>0 DEF TakeFrame, ecuVars
<1>3. world.calls[t] # 0 /\ world.calls[t] > 0
  <2>1. world.calls[t] \in Nat
    BY <1>1, WorldIs
  <2>2. world.calls[t] # 0
    BY <1>0, <1>1, <1>2, NoCallIs DEF Listens
  <2> QED BY <2>1, <2>2
<1>4. IsCall(c) /\ Hears(t) = c.rx
  BY <1>0, <1>1, <1>2 DEF Listens, Hears
<1>5. IsSequence(queue[t]) /\ Orderly(gave, queue[t], c.rx, job)
  BY <1>1, <1>3, <1>4 DEF Listens
<1>6. e \in Ecu
      /\ Fits(gave, queue[t], c.rx[e], 1, e, Head(queue[t]).frame)
  BY <1>0, <1>2, <1>5, HeadIs
<1>7. fed.err = "nil"
  <2>1. \A a \in gave : Said(a)
    BY <1>1 DEF Bench
  <2>2. PICK f : f = Head(queue[t]).frame
    OBVIOUS
  <2>3. PICK q, r : q = queue[t] /\ r = c.rx[e]
    OBVIOUS
  <2>4. Fits(gave, q, r, 1, e, f) /\ fed = Feed(r, f)
    BY <1>0, <1>6, <2>2, <2>3
  <2>5. Feed(r, f).err = "nil"
    BY <2>1, <2>4, HeadFed
  <2> QED BY <2>4, <2>5
<1>8. PICK mine \in BOOLEAN : mine <=> Mine(c.req, fed.msg)
  OBVIOUS
<1>9. CASE c.req.to \notin {e, Everyone}
  BY <1>0, <1>2, <1>3, <1>4, <1>6, <1>9 DEF TakeFrame, Took
<1>10. CASE c.req.to \in {e, Everyone}
  <2>1. queue' = IF fed.fc = NoFrame THEN Rest(t)
                 ELSE ToEcus(Rest(t), e, fed.fc)
    BY <1>0, <1>10 DEF TakeFrame
  <2> DEFINE pc == IF c.req.to = e THEN "idle" ELSE c.pc
             res == IF c.req.to = e THEN "ok" ELSE c.result
  <2>11. PICK new, old :
         /\ new = [c EXCEPT !.rx[e] = fed.r, !.out = Append(c.out, fed.msg),
                              !.pc = pc, !.result = res]
         /\ old = [c EXCEPT !.rx[e] = fed.r]
    OBVIOUS
  <2>2. call' = [call EXCEPT ![t] = IF mine THEN new ELSE old]
    BY <1>0, <1>7, <1>8, <1>10, <2>11 DEF TakeFrame, Bytes, IsPending, Mine
  <2>3. /\ c.req.to = e => pc = "idle" /\ res = "ok"
        /\ c.req.to # e => pc = "receiving"
    BY <1>2
  <2> HIDE DEF pc, res
  <2>4. PICK rs : rs = [c.rx EXCEPT ![e] = fed.r]
    OBVIOUS
  <2>5. /\ c = [pc |-> c.pc, n |-> c.n, req |-> c.req, out |-> c.out,
                rx |-> c.rx, result |-> c.result]
        /\ rs = [x \in Ecu |-> rs[x]]
        /\ c.rx = [x \in Ecu |-> c.rx[x]]
    BY <1>4, <2>4 DEF IsCall
  <2>6. new = [pc |-> pc, n |-> c.n, req |-> c.req,
               out |-> Append(c.out, fed.msg), rx |-> rs, result |-> res]
    BY <2>4, <2>5, <2>11
  <2>7. old = [pc |-> c.pc, n |-> c.n, req |-> c.req, out |-> c.out,
               rx |-> rs, result |-> c.result]
    BY <2>4, <2>5, <2>11
  <2>8. IsCall(new) /\ new.n = c.n /\ new.req = c.req /\ new.rx = rs
        /\ new.out = Append(c.out, fed.msg) /\ new.pc = pc /\ new.result = res
    BY <2>5, <2>6 DEF IsCall
  <2>9. IsCall(old) /\ old.n = c.n /\ old.req = c.req /\ old.rx = rs
        /\ old.out = c.out /\ old.pc = "receiving"
    BY <1>2, <2>5, <2>7 DEF IsCall
  <2>10. \E d : /\ call' = [call EXCEPT ![t] = d] /\ IsCall(d)
                /\ d.n = c.n /\ d.req = c.req /\ d.rx = rs
                /\ IF Mine(c.req, fed.msg)
                   THEN /\ d.out = Append(c.out, fed.msg)
                        /\ c.req.to = e => d.pc = "idle" /\ d.result = "ok"
                        /\ c.req.to # e => d.pc = "receiving"
                   ELSE d.out = c.out /\ d.pc = "receiving"
    BY <1>8, <2>2, <2>3, <2>8, <2>9
  <2>12. PICK d : /\ call' = [call EXCEPT ![t] = d] /\ IsCall(d)
                  /\ d.n = c.n /\ d.req = c.req
                  /\ d.rx = [c.rx EXCEPT ![e] = fed.r]
                  /\ IF Mine(c.req, fed.msg)
                     THEN /\ d.out = Append(c.out, fed.msg)
                          /\ c.req.to = e => d.pc = "idle" /\ d.result = "ok"
                          /\ c.req.to # e => d.pc = "receiving"
                     ELSE d.out = c.out /\ d.pc = "receiving"
    BY <2>4, <2>10
  <2>13. Took(t, c, e, fed)
    BY <1>0, <1>2, <1>3, <1>4, <1>6, <1>10, <2>1, <2>12 DEF Took
  <2> QED BY <2>13
<1> QED BY <1>9, <1>10

LEMMA ShapesInductive ==
  ASSUME MixInv, Shapes, [Next]_vars
  PROVE  Shapes'
<1>1. Bench /\ \A t \in Tester : IsCall(call[t])
  BY DEF MixInv, Listens
\* An ECU leaves the calls, a tester the Receivers of the ECUs.
<1>2. ASSUME NEW e \in Ecu, NEW q,
             q = queue \/ (queue[e] # <<>> /\ q = Rest(e)),
             queue' = q \/ \E f : queue' = ToTesters(q, e, f),
             rx' = rx \/ \E r : rx' = [rx EXCEPT ![e] = r], call' = call
      PROVE  Shapes'
  <2>1. PICK f : queue' = q \/ queue' = ToTesters(q, e, f)
    BY <1>2
  <2>2. \A y \in Ecu \cup Tester : IsSequence(queue'[y])
    BY <1>1, <1>2, <2>1, QueuesKept
  <2>3. rx' = [d \in Ecu |-> rx'[d]]
    BY <1>2 DEF Shapes
  <2> QED BY <1>2, <2>2, <2>3 DEF Shapes
<1>3. ASSUME NEW t \in Tester, NEW q,
             q = queue \/ (queue[t] # <<>> /\ q = Rest(t)),
             queue' = q \/ \E to, f : queue' = ToEcus(q, to, f), rx' = rx,
             call' = call \/ \E c : c.n \in Nat
                                      /\ call' = [call EXCEPT ![t] = c]
      PROVE  Shapes'
  <2>1. PICK to, f : queue' = q \/ queue' = ToEcus(q, to, f)
    BY <1>3
  <2>2. \A y \in Ecu \cup Tester : IsSequence(queue'[y])
    BY <1>1, <1>3, <2>1, QueuesKept
  <2>3. ASSUME NEW u \in Tester PROVE call'[u].n \in Nat
    <3>1. call[u].n \in Nat /\ call = [v \in Tester |-> call[v]]
      BY <1>1 DEF Shapes, Bench
    <3> QED BY <1>3, <3>1
  <2> QED BY <1>3, <2>2, <2>3 DEF Shapes
<1>4. ASSUME NEW e \in Ecu, ServeFunctional(e) PROVE Shapes'
  BY <1>2, <1>4 DEF ServeFunctional
<1>5. ASSUME NEW e \in Ecu, ServePhysical(e) PROVE Shapes'
  BY <1>2, <1>5 DEF ServePhysical
<1>6. ASSUME NEW e \in Ecu, SendPending(e) PROVE Shapes'
  BY <1>2, <1>6 DEF SendPending
<1>7. ASSUME NEW e \in Ecu, SendAnswer(e) PROVE Shapes'
  BY <1>2, <1>7 DEF SendAnswer
<1>8. ASSUME NEW e \in Ecu, ReadFlowControl(e) PROVE Shapes'
  BY <1>2, <1>8 DEF ReadFlowControl
<1>9. ASSUME NEW e \in Ecu, SendConsecutive(e) PROVE Shapes'
  BY <1>2, <1>9 DEF SendConsecutive
<1>10. ASSUME NEW e \in Ecu, SendTimesOut(e) \/ Stop(e) PROVE Shapes'
  BY <1>2, <1>10 DEF SendTimesOut, Stop
<1>11. ASSUME NEW t \in Tester, NEW a, Call(t, a) PROVE Shapes'
  <2>1. PICK m : m = [by |-> t, n |-> call[t].n + 1, svc |-> a.svc,
                      id |-> a.id, to |-> a.to, len |-> a.len]
    OBVIOUS
  <2>2. PICK b : b = NoCall
    OBVIOUS
  <2>3. PICK new : new = [b EXCEPT !.n = m.n, !.req = m]
    OBVIOUS
  <2>4. m.n \in Nat /\ new.n = m.n
    <3>1. call[t].n \in Nat
      BY DEF Shapes
    <3>2. IsCall(b)
      BY <2>2, NoCallIs
    <3> QED BY <2>1, <2>3, <3>1, <3>2 DEF IsCall
  <2>5. PICK y : \/ call' = [call EXCEPT ![t] = [new EXCEPT !.result = y]]
                 \/ call' = [call EXCEPT ![t] = [new EXCEPT !.pc = y]]
    BY <1>11, <2>1, <2>2, <2>3 DEF Call
  <2>6. \E c : c.n \in Nat /\ call' = [call EXCEPT ![t] = c]
    <3>1. PICK c, d : /\ c = [new EXCEPT !.result = y]
                      /\ d = [new EXCEPT !.pc = y]
      OBVIOUS
    <3>2. c.n = new.n /\ d.n = new.n
      BY <3>1
    <3> QED BY <2>4, <2>5, <3>1, <3>2
  <2>7. queue' = queue \/ queue' = ToEcus(queue, m.to, Frames(m)[1])
    BY <1>11, <2>1 DEF Call
  <2>8. rx' = rx
    BY <1>11 DEF Call, ecuVars
  <2> QED BY <1>3, <2>6, <2>7, <2>8
<1>12. ASSUME NEW t \in Tester, TakeFlowControl(t) PROVE Shapes'
  <2>1. call' = call \/ call' = [call EXCEPT ![t].pc = "receiving"]
    BY <1>12 DEF TakeFlowControl
  <2>2. call' = call \/ \E c : c.n \in Nat
                                 /\ call' = [call EXCEPT ![t] = c]
    <3>1. PICK b : b = call[t] /\ b.n \in Nat
      BY DEF Shapes
    <3>2. PICK c : c = [b EXCEPT !.pc = "receiving"]
      OBVIOUS
    <3>3. c.n \in Nat
      BY <3>1, <3>2
    <3>4. call' = call \/ call' = [call EXCEPT ![t] = c]
      BY <1>1, <2>1, <3>1, <3>2 DEF Bench
    <3> QED BY <3>3, <3>4
  <2>3. queue' = Rest(t) \/ \E to, f : queue' = ToEcus(Rest(t), to, f)
    BY <1>12 DEF TakeFlowControl
  <2>4. queue[t] # <<>> /\ rx' = rx
    BY <1>12 DEF TakeFlowControl, ecuVars
  <2> QED BY <1>3, <2>2, <2>3, <2>4
<1>13. ASSUME NEW t \in Tester, TakeFrame(t) PROVE Shapes'
  <2>1. call[t].n \in Nat
    BY DEF Shapes
  <2>2. PICK c, e, fed : Took(t, c, e, fed)
    BY <1>13, TakeFrameIs
  <2>3. \/ call' = call
        \/ \E d : d.n = call[t].n /\ call' = [call EXCEPT ![t] = d]
    BY <2>2 DEF Took
  <2>4. queue' = Rest(t) \/ \E to, f : queue' = ToEcus(Rest(t), to, f)
    BY <1>13 DEF TakeFrame
  <2>5. queue[t] # <<>> /\ rx' = rx
    BY <1>13 DEF TakeFrame, ecuVars
  <2> QED BY <1>3, <2>1, <2>3, <2>4, <2>5
<1>14. ASSUME NEW t \in Tester, Return(t) PROVE Shapes'
  <2>1. PICK y : call' = [call EXCEPT ![t].pc = "idle", ![t].result = y]
    BY <1>14 DEF Return
  <2>2. PICK b : b = call[t] /\ b.n \in Nat
    BY DEF Shapes
  <2>3. PICK c : c = [b EXCEPT !.pc = "idle", !.result = y]
    OBVIOUS
  <2>4. c.n \in Nat
    BY <2>2, <2>3
  <2>5. call' = [call EXCEPT ![t] = c]
    BY <1>1, <2>1, <2>2, <2>3 DEF Bench
  <2>6. queue' = queue /\ rx' = rx
    BY <1>14 DEF Return, ecuVars
  <2> QED BY <1>3, <2>4, <2>5, <2>6
<1>15. CASE UNCHANGED vars
  BY <1>15 DEF vars, ecuVars, Shapes
<1> QED BY <1>4, <1>5, <1>6, <1>7, <1>8, <1>9, <1>10, <1>11, <1>12, <1>13,
           <1>14, <1>15 DEF Next, ServeStep, TripStep

-----------------------------------------------------------------------------
(* The steps of an ECU that listens                                        *)

LEMMA ListenerServes ==
  ASSUME NEW e \in Ecu, job[e].pc = "receive", ServeStep(e)
  PROVE  ServeFunctional(e) \/ ServePhysical(e)
BY DEF ServeStep, SendPending, SendAnswer, ReadFlowControl, SendConsecutive,
       SendTimesOut

\* A flow control frame that comes late is dropped.
LEMMA DropsControl ==
  ASSUME Bench, Shapes, NEW e \in Ecu, job[e].pc = "receive",
         Control(Head(queue[e])), ServeStep(e)
  PROVE  /\ queue[e] # <<>> /\ queue' = Rest(e)
         /\ UNCHANGED <<world, stored, rx, job, gave, call>>
<1>1. ~ServeFunctional(e)
  BY DEF ServeFunctional, Control
<1>2. ServePhysical(e)
  BY <1>1, ListenerServes
<1>3. PICK f : f = Head(queue[e]).frame /\ f.pci = "FC"
  BY DEF Control
<1>4. PICK fed : fed = Feed(rx[e], f)
  OBVIOUS
<1>5. fed.r = rx[e] /\ fed.msg = NoMessage /\ fed.fc = NoFrame
  BY <1>3, <1>4, FeedControl
<1>6. /\ rx' = [rx EXCEPT ![e] = rx[e]] /\ queue' = Rest(e)
      /\ UNCHANGED <<stored, job, gave, world, call>> /\ queue[e] # <<>>
  BY <1>2, <1>3, <1>4, <1>5 DEF ServePhysical
<1>7. rx' = rx
  BY <1>6 DEF Shapes
<1> QED BY <1>6, <1>7

\* The first frame of a long request is answered with flow control.
LEMMA TakesFirst ==
  ASSUME Bench, NEW e \in Ecu, job[e].pc = "receive", NEW m, Proper(m),
         m.len > SFMax, Head(queue[e]) = Request(m, 1), ServeStep(e)
  PROVE  /\ queue[e] # <<>> /\ UNCHANGED <<world, stored, job, gave, call>>
         /\ \E r, f : /\ Held(r, m, 1) /\ rx' = [rx EXCEPT ![e] = r]
                      /\ f.pci = "FC" /\ queue' = ToTesters(Rest(e), e, f)
<1>1. m.len \in Nat /\ Long(m)
  BY RequestIs
<1>2. m.to # Everyone
  BY BenchAssumption DEF Proper
<1>3. PICK h : h = Request(m, 1)
  OBVIOUS
<1>4. ~h.functional /\ h.frame = Frames(m)[1]
  BY <1>2, <1>3 DEF Request
<1>5. ServePhysical(e)
  <2>1. ~ServeFunctional(e)
    BY <1>3, <1>4 DEF ServeFunctional
  <2> QED BY <2>1, ListenerServes
<1>6. PICK fed : fed = Feed(rx[e], Frames(m)[1])
  OBVIOUS
<1>7. fed.msg = NoMessage /\ Held(fed.r, m, 1)
      /\ fed.fc = FlowControl("continue", BlockSize)
  BY <1>1, <1>6, FeedBegins
<1>8. fed.fc.pci = "FC" /\ fed.fc # NoFrame
  <2>1. fed.fc.pci = "FC" /\ NoFrame.pci = "none"
    BY <1>7 DEF FlowControl, NoFrame
  <2> QED BY <2>1
<1>9. /\ rx' = [rx EXCEPT ![e] = fed.r]
      /\ queue' = ToTesters(Rest(e), e, fed.fc)
      /\ UNCHANGED <<stored, job, gave, world, call>> /\ queue[e] # <<>>
  BY <1>3, <1>4, <1>5, <1>6, <1>7, <1>8 DEF ServePhysical
<1> QED BY <1>7, <1>8, <1>9

\* The last frame of a request makes the ECU answer it.
LEMMA TakesRequest ==
  ASSUME Bench, Shapes, NEW e \in Ecu, job[e].pc = "receive", NEW m,
         Proper(m),
         \/ m.len <= SFMax /\ Head(queue[e]) = Request(m, 1)
         \/ /\ m.len > SFMax /\ Head(queue[e]) = Request(m, 2)
            /\ Held(rx[e], m, 1),
         ServeStep(e)
  PROVE  /\ queue[e] # <<>> /\ queue' = Rest(e) /\ UNCHANGED <<world, call>>
         /\ Answering(e, m, m.to = Everyone)
         /\ \A d \in Ecu : d # e => rx'[d] = rx[d]
<1>1. /\ m.len \in Nat \ {0} /\ (m.len <= SFMax => ~Long(m))
      /\ m.len > SFMax => Long(m) /\ Len(Split(m)) = 2
  BY RequestIs
<1>2. CASE m.len <= SFMax /\ Head(queue[e]) = Request(m, 1)
  <2>1. PICK h : h = Request(m, 1)
    OBVIOUS
  <2>2. PICK f : f = SingleFrame(m, m.len)
    OBVIOUS
  <2>3. Frames(m)[1] = SingleFrame(m, m.len) /\ m.len \in 1 .. SFMax
    BY <1>1, <1>2, FramesOfShort
  <2>4. /\ h.functional = (m.to = Everyone) /\ h.frame = f
        /\ f.pci = "SF" /\ f.len = m.len /\ f.msg = m
    BY <2>1, <2>2, <2>3 DEF Request, SingleFrame
  <2>5. CASE m.to = Everyone
    <3>1. ~ServePhysical(e)
      BY <1>2, <2>1, <2>4, <2>5 DEF ServePhysical
    <3>2. ServeFunctional(e)
      BY <3>1, ListenerServes
    <3>3. Answering(e, m, TRUE) /\ rx' = rx
      BY <1>2, <2>1, <2>4, <3>2 DEF ServeFunctional
    <3>4. queue' = Rest(e) /\ UNCHANGED <<world, call>> /\ queue[e] # <<>>
      BY <3>2 DEF ServeFunctional
    <3> QED BY <2>5, <3>3, <3>4
  <2>6. CASE m.to # Everyone
    <3>1. ~ServeFunctional(e)
      BY <1>2, <2>1, <2>4, <2>6 DEF ServeFunctional
    <3>2. ServePhysical(e)
      BY <3>1, ListenerServes
    <3>8. PICK r : r = rx[e]
      OBVIOUS
    <3>3. PICK fed : fed = Feed(r, f)
      OBVIOUS
    <3>4. f.len \in 1 .. SFMax
      BY <2>3, <2>4
    <3>9. /\ Feed(r, f).fc = NoFrame /\ Feed(r, f).msg # NoMessage
          /\ Bytes(Feed(r, f).msg) = f.msg
      <4>1. f.pci = "SF"
        BY <2>4
      <4> QED BY <3>4, <4>1, FeedWhole
    <3>5. fed.fc = NoFrame /\ fed.msg # NoMessage /\ Bytes(fed.msg) = m
      BY <2>4, <3>3, <3>9
    <3>6. /\ queue' = Rest(e) /\ UNCHANGED <<world, call>>
          /\ Answering(e, Bytes(fed.msg), FALSE)
          /\ rx' = [rx EXCEPT ![e] = fed.r] /\ queue[e] # <<>>
      BY <1>2, <2>1, <2>4, <3>2, <3>3, <3>5, <3>8 DEF ServePhysical, Bytes
    <3>7. Answering(e, m, FALSE)
      BY <3>5, <3>6
    <3> QED BY <2>6, <3>6, <3>7 DEF Shapes
  <2> QED BY <2>5, <2>6
<1>3. CASE /\ m.len > SFMax /\ Head(queue[e]) = Request(m, 2)
           /\ Held(rx[e], m, 1)
  <2>1. m.to # Everyone
    BY <1>3, BenchAssumption DEF Proper
  <2>2. PICK h : h = Request(m, 2)
    OBVIOUS
  <2>3. ~h.functional /\ h.frame = Frames(m)[2]
    BY <2>1, <2>2 DEF Request
  <2>4. ServePhysical(e)
    <3>1. ~ServeFunctional(e)
      BY <1>3, <2>2, <2>3 DEF ServeFunctional
    <3> QED BY <3>1, ListenerServes
  <2>5. PICK r : r = rx[e]
    OBVIOUS
  <2>6. PICK fed : fed = Feed(r, Frames(m)[2])
    OBVIOUS
  <2>7. fed.fc = NoFrame /\ fed.msg # NoMessage
        /\ fed.msg = [len |-> m.len, parts |-> Split(m)]
    <3>1. PICK k \in Nat : k = 1 /\ k + 1 = 2
      OBVIOUS
    <3>2. Long(m) /\ m.len \in Nat /\ Len(Split(m)) = 2 /\ Held(r, m, k)
      BY <1>1, <1>3, <2>5, <3>1
    <3>3. k + 1 \in 2 .. Len(Split(m)) /\ fed = Feed(r, Frames(m)[k + 1])
      BY <2>6, <3>1, <3>2
    <3>4. \/ k + 1 # Len(Split(m))
          \/ /\ fed.fc = NoFrame /\ fed.msg # NoMessage
             /\ fed.msg = [len |-> m.len, parts |-> Split(m)]
      BY <3>2, <3>3, FeedContinues
    <3> QED BY <3>1, <3>2, <3>4
  <2>8. Bytes(fed.msg) = m
    <3>1. fed.msg.parts = Split(m)
      BY <2>7
    <3>2. Split(m)[1] = Part(m, 0, FFData)
      BY <1>1, <1>3, SplitIs
    <3>3. Part(m, 0, FFData).msg = m
      BY DEF Part
    <3> QED BY <3>1, <3>2, <3>3 DEF Bytes
  <2>9. /\ queue' = Rest(e) /\ UNCHANGED <<world, call>>
        /\ Answering(e, Bytes(fed.msg), FALSE)
        /\ rx' = [rx EXCEPT ![e] = fed.r] /\ queue[e] # <<>>
    BY <1>3, <2>2, <2>3, <2>4, <2>5, <2>6, <2>7 DEF ServePhysical, Bytes
  <2>10. Answering(e, m, m.to = Everyone)
    BY <2>1, <2>8, <2>9
  <2> QED BY <2>9, <2>10 DEF Shapes
<1> QED BY <1>2, <1>3

\* It is at work then, or has nothing to say.
LEMMA AnswersOrNot ==
  ASSUME Bench, NEW e \in Ecu, job[e].pc = "receive", NEW m, Proper(m),
         m.to \in {e, Everyone}, Answering(e, m, m.to = Everyone)
  PROVE  /\ gave \subseteq gave' /\ \A d \in Ecu : d # e => job'[d] = job[d]
         /\ \/ e \notin Answerers(m) /\ job' = job /\ gave' = gave
            \/ \E a \in gave' :
                 /\ IsAnswer(a, e, m) /\ Said(a)
                 /\ job'[e].pc = "reply" /\ job'[e].frames = Frames(a)
<1>1. PICK a : a = AnswerTo(e, m, m.to = Everyone)
  OBVIOUS
<1>2. (a = Silence <=> e \notin Answerers(m))
      /\ (a # Silence => IsAnswer(a, e, m) /\ Said(a))
  BY <1>1, AnswersWhom, AnswerIs DEF Bench
<1>3. CASE a = Silence
  BY <1>1, <1>2, <1>3 DEF Answering
<1>4. CASE a # Silence
  <2>1. gave' = gave \cup {a}
    BY <1>1, <1>4 DEF Answering
  <2>2. PICK left : job' = [job EXCEPT ![e] =
          [Listening EXCEPT !.pc = "reply", !.frames = Frames(a),
                            !.left = left]]
    BY <1>1, <1>4 DEF Answering
  <2>3. PICK j : j = [Listening EXCEPT !.pc = "reply", !.frames = Frames(a),
                                       !.left = left]
    OBVIOUS
  <2>4. j.pc = "reply" /\ j.frames = Frames(a)
    BY <2>3 DEF Listening
  <2>5. job'[e] = j /\ \A d \in Ecu : d # e => job'[d] = job[d]
    BY <2>2, <2>3 DEF Bench
  <2> QED BY <1>2, <1>4, <2>1, <2>4, <2>5
<1> QED BY <1>3, <1>4

-----------------------------------------------------------------------------
(* The stages of the ECUs in a call                                        *)

LEMMA AnswerLength ==
  ASSUME NEW a, Said(a)
  PROVE  Len(Frames(a)) \in Nat /\ Len(Frames(a)) > 0
<1>1. a.len \in Nat \ {0}
  BY DEF Said
<1>2. CASE Long(a)
  <2>1. Len(Split(a)) \in Nat /\ Len(Split(a)) > 1
    BY <1>1, <1>2, SplitIs
  <2>2. Len(Frames(a)) = Len(Split(a))
    BY <1>1, <1>2, FramesOfLong
  <2> QED BY <2>1, <2>2
<1>3. CASE ~Long(a)
  BY <1>1, <1>3, FramesOfShort
<1> QED BY <1>2, <1>3

\* The queue of a tester gets a frame of another ECU, or loses one.
Apart(q, p, e) ==
  \/ p = q
  \/ \E d, f : d # e /\ p = Append(q, [ecu |-> d, frame |-> f])
  \/ q # <<>> /\ Head(q).ecu # e /\ p = Tail(q)

LEMMA ApartKeeps ==
  ASSUME NEW q, IsSequence(q), NEW p, NEW e, Apart(q, p, e)
  PROVE  /\ Mute(q, e) => Mute(p, e)
         /\ \A r, a, j : Said(a) /\ AtWork(q, r, e, j, a) =>
                           AtWork(p, r, e, j, a)
<1>1. Mute(q, e) => Mute(p, e)
  <2>1. ASSUME Mute(q, e) PROVE Mute(p, e)
    <3>1. CASE \E d, f : d # e /\ p = Append(q, [ecu |-> d, frame |-> f])
      <4>1. PICK d, f : d # e /\ p = Append(q, [ecu |-> d, frame |-> f])
        BY <3>1
      <4> QED BY <2>1, <4>1, MuteChanges
    <3>2. CASE q # <<>> /\ Head(q).ecu # e /\ p = Tail(q)
      BY <2>1, <3>2, MuteChanges
    <3> QED BY <2>1, <3>1, <3>2 DEF Apart
  <2> QED BY <2>1
<1>2. ASSUME NEW r, NEW a, NEW j, Said(a), AtWork(q, r, e, j, a)
      PROVE  AtWork(p, r, e, j, a)
  <2>1. PICK k \in 1 .. Len(Frames(a)) + 1 :
          Chain(q, r, e, a, k) /\ Sends(j, a, k)
    BY <1>2 DEF AtWork
  <2>2. k \in Nat
    BY <1>2, <2>1, AnswerLength
  <2>3. Chain(p, r, e, a, k)
    <3>1. CASE \E d, f : d # e /\ p = Append(q, [ecu |-> d, frame |-> f])
      <4>1. PICK d, f : d # e /\ p = Append(q, [ecu |-> d, frame |-> f])
        BY <3>1
      <4>2. PICK x : x = [ecu |-> d, frame |-> f]
        OBVIOUS
      <4>3. x.ecu # e /\ p = Append(q, x)
        BY <4>1, <4>2
      <4> QED BY <2>1, <2>2, <4>3, ChainStays
    <3>2. CASE q # <<>> /\ Head(q).ecu # e /\ p = Tail(q)
      BY <2>1, <2>2, <3>2, ChainHead
    <3> QED BY <2>1, <3>1, <3>2 DEF Apart
  <2> QED BY <2>1, <2>3 DEF AtWork
<1> QED BY <1>1, <1>2

LEMMA AnswerersKept ==
  ASSUME world' = world, NEW t, call'[t].req = call[t].req
  PROVE  /\ Answerers(call[t].req)' = Answerers(call[t].req)
         /\ \A a, e : IsAnswer(a, e, call[t].req) <=>
                        IsAnswer(a, e, call[t].req)'
BY DEF Answerers, IsAnswer

\* What others do leaves an ECU in its stage.
LEMMA StageKept ==
  ASSUME NEW t \in Tester, NEW e \in Ecu, Stage(e, t), IsSequence(queue[t]),
         \A a \in gave : Said(a), gave \subseteq gave', world' = world,
         queue'[e] = queue[e], job'[e] = job[e], rx'[e] = rx[e],
         Apart(queue[t], queue'[t], e),
         call'[t].req = call[t].req, call'[t].rx[e] = call[t].rx[e],
         \/ call'[t].out = call[t].out
         \/ \E x : /\ Bytes(x).ecu # e /\ IsSequence(call[t].out)
                   /\ call'[t].out = Append(call[t].out, x)
  PROVE  Stage(e, t)'
<1>1. /\ Mute(queue[t], e) => Mute(queue'[t], e)
      /\ \A r, a, j : Said(a) /\ AtWork(queue[t], r, e, j, a) =>
                        AtWork(queue'[t], r, e, j, a)
  <2>1. PICK q, p : q = queue[t] /\ p = queue'[t]
    OBVIOUS
  <2>2. IsSequence(q) /\ Apart(q, p, e)
    BY <2>1
  <2> QED BY <2>1, <2>2, ApartKeeps
<1>2. /\ Unheard(call[t].out, e) => Unheard(call'[t].out, e)
      /\ OneOf(call[t].out, e) => OneOf(call'[t].out, e)
  <2>1. CASE call'[t].out = call[t].out
    BY <2>1
  <2>2. ASSUME NEW x, Bytes(x).ecu # e, IsSequence(call[t].out),
               call'[t].out = Append(call[t].out, x)
        PROVE  /\ Unheard(call[t].out, e) => Unheard(call'[t].out, e)
               /\ OneOf(call[t].out, e) => OneOf(call'[t].out, e)
    <3>1. PICK s, d : s = call[t].out /\ d = call'[t].out
      OBVIOUS
    <3>2. IsSequence(s) /\ d = Append(s, x)
      BY <2>2, <3>1
    <3>3. /\ Unheard(s, e) => Unheard(d, e)
          /\ OneOf(s, e) => OneOf(d, e)
      BY <2>2, <3>2, Gathering
    <3> QED BY <3>1, <3>3
  <2> QED BY <2>1, <2>2
<1>3. CASE Asked(e, t)
  <2>1. Asked(e, t)'
    BY <1>1, <1>2, <1>3 DEF Asked
  <2> QED BY <2>1 DEF Stage
<1>4. CASE Working(e, t)
  <2>1. PICK a \in gave : /\ IsAnswer(a, e, call[t].req)
                          /\ AtWork(queue[t], call[t].rx[e], e, job[e], a)
    BY <1>4 DEF Working
  <2>2. AtWork(queue'[t], call'[t].rx[e], e, job'[e], a)
    BY <1>1, <2>1
  <2>3. IsAnswer(a, e, call[t].req)' /\ a \in gave'
    BY <2>1, AnswerersKept
  <2>4. Working(e, t)'
    BY <1>2, <1>4, <2>2, <2>3 DEF Working
  <2> QED BY <2>4 DEF Stage
<1>5. CASE Heard(e, t)
  <2>1. Heard(e, t)'
    BY <1>1, <1>2, <1>5, AnswerersKept DEF Heard, AtRest
  <2> QED BY <2>1 DEF Stage
<1>6. CASE Silent(e, t)
  <2>1. Silent(e, t)'
    BY <1>1, <1>2, <1>6, AnswerersKept DEF Silent, AtRest
  <2> QED BY <2>1 DEF Stage
<1> QED BY <1>3, <1>4, <1>5, <1>6 DEF Stage

-----------------------------------------------------------------------------
(* The steps of an ECU in a call                                           *)

LEMMA QueuesUnsent ==
  ASSUME Bench, NEW e \in Ecu, queue' = Rest(e)
  PROVE  /\ queue'[e] = Tail(queue[e])
         /\ \A d \in Ecu \cup Tester : d # e => queue'[d] = queue[d]
         /\ \A t \in Tester : queue'[t] = queue[t]
BY RestIs, RestForEcu

LEMMA QueuesSent ==
  ASSUME Bench, NEW e \in Ecu, NEW q, q = queue \/ q = Rest(e), NEW f,
         queue' = ToTesters(q, e, f)
  PROVE  /\ \A d \in Ecu : queue'[d] = q[d]
         /\ \A d \in Ecu : d # e => queue'[d] = queue[d]
         /\ \A t \in Tester : world.calls[t] > 0 =>
              queue'[t] = Append(queue[t], [ecu |-> e, frame |-> f])
<1>1. /\ DOMAIN q = Ecu \cup Tester
      /\ \A d \in Ecu \cup Tester : d # e => q[d] = queue[d]
  BY RestIs, RestForEcu, QueueIs
<1>2. Ecu \cap Tester = {}
  BY BenchAssumption
<1> QED BY <1>1, <1>2 DEF ToTesters

\* An ECU leaves the others, and what they have sent.
LEMMA OthersKept ==
  ASSUME Bench, Shapes, NEW e \in Ecu, ServeStep(e), NEW d \in Ecu, d # e
  PROVE  /\ world' = world /\ call' = call /\ gave \subseteq gave'
         /\ queue'[d] = queue[d] /\ job'[d] = job[d] /\ rx'[d] = rx[d]
         /\ \A t \in Tester : world.calls[t] > 0 =>
                                Apart(queue[t], queue'[t], d)
<1>1. \A a, j : \/ job' = job \/ job' = [job EXCEPT ![e] = j]
                => job'[d] = job[d]
  BY DEF Bench
<1>2. \A r : rx' = rx \/ rx' = [rx EXCEPT ![e] = r] => rx'[d] = rx[d]
  BY DEF Shapes
<1>3. ASSUME queue' \in {queue, Rest(e)}
               \/ \E f : queue' \in {ToTesters(queue, e, f),
                                     ToTesters(Rest(e), e, f)}
      PROVE  /\ queue'[d] = queue[d]
             /\ \A t \in Tester : world.calls[t] > 0 =>
                                    Apart(queue[t], queue'[t], d)
  <2>1. CASE queue' \in {queue, Rest(e)}
    BY <2>1, QueuesUnsent DEF Apart
  <2>2. CASE \E f : queue' \in {ToTesters(queue, e, f),
                                ToTesters(Rest(e), e, f)}
    <3>1. PICK q, f : (q = queue \/ q = Rest(e)) /\ queue' = ToTesters(q, e, f)
      BY <2>2
    <3>2. /\ queue'[d] = queue[d]
          /\ \A t \in Tester : world.calls[t] > 0 =>
               queue'[t] = Append(queue[t], [ecu |-> e, frame |-> f])
      BY <3>1, QueuesSent
    <3> QED BY <3>2 DEF Apart
  <2> QED BY <1>3, <2>1, <2>2
<1>4. ASSUME NEW req, NEW fn, Answering(e, req, fn)
      PROVE  job'[d] = job[d] /\ gave \subseteq gave'
  BY <1>1, <1>4 DEF Answering
<1>5. CASE ServeFunctional(e)
  BY <1>2, <1>3, <1>4, <1>5 DEF ServeFunctional
<1>6. CASE ServePhysical(e)
  <2>1. PICK fed : fed = Feed(rx[e], Head(queue[e]).frame)
    OBVIOUS
  <2>2. /\ rx' = [rx EXCEPT ![e] = fed.r] /\ world' = world /\ call' = call
        /\ queue' = Rest(e) \/ queue' = ToTesters(Rest(e), e, fed.fc)
        /\ \/ UNCHANGED <<stored, job, gave>>
           \/ Answering(e, fed.msg.parts[1].msg, FALSE)
    BY <1>6, <2>1 DEF ServePhysical
  <2> QED BY <1>1, <1>2, <1>3, <1>4, <2>2
<1>7. CASE SendPending(e)
  <2>1. job' = [job EXCEPT ![e] = [job[e] EXCEPT !.left = @ - 1]]
    BY <1>7 DEF SendPending, Bench
  <2> QED BY <1>1, <1>2, <1>3, <1>7, <2>1 DEF SendPending
<1>8. CASE SendAnswer(e)
  BY <1>1, <1>2, <1>3, <1>8 DEF SendAnswer
<1>9. CASE ReadFlowControl(e)
  <2>1. job' = job \/ \E j : job' = [job EXCEPT ![e] = j]
    <3>1. CASE job' # job
      <4>1. PICK bs : job' = [job EXCEPT ![e].pc = "block", ![e].i = 0,
                                         ![e].bs = bs]
        BY <1>9, <3>1 DEF ReadFlowControl
      <4>2. job' = [job EXCEPT ![e] = [job[e] EXCEPT !.pc = "block", !.i = 0,
                                                     !.bs = bs]]
        BY <4>1 DEF Bench
      <4> QED BY <4>2
    <3> QED BY <3>1
  <2> QED BY <1>1, <1>2, <1>3, <1>9, <2>1 DEF ReadFlowControl
<1>10. CASE SendConsecutive(e)
  BY <1>1, <1>2, <1>3, <1>10 DEF SendConsecutive
<1>11. CASE SendTimesOut(e)
  BY <1>1, <1>2, <1>3, <1>11 DEF SendTimesOut
<1> QED BY <1>5, <1>6, <1>7, <1>8, <1>9, <1>10, <1>11 DEF ServeStep

LEMMA RestServes ==
  ASSUME Bench, Shapes, NEW e \in Ecu, AtRest(e), ServeStep(e)
  PROVE  /\ UNCHANGED <<world, stored, rx, job, gave, call>>
         /\ queue' = Rest(e) /\ AtRest(e)'
<1>1. queue[e] # <<>> /\ IsSequence(queue[e])
  BY ListenerServes DEF AtRest, ServeFunctional, ServePhysical, Shapes
<1>2. Control(Head(queue[e])) /\ Clean(Tail(queue[e]))
  BY <1>1, CleanShrinks DEF AtRest
<1>3. /\ UNCHANGED <<world, stored, rx, job, gave, call>>
      /\ queue' = Rest(e)
  BY <1>2, DropsControl DEF AtRest
<1> QED BY <1>2, <1>3, QueuesUnsent DEF AtRest

LEMMA AskedServes ==
  ASSUME Bench, Shapes, NEW t \in Tester, world.calls[t] > 0,
         Proper(call[t].req), NEW e \in Ecu, Asked(e, t), ServeStep(e)
  PROVE  Stage(e, t)'
<1>1. PICK m : m = call[t].req
  OBVIOUS
<1>2. PICK x : x = Request(m, IF m.len <= SFMax THEN 1 ELSE 2)
  OBVIOUS
<1>3. /\ Only(queue[e], x) /\ job[e].pc = "receive" /\ m.to \in {e, Everyone}
      /\ m.len > SFMax => Held(rx[e], m, 1)
      /\ Mute(queue[t], e) /\ ~call[t].rx[e].active
      /\ Unheard(call[t].out, e) /\ m.len \in Nat /\ SFMax \in Nat
  <2>1. m.len \in Nat /\ SFMax \in Nat
    BY <1>1, RequestIs DEF SFMax
  <2> QED BY <1>1, <1>2, <2>1 DEF Asked
<1>4. queue[e] # <<>> /\ IsSequence(queue[e])
  BY <1>3, ListenerServes DEF ServeFunctional, ServePhysical, Shapes
<1>5. CASE Control(Head(queue[e])) /\ Only(Tail(queue[e]), x)
  <2>1. queue' = Rest(e) /\ UNCHANGED <<world, stored, rx, job, gave, call>>
    BY <1>3, <1>5, DropsControl
  <2>2. Only(queue'[e], x) /\ queue'[t] = queue[t]
    BY <1>5, <2>1, QueuesUnsent
  <2>3. Asked(e, t)'
    BY <1>1, <1>2, <1>3, <2>1, <2>2 DEF Asked
  <2> QED BY <2>3 DEF Stage
<1>6. CASE Head(queue[e]) = x /\ Clean(Tail(queue[e]))
  <2>1. /\ queue' = Rest(e) /\ UNCHANGED <<world, call>>
        /\ Answering(e, m, m.to = Everyone)
    <3>1. \/ m.len <= SFMax /\ Head(queue[e]) = Request(m, 1)
          \/ /\ m.len > SFMax /\ Head(queue[e]) = Request(m, 2)
             /\ Held(rx[e], m, 1)
      BY <1>2, <1>3, <1>6
    <3> QED BY <1>1, <1>3, <3>1, TakesRequest
  <2>2. Clean(queue'[e]) /\ queue'[t] = queue[t]
    BY <1>6, <2>1, QueuesUnsent
  <2>3. CASE e \notin Answerers(m) /\ job' = job
    <3>1. e \notin Answerers(call[t].req)'
      BY <1>1, <2>1, <2>3, AnswerersKept
    <3>2. Silent(e, t)'
      BY <1>3, <2>1, <2>2, <2>3, <3>1 DEF Silent, AtRest
    <3> QED BY <3>2 DEF Stage
  <2>4. CASE \E a \in gave' :
               /\ IsAnswer(a, e, m) /\ Said(a)
               /\ job'[e].pc = "reply" /\ job'[e].frames = Frames(a)
    <3>1. PICK a \in gave' :
               /\ IsAnswer(a, e, m) /\ Said(a)
               /\ job'[e].pc = "reply" /\ job'[e].frames = Frames(a)
      BY <2>4
    <3>2. Chain(queue[t], call[t].rx[e], e, a, 1)
      BY <1>3, ChainBegins
    <3>3. 1 \in 1 .. Len(Frames(a)) + 1 /\ Sends(job'[e], a, 1)
      BY <3>1, AnswerLength DEF Sends
    <3>4. AtWork(queue'[t], call'[t].rx[e], e, job'[e], a)
      BY <2>1, <2>2, <3>2, <3>3 DEF AtWork
    <3>5. IsAnswer(a, e, call[t].req)'
      BY <1>1, <2>1, <3>1, AnswerersKept
    <3>6. Working(e, t)'
      BY <1>3, <2>1, <2>2, <3>4, <3>5 DEF Working
    <3> QED BY <3>6 DEF Stage
  <2> QED BY <1>1, <1>3, <2>1, <2>3, <2>4, AnswersOrNot
<1> QED BY <1>3, <1>4, <1>5, <1>6, CleanShrinks

LEMMA WorkingServes ==
  ASSUME MixInv, Shapes, world.calm, NEW t \in Tester, world.calls[t] > 0,
         NEW e \in Ecu, Working(e, t), ServeStep(e)
  PROVE  Working(e, t)'
<1>1. Bench /\ IsJob(job[e])
  BY DEF MixInv, Serves
<1>2. PICK a \in gave : /\ IsAnswer(a, e, call[t].req)
                        /\ AtWork(queue[t], call[t].rx[e], e, job[e], a)
  BY DEF Working
<1>3. PICK r : r = call[t].rx[e]
  OBVIOUS
<1>4. PICK q : q = queue[t] /\ IsSequence(q)
  BY DEF Shapes
<1>5. PICK k \in 1 .. Len(Frames(a)) + 1 :
        Chain(q, r, e, a, k) /\ Sends(job[e], a, k)
  BY <1>2, <1>3, <1>4 DEF AtWork
<1>6. Said(a) /\ Len(Frames(a)) \in Nat /\ Len(Frames(a)) > 0 /\ k \in Nat
  <2>1. Said(a)
    BY <1>1 DEF Bench
  <2>2. Len(Frames(a)) \in Nat /\ Len(Frames(a)) > 0
    BY <2>1, AnswerLength
  <2> QED BY <2>1, <2>2
<1>7. ASSUME NEW l \in 1 .. Len(Frames(a)) + 1, Chain(queue'[t], r, e, a, l),
             Sends(job'[e], a, l), Clean(queue'[e]),
             UNCHANGED <<world, gave, call>>
      PROVE  Working(e, t)'
  <2>1. AtWork(queue'[t], call'[t].rx[e], e, job'[e], a)
    BY <1>3, <1>7 DEF AtWork
  <2>2. IsAnswer(a, e, call[t].req)'
    BY <1>2, <1>7, AnswerersKept
  <2> QED BY <1>7, <2>1, <2>2 DEF Working
<1>8. PICK b : b = job[e] /\ IsJob(b) /\ Sends(b, a, k)
  BY <1>1, <1>5
<1>9. Clean(queue[e]) /\ IsSequence(queue[e])
  BY DEF Working, Shapes
<1>10. ASSUME NEW f, queue' = ToTesters(queue, e, f)
       PROVE  /\ queue'[e] = queue[e]
              /\ queue'[t] = Append(q, [ecu |-> e, frame |-> f])
  BY <1>1, <1>4, <1>10, QueuesSent
<1>11. CASE b.pc = "receive"
  <2>1. AtRest(e)
    BY <1>8, <1>9, <1>11 DEF AtRest
  <2>2. /\ UNCHANGED <<world, stored, rx, job, gave, call>>
        /\ queue' = Rest(e) /\ Clean(queue'[e])
    BY <1>1, <2>1, RestServes DEF AtRest
  <2>3. queue'[t] = q
    BY <1>1, <1>4, <2>2, QueuesUnsent
  <2> QED BY <1>5, <1>7, <2>2, <2>3
<1>12. CASE SendPending(e)
  <2>1. b.pc = "reply" /\ UNCHANGED <<world, gave, call>>
        /\ job' = [job EXCEPT ![e].left = @ - 1]
    BY <1>8, <1>12 DEF SendPending
  <2>2. b.frames = Frames(a) /\ k = 1
    BY <1>8, <2>1 DEF Sends, InAnswer
  <2>3. PICK j : j = [b EXCEPT !.left = b.left - 1]
    OBVIOUS
  <2>4. j.pc = "reply" /\ j.frames = Frames(a)
    BY <1>8, <2>1, <2>2, <2>3 DEF IsJob
  <2>5. job'[e] = j
    BY <1>1, <1>8, <2>1, <2>3 DEF Bench
  <2>6. PICK own : own = [a EXCEPT !.kind = "pending"]
    OBVIOUS
  <2>7. PICK f : f = SingleFrame(own, 3)
    OBVIOUS
  <2>8. AsksForTime(f)
    <3>1. own.kind = "pending"
      BY <1>6, <2>6 DEF Said
    <3>2. f.pci = "SF" /\ f.len = 3 /\ f.msg = own
      BY <2>7 DEF SingleFrame
    <3> QED BY <3>1, <3>2 DEF AsksForTime
  <2>9. queue' = ToTesters(queue, e, f)
    <3>1. job[e].frames[1].msg = a
      BY <1>6, <1>8, <2>2, FirstNames
    <3> QED BY <1>12, <2>6, <2>7, <3>1 DEF SendPending
  <2>10. PICK x : x = [ecu |-> e, frame |-> f]
    OBVIOUS
  <2>11. x.ecu = e /\ AsksForTime(x.frame)
    BY <2>8, <2>10
  <2>12. Chain(Append(q, x), r, e, a, k)
    BY <1>4, <1>5, <1>6, <2>2, <2>11, ChainStays
  <2>13. Sends(job'[e], a, k)
    BY <2>2, <2>4, <2>5 DEF Sends
  <2> QED BY <1>5, <1>7, <1>9, <1>10, <2>1, <2>9, <2>10, <2>12, <2>13
<1>13. CASE SendAnswer(e)
  <2>1. b.pc = "reply" /\ UNCHANGED <<world, gave, call>>
        /\ queue' = ToTesters(queue, e, b.frames[1])
    BY <1>8, <1>13 DEF SendAnswer
  <2>2. b.frames = Frames(a) /\ k = 1
    BY <1>8, <2>1 DEF Sends, InAnswer
  <2>3. Chain(queue'[t], r, e, a, 2)
    <3>1. queue'[t] = Append(q, [ecu |-> e, frame |-> Frames(a)[k]])
      BY <1>10, <2>1, <2>2
    <3>2. Chain(queue'[t], r, e, a, k + 1)
      BY <1>4, <1>5, <1>6, <3>1, ChainGrows
    <3> QED BY <2>2, <3>2
  <2>4. PICK c : c = [b EXCEPT !.pc = "waitFC", !.next = 2]
    OBVIOUS
  <2>5. c.pc = "waitFC" /\ c.next = 2 /\ c.frames = Frames(a)
    BY <1>8, <2>2, <2>4 DEF IsJob
  <2>6. job'[e] = IF Len(Frames(a)) = 1 THEN Listening ELSE c
    <3>1. job' = [job EXCEPT ![e] =
             IF Len(@.frames) = 1 THEN Listening
             ELSE [@ EXCEPT !.pc = "waitFC", !.next = 2]]
      BY <1>13 DEF SendAnswer
    <3>2. job'[e] = IF Len(b.frames) = 1 THEN Listening
                    ELSE [b EXCEPT !.pc = "waitFC", !.next = 2]
      BY <1>1, <1>8, <3>1 DEF Bench
    <3> QED BY <2>2, <2>4, <3>2
  <2>7. 2 \in 1 .. Len(Frames(a)) + 1 /\ Sends(job'[e], a, 2)
    <3>1. CASE Len(Frames(a)) = 1
      <4>1. job'[e].pc = "receive"
        BY <2>6, <3>1, ListeningIs
      <4> QED BY <1>6, <3>1, <4>1 DEF Sends
    <3>2. CASE Len(Frames(a)) # 1
      <4>1. job'[e] = c
        BY <2>6, <3>2
      <4>2. 2 \in 2 .. Len(Frames(a))
        <5>1. PICK n \in Nat : n = Len(Frames(a))
          BY <1>6
        <5>2. n > 0 /\ n # 1
          BY <1>6, <3>2, <5>1
        <5>3. 2 \in 2 .. n
          BY <5>2
        <5> QED BY <5>1, <5>3
      <4>3. /\ InAnswer(job'[e]) /\ job'[e].frames = Frames(a)
            /\ 2 = job'[e].next
        BY <2>5, <4>1 DEF InAnswer
      <4>4. Sends(job'[e], a, 2)
        BY <4>2, <4>3 DEF Sends
      <4>5. 2 \in 1 .. Len(Frames(a)) + 1
        BY <1>6, <4>2
      <4> QED BY <4>4, <4>5
    <3> QED BY <3>1, <3>2
  <2> QED BY <1>7, <1>9, <1>10, <2>1, <2>3, <2>7
<1>14. CASE ReadFlowControl(e)
  <2>1. /\ b.pc = "waitFC" /\ UNCHANGED <<world, gave, call>>
        /\ queue' = Rest(e) /\ queue[e] # <<>>
    BY <1>8, <1>14 DEF ReadFlowControl
  <2>2. /\ b.frames = Frames(a) /\ k = b.next /\ k \in 2 .. Len(Frames(a))
    BY <1>8, <2>1 DEF Sends, InAnswer
  <2>3. Clean(queue'[e]) /\ queue'[t] = q
    BY <1>1, <1>4, <1>9, <2>1, QueuesUnsent, CleanShrinks
  <2>4. Sends(job'[e], a, k)
    <3>1. CASE job' = job
      BY <1>5, <3>1
    <3>2. CASE job' # job
      <4>1. PICK bs : job' = [job EXCEPT ![e].pc = "block", ![e].i = 0,
                                         ![e].bs = bs]
        BY <1>14, <3>2 DEF ReadFlowControl
      <4>2. PICK j : j = [b EXCEPT !.pc = "block", !.i = 0, !.bs = bs]
        OBVIOUS
      <4>3. j.pc = "block" /\ j.frames = b.frames /\ j.next = b.next
        BY <1>8, <4>2 DEF IsJob
      <4>4. job'[e] = j
        BY <1>1, <1>8, <4>1, <4>2 DEF Bench
      <4> QED BY <2>2, <4>3, <4>4 DEF Sends, InAnswer
    <3> QED BY <3>1, <3>2
  <2> QED BY <1>5, <1>7, <2>1, <2>3, <2>4
<1>15. CASE SendConsecutive(e)
  <2>1. b.pc = "block" /\ UNCHANGED <<world, gave, call>>
        /\ queue' = ToTesters(queue, e, b.frames[b.next])
    BY <1>8, <1>15 DEF SendConsecutive
  <2>2. /\ b.frames = Frames(a) /\ k = b.next /\ k \in 2 .. Len(Frames(a))
    BY <1>8, <2>1 DEF Sends, InAnswer
  <2>3. Chain(queue'[t], r, e, a, k + 1)
    <3>1. queue'[t] = Append(q, [ecu |-> e, frame |-> Frames(a)[k]])
      BY <1>10, <2>1, <2>2
    <3> QED BY <1>4, <1>5, <1>6, <3>1, ChainGrows
  <2>4. PICK j : j = AfterFrame(b)
    OBVIOUS
  <2>5. job'[e] = j
    <3>1. job' = [job EXCEPT ![e] = AfterFrame(@)]
      BY <1>15 DEF SendConsecutive
    <3> QED BY <1>1, <1>8, <2>4, <3>1 DEF Bench
  <2>6. \/ j.pc = "receive" /\ b.next = Len(b.frames)
        \/ /\ InAnswer(j) /\ j.frames = b.frames /\ j.next = b.next + 1
           /\ b.next # Len(b.frames)
    <3>1. CASE b.next = Len(b.frames)
      BY <2>4, <3>1, ListeningIs DEF AfterFrame
    <3>2. CASE b.next # Len(b.frames)
               /\ j = [b EXCEPT !.pc = "waitFC", !.next = b.next + 1]
      BY <1>8, <3>2 DEF IsJob, InAnswer
    <3>3. CASE b.next # Len(b.frames)
               /\ j = [b EXCEPT !.next = b.next + 1, !.i = b.i + 1]
      BY <1>8, <2>1, <3>3 DEF IsJob, InAnswer
    <3> QED BY <2>4, <3>1, <3>2, <3>3 DEF AfterFrame
  <2>7. k + 1 \in 1 .. Len(Frames(a)) + 1 /\ Sends(j, a, k + 1)
    <3>1. CASE b.next = Len(b.frames)
      <4>1. k + 1 = Len(Frames(a)) + 1 /\ j.pc = "receive"
        BY <2>2, <2>6, <3>1
      <4> QED BY <1>6, <4>1 DEF Sends
    <3>2. CASE b.next # Len(b.frames)
      <4>1. k + 1 \in 2 .. Len(Frames(a))
        BY <1>6, <2>2, <3>2
      <4> QED BY <1>6, <2>2, <2>6, <3>2, <4>1 DEF Sends
    <3> QED BY <3>1, <3>2
  <2> QED BY <1>7, <1>9, <1>10, <2>1, <2>3, <2>5, <2>7
<1>16. ~SendTimesOut(e)
  BY DEF SendTimesOut
<1>17. ServeFunctional(e) \/ ServePhysical(e) => b.pc = "receive"
  BY <1>8 DEF ServeFunctional, ServePhysical
<1> QED BY <1>11, <1>12, <1>13, <1>14, <1>15, <1>16, <1>17 DEF ServeStep

LEMMA ServeKeepsTrip ==
  ASSUME MixInv, Shapes, world.calm, NEW t \in Tester, world.calls[t] > 0,
         Trip(t), NEW e \in Ecu, ServeStep(e)
  PROVE  Trip(t)'
<1>1. Bench /\ world' = world /\ call' = call
  <2>1. Bench
    BY DEF MixInv
  <2>2. world' = world /\ call' = call
    BY DEF ServeStep, ServeFunctional, ServePhysical, SendPending, SendAnswer,
           ReadFlowControl, SendConsecutive, SendTimesOut
  <2> QED BY <2>1, <2>2
<1>2. ASSUME AtRest(e)
      PROVE  /\ UNCHANGED <<world, stored, rx, job, gave, call>>
             /\ queue'[t] = queue[t] /\ AtRest(e)'
             /\ \A d \in Ecu : d # e => queue'[d] = queue[d]
             /\ \A d \in Ecu : AtRest(d) => AtRest(d)'
  <2>1. /\ UNCHANGED <<world, stored, rx, job, gave, call>>
        /\ queue' = Rest(e) /\ AtRest(e)'
    BY <1>1, <1>2, RestServes
  <2>2. /\ queue'[t] = queue[t]
        /\ \A d \in Ecu : d # e => queue'[d] = queue[d]
    BY <1>1, <2>1, QueuesUnsent
  <2> QED BY <2>1, <2>2 DEF AtRest
<1>3. CASE call[t].pc = "idle" /\ Resting(t)
  <2>1. AtRest(e)
    BY <1>3 DEF Resting
  <2>2. Settled(call[t]) => Settled(call[t])'
    BY <1>1, AnswerersKept DEF Settled
  <2>3. Resting(t)'
    BY <1>1, <1>2, <1>3, <2>1, <2>2 DEF Resting
  <2> QED BY <1>1, <1>3, <2>3 DEF Trip
<1>4. CASE Proper(call[t].req) /\ call[t].n > 0 /\ call[t].pc = "sendFC"
           /\ Sending(t)
  <2>1. PICK m : m = call[t].req
    OBVIOUS
  <2>2. /\ Proper(m) /\ m.len > SFMax /\ call[t].out = <<>> /\ m.to \in Ecu
        /\ \A d \in Ecu \ {m.to} : AtRest(d)
        /\ job[m.to].pc = "receive"
        /\ \/ queue[t] = <<>> /\ Only(queue[m.to], Request(m, 1))
           \/ /\ Len(queue[t]) = 1 /\ queue[t][1].ecu = m.to
              /\ queue[t][1].frame.pci = "FC"
              /\ Clean(queue[m.to]) /\ Held(rx[m.to], m, 1)
    BY <1>4, <2>1 DEF Sending, Proper
  <2>3. CASE AtRest(e) /\ (e = m.to => queue[t] # <<>>)
    <3>1. CASE e # m.to
      <4>1. Sending(t)'
        BY <1>2, <2>1, <2>2, <2>3, <3>1 DEF Sending
      <4> QED BY <1>1, <1>4, <4>1 DEF Trip
    <3>2. CASE e = m.to
      <4>1. Sending(t)'
        BY <1>2, <2>1, <2>2, <2>3, <3>2 DEF Sending, AtRest
      <4> QED BY <1>1, <1>4, <4>1 DEF Trip
    <3> QED BY <3>1, <3>2
  <2>4. CASE e = m.to /\ queue[t] = <<>> /\ Only(queue[e], Request(m, 1))
    <3>1. queue[e] # <<>> /\ IsSequence(queue[e]) /\ job[e].pc = "receive"
      BY <2>2, <2>4, ListenerServes DEF ServeFunctional, ServePhysical, Shapes
    <3>2. CASE Control(Head(queue[e])) /\ Only(Tail(queue[e]), Request(m, 1))
      <4>1. queue' = Rest(e)
            /\ UNCHANGED <<world, stored, rx, job, gave, call>>
        BY <1>1, <3>1, <3>2, DropsControl
      <4>2. /\ queue'[e] = Tail(queue[e]) /\ queue'[t] = queue[t]
            /\ \A d \in Ecu : d # e => queue'[d] = queue[d]
        BY <1>1, <4>1, QueuesUnsent
      <4>3. Sending(t)'
        BY <2>1, <2>2, <2>4, <3>2, <4>1, <4>2 DEF Sending, AtRest
      <4> QED BY <1>1, <1>4, <4>3 DEF Trip
    <3>3. CASE Head(queue[e]) = Request(m, 1) /\ Clean(Tail(queue[e]))
      <4>1. /\ UNCHANGED <<world, stored, job, gave, call>>
            /\ \E r, f : /\ Held(r, m, 1) /\ rx' = [rx EXCEPT ![e] = r]
                         /\ f.pci = "FC" /\ queue' = ToTesters(Rest(e), e, f)
        BY <1>1, <2>2, <3>1, <3>3, TakesFirst
      <4>2. PICK r, f : /\ Held(r, m, 1) /\ rx' = [rx EXCEPT ![e] = r]
                        /\ f.pci = "FC" /\ queue' = ToTesters(Rest(e), e, f)
        BY <4>1
      <4>3. PICK x : x = [ecu |-> e, frame |-> f]
        OBVIOUS
      <4>4. /\ queue'[e] = Tail(queue[e])
            /\ \A d \in Ecu : d # e => queue'[d] = queue[d]
            /\ queue'[t] = Append(<<>>, x)
        BY <1>1, <2>4, <4>2, <4>3, QueuesSent, RestIs
      <4>5. Len(queue'[t]) = 1 /\ queue'[t][1] = x /\ x.ecu = e
            /\ x.frame.pci = "FC"
        <5>1. Len(Append(<<>>, x)) = 0 + 1 /\ Append(<<>>, x)[0 + 1] = x
          BY NoneIsSequence, AppendIs
        <5>2. 0 + 1 = 1
          OBVIOUS
        <5> QED BY <4>2, <4>3, <4>4, <5>1, <5>2
      <4>6. rx'[e] = r
        BY <4>2 DEF Shapes
      <4>7. \A d \in Ecu \ {m.to} : AtRest(d)'
        BY <2>2, <2>4, <4>1, <4>4 DEF AtRest
      <4>8. /\ call'[t].req = m /\ call'[t].out = <<>>
            /\ job'[m.to].pc = "receive"
            /\ Len(queue'[t]) = 1 /\ queue'[t][1].ecu = m.to
            /\ queue'[t][1].frame.pci = "FC"
            /\ Clean(queue'[m.to]) /\ Held(rx'[m.to], m, 1)
        <5>1. call'[t].req = m /\ call'[t].out = <<>>
              /\ job'[m.to].pc = "receive"
          BY <2>1, <2>2, <4>1
        <5>2. Len(queue'[t]) = 1 /\ queue'[t][1].ecu = m.to
              /\ queue'[t][1].frame.pci = "FC"
          BY <2>4, <4>5
        <5>3. Clean(queue'[m.to]) /\ Held(rx'[m.to], m, 1)
          BY <2>4, <3>3, <4>2, <4>4, <4>6
        <5> QED BY <5>1, <5>2, <5>3
      <4>9. Sending(t)'
        BY <2>2, <4>7, <4>8 DEF Sending
      <4> QED BY <1>1, <1>4, <4>9 DEF Trip
    <3> QED BY <2>4, <3>1, <3>2, <3>3, CleanShrinks
  <2>5. Len(<<>>) # 1
    OBVIOUS
  <2> QED BY <2>2, <2>3, <2>4, <2>5 DEF AtRest
<1>5. CASE Proper(call[t].req) /\ call[t].n > 0 /\ call[t].pc = "receiving"
           /\ Receiving(t)
  <2>1. Stage(e, t)'
    <3>1. CASE Asked(e, t)
      BY <1>1, <1>5, <3>1, AskedServes
    <3>2. CASE Working(e, t)
      BY <3>2, WorkingServes DEF Stage
    <3>3. CASE Heard(e, t)
      <4>1. Heard(e, t)'
        BY <1>1, <1>2, <3>3, AnswerersKept DEF Heard
      <4> QED BY <4>1 DEF Stage
    <3>4. CASE Silent(e, t)
      <4>1. Silent(e, t)'
        BY <1>1, <1>2, <3>4, AnswerersKept DEF Silent
      <4> QED BY <4>1 DEF Stage
    <3> QED BY <1>5, <3>1, <3>2, <3>3, <3>4 DEF Receiving, Stage
  <2>2. ASSUME NEW d \in Ecu, d # e PROVE Stage(d, t)'
    <3>1. Stage(d, t) /\ IsSequence(queue[t]) /\ \A a \in gave : Said(a)
      BY <1>1, <1>5 DEF Receiving, Shapes, Bench
    <3>2. /\ gave \subseteq gave' /\ Apart(queue[t], queue'[t], d)
          /\ queue'[d] = queue[d] /\ job'[d] = job[d] /\ rx'[d] = rx[d]
      BY <1>1, <2>2, OthersKept
    <3> QED BY <1>1, <3>1, <3>2, StageKept
  <2>3. Receiving(t)'
    BY <1>1, <1>5, <2>1, <2>2 DEF Receiving
  <2> QED BY <1>1, <1>5, <2>3 DEF Trip
<1> QED BY <1>3, <1>4, <1>5 DEF Trip

-----------------------------------------------------------------------------
(* The steps of the tester                                                 *)

\* Once sent, an answer is queued until it was heard.
LEMMA ChainEnds ==
  ASSUME NEW r, NEW e, NEW a, Said(a)
  PROVE  ~Chain(<<>>, r, e, a, Len(Frames(a)) + 1)
<1>1. SUFFICES ASSUME Chain(<<>>, r, e, a, Len(Frames(a)) + 1) PROVE FALSE
  OBVIOUS
<1>2. a.len \in Nat \ {0}
  BY DEF Said
<1>3. PICK n \in Nat : n = Len(Frames(a)) /\ n > 0
  BY AnswerLength
<1>4. PICK l \in 1 .. n + 1 : \E pos \in [l .. n + 1 - 1 -> 1 .. Len(<<>>)] :
        Linked(<<>>, r, e, a, n + 1, l, pos)
  BY <1>1, <1>3, ChainIs
<1>5. PICK pos \in [l .. n + 1 - 1 -> 1 .. Len(<<>>)] :
        Linked(<<>>, r, e, a, n + 1, l, pos)
  BY <1>4
<1>6. l = n + 1
  <2>1. ASSUME l \in l .. n + 1 - 1 PROVE FALSE
    <3>1. pos[l] \in 1 .. Len(<<>>)
      BY <1>5, <2>1
    <3>2. Len(<<>>) = 0
      OBVIOUS
    <3> QED BY <3>1, <3>2
  <2> QED BY <1>3, <2>1
<1>7. Held(r, a, n)
  BY <1>3, <1>5, <1>6 DEF Linked
<1>8. n \in 1 .. Len(Split(a)) - 1
  BY <1>7 DEF Held
<1>9. CASE Long(a)
  <2>1. Len(Split(a)) \in Nat /\ n = Len(Split(a))
    BY <1>2, <1>3, <1>9, SplitIs, FramesOfLong
  <2> QED BY <1>8, <2>1
<1>10. CASE ~Long(a)
  <2>1. Len(Split(a)) = 1
    BY <1>2, <1>10 DEF Split, Long, SFMax
  <2> QED BY <1>8, <2>1
<1> QED BY <1>9, <1>10

LEMMA QueuesAsked ==
  ASSUME Bench, NEW t \in Tester, NEW q, q = queue \/ q = Rest(t),
         NEW to, NEW f, queue' = ToEcus(q, to, f)
  PROVE  /\ queue'[t] = q[t]
         /\ \A d \in Ecu : to \notin {d, Everyone} => queue'[d] = queue[d]
         /\ \A d \in Ecu : to \in {d, Everyone} =>
              queue'[d] = Append(queue[d], [functional |-> to = Everyone,
                                            frame |-> f])
<1>1. /\ DOMAIN q = Ecu \cup Tester
      /\ \A d \in Ecu \cup Tester : d # t => q[d] = queue[d]
  BY RestIs, QueueIs
<1>2. Ecu \cap Tester = {}
  BY BenchAssumption
<1> QED BY <1>1, <1>2 DEF ToEcus

\* Nobody else is there.
LEMMA TesterAlone ==
  ASSUME MixInv, world.calm, NEW t \in Tester, world.calls[t] > 0,
         NEW u \in Tester, TripStep(u) \/ \E a : Call(u, a)
  PROVE  u = t
<1>1. world \in Worlds /\ Listens(u)
  BY DEF MixInv, Bench
<1>2. world.calls[u] \in Nat
  BY <1>1, WorldIs
<1>3. CASE world.calls[u] > 0
  BY <1>1, <1>3, BenchAssumption DEF OneTester
<1>4. CASE world.calls[u] = 0
  <2>1. PICK c : c = call[u] /\ c.pc = "idle" /\ c.n = 0
    BY <1>1, <1>4, NoCallIs DEF Listens
  <2>2. ~TripStep(u)
    BY <2>1 DEF TripStep, TakeFlowControl, TakeFrame, Return
  <2>3. ASSUME NEW a, Call(u, a) PROVE FALSE
    <3>1. c.n < world.calls[u]
      BY <2>1, <2>3 DEF Call
    <3> QED BY <1>4, <2>1, <3>1
  <2> QED BY <2>2, <2>3
<1> QED BY <1>2, <1>3, <1>4

LEMMA CallKeepsTrip ==
  ASSUME MixInv, Shapes, NEW t \in Tester, Trip(t), NEW a \in world.asks,
         Call(t, a)
  PROVE  Trip(t)'
<1>1. Bench /\ world \in Worlds
  BY DEF MixInv, Bench
<1>2. /\ call[t].pc = "idle" /\ UNCHANGED <<world, stored, rx, job, gave>>
  BY DEF Call, ecuVars
<1>3. queue[t] = <<>> /\ \A e \in Ecu : AtRest(e)
  BY <1>2 DEF Trip, Resting
<1>4. PICK m : m = [by |-> t, n |-> call[t].n + 1, svc |-> a.svc,
                    id |-> a.id, to |-> a.to, len |-> a.len]
  OBVIOUS
<1>5. Proper(m) \/ (m.len > SFMax /\ m.to = Everyone)
  <2>1. a \in Ask
    BY <1>1, BenchAssumption DEF World
  <2>2. /\ a.svc \in Services /\ a.to \in Ecu \cup {Everyone}
        /\ a.len \in 1 .. FFData + CFData
    BY <2>1 DEF Ask
  <2>3. m.svc = a.svc /\ m.to = a.to /\ m.len = a.len
    BY <1>4
  <2> QED BY <2>2, <2>3 DEF Proper
<1>6. m.n \in Nat /\ m.n > 0
  <2>1. call[t].n \in Nat
    BY DEF Shapes
  <2> QED BY <1>4, <2>1
<1>7. PICK new : new = [NoCall EXCEPT !.n = m.n, !.req = m]
  OBVIOUS
<1>8. /\ IsCall(new) /\ new.n = m.n /\ new.req = m /\ new.out = <<>>
      /\ new.pc = "idle" /\ \A e \in Ecu : ~new.rx[e].active
  <2>1. PICK b : b = NoCall
    OBVIOUS
  <2>2. /\ IsCall(b) /\ b.pc = "idle" /\ b.out = <<>>
        /\ \A e \in Ecu : ~b.rx[e].active
    BY <2>1, NoCallIs
  <2>3. new = [b EXCEPT !.n = m.n, !.req = m]
    BY <1>7, <2>1
  <2> QED BY <2>2, <2>3 DEF IsCall
<1>9. CASE m.len > SFMax /\ m.to = Everyone
  <2>1. PICK c : c = [new EXCEPT !.result = "error"]
    OBVIOUS
  <2>2. call' = [call EXCEPT ![t] = c] /\ queue' = queue
    BY <1>4, <1>7, <1>9, <2>1 DEF Call
  <2>3. c.pc = "idle" /\ c.req = m /\ c.result = "error"
    BY <1>8, <2>1 DEF IsCall
  <2>4. call'[t] = c
    BY <1>1, <2>2 DEF Bench
  <2>5. Resting(t)'
    <3>1. Settled(call[t])'
      BY <1>9, <2>3, <2>4 DEF Settled
    <3>2. queue'[t] = <<>> /\ \A e \in Ecu : AtRest(e)'
      BY <1>2, <1>3, <2>2 DEF AtRest
    <3> QED BY <3>1, <3>2 DEF Resting
  <2> QED BY <2>3, <2>4, <2>5 DEF Trip
<1>10. CASE ~(m.len > SFMax /\ m.to = Everyone)
  <2>1. PICK c : c = [new EXCEPT !.pc = IF m.len > SFMax THEN "sendFC"
                                        ELSE "receiving"]
    OBVIOUS
  <2>2. /\ call' = [call EXCEPT ![t] = c]
        /\ queue' = ToEcus(queue, m.to, Frames(m)[1])
    BY <1>4, <1>7, <1>10, <2>1 DEF Call
  <2>3. /\ c.pc = IF m.len > SFMax THEN "sendFC" ELSE "receiving"
        /\ c.req = m /\ c.n = m.n /\ c.out = <<>>
        /\ \A e \in Ecu : ~c.rx[e].active
    BY <1>8, <2>1 DEF IsCall
  <2>4. call'[t] = c
    BY <1>1, <2>2 DEF Bench
  <2>5. PICK x : x = Request(m, 1)
    OBVIOUS
  <2>6. /\ queue'[t] = <<>>
        /\ \A d \in Ecu : m.to \notin {d, Everyone} =>
             queue'[d] = queue[d] /\ Clean(queue'[d])
        /\ \A d \in Ecu : m.to \in {d, Everyone} => Only(queue'[d], x)
    <3>1. PICK to, f : to = m.to /\ f = Frames(m)[1]
      OBVIOUS
    <3>2. x = [functional |-> to = Everyone, frame |-> f]
      BY <2>5, <3>1 DEF Request
    <3>3. queue' = ToEcus(queue, to, f)
      BY <2>2, <3>1
    <3>4. /\ queue'[t] = queue[t]
          /\ \A d \in Ecu : m.to \notin {d, Everyone} => queue'[d] = queue[d]
          /\ \A d \in Ecu : m.to \in {d, Everyone} =>
               queue'[d] = Append(queue[d], x)
      <4>1. /\ queue'[t] = queue[t]
            /\ \A d \in Ecu : to \notin {d, Everyone} => queue'[d] = queue[d]
            /\ \A d \in Ecu : to \in {d, Everyone} =>
                 queue'[d] = Append(queue[d], [functional |-> to = Everyone,
                                               frame |-> f])
        BY <1>1, <3>3, QueuesAsked
      <4> QED BY <3>1, <3>2, <4>1
    <3>5. \A d \in Ecu : IsSequence(queue[d]) /\ Clean(queue[d])
      BY <1>3 DEF Shapes, AtRest
    <3>6. \A d \in Ecu : Only(Append(queue[d], x), x)
      BY <3>5, CleanGrows
    <3> QED BY <1>3, <3>4, <3>5, <3>6
  <2>7. Proper(m)
    BY <1>5, <1>10
  <2>8. m.len \in Nat /\ SFMax \in Nat /\ m.to \in Ecu \cup {Everyone}
    BY <2>7, RequestIs DEF SFMax, Proper
  <2>9. CASE m.len > SFMax
    <3>1. m.to \in Ecu /\ m.to # Everyone
      BY <2>7, <2>9, BenchAssumption DEF Proper
    <3>2. \A e \in Ecu \ {m.to} : AtRest(e)'
      BY <1>2, <1>3, <2>6, <3>1 DEF AtRest
    <3>3. /\ call'[t].req = m /\ call'[t].out = <<>>
          /\ job'[m.to].pc = "receive"
          /\ queue'[t] = <<>> /\ Only(queue'[m.to], Request(m, 1))
      BY <1>2, <1>3, <2>3, <2>4, <2>5, <2>6, <3>1 DEF AtRest
    <3>4. Sending(t)'
      BY <2>9, <3>2, <3>3 DEF Sending
    <3> QED BY <1>6, <2>3, <2>4, <2>7, <2>9, <3>4 DEF Trip
  <2>10. CASE m.len <= SFMax
    <3>1. ASSUME NEW e \in Ecu PROVE Stage(e, t)'
      <4>1. /\ job'[e].pc = "receive" /\ Mute(queue'[t], e)
            /\ ~call'[t].rx[e].active /\ Unheard(call'[t].out, e)
        BY <1>2, <1>3, <2>3, <2>4, <2>6, NoneHeard DEF AtRest, Mute
      <4>2. CASE m.to \in {e, Everyone}
        <5>1. Asked(e, t)'
          BY <2>3, <2>4, <2>5, <2>6, <2>10, <4>1, <4>2 DEF Asked
        <5> QED BY <5>1 DEF Stage
      <4>3. CASE m.to \notin {e, Everyone}
        <5>1. e \notin Answerers(call[t].req)'
          BY <2>3, <2>4, <4>3 DEF Answerers
        <5>2. Silent(e, t)'
          BY <2>6, <4>1, <4>3, <5>1 DEF Silent, AtRest
        <5> QED BY <5>2 DEF Stage
      <4> QED BY <4>2, <4>3
    <3>2. Receiving(t)'
      BY <2>3, <2>4, <3>1, AmongIs DEF Receiving
    <3>3. ~(m.len > SFMax)
      BY <2>8, <2>10
    <3> QED BY <1>6, <2>3, <2>4, <2>7, <3>2, <3>3 DEF Trip
  <2> QED BY <2>8, <2>9, <2>10
<1> QED BY <1>9, <1>10

LEMMA FlowControlKeepsTrip ==
  ASSUME MixInv, Shapes, NEW t \in Tester, Trip(t), TakeFlowControl(t)
  PROVE  Trip(t)'
<1>1. Bench /\ Listens(t) /\ IsCall(call[t])
  BY DEF MixInv, Listens
<1>2. /\ call[t].pc = "sendFC" /\ queue[t] # <<>> /\ Sending(t)
      /\ Proper(call[t].req) /\ call[t].n > 0
      /\ UNCHANGED <<world, stored, rx, job, gave>>
  BY DEF TakeFlowControl, Trip, ecuVars
<1>3. PICK m : m = call[t].req
  OBVIOUS
<1>4. /\ m.len > SFMax /\ call[t].out = <<>>
      /\ \A e \in Ecu \ {m.to} : AtRest(e)
      /\ job[m.to].pc = "receive"
      /\ Len(queue[t]) = 1 /\ queue[t][1].ecu = m.to
      /\ queue[t][1].frame.pci = "FC"
      /\ Clean(queue[m.to]) /\ Held(rx[m.to], m, 1)
  BY <1>2, <1>3 DEF Sending
<1>5. Proper(m) /\ m.to \in Ecu /\ m.to # Everyone
  BY <1>2, <1>3, <1>4, BenchAssumption DEF Proper
<1>6. IsSequence(queue[t]) /\ IsSequence(queue[m.to])
  BY <1>5 DEF Shapes
<1>7. PICK h : h = Head(queue[t]) /\ h = queue[t][1]
  BY <1>2, <1>6, TailIs
<1>8. PICK f : f = Frames(m)[2]
  OBVIOUS
<1>9. /\ queue' = ToEcus(Rest(t), m.to, f)
      /\ call' = [call EXCEPT ![t].pc = "receiving"]
  <2>1. ~(h.ecu # m.to \/ h.frame.pci # "FC")
    BY <1>4, <1>7
  <2> QED BY <1>3, <1>7, <1>8, <2>1 DEF TakeFlowControl
<1>10. PICK c : c = call[t]
  OBVIOUS
<1>11. PICK d : d = [c EXCEPT !.pc = "receiving"]
  OBVIOUS
<1>12. /\ d.pc = "receiving" /\ d.n = c.n /\ d.req = c.req /\ d.out = c.out
       /\ d.rx = c.rx
  BY <1>1, <1>10, <1>11 DEF IsCall
<1>13. call'[t] = d
  BY <1>1, <1>9, <1>10, <1>11 DEF Bench
<1>14. \A e \in Ecu : ~d.rx[e].active
  BY <1>1, <1>2, <1>10, <1>12, NoCallIs DEF Listens
<1>15. PICK x : x = Request(m, 2)
  OBVIOUS
<1>16. /\ queue'[t] = Tail(queue[t])
       /\ \A e \in Ecu : e # m.to => queue'[e] = queue[e]
       /\ queue'[m.to] = Append(queue[m.to], x)
  <2>1. PICK to, q : to = m.to /\ q = Rest(t)
    OBVIOUS
  <2>2. x = [functional |-> to = Everyone, frame |-> f]
    BY <1>8, <1>15, <2>1 DEF Request
  <2>3. queue' = ToEcus(q, to, f)
    BY <1>9, <2>1
  <2>4. /\ queue'[t] = q[t]
        /\ \A e \in Ecu : to \notin {e, Everyone} => queue'[e] = queue[e]
        /\ \A e \in Ecu : to \in {e, Everyone} =>
             queue'[e] = Append(queue[e], [functional |-> to = Everyone,
                                           frame |-> f])
    BY <1>1, <2>1, <2>3, QueuesAsked
  <2> QED BY <1>1, <1>5, <2>1, <2>2, <2>4, RestIs
<1>17. \A e \in Ecu : Mute(queue'[t], e)
  <2>1. Len(queue'[t]) = 0
    BY <1>2, <1>4, <1>6, <1>16, TailIs
  <2> QED BY <2>1 DEF Mute
<1>18. ASSUME NEW e \in Ecu PROVE Stage(e, t)'
  <2>1. CASE e = m.to
    <3>1. Only(queue'[e], x)
      BY <1>4, <1>6, <1>16, <2>1, CleanGrows
    <3>2. call'[t].req = m /\ call'[t].out = <<>> /\ ~call'[t].rx[e].active
      BY <1>3, <1>4, <1>10, <1>12, <1>13, <1>14
    <3>3. ~(m.len <= SFMax)
      <4>1. m.len \in Nat /\ SFMax \in Nat
        BY <1>5, RequestIs DEF SFMax
      <4> QED BY <1>4, <4>1
    <3>4. /\ job'[e].pc = "receive" /\ Held(rx'[e], m, 1)
      BY <1>2, <1>4, <2>1
    <3>5. Asked(e, t)'
      BY <1>15, <1>17, <2>1, <3>1, <3>2, <3>3, <3>4, NoneHeard DEF Asked
    <3> QED BY <3>5 DEF Stage
  <2>2. CASE e # m.to
    <3>1. AtRest(e)'
      BY <1>2, <1>4, <1>16, <2>2 DEF AtRest
    <3>2. call'[t].req = m /\ call'[t].out = <<>>
      BY <1>3, <1>4, <1>10, <1>12, <1>13
    <3>3. e \notin Answerers(call[t].req)'
      BY <1>5, <2>2, <3>2 DEF Answerers
    <3>4. Silent(e, t)'
      BY <1>17, <3>1, <3>2, <3>3, NoneHeard DEF Silent
    <3> QED BY <3>4 DEF Stage
  <2> QED BY <2>1, <2>2
<1>19. Receiving(t)'
  BY <1>4, <1>10, <1>12, <1>13, <1>18, AmongIs DEF Receiving
<1> QED BY <1>2, <1>10, <1>12, <1>13, <1>19 DEF Trip

LEMMA ReturnKeepsTrip ==
  ASSUME MixInv, Shapes, world.calm, NEW t \in Tester, Trip(t), Return(t)
  PROVE  Trip(t)'
<1>1. Bench /\ IsCall(call[t])
  BY DEF MixInv, Listens
<1>2. /\ queue[t] = <<>> /\ call[t].pc \in {"receiving", "sendFC"}
      /\ \A e \in Ecu : queue[e] = <<>> /\ job[e].pc = "receive"
      /\ UNCHANGED <<world, queue, stored, rx, job, gave>>
  BY DEF Return, Quiet, ecuVars
<1>3. \A x : ~Only(<<>>, x)
  BY DEF Only
<1>4. call[t].pc = "receiving" /\ Receiving(t)
  <2>1. ASSUME Sending(t), Proper(call[t].req) PROVE FALSE
    <3>1. call[t].req.to \in Ecu
      BY <2>1 DEF Sending, Proper
    <3>2. Len(<<>>) # 1
      OBVIOUS
    <3> QED BY <1>2, <1>3, <2>1, <3>1, <3>2 DEF Sending
  <2> QED BY <1>2, <2>1 DEF Trip
<1>5. PICK c : c = call[t] /\ IsCall(c) /\ c.n > 0
  BY <1>1, <1>4 DEF Trip
<1>6. PICK d : /\ d = [c EXCEPT !.pc = "idle",
                        !.result = IF c.out = <<>> THEN "noResponse" ELSE "ok"]
  OBVIOUS
<1>7. /\ d.pc = "idle" /\ d.req = c.req /\ d.out = c.out /\ d.n = c.n
      /\ d.result = IF c.out = <<>> THEN "noResponse" ELSE "ok"
  BY <1>5, <1>6 DEF IsCall
<1>8. call'[t] = d
  BY <1>1, <1>4, <1>5, <1>6 DEF Return, Bench
<1>9. ASSUME NEW e \in Ecu PROVE Heard(e, t) \/ Silent(e, t)
  <2>1. ~Asked(e, t)
    BY <1>2, <1>3 DEF Asked
  <2>2. ASSUME Working(e, t) PROVE FALSE
    <3>1. PICK a \in gave : AtWork(<<>>, c.rx[e], e, job[e], a)
      BY <1>2, <1>5, <2>2 DEF Working
    <3>2. Said(a) /\ Len(Frames(a)) \in Nat
      BY <1>1, AnswerLength DEF Bench
    <3>3. PICK k \in 1 .. Len(Frames(a)) + 1 :
            Chain(<<>>, c.rx[e], e, a, k) /\ Sends(job[e], a, k)
      BY <3>1 DEF AtWork
    <3>4. k = Len(Frames(a)) + 1
      BY <1>2, <3>3 DEF Sends, InAnswer
    <3> QED BY <3>2, <3>3, <3>4, ChainEnds
  <2> QED BY <1>4, <2>1, <2>2 DEF Receiving, Stage
<1>10. \A e \in Ecu : AtRest(e)'
  BY <1>2, <1>9 DEF Heard, Silent, AtRest
<1>11. /\ \A x \in Among(c.out) : Bytes(x).to = c.req /\ Bytes(x).ecu \in Ecu
       /\ {Bytes(x).ecu : x \in Among(c.out)} = Answerers(c.req)
       /\ \A i, j \in 1 .. Len(c.out) :
            Bytes(c.out[i]).ecu = Bytes(c.out[j]).ecu => i = j
  <2>1. \A x \in Among(c.out) : Bytes(x).to = c.req /\ Bytes(x).ecu \in Ecu
    BY <1>4, <1>5 DEF Receiving
  <2>2. \A e \in Ecu : \/ e \in Answerers(c.req) /\ OneOf(c.out, e)
                       \/ e \notin Answerers(c.req) /\ Unheard(c.out, e)
    BY <1>5, <1>9 DEF Heard, Silent
  <2>3. \A e \in Ecu :
          /\ OneOf(c.out, e) => \E x \in Among(c.out) : Bytes(x).ecu = e
          /\ Unheard(c.out, e) => \A x \in Among(c.out) : Bytes(x).ecu # e
    BY DEF OneOf, Unheard, Among
  <2>4. Answerers(c.req) \subseteq Ecu
    BY DEF Answerers
  <2>5. {Bytes(x).ecu : x \in Among(c.out)} = Answerers(c.req)
    BY <2>1, <2>2, <2>3, <2>4
  <2>6. ASSUME NEW i \in 1 .. Len(c.out), NEW j \in 1 .. Len(c.out),
               Bytes(c.out[i]).ecu = Bytes(c.out[j]).ecu
        PROVE  i = j
    <3>1. PICK e : e = Bytes(c.out[i]).ecu /\ e = Bytes(c.out[j]).ecu
      BY <2>6
    <3>2. c.out[i] \in Among(c.out)
      BY DEF Among
    <3>3. e \in Ecu
      BY <2>1, <3>1, <3>2
    <3>4. OneOf(c.out, e)
      BY <2>2, <3>1, <3>3 DEF Unheard
    <3> QED BY <3>1, <3>4 DEF OneOf
  <2> QED BY <2>1, <2>5, <2>6
<1>12. Answerers(call[t].req)' = Answerers(c.req) /\ call'[t].req = c.req
  BY <1>2, <1>5, <1>7, <1>8, AnswerersKept
<1>13. Settled(call[t])'
  BY <1>7, <1>8, <1>11, <1>12 DEF Settled
<1>14. Resting(t)'
  BY <1>2, <1>10, <1>13 DEF Resting
<1> QED BY <1>7, <1>8, <1>14 DEF Trip

LEMMA TakeFrameKeepsTrip ==
  ASSUME MixInv, Shapes, NEW t \in Tester, Trip(t), TakeFrame(t)
  PROVE  Trip(t)'
<1>1. Bench /\ Listens(t) /\ world \in Worlds /\ IsSequence(call[t].out)
  BY DEF MixInv, Bench, Listens
<1>2. PICK c, e, fed : Took(t, c, e, fed)
  BY TakeFrameIs
<1>3. /\ c = call[t] /\ e = Head(queue[t]).ecu
      /\ fed = Feed(c.rx[e], Head(queue[t]).frame)
      /\ e \in Ecu /\ queue[t] # <<>> /\ c.pc = "receiving" /\ IsCall(c)
      /\ world.calls[t] > 0 /\ UNCHANGED <<world, stored, rx, job, gave>>
  BY <1>2 DEF Took
<1>4. Receiving(t) /\ Proper(c.req) /\ c.n > 0
  BY <1>3 DEF Trip
<1>5. PICK q : q = queue[t] /\ IsSequence(q) /\ q # <<>>
  BY <1>3 DEF Shapes
<1>6. Working(e, t)
  <2>1. ~Mute(q, e)
    BY <1>3, <1>5, MuteChanges
  <2>2. Stage(e, t)
    BY <1>3, <1>4 DEF Receiving
  <2> QED BY <1>5, <2>1, <2>2 DEF Stage, Asked, Heard, Silent
<1>7. PICK a \in gave : /\ IsAnswer(a, e, c.req)
                        /\ AtWork(q, c.rx[e], e, job[e], a)
  BY <1>3, <1>5, <1>6 DEF Working
<1>8. PICK k \in 1 .. Len(Frames(a)) + 1 :
        Chain(q, c.rx[e], e, a, k) /\ Sends(job[e], a, k)
  BY <1>7 DEF AtWork
<1>9. /\ Said(a) /\ e \in Answerers(c.req) /\ c.req.to \in {e, Everyone}
      /\ a.ecu = e /\ a.to = c.req
  <2>1. Said(a)
    BY <1>1 DEF Bench
  <2> QED BY <1>7, <2>1 DEF IsAnswer, Answerers
<1>10. \/ /\ fed.msg = NoMessage \/ IsPending(fed.msg)
          /\ Chain(Tail(q), fed.r, e, a, k)
       \/ /\ fed.msg # NoMessage /\ Bytes(fed.msg) = a
          /\ Mute(Tail(q), e) /\ k = Len(Frames(a)) + 1
  <2>1. PICK r : r = c.rx[e]
    OBVIOUS
  <2>2. fed = Feed(r, Head(q).frame) /\ Chain(q, r, e, a, k) /\ Head(q).ecu = e
    BY <1>3, <1>5, <1>8, <2>1
  <2> QED BY <1>5, <1>8, <1>9, <2>2, ChainFed
<1>11. PICK d : /\ call' = [call EXCEPT ![t] = d] /\ IsCall(d)
                /\ d.n = c.n /\ d.req = c.req
                /\ d.rx = [c.rx EXCEPT ![e] = fed.r]
                /\ IF Mine(c.req, fed.msg)
                   THEN /\ d.out = Append(c.out, fed.msg)
                        /\ c.req.to = e => d.pc = "idle" /\ d.result = "ok"
                        /\ c.req.to # e => d.pc = "receiving"
                   ELSE d.out = c.out /\ d.pc = "receiving"
  BY <1>2, <1>9 DEF Took
<1>12. call'[t] = d
  BY <1>1, <1>11 DEF Bench
<1>13. d.rx[e] = fed.r /\ \A x \in Ecu : x # e => d.rx[x] = c.rx[x]
  BY <1>3, <1>11 DEF IsCall
<1>14. /\ queue'[t] = Tail(q) /\ Clean(queue[e]) /\ Clean(queue'[e])
       /\ \A x \in Ecu : x # e => queue'[x] = queue[x]
  <2>1. PICK p : p = Rest(t)
    OBVIOUS
  <2>2. /\ p[t] = Tail(q)
        /\ \A x \in Ecu \cup Tester : x # t => p[x] = queue[x]
    BY <1>1, <1>5, <2>1, RestIs
  <2>3. t \notin Ecu
    BY BenchAssumption
  <2>4. Clean(queue[e]) /\ IsSequence(queue[e])
    BY <1>3, <1>6 DEF Working, Shapes
  <2>5. CASE fed.fc = NoFrame
    <3>1. queue' = p
      BY <1>2, <1>9, <2>1, <2>5 DEF Took
    <3> QED BY <1>3, <2>2, <2>3, <2>4, <3>1
  <2>6. CASE fed.fc # NoFrame
    <3>1. queue' = ToEcus(p, e, fed.fc)
      BY <1>2, <1>9, <2>1, <2>6 DEF Took
    <3>2. fed.fc.pci = "FC"
      BY <1>3, <2>6, FeedControls
    <3>3. e # Everyone
      BY <1>3, BenchAssumption
    <3>4. PICK f : f = fed.fc
      OBVIOUS
    <3>5. PICK x : x = [functional |-> e = Everyone, frame |-> f]
      OBVIOUS
    <3>6. Control(x)
      <4>1. x.frame = f /\ x.functional = (e = Everyone)
        BY <3>5
      <4> QED BY <3>2, <3>3, <3>4, <4>1 DEF Control
    <3>7. /\ queue'[t] = p[t]
          /\ \A y \in Ecu : e \notin {y, Everyone} => queue'[y] = queue[y]
          /\ queue'[e] = Append(queue[e], x)
      <4>1. queue' = ToEcus(p, e, f)
        BY <3>1, <3>4
      <4>2. /\ queue'[t] = p[t]
            /\ \A y \in Ecu : e \notin {y, Everyone} => queue'[y] = queue[y]
            /\ \A y \in Ecu : e \in {y, Everyone} =>
                 queue'[y] = Append(queue[y], [functional |-> e = Everyone,
                                               frame |-> f])
        <5>1. PICK to : to = e
          OBVIOUS
        <5>2. /\ queue' = ToEcus(p, to, f) /\ Bench
              /\ p = queue \/ p = Rest(t)
          BY <1>1, <2>1, <4>1, <5>1
        <5>3. /\ queue'[t] = p[t]
              /\ \A y \in Ecu : to \notin {y, Everyone} =>
                   queue'[y] = queue[y]
              /\ \A y \in Ecu : to \in {y, Everyone} =>
                   queue'[y] = Append(queue[y],
                                      [functional |-> to = Everyone,
                                       frame |-> f])
          BY <5>2, QueuesAsked
        <5> QED BY <5>1, <5>3
      <4>3. queue'[e] = Append(queue[e], [functional |-> e = Everyone,
                                          frame |-> f])
        BY <1>3, <4>2
      <4> QED BY <3>5, <4>2, <4>3
    <3>8. Clean(queue'[e])
      BY <2>4, <3>6, <3>7, CleanGrows
    <3> QED BY <2>2, <2>4, <3>3, <3>7, <3>8
  <2> QED BY <2>5, <2>6
<1>15. /\ Answerers(call[t].req)' = Answerers(c.req)
       /\ \A b, x : IsAnswer(b, x, call[t].req)' <=> IsAnswer(b, x, c.req)
  BY <1>3, <1>11, <1>12, AnswerersKept
<1>16. IsSequence(Tail(q)) /\ Len(Tail(q)) \in Nat
  BY <1>5, TailIs
<1>17. ASSUME NEW x \in Ecu, x # e,
              d.out = c.out \/ (d.out = Append(c.out, fed.msg)
                                  /\ Bytes(fed.msg).ecu = e)
       PROVE  Stage(x, t)'
  <2>1. Stage(x, t)
    BY <1>4 DEF Receiving
  <2>2. Apart(queue[t], queue'[t], x)
    BY <1>3, <1>5, <1>14, <1>17 DEF Apart
  <2>3. /\ queue'[x] = queue[x] /\ job'[x] = job[x] /\ rx'[x] = rx[x]
        /\ call'[t].req = call[t].req /\ call'[t].rx[x] = call[t].rx[x]
    BY <1>3, <1>11, <1>12, <1>13, <1>14, <1>17
  <2>4. \/ call'[t].out = call[t].out
        \/ \E y : /\ Bytes(y).ecu # x /\ IsSequence(call[t].out)
                  /\ call'[t].out = Append(call[t].out, y)
    BY <1>1, <1>3, <1>12, <1>17
  <2>5. /\ IsSequence(queue[t]) /\ gave \subseteq gave'
        /\ \A b \in gave : Said(b)
    BY <1>1, <1>3, <1>5 DEF Bench
  <2> QED BY <1>3, <2>1, <2>2, <2>3, <2>4, <2>5, StageKept
<1>18. CASE /\ fed.msg = NoMessage \/ IsPending(fed.msg)
            /\ Chain(Tail(q), fed.r, e, a, k)
  <2>1. d.out = c.out /\ d.pc = "receiving"
    BY <1>11, <1>18 DEF Mine
  <2>2. Working(e, t)'
    <3>1. AtWork(queue'[t], call'[t].rx[e], e, job'[e], a)
      BY <1>3, <1>8, <1>12, <1>13, <1>14, <1>18 DEF AtWork
    <3>2. IsAnswer(a, e, call[t].req)' /\ a \in gave'
      BY <1>3, <1>7, <1>15
    <3>3. Unheard(call'[t].out, e)
      BY <1>3, <1>6, <1>12, <2>1 DEF Working
    <3> QED BY <1>14, <3>1, <3>2, <3>3 DEF Working
  <2>3. \A x \in Ecu : Stage(x, t)'
    BY <1>17, <2>1, <2>2 DEF Stage
  <2>4. Receiving(t)'
    BY <1>3, <1>4, <1>11, <1>12, <2>1, <2>3 DEF Receiving
  <2> QED BY <1>4, <1>11, <1>12, <2>1, <2>4 DEF Trip
<1>19. CASE /\ fed.msg # NoMessage /\ Bytes(fed.msg) = a
            /\ Mute(Tail(q), e) /\ k = Len(Frames(a)) + 1
  <2>1. Mine(c.req, fed.msg)
    <3>1. a.kind # "pending"
      BY <1>9 DEF Said
    <3>2. Answers(c.req, a)
      BY <1>9 DEF Answers
    <3> QED BY <1>19, <3>1, <3>2 DEF Mine, IsPending
  <2>2. /\ d.out = Append(c.out, fed.msg) /\ d.out # <<>>
        /\ Among(d.out) = Among(c.out) \cup {fed.msg}
        /\ Unheard(c.out, e) => OneOf(d.out, e)
    <3>1. d.out = Append(c.out, fed.msg)
      BY <1>11, <2>1
    <3>2. PICK s, x, o : s = c.out /\ x = fed.msg /\ o = d.out
      OBVIOUS
    <3>3. IsSequence(s) /\ o = Append(s, x) /\ Bytes(x).ecu = e
      BY <1>1, <1>3, <1>9, <1>19, <3>1, <3>2
    <3>4. /\ o # <<>> /\ Among(o) = Among(s) \cup {x}
          /\ Unheard(s, e) => OneOf(o, e)
      BY <3>3, Gathering
    <3> QED BY <3>1, <3>2, <3>4
  <2>3. AtRest(e)'
    <3>1. PICK n \in Nat : n = Len(Frames(a)) /\ n > 0
      BY <1>9, AnswerLength
    <3>2. k # 1 /\ k \notin 2 .. n /\ k = n + 1
      BY <1>19, <3>1
    <3>3. job[e].pc = "receive"
      BY <1>8, <3>1, <3>2 DEF Sends
    <3> QED BY <1>3, <1>14, <3>3 DEF AtRest
  <2>4. Unheard(c.out, e)
    BY <1>3, <1>6 DEF Working
  <2>5. CASE c.req.to # e
    <3>1. Heard(e, t)'
      <4>1. OneOf(d.out, e)
        BY <2>2, <2>4
      <4> QED BY <1>9, <1>12, <1>14, <1>15, <1>19, <2>3, <4>1 DEF Heard
    <3>2. \A x \in Ecu : Stage(x, t)'
      BY <1>9, <1>17, <1>19, <2>2, <3>1 DEF Stage
    <3>3. \A x \in Among(d.out) :
            Bytes(x).to = d.req /\ Bytes(x).ecu \in Ecu
      BY <1>3, <1>4, <1>9, <1>11, <1>19, <2>2 DEF Receiving
    <3>4. Receiving(t)'
      BY <1>12, <3>2, <3>3 DEF Receiving
    <3>5. d.pc = "receiving"
      BY <1>11, <2>1, <2>5
    <3> QED BY <1>4, <1>11, <1>12, <3>4, <3>5 DEF Trip
  <2>6. CASE c.req.to = e
    <3>1. e # Everyone
      BY <1>3, BenchAssumption
    <3>2. \A x \in Ecu : x # e => Silent(x, t)
      <4>1. ASSUME NEW x \in Ecu, x # e PROVE Silent(x, t)
        <5>1. c.req.to \notin {x, Everyone}
          BY <2>6, <3>1, <4>1
        <5>2. x \notin Answerers(c.req)
          BY <5>1 DEF Answerers
        <5>3. Stage(x, t)
          BY <1>4 DEF Receiving
        <5> QED BY <1>3, <5>1, <5>2, <5>3
                DEF Stage, Asked, Working, Heard, IsAnswer
      <4> QED BY <4>1
    <3>3. \A x \in Ecu : Mute(Tail(q), x)
      BY <1>5, <1>19, <3>2, MuteChanges DEF Silent
    <3>4. queue'[t] = <<>>
      <4>1. Orderly(gave, q, c.rx, job)
        BY <1>1, <1>3, <1>5 DEF Listens, Hears
      <4>2. ASSUME 1 \in 1 .. Len(Tail(q)) PROVE FALSE
        <5>1. Tail(q)[1] = q[1 + 1] /\ 1 + 1 \in 1 .. Len(q)
          BY <1>5, <4>2, TailIs
        <5>2. Tail(q)[1].ecu \in Ecu
          BY <4>1, <5>1 DEF Orderly
        <5> QED BY <3>3, <4>2, <5>2 DEF Mute
      <4>3. Len(Tail(q)) = 0
        <5>1. PICK n \in Nat : n = Len(Tail(q))
          BY <1>16
        <5>2. 1 \notin 1 .. n
          BY <4>2, <5>1
        <5>3. n = 0
          BY <5>2
        <5> QED BY <5>1, <5>3
      <4>4. PICK S : Tail(q) \in Seq(S)
        BY <1>16 DEF IsSequence
      <4> QED BY <1>14, <4>3, <4>4, EmptySeq
    <3>5. \A x \in Ecu : AtRest(x)'
      BY <1>3, <1>14, <2>3, <3>2 DEF Silent, AtRest
    <3>6. Among(c.out) = {}
      <4>1. ASSUME NEW i \in 1 .. Len(c.out) PROVE FALSE
        <5>1. c.out[i] \in Among(c.out)
          BY DEF Among
        <5>2. Bytes(c.out[i]).ecu \in Ecu
          BY <1>3, <1>4, <5>1 DEF Receiving
        <5> QED BY <1>3, <2>4, <3>2, <5>2 DEF Silent, Unheard
      <4> QED BY <4>1 DEF Among
    <3>7. Answerers(c.req) = {e}
      BY <1>9, <2>6, <3>1 DEF Answerers
    <3>8. Among(d.out) = {fed.msg}
      BY <2>2, <3>6
    <3>9. d.pc = "idle" /\ d.result = "ok" /\ d.req = c.req
      BY <1>11, <2>1, <2>6
    <3>10. /\ {Bytes(x).ecu : x \in Among(d.out)} = {e}
           /\ \A x \in Among(d.out) : Bytes(x).to = c.req
      BY <1>9, <1>19, <3>8
    <3>11. Settled(call[t])'
      <4>1. \A i, j \in 1 .. Len(d.out) : i = j
        <5>1. PICK i \in 1 .. Len(d.out) :
                \A j \in 1 .. Len(d.out) : Bytes(d.out[j]).ecu = e <=> j = i
          BY <2>2, <2>4 DEF OneOf
        <5>2. \A j \in 1 .. Len(d.out) : d.out[j] = fed.msg
          BY <3>8 DEF Among
        <5> QED BY <1>9, <1>19, <5>1, <5>2
      <4>2. d.result = (IF d.out = <<>> THEN "noResponse" ELSE "ok")
        BY <2>2, <3>9
      <4> QED BY <1>12, <1>15, <3>7, <3>9, <3>10, <4>1, <4>2 DEF Settled
    <3>12. Resting(t)'
      BY <3>4, <3>5, <3>11 DEF Resting
    <3> QED BY <1>12, <3>9, <3>12 DEF Trip
  <2> QED BY <2>5, <2>6
<1> QED BY <1>10, <1>18, <1>19

\* In a calm world the tester and the ECUs it asked keep step.
LEMMA CalmKept ==
  ASSUME MixInv, Shapes, CalmInv, [Next]_vars
  PROVE  CalmInv'
<1>1. Bench /\ world \in Worlds
  BY DEF MixInv, Bench
<1>2. world' = world
  BY DEF Next, ServeStep, TripStep, vars, ServeFunctional, ServePhysical,
         SendPending, SendAnswer, ReadFlowControl, SendConsecutive,
         SendTimesOut, Stop, Call, TakeFlowControl, TakeFrame, Return
<1>3. SUFFICES ASSUME world.calm, NEW t \in Tester, world.calls[t] > 0
               PROVE  Trip(t)'
  BY <1>2 DEF CalmInv
<1>4. Trip(t)
  BY <1>3 DEF CalmInv
<1>5. ASSUME NEW e \in Ecu, ServeStep(e) PROVE Trip(t)'
  BY <1>3, <1>4, <1>5, ServeKeepsTrip
<1>6. \A e \in Ecu : ~Stop(e)
  BY <1>1, <1>3, BenchAssumption DEF Stop, OneTester
<1>7. ASSUME NEW u \in Tester, TripStep(u) PROVE Trip(t)'
  <2>1. u = t
    BY <1>3, <1>7, TesterAlone
  <2> QED BY <1>3, <1>4, <1>7, <2>1, FlowControlKeepsTrip,
             TakeFrameKeepsTrip, ReturnKeepsTrip DEF TripStep
<1>8. ASSUME NEW u \in Tester, NEW a \in world.asks, Call(u, a)
      PROVE  Trip(t)'
  <2>1. u = t
    BY <1>3, <1>8, TesterAlone
  <2> QED BY <1>4, <1>8, <2>1, CallKeepsTrip
<1>9. CASE UNCHANGED vars
  <2>1. Trip(t)' <=> Trip(t)
    <3>1. \A e : Answerers(call[t].req)' = Answerers(call[t].req)
      BY <1>9, AnswerersKept DEF vars
    <3>2. /\ Settled(call[t])' <=> Settled(call[t])
          /\ \A e : AtRest(e)' <=> AtRest(e)
      BY <1>9, <3>1 DEF vars, ecuVars, Settled, AtRest
    <3>3. \A e : Stage(e, t)' <=> Stage(e, t)
      <4>1. \A a, e : IsAnswer(a, e, call[t].req) <=>
                        IsAnswer(a, e, call[t].req)'
        BY <1>9, AnswerersKept DEF vars
      <4> QED BY <1>9, <3>1, <3>2, <4>1
              DEF vars, ecuVars, Stage, Asked, Working, Heard, Silent
    <3>4. /\ Resting(t)' <=> Resting(t)
          /\ Receiving(t)' <=> Receiving(t)
          /\ Sending(t)' <=> Sending(t)
      BY <1>9, <3>2, <3>3 DEF vars, ecuVars, Resting, Receiving, Sending
    <3> QED BY <1>9, <3>4 DEF vars, ecuVars, Trip
  <2> QED BY <1>4, <2>1
<1> QED BY <1>5, <1>6, <1>7, <1>8, <1>9 DEF Next

\* Every ECU is in one of the stages of the call of RoundTrip that its tester
\* is in, and has nothing left of it when the call has returned.
THEOREM CalmInductive == Spec => [](MixInv /\ Shapes /\ CalmInv)
<1>1. ASSUME Init PROVE Shapes /\ CalmInv
  <2>1. Shapes
    <3>1. \A x \in Ecu \cup Tester : IsSequence(queue[x])
      BY <1>1, NoneIsSequence DEF Init
    <3>2. \A t \in Tester : call[t].n \in Nat
      BY <1>1, NoCallIs DEF Init
    <3>3. rx = [e \in Ecu |-> rx[e]]
      BY <1>1 DEF Init
    <3> QED BY <3>1, <3>2, <3>3 DEF Shapes
  <2>2. ASSUME NEW t \in Tester PROVE Trip(t)
    <3>1. queue[t] = <<>> /\ call[t].pc = "idle" /\ call[t].n = 0
      BY <1>1, NoCallIs DEF Init
    <3>2. \A e \in Ecu : queue[e] = <<>> /\ job[e].pc = "receive"
      BY <1>1, ListeningIs DEF Init
    <3>3. Clean(<<>>)
      BY DEF Clean
    <3> QED BY <3>1, <3>2, <3>3 DEF Trip, Resting, AtRest
  <2> QED BY <2>1, <2>2 DEF CalmInv
<1>2. ASSUME MixInv, Shapes, CalmInv, [Next]_vars
      PROVE  Shapes' /\ CalmInv'
  BY <1>2, ShapesInductive, CalmKept
<1> QED BY <1>1, <1>2, MixInductive, PTL DEF Spec

\* With one tester that waits long enough, each call returns the answer of
\* every ECU that gives one, whole and not a second time, and nothing of
\* another call (ECU.Serve with CANTransport.roundTrip).
THEOREM CallsAreAnswered == Spec => []CallsAnswered
<1>1. ASSUME MixInv, CalmInv, NEW t \in Tester, world.calm,
             call[t].pc = "idle", call[t].n > 0
      PROVE  LET c == call[t]
             IN \/ /\ c.req.len > SFMax /\ c.req.to = Everyone
                   /\ c.result = "error"
                \/ /\ \A i \in 1 .. Len(c.out) : /\ Whole(c.out[i])
                                                 /\ Bytes(c.out[i]).to = c.req
                   /\ {Bytes(c.out[i]).ecu : i \in 1 .. Len(c.out)}
                        = Answerers(c.req)
                   /\ Len(c.out) = Cardinality(Answerers(c.req))
                   /\ c.result = (IF c.out = <<>> THEN "noResponse" ELSE "ok")
  <2>1. Bench /\ Listens(t) /\ world \in Worlds
    BY <1>1 DEF MixInv, Bench
  <2>2. PICK c : c = call[t]
    OBVIOUS
  <2>3. world.calls[t] > 0
    <3>1. world.calls[t] \in Nat
      BY <2>1, WorldIs
    <3>2. world.calls[t] # 0
      <4>1. c.n # 0
        BY <1>1, <2>2
      <4> QED BY <2>1, <2>2, <4>1, NoCallIs DEF Listens
    <3> QED BY <3>1, <3>2
  <2>4. Settled(c)
    BY <1>1, <2>2, <2>3 DEF CalmInv, Trip, Resting
  <2>5. IsSequence(c.out) /\ \A x \in Among(c.out) : Whole(x)
    BY <2>1, <2>2 DEF Listens
  <2>6. CASE c.req.len > SFMax /\ c.req.to = Everyone /\ c.result = "error"
    BY <2>2, <2>6
  <2>7. CASE /\ \A x \in Among(c.out) : Bytes(x).to = c.req
             /\ {Bytes(x).ecu : x \in Among(c.out)} = Answerers(c.req)
             /\ \A i, j \in 1 .. Len(c.out) :
                  Bytes(c.out[i]).ecu = Bytes(c.out[j]).ecu => i = j
             /\ c.result = (IF c.out = <<>> THEN "noResponse" ELSE "ok")
    <3>1. PICK n \in Nat : n = Len(c.out)
      BY <2>5 DEF IsSequence
    <3>2. {Bytes(c.out[i]).ecu : i \in 1 .. n} = Answerers(c.req)
      BY <2>7, <3>1 DEF Among
    <3>3. Cardinality(Answerers(c.req)) = n
      <4>1. PICK f : f = [i \in 1 .. n |-> Bytes(c.out[i]).ecu]
        OBVIOUS
      <4>2. f \in [1 .. n -> Answerers(c.req)]
        BY <3>2, <4>1
      <4>3. \A e \in Answerers(c.req) : \E i \in 1 .. n : f[i] = e
        BY <3>2, <4>1
      <4>4. \A i, j \in 1 .. n : f[i] = f[j] => i = j
        BY <2>7, <3>1, <4>1
      <4>5. f \in Bijection(1 .. n, Answerers(c.req))
        BY <4>2, <4>3, <4>4 DEF Bijection, Injection, Surjection,
                                IsInjective
      <4>6. ExistsBijection(1 .. n, Answerers(c.req))
        BY <4>5 DEF ExistsBijection
      <4> QED BY <3>1, <4>6, FS_CountingElements
    <3>4. \A i \in 1 .. Len(c.out) : /\ Whole(c.out[i])
                                     /\ Bytes(c.out[i]).to = c.req
      <4>1. \A i \in 1 .. Len(c.out) : c.out[i] \in Among(c.out)
        BY DEF Among
      <4> QED BY <2>5, <2>7, <4>1
    <3> QED BY <2>2, <2>7, <3>1, <3>2, <3>3, <3>4
  <2> QED BY <2>4, <2>6, <2>7 DEF Settled
<1>2. MixInv /\ CalmInv => CallsAnswered
  BY <1>1 DEF CallsAnswered
<1> QED BY <1>2, CalmInductive, PTL
=============================================================================
