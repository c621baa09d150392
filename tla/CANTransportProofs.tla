------------------------- MODULE CANTransportProofs -------------------------
(***************************************************************************)
(* Round trips over CAN in orderly worlds, for any number of ECUs, any     *)
(* requests and any timeouts.  The argument: what an ECU has queued for    *)
(* the tester is a run of frames that ends in its answer (QueueInv), the   *)
(* Receiver of the ECU is in step with it (EcuInv), and until that answer  *)
(* is queued the ECU owes its next frame before the deadline that the      *)
(* tester keeps for it, or before the window ends (TimeInv).               *)
(***************************************************************************)
EXTENDS CANTransport, SequenceTheorems, TLAPS

\* What the orderly worlds have to be for the results: another tester does
\* not ask for the same, and does not get an answer from an ECU that has
\* asked for time.
Undisturbed ==
  \A w \in Worlds : w.orderly =>
    /\ \A r \in w.requests : \A a \in w.foreign :
         a.sid = r.sid => r.pids # {} /\ a.pid \notin r.pids
    /\ w.foreign = {} \/ ~w.pending

Msg == [n : Nat, kind : {"positive", "negative", "pending"}, sid : Nat,
        pid : Nat]
Said == Msg \cup {NoMessage}
Frame == [pci : {"SF"}, msg : Msg, len : Nat]
           \cup [pci : {"FF"}, msg : Msg, len : Nat, short : BOOLEAN]
           \cup [pci : {"CF"}, msg : Said, off : Nat, sn : Nat]
Entry == [ecu : Ecu, frame : Frame]
Rx == [active : BOOLEAN, want : Nat, got : Nat,
       parts : Seq([msg : Msg, off : Nat, n : Nat]), seq : Nat,
       inBlock : Nat]
Track == [rx : Rx, deadline : Nat]
Work == [st : {"thinking", "waitFC", "sending"}, pend : BOOLEAN, due : Nat,
         said : Said]
Found == [ecu : Ecu, got : Msg]

TypeInv ==
  /\ world \in Worlds /\ world.orderly
  /\ pc \in {"idle", "receiving"} /\ mode \in Nat /\ trial \in Nat
  /\ req \in [n : Nat, what : Request] /\ window \in Nat
  /\ ecus \in [Ecu -> Track] /\ out \in Seq(Found)
  /\ rxq \in Seq(Entry) /\ jobs \in [Ecu -> {<<>>, <<req>>}]
  /\ work \in [Ecu -> Work] /\ answered \subseteq Ecu

\* The frames for the tester: another tester's, and those of an answer to r.
Own(r, x) == r.n # 0 /\ x.n = r.n /\ Answers(r.what, x)
Foreign(w, f) ==
  /\ f.pci = "SF" /\ f.len = 4 /\ f.msg.n = 0 /\ f.msg.kind = "positive"
  /\ \E a \in w.foreign : f.msg.sid = a.sid /\ f.msg.pid = a.pid
Pending(r, f) == /\ f.pci = "SF" /\ f.len = 3
                 /\ Own(r, f.msg) /\ f.msg.kind = "pending"
Single(r, f) == /\ f.pci = "SF" /\ f.len = 4
                /\ Own(r, f.msg) /\ f.msg.kind # "pending"
First(r, f) == /\ f.pci = "FF" /\ f.len = FFData + CFData /\ ~f.short
               /\ Own(r, f.msg) /\ f.msg.kind = "positive"
Consecutive(f) == f.pci = "CF" /\ f.sn = 1
Last(r, f) == Single(r, f) \/ Consecutive(f)

\* The Receiver of an ECU after a first frame.
InTransfer(r, rx) ==
  /\ rx.active /\ rx.want = FFData + CFData /\ rx.got = FFData /\ rx.seq = 1
  /\ rx.parts = <<rx.parts[1]>>
  /\ Own(r, rx.parts[1].msg) /\ rx.parts[1].msg.kind = "positive"

Queued(e) == \E i \in 1 .. Len(rxq) : rxq[i].ecu = e

\* Each frame is where it may be in what its ECU has queued.
Placed(i, e, f) ==
  /\ \/ Foreign(world, f)
     \/ /\ pc = "receiving" /\ Listens(e, trial)
        /\ Pending(req, f) \/ First(req, f) \/ Last(req, f)
  /\ Pending(req, f) => IF jobs[e] # <<>> THEN work[e].pend
                        ELSE \E j \in i + 1 .. Len(rxq) : rxq[j].ecu = e
  /\ First(req, f) => /\ work[e].st = "waitFC"
                      /\ \A j \in i + 1 .. Len(rxq) : rxq[j].ecu # e
  /\ Last(req, f) => /\ jobs[e] = <<>> /\ e \in answered
                     /\ \A j \in i + 1 .. Len(rxq) :
                          rxq[j].ecu = e => Foreign(world, rxq[j].frame)
  /\ Consecutive(f) => /\ InTransfer(req, ecus[e].rx)
                       /\ \A j \in 1 .. i - 1 : rxq[j].ecu # e

QueueInv == \A i \in 1 .. Len(rxq) : Placed(i, rxq[i].ecu, rxq[i].frame)

\* An ECU, its Receiver and its frames are in step.
InStep(e) ==
  LET w == work[e]
      rx == ecus[e].rx
  IN /\ jobs[e] # <<>> => pc = "receiving" /\ Listens(e, trial)
     /\ jobs[e] = <<>> => w.st = "thinking"
     /\ w.pend => world.pending
     /\ ~Listens(e, trial) => ecus[e].deadline = 0
     /\ rx = NewReceiver \/ InTransfer(req, rx)
     /\ w.st = "waitFC" => /\ rx = NewReceiver /\ w.due = NBs
                           /\ \E i \in 1 .. Len(rxq) :
                                rxq[i].ecu = e /\ First(req, rxq[i].frame)
     /\ w.st = "sending" => /\ InTransfer(req, rx) /\ ~Queued(e)
                            /\ w.due < ecus[e].deadline
     /\ w.st = "thinking" /\ InTransfer(req, rx) =>
          \E i \in 1 .. Len(rxq) :
            rxq[i].ecu = e /\ Consecutive(rxq[i].frame)

EcuInv == \A e \in Ecu : InStep(e)

\* What the tester waits for will come in time, and it waits for nothing
\* else.
InTime(e) ==
  LET w == work[e]
      d == ecus[e].deadline
  IN /\ jobs[e] # <<>> /\ w.st = "thinking" =>
          /\ ~w.pend => w.due < window /\ d = 0
          /\ w.pend => /\ w.due < PendingTimeout
                       /\ w.due < d \/ Queued(e)
     /\ d # 0 => jobs[e] # <<>> \/ Queued(e)

TimeInv == pc = "receiving" => \A e \in Ecu : InTime(e)

\* What RoundTrip has got so far.
RoundInv ==
  /\ pc = "receiving" => /\ req.n # 0 /\ req.what \in world.requests
                         /\ mode # 0 => trial = mode
  /\ \A i \in 1 .. Len(out) :
       out[i].ecu \in answered /\ out[i].got.n = req.n
  /\ \A e \in answered :
       /\ jobs[e] = <<>> /\ world.speaks[e] = trial
       /\ \/ \E i \in 1 .. Len(out) : out[i].ecu = e
          \/ \E i \in 1 .. Len(rxq) :
               rxq[i].ecu = e /\ Last(req, rxq[i].frame)

IInv == TypeInv /\ QueueInv /\ EcuInv /\ TimeInv /\ RoundInv

-----------------------------------------------------------------------------
(* What Feed does with the frames of this system                           *)

\* A single frame is a message of its own.
LEMMA FeedsSingle ==
  ASSUME NEW r, NEW f, f.pci = "SF", f.len \in 1 .. SFMax
  PROVE  LET fed == Feed(r, f)
         IN /\ fed.r = NewReceiver /\ fed.fc = NoFrame /\ fed.err = "nil"
            /\ fed.msg # NoMessage /\ Content(fed.msg) = f.msg
<1> DEFINE m == [len |-> f.len, parts |-> <<Part(f.msg, 0, f.len)>>]
<1>1. Feed(r, f) = Fed(NewReceiver, NoFrame, m, "nil")
  BY DEF Feed, FeedSingle
<1>2. m.len # 0 /\ m.parts = <<Part(f.msg, 0, f.len)>>
  BY DEF SFMax
<1>3. m # NoMessage
  BY <1>2 DEF NoMessage
<1>4. Content(m) = f.msg
  BY <1>2 DEF Content, Part
<1> HIDE DEF m
<1> QED BY <1>1, <1>3, <1>4 DEF Fed

\* The first frame of a message of two begins a transfer.
LEMMA FeedsFirst ==
  ASSUME NEW r, NEW q, NEW f, First(q, f)
  PROVE  LET fed == Feed(r, f)
         IN /\ InTransfer(q, fed.r) /\ fed.err = "nil" /\ fed.msg = NoMessage
            /\ fed.r.parts = <<Part(f.msg, 0, FFData)>> /\ fed.r.inBlock = 0
            /\ fed.r = [active |-> TRUE, want |-> f.len, got |-> FFData,
                        parts |-> <<Part(f.msg, 0, FFData)>>, seq |-> 1,
                        inBlock |-> 0]
            /\ fed.fc # NoFrame /\ fed.fc.status = "continue"
<1> DEFINE b == [active |-> TRUE, want |-> f.len, got |-> FFData,
                 parts |-> <<Part(f.msg, 0, FFData)>>, seq |-> 1,
                 inBlock |-> 0]
<1>1. Feed(r, f) = Fed(b, FlowControl("continue", BlockSize), NoMessage,
                       "nil")
  BY DEF First, Feed, FeedFirst, FrameLen, FFData, CFData
<1>2. /\ FlowControl("continue", BlockSize).status = "continue"
      /\ FlowControl("continue", BlockSize).pci = "FC"
  BY DEF FlowControl
<1>3. FlowControl("continue", BlockSize) # NoFrame
  BY <1>2 DEF NoFrame
<1>4. InTransfer(q, b)
  <2>1. b.parts[1].msg = f.msg /\ b.parts = <<b.parts[1]>>
    BY DEF Part
  <2> QED BY <2>1 DEF First, InTransfer
<1>5. b.parts = <<Part(f.msg, 0, FFData)>> /\ b.inBlock = 0
  OBVIOUS
<1>6. Feed(r, f).r = b /\ Feed(r, f).err = "nil"
      /\ Feed(r, f).msg = NoMessage
      /\ Feed(r, f).fc = FlowControl("continue", BlockSize)
  BY <1>1 DEF Fed
<1> QED BY <1>2, <1>3, <1>4, <1>5, <1>6

\* The second frame ends it.
LEMMA FeedsConsecutive ==
  ASSUME NEW q, NEW r, InTransfer(q, r), NEW f, Consecutive(f)
  PROVE  LET fed == Feed(r, f)
         IN /\ fed.r = NewReceiver /\ fed.fc = NoFrame /\ fed.err = "nil"
            /\ fed.msg # NoMessage /\ Content(fed.msg) = r.parts[1].msg
<1> DEFINE p == Part(f.msg, f.off, CFData)
           m == [len |-> FFData + CFData, parts |-> Append(r.parts, p)]
<1>1. Feed(r, f) = Fed(NewReceiver, NoFrame, m, "nil")
  <2>1. Lesser(r.want - r.got, CFData) = CFData
    BY DEF InTransfer, Lesser, FFData, CFData
  <2>2. r.active /\ InSequence(r, f) /\ r.got + CFData >= r.want
        /\ r.want = FFData + CFData
    BY DEF InTransfer, Consecutive, InSequence, FFData, CFData
  <2>3. Feed(r, f) = FeedConsecutive(r, f)
    BY DEF Feed, Consecutive
  <2> QED BY <2>1, <2>2, <2>3 DEF FeedConsecutive
<1>2. m.len # 0
  BY DEF FFData, CFData
<1>3. m # NoMessage
  BY <1>2 DEF NoMessage
<1>4. Content(m) = r.parts[1].msg
  <2>1. PICK a : r.parts = <<a>> /\ r.parts[1] = a
    BY DEF InTransfer
  <2>2. \A b : Append(<<a>>, b)[1] = a
    OBVIOUS
  <2>3. m.parts = Append(<<a>>, p)
    BY <2>1
  <2> HIDE DEF m, p
  <2>4. m.parts[1] = a
    BY <2>2, <2>3
  <2> QED BY <2>1, <2>4 DEF Content
<1> HIDE DEF m
<1> QED BY <1>1, <1>3, <1>4 DEF Fed

\* Another tester's answer does not pass for one to this request.
LEMMA ForeignIsNotOwn ==
  ASSUME Undisturbed, TypeInv, RoundInv, pc = "receiving",
         NEW f, Foreign(world, f)
  PROVE  ~Answers(req.what, f.msg)
<1>1. PICK a \in world.foreign : f.msg.sid = a.sid /\ f.msg.pid = a.pid
  BY DEF Foreign
<1>2. a.sid = req.what.sid => req.what.pids # {} /\ a.pid \notin req.what.pids
  BY DEF Undisturbed, TypeInv, RoundInv
<1> QED BY <1>1, <1>2 DEF Foreign, Answers

-----------------------------------------------------------------------------
(* The tester takes a frame                                                *)

\* What is left of the queue without its head.
LEMMA QueueTail ==
  ASSUME TypeInv, rxq # <<>>, rxq' = Tail(rxq)
  PROVE  /\ Len(rxq') = Len(rxq) - 1 /\ Len(rxq) \in Nat \ {0}
         /\ Head(rxq) = rxq[1] /\ 1 \in 1 .. Len(rxq)
         /\ rxq' \in Seq(Entry) /\ rxq[1] \in Entry
         /\ \A i \in 1 .. Len(rxq') : /\ rxq'[i] = rxq[i + 1]
                                      /\ i + 1 \in 1 .. Len(rxq)
         /\ \A i \in 1 .. Len(rxq) : i # 1 => /\ i - 1 \in 1 .. Len(rxq')
                                              /\ rxq'[i - 1] = rxq[i]
<1>1. rxq \in Seq(Entry) /\ rxq' = Tail(rxq)
  BY DEF TypeInv
<1>2. /\ Len(rxq') = Len(rxq) - 1 /\ Len(rxq) \in Nat \ {0}
      /\ Head(rxq) = rxq[1] /\ 1 \in 1 .. Len(rxq)
      /\ rxq' \in Seq(Entry) /\ rxq[1] \in Entry
  BY <1>1, HeadTailProperties
<1>3. \A i \in 1 .. Len(rxq') : /\ rxq'[i] = rxq[i + 1]
                                /\ i + 1 \in 1 .. Len(rxq)
  BY <1>1, <1>2
<1>4. ASSUME NEW i \in 1 .. Len(rxq), i # 1
      PROVE  i - 1 \in 1 .. Len(rxq') /\ rxq'[i - 1] = rxq[i]
  <2>1. i - 1 \in 1 .. Len(rxq') /\ (i - 1) + 1 = i
    BY <1>2, <1>4
  <2> QED BY <1>3, <2>1
<1> QED BY <1>2, <1>3, <1>4

\* The frame in hand, and what TakeFrame does with it.
Taken(e, f) ==
  /\ pc = "receiving" /\ rxq # <<>> /\ rxq' = Tail(rxq)
  /\ e \in Ecu /\ e = rxq[1].ecu /\ f = rxq[1].frame /\ Listens(e, trial)
  /\ UNCHANGED <<world, trial, req, window, jobs, answered>>

TakesForeign(e, f) ==
  /\ Foreign(world, f) /\ ~Own(req, f.msg)
  /\ ecus' = [ecus EXCEPT ![e] = [rx |-> NewReceiver, deadline |-> 0]]
  /\ UNCHANGED <<pc, mode, out, work>>

TakesPending(e, f) ==
  /\ Pending(req, f)
  /\ ecus' = [ecus EXCEPT ![e] =
                [rx |-> NewReceiver, deadline |-> PendingTimeout]]
  /\ UNCHANGED <<pc, mode, out, work>>

TakesFirst(e, f) ==
  /\ First(req, f)
  /\ \E b \in Rx : /\ InTransfer(req, b)
                   /\ ecus' = [ecus EXCEPT ![e] =
                                 [rx |-> b, deadline |-> NCr]]
  /\ work' = [work EXCEPT ![e].st = "sending", ![e].due = CFGap]
  /\ UNCHANGED <<pc, mode, out>>

TakesLast(e, f) ==
  /\ Last(req, f)
  /\ ecus' = [ecus EXCEPT ![e] = [rx |-> NewReceiver, deadline |-> 0]]
  /\ \E x \in Msg : /\ Own(req, x)
                    /\ out' = Append(out, [ecu |-> e, got |-> x])
  /\ \/ UNCHANGED <<pc, mode>>
     \/ world.target # Everyone /\ pc' = "idle" /\ mode' = trial
  /\ UNCHANGED work

LEMMA TakeFrameDoes ==
  ASSUME Undisturbed, TypeInv, QueueInv, EcuInv, RoundInv, TakeFrame
  PROVE  \E e, f : /\ Taken(e, f)
                   /\ \/ TakesForeign(e, f) \/ TakesPending(e, f)
                      \/ TakesFirst(e, f) \/ TakesLast(e, f)
<1> DEFINE e == rxq[1].ecu
           f == rxq[1].frame
           fed == Feed(ecus[e].rx, f)
           final == /\ fed.msg # NoMessage
                    /\ Answers(req.what, Content(fed.msg))
                    /\ Content(fed.msg).kind # "pending"
<1>1. /\ rxq # <<>> /\ rxq' = Tail(rxq) /\ Head(rxq) = rxq[1]
      /\ 1 \in 1 .. Len(rxq) /\ rxq[1] \in Entry /\ Len(rxq) \in Nat
  BY QueueTail DEF TakeFrame
<1>2. e \in Ecu /\ f \in Frame
  BY <1>1 DEF Entry
<1>3. /\ pc = "receiving" /\ Listens(e, trial) /\ Answer(e, fed.fc)
      /\ UNCHANGED <<world, trial, req, window, jobs, answered>>
  BY <1>1 DEF TakeFrame
<1>4. \/ fed.err # "nil"
      \/ /\ fed.err = "nil"
         /\ ecus' = [ecus EXCEPT ![e] =
              [rx |-> fed.r, deadline |-> DeadlineAfter(fed, @.deadline)]]
         /\ out' = IF final
                   THEN Append(out, [ecu |-> e, got |-> Content(fed.msg)])
                   ELSE out
         /\ IF final /\ world.target # Everyone
            THEN pc' = "idle" /\ mode' = trial
            ELSE UNCHANGED <<pc, mode>>
  BY <1>1 DEF TakeFrame
<1>5. Taken(e, f)
  BY <1>1, <1>2, <1>3 DEF Taken
<1>6. Placed(1, e, f)
  BY <1>1 DEF QueueInv
<1>7. fed.fc = NoFrame => work' = work
  BY <1>3 DEF Answer
<1>8. ~NewReceiver.active
  BY DEF NewReceiver
<1> HIDE DEF e, f
<1>9. CASE Foreign(world, f)
  <2>1. ~Answers(req.what, f.msg)
    BY <1>3, <1>9, ForeignIsNotOwn
  <2>2. /\ fed.r = NewReceiver /\ fed.fc = NoFrame /\ fed.err = "nil"
        /\ Content(fed.msg) = f.msg
    BY <1>9, FeedsSingle DEF Foreign, SFMax
  <2>3. ~final /\ DeadlineAfter(fed, ecus[e].deadline) = 0
    BY <1>8, <2>1, <2>2 DEF DeadlineAfter, IsPending
  <2>4. TakesForeign(e, f)
    <3> HIDE DEF fed, final
    <3> QED BY <1>4, <1>7, <1>9, <2>1, <2>2, <2>3 DEF TakesForeign, Own
  <2> QED BY <1>5, <2>4
<1>10. CASE Pending(req, f)
  <2>1. /\ fed.r = NewReceiver /\ fed.fc = NoFrame /\ fed.err = "nil"
        /\ Content(fed.msg) = f.msg /\ fed.msg # NoMessage
    BY <1>10, FeedsSingle DEF Pending, SFMax
  <2>2. ~final /\ DeadlineAfter(fed, ecus[e].deadline) = PendingTimeout
    BY <1>8, <1>10, <2>1
       DEF DeadlineAfter, IsPending, Pending, Own, PendingDeadline
  <2>3. TakesPending(e, f)
    <3> HIDE DEF fed, final
    <3> QED BY <1>4, <1>7, <1>10, <2>1, <2>2 DEF TakesPending
  <2> QED BY <1>5, <2>3
<1>11. CASE First(req, f)
  <2>1. work[e].st = "waitFC"
    BY <1>6, <1>11 DEF Placed
  <2>2. /\ InTransfer(req, fed.r) /\ fed.err = "nil" /\ fed.msg = NoMessage
        /\ fed.r = [active |-> TRUE, want |-> f.len, got |-> FFData,
                    parts |-> <<Part(f.msg, 0, FFData)>>, seq |-> 1,
                    inBlock |-> 0]
        /\ fed.fc # NoFrame /\ fed.fc.status = "continue"
    BY <1>11, FeedsFirst
  <2>3. fed.r \in Rx
    <3>1. f.msg \in Msg /\ f.len \in Nat
      BY <1>2, <1>11 DEF Frame, First
    <3>2. <<Part(f.msg, 0, FFData)>> \in Seq([msg : Msg, off : Nat, n : Nat])
      <4>1. Part(f.msg, 0, FFData) \in [msg : Msg, off : Nat, n : Nat]
        BY <3>1 DEF Part, FFData
      <4> QED BY <4>1
    <3> QED BY <2>2, <3>1, <3>2 DEF Rx, FFData
  <2>4. work' = [work EXCEPT ![e].st = "sending", ![e].due = CFGap]
    BY <1>3, <2>1, <2>2 DEF Answer
  <2>5. ~final /\ DeadlineAfter(fed, ecus[e].deadline) = NCr
    BY <2>2 DEF DeadlineAfter, InTransfer
  <2>6. TakesFirst(e, f)
    <3> HIDE DEF fed, final
    <3> QED BY <1>4, <1>11, <2>2, <2>3, <2>4, <2>5 DEF TakesFirst
  <2> QED BY <1>5, <2>6
<1>12. CASE Last(req, f)
  <2>1. PICK x \in Msg :
          /\ Own(req, x) /\ x.kind # "pending" /\ Content(fed.msg) = x
          /\ fed.r = NewReceiver /\ fed.fc = NoFrame /\ fed.err = "nil"
          /\ fed.msg # NoMessage
    <3>1. CASE Single(req, f)
      <4>1. f.msg \in Msg
        BY <1>2, <3>1 DEF Frame, Single
      <4>2. /\ fed.r = NewReceiver /\ fed.fc = NoFrame /\ fed.err = "nil"
            /\ Content(fed.msg) = f.msg /\ fed.msg # NoMessage
        BY <3>1, FeedsSingle DEF Single, SFMax
      <4> QED BY <3>1, <4>1, <4>2 DEF Single
    <3>2. CASE Consecutive(f)
      <4>1. InTransfer(req, ecus[e].rx)
        BY <1>6, <3>2 DEF Placed
      <4>2. ecus[e].rx.parts[1].msg \in Msg
        <5>1. ecus[e].rx \in Rx
          BY <1>2 DEF TypeInv, Track
        <5>2. ecus[e].rx.parts \in Seq([msg : Msg, off : Nat, n : Nat])
          BY <5>1 DEF Rx
        <5>3. Len(ecus[e].rx.parts) = 1
          BY <4>1 DEF InTransfer
        <5>4. ecus[e].rx.parts[1] \in [msg : Msg, off : Nat, n : Nat]
          <6>1. \A S : \A s \in Seq(S) : Len(s) = 1 => s[1] \in S
            OBVIOUS
          <6> QED BY <5>2, <5>3, <6>1
        <5> QED BY <5>4
      <4>3. /\ fed.r = NewReceiver /\ fed.fc = NoFrame /\ fed.err = "nil"
            /\ Content(fed.msg) = ecus[e].rx.parts[1].msg
            /\ fed.msg # NoMessage
        BY <3>2, <4>1, FeedsConsecutive
      <4>4. /\ Own(req, ecus[e].rx.parts[1].msg)
            /\ ecus[e].rx.parts[1].msg.kind # "pending"
        BY <4>1 DEF InTransfer
      <4> QED BY <4>2, <4>3, <4>4
    <3> QED BY <1>12, <3>1, <3>2 DEF Last
  <2>2. final /\ DeadlineAfter(fed, ecus[e].deadline) = 0
    BY <1>8, <2>1 DEF DeadlineAfter, IsPending, Own
  <2>3. TakesLast(e, f)
    <3> HIDE DEF fed, final
    <3> QED BY <1>4, <1>7, <1>12, <2>1, <2>2 DEF TakesLast
  <2> QED BY <1>5, <2>3
<1> QED BY <1>6, <1>9, <1>10, <1>11, <1>12 DEF Placed

\* Where the others' frames are after one was taken.
LEMMA QueuedStill ==
  ASSUME TypeInv, rxq # <<>>, rxq' = Tail(rxq),
         NEW d, d # rxq[1].ecu
  PROVE  Queued(d)' <=> Queued(d)
<1>1. ASSUME Queued(d) PROVE Queued(d)'
  <2>1. PICK i \in 1 .. Len(rxq) : rxq[i].ecu = d
    BY <1>1 DEF Queued
  <2>2. i - 1 \in 1 .. Len(rxq') /\ rxq'[i - 1] = rxq[i]
    BY <2>1, QueueTail
  <2> QED BY <2>1, <2>2 DEF Queued
<1>2. ASSUME Queued(d)' PROVE Queued(d)
  <2>1. PICK i \in 1 .. Len(rxq') : rxq'[i].ecu = d
    BY <1>2 DEF Queued
  <2>2. i + 1 \in 1 .. Len(rxq) /\ rxq'[i] = rxq[i + 1]
    BY QueueTail
  <2> QED BY <2>1, <2>2 DEF Queued
<1> QED BY <1>1, <1>2

\* The queue keeps its order when its head is taken, by the tester or out of
\* its way.
LEMMA QueueTaken ==
  ASSUME TypeInv, QueueInv, rxq # <<>>, rxq' = Tail(rxq),
         UNCHANGED <<world, trial, req, jobs, answered>>,
         \A e \in Ecu : e # rxq[1].ecu =>
           work'[e] = work[e] /\ ecus'[e] = ecus[e],
         \A e \in Ecu : work'[e].pend = work[e].pend,
         LET e == rxq[1].ecu
         IN /\ work'[e] = work[e] \/ First(req, rxq[1].frame)
            /\ \/ pc' = pc
               \/ /\ Last(req, rxq[1].frame)
                  /\ \A d \in Ecu : Listens(d, trial) => d = e
  PROVE  QueueInv'
<1> DEFINE e == rxq[1].ecu
<1>1. /\ Len(rxq') = Len(rxq) - 1 /\ Len(rxq) \in Nat \ {0}
      /\ 1 \in 1 .. Len(rxq) /\ rxq' \in Seq(Entry)
      /\ \A i \in 1 .. Len(rxq') : /\ rxq'[i] = rxq[i + 1]
                                   /\ i + 1 \in 1 .. Len(rxq)
  BY QueueTail
<1>2. Placed(1, e, rxq[1].frame)
  BY <1>1 DEF QueueInv
<1> SUFFICES ASSUME NEW k \in 1 .. Len(rxq')
             PROVE  Placed(k, rxq[k].ecu, rxq[k].frame)'
  BY DEF QueueInv
<1>3. PICK i \in 2 .. Len(rxq) : i = k + 1 /\ rxq'[k] = rxq[i]
  BY <1>1
<1>4. PICK d, f : d = rxq[i].ecu /\ f = rxq[i].frame
  OBVIOUS
<1>5. d \in Ecu /\ Placed(i, d, f)
  <2>1. i \in 1 .. Len(rxq) /\ rxq \in Seq(Entry)
    BY <1>1 DEF TypeInv
  <2>2. rxq[i] \in Entry
    BY <2>1
  <2> QED BY <1>4, <2>1, <2>2 DEF Entry, QueueInv
<1>6. \A j \in k + 1 .. Len(rxq') : /\ j + 1 \in i + 1 .. Len(rxq)
                                    /\ rxq'[j] = rxq[j + 1]
  BY <1>1, <1>3
<1>7. (\E j \in i + 1 .. Len(rxq) : rxq[j].ecu = d) =>
        \E j \in k + 1 .. Len(rxq') : rxq'[j].ecu = d
  <2>1. ASSUME NEW j \in i + 1 .. Len(rxq)
        PROVE  j - 1 \in k + 1 .. Len(rxq') /\ rxq'[j - 1] = rxq[j]
    <3>1. j - 1 \in k + 1 .. Len(rxq') /\ (j - 1) + 1 = j
          /\ j - 1 \in 1 .. Len(rxq')
      BY <1>1, <1>3
    <3> QED BY <1>1, <3>1
  <2> QED BY <2>1
<1>8. Foreign(world', f) <=> Foreign(world, f)
  OBVIOUS
<1>9. ~Foreign(world, f) => pc' = "receiving" /\ Listens(d, trial)
  <2>1. CASE pc' = pc
    BY <1>5, <2>1 DEF Placed
  <2>2. CASE /\ Last(req, rxq[1].frame)
             /\ \A c \in Ecu : Listens(c, trial) => c = e
    <3>1. ~Foreign(world, f) => d = e
      BY <1>5, <2>2 DEF Placed
    <3>2. i \in 1 + 1 .. Len(rxq)
      OBVIOUS
    <3>3. d = e => Foreign(world, f)
      BY <1>2, <1>4, <2>2, <3>2 DEF Placed
    <3> QED BY <3>1, <3>3
  <2> QED BY <2>1, <2>2
<1>10. First(req, f) => work'[d] = work[d]
  <2>1. CASE d # e
    BY <1>5, <2>1
  <2>2. CASE d = e /\ First(req, rxq[1].frame)
    <3>1. i \in 1 + 1 .. Len(rxq)
      OBVIOUS
    <3> QED BY <1>2, <1>4, <2>2, <3>1 DEF Placed
  <2> QED BY <2>1, <2>2
<1>11. Consecutive(f) => d # e
  <2>1. 1 \in 1 .. i - 1
    OBVIOUS
  <2> QED BY <1>5, <2>1 DEF Placed
<1>12. \A j \in 1 .. k - 1 : j + 1 \in 1 .. i - 1 /\ rxq'[j] = rxq[j + 1]
  BY <1>1, <1>3
<1>13. Listens(d, trial)' <=> Listens(d, trial)
  BY DEF Listens
<1>14. Placed(k, d, f)'
  <2>1. (\/ Foreign(world, f)
         \/ /\ pc = "receiving" /\ Listens(d, trial)
            /\ Pending(req, f) \/ First(req, f) \/ Last(req, f))'
    BY <1>5, <1>9, <1>13 DEF Placed
  <2>2. (Pending(req, f) => IF jobs[d] # <<>> THEN work[d].pend
                            ELSE \E j \in k + 1 .. Len(rxq) : rxq[j].ecu = d)'
    BY <1>5, <1>7 DEF Placed
  <2>3. (First(req, f) => /\ work[d].st = "waitFC"
                          /\ \A j \in k + 1 .. Len(rxq) : rxq[j].ecu # d)'
    BY <1>5, <1>6, <1>10 DEF Placed
  <2>4. (Last(req, f) => /\ jobs[d] = <<>> /\ d \in answered
                         /\ \A j \in k + 1 .. Len(rxq) :
                              rxq[j].ecu = d => Foreign(world, rxq[j].frame))'
    BY <1>5, <1>6 DEF Placed
  <2>5. (Consecutive(f) => /\ InTransfer(req, ecus[d].rx)
                           /\ \A j \in 1 .. k - 1 : rxq[j].ecu # d)'
    BY <1>5, <1>11, <1>12 DEF Placed
  <2> QED BY <2>1, <2>2, <2>3, <2>4, <2>5 DEF Placed
<1> QED BY <1>3, <1>4, <1>14

\* A frame an ECU has queued behind the head is still queued.
LEMMA SentStill ==
  ASSUME TypeInv, rxq # <<>>, rxq' = Tail(rxq), NEW d, NEW f,
         NEW i \in 1 .. Len(rxq), i # 1, rxq[i].ecu = d, rxq[i].frame = f
  PROVE  \E k \in 1 .. Len(rxq') : rxq'[k].ecu = d /\ rxq'[k].frame = f
BY QueueTail

LEMMA TakeTypes ==
  ASSUME TypeInv, NEW e, NEW f, Taken(e, f),
         \/ TakesForeign(e, f) \/ TakesPending(e, f)
         \/ TakesFirst(e, f) \/ TakesLast(e, f)
  PROVE  /\ TypeInv'
         /\ \A d \in Ecu : d # e => work'[d] = work[d] /\ ecus'[d] = ecus[d]
         /\ \A d \in Ecu : work'[d].pend = work[d].pend
         /\ ~TakesFirst(e, f) => work' = work
<1>1. e \in Ecu /\ rxq' \in Seq(Entry)
  BY QueueTail DEF Taken
<1>2. NewReceiver \in Rx
  <2>1. <<>> \in Seq([msg : Msg, off : Nat, n : Nat])
    OBVIOUS
  <2> QED BY <2>1 DEF NewReceiver, Rx
<1>3. 0 \in Nat /\ PendingTimeout \in Nat /\ NCr \in Nat /\ CFGap \in Nat
  BY TimesAssumption DEF CFGap
<1>4. PICK t \in Track : ecus' = [ecus EXCEPT ![e] = t]
  <2>1. \A r \in Rx, n \in Nat : [rx |-> r, deadline |-> n] \in Track
    BY DEF Track
  <2> QED BY <1>2, <1>3, <2>1
          DEF TakesForeign, TakesPending, TakesFirst, TakesLast
<1>5. \/ work' = work
      \/ TakesFirst(e, f)
         /\ work' = [work EXCEPT ![e].st = "sending", ![e].due = CFGap]
  BY DEF TakesForeign, TakesPending, TakesFirst, TakesLast
<1>6. /\ work' \in [Ecu -> Work]
      /\ \A d \in Ecu : d # e => work'[d] = work[d]
      /\ \A d \in Ecu : work'[d].pend = work[d].pend
  <2>1. work \in [Ecu -> Work]
    BY DEF TypeInv
  <2>2. CASE work' = [work EXCEPT ![e].st = "sending", ![e].due = CFGap]
    <3>1. work[e] \in Work
      BY <1>1, <2>1
    <3>2. [work[e] EXCEPT !.st = "sending", !.due = CFGap] \in Work
          /\ [work[e] EXCEPT !.st = "sending", !.due = CFGap].pend
               = work[e].pend
      BY <1>3, <3>1 DEF Work
    <3>3. work' = [work EXCEPT ![e] =
                     [work[e] EXCEPT !.st = "sending", !.due = CFGap]]
      BY <1>1, <2>1, <2>2
    <3> QED BY <1>1, <2>1, <3>2, <3>3
  <2> QED BY <1>5, <2>1, <2>2
<1>7. /\ ecus' \in [Ecu -> Track]
      /\ \A d \in Ecu : d # e => ecus'[d] = ecus[d]
  BY <1>1, <1>4 DEF TypeInv
<1>8. out' \in Seq(Found)
  <2>1. CASE TakesLast(e, f)
    <3>1. PICK x \in Msg : out' = Append(out, [ecu |-> e, got |-> x])
      BY <2>1 DEF TakesLast
    <3>2. [ecu |-> e, got |-> x] \in Found
      BY <1>1 DEF Found
    <3>3. out \in Seq(Found)
      BY DEF TypeInv
    <3> QED BY <3>1, <3>2, <3>3, AppendProperties
  <2>2. CASE out' = out
    BY <2>2 DEF TypeInv
  <2> QED BY <2>1, <2>2 DEF TakesForeign, TakesPending, TakesFirst
<1>9. pc' \in {"idle", "receiving"} /\ mode' \in Nat
  BY DEF TypeInv, TakesForeign, TakesPending, TakesFirst, TakesLast
<1>10. /\ world' = world /\ trial' = trial /\ req' = req /\ jobs' = jobs
       /\ window' = window /\ answered' = answered
  BY DEF Taken
<1>11. TypeInv'
  BY <1>1, <1>6, <1>7, <1>8, <1>9, <1>10 DEF TypeInv
<1> QED BY <1>5, <1>6, <1>7, <1>11

\* The ECU whose frame it was.
LEMMA TakeOwn ==
  ASSUME Undisturbed, TypeInv, QueueInv, EcuInv, TimeInv, RoundInv,
         NEW e, NEW f, Taken(e, f), TypeInv',
         \/ TakesForeign(e, f) \/ TakesPending(e, f)
         \/ TakesFirst(e, f) \/ TakesLast(e, f)
  PROVE  InStep(e)' /\ (pc' = "receiving" => InTime(e)')
<1>1. /\ e \in Ecu /\ e = rxq[1].ecu /\ f = rxq[1].frame
      /\ Listens(e, trial) /\ Listens(e, trial)' /\ pc = "receiving"
      /\ UNCHANGED <<world, trial, req, window, jobs, answered>>
      /\ rxq # <<>> /\ rxq' = Tail(rxq)
  BY DEF Taken, Listens
<1>2. 1 \in 1 .. Len(rxq) /\ Len(rxq) \in Nat \ {0}
  BY <1>1, QueueTail
<1>3. Placed(1, e, f) /\ InStep(e) /\ InTime(e) /\ Queued(e)
  BY <1>1, <1>2 DEF QueueInv, EcuInv, TimeInv, Queued
<1>4. ecus \in [Ecu -> Track] /\ work \in [Ecu -> Work]
  BY DEF TypeInv
<1>5. ~InTransfer(req, NewReceiver)
  BY DEF InTransfer, NewReceiver
<1>6. /\ work[e].st \in {"thinking", "waitFC", "sending"}
      /\ work[e].pend \in BOOLEAN /\ work[e].due \in Nat
  BY <1>1, <1>4 DEF Work
<1>7. work[e].st # "sending"
  BY <1>3 DEF InStep
\* The head is the consecutive frame, if the ECU has sent one.
<1>8. work[e].st = "thinking" /\ ~Consecutive(f) => ecus[e].rx = NewReceiver
  <2>1. SUFFICES ASSUME work[e].st = "thinking", ~Consecutive(f),
                        InTransfer(req, ecus[e].rx)
                 PROVE  FALSE
    BY <1>3 DEF InStep
  <2>2. PICK i \in 1 .. Len(rxq) : rxq[i].ecu = e /\ Consecutive(rxq[i].frame)
    BY <1>3, <2>1 DEF InStep
  <2>3. \A j \in 1 .. i - 1 : rxq[j].ecu # e
    BY <2>2 DEF QueueInv, Placed
  <2>4. i = 1
    BY <1>1, <1>2, <2>3
  <2> QED BY <1>1, <2>1, <2>2, <2>4
\* A first frame that waits is not the head, unless the head is one.
<1>9. work[e].st = "waitFC" /\ ~First(req, f) =>
        \E k \in 1 .. Len(rxq') :
          rxq'[k].ecu = e /\ First(req, rxq'[k].frame)
  <2>1. SUFFICES ASSUME work[e].st = "waitFC", ~First(req, f)
                 PROVE  \E k \in 1 .. Len(rxq') :
                          rxq'[k].ecu = e /\ First(req, rxq'[k].frame)
    OBVIOUS
  <2>2. PICK i \in 1 .. Len(rxq) : rxq[i].ecu = e /\ First(req, rxq[i].frame)
    BY <1>3, <2>1 DEF InStep
  <2>3. i # 1
    BY <1>1, <2>1, <2>2
  <2> QED BY <1>1, <2>2, <2>3, SentStill
<1>10. CASE TakesForeign(e, f)
  <2>1. /\ ecus'[e].rx = NewReceiver /\ ecus'[e].deadline = 0
        /\ work' = work /\ pc' = pc
    BY <1>1, <1>4, <1>10 DEF TakesForeign
  <2>2. ~First(req, f) /\ ~Consecutive(f)
    BY <1>10 DEF TakesForeign, Foreign, First, Consecutive
  <2>3. InStep(e)'
    BY <1>1, <1>3, <1>5, <1>7, <1>8, <1>9, <2>1, <2>2 DEF InStep
  <2>4. ~work[e].pend
    <3>1. world.foreign # {} /\ world.orderly /\ world \in Worlds
      BY <1>10 DEF TakesForeign, Foreign, TypeInv
    <3>2. ~world.pending
      BY <3>1 DEF Undisturbed
    <3> QED BY <1>3, <1>6, <3>2 DEF InStep
  <2>5. InTime(e)'
    BY <1>1, <1>3, <2>1, <2>4 DEF InTime
  <2> QED BY <2>3, <2>5
<1>11. CASE TakesPending(e, f)
  <2>1. /\ ecus'[e].rx = NewReceiver /\ ecus'[e].deadline = PendingTimeout
        /\ work' = work /\ pc' = pc
    BY <1>1, <1>4, <1>11 DEF TakesPending
  <2>2. ~First(req, f) /\ ~Consecutive(f)
    BY <1>11 DEF TakesPending, Pending, First, Consecutive
  <2>3. InStep(e)'
    BY <1>1, <1>3, <1>5, <1>7, <1>8, <1>9, <2>1, <2>2 DEF InStep
  <2>4. \/ jobs[e] # <<>> /\ work[e].pend
        \/ Queued(e)'
    <3>1. ASSUME NEW j \in 1 + 1 .. Len(rxq), rxq[j].ecu = e PROVE Queued(e)'
      <4>1. j \in 1 .. Len(rxq) /\ j # 1
        OBVIOUS
      <4> QED BY <1>1, <3>1, <4>1, SentStill DEF Queued
    <3> QED BY <1>3, <1>11, <3>1 DEF Placed, TakesPending
  <2>5. jobs[e] # <<>> => work[e].pend
    BY <1>3, <1>11 DEF Placed, TakesPending
  <2>6. InTime(e)'
    <3>1. jobs[e] # <<>> /\ work[e].st = "thinking" =>
            work[e].due < PendingTimeout
      BY <1>3, <2>5 DEF InTime
    <3>2. jobs[e] # <<>> \/ Queued(e)'
      BY <2>4
    <3>3. work'[e] = work[e] /\ jobs'[e] = jobs[e]
      BY <1>1, <2>1
    <3> QED BY <2>1, <2>5, <3>1, <3>2, <3>3 DEF InTime
  <2> QED BY <2>3, <2>6
<1>12. CASE TakesFirst(e, f)
  <2>1. work[e].st = "waitFC" /\ jobs[e] # <<>>
        /\ \A j \in 1 + 1 .. Len(rxq) : rxq[j].ecu # e
    BY <1>3, <1>12 DEF Placed, TakesFirst, InStep
  <2>2. /\ InTransfer(req, ecus'[e].rx) /\ ecus'[e].deadline = NCr
        /\ pc' = pc
    BY <1>1, <1>4, <1>12 DEF TakesFirst
  <2>3. /\ work'[e].st = "sending" /\ work'[e].due = CFGap
        /\ work'[e].pend = work[e].pend
    <3>1. work' = [work EXCEPT ![e] =
                     [work[e] EXCEPT !.st = "sending", !.due = CFGap]]
      BY <1>1, <1>4, <1>12 DEF TakesFirst
    <3>2. work[e] \in Work
      BY <1>1, <1>4
    <3> QED BY <1>1, <1>4, <3>1, <3>2 DEF Work
  <2>4. ~Queued(e)'
    <3>1. \A k \in 1 .. Len(rxq') : /\ rxq'[k] = rxq[k + 1]
                                    /\ k + 1 \in 1 + 1 .. Len(rxq)
      <4>1. \A k \in 1 .. Len(rxq') : k + 1 \in 1 .. Len(rxq) /\ k \in Nat
                                      /\ k # 0 /\ rxq'[k] = rxq[k + 1]
        BY <1>1, QueueTail
      <4> QED BY <4>1
    <3> QED BY <2>1, <3>1 DEF Queued
  <2>5. CFGap < NCr /\ NCr # 0
    BY TimesAssumption DEF CFGap
  <2>6. InStep(e)'
    BY <1>1, <1>3, <2>1, <2>2, <2>3, <2>4, <2>5 DEF InStep
  <2>7. InTime(e)'
    BY <1>1, <2>1, <2>3 DEF InTime
  <2> QED BY <2>6, <2>7
<1>13. CASE TakesLast(e, f)
  <2>1. /\ ecus'[e].rx = NewReceiver /\ ecus'[e].deadline = 0
        /\ work' = work /\ jobs[e] = <<>>
    BY <1>1, <1>3, <1>4, <1>13 DEF TakesLast, Placed
  <2>2. InStep(e)'
    BY <1>1, <1>3, <1>5, <2>1 DEF InStep
  <2>3. InTime(e)'
    BY <1>1, <2>1 DEF InTime
  <2> QED BY <2>2, <2>3
<1> QED BY <1>10, <1>11, <1>12, <1>13

\* The other ECUs.
LEMMA TakeOthers ==
  ASSUME TypeInv, EcuInv, TimeInv, pc = "receiving",
         rxq # <<>>, rxq' = Tail(rxq),
         UNCHANGED <<world, trial, req, window, jobs>>,
         NEW d \in Ecu, d # rxq[1].ecu,
         work'[d] = work[d], ecus'[d] = ecus[d],
         pc' = pc \/ ~Listens(d, trial)
  PROVE  InStep(d)' /\ (pc' = "receiving" => InTime(d)')
<1>1. InStep(d) /\ InTime(d)
  BY DEF EcuInv, TimeInv
<1>2. Queued(d)' <=> Queued(d)
  BY QueuedStill
<1>3. \A f : (\E i \in 1 .. Len(rxq) : rxq[i].ecu = d /\ rxq[i].frame = f) =>
             \E k \in 1 .. Len(rxq') : rxq'[k].ecu = d /\ rxq'[k].frame = f
  BY SentStill
<1>4. Listens(d, trial)' <=> Listens(d, trial)
  BY DEF Listens
<1>5. (\E i \in 1 .. Len(rxq) : rxq[i].ecu = d /\ First(req, rxq[i].frame)) =>
         \E k \in 1 .. Len(rxq') : rxq'[k].ecu = d /\ First(req, rxq'[k].frame)
  BY <1>3
<1>6. (\E i \in 1 .. Len(rxq) : rxq[i].ecu = d /\ Consecutive(rxq[i].frame))
        => \E k \in 1 .. Len(rxq') : /\ rxq'[k].ecu = d
                                     /\ Consecutive(rxq'[k].frame)
  BY <1>3
<1>7. InStep(d)'
  BY <1>1, <1>2, <1>4, <1>5, <1>6 DEF InStep
<1>8. InTime(d)'
  BY <1>1, <1>2 DEF InTime
<1> QED BY <1>7, <1>8

\* The answers gathered.
LEMMA TakeRound ==
  ASSUME TypeInv, QueueInv, RoundInv, NEW e, NEW f, Taken(e, f),
         \/ TakesForeign(e, f) \/ TakesPending(e, f)
         \/ TakesFirst(e, f) \/ TakesLast(e, f)
  PROVE  RoundInv'
<1>1. /\ e \in Ecu /\ e = rxq[1].ecu /\ f = rxq[1].frame /\ pc = "receiving"
      /\ UNCHANGED <<world, trial, req, jobs, answered>>
      /\ rxq # <<>> /\ rxq' = Tail(rxq)
  BY DEF Taken
<1>2. Placed(1, e, f) /\ 1 \in 1 .. Len(rxq)
  BY <1>1, QueueTail DEF QueueInv
<1>3. pc' = "receiving" => mode' = mode
  BY <1>1 DEF TakesForeign, TakesPending, TakesFirst, TakesLast
<1>4. /\ \A i \in 1 .. Len(out') :
           out'[i].ecu \in answered /\ out'[i].got.n = req.n
      /\ \A i \in 1 .. Len(out) : /\ i \in 1 .. Len(out')
                                  /\ out'[i] = out[i]
      /\ Last(req, f) => \E i \in 1 .. Len(out') : out'[i].ecu = e
  <2>1. CASE TakesLast(e, f)
    <3>1. PICK x \in Msg : /\ Own(req, x) /\ Last(req, f)
                           /\ out' = Append(out, [ecu |-> e, got |-> x])
      BY <2>1 DEF TakesLast
    <3>2. [ecu |-> e, got |-> x] \in Found /\ out \in Seq(Found)
      BY <1>1 DEF Found, TypeInv
    <3>3. /\ Len(out') = Len(out) + 1 /\ Len(out) \in Nat
          /\ \A i \in 1 .. Len(out) : out'[i] = out[i]
          /\ out'[Len(out) + 1] = [ecu |-> e, got |-> x]
      BY <3>1, <3>2, AppendProperties
    <3>4. e \in answered /\ x.n = req.n
      BY <1>2, <3>1 DEF Placed, Own
    <3>5. ASSUME NEW i \in 1 .. Len(out')
          PROVE  out'[i].ecu \in answered /\ out'[i].got.n = req.n
      <4>1. CASE i \in 1 .. Len(out)
        BY <3>3, <4>1 DEF RoundInv
      <4>2. CASE i = Len(out) + 1
        BY <3>3, <3>4, <4>2
      <4> QED BY <3>3, <4>1, <4>2
    <3>6. Len(out) + 1 \in 1 .. Len(out')
          /\ out'[Len(out) + 1].ecu = e
      BY <3>3
    <3> QED BY <3>3, <3>5, <3>6
  <2>2. CASE out' = out /\ ~Last(req, f)
    BY <2>2 DEF RoundInv
  <2>3. TakesLast(e, f) \/ (out' = out /\ ~Last(req, f))
    BY DEF TakesForeign, TakesPending, TakesFirst, Foreign, Pending, First,
       Last, Single, Consecutive
  <2> QED BY <2>1, <2>2, <2>3
<1>5. ASSUME NEW d \in answered
      PROVE  \/ \E i \in 1 .. Len(out') : out'[i].ecu = d
             \/ \E i \in 1 .. Len(rxq') :
                  rxq'[i].ecu = d /\ Last(req, rxq'[i].frame)
  <2>1. CASE \E i \in 1 .. Len(out) : out[i].ecu = d
    BY <1>4, <2>1
  <2>2. ASSUME NEW i \in 1 .. Len(rxq), rxq[i].ecu = d,
               Last(req, rxq[i].frame)
        PROVE  \/ \E k \in 1 .. Len(out') : out'[k].ecu = d
               \/ \E k \in 1 .. Len(rxq') :
                    rxq'[k].ecu = d /\ Last(req, rxq'[k].frame)
    <3>1. CASE i = 1
      BY <1>1, <1>4, <2>2, <3>1
    <3>2. CASE i # 1
      BY <1>1, <2>2, <3>2, SentStill
    <3> QED BY <3>1, <3>2
  <2> QED BY <2>1, <2>2 DEF RoundInv
<1> QED BY <1>1, <1>3, <1>4, <1>5 DEF RoundInv

LEMMA TakeFrameStep ==
  ASSUME Undisturbed, IInv, TakeFrame PROVE IInv'
<1> USE DEF IInv
<1>1. PICK e, f : /\ Taken(e, f)
                  /\ \/ TakesForeign(e, f) \/ TakesPending(e, f)
                     \/ TakesFirst(e, f) \/ TakesLast(e, f)
  BY TakeFrameDoes
<1>2. /\ TypeInv'
      /\ \A d \in Ecu : d # e => work'[d] = work[d] /\ ecus'[d] = ecus[d]
      /\ \A d \in Ecu : work'[d].pend = work[d].pend
      /\ ~TakesFirst(e, f) => work' = work
  BY <1>1, TakeTypes
<1>3. /\ e \in Ecu /\ e = rxq[1].ecu /\ f = rxq[1].frame /\ pc = "receiving"
      /\ Listens(e, trial) /\ rxq # <<>> /\ rxq' = Tail(rxq)
      /\ UNCHANGED <<world, trial, req, window, jobs, answered>>
  BY <1>1 DEF Taken
<1>4. InStep(e)' /\ (pc' = "receiving" => InTime(e)')
  BY <1>1, <1>2, TakeOwn
<1>5. \/ pc' = pc
      \/ /\ Last(req, f) /\ pc' = "idle"
         /\ \A d \in Ecu : Listens(d, trial) => d = e
  <2>1. pc' = pc \/ (Last(req, f) /\ world.target # Everyone /\ pc' = "idle")
    BY <1>1 DEF TakesForeign, TakesPending, TakesFirst, TakesLast
  <2>2. world.target # Everyone =>
          \A d \in Ecu : Listens(d, trial) => d = e
    BY <1>3 DEF Listens
  <2> QED BY <2>1, <2>2
<1>6. QueueInv'
  <2>1. work'[e] = work[e] \/ First(req, f)
    BY <1>1, <1>2 DEF TakesFirst
  <2> QED BY <1>2, <1>3, <1>5, <2>1, QueueTaken
<1>7. ASSUME NEW d \in Ecu
      PROVE  InStep(d)' /\ (pc' = "receiving" => InTime(d)')
  <2>1. CASE d # e
    <3>1. pc' = pc \/ ~Listens(d, trial)
      BY <1>5, <2>1
    <3> QED BY <1>2, <1>3, <2>1, <3>1, TakeOthers
  <2> QED BY <1>4, <2>1
<1>8. RoundInv'
  BY <1>1, TakeRound
<1> QED BY <1>2, <1>6, <1>7, <1>8 DEF EcuInv, TimeInv

LEMMA SkipFrameStep ==
  ASSUME IInv, SkipFrame PROVE IInv'
<1> USE DEF IInv
<1>0. PICK e, f : e = rxq[1].ecu /\ f = rxq[1].frame
  OBVIOUS
<1>1. /\ pc = "receiving" /\ rxq # <<>> /\ rxq' = Tail(rxq)
      /\ UNCHANGED <<world, pc, mode, trial, req, window, ecus, out, jobs,
                     work, answered>>
      /\ Head(rxq) = rxq[1] /\ 1 \in 1 .. Len(rxq) /\ rxq[1] \in Entry
      /\ ~Listens(e, trial) /\ rxq' \in Seq(Entry)
  BY <1>0, QueueTail DEF SkipFrame, testerVars, ecuVars
<1>2. e \in Ecu /\ Placed(1, e, f) /\ InStep(e)
  BY <1>0, <1>1 DEF QueueInv, EcuInv, Entry
<1>3. TypeInv'
  BY <1>1 DEF TypeInv
<1>4. QueueInv'
  BY <1>0, <1>1, QueueTaken
<1>5. Foreign(world, f) /\ jobs[e] = <<>> /\ ecus[e].deadline = 0
      /\ work[e].st = "thinking"
  BY <1>1, <1>2 DEF Placed, InStep
<1>6. ~First(req, f) /\ ~Consecutive(f) /\ ~Last(req, f)
  <2>1. ~First(req, f) /\ ~Consecutive(f)
    BY <1>5 DEF Foreign, First, Consecutive
  <2>2. ~Single(req, f)
    BY <1>5 DEF Foreign, Single, Own
  <2> QED BY <2>1, <2>2 DEF Last
<1>7. ~Listens(e, trial)'
  BY <1>1 DEF Listens
<1>8. ASSUME NEW d \in Ecu PROVE InStep(d)' /\ InTime(d)'
  <2>1. CASE d # e
    BY <1>0, <1>1, <2>1, TakeOthers
  <2>2. CASE d = e
    <3>1. InTransfer(req, ecus[e].rx) =>
            \E k \in 1 .. Len(rxq') :
              rxq'[k].ecu = e /\ Consecutive(rxq'[k].frame)
      <4>1. SUFFICES ASSUME InTransfer(req, ecus[e].rx)
                     PROVE  \E k \in 1 .. Len(rxq') :
                              /\ rxq'[k].ecu = e
                              /\ Consecutive(rxq'[k].frame)
        OBVIOUS
      <4>2. PICK i \in 1 .. Len(rxq) :
              rxq[i].ecu = e /\ Consecutive(rxq[i].frame)
        BY <1>2, <1>5, <4>1 DEF InStep
      <4>3. i # 1
        BY <1>0, <1>6, <4>2
      <4> QED BY <1>1, <4>2, <4>3, SentStill
    <3>2. InStep(e)'
      BY <1>1, <1>2, <1>5, <1>7, <3>1 DEF InStep
    <3>3. InTime(e)'
      BY <1>1, <1>5 DEF InTime
    <3> QED BY <2>2, <3>2, <3>3
  <2> QED BY <2>1, <2>2
<1>9. RoundInv'
  <2>1. ASSUME NEW d \in answered, NEW i \in 1 .. Len(rxq), rxq[i].ecu = d,
               Last(req, rxq[i].frame)
        PROVE  \E k \in 1 .. Len(rxq') :
                 rxq'[k].ecu = d /\ Last(req, rxq'[k].frame)
    <3>1. i # 1
      BY <1>0, <1>6, <2>1
    <3> QED BY <1>1, <2>1, <3>1, SentStill
  <2>2. ASSUME NEW d \in answered
        PROVE  \/ \E i \in 1 .. Len(out) : out[i].ecu = d
               \/ \E k \in 1 .. Len(rxq') :
                    rxq'[k].ecu = d /\ Last(req, rxq'[k].frame)
    BY <2>1, <2>2 DEF RoundInv
  <2> QED BY <1>1, <2>2 DEF RoundInv
<1> QED BY <1>3, <1>4, <1>8, <1>9 DEF EcuInv, TimeInv

-----------------------------------------------------------------------------
(* An ECU puts a frame into the queue                                      *)

LEMMA QueueMore ==
  ASSUME TypeInv, NEW e \in Ecu, NEW g \in Frame,
         rxq' = Append(rxq, [ecu |-> e, frame |-> g])
  PROVE  /\ Len(rxq') = Len(rxq) + 1 /\ Len(rxq) \in Nat
         /\ rxq' \in Seq(Entry)
         /\ \A i \in 1 .. Len(rxq) : i \in 1 .. Len(rxq') /\ rxq'[i] = rxq[i]
         /\ rxq'[Len(rxq) + 1].ecu = e /\ rxq'[Len(rxq) + 1].frame = g
         /\ Len(rxq) + 1 \in 1 .. Len(rxq')
<1>1. rxq \in Seq(Entry) /\ [ecu |-> e, frame |-> g] \in Entry
  BY DEF TypeInv, Entry
<1>2. /\ rxq' \in Seq(Entry) /\ Len(rxq') = Len(rxq) + 1
      /\ \A i \in 1 .. Len(rxq) : rxq'[i] = rxq[i]
      /\ rxq'[Len(rxq) + 1] = [ecu |-> e, frame |-> g]
      /\ Len(rxq) \in Nat
  BY <1>1, AppendProperties
<1> QED BY <1>2

\* The queue stays in order when e, which has no first frame waiting in it,
\* sends a frame that may come now.
LEMMA QueueAppend ==
  ASSUME TypeInv, QueueInv, NEW e \in Ecu, NEW g \in Frame,
         rxq' = Append(rxq, [ecu |-> e, frame |-> g]),
         UNCHANGED <<world, pc, trial, req, ecus>>,
         \A d \in Ecu : d # e => jobs'[d] = jobs[d] /\ work'[d] = work[d],
         \A d \in answered : d \in answered',
         work[e].st # "waitFC",
         jobs[e] # <<>> \/ Foreign(world, g),
         jobs[e] = <<>> => jobs'[e] = <<>>,
         jobs'[e] # <<>> /\ work[e].pend => work'[e].pend,
         \/ Foreign(world, g)
         \/ /\ pc = "receiving" /\ Listens(e, trial)
            /\ Pending(req, g) \/ First(req, g) \/ Last(req, g),
         Pending(req, g) => jobs'[e] # <<>> /\ work'[e].pend,
         First(req, g) => work'[e].st = "waitFC",
         Last(req, g) => jobs'[e] = <<>> /\ e \in answered',
         Consecutive(g) => InTransfer(req, ecus[e].rx) /\ ~Queued(e)
  PROVE  QueueInv'
<1>1. PICK n \in Nat : n = Len(rxq)
  BY QueueMore
<1>2. /\ Len(rxq') = n + 1 /\ n + 1 \in 1 .. Len(rxq')
      /\ \A i \in 1 .. n : i \in 1 .. Len(rxq') /\ rxq'[i] = rxq[i]
      /\ rxq'[n + 1].ecu = e /\ rxq'[n + 1].frame = g
  BY <1>1, QueueMore
<1>3. \A d : Listens(d, trial)' <=> Listens(d, trial)
  BY DEF Listens
<1>4. Placed(n + 1, e, g)'
  <2>1. \A j \in n + 1 + 1 .. Len(rxq') : FALSE
    BY <1>2
  <2>2. Consecutive(g) => \A j \in 1 .. n + 1 - 1 : rxq'[j].ecu # e
    BY <1>1, <1>2 DEF Queued
  <2> QED BY <1>3, <2>1, <2>2 DEF Placed
<1>5. ASSUME NEW i \in 1 .. n
      PROVE  Placed(i, rxq[i].ecu, rxq[i].frame)'
  <2>0. PICK d, f : d = rxq[i].ecu /\ f = rxq[i].frame
    OBVIOUS
  <2> SUFFICES Placed(i, d, f)'
    BY <1>2, <2>0
  <2>1. Placed(i, d, f) /\ d \in Ecu
    <3>1. rxq[i] \in Entry
      BY <1>1 DEF TypeInv
    <3> QED BY <1>1, <2>0, <3>1 DEF QueueInv, Entry
  <2>2. \A j \in i + 1 .. Len(rxq') : \/ j \in i + 1 .. n /\ rxq'[j] = rxq[j]
                                      \/ j = n + 1
    BY <1>1, <1>2
  <2>3. \A j \in i + 1 .. n : j \in i + 1 .. Len(rxq') /\ rxq'[j] = rxq[j]
    BY <1>1, <1>2
  <2>4. \A j \in 1 .. i - 1 : rxq'[j] = rxq[j]
    BY <1>2
  <2>5. n + 1 \in i + 1 .. Len(rxq')
    BY <1>2
  <2>6. CASE d # e
    <3>1. jobs'[d] = jobs[d] /\ work'[d] = work[d]
      BY <2>1, <2>6
    <3>2. \A j \in i + 1 .. Len(rxq') : rxq'[j].ecu = d =>
             j \in i + 1 .. n /\ rxq'[j] = rxq[j]
      BY <1>2, <2>2, <2>6
    <3>3. (\/ Foreign(world, f)
           \/ /\ pc = "receiving" /\ Listens(d, trial)
              /\ Pending(req, f) \/ First(req, f) \/ Last(req, f))'
      BY <1>3, <2>1 DEF Placed
    <3>4. (Pending(req, f) => IF jobs[d] # <<>> THEN work[d].pend
                              ELSE \E j \in i + 1 .. Len(rxq) :
                                     rxq[j].ecu = d)'
      BY <1>1, <2>1, <2>3, <3>1 DEF Placed
    <3>5. (First(req, f) => /\ work[d].st = "waitFC"
                            /\ \A j \in i + 1 .. Len(rxq) : rxq[j].ecu # d)'
      BY <1>1, <2>1, <3>1, <3>2 DEF Placed
    <3>6. (Last(req, f) => /\ jobs[d] = <<>> /\ d \in answered
                           /\ \A j \in i + 1 .. Len(rxq) :
                                rxq[j].ecu = d =>
                                  Foreign(world, rxq[j].frame))'
      BY <1>1, <2>1, <3>1, <3>2 DEF Placed
    <3>7. (Consecutive(f) => /\ InTransfer(req, ecus[d].rx)
                             /\ \A j \in 1 .. i - 1 : rxq[j].ecu # d)'
      BY <2>1, <2>4 DEF Placed
    <3> QED BY <3>3, <3>4, <3>5, <3>6, <3>7 DEF Placed
  <2>7. CASE d = e
    <3>1. ~First(req, f)
      BY <2>1, <2>7 DEF Placed
    <3>2. (\/ Foreign(world, f)
           \/ /\ pc = "receiving" /\ Listens(d, trial)
              /\ Pending(req, f) \/ First(req, f) \/ Last(req, f))'
      BY <1>3, <2>1 DEF Placed
    <3>3. (Pending(req, f) => IF jobs[d] # <<>> THEN work[d].pend
                              ELSE \E j \in i + 1 .. Len(rxq) :
                                     rxq[j].ecu = d)'
      BY <1>2, <2>1, <2>5, <2>7 DEF Placed
    <3>4. (First(req, f) => /\ work[d].st = "waitFC"
                            /\ \A j \in i + 1 .. Len(rxq) : rxq[j].ecu # d)'
      BY <3>1
    <3>5. (Last(req, f) => /\ jobs[d] = <<>> /\ d \in answered
                           /\ \A j \in i + 1 .. Len(rxq) :
                                rxq[j].ecu = d =>
                                  Foreign(world, rxq[j].frame))'
      BY <1>1, <1>2, <2>1, <2>2, <2>7 DEF Placed
    <3>6. (Consecutive(f) => /\ InTransfer(req, ecus[d].rx)
                             /\ \A j \in 1 .. i - 1 : rxq[j].ecu # d)'
      BY <2>1, <2>4 DEF Placed
    <3> QED BY <3>2, <3>3, <3>4, <3>5, <3>6 DEF Placed
  <2> QED BY <2>6, <2>7
<1>6. ASSUME NEW i \in 1 .. Len(rxq')
      PROVE  Placed(i, rxq[i].ecu, rxq[i].frame)'
  <2>1. i \in 1 .. n \/ i = n + 1
    BY <1>2
  <2>2. CASE i = n + 1
    BY <1>2, <1>4, <2>2
  <2> QED BY <1>5, <2>1, <2>2
<1> QED BY <1>6 DEF QueueInv

\* An ECU that sends nothing in the step, or a frame for another tester.
LEMMA EcuAppend ==
  ASSUME TypeInv, EcuInv, TimeInv, NEW e \in Ecu, NEW g \in Frame,
         rxq' = Append(rxq, [ecu |-> e, frame |-> g]),
         UNCHANGED <<world, pc, trial, req, window, ecus>>,
         NEW d \in Ecu, jobs'[d] = jobs[d], work'[d] = work[d],
         d # e \/ work[d].st # "sending"
  PROVE  InStep(d)' /\ (pc' = "receiving" => InTime(d)')
<1>1. InStep(d) /\ (pc = "receiving" => InTime(d))
  BY DEF EcuInv, TimeInv
<1>2. \A i \in 1 .. Len(rxq) : i \in 1 .. Len(rxq') /\ rxq'[i] = rxq[i]
  BY QueueMore
<1>3. Queued(d) => Queued(d)'
  BY <1>2 DEF Queued
<1>4. ASSUME Queued(d)', d # e PROVE Queued(d)
  <2>1. PICK i \in 1 .. Len(rxq') : rxq'[i].ecu = d
    BY <1>4 DEF Queued
  <2>2. i \in 1 .. Len(rxq) /\ rxq'[i] = rxq[i]
    BY <1>4, <2>1, QueueMore
  <2> QED BY <2>1, <2>2 DEF Queued
<1>5. Listens(d, trial)' <=> Listens(d, trial)
  BY DEF Listens
<1>6. (\E i \in 1 .. Len(rxq) : rxq[i].ecu = d /\ First(req, rxq[i].frame)) =>
         \E k \in 1 .. Len(rxq') : rxq'[k].ecu = d /\ First(req, rxq'[k].frame)
  BY <1>2
<1>7. (\E i \in 1 .. Len(rxq) : rxq[i].ecu = d /\ Consecutive(rxq[i].frame))
        => \E k \in 1 .. Len(rxq') : /\ rxq'[k].ecu = d
                                     /\ Consecutive(rxq'[k].frame)
  BY <1>2
<1>8. InStep(d)'
  BY <1>1, <1>4, <1>5, <1>6, <1>7 DEF InStep
<1>9. pc' = "receiving" => InTime(d)'
  BY <1>1, <1>3 DEF InTime
<1> QED BY <1>8, <1>9

\* What e adds to the answers of this request.
LEMMA RoundAppend ==
  ASSUME TypeInv, RoundInv, NEW e \in Ecu, NEW g \in Frame,
         \/ rxq' = Append(rxq, [ecu |-> e, frame |-> g])
         \/ rxq' = rxq,
         UNCHANGED <<world, pc, mode, trial, req, out>>,
         \A d \in Ecu : jobs[d] = <<>> => jobs'[d] = <<>>,
         \/ answered' = answered
         \/ /\ answered' = answered \cup {e} /\ jobs'[e] = <<>>
            /\ world.speaks[e] = trial /\ Last(req, g) /\ rxq' # rxq
  PROVE  RoundInv'
<1>1. rxq' # rxq =>
        /\ \A i \in 1 .. Len(rxq) : i \in 1 .. Len(rxq') /\ rxq'[i] = rxq[i]
        /\ rxq'[Len(rxq) + 1].ecu = e /\ rxq'[Len(rxq) + 1].frame = g
        /\ Len(rxq) + 1 \in 1 .. Len(rxq')
  BY QueueMore
<1>2. ASSUME NEW d \in answered'
      PROVE  /\ jobs'[d] = <<>> /\ world.speaks[d] = trial
             /\ \/ \E i \in 1 .. Len(out) : out[i].ecu = d
                \/ \E i \in 1 .. Len(rxq') :
                     rxq'[i].ecu = d /\ Last(req, rxq'[i].frame)
  <2>1. CASE d \in answered
    <3>1. d \in Ecu
      BY <2>1 DEF TypeInv
    <3>2. jobs'[d] = <<>> /\ world.speaks[d] = trial
      BY <2>1, <3>1 DEF RoundInv
    <3>3. ASSUME NEW i \in 1 .. Len(rxq), rxq[i].ecu = d,
                 Last(req, rxq[i].frame)
          PROVE  \E k \in 1 .. Len(rxq') :
                   rxq'[k].ecu = d /\ Last(req, rxq'[k].frame)
      BY <1>1, <3>3
    <3>4. \/ \E i \in 1 .. Len(out) : out[i].ecu = d
          \/ \E i \in 1 .. Len(rxq) :
               rxq[i].ecu = d /\ Last(req, rxq[i].frame)
      BY <2>1 DEF RoundInv
    <3> QED BY <3>2, <3>3, <3>4
  <2>2. CASE d = e /\ answered' # answered
    BY <1>1, <2>2
  <2> QED BY <1>2, <2>1, <2>2
<1>3. \A i \in 1 .. Len(out) :
        out[i].ecu \in answered' /\ out[i].got.n = req.n
  BY DEF RoundInv
<1> QED BY <1>2, <1>3 DEF RoundInv

\* The queue while no ECU puts a frame into it.
LEMMA QueueSame ==
  ASSUME TypeInv, QueueInv, UNCHANGED <<world, pc, trial, req, rxq>>,
         \A d \in Ecu : /\ ecus'[d].rx = ecus[d].rx
                        /\ \/ /\ work'[d].st = work[d].st
                              /\ work'[d].pend = work[d].pend
                              /\ jobs'[d] = jobs[d]
                           \/ /\ ~work[d].pend
                              /\ work[d].st = "thinking"
                              /\ jobs[d] # <<>> /\ jobs'[d] = <<>>,
         \A d \in answered : d \in answered'
  PROVE  QueueInv'
<1> SUFFICES ASSUME NEW i \in 1 .. Len(rxq)
             PROVE  Placed(i, rxq[i].ecu, rxq[i].frame)'
  BY DEF QueueInv
<1>1. PICK d, f : d = rxq[i].ecu /\ f = rxq[i].frame
  OBVIOUS
<1>2. d \in Ecu /\ Placed(i, d, f)
  <2>1. rxq[i] \in Entry
    BY DEF TypeInv
  <2> QED BY <1>1, <2>1 DEF QueueInv, Entry
<1>3. Listens(d, trial)' <=> Listens(d, trial)
  BY DEF Listens
<1>4. Placed(i, d, f)'
  BY <1>2, <1>3 DEF Placed
<1> QED BY <1>1, <1>4

\* An ECU at work on a request.
LEMMA ThinkingHas ==
  ASSUME IInv, NEW e \in Ecu, Thinking(e)
  PROVE  /\ pc = "receiving" /\ Listens(e, trial) /\ world.speaks[e] = trial
         /\ Head(jobs[e]) = req /\ Tail(jobs[e]) = <<>> /\ jobs[e] # <<>>
         /\ work[e].st = "thinking" /\ ecus[e].rx = NewReceiver
         /\ \A k \in {"positive", "negative", "pending"} :
              \A x \in Replies(e, k) : x \in Msg /\ Own(req, x) /\ x.kind = k
<1> USE DEF IInv
<1>1. jobs[e] # <<>> /\ work[e].st = "thinking" /\ InStep(e)
      /\ jobs[e] = <<req>>
  BY DEF Thinking, EcuInv, TypeInv
<1>2. pc = "receiving" /\ Listens(e, trial) /\ world.speaks[e] = trial
  BY <1>1 DEF InStep, Listens
<1>3. Head(jobs[e]) = req /\ Tail(jobs[e]) = <<>>
  BY <1>1
<1>4. ecus[e].rx = NewReceiver
  <2>1. SUFFICES ASSUME InTransfer(req, ecus[e].rx) PROVE FALSE
    BY <1>1 DEF InStep
  <2>2. PICK i \in 1 .. Len(rxq) :
          rxq[i].ecu = e /\ Consecutive(rxq[i].frame)
    BY <1>1, <2>1 DEF InStep
  <2>3. Placed(i, e, rxq[i].frame)
    BY <2>2 DEF QueueInv
  <2> QED BY <1>1, <2>2, <2>3 DEF Placed, Last
<1>5. ASSUME NEW k \in {"positive", "negative", "pending"},
             NEW x \in Replies(e, k)
      PROVE  x \in Msg /\ Own(req, x) /\ x.kind = k
  <2>1. req.n \in Nat /\ req.what.sid \in Nat /\ req.what.pids \subseteq Nat
        /\ req.n # 0
    BY <1>2 DEF TypeInv, Request, RoundInv
  <2>2. PICK pid \in IF req.what.pids = {} THEN {0} ELSE req.what.pids :
          x = [n |-> req.n, kind |-> k, sid |-> req.what.sid, pid |-> pid]
    BY <1>3 DEF Replies, Reply
  <2>3. pid \in Nat
    BY <2>1, <2>2
  <2> QED BY <2>1, <2>2, <2>3 DEF Msg, Own, Answers
<1> QED BY <1>1, <1>2, <1>3, <1>4, <1>5

LEMMA WorldTypes ==
  ASSUME TypeInv
  PROVE  /\ world.pending \in BOOLEAN /\ world.addressing \in Nat
         /\ world.requests \subseteq Request
<1>1. world \in World
  BY WorldsAssumption DEF TypeInv
<1>2. world.pending \in BOOLEAN /\ world.addressing \in {0, 11, 29}
      /\ world.requests \in SUBSET Request
  BY <1>1 DEF World
<1> QED BY <1>2

LEMMA EcuTypes ==
  /\ EcuIdle \in Work /\ EcuIdle.st = "thinking" /\ ~EcuIdle.pend
  /\ [EcuIdle EXCEPT !.due = P2] \in Work
  /\ [EcuIdle EXCEPT !.due = P2].st = "thinking"
  /\ ~[EcuIdle EXCEPT !.due = P2].pend
  /\ [EcuIdle EXCEPT !.due = P2].due = P2 /\ P2 < Window /\ P2 \in Nat
  /\ P2Star < PendingTimeout /\ P2Star \in Nat
  /\ NBs \in Nat /\ NBs > 0 /\ CFGap \in Nat /\ CFGap < NCr
<1>1. /\ P2 < Window /\ P2 \in Nat /\ P2Star < PendingTimeout
      /\ P2Star \in Nat /\ NBs \in Nat /\ NBs > 0 /\ CFGap \in Nat
      /\ CFGap < NCr
  BY TimesAssumption DEF P2, P2Star, NBs, CFGap
<1>2. NoMessage \in Said
  BY DEF Said
<1> QED BY <1>1, <1>2 DEF EcuIdle, Work

\* e has finished with the request.
LEMMA DoneDoes ==
  ASSUME TypeInv, NEW e \in Ecu, jobs[e] # <<>>, NEW sent \in BOOLEAN,
         Done(e, sent)
  PROVE  /\ jobs'[e] = <<>> /\ jobs' \in [Ecu -> {<<>>, <<req>>}]
         /\ work'[e].st = "thinking" /\ ~work'[e].pend
         /\ work' \in [Ecu -> Work]
         /\ \A d \in Ecu : d # e => jobs'[d] = jobs[d] /\ work'[d] = work[d]
         /\ answered' = IF sent THEN answered \cup {e} ELSE answered
         /\ answered' \subseteq Ecu
         /\ UNCHANGED <<world, pc, mode, trial, req, window, ecus, out>>
<1>1. /\ jobs' = [jobs EXCEPT ![e] = Tail(@)]
      /\ work' = [work EXCEPT ![e] = [EcuIdle EXCEPT !.due = P2]]
      /\ answered' = IF sent /\ Head(jobs[e]) = req THEN answered \cup {e}
                     ELSE answered
      /\ UNCHANGED <<world, pc, mode, trial, req, window, ecus, out>>
  BY DEF Done, testerVars
<1>2. jobs \in [Ecu -> {<<>>, <<req>>}] /\ work \in [Ecu -> Work]
      /\ jobs[e] = <<req>> /\ answered \subseteq Ecu
  BY DEF TypeInv
<1>3. Tail(jobs[e]) = <<>> /\ Head(jobs[e]) = req
  BY <1>2
<1>4. /\ jobs'[e] = <<>> /\ jobs' \in [Ecu -> {<<>>, <<req>>}]
      /\ \A d \in Ecu : d # e => jobs'[d] = jobs[d]
  BY <1>1, <1>2, <1>3
<1>5. /\ work'[e].st = "thinking" /\ ~work'[e].pend
      /\ work' \in [Ecu -> Work]
      /\ \A d \in Ecu : d # e => work'[d] = work[d]
  BY <1>1, <1>2, EcuTypes
<1> QED BY <1>1, <1>2, <1>3, <1>4, <1>5

\* An answer leaves e, in one frame or with the last of two.
LEMMA LastStep ==
  ASSUME IInv, NEW e \in Ecu, NEW g \in Frame, Last(req, g),
         pc = "receiving", Listens(e, trial), jobs[e] # <<>>,
         rxq' = Append(rxq, [ecu |-> e, frame |-> g]), Done(e, TRUE),
         work[e].st # "waitFC",
         \/ Single(req, g) /\ ecus[e].rx = NewReceiver
         \/ /\ Consecutive(g) /\ InTransfer(req, ecus[e].rx) /\ ~Queued(e)
  PROVE  IInv'
<1> USE DEF IInv
<1>1. /\ jobs'[e] = <<>> /\ jobs' \in [Ecu -> {<<>>, <<req>>}]
      /\ work'[e].st = "thinking" /\ ~work'[e].pend
      /\ work' \in [Ecu -> Work]
      /\ \A d \in Ecu : d # e => jobs'[d] = jobs[d] /\ work'[d] = work[d]
      /\ answered' = answered \cup {e} /\ answered' \subseteq Ecu
      /\ UNCHANGED <<world, pc, mode, trial, req, window, ecus, out>>
  BY DoneDoes
<1>2. ~Pending(req, g) /\ ~First(req, g)
  BY DEF Last, Single, Consecutive, Pending, First
<1>3. Consecutive(g) => InTransfer(req, ecus[e].rx) /\ ~Queued(e)
  BY DEF Single, Consecutive
<1>4. TypeInv'
  BY <1>1, QueueMore DEF TypeInv
<1>5. QueueInv'
  BY <1>1, <1>2, <1>3, QueueAppend
<1>6. RoundInv'
  <2>1. world.speaks[e] = trial /\ rxq' # rxq
    BY QueueMore DEF Listens
  <2>2. \A d \in Ecu : jobs[d] = <<>> => jobs'[d] = <<>>
    BY <1>1
  <2> QED BY <1>1, <2>1, <2>2, RoundAppend
<1>7. InStep(e)' /\ InTime(e)'
  <2>1. /\ rxq'[Len(rxq) + 1].ecu = e /\ rxq'[Len(rxq) + 1].frame = g
        /\ Len(rxq) + 1 \in 1 .. Len(rxq')
    BY QueueMore
  <2>2. Queued(e)'
    BY <2>1 DEF Queued
  <2>3. /\ InStep(e) /\ (Listens(e, trial)' <=> Listens(e, trial))
    BY <1>1, WorldTypes DEF EcuInv, Listens
  <2>4. InTransfer(req, ecus[e].rx) =>
          \E i \in 1 .. Len(rxq') :
            rxq'[i].ecu = e /\ Consecutive(rxq'[i].frame)
    <3>1. ~InTransfer(req, NewReceiver)
      BY DEF InTransfer, NewReceiver
    <3> QED BY <2>1, <3>1
  <2>5. InStep(e)'
    BY <1>1, <2>3, <2>4 DEF InStep
  <2> QED BY <1>1, <2>2, <2>5 DEF InTime
<1>8. ASSUME NEW d \in Ecu
      PROVE  InStep(d)' /\ (pc' = "receiving" => InTime(d)')
  BY <1>1, <1>7, EcuAppend
<1> QED BY <1>4, <1>5, <1>6, <1>8 DEF EcuInv, TimeInv

LEMMA EcuSingleStep ==
  ASSUME IInv, NEW e \in Ecu, EcuSingle(e) PROVE IInv'
<1>1. Thinking(e) /\ Done(e, TRUE)
  BY DEF EcuSingle
<1>2. PICK x \in Replies(e, "positive") \cup Replies(e, "negative") :
        rxq' = Append(rxq, [ecu |-> e, frame |-> SingleFrame(x, 4)])
  BY DEF EcuSingle, Transmit
<1>3. x \in Msg /\ Own(req, x) /\ x.kind # "pending"
  BY <1>1, ThinkingHas
<1>4. SingleFrame(x, 4) \in Frame /\ Single(req, SingleFrame(x, 4))
  BY <1>3 DEF Frame, SingleFrame, Single
<1>5. /\ pc = "receiving" /\ Listens(e, trial) /\ jobs[e] # <<>>
      /\ work[e].st # "waitFC" /\ ecus[e].rx = NewReceiver
  BY <1>1, ThinkingHas
<1> QED BY <1>1, <1>2, <1>4, <1>5, LastStep DEF Last

LEMMA EcuConsecutiveStep ==
  ASSUME IInv, NEW e \in Ecu, EcuConsecutive(e) PROVE IInv'
<1>1. work[e].st = "sending" /\ Done(e, TRUE) /\ InStep(e)
  BY DEF EcuConsecutive, IInv, EcuInv
<1>2. PICK g : g = ConsecutiveFrame(work[e].said, FFData, 1)
  OBVIOUS
<1>3. rxq' = Append(rxq, [ecu |-> e, frame |-> g])
  BY <1>2 DEF EcuConsecutive, Transmit
<1>4. g \in Frame /\ Consecutive(g)
  <2>1. work[e].said \in Said
    BY DEF IInv, TypeInv, Work
  <2>2. FFData \in Nat /\ 1 \in Nat
    BY DEF FFData
  <2> QED BY <1>2, <2>1, <2>2 DEF ConsecutiveFrame, Frame, Consecutive
<1>5. /\ jobs[e] # <<>> /\ InTransfer(req, ecus[e].rx) /\ ~Queued(e)
      /\ pc = "receiving" /\ Listens(e, trial)
  BY <1>1 DEF InStep
<1> QED BY <1>1, <1>3, <1>4, <1>5, LastStep DEF Last

LEMMA EcuSilentStep ==
  ASSUME IInv, NEW e \in Ecu, EcuSilent(e) PROVE IInv'
<1> USE DEF IInv
<1>1. Thinking(e) /\ ~work[e].pend /\ Done(e, FALSE) /\ rxq' = rxq
  BY DEF EcuSilent
<1>2. /\ pc = "receiving" /\ Listens(e, trial) /\ jobs[e] # <<>>
      /\ work[e].st = "thinking" /\ ecus[e].rx = NewReceiver
  BY <1>1, ThinkingHas
<1>3. /\ jobs'[e] = <<>> /\ jobs' \in [Ecu -> {<<>>, <<req>>}]
      /\ work'[e].st = "thinking" /\ ~work'[e].pend
      /\ work' \in [Ecu -> Work]
      /\ \A d \in Ecu : d # e => jobs'[d] = jobs[d] /\ work'[d] = work[d]
      /\ answered' = answered
      /\ UNCHANGED <<world, pc, mode, trial, req, window, ecus, out>>
  BY <1>1, <1>2, DoneDoes
<1>4. TypeInv'
  BY <1>1, <1>3 DEF TypeInv
<1>5. QueueInv'
  BY <1>1, <1>2, <1>3, QueueSame
<1>6. RoundInv'
  BY SMTT(30), <1>1, <1>3 DEF RoundInv, TypeInv
<1>7. ASSUME NEW d \in Ecu PROVE InStep(d)' /\ InTime(d)'
  <2>1. InStep(d) /\ InTime(d)
        /\ (Listens(d, trial)' <=> Listens(d, trial))
    BY <1>2, <1>3, WorldTypes DEF EcuInv, TimeInv, Listens
  <2>2. Queued(d)' <=> Queued(d)
    BY <1>1 DEF Queued
  <2>3. ~InTransfer(req, NewReceiver)
    BY DEF InTransfer, NewReceiver
  <2>4. InStep(d)'
    BY <1>1, <1>2, <1>3, <2>1, <2>2, <2>3 DEF InStep
  <2> QED BY <1>1, <1>2, <1>3, <2>1, <2>2, <2>4 DEF InTime
<1> QED BY <1>4, <1>5, <1>6, <1>7 DEF EcuInv, TimeInv

LEMMA EcuPendingStep ==
  ASSUME IInv, NEW e \in Ecu, EcuPending(e) PROVE IInv'
<1> USE DEF IInv
<1>1. /\ Thinking(e) /\ world.pending
      /\ work' = [work EXCEPT ![e].pend = TRUE, ![e].due = P2Star]
      /\ UNCHANGED <<world, pc, mode, trial, req, window, ecus, out, jobs,
                     answered>>
  BY DEF EcuPending, MayAsk, testerVars
<1>2. PICK x \in Replies(e, "pending") :
        rxq' = Append(rxq, [ecu |-> e, frame |-> SingleFrame(x, 3)])
  BY DEF EcuPending, Transmit
<1>3. /\ pc = "receiving" /\ Listens(e, trial) /\ jobs[e] # <<>>
      /\ work[e].st = "thinking" /\ ecus[e].rx = NewReceiver
      /\ x \in Msg /\ Own(req, x) /\ x.kind = "pending"
  BY <1>1, ThinkingHas
<1>4. PICK g : g = SingleFrame(x, 3)
  OBVIOUS
<1>5. g \in Frame /\ Pending(req, g) /\ ~Last(req, g) /\ ~First(req, g)
      /\ ~Consecutive(g)
  BY <1>3, <1>4
     DEF Frame, SingleFrame, Pending, Last, Single, Consecutive, First
<1>6. /\ work' \in [Ecu -> Work]
      /\ work'[e].st = "thinking" /\ work'[e].due = P2Star
      /\ work'[e].pend
      /\ \A d \in Ecu : d # e => work'[d] = work[d]
  <2>1. work \in [Ecu -> Work]
    BY DEF TypeInv
  <2>2. work[e] \in Work
    BY <2>1
  <2>3. PICK w : w = [work[e] EXCEPT !.pend = TRUE, !.due = P2Star]
    OBVIOUS
  <2>4. work' = [work EXCEPT ![e] = w]
    BY <1>1, <2>1, <2>3
  <2>5. w \in Work /\ w.st = work[e].st /\ w.due = P2Star /\ w.pend
    <3>1. P2Star \in Nat
      BY EcuTypes
    <3> QED BY <2>2, <2>3, <3>1 DEF Work
  <2> QED BY <1>3, <2>1, <2>4, <2>5
<1>7. TypeInv'
  BY <1>1, <1>2, <1>4, <1>5, <1>6, QueueMore DEF TypeInv
<1>8. work'[e].pend /\ world.pending
  BY <1>1, <1>6, WorldTypes
<1>9. QueueInv'
  BY <1>1, <1>2, <1>3, <1>4, <1>5, <1>6, <1>8, QueueAppend
<1>10. RoundInv'
  BY <1>1, <1>2, <1>4, <1>5, RoundAppend
<1>11. InStep(e)' /\ InTime(e)'
  <2>1. Queued(e)'
    BY <1>2, <1>4, <1>5, QueueMore DEF Queued
  <2>2. InStep(e) /\ (Listens(e, trial)' <=> Listens(e, trial))
    BY <1>1 DEF EcuInv, Listens
  <2>3. ~InTransfer(req, NewReceiver)
    BY DEF InTransfer, NewReceiver
  <2>4. InStep(e)'
    BY <1>1, <1>3, <1>6, <1>8, <2>2, <2>3 DEF InStep
  <2> QED BY <1>1, <1>3, <1>6, <1>8, <2>1, <2>4, EcuTypes DEF InTime
<1>12. ASSUME NEW d \in Ecu
       PROVE  InStep(d)' /\ (pc' = "receiving" => InTime(d)')
  BY <1>1, <1>2, <1>4, <1>5, <1>6, <1>11, EcuAppend
<1> QED BY <1>7, <1>9, <1>10, <1>12 DEF EcuInv, TimeInv

LEMMA EcuFirstStep ==
  ASSUME IInv, NEW e \in Ecu, EcuFirst(e) PROVE IInv'
<1> USE DEF IInv
<1>1. /\ Thinking(e)
      /\ UNCHANGED <<world, pc, mode, trial, req, window, ecus, out, jobs,
                     answered>>
  BY DEF EcuFirst, testerVars
<1>2. PICK x \in Replies(e, "positive") : \E g :
        /\ g = FirstFrame(x, FFData + CFData, FALSE)
        /\ rxq' = Append(rxq, [ecu |-> e, frame |-> g])
        /\ work' = [work EXCEPT ![e].st = "waitFC", ![e].due = NBs,
                                ![e].said = x]
  BY DEF EcuFirst, Transmit
<1>3. /\ pc = "receiving" /\ Listens(e, trial) /\ jobs[e] # <<>>
      /\ work[e].st = "thinking" /\ ecus[e].rx = NewReceiver
      /\ x \in Msg /\ Own(req, x) /\ x.kind = "positive"
  BY <1>1, ThinkingHas
<1>0. PICK g : /\ g = FirstFrame(x, FFData + CFData, FALSE)
              /\ rxq' = Append(rxq, [ecu |-> e, frame |-> g])
  BY <1>2
<1>4. g \in Frame /\ First(req, g) /\ ~Last(req, g) /\ ~Pending(req, g)
      /\ ~Consecutive(g)
  <2>1. FFData + CFData \in Nat
    BY DEF FFData, CFData
  <2> QED BY <1>0, <1>2, <1>3, <2>1
          DEF Frame, FirstFrame, Pending, Last, Single, Consecutive, First
<1>5. /\ work' \in [Ecu -> Work]
      /\ work'[e].st = "waitFC" /\ work'[e].due = NBs
      /\ work'[e].pend = work[e].pend
      /\ \A d \in Ecu : d # e => work'[d] = work[d]
  <2>1. work \in [Ecu -> Work] /\ x \in Said /\ NBs \in Nat
    BY <1>3, EcuTypes DEF TypeInv, Said
  <2>2. PICK w : w = [work[e] EXCEPT !.st = "waitFC", !.due = NBs, !.said = x]
    OBVIOUS
  <2>3. work' = [work EXCEPT ![e] = w]
    BY <1>2, <2>1, <2>2
  <2>4. work[e] \in Work
    BY <2>1
  <2>5. w \in Work /\ w.st = "waitFC" /\ w.due = NBs
        /\ w.pend = work[e].pend
    BY <2>1, <2>2, <2>4 DEF Work
  <2> QED BY <2>1, <2>3, <2>5
<1>6. TypeInv'
  BY <1>0, <1>1, <1>2, <1>4, <1>5, QueueMore DEF TypeInv
<1>7. QueueInv'
  BY ZenonT(60), <1>0, <1>1, <1>2, <1>3, <1>4, <1>5, QueueAppend
<1>8. RoundInv'
  BY <1>0, <1>1, <1>2, <1>4, RoundAppend
<1>9. InStep(e)' /\ InTime(e)'
  <2>1. \E i \in 1 .. Len(rxq') : rxq'[i].ecu = e /\ First(req, rxq'[i].frame)
    BY <1>0, <1>2, <1>4, QueueMore
  <2>2. InStep(e) /\ (Listens(e, trial)' <=> Listens(e, trial))
    BY <1>1 DEF EcuInv, Listens
  <2>3. InStep(e)'
    BY <1>1, <1>3, <1>5, <2>1, <2>2 DEF InStep
  <2> QED BY <1>1, <1>3, <1>5, <2>3 DEF InTime
<1>10. ASSUME NEW d \in Ecu
       PROVE  InStep(d)' /\ (pc' = "receiving" => InTime(d)')
  BY <1>0, <1>1, <1>2, <1>4, <1>5, <1>9, EcuAppend
<1> QED BY <1>6, <1>7, <1>8, <1>10 DEF EcuInv, TimeInv

LEMMA EcuForeignStep ==
  ASSUME IInv, NEW e \in Ecu, EcuForeign(e) PROVE IInv'
<1> USE DEF IInv
<1>1. /\ work[e].st = "thinking"
      /\ UNCHANGED <<world, pc, mode, trial, req, window, ecus, out, jobs,
                     work, answered>>
  BY DEF EcuForeign, testerVars
<1>2. PICK a \in world.foreign : \E g :
        /\ g = SingleFrame(Reply(e, 0, "positive", a.sid, a.pid), 4)
        /\ rxq' = Append(rxq, [ecu |-> e, frame |-> g])
  BY DEF EcuForeign, Transmit, TypeInv
<1>0. PICK g :
        /\ g = SingleFrame(Reply(e, 0, "positive", a.sid, a.pid), 4)
        /\ rxq' = Append(rxq, [ecu |-> e, frame |-> g])
  BY <1>2
<1>3. a.sid \in Nat /\ a.pid \in Nat
  <2>1. world \in World
    BY WorldsAssumption DEF TypeInv
  <2>2. world.foreign \in SUBSET [sid : Nat, pid : Nat]
    BY <2>1 DEF World
  <2> QED BY <2>2
<1>4. g \in Frame /\ Foreign(world, g)
  BY <1>0, <1>2, <1>3 DEF Frame, SingleFrame, Reply, Msg, Foreign
<1>5. ~Pending(req, g) /\ ~First(req, g) /\ ~Last(req, g) /\ ~Consecutive(g)
  BY <1>4 DEF Foreign, Pending, First, Last, Single, Consecutive, Own
<1>6. TypeInv'
  BY <1>0, <1>1, <1>2, <1>4, QueueMore DEF TypeInv
<1>7. QueueInv'
  BY <1>0, <1>1, <1>2, <1>4, <1>5, QueueAppend
<1>8. RoundInv'
  BY <1>0, <1>1, <1>2, <1>4, RoundAppend
<1>9. ASSUME NEW d \in Ecu
      PROVE  InStep(d)' /\ (pc' = "receiving" => InTime(d)')
  BY <1>0, <1>1, <1>2, <1>4, EcuAppend
<1> QED BY <1>6, <1>7, <1>8, <1>9 DEF EcuInv, TimeInv

\* A tester that answers a first frame at once leaves no ECU waiting.
LEMMA EcuGivesUpStep ==
  ASSUME IInv, NEW e \in Ecu, EcuGivesUp(e) PROVE FALSE
<1>1. InStep(e) /\ work[e].st = "waitFC" /\ work[e].due = 0
  BY DEF IInv, EcuInv, EcuGivesUp
<1> QED BY <1>1, EcuTypes DEF InStep

-----------------------------------------------------------------------------
(* A request, the end of a round trip, time                                *)

\* A request that finds every ECU done, and another tester's frames at most.
LEMMA Asks ==
  ASSUME TypeInv, UNCHANGED <<world, rxq>>, \A e \in Ecu : jobs[e] = <<>>,
         EcuInv,
         NEW m \in Nat, SendRequest(req', m), pc' = "receiving",
         mode' = mode, mode # 0 => m = mode,
         req' \in [n : Nat, what : Request], req'.n # 0,
         req'.what \in world.requests,
         \A i \in 1 .. Len(rxq) : Foreign(world, rxq[i].frame)
  PROVE  IInv'
<1>1. /\ trial' = m /\ window' = Window /\ ecus' = NoEcus /\ out' = <<>>
      /\ answered' = {}
      /\ jobs' = [e \in Ecu |-> IF Listens(e, m) THEN Append(jobs[e], req')
                                ELSE jobs[e]]
      /\ work' = [e \in Ecu |-> IF Listens(e, m) /\ jobs[e] = <<>>
                                THEN [EcuIdle EXCEPT !.due = P2] ELSE work[e]]
  BY DEF SendRequest
<1>2. \A e \in Ecu : jobs'[e] = IF Listens(e, m) THEN <<req'>> ELSE <<>>
  <2>1. \A x : Append(<<>>, x) = <<x>>
    OBVIOUS
  <2> QED BY <1>1, <2>1
<1>3. \A e \in Ecu : /\ work'[e] = IF Listens(e, m)
                                   THEN [EcuIdle EXCEPT !.due = P2]
                                   ELSE work[e]
                     /\ work[e] \in Work /\ work[e].st = "thinking"
                     /\ (work[e].pend => world.pending)
  BY <1>1 DEF TypeInv, EcuInv, InStep
<1>4. \A e \in Ecu : Listens(e, trial)' <=> Listens(e, m)
  BY <1>1 DEF Listens
<1>5. \A e \in Ecu : ecus'[e].rx = NewReceiver /\ ecus'[e].deadline = 0
  BY <1>1 DEF NoEcus
<1>6. TypeInv'
  <2>1. NewReceiver \in Rx
    <3>1. <<>> \in Seq([msg : Msg, off : Nat, n : Nat])
      OBVIOUS
    <3> QED BY <3>1 DEF NewReceiver, Rx
  <2>2. ecus' \in [Ecu -> Track]
    BY <1>1, <2>1 DEF NoEcus, Track
  <2>3. jobs' \in [Ecu -> {<<>>, <<req'>>}]
    BY <1>1, <1>2
  <2>4. work' \in [Ecu -> Work]
    BY <1>1, <1>3, EcuTypes
  <2>5. out' \in Seq(Found) /\ Window \in Nat
    BY <1>1, TimesAssumption
  <2> QED BY <1>1, <2>2, <2>3, <2>4, <2>5 DEF TypeInv
<1>7. QueueInv'
  <2> SUFFICES ASSUME NEW i \in 1 .. Len(rxq)
               PROVE  Placed(i, rxq[i].ecu, rxq[i].frame)'
    BY DEF QueueInv
  <2>1. PICK e, f : e = rxq[i].ecu /\ f = rxq[i].frame
    OBVIOUS
  <2>2. Foreign(world, f)
    BY <2>1
  <2>3. (~Pending(req, f) /\ ~First(req, f) /\ ~Last(req, f)
         /\ ~Consecutive(f))'
    BY <2>2 DEF Foreign, Pending, First, Last, Single, Consecutive, Own
  <2>4. Placed(i, e, f)'
    BY <2>2, <2>3 DEF Placed
  <2> QED BY <2>1, <2>4
<1>8. RoundInv'
  BY <1>1 DEF RoundInv
<1>9. ASSUME NEW e \in Ecu PROVE InStep(e)' /\ InTime(e)'
  <2>1. ~InTransfer(req, NewReceiver)'
    BY DEF InTransfer, NewReceiver
  <2>2. work'[e].st = "thinking" /\ (work'[e].pend => world.pending)
    BY <1>3, EcuTypes, WorldTypes
  <2>3. InStep(e)'
    BY <1>2, <1>4, <1>5, <2>1, <2>2 DEF InStep
  <2>4. Listens(e, m) =>
          ~work'[e].pend /\ work'[e].due = P2 /\ P2 < Window
    BY <1>3, EcuTypes
  <2>5. InTime(e)'
    BY <1>1, <1>2, <1>5, <2>2, <2>4 DEF InTime
  <2> QED BY <2>3, <2>5
<1> QED BY <1>6, <1>7, <1>8, <1>9 DEF IInv, EcuInv, TimeInv

\* Between round trips every ECU is done.
LEMMA IdleIsQuiet ==
  ASSUME IInv, pc = "idle"
  PROVE  /\ \A e \in Ecu : jobs[e] = <<>>
         /\ \A i \in 1 .. Len(rxq) : Foreign(world, rxq[i].frame)
<1>1. \A e \in Ecu : jobs[e] = <<>>
  BY DEF IInv, EcuInv, InStep
<1>2. \A i \in 1 .. Len(rxq) : Foreign(world, rxq[i].frame)
  BY DEF IInv, QueueInv, Placed
<1> QED BY <1>1, <1>2

\* When the tester has waited long enough, they are done as well.
LEMMA ExpiredIsQuiet ==
  ASSUME IInv, pc = "receiving", rxq = <<>>, Expired
  PROVE  \A e \in Ecu : jobs[e] = <<>>
<1> USE DEF IInv
<1> SUFFICES ASSUME NEW e \in Ecu, jobs[e] # <<>> PROVE FALSE
  OBVIOUS
<1>1. InStep(e) /\ InTime(e) /\ window = 0 /\ ecus[e].deadline = 0
  BY DEF EcuInv, TimeInv, Expired
<1>2. ~Queued(e) /\ \A i \in 1 .. Len(rxq) : FALSE
  BY DEF Queued
<1>3. work[e].st \in {"thinking", "waitFC", "sending"} /\ work[e].due \in Nat
  <2>1. work[e] \in Work
    BY DEF TypeInv
  <2> QED BY <2>1 DEF Work
<1>4. CASE work[e].st = "thinking"
  BY <1>1, <1>2, <1>3, <1>4 DEF InTime
<1>5. CASE work[e].st = "waitFC"
  BY <1>1, <1>2, <1>5 DEF InStep
<1>6. CASE work[e].st = "sending"
  BY <1>1, <1>3, <1>6 DEF InStep
<1> QED BY <1>3, <1>4, <1>5, <1>6

LEMMA RoundTripStep ==
  ASSUME IInv, NEW what \in world.requests, RoundTrip(what) PROVE IInv'
<1>1. /\ pc = "idle" /\ pc' = "receiving"
      /\ req' = [n |-> req.n + 1, what |-> what]
      /\ SendRequest(req', IF mode = 0 THEN 11 ELSE mode)
      /\ UNCHANGED <<world, mode, rxq>>
  BY DEF RoundTrip
<1>2. req' \in [n : Nat, what : Request] /\ req'.n # 0
      /\ req'.what \in world.requests
  BY <1>1, WorldTypes DEF IInv, TypeInv
<1>3. PICK m \in Nat : m = IF mode = 0 THEN 11 ELSE mode
  BY DEF IInv, TypeInv
<1> QED BY <1>1, <1>2, <1>3, IdleIsQuiet, Asks DEF IInv

LEMMA Try29BitStep ==
  ASSUME IInv, Try29Bit PROVE IInv'
<1>1. /\ pc = "receiving" /\ pc' = pc /\ rxq = <<>> /\ Expired
      /\ SendRequest(req', 29) /\ mode = 0
      /\ UNCHANGED <<world, mode, rxq, req>>
  BY DEF Try29Bit, MayTryOther
<1>2. req' \in [n : Nat, what : Request] /\ req'.n # 0
      /\ req'.what \in world.requests
  BY <1>1 DEF IInv, TypeInv, RoundInv
<1>3. \A i \in 1 .. Len(rxq) : Foreign(world, rxq[i].frame)
  BY <1>1
<1> QED BY <1>1, <1>2, <1>3, ExpiredIsQuiet, Asks DEF IInv

LEMMA ReturnStep ==
  ASSUME IInv, ReturnAnswers \/ ReturnNoResponse PROVE IInv'
<1> USE DEF IInv
<1>1. /\ pc = "receiving" /\ pc' = "idle" /\ rxq = <<>> /\ Expired
      /\ mode' \in {mode, trial}
      /\ UNCHANGED <<world, trial, req, window, ecus, out, rxq, jobs, work,
                     answered>>
  BY DEF ReturnAnswers, ReturnNoResponse, ecuVars, ModeAfterSilence
<1>2. \A e \in Ecu : jobs[e] = <<>>
  BY <1>1, ExpiredIsQuiet
<1>3. TypeInv'
  BY <1>1 DEF TypeInv
<1>4. QueueInv'
  BY <1>1 DEF QueueInv
<1>5. RoundInv'
  BY <1>1 DEF RoundInv
<1>6. ASSUME NEW e \in Ecu PROVE InStep(e)'
  <2>1. InStep(e) /\ (Listens(e, trial)' <=> Listens(e, trial))
    BY <1>1 DEF EcuInv, Listens
  <2>2. Queued(e)' <=> Queued(e)
    BY <1>1 DEF Queued
  <2> QED BY <1>1, <1>2, <2>1, <2>2 DEF InStep
<1> QED BY <1>1, <1>3, <1>4, <1>5, <1>6 DEF EcuInv, TimeInv

LEMMA TickStep ==
  ASSUME IInv, Tick PROVE IInv'
<1> USE DEF IInv
<1>1. /\ ~TesterReady /\ window' = Less(window)
      /\ UNCHANGED <<world, pc, mode, trial, req, out, rxq, jobs, answered>>
  BY DEF Tick
<1>2. \A e \in Ecu : ecus[e] \in Track /\ work[e] \in Work
  BY DEF TypeInv
<1>3. \A e \in Ecu : /\ ecus'[e].rx = ecus[e].rx
                     /\ ecus'[e].deadline = Less(ecus[e].deadline)
                     /\ ecus[e].deadline \in Nat /\ ecus'[e] \in Track
  <2>1. ecus' = [e \in Ecu |-> [ecus[e] EXCEPT !.deadline = Less(@)]]
    BY DEF Tick
  <2>2. \A n \in Nat : Less(n) \in Nat
    BY DEF Less
  <2> QED BY <1>2, <2>1, <2>2 DEF Track
<1>4. \A e \in Ecu : /\ work'[e].st = work[e].st
                     /\ work'[e].pend = work[e].pend
                     /\ work'[e].due = Less(work[e].due)
                     /\ work[e].due \in Nat /\ work'[e] \in Work
                     /\ work[e].st \in {"thinking", "waitFC", "sending"}
  <2>1. work' = [e \in Ecu |-> [work[e] EXCEPT !.due = Less(@)]]
    BY DEF Tick
  <2>2. \A n \in Nat : Less(n) \in Nat
    BY DEF Less
  <2> QED BY <1>2, <2>1, <2>2 DEF Work
<1>5. \A e \in Ecu : jobs[e] = <<>> \/ work[e].due > 0
  <2>1. \A e \in Ecu : MayWait(e)
    BY DEF Tick
  <2>2. \A e \in Ecu : work[e].st = "waitFC" => work[e].due > 0
    BY EcuTypes DEF EcuInv, InStep
  <2> QED BY <2>1, <2>2 DEF MayWait, TypeInv
<1>6. TypeInv'
  <2>1. ecus' \in [Ecu -> Track] /\ work' \in [Ecu -> Work]
    BY <1>3, <1>4 DEF Tick
  <2>2. window' \in Nat
    BY <1>1 DEF TypeInv, Less
  <2> QED BY <1>1, <2>1, <2>2 DEF TypeInv
<1>7. QueueInv'
  BY <1>1, <1>3, <1>4, QueueSame
<1>8. RoundInv'
  BY <1>1 DEF RoundInv
<1>9. ASSUME NEW e \in Ecu
      PROVE  InStep(e)' /\ (pc' = "receiving" => InTime(e)')
  <2>1. /\ InStep(e) /\ (Listens(e, trial)' <=> Listens(e, trial))
        /\ (Queued(e)' <=> Queued(e)) /\ (pc = "receiving" => InTime(e))
    BY <1>1 DEF EcuInv, Listens, Queued, TimeInv
  <2>2. PICK d \in Nat, t \in Nat, w \in Nat :
          /\ d = ecus[e].deadline /\ ecus'[e].deadline = Less(d)
          /\ t = work[e].due /\ work'[e].due = Less(t)
          /\ w = window /\ window' = Less(w)
    BY <1>1, <1>3, <1>4 DEF TypeInv
  <2>3. work[e].st # "waitFC"
    <3>1. SUFFICES ASSUME work[e].st = "waitFC" PROVE FALSE
      OBVIOUS
    <3>2. PICK i \in 1 .. Len(rxq) :
            rxq[i].ecu = e /\ First(req, rxq[i].frame)
      BY <2>1, <3>1 DEF InStep
    <3>3. rxq # <<>> /\ pc = "receiving"
      BY <2>1, <3>1, <3>2 DEF InStep
    <3> QED BY <1>1, <3>3 DEF TesterReady
  <2>4. Less(0) = 0 /\ (t > 0 /\ t < d => Less(t) < Less(d))
        /\ (t > 0 /\ t < w => Less(t) < Less(w))
        /\ (\A n \in Nat : t < n => Less(t) < n) /\ (Less(d) # 0 => d # 0)
    BY DEF Less
  <2>5. InStep(e)'
    BY <1>1, <1>3, <1>4, <1>5, <2>1, <2>2, <2>3, <2>4 DEF InStep
  <2>6. pc' = "receiving" => InTime(e)'
    <3>1. SUFFICES ASSUME pc = "receiving" PROVE InTime(e)'
      BY <1>1
    <3>2. PendingTimeout \in Nat
      BY TimesAssumption
    <3> QED BY <1>1, <1>4, <1>5, <2>1, <2>2, <2>4, <3>1, <3>2 DEF InTime
  <2> QED BY <2>5, <2>6
<1> QED BY <1>6, <1>7, <1>8, <1>9 DEF EcuInv, TimeInv

-----------------------------------------------------------------------------
(* The results                                                             *)

LEMMA InitIsFine ==
  ASSUME Init, world.orderly PROVE IInv
<1> USE DEF Init
<1>1. world \in World /\ world.addressing \in Nat /\ world.pending \in BOOLEAN
  BY WorldsAssumption DEF World
<1>2. TypeInv
  <2>1. NewReceiver \in Rx
    <3>1. <<>> \in Seq([msg : Msg, off : Nat, n : Nat])
      OBVIOUS
    <3> QED BY <3>1 DEF NewReceiver, Rx
  <2>2. ecus \in [Ecu -> Track]
    BY <2>1 DEF NoEcus, Track
  <2>3. req \in [n : Nat, what : Request]
    BY DEF Request
  <2>4. out \in Seq(Found) /\ rxq \in Seq(Entry)
    OBVIOUS
  <2> QED BY <1>1, <2>2, <2>3, <2>4, EcuTypes DEF TypeInv
<1>3. QueueInv
  BY DEF QueueInv
<1>4. EcuInv
  <2> SUFFICES ASSUME NEW e \in Ecu PROVE InStep(e)
    BY DEF EcuInv
  <2>1. ecus[e].rx = NewReceiver /\ ecus[e].deadline = 0
    BY DEF NoEcus
  <2>2. work[e].st = "thinking" /\ ~work[e].pend
    BY <1>1, EcuTypes
  <2>3. ~InTransfer(req, NewReceiver)
    BY DEF InTransfer, NewReceiver
  <2> QED BY <2>1, <2>2, <2>3 DEF InStep
<1>5. TimeInv /\ RoundInv
  BY DEF TimeInv, RoundInv
<1> QED BY <1>2, <1>3, <1>4, <1>5 DEF IInv

\* The world of a behaviour stays what it is.
LEMMA WorldStays == ASSUME [Next]_vars PROVE world' = world
BY DEF Next, vars, TesterStep, EcuStep, RoundTrip, SkipFrame, TakeFrame,
       ReturnAnswers, Try29Bit, ReturnNoResponse, Cancel, EcuSingle,
       EcuSilent, EcuPending, EcuFirst, EcuConsecutive, EcuGivesUp, Done,
       EcuForeign, Tick

LEMMA Preserved ==
  ASSUME Undisturbed, IInv, [Next]_vars PROVE IInv'
<1>1. CASE \E what \in world.requests : RoundTrip(what)
  BY <1>1, RoundTripStep
<1>2. CASE SkipFrame
  BY <1>2, SkipFrameStep
<1>3. CASE TakeFrame
  BY <1>3, TakeFrameStep
<1>4. CASE ReturnAnswers \/ ReturnNoResponse
  BY <1>4, ReturnStep
<1>5. CASE Try29Bit
  BY <1>5, Try29BitStep
<1>6. CASE Cancel
  BY <1>6 DEF Cancel, IInv, TypeInv
<1>7. ASSUME NEW e \in Ecu, EcuStep(e) PROVE IInv'
  BY <1>7, EcuSingleStep, EcuSilentStep, EcuPendingStep, EcuFirstStep,
     EcuConsecutiveStep, EcuGivesUpStep DEF EcuStep
<1>8. ASSUME NEW e \in Ecu, EcuForeign(e) PROVE IInv'
  BY <1>8, EcuForeignStep
<1>9. CASE Tick
  BY <1>9, TickStep
<1>10. CASE UNCHANGED vars
  <2>1. UNCHANGED <<world, pc, mode, trial, req, window, ecus, out, rxq, jobs,
                    work, answered>>
    BY <1>10 DEF vars, testerVars, ecuVars
  <2> QED BY <2>1 DEF IInv, TypeInv, QueueInv, Placed, EcuInv, InStep, TimeInv,
                      InTime, RoundInv, Listens, Queued
<1> QED BY <1>1, <1>2, <1>3, <1>4, <1>5, <1>6, <1>7, <1>8, <1>9, <1>10
        DEF Next, TesterStep

\* In every orderly world, the queue, the ECUs, the deadlines and what
\* RoundTrip has gathered stay in step.
THEOREM Inductive ==
  ASSUME Undisturbed PROVE Spec => [](world.orderly => IInv)
<1>1. Init => (world.orderly => IInv)
  BY InitIsFine
<1>2. (world.orderly => IInv) /\ [Next]_vars => (world.orderly => IInv)'
  BY WorldStays, Preserved
<1> QED BY <1>1, <1>2, PTL DEF Spec

\* RoundTrip awaits every ECU that answers a broadcast and returns what each
\* of them said: can_transport.go keeps a deadline for each.
THEOREM NobodyIsMissed == ASSUME Undisturbed PROVE Spec => []NobodyMissed
<1>1. (world.orderly => IInv) => NobodyMissed
  <2>1. SUFFICES ASSUME IInv, pc = "idle"
                 PROVE  \A e \in Ecu :
                   /\ \A i \in 1 .. Len(jobs[e]) : jobs[e][i] # req
                   /\ e \in answered =>
                        \E i \in 1 .. Len(out) :
                          out[i].ecu = e /\ out[i].got.n = req.n
    BY DEF NobodyMissed, Returned
  <2>2. ASSUME NEW e \in Ecu
        PROVE  \A i \in 1 .. Len(jobs[e]) : jobs[e][i] # req
    BY <2>1, IdleIsQuiet
  <2>3. ASSUME NEW e \in answered
        PROVE  \E i \in 1 .. Len(out) : out[i].ecu = e /\ out[i].got.n = req.n
    <3>1. \A i \in 1 .. Len(rxq) : ~Last(req, rxq[i].frame)
      BY <2>1, IdleIsQuiet DEF Foreign, Last, Single, Consecutive, Own
    <3> QED BY <2>1, <2>3, <3>1 DEF IInv, RoundInv
  <2> QED BY <2>2, <2>3
<1> QED BY <1>1, Inductive, PTL

\* What RoundTrip gathers answers its own request: match and answers leave
\* the frames of other identifiers and other requests alone.
THEOREM AnswersAreItsOwn == ASSUME Undisturbed PROVE Spec => []AnswersAreOwn
<1>1. (world.orderly => IInv) => AnswersAreOwn
  BY DEF IInv, RoundInv, AnswersAreOwn
<1> QED BY <1>1, Inductive, PTL

\* Every deadline that is still kept is for an ECU that has something to say:
\* the one that "response pending" asked for is dropped with the answer.
THEOREM NoWaitIsIdle ==
  ASSUME Undisturbed PROVE Spec => [](world.orderly => NoIdleWait)
<1>1. (world.orderly => IInv) => (world.orderly => NoIdleWait)
  <2>1. SUFFICES ASSUME IInv, pc = "receiving", window = 0, rxq = <<>>,
                        \A e \in Ecu : jobs[e] = <<>>
                 PROVE  \A e \in Ecu : ecus[e].deadline = 0
    BY DEF NoIdleWait, Expired
  <2>2. \A e \in Ecu : ~Queued(e)
    BY <2>1 DEF Queued
  <2> QED BY <2>1, <2>2 DEF IInv, TimeInv, InTime
<1> QED BY <1>1, Inductive, PTL

\* The addressing is settled once, and to one in which an ECU has answered,
\* in an orderly world.
THEOREM ModeIsSettledByAnswer ==
  ASSUME Undisturbed, \A w \in Worlds : w.orderly
  PROVE  Spec => ModeSettledByAnswer
<1>1. Init => world \in Worlds
  BY DEF Init
<1>2. world \in Worlds /\ [Next]_vars => (world \in Worlds)'
  BY WorldStays
<1>3. world \in Worlds /\ (world.orderly => IInv) /\ [Next]_vars =>
        [mode' # mode => /\ mode = 0
                         /\ \E e \in answered : world.speaks[e] = mode']_vars
  <2>1. SUFFICES ASSUME IInv, Next, mode' # mode
                 PROVE  /\ mode = 0
                        /\ \E e \in answered : world.speaks[e] = mode'
    BY DEF vars
  <2>2. TakeFrame \/ ReturnAnswers
    BY <2>1 DEF Next, TesterStep, EcuStep, RoundTrip, SkipFrame, Try29Bit,
                ReturnNoResponse, ModeAfterSilence, Cancel, EcuSingle,
                EcuSilent, EcuPending, EcuFirst, EcuConsecutive, EcuGivesUp,
                Done, EcuForeign, Tick, testerVars
  <2>3. pc = "receiving" /\ mode' = trial
    BY <2>1, <2>2 DEF TakeFrame, ReturnAnswers
  <2>4. mode = 0
    BY <2>1, <2>3 DEF IInv, RoundInv
  <2>5. \E e \in answered : TRUE
    <3>1. CASE ReturnAnswers
      <4>1. out \in Seq(Found) /\ out # <<>>
        BY <2>1, <3>1 DEF ReturnAnswers, IInv, TypeInv
      <4>2. 1 \in 1 .. Len(out)
        BY <4>1
      <4> QED BY <2>1, <4>2 DEF IInv, RoundInv
    <3>2. CASE TakeFrame
      <4>1. PICK e, f : /\ Taken(e, f)
                        /\ \/ TakesForeign(e, f) \/ TakesPending(e, f)
                           \/ TakesFirst(e, f) \/ TakesLast(e, f)
        BY <2>1, <3>2, TakeFrameDoes DEF IInv
      <4>2. Last(req, f) /\ e = rxq[1].ecu /\ f = rxq[1].frame
        BY <2>1, <4>1
           DEF Taken, TakesForeign, TakesPending, TakesFirst, TakesLast
      <4>3. 1 \in 1 .. Len(rxq)
        BY <2>1, <4>1, QueueTail DEF IInv, Taken
      <4> QED BY <2>1, <4>2, <4>3 DEF IInv, QueueInv, Placed
    <3> QED BY <2>2, <3>1, <3>2
  <2> QED BY <2>1, <2>3, <2>4, <2>5 DEF IInv, RoundInv
<1> QED BY <1>1, <1>2, <1>3, Inductive, PTL DEF Spec, ModeSettledByAnswer
=============================================================================
