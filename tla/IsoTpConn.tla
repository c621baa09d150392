----------------------------- MODULE IsoTpConn ------------------------------
(***************************************************************************)
(* isotp/conn.go: two Conns that face each other on an ordered bus.        *)
(*                                                                         *)
(* Each endpoint runs one call at a time, Send or Receive ("A Conn is not  *)
(* safe for concurrent use").  A frame sent goes to the end of the peer's  *)
(* inbox, whether or not the peer is in a call (module VirtualBus shows    *)
(* that the bus gives this).  Timers and contexts may end a wait at any    *)
(* moment, which covers every duration of every delay; STmin pauses are    *)
(* part of that.  A peer not built from this code is allowed for by frames *)
(* that come out of nowhere.                                               *)
(***************************************************************************)
EXTENDS IsoTp, FiniteSets

CONSTANTS Node,           \* the two endpoints
          Senders,        \* the endpoints that may call Send
          Lengths,        \* lengths of the messages a program may send
          MaxWait,        \* Options.MaxWaitFrames
          Strays,         \* frames a foreign peer may send
          Calm,           \* of BOOLEAN: with TRUE, behaviours in which no
                          \* context ends, no timer expires, no frame is lost
          MaxMessages,    \* bound: the messages sent in a behaviour,
          MaxCalm,        \* and in a calm one
          MaxStrays,      \* bound: the frames out of nowhere
          MaxFaults       \* bound: the frames lost or received twice

ASSUME NodeAssumption == \E x \in Node : \E y \in Node \ {x} : Node = {x, y}
ASSUME LengthsAssumption == Lengths \subseteq 1 .. 4095
ASSUME MaxWaitAssumption == MaxWait \in Nat \ {0}
ASSUME BoundsAssumption ==
  {MaxMessages, MaxCalm, MaxStrays, MaxFaults} \subseteq Nat
ASSUME FlagsAssumption == Senders \subseteq Node /\ Calm \subseteq BOOLEAN

VARIABLES
  calm,     \* whether this behaviour is calm; it never changes
  pc,       \* idle, waitFC and block (in Send), receive
  job,      \* Send: message, offset, sequence number, block size, i, waits
  rx,       \* Receive: its Receiver
  armed,    \* Receive: the N_Cr deadline is set
  inbox,    \* frames on their way to or queued at an endpoint
  sent,     \* history: the messages each endpoint has begun to send
  got,      \* history: the messages each endpoint's Receive returned
  strays,   \* number of frames that came out of nowhere
  faults    \* number of frames lost or received twice

vars == <<calm, pc, job, rx, armed, inbox, sent, got, strays, faults>>

Peer(n) == CHOOSE m \in Node : m # n

NoJob == [msg |-> NoMessage, off |-> 0, seq |-> 0, bs |-> 0, i |-> 0,
          waits |-> 0]

Init ==
  /\ calm \in Calm
  /\ pc = [n \in Node |-> "idle"]
  /\ job = [n \in Node |-> NoJob]
  /\ rx = [n \in Node |-> NewReceiver]
  /\ armed = [n \in Node |-> FALSE]
  /\ inbox = [n \in Node |-> <<>>]
  /\ sent = [n \in Node |-> <<>>]
  /\ got = [n \in Node |-> <<>>]
  /\ strays = 0
  /\ faults = 0

\* The call of n ends: its local variables are gone.
Return(n) ==
  /\ pc' = [pc EXCEPT ![n] = "idle"]
  /\ job' = [job EXCEPT ![n] = NoJob]
  /\ rx' = [rx EXCEPT ![n] = NewReceiver]
  /\ armed' = [armed EXCEPT ![n] = FALSE]

Transmit(n, f) == inbox' = [inbox EXCEPT ![Peer(n)] = Append(@, f)]

-----------------------------------------------------------------------------
(* Send                                                                    *)

Messages == IF calm THEN MaxCalm ELSE MaxMessages

MaySend(n) == /\ pc[n] = "idle"
              /\ n \in Senders
              /\ Len(sent[n]) + Len(sent[Peer(n)]) < Messages

NewMessage(n, len) == [from |-> n, id |-> Len(sent[n]) + 1, len |-> len]

SendSingle(n, len) ==
  /\ MaySend(n)
  /\ len <= SFMax
  /\ LET m == NewMessage(n, len)
     IN /\ Transmit(n, SingleFrame(m, len))
        /\ sent' = [sent EXCEPT ![n] = Append(@, m)]
  /\ UNCHANGED <<calm, pc, job, rx, armed, got, strays, faults>>

SendFirst(n, len) ==
  /\ MaySend(n)
  /\ len > SFMax
  /\ LET m == NewMessage(n, len)
     IN /\ Transmit(n, FirstFrame(m, len, FALSE))
        /\ sent' = [sent EXCEPT ![n] = Append(@, m)]
        /\ job' = [job EXCEPT ![n] = [msg |-> m, off |-> FFData, seq |-> 1,
                                      bs |-> 0, i |-> 0, waits |-> 0]]
  /\ pc' = [pc EXCEPT ![n] = "waitFC"]
  /\ UNCHANGED <<calm, rx, armed, got, strays, faults>>

TooManyWaits(n) == job[n].waits + 1 > MaxWait

\* waitFlowControl reads one frame.  Anything but a flow control frame is
\* dropped, a message the peer has begun to send included.
ReadFlowControl(n) ==
  /\ pc[n] = "waitFC"
  /\ inbox[n] # <<>>
  /\ inbox' = [inbox EXCEPT ![n] = Tail(@)]
  /\ LET f == Head(inbox[n])
     IN \/ /\ f.pci # "FC"
           /\ UNCHANGED <<pc, job, rx, armed>>
        \/ /\ f.pci = "FC"
           /\ f.status = "continue"
           /\ job' = [job EXCEPT ![n].bs = f.bs, ![n].i = 0, ![n].waits = 0]
           /\ pc' = [pc EXCEPT ![n] = "block"]
           /\ UNCHANGED <<rx, armed>>
        \/ /\ f.pci = "FC"
           /\ f.status = "wait"
           /\ ~TooManyWaits(n)
           /\ job' = [job EXCEPT ![n].waits = @ + 1]
           /\ UNCHANGED <<pc, rx, armed>>
        \/ /\ f.pci = "FC"
           /\ \/ f.status = "wait" /\ TooManyWaits(n)
              \/ f.status \notin {"continue", "wait"}
           /\ Return(n)
  /\ UNCHANGED <<calm, sent, got, strays, faults>>

\* The sequence number that follows s.
MutNextSeq(s) == s + 1           \* mutant: the nibble does not wrap
NextSeq(s) == (s + 1) % SeqNumbers

\* The block is used up after frame i (counted from 0) of a block of size bs.
MutBlockDone(i, bs) == bs # 0 /\ i = bs      \* mutant: one frame too many
BlockDone(i, bs) == bs # 0 /\ i + 1 = bs

SendConsecutive(n) ==
  /\ pc[n] = "block"
  /\ LET j == job[n]
         end == Lesser(j.off + CFData, j.msg.len)
     IN /\ Transmit(n, ConsecutiveFrame(j.msg, j.off, j.seq))
        /\ \/ /\ end = j.msg.len
              /\ Return(n)
           \/ /\ end < j.msg.len
              /\ job' = [job EXCEPT ![n].off = end, ![n].seq = NextSeq(@),
                                    ![n].i = @ + 1]
              /\ pc' = [pc EXCEPT ![n] = IF BlockDone(j.i, j.bs)
                                         THEN "waitFC" ELSE "block"]
              /\ UNCHANGED <<rx, armed>>
  /\ UNCHANGED <<calm, sent, got, strays, faults>>

-----------------------------------------------------------------------------
(* Receive                                                                 *)

ReceiveCall(n) ==
  /\ pc[n] = "idle"
  /\ pc' = [pc EXCEPT ![n] = "receive"]
  /\ rx' = [rx EXCEPT ![n] = NewReceiver]
  /\ armed' = [armed EXCEPT ![n] = FALSE]
  /\ UNCHANGED <<calm, job, inbox, sent, got, strays, faults>>

\* Whether the deadline is set once frame f was fed.
ArmAfter(r, f) == r.active

\* One frame through Feed.  The flow control frame goes out before the error
\* or the message is looked at; every other frame, an ignored one included,
\* sets the deadline anew while a transfer is active.
ReceiveFrame(n) ==
  /\ pc[n] = "receive"
  /\ inbox[n] # <<>>
  /\ LET f == Head(inbox[n])
         fed == Feed(rx[n], f)
         rest == [inbox EXCEPT ![n] = Tail(@)]
     IN /\ inbox' = IF fed.fc = NoFrame THEN rest
                    ELSE [rest EXCEPT ![Peer(n)] = Append(@, fed.fc)]
        /\ \/ /\ fed.err = "nil"
              /\ fed.msg = NoMessage
              /\ rx' = [rx EXCEPT ![n] = fed.r]
              /\ armed' = [armed EXCEPT ![n] = ArmAfter(fed.r, f)]
              /\ UNCHANGED <<pc, job, got>>
           \/ /\ fed.err = "nil"
              /\ fed.msg # NoMessage
              /\ got' = [got EXCEPT ![n] = Append(@, fed.msg)]
              /\ Return(n)
           \/ /\ fed.err # "nil"
              /\ Return(n)
              /\ UNCHANGED got
  /\ UNCHANGED <<calm, sent, strays, faults>>

\* The context has ended when the flow control frame is to be sent.
ReceiveCannotAnswer(n) ==
  /\ ~calm
  /\ pc[n] = "receive"
  /\ inbox[n] # <<>>
  /\ Feed(rx[n], Head(inbox[n])).fc # NoFrame
  /\ inbox' = [inbox EXCEPT ![n] = Tail(@)]
  /\ Return(n)
  /\ UNCHANGED <<calm, sent, got, strays, faults>>

-----------------------------------------------------------------------------
(* Timers, contexts and foreign frames                                     *)

\* mutant: only the first flow control frame is waited for with a limit
MutNBsArmed(n) == pc[n] = "waitFC" /\ job[n].off = FFData
NBsArmed(n) == pc[n] = "waitFC"

TimeoutNBs(n) ==
  /\ ~calm
  /\ NBsArmed(n)
  /\ Return(n)
  /\ UNCHANGED <<calm, inbox, sent, got, strays, faults>>

TimeoutNCr(n) ==
  /\ ~calm
  /\ pc[n] = "receive"
  /\ armed[n]
  /\ Return(n)
  /\ UNCHANGED <<calm, inbox, sent, got, strays, faults>>

Cancel(n) ==
  /\ ~calm
  /\ pc[n] # "idle"
  /\ Return(n)
  /\ UNCHANGED <<calm, inbox, sent, got, strays, faults>>

Stray(n, f) ==
  /\ ~calm
  /\ strays < MaxStrays
  /\ strays' = strays + 1
  /\ inbox' = [inbox EXCEPT ![n] = Append(@, f)]
  /\ UNCHANGED <<calm, pc, job, rx, armed, sent, got, faults>>

\* A frame a full receive buffer dropped, or one the controller got twice
\* because its end was disturbed on the wire.
Fault(n) ==
  /\ ~calm
  /\ faults < MaxFaults
  /\ faults' = faults + 1
  /\ inbox[n] # <<>>
  /\ \/ inbox' = [inbox EXCEPT ![n] = Tail(@)]
     \/ inbox' = [inbox EXCEPT ![n] = <<Head(@)>> \o @]
  /\ UNCHANGED <<calm, pc, job, rx, armed, sent, got, strays>>

-----------------------------------------------------------------------------
SendStep(n) == ReadFlowControl(n) \/ SendConsecutive(n)
ReceiveStep(n) == ReceiveFrame(n) \/ ReceiveCannotAnswer(n)

Next == \E n \in Node :
  \/ \E len \in Lengths : SendSingle(n, len) \/ SendFirst(n, len)
  \/ ReceiveCall(n)
  \/ SendStep(n) \/ ReceiveStep(n)
  \/ TimeoutNBs(n) \/ TimeoutNCr(n) \/ Cancel(n)
  \/ Fault(n) \/ \E f \in Strays : Stray(n, f)

Spec == Init /\ [][Next]_vars

\* A call in progress makes its next step, and an armed timer expires if
\* nothing else ends the wait.  No call is ever obliged to begin and no
\* context to end.
Fairness == \A n \in Node :
  /\ WF_vars(SendStep(n))
  /\ WF_vars(ReceiveFrame(n))
  /\ WF_vars(TimeoutNBs(n))
  /\ WF_vars(TimeoutNCr(n))

FairSpec == Spec /\ Fairness

\* Programs that call Receive again and again.
Listening == \A n \in Node : WF_vars(ReceiveCall(n))

-----------------------------------------------------------------------------
(* Properties                                                              *)

Message == [from : Node, id : Nat, len : Nat]
PartSet == [msg : Message \cup {NoMessage}, off : Nat, n : Nat]

\* Types, and the sequence numbers stay within the nibble.
TypeOK ==
  /\ pc \in [Node -> {"idle", "waitFC", "block", "receive"}]
  /\ job \in [Node -> [msg : Message \cup {NoMessage}, off : Nat,
                       seq : 0 .. SeqNumbers - 1, bs : Nat, i : Nat,
                       waits : Nat]]
  /\ rx \in [Node -> [active : BOOLEAN, want : Nat, got : Nat,
                      parts : Seq(PartSet), seq : 0 .. SeqNumbers - 1,
                      inBlock : Nat]]
  /\ armed \in [Node -> BOOLEAN]
  /\ sent \in [Node -> Seq(Message)]
  /\ strays \in Nat /\ faults \in Nat

\* A message Receive returns is one the peer sent, with every byte in its
\* place: no hole, no repetition, nothing of another message or of padding.
Integrity ==
  \A n \in Node : \A i \in 1 .. Len(got[n]) :
    \E k \in 1 .. Len(sent[Peer(n)]) :
      LET m == sent[Peer(n)][k]
      IN got[n][i] = [len |-> m.len, parts |-> Split(m)]

\* "the number of consecutive frames the peer may send before it must wait
\* for another flow control frame": the frames of a block that were received
\* and those under way are never more than BlockSize, as long as no Send is
\* given up and leaves a flow control frame to the next.
BlockSizeRespected ==
  calm => \A n \in Node : rx[n].active /\ BlockSize > 0 =>
    rx[n].inBlock + Cardinality({k \in 1 .. Len(inbox[n]) :
                                   inbox[n][k].pci = "CF"}) <= BlockSize

\* A Send comes to an end by its timers, whatever the peer does or fails to
\* do, and a transfer once begun is completed or given up.
CallsEnd ==
  /\ \A n \in Node :
       ~calm /\ pc[n] \in {"waitFC", "block"} ~> pc[n] = "idle"
  /\ \A n \in Node : ~calm /\ rx[n].active ~> ~rx[n].active

\* With nothing lost, nobody giving up and somebody listening every message
\* arrives: the block counters of the two sides agree, so that neither waits
\* for the other.
AllDelivered ==
  Listening =>
    \A n \in Node : \A k \in 1 .. MaxCalm :
      calm /\ Len(sent[n]) >= k ~> Len(got[Peer(n)]) >= k

-----------------------------------------------------------------------------
(* What the endpoints implement                                            *)

\* A reassembled buffer x as the message of s it is, or as garbage.
Whole(s, x) ==
  LET same == {k \in 1 .. Len(s) :
                 x = [len |-> s[k].len, parts |-> Split(s[k])]}
  IN IF same = {} THEN NoMessage ELSE s[CHOOSE k \in same : TRUE]

Delivered == [n \in Node |-> [i \in 1 .. Len(got[n]) |->
                                Whole(sent[Peer(n)], got[n][i])]]

Channel == INSTANCE MessageChannel
  WITH End <- Node, Other <- Peer, submitted <- sent,
       Msg <- [from : Node, id : 1 .. MaxMessages + MaxCalm, len : Lengths],
       delivered <- Delivered

\* What Receive returns is what the peer sent, in order and at most once.
ImplementsMessageChannel == Channel!Spec
=============================================================================
