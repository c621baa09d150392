------------------------------- MODULE EcuSim -------------------------------
(***************************************************************************)
(* ecusim/ecusim.go on one bus with can_transport.go: ECUs that serve the  *)
(* requests of testers, as the package's own tests put them together.      *)
(*                                                                         *)
(* A frame sent is queued at once for everybody who looks at it, in one    *)
(* order (module VirtualBus); what an endpoint would skip by its           *)
(* identifier is left out.  Both ends put messages together with a         *)
(* Receiver (module IsoTp).  There is no clock: in a calm world no window  *)
(* or timer ends while an ECU works, in the others each may end any time.  *)
(***************************************************************************)
EXTENDS IsoTp, FiniteSets

CONSTANTS
  Ecu, Tester,
  Everyone,   \* the target of a broadcast
  Worlds      \* the ECUs and testers of a behaviour, see World

Services == {"01", "03", "04", "07", "09", "0A", "10", "22"}

\* What a tester asks for: a service, a PID or identifier, of whom, and the
\* length of the request.
Ask == [svc : Services, id : Nat, to : Ecu \cup {Everyone},
        len : 1 .. FFData + CFData]

World ==
  [asks : SUBSET Ask,
   codes : [Ecu -> Nat],     \* number of codes each ECU has stored
   holds : [Ecu -> SUBSET (Services \X Nat)],
                             \* ECU.PIDs, VIN and DIDs
   pendings : Nat,           \* ECU.PendingReplies
   calm : BOOLEAN,
   stops : SUBSET Ecu,       \* those whose context may end
   calls : [Tester -> Nat]]  \* bound: calls of each tester, 0 if not there

\* In a calm world one tester waits long enough, and no ECU is stopped.
OneTester(w) ==
  w.calm => /\ w.stops = {}
            /\ \A t, u \in Tester : w.calls[t] > 0 /\ w.calls[u] > 0 => t = u

ASSUME BenchAssumption ==
  /\ Worlds \subseteq World /\ \A w \in Worlds : OneTester(w)
  /\ IsFiniteSet(Ecu) /\ Everyone \notin Ecu /\ Ecu \cap Tester = {}

VARIABLES
  world,    \* never changes
  queue,    \* frames at each endpoint
  stored,   \* ECU.Stored and Pending: number of codes
  rx,       \* the Receiver of each Serve
  job,      \* what each Serve is doing
  call,     \* the round trip of each tester
  gave      \* history: what each ECU computed as answers

ecuVars == <<stored, rx, job, gave>>
vars == <<world, queue, ecuVars, call>>

\* pc: receive, reply, waitFC, block, stopped.  left: pending messages to
\* send; frames, next: the answer; bs, i: the block and the frames sent in it.
Listening == [pc |-> "receive", left |-> 0, frames |-> <<>>, next |-> 1,
              bs |-> 0, i |-> 0]

\* pc: idle, sendFC, receiving.  out: the complete buffers that answer req,
\* in the order in which they came.
NoCall == [pc |-> "idle", n |-> 0, req |-> NoMessage, out |-> <<>>,
           rx |-> [e \in Ecu |-> NewReceiver], result |-> "none"]

Init ==
  /\ world \in Worlds
  /\ queue = [x \in Ecu \cup Tester |-> <<>>]
  /\ stored = world.codes
  /\ rx = [e \in Ecu |-> NewReceiver]
  /\ job = [e \in Ecu |-> Listening]
  /\ call = [t \in Tester |-> NoCall]
  /\ gave = {}

\* The queues after a tester's frame, and after one of ECU e.
ToEcus(q, to, f) ==
  [x \in DOMAIN q |-> IF x \in Ecu /\ to \in {x, Everyone}
                      THEN Append(q[x], [functional |-> to = Everyone,
                                         frame |-> f])
                      ELSE q[x]]
ToTesters(q, e, f) ==
  [x \in DOMAIN q |-> IF x \in Tester /\ world.calls[x] > 0
                      THEN Append(q[x], [ecu |-> e, frame |-> f]) ELSE q[x]]
Rest(x) == [queue EXCEPT ![x] = Tail(@)]

-----------------------------------------------------------------------------
(* ECU.answer                                                              *)

Silence == [kind |-> "silence"]
Reply(e, req, kind, list, len) ==
  [kind |-> kind, ecu |-> e, to |-> req, list |-> list, len |-> len]

\* Which list of codes, and how many of them were in it.
DTCResponse(e, req, list, n) ==
  Reply(e, req, "positive", <<list, n>>, 2 + 2 * n)

MutNegative(e, req, functional) ==    \* mutant: also when it was broadcast
  Reply(e, req, "negative", <<>>, 3)
Negative(e, req, functional) ==
  IF functional THEN Silence ELSE Reply(e, req, "negative", <<>>, 3)

\* The length of an answer that carries data.
Size(svc) == CASE svc = "01" -> 4 [] svc = "09" -> 20 [] OTHER -> 10

AnswerTo(e, req, functional) ==
  CASE req.svc = "03" -> DTCResponse(e, req, "stored", stored[e])
    [] req.svc = "07" -> DTCResponse(e, req, "pending", stored[e])
    [] req.svc = "0A" -> DTCResponse(e, req, "permanent", world.codes[e])
    [] req.svc = "04" -> Reply(e, req, "positive", <<>>, 1)
    [] OTHER ->
         IF <<req.svc, req.id>> \in world.holds[e]
         THEN Reply(e, req, "positive", <<req.svc, req.id>>, Size(req.svc))
         ELSE IF req.svc \in {"01", "09"} THEN Silence
         ELSE Negative(e, req, functional)

-----------------------------------------------------------------------------
(* ECU.Serve                                                               *)

\* A request, complete: its answer is computed and codes are cleared under
\* e.mu, then it is sent.
Answering(e, req, functional) ==
  LET a == AnswerTo(e, req, functional)
  IN /\ stored' = IF req.svc = "04" THEN [stored EXCEPT ![e] = 0] ELSE stored
     /\ IF a = Silence THEN UNCHANGED <<job, gave>>
        ELSE /\ gave' = gave \cup {a}
             /\ job' = [job EXCEPT ![e] =
                  [Listening EXCEPT !.pc = "reply", !.frames = Frames(a),
                     !.left = IF req.svc = "22" THEN world.pendings ELSE 0]]

\* A broadcast request is a single frame; the Receiver does not see it.
ServeFunctional(e) ==
  /\ job[e].pc = "receive" /\ queue[e] # <<>>
  /\ Head(queue[e]).functional
  /\ queue' = Rest(e)
  /\ Answering(e, Head(queue[e]).frame.msg, TRUE)
  /\ UNCHANGED <<world, rx, call>>

ServePhysical(e) ==
  /\ job[e].pc = "receive" /\ queue[e] # <<>>
  /\ ~Head(queue[e]).functional
  /\ LET fed == Feed(rx[e], Head(queue[e]).frame)
     IN /\ rx' = [rx EXCEPT ![e] = fed.r]
        /\ queue' = IF fed.fc = NoFrame THEN Rest(e)
                    ELSE ToTesters(Rest(e), e, fed.fc)
        /\ IF fed.msg = NoMessage THEN UNCHANGED <<stored, job, gave>>
           ELSE Answering(e, fed.msg.parts[1].msg, FALSE)
  /\ UNCHANGED <<world, call>>

SendPending(e) ==
  /\ job[e].pc = "reply" /\ job[e].left > 0
  /\ job' = [job EXCEPT ![e].left = @ - 1]
  /\ LET own == job[e].frames[1].msg
     IN queue' = ToTesters(queue, e,
                           SingleFrame([own EXCEPT !.kind = "pending"], 3))
  /\ UNCHANGED <<world, stored, rx, gave, call>>

\* The first frame of the answer, or all of it.
SendAnswer(e) ==
  /\ job[e].pc = "reply" /\ job[e].left = 0
  /\ queue' = ToTesters(queue, e, job[e].frames[1])
  /\ job' = [job EXCEPT ![e] = IF Len(@.frames) = 1 THEN Listening
                               ELSE [@ EXCEPT !.pc = "waitFC", !.next = 2]]
  /\ UNCHANGED <<world, stored, rx, gave, call>>

\* isotp.Conn waits for a flow control frame and takes whatever is queued.
ReadFlowControl(e) ==
  /\ job[e].pc = "waitFC" /\ queue[e] # <<>>
  /\ queue' = Rest(e)
  /\ LET h == Head(queue[e])
     IN IF h.functional \/ h.frame.pci # "FC" THEN UNCHANGED job
        ELSE job' = [job EXCEPT ![e].pc = "block", ![e].i = 0,
                                ![e].bs = h.frame.bs]
  /\ UNCHANGED <<world, stored, rx, gave, call>>

AfterFrame(j) ==
  IF j.next = Len(j.frames) THEN Listening
  ELSE IF j.i = j.bs - 1 THEN [j EXCEPT !.pc = "waitFC", !.next = @ + 1]
  ELSE [j EXCEPT !.next = @ + 1, !.i = @ + 1]

SendConsecutive(e) ==
  /\ job[e].pc = "block"
  /\ queue' = ToTesters(queue, e, job[e].frames[job[e].next])
  /\ job' = [job EXCEPT ![e] = AfterFrame(@)]
  /\ UNCHANGED <<world, stored, rx, gave, call>>

\* The tester stopped listening; keep serving.
MutAfterTimeout(e) == [Listening EXCEPT !.pc = "returned"]    \* mutant
AfterTimeout(e) == Listening
SendTimesOut(e) ==
  /\ ~world.calm
  /\ job[e].pc = "waitFC" /\ queue[e] = <<>>
  /\ job' = [job EXCEPT ![e] = AfterTimeout(e)]
  /\ UNCHANGED <<world, queue, stored, rx, gave, call>>

\* ctx is done: every wait and every Send ends.
Stop(e) ==
  /\ e \in world.stops
  /\ job[e].pc # "stopped"
  /\ job' = [job EXCEPT ![e] = [Listening EXCEPT !.pc = "stopped"]]
  /\ UNCHANGED <<world, queue, stored, rx, gave, call>>

-----------------------------------------------------------------------------
(* CANTransport.RoundTrip with the addressing known                        *)

\* A request of more than 7 bytes goes through isotp.Conn.Send; one that is
\* broadcast is refused.
Call(t, ask) ==
  /\ call[t].pc = "idle" /\ call[t].n < world.calls[t]
  /\ LET m == [by |-> t, n |-> call[t].n + 1, svc |-> ask.svc,
               id |-> ask.id, to |-> ask.to, len |-> ask.len]
         new == [NoCall EXCEPT !.n = m.n, !.req = m]
     IN IF m.len > SFMax /\ m.to = Everyone
        THEN /\ call' = [call EXCEPT ![t] = [new EXCEPT !.result = "error"]]
             /\ UNCHANGED queue
        ELSE /\ call' = [call EXCEPT ![t] =
                  [new EXCEPT !.pc = IF m.len > SFMax THEN "sendFC"
                                     ELSE "receiving"]]
             /\ queue' = ToEcus(queue, m.to, Frames(m)[1])
  /\ UNCHANGED <<world, ecuVars>>

\* The flow control frame of the ECU; other frames are dropped.
TakeFlowControl(t) ==
  /\ call[t].pc = "sendFC" /\ queue[t] # <<>>
  /\ LET m == call[t].req
         h == Head(queue[t])
     IN IF h.ecu # m.to \/ h.frame.pci # "FC"
        THEN queue' = Rest(t) /\ UNCHANGED call
        ELSE /\ queue' = ToEcus(Rest(t), m.to, Frames(m)[2])
             /\ call' = [call EXCEPT ![t].pc = "receiving"]
  /\ UNCHANGED <<world, ecuVars>>

Answers(req, x) ==
  /\ x.to.svc = req.svc
  /\ req.svc \in {"01", "09", "22"} /\ x.kind = "positive" =>
       x.to.id = req.id

TakeFrame(t) ==
  /\ call[t].pc = "receiving" /\ queue[t] # <<>>
  /\ LET c == call[t]
         e == Head(queue[t]).ecu
         fed == Feed(c.rx[e], Head(queue[t]).frame)
         mine == /\ c.req.to \in {e, Everyone}
                 /\ fed.msg # NoMessage
                 /\ Answers(c.req, fed.msg.parts[1].msg)
                 /\ fed.msg.parts[1].msg.kind # "pending"
     IN IF c.req.to \notin {e, Everyone}
        THEN queue' = Rest(t) /\ UNCHANGED call
        ELSE /\ queue' = IF fed.fc = NoFrame THEN Rest(t)
                         ELSE ToEcus(Rest(t), e, fed.fc)
             /\ call' = [call EXCEPT ![t] =
                  CASE fed.err # "nil" -> [c EXCEPT !.pc = "idle",
                                             !.result = "error", !.out = <<>>]
                    [] mine -> [c EXCEPT !.rx[e] = fed.r,
                                  !.out = Append(@, fed.msg),
                                  !.pc = IF c.req.to = e THEN "idle" ELSE @,
                                  !.result = IF c.req.to = e THEN "ok" ELSE @]
                    [] OTHER -> [c EXCEPT !.rx[e] = fed.r]]
  /\ UNCHANGED <<world, ecuVars>>

\* Every ECU has said what it has to say.
Quiet == \A e \in Ecu : queue[e] = <<>> /\ job[e].pc = "receive"

\* The deadlines are over: what was gathered is returned.
Return(t) ==
  /\ call[t].pc \in {"receiving", "sendFC"} /\ queue[t] = <<>>
  /\ world.calm => Quiet
  /\ call' = [call EXCEPT ![t].pc = "idle",
       ![t].result = IF call[t].pc = "sendFC" THEN "error"
                     ELSE IF call[t].out = <<>> THEN "noResponse" ELSE "ok"]
  /\ UNCHANGED <<world, queue, ecuVars>>

-----------------------------------------------------------------------------
ServeStep(e) == \/ ServeFunctional(e) \/ ServePhysical(e)
                \/ SendPending(e) \/ SendAnswer(e)
                \/ ReadFlowControl(e) \/ SendConsecutive(e) \/ SendTimesOut(e)

TripStep(t) == TakeFlowControl(t) \/ TakeFrame(t) \/ Return(t)

Next == \/ \E e \in Ecu : ServeStep(e) \/ Stop(e)
        \/ \E t \in Tester : TripStep(t) \/ \E a \in world.asks :
                                                     Call(t, a)

Spec == /\ Init /\ [][Next]_vars
        /\ \A e \in Ecu : WF_vars(ServeStep(e))
        /\ \A t \in Tester : WF_vars(TripStep(t))

-----------------------------------------------------------------------------
(* Properties                                                              *)

Bytes(x) == x.parts[1].msg
Whole(x) == \E m \in gave : x = [len |-> m.len, parts |-> Split(m)]

\* Who answers a request: an ECU that has what it asks for, or that refuses
\* it, which it only does if it was asked alone and not for a PID.
Answerers(req) ==
  {e \in Ecu : /\ req.to \in {e, Everyone}
               /\ \/ req.svc \in {"03", "04", "07", "0A"}
                  \/ <<req.svc, req.id>> \in world.holds[e]
                  \/ req.to = e /\ req.svc \in {"10", "22"}}

\* With one tester that waits long enough each call returns the answer of
\* every ECU that gives one, whole and not a second time, and nothing of
\* another call: although the ECUs' frames mix, each waits for its own flow
\* control, asks for time, or has a long request still to take.
CallsAnswered ==
  \A t \in Tester :
    world.calm /\ call[t].pc = "idle" /\ call[t].n > 0 =>
      LET c == call[t]
      IN \/ c.req.len > SFMax /\ c.req.to = Everyone /\ c.result = "error"
         \/ /\ \A i \in 1 .. Len(c.out) : /\ Whole(c.out[i])
                                           /\ Bytes(c.out[i]).to = c.req
            /\ {Bytes(c.out[i]).ecu : i \in 1 .. Len(c.out)} = Answerers(c.req)
            /\ Len(c.out) = Cardinality(Answerers(c.req))
            /\ c.result = (IF c.out = <<>> THEN "noResponse" ELSE "ok")

\* Whatever was given up, left behind in a queue, or taken from it by the
\* wrong reader: what a tester gets is one answer of one ECU.
NothingMixed ==
  \A t \in Tester : \A i \in 1 .. Len(call[t].out) : Whole(call[t].out[i])

\* "Other send errors mean the tester stopped listening; keep serving": an
\* ECU comes back to its next request until it is stopped, and it and a tester
\* never wait for each other.
KeepsServing ==
  \A e \in Ecu : job[e].pc # "receive" ~> job[e].pc \in {"receive", "stopped"}
=============================================================================
