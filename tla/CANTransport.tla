---------------------------- MODULE CANTransport ----------------------------
(***************************************************************************)
(* can_transport.go: a tester's requests to the ECUs of a vehicle.         *)
(*                                                                         *)
(* The tester broadcasts a request, or directs it to one ECU, and gathers  *)
(* the answers until its deadlines have passed.  Each answer is reassembled*)
(* by a Receiver of its ECU (module IsoTp).  Requests fit a single frame;  *)
(* a longer, directed one is sent by isotp.Conn (module IsoTpConn).        *)
(*                                                                         *)
(* Time.  A deadline is kept as the ticks left until it: 0 stands for a    *)
(* deadline that has passed and for the zero time, which no longer differ  *)
(* once the latest of several deadlines is what counts.  The tester takes  *)
(* no time over a frame, so no tick passes while it can make a step.       *)
(*                                                                         *)
(* The ECUs and the other tester are outside src/: an ECU works on its     *)
(* requests one by one and answers with a single frame, with a long        *)
(* message, or with "response pending" first.                              *)
(***************************************************************************)
EXTENDS IsoTp, FiniteSets

CONSTANTS
  Ecu,            \* the ECUs of the vehicle
  Everyone,       \* the target of a broadcast
  Worlds,         \* transports and their surroundings, see World
  Window,         \* CANOptions.Timeout, in ticks
  NCr,            \* the timeout for a consecutive frame
  PendingTimeout  \* responsePendingTimeout

Request == [sid : Nat, pids : SUBSET Nat]

\* A transport, the vehicle, and what happens around it.  An orderly world
\* keeps the times and the formats of ISO 15765-4, and no context ends in it.
World ==
  [addressing : {0, 11, 29},       \* CANOptions.Addressing, 0 for auto
   target : Ecu \cup {Everyone},   \* CANOptions.ECU
   speaks : [Ecu -> {11, 29}],     \* the addressing of each ECU
   requests : SUBSET Request,      \* what a program asks for
   foreign : SUBSET [sid : Nat, pid : Nat],
                                   \* answers ECUs give to another tester
   orderly : BOOLEAN,
   trips : Nat,     \* bound: requests in a behaviour
   pending : BOOLEAN,  \* ECUs may ask for more time, as often as they like
   others : Nat]    \* bound: frames for others and malformed frames

ASSUME WorldsAssumption == Worlds \subseteq World
ASSUME EveryoneAssumption == Everyone \notin Ecu
ASSUME TimesAssumption ==
  {Window, NCr, PendingTimeout} \subseteq Nat \ {0}

VARIABLES
  world,     \* the world this behaviour is in; it never changes
  pc,        \* RoundTrip: idle, receiving
  mode,      \* CANTransport.mode
  trial,     \* addressing of the request under way
  req,       \* number of the last request, and what it asks
  window,    \* ticks left of the window for answers
  ecus,      \* the local map: Receiver and deadline of each ECU
  out,       \* the responses gathered
  result,    \* of the last RoundTrip: none, ok, noResponse, error, ctx
  rxq,       \* frames queued at the tester's endpoint
  jobs,      \* requests each ECU has not finished with
  work,      \* what an ECU does about the first of them
  answered,  \* history: ECUs that have sent their answer to this request
  foreign    \* number of frames for others and malformed frames

testerVars == <<pc, mode, trial, req, window, ecus, out, result>>
ecuVars    == <<jobs, work, answered, foreign>>
vars       == <<world, testerVars, rxq, ecuVars>>

NoEcus == [e \in Ecu |-> [rx |-> NewReceiver, deadline |-> 0]]

\* st: thinking, waitFC (first frame sent), sending; pend: "response pending"
\* was sent; due: ticks in which the next step is to happen; said: the answer
\* whose first frame was sent.
EcuIdle == [st |-> "thinking", pend |-> FALSE, due |-> 0, said |-> NoMessage]
P2 == Window - 1                 \* an ECU answers before the window ends,
P2Star == PendingTimeout - 1     \* and in time after "response pending"
CFGap == NCr - 1
NBs == NCr

Init ==
  /\ world \in Worlds
  /\ pc = "idle" /\ mode = world.addressing /\ trial = 0 /\ window = 0
  /\ req = [n |-> 0, what |-> [sid |-> 0, pids |-> {}]]
  /\ ecus = NoEcus /\ out = <<>> /\ result = "none" /\ rxq = <<>>
  /\ jobs = [e \in Ecu |-> <<>>] /\ work = [e \in Ecu |-> EcuIdle]
  /\ answered = {} /\ foreign = 0

-----------------------------------------------------------------------------
(* RoundTrip                                                               *)

\* answers: whether a response may be the answer to a request.
MutAnswers(r, x) == x.sid = r.sid    \* mutant: parameters are not compared
Answers(r, x) ==
  /\ x.sid = r.sid
  /\ x.kind \in {"negative", "pending"} \/ r.pids = {} \/ x.pid \in r.pids

Listens(e, m) == world.speaks[e] = m /\ world.target \in {e, Everyone}

\* A request on the bus: the ECUs it is for queue it; an idle one gets to
\* work.  The tester's window opens and its map of ECUs is empty.
SendRequest(r, m) ==
  /\ trial' = m
  /\ jobs' = [e \in Ecu |-> IF Listens(e, m) THEN Append(jobs[e], r)
                            ELSE jobs[e]]
  /\ work' = [e \in Ecu |-> IF Listens(e, m) /\ jobs[e] = <<>>
                            THEN [EcuIdle EXCEPT !.due = P2] ELSE work[e]]
  /\ window' = Window
  /\ ecus' = NoEcus
  /\ out' = <<>>
  /\ answered' = {}

RoundTrip(what) ==
  /\ pc = "idle"
  /\ req.n < world.trips
  /\ LET r == [n |-> req.n + 1, what |-> what]
     IN req' = r /\ SendRequest(r, IF mode = 0 THEN 11 ELSE mode)
  /\ pc' = "receiving"
  /\ result' = "none"
  /\ UNCHANGED <<world, mode, rxq, foreign>>

\* The message a complete buffer holds, by its first bytes.
Content(msg) == msg.parts[1].msg

\* An answer to the request that asks for more time, and until when it may.
IsPending(msg) == /\ msg # NoMessage
                  /\ Answers(req.what, Content(msg))
                  /\ Content(msg).kind = "pending"
PendingDeadline == PendingTimeout

\* The deadline of an ECU after one of its frames.
MutDeadlineAfter(fed, old) ==        \* mutant: an old deadline is kept
  IF fed.r.active THEN NCr
  ELSE IF IsPending(fed.msg) THEN PendingDeadline ELSE old
DeadlineAfter(fed, old) ==
  IF fed.r.active THEN NCr
  ELSE IF IsPending(fed.msg) THEN PendingDeadline ELSE 0

\* A frame of an identifier or a frame format that match does not accept.
SkipFrame ==
  /\ pc = "receiving"
  /\ rxq # <<>>
  /\ ~Listens(Head(rxq).ecu, trial)
  /\ rxq' = Tail(rxq)
  /\ UNCHANGED <<world, testerVars, ecuVars>>

\* The flow control frame for e goes out before anything else is done.
Answer(e, fc) ==
  work' = IF fc # NoFrame /\ fc.status = "continue" /\ work[e].st = "waitFC"
          THEN [work EXCEPT ![e].st = "sending", ![e].due = CFGap]
          ELSE work

TakeFrame ==
  /\ pc = "receiving"
  /\ rxq # <<>>
  /\ rxq' = Tail(rxq)
  /\ LET e == Head(rxq).ecu
         fed == Feed(ecus[e].rx, Head(rxq).frame)
         mine == fed.msg # NoMessage /\ Answers(req.what, Content(fed.msg))
         final == mine /\ Content(fed.msg).kind # "pending"
     IN /\ Listens(e, trial)
        /\ Answer(e, fed.fc)
        /\ \/ /\ fed.err # "nil"
              /\ pc' = "idle"
              /\ result' = "error"
              /\ UNCHANGED <<mode, ecus, out>>
           \/ /\ fed.err = "nil"
              /\ ecus' = [ecus EXCEPT ![e] =
                   [rx |-> fed.r, deadline |-> DeadlineAfter(fed, @.deadline)]]
              /\ out' = IF final
                        THEN Append(out, [ecu |-> e, got |-> Content(fed.msg)])
                        ELSE out
              /\ IF final /\ world.target # Everyone
                 THEN pc' = "idle" /\ result' = "ok" /\ mode' = trial
                 ELSE UNCHANGED <<pc, mode, result>>
  /\ UNCHANGED <<world, trial, req, window, jobs, answered, foreign>>

\* The latest of the window and the ECUs' deadlines has passed.
MutExpired == window = 0             \* mutant: the window alone counts
Expired == window = 0 /\ \A e \in Ecu : ecus[e].deadline = 0

\* Receive returns context.DeadlineExceeded and nothing is queued.
ReturnAnswers ==
  /\ pc = "receiving" /\ rxq = <<>> /\ Expired
  /\ out # <<>>
  /\ pc' = "idle" /\ result' = "ok" /\ mode' = trial
  /\ UNCHANGED <<world, trial, req, window, ecus, out, rxq, ecuVars>>

MutMayTryOther == mode = 0           \* mutant: again and again
MayTryOther == mode = 0 /\ trial = 11

Try29Bit ==
  /\ pc = "receiving" /\ rxq = <<>> /\ Expired
  /\ out = <<>>
  /\ MayTryOther
  /\ SendRequest(req, 29)
  /\ UNCHANGED <<world, pc, mode, req, result, rxq, foreign>>

\* What RoundTrip leaves in t.mode when no ECU answered.
MutModeAfterSilence == trial         \* mutant: kept although it did not work
ModeAfterSilence == mode

ReturnNoResponse ==
  /\ pc = "receiving" /\ rxq = <<>> /\ Expired
  /\ out = <<>>
  /\ ~MayTryOther
  /\ pc' = "idle" /\ result' = "noResponse" /\ mode' = ModeAfterSilence
  /\ UNCHANGED <<world, trial, req, window, ecus, out, rxq, ecuVars>>

Cancel ==
  /\ ~world.orderly
  /\ pc = "receiving"
  /\ pc' = "idle" /\ result' = "ctx"
  /\ UNCHANGED <<world, mode, trial, req, window, ecus, out, rxq, ecuVars>>

-----------------------------------------------------------------------------
(* ECUs and the other tester (external)                                    *)

Transmit(e, f) == rxq' = Append(rxq, [ecu |-> e, frame |-> f])

\* An answer of e to request r; n = 0 for another tester's request.
Reply(e, n, kind, sid, pid) ==
  [n |-> n, kind |-> kind, sid |-> sid, pid |-> pid]
Replies(e, kind) ==
  LET r == Head(jobs[e])
  IN {Reply(e, r.n, kind, r.what.sid, pid) :
        pid \in IF r.what.pids = {} THEN {0} ELSE r.what.pids}

Thinking(e) == jobs[e] # <<>> /\ work[e].st = "thinking"

\* e is done with its first request.
Done(e, sent) ==
  /\ jobs' = [jobs EXCEPT ![e] = Tail(@)]
  /\ work' = [work EXCEPT ![e] = [EcuIdle EXCEPT !.due = P2]]
  /\ answered' = IF sent /\ Head(jobs[e]) = req THEN answered \cup {e}
                 ELSE answered
  /\ UNCHANGED <<world, testerVars, foreign>>

EcuSingle(e) ==
  /\ Thinking(e)
  /\ \E x \in Replies(e, "positive") \cup Replies(e, "negative") :
       Transmit(e, SingleFrame(x, 4))
  /\ Done(e, TRUE)

\* The request is for something e does not have.
EcuSilent(e) ==
  /\ Thinking(e)
  /\ ~work[e].pend
  /\ Done(e, FALSE)
  /\ UNCHANGED rxq

\* An ECU asks again after a tick at the earliest, and (a bound) when it has
\* nothing queued; there is no limit to how often it does.
MayAsk(e) ==
  world.pending /\ (work[e].pend => /\ work[e].due < P2Star
                                   /\ \A i \in 1 .. Len(rxq) : rxq[i].ecu # e)

EcuPending(e) ==
  /\ Thinking(e)
  /\ MayAsk(e)
  /\ \E x \in Replies(e, "pending") : Transmit(e, SingleFrame(x, 3))
  /\ work' = [work EXCEPT ![e].pend = TRUE, ![e].due = P2Star]
  /\ UNCHANGED <<world, testerVars, jobs, answered, foreign>>

\* A message of 13 bytes: a first frame and one consecutive frame.
EcuFirst(e) ==
  /\ Thinking(e)
  /\ \E x \in Replies(e, "positive") :
       /\ Transmit(e, FirstFrame(x, FFData + CFData, FALSE))
       /\ work' = [work EXCEPT ![e].st = "waitFC", ![e].due = NBs,
                               ![e].said = x]
  /\ UNCHANGED <<world, testerVars, jobs, answered, foreign>>

EcuConsecutive(e) ==
  /\ work[e].st = "sending"
  /\ Transmit(e, ConsecutiveFrame(work[e].said, FFData, 1))
  /\ Done(e, TRUE)

EcuGivesUp(e) ==
  /\ work[e].st = "waitFC"
  /\ work[e].due = 0
  /\ Done(e, FALSE)
  /\ UNCHANGED rxq

\* Between two steps for this tester an ECU may answer another one.
EcuForeign(e) ==
  /\ foreign < world.others
  /\ work[e].st = "thinking"
  /\ foreign' = foreign + 1
  /\ \/ \E a \in world.foreign :
          Transmit(e, SingleFrame(Reply(e, 0, "positive", a.sid, a.pid), 4))
     \/ /\ ~world.orderly
        /\ Transmit(e, SingleFrame(Reply(e, 0, "positive", 0, 0), 0))
  /\ UNCHANGED <<world, testerVars, jobs, work, answered>>

EcuStep(e) == \/ EcuSingle(e) \/ EcuSilent(e) \/ EcuPending(e) \/ EcuFirst(e)
              \/ EcuConsecutive(e) \/ EcuGivesUp(e)

-----------------------------------------------------------------------------
(* Time                                                                    *)

Less(t) == IF t = 0 THEN 0 ELSE t - 1

TesterReady == pc = "receiving" /\ (rxq # <<>> \/ Expired)

\* An ECU that still has time, or that is not bound by any.
MayWait(e) == ~world.orderly \/ jobs[e] = <<>> \/ work[e].due > 0

Tick ==
  /\ ~TesterReady
  /\ \A e \in Ecu : MayWait(e)
  /\ window' = Less(window)
  /\ ecus' = [e \in Ecu |-> [ecus[e] EXCEPT !.deadline = Less(@)]]
  /\ work' = [e \in Ecu |-> [work[e] EXCEPT !.due = Less(@)]]
  /\ UNCHANGED <<world, pc, mode, trial, req, out, result, rxq, jobs,
                 answered, foreign>>

-----------------------------------------------------------------------------
TesterStep == SkipFrame \/ TakeFrame \/ ReturnAnswers \/ Try29Bit
                \/ ReturnNoResponse

Next == \/ \E what \in world.requests : RoundTrip(what)
        \/ TesterStep \/ Cancel
        \/ \E e \in Ecu : EcuStep(e) \/ EcuForeign(e)
        \/ Tick

Spec == Init /\ [][Next]_vars

\* Time passes and the tester makes its steps.  An ECU that keeps its times
\* does something about a request before time goes on; another may stop at any
\* point, even in the middle of its answer.
FairSpec == Spec /\ WF_vars(TesterStep) /\ WF_vars(Tick)
                 /\ \A e \in Ecu : WF_vars(world.orderly /\ EcuStep(e))

-----------------------------------------------------------------------------
(* Properties                                                              *)

Returned == pc = "idle" /\ result \in {"ok", "noResponse"}

\* "returns the response of every ECU that answered": a broadcast RoundTrip
\* that returns has awaited every ECU that works on the request, those that
\* asked for more time and those in the middle of a long message included,
\* and has the answer of each that gave one.
NobodyMissed ==
  Returned /\ world.orderly /\ world.target = Everyone =>
    \A e \in Ecu :
      /\ world.speaks[e] = trial =>
           ~\E i \in 1 .. Len(jobs[e]) : jobs[e][i] = req
      /\ e \in answered =>
           \E i \in 1 .. Len(out) : out[i].ecu = e /\ out[i].got.n = req.n

\* A response that is returned answers this request, not an earlier one or
\* another tester's, as long as no answer comes after its round trip.  "A
\* directed request returns on the first answer, so an answer meant for
\* another tester must not end it": that is part of it.
AnswersAreOwn == world.orderly => \A i \in 1 .. Len(out) : out[i].got.n = req.n

\* Once every ECU is done and the window is over there is nothing left to
\* wait for: no deadline of a "response pending" outlives the answer.
NoIdleWait ==
  pc = "receiving" /\ window = 0 /\ rxq = <<>>
    /\ (\A e \in Ecu : jobs[e] = <<>>) => Expired

\* The addressing is settled by an answer only, and then for good: "keeps
\* whichever worked".
ModeSettledByAnswer ==
  [][mode' # mode => /\ mode = 0
                     /\ \E e \in answered : world.speaks[e] = mode']_vars

\* Every RoundTrip returns without help of its context, unless an ECU asks for
\* more time without end and so keeps moving its deadline: whether the ECUs
\* answer in time or late, not at all, with a malformed frame, break off in the
\* middle of a message, ask for more time any number of times, or send a
\* number of frames for another tester between.
RoundTripReturns ==
  (\A e \in Ecu : <>[][~EcuPending(e)]_vars)
    => (pc = "receiving" ~> pc = "idle")
=============================================================================
