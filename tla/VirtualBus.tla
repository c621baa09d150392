----------------------------- MODULE VirtualBus -----------------------------
(***************************************************************************)
(* can/virtual.go: an in-memory CAN bus shared by goroutines.              *)
(*                                                                         *)
(* Every endpoint has one goroutine that sends, one that receives and one  *)
(* that closes it (the contract of can.Bus: Send and Receive may run at    *)
(* the same time).  A critical section of an endpoint's own mutex is one   *)
(* step; the bus mutex `mu' is held across many steps by Send, so it is a  *)
(* variable.  A capacity-one notify channel is a Boolean: a non-blocking   *)
(* send sets it, a receive waits for it and clears it.                     *)
(***************************************************************************)
EXTENDS Naturals, Sequences, FiniteSets

CONSTANTS Port,       \* the endpoints a program may connect
          None,       \* no endpoint: the bus mutex is free, nobody to notify
          MaxFrames   \* bound: the number of frames sent in a behaviour

ASSUME PortAssumption == None \notin Port
ASSUME MaxFramesAssumption == MaxFrames \in Nat

VARIABLES
  attached,  \* VirtualBus.ports, as a set: see Deliver for the order
  mu,        \* holder of VirtualBus.mu, or None
  queue,     \* VirtualPort.queue
  closed,    \* VirtualPort.closed
  notify,    \* VirtualPort.notify holds its token
  spc,       \* Send: idle, checked (closed was false), delivering (holds mu)
  frame,     \* Send: the frame in hand
  todo,      \* Send: the endpoints the loop has not reached
  ring,      \* Send: the endpoint whose queue has the frame, not yet notified
  rpc,       \* Receive: idle, check (about to lock), select (blocked)
  cpc,       \* Close: unborn (before Connect), open, detached, marked, done
  log,       \* history: the sender of each frame, in the order mu was taken
  read       \* history: the last frame each endpoint's Receive returned

busVars  == <<attached, mu>>
portVars == <<queue, closed, notify>>
sendVars == <<spc, frame, todo, ring>>
hist     == <<log, read>>
vars     == <<busVars, portVars, sendVars, rpc, cpc, hist>>

\* A frame is named by its place in the bus order.
Frame == 1 .. Len(log)

Init ==
  /\ attached = {}
  /\ mu = None
  /\ queue = [p \in Port |-> <<>>]
  /\ closed = [p \in Port |-> FALSE]
  /\ notify = [p \in Port |-> FALSE]
  /\ spc = [p \in Port |-> "idle"]
  /\ frame = [p \in Port |-> 0]
  /\ todo = [p \in Port |-> {}]
  /\ ring = [p \in Port |-> None]
  /\ rpc = [p \in Port |-> "idle"]
  /\ cpc = [p \in Port |-> "unborn"]
  /\ log = <<>>
  /\ read = [p \in Port |-> 0]

Connect(p) ==
  /\ cpc[p] = "unborn"
  /\ mu = None
  /\ attached' = attached \cup {p}
  /\ cpc' = [cpc EXCEPT ![p] = "open"]
  /\ read' = [read EXCEPT ![p] = Len(log)]
  /\ UNCHANGED <<mu, portVars, sendVars, rpc, log>>

-----------------------------------------------------------------------------
(* Send                                                                    *)

\* The closed flag is read under the endpoint's own mutex, which is released
\* before the bus mutex is taken: a Close may come in between.
SendCheck(s) ==
  /\ spc[s] = "idle"
  /\ cpc[s] # "unborn"
  /\ ~closed[s]
  /\ Len(log) + Cardinality({t \in Port : spc[t] = "checked"}) < MaxFrames
  /\ spc' = [spc EXCEPT ![s] = "checked"]
  /\ UNCHANGED <<busVars, portVars, frame, todo, ring, rpc, cpc, hist>>

\* The frame a Send delivers, and whom it delivers it to.
MutFrameOf(s) == frame[s]            \* mutant: the previous call's argument
FrameOf(s) == Len(log) + 1
MutTargets(s) == attached            \* mutant: the sender hears itself
Targets(s) == attached \ {s}

\* Taking and releasing the bus mutex in Send.
MutLockBus(s) == mu' = s             \* mutant: nobody waits for the mutex
LockBus(s) == mu = None /\ mu' = s
MutUnlockBus(s) ==                   \* mutant: not released on one path
  mu' = IF closed[s] THEN mu ELSE None
UnlockBus(s) == mu' = None

SendLock(s) ==
  /\ spc[s] = "checked"
  /\ LockBus(s)
  /\ spc' = [spc EXCEPT ![s] = "delivering"]
  /\ log' = Append(log, s)
  /\ frame' = [frame EXCEPT ![s] = FrameOf(s)]
  /\ todo' = [todo EXCEPT ![s] = Targets(s)]
  /\ UNCHANGED <<attached, portVars, ring, rpc, cpc, read>>

\* An endpoint's queue once deliver has run on it.
MutQueueWith(q, f) ==                \* mutant: a queue of limited length
  IF closed[q] \/ Len(queue[q]) > 0 THEN queue[q] ELSE Append(queue[q], f)
QueueWith(q, f) == IF closed[q] THEN queue[q] ELSE Append(queue[q], f)

\* deliver up to the unlock.  The loop visits the slice in connection order;
\* any order is allowed here, which covers it.
Deliver(s, q) ==
  /\ spc[s] = "delivering"
  /\ ring[s] = None
  /\ q \in todo[s]
  /\ queue' = [queue EXCEPT ![q] = QueueWith(q, frame[s])]
  /\ todo' = [todo EXCEPT ![s] = @ \ {q}]
  /\ ring' = [ring EXCEPT ![s] = q]
  /\ UNCHANGED <<busVars, closed, notify, spc, frame, rpc, cpc, hist>>

\* deliver's non-blocking send on the notify channel.
Ring(s) ==
  /\ ring[s] # None
  /\ notify' = [notify EXCEPT ![ring[s]] = TRUE]
  /\ ring' = [ring EXCEPT ![s] = None]
  /\ UNCHANGED <<busVars, queue, closed, spc, frame, todo, rpc, cpc, hist>>

SendReturn(s) ==
  /\ spc[s] = "delivering"
  /\ todo[s] = {}
  /\ ring[s] = None
  /\ UnlockBus(s)
  /\ spc' = [spc EXCEPT ![s] = "idle"]
  /\ UNCHANGED <<attached, portVars, frame, todo, ring, rpc, cpc, hist>>

-----------------------------------------------------------------------------
(* Receive                                                                 *)

ReceiveCall(p) ==
  /\ rpc[p] = "idle"
  /\ cpc[p] # "unborn"
  /\ rpc' = [rpc EXCEPT ![p] = "check"]
  /\ UNCHANGED <<busVars, portVars, sendVars, cpc, hist>>

Take(p) ==
  /\ rpc[p] = "check"
  /\ queue[p] # <<>>
  /\ queue' = [queue EXCEPT ![p] = Tail(@)]
  /\ read' = [read EXCEPT ![p] = Head(queue[p])]
  /\ rpc' = [rpc EXCEPT ![p] = "idle"]
  /\ UNCHANGED <<busVars, closed, notify, sendVars, cpc, log>>

ReturnErrClosed(p) ==
  /\ rpc[p] = "check"
  /\ queue[p] = <<>>
  /\ closed[p]
  /\ rpc' = [rpc EXCEPT ![p] = "idle"]
  /\ UNCHANGED <<busVars, portVars, sendVars, cpc, hist>>

MutBlock(p) ==                       \* mutant: closed is not looked at
  /\ rpc[p] = "check"
  /\ queue[p] = <<>>
  /\ rpc' = [rpc EXCEPT ![p] = "select"]
  /\ UNCHANGED <<busVars, portVars, sendVars, cpc, hist>>

Block(p) ==
  /\ rpc[p] = "check"
  /\ queue[p] = <<>>
  /\ ~closed[p]
  /\ rpc' = [rpc EXCEPT ![p] = "select"]
  /\ UNCHANGED <<busVars, portVars, sendVars, cpc, hist>>

Wake(p) ==
  /\ rpc[p] = "select"
  /\ notify[p]
  /\ notify' = [notify EXCEPT ![p] = FALSE]
  /\ rpc' = [rpc EXCEPT ![p] = "check"]
  /\ UNCHANGED <<busVars, queue, closed, sendVars, cpc, hist>>

\* The caller's context may end at any time; select may prefer it to a token.
ContextDone(p) ==
  /\ rpc[p] = "select"
  /\ rpc' = [rpc EXCEPT ![p] = "idle"]
  /\ UNCHANGED <<busVars, portVars, sendVars, cpc, hist>>

-----------------------------------------------------------------------------
(* Close, which may be called again once it has returned.                  *)

MutCloseEnabled(p) ==                \* mutant: detaches without the mutex
  cpc[p] \in {"open", "done"}
CloseEnabled(p) == cpc[p] \in {"open", "done"} /\ mu = None

CloseDetach(p) ==
  /\ CloseEnabled(p)
  /\ attached' = attached \ {p}
  /\ cpc' = [cpc EXCEPT ![p] = "detached"]
  /\ UNCHANGED <<mu, portVars, sendVars, rpc, hist>>

CloseMark(p) ==
  /\ cpc[p] = "detached"
  /\ closed' = [closed EXCEPT ![p] = TRUE]
  /\ queue' = [queue EXCEPT ![p] = <<>>]
  /\ cpc' = [cpc EXCEPT ![p] = "marked"]
  /\ UNCHANGED <<busVars, notify, sendVars, rpc, hist>>

MutCloseToken(p) == notify[p]        \* mutant: the token is forgotten
CloseToken(p) == TRUE

CloseNotify(p) ==
  /\ cpc[p] = "marked"
  /\ notify' = [notify EXCEPT ![p] = CloseToken(p)]
  /\ cpc' = [cpc EXCEPT ![p] = "done"]
  /\ UNCHANGED <<busVars, queue, closed, sendVars, rpc, hist>>

-----------------------------------------------------------------------------
SendStep(s) == \/ SendCheck(s) \/ SendLock(s) \/ Ring(s) \/ SendReturn(s)
               \/ \E q \in Port : Deliver(s, q)

ReceiveStep(p) == \/ ReceiveCall(p) \/ Take(p) \/ ReturnErrClosed(p)
                  \/ Block(p) \/ Wake(p) \/ ContextDone(p)

CloseStep(p) == CloseDetach(p) \/ CloseMark(p) \/ CloseNotify(p)

Next == \E p \in Port : Connect(p) \/ SendStep(p) \/ ReceiveStep(p)
                          \/ CloseStep(p)

Spec == Init /\ [][Next]_vars

\* The Go scheduler runs every runnable goroutine and a sync.Mutex is handed
\* to a waiter that has starved, so each step inside a call is fair, taking
\* the bus mutex strongly so.  Nothing obliges a program to make a call, nor
\* a context to end.
Fairness ==
  \A p \in Port :
    /\ SF_vars(SendLock(p))
    /\ WF_vars(\E q \in Port : Deliver(p, q))
    /\ WF_vars(Ring(p))
    /\ WF_vars(SendReturn(p))
    /\ WF_vars(Take(p) \/ ReturnErrClosed(p) \/ Block(p))
    /\ WF_vars(Wake(p))
    /\ WF_vars(CloseMark(p))
    /\ WF_vars(CloseNotify(p))

FairSpec == Spec /\ Fairness

-----------------------------------------------------------------------------
(* Properties                                                              *)

\* Every variable keeps its type, and a Send that delivers has a frame.
TypeOK ==
  /\ attached \subseteq Port
  /\ mu \in Port \cup {None}
  /\ queue \in [Port -> Seq(Nat \ {0})]
  /\ closed \in [Port -> BOOLEAN]
  /\ notify \in [Port -> BOOLEAN]
  /\ spc \in [Port -> {"idle", "checked", "delivering"}]
  /\ frame \in [Port -> Nat]
  /\ todo \in [Port -> SUBSET Port]
  /\ ring \in [Port -> Port \cup {None}]
  /\ rpc \in [Port -> {"idle", "check", "select"}]
  /\ cpc \in [Port -> {"unborn", "open", "detached", "marked", "done"}]
  /\ log \in Seq(Port)
  /\ read \in [Port -> Nat]
  /\ \A s \in Port : spc[s] = "delivering" => frame[s] # 0

\* A Receive is never blocked with a frame in its queue, or on a closed
\* endpoint, unless its wake-up is in the channel or about to be put there:
\* the queue is examined under the mutex, but select waits after it is free.
NoLostWakeup ==
  \A p \in Port :
    rpc[p] = "select" /\ (queue[p] # <<>> \/ closed[p]) =>
      notify[p] \/ cpc[p] = "marked" \/ \E s \in Port : ring[s] = p

\* "All endpoints observe frames in the same order": what an endpoint has
\* still to read is in bus order and comes after what it has read.
SameOrder ==
  \A p \in Port :
    /\ \A i \in 1 .. Len(queue[p]) : queue[p][i] > read[p]
    /\ \A i, j \in 1 .. Len(queue[p]) : i < j => queue[p][i] < queue[p][j]

\* "a slow reader never loses frames": a frame another endpoint put on the
\* bus since p connected has been read, is queued, or is being delivered.
NothingLost ==
  \A p \in attached : \A k \in Frame :
    k > read[p] /\ log[k] # p =>
      \/ \E i \in 1 .. Len(queue[p]) : queue[p][i] = k
      \/ \E s \in Port : frame[s] = k /\ p \in todo[s]

\* A closed endpoint has nothing to receive and no Send is still going to
\* reach it, although Close lets go of the bus mutex before it sets closed.
ClosedIsSilent ==
  \A p \in Port : closed[p] =>
    queue[p] = <<>> /\ \A s \in Port : p \notin todo[s]

\* A Receive that has something to return returns, "A Receive blocked on it
\* returns ErrClosed" included: once there is a frame, or once Close has set
\* the flag, the call ends without help from its context.
ReceiveReturns ==
  \A p \in Port :
    rpc[p] # "idle" /\ (queue[p] # <<>> \/ closed[p]) ~> rpc[p] = "idle"

\* A Send returns, however many others want the bus and whoever closes.
SendReturns == \A s \in Port : spc[s] # "idle" ~> spc[s] = "idle"

-----------------------------------------------------------------------------
(* What the bus implements.                                                *)

stage == [p \in Port |-> IF closed[p] THEN "left"
                         ELSE IF cpc[p] = "unborn" THEN "out" ELSE "in"]

Abstract == INSTANCE OrderedBroadcast
              WITH Member <- Port, bus <- log, at <- read, stage <- stage

\* The bus implements the ordered broadcast its doc comment describes.
ImplementsOrderedBroadcast == Abstract!Spec
=============================================================================
