------------------------------ MODULE SocketCAN ------------------------------
(***************************************************************************)
(* socketcan/socketcan_linux.go: a raw CAN socket behind the runtime       *)
(* poller, with the waits of isotp/conn.go as its caller.                  *)
(*                                                                         *)
(* The two directions, Receive and Send, share nothing but the file; each  *)
(* has one goroutine.  watch sets the deadline of a direction for a call   *)
(* and has a context's end set one in the past, from a goroutine of its    *)
(* own (context.AfterFunc).  Wall clock, context timers and the poller are *)
(* separate: a deadline that has passed is noticed by them in any order.   *)
(***************************************************************************)
EXTENDS Naturals, Sequences, Functions

CONSTANTS
  Dir,        \* the directions in use, of "read" and "write"
  Deadlines,  \* whose deadline the context of a call carries: "none",
              \* "caller" or "protocol" (a sooner one, of isotp)
  MaxCalls,   \* bound: calls of all directions together
  MaxFrames   \* bound: frames that arrive at the socket

ASSUME DirAssumption == Dir \subseteq {"read", "write"}
ASSUME DeadlinesAssumption ==
  Deadlines \subseteq {"none", "caller", "protocol"}
ASSUME SocketBoundsAssumption == MaxCalls \in Nat /\ MaxFrames \in Nat

VARIABLES
  pc,       \* idle, check, setDeadline, register, io, retry, stop, join or
            \* return
  call,     \* number of the call
  ctx,      \* its context: whose deadline, has that passed, is the context
            \* done, is the caller's context (the parent of protocol's) done
  fileDl,   \* deadline of the direction: none, ahead, past
  reg,      \* the context will start the function given to AfterFunc
  fns,      \* such functions that were started: <<direction, call>>
  done,     \* the function of this call has closed its channel
  closed,   \* the file is closed
  rxq,      \* frames the kernel has for this socket: [n, data]
  result,   \* what Receive or Send returns
  reported, \* what isotp makes of it (timeoutError)
  log,      \* history: for each frame that arrived, whether it is a data frame
  got       \* history: the numbers of the frames Receive returned

fileVars == <<fileDl, closed>>
fnVars   == <<reg, fns, done>>
kernel   == <<rxq, log>>
vars     == <<pc, call, ctx, fileVars, fnVars, kernel, result, reported, got>>

NoCtx == [whose |-> "none", passed |-> FALSE, ended |-> FALSE,
          caller |-> FALSE]

Init ==
  /\ pc = [d \in Dir |-> "idle"] /\ call = [d \in Dir |-> 0]
  /\ ctx = [d \in Dir |-> NoCtx]
  /\ fileDl = [d \in Dir |-> "none"] /\ closed = FALSE
  /\ reg = [d \in Dir |-> FALSE] /\ fns = {} /\ done = [d \in Dir |-> FALSE]
  /\ rxq = <<>> /\ log = <<>> /\ got = <<>>
  /\ result = [d \in Dir |-> "none"] /\ reported = [d \in Dir |-> "none"]

Goto(d, l) == pc' = [pc EXCEPT ![d] = l]
ReturnWith(d, l, r) == Goto(d, l) /\ result' = [result EXCEPT ![d] = r]

-----------------------------------------------------------------------------
(* watch                                                                   *)

Calls == FoldFunction(+, 0, call)

Call(d, whose) ==
  /\ pc[d] = "idle"
  /\ Calls < MaxCalls
  /\ Goto(d, "check")
  /\ call' = [call EXCEPT ![d] = @ + 1]
  /\ ctx' = [ctx EXCEPT ![d] = [NoCtx EXCEPT !.whose = whose]]
  /\ done' = [done EXCEPT ![d] = FALSE]
  /\ UNCHANGED <<fileVars, reg, fns, kernel, result, reported, got>>

CheckContext(d) ==
  /\ pc[d] = "check"
  /\ \/ ctx[d].ended /\ ReturnWith(d, "return", "ctx")
     \/ ~ctx[d].ended /\ Goto(d, "setDeadline") /\ UNCHANGED result
  /\ UNCHANGED <<call, ctx, fileVars, fnVars, kernel, reported, got>>

\* The error of an operation on the file, as ioError gives it.
IoErrors(d) ==
  IF ctx[d].ended THEN {"ctx"}
  ELSE (IF closed THEN {"closed"} ELSE {})
         \cup (IF fileDl[d] = "past" THEN {"deadline"} ELSE {})

\* The deadline of the context, as the file has it; none for the zero time.
MutDeadlineOf(d) ==            \* mutant: set only if the context has one
  IF ctx[d].whose = "none" THEN fileDl[d]
  ELSE IF ctx[d].passed THEN "past" ELSE "ahead"
DeadlineOf(d) == IF ctx[d].whose = "none" THEN "none"
                 ELSE IF ctx[d].passed THEN "past" ELSE "ahead"

SetDeadline(d) ==
  /\ pc[d] = "setDeadline"
  /\ \/ /\ closed
        /\ ReturnWith(d, "return", IF ctx[d].ended THEN "ctx" ELSE "closed")
        /\ UNCHANGED fileDl
     \/ /\ ~closed
        /\ fileDl' = [fileDl EXCEPT ![d] = DeadlineOf(d)]
        /\ Goto(d, "register")
        /\ UNCHANGED result
  /\ UNCHANGED <<call, ctx, closed, fnVars, kernel, reported, got>>

\* AfterFunc starts the function at once if the context has ended already.
Register(d) ==
  /\ pc[d] = "register"
  /\ reg' = [reg EXCEPT ![d] = ~ctx[d].ended]
  /\ fns' = IF ctx[d].ended THEN fns \cup {<<d, call[d]>>} ELSE fns
  /\ Goto(d, "io")
  /\ UNCHANGED <<call, ctx, fileVars, done, kernel, result, reported, got>>

\* The deadline the function sets.
MutInterruption == "none"      \* mutant: the zero time, which means no limit
Interruption == "past"

Interrupt(x) ==
  /\ x \in fns
  /\ fileDl' = IF closed THEN fileDl
               ELSE [fileDl EXCEPT ![x[1]] = Interruption]
  /\ fns' = fns \ {x}
  /\ done' = [done EXCEPT ![x[1]] = @ \/ call[x[1]] = x[2]]
  /\ UNCHANGED <<pc, call, ctx, closed, reg, kernel, result, reported, got>>

\* The function watch returned: stop, and if that is too late wait for done.
Stop(d) ==
  /\ pc[d] = "stop"
  /\ reg' = [reg EXCEPT ![d] = FALSE]
  /\ Goto(d, IF reg[d] THEN "return" ELSE "join")
  /\ UNCHANGED <<call, ctx, fileVars, fns, done, kernel, result, reported,
                 got>>

Joined(d) == done[d]

Join(d) ==
  /\ pc[d] = "join"
  /\ Joined(d)
  /\ Goto(d, "return")
  /\ UNCHANGED <<call, ctx, fileVars, fnVars, kernel, result, reported, got>>

-----------------------------------------------------------------------------
(* Receive, Send, Close                                                    *)

\* What a Read leaves of the frame at the head of the queue: remote and error
\* frames are skipped.
MutReturned(f) == IF f.data /\ ~ctx["read"].ended THEN <<f.n>> ELSE <<>>
                               \* mutant: a frame is dropped for a late end
Returned(f) == IF f.data THEN <<f.n>> ELSE <<>>

ReadFrame ==
  /\ "read" \in Dir /\ pc["read"] = "io"
  /\ ~closed /\ fileDl["read"] # "past"
  /\ rxq # <<>>
  /\ rxq' = Tail(rxq)
  /\ got' = got \o Returned(Head(rxq))
  /\ \/ Head(rxq).data /\ ReturnWith("read", "stop", "ok")
     \/ ~Head(rxq).data /\ UNCHANGED <<pc, result>>
  /\ UNCHANGED <<call, ctx, fileVars, fnVars, log, reported>>

\* The write succeeds, or the transmit queue of the interface is full.
WriteFrame ==
  /\ "write" \in Dir /\ pc["write"] = "io"
  /\ ~closed /\ fileDl["write"] # "past"
  /\ \/ ReturnWith("write", "stop", "ok")
     \/ Goto("write", "retry") /\ UNCHANGED result
  /\ UNCHANGED <<call, ctx, fileVars, fnVars, kernel, reported, got>>

Retry ==
  /\ "write" \in Dir /\ pc["write"] = "retry"
  /\ \/ Goto("write", "io") /\ UNCHANGED result
     \/ ctx["write"].ended /\ ReturnWith("write", "stop", "ctx")
  /\ UNCHANGED <<call, ctx, fileVars, fnVars, kernel, reported, got>>

IoFails(d) ==
  /\ pc[d] = "io"
  /\ closed \/ fileDl[d] = "past"
  /\ \E r \in IoErrors(d) : ReturnWith(d, "stop", r)
  /\ UNCHANGED <<call, ctx, fileVars, fnVars, kernel, reported, got>>

Close ==
  /\ ~closed
  /\ closed' = TRUE
  /\ UNCHANGED <<pc, call, ctx, fileDl, fnVars, kernel, result, reported, got>>

\* timeoutError in isotp: the caller's own end goes first, and any other
\* deadline counts as the protocol's.
TimeoutError(d) ==
  IF result[d] = "ok" THEN "ok"
  ELSE IF ctx[d].caller THEN "caller"
  ELSE IF result[d] \in {"ctx", "deadline"} THEN "timeout" ELSE result[d]

Return(d) ==
  /\ pc[d] = "return"
  /\ Goto(d, "idle")
  /\ reported' = [reported EXCEPT ![d] = TimeoutError(d)]
  /\ UNCHANGED <<call, ctx, fileVars, fnVars, kernel, result, got>>

-----------------------------------------------------------------------------
(* Time, contexts and the kernel (external)                                *)

\* The context of the call ends; byCaller tells whether the caller's does.
End(d, byCaller) ==
  /\ pc[d] # "idle"
  /\ ~ctx[d].caller
  /\ byCaller \/ ~ctx[d].ended
  /\ ctx' = [ctx EXCEPT ![d].ended = TRUE, ![d].caller = byCaller]
  /\ reg' = [reg EXCEPT ![d] = FALSE]
  /\ fns' = IF reg[d] THEN fns \cup {<<d, call[d]>>} ELSE fns
  /\ UNCHANGED <<pc, call, fileVars, done, kernel, result, reported, got>>

Cancel(d) == End(d, TRUE)
ContextTimer(d) == /\ ctx[d].passed
                   /\ End(d, ctx[d].whose = "caller")

DeadlinePasses(d) ==
  /\ pc[d] # "idle"
  /\ ctx[d].whose # "none" /\ ~ctx[d].passed
  /\ ctx' = [ctx EXCEPT ![d].passed = TRUE]
  /\ fileDl' = IF pc[d] \notin {"check", "setDeadline"} /\ fileDl[d] = "ahead"
               THEN [fileDl EXCEPT ![d] = "past"] ELSE fileDl
  /\ UNCHANGED <<pc, call, closed, fnVars, kernel, result, reported, got>>

Arrive(data) ==
  /\ Len(log) < MaxFrames
  /\ log' = Append(log, data)
  /\ rxq' = Append(rxq, [n |-> Len(log) + 1, data |-> data])
  /\ UNCHANGED <<pc, call, ctx, fileVars, fnVars, result, reported, got>>

-----------------------------------------------------------------------------
Step(d) == \/ CheckContext(d) \/ SetDeadline(d) \/ Register(d) \/ IoFails(d)
           \/ Stop(d) \/ Join(d) \/ Return(d)
           \/ d = "read" /\ ReadFrame
           \/ d = "write" /\ (WriteFrame \/ Retry)

Next == \/ \E d \in Dir : \/ \E whose \in Deadlines : Call(d, whose)
                          \/ Step(d)
                          \/ Cancel(d) \/ ContextTimer(d) \/ DeadlinePasses(d)
        \/ \E x \in fns : Interrupt(x)
        \/ Close
        \/ \E data \in BOOLEAN : Arrive(data)

Spec == Init /\ [][Next]_vars

\* Goroutines run and timers fire; no caller has to cancel or close, and no
\* frame has to arrive.
FairSpec ==
  /\ Spec
  /\ \A d \in Dir : WF_vars(Step(d)) /\ WF_vars(ContextTimer(d))
  /\ WF_vars(\E x \in fns : Interrupt(x))

-----------------------------------------------------------------------------
(* Properties                                                              *)

\* "keep the interruption from hitting the next call": a call that fails for
\* a deadline or a context fails for its own, and one that has neither ended
\* returns a frame or finds the socket closed.  Only the call under way has a
\* function that may still interrupt it.
OwnInterruption ==
  /\ \A d \in Dir : pc[d] = "return" /\ result[d] \in {"ctx", "deadline"} =>
       ctx[d].ended \/ ctx[d].passed
  /\ fns \subseteq {<<d, call[d]>> : d \in {e \in Dir : pc[e] # "idle"}}

\* Every data frame the kernel took from this socket's queue was returned,
\* once and in order, and the others are still there: an interruption takes
\* none away.
FramesKept ==
  LET taken == Len(log) - Len(rxq)
  IN /\ \A i \in 1 .. Len(rxq) :
          rxq[i] = [n |-> taken + i, data |-> log[taken + i]]
     /\ \A i, j \in 1 .. Len(got) : i < j => got[i] < got[j]
     /\ {got[i] : i \in 1 .. Len(got)} = {k \in 1 .. taken : log[k]}

\* A call ends once its context has, or the file is closed ("A Receive
\* blocked on it returns can.ErrClosed"), or its deadline has passed.
CallEnds ==
  \A d \in Dir :
    pc[d] # "idle" /\ (ctx[d].ended \/ ctx[d].passed \/ closed)
      ~> pc[d] = "idle"

\* "the caller's own cancellation or deadline is returned unchanged": isotp
\* reports a protocol timeout only when the protocol's timer ran out.
CallersDeadlineKept ==
  \A d \in Dir : pc[d] = "idle" /\ reported[d] = "timeout" =>
    ctx[d].whose = "protocol"
=============================================================================
