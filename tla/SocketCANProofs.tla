--------------------------- MODULE SocketCANProofs ---------------------------
(***************************************************************************)
(* What a context's end may do to the calls on a CAN socket, for any       *)
(* number of calls and frames.  The argument: a function started by a      *)
(* context belongs to the call under way, whose context has ended, and is  *)
(* either still to run or has closed the channel that stop waits for       *)
(* (FnInv); so from the moment a call has set its deadline, that deadline  *)
(* is past only by what happened to the call itself (DeadlineInv).         *)
(***************************************************************************)
EXTENDS SocketCAN, TLAPS

Pc == {"idle", "check", "setDeadline", "register", "io", "retry", "stop",
       "join", "return"}

Ctx == [whose : {"none", "caller", "protocol"}, passed : BOOLEAN,
        ended : BOOLEAN, caller : BOOLEAN]

QueuedFrame == [n : Nat, data : BOOLEAN]

TypeInv ==
  /\ pc \in [Dir -> Pc]
  /\ call \in [Dir -> Nat]
  /\ ctx \in [Dir -> Ctx]
  /\ fileDl \in [Dir -> {"none", "ahead", "past"}]
  /\ closed \in BOOLEAN
  /\ reg \in [Dir -> BOOLEAN]
  /\ fns \subseteq Dir \X Nat
  /\ done \in [Dir -> BOOLEAN]
  /\ result \in [Dir -> {"none", "ok", "ctx", "closed", "deadline"}]

Started(d) == <<d, call[d]>> \in fns

FnInv ==
  /\ \A x \in fns : x[2] = call[x[1]]
  /\ \A d \in Dir :
       /\ Started(d) => /\ pc[d] \in {"io", "retry", "stop", "join"}
                        /\ ctx[d].ended /\ ~reg[d] /\ ~done[d]
       /\ reg[d] => /\ pc[d] \in {"io", "retry", "stop"}
                    /\ ~ctx[d].ended
       /\ pc[d] \in {"check", "setDeadline", "register"} => ~done[d]
       /\ pc[d] # "idle" /\ done[d] => ctx[d].ended

DeadlineInv ==
  \A d \in Dir :
    /\ pc[d] \in {"register", "io", "retry", "stop"} /\ fileDl[d] = "past" =>
         ctx[d].ended \/ ctx[d].passed
    /\ pc[d] \in {"stop", "join", "return"}
         /\ result[d] \in {"ctx", "deadline"} =>
         ctx[d].ended \/ ctx[d].passed

IInv == TypeInv /\ FnInv /\ DeadlineInv

-----------------------------------------------------------------------------
LEMMA TypeAtInit == Init => TypeInv
<1>1. NoCtx \in Ctx
  BY DEF NoCtx, Ctx
<1> SUFFICES ASSUME Init PROVE TypeInv
  OBVIOUS
<1>2. ctx \in [Dir -> Ctx]
  BY <1>1 DEF Init
<1>3. closed \in BOOLEAN /\ fns \subseteq Dir \X Nat
  BY DEF Init
<1>4. reg \in [Dir -> BOOLEAN] /\ done \in [Dir -> BOOLEAN]
  BY DEF Init
<1>5. /\ pc \in [Dir -> Pc] /\ call \in [Dir -> Nat]
      /\ fileDl \in [Dir -> {"none", "ahead", "past"}]
      /\ result \in [Dir -> {"none", "ok", "ctx", "closed", "deadline"}]
  BY DEF Init, Pc
<1> QED BY <1>2, <1>3, <1>4, <1>5 DEF TypeInv

\* Every variable keeps its type.
THEOREM TypeCorrect == Spec => []TypeInv
<1>1. Init => TypeInv
  BY TypeAtInit
<1>2. TypeInv /\ [Next]_vars => TypeInv'
  <2> SUFFICES ASSUME TypeInv, [Next]_vars PROVE TypeInv'
    OBVIOUS
  <2> USE DEF TypeInv, Pc, Goto, ReturnWith, fileVars, fnVars, kernel
  <2>1. ASSUME NEW d \in Dir, NEW whose \in Deadlines, Call(d, whose)
        PROVE  TypeInv'
    <3>1. [NoCtx EXCEPT !.whose = whose] \in Ctx
      BY DeadlinesAssumption DEF NoCtx, Ctx
    <3> QED BY <2>1, <3>1 DEF Call
  <2>2. ASSUME NEW d \in Dir, CheckContext(d) PROVE TypeInv'
    BY <2>2 DEF CheckContext
  <2>3. ASSUME NEW d \in Dir, SetDeadline(d) PROVE TypeInv'
    BY <2>3 DEF SetDeadline, DeadlineOf
  <2>4. ASSUME NEW d \in Dir, Register(d) PROVE TypeInv'
    BY <2>4 DEF Register
  <2>5. ASSUME NEW d \in Dir, IoFails(d) PROVE TypeInv'
    <3>1. IoErrors(d) \subseteq {"ctx", "closed", "deadline"}
      BY DEF IoErrors
    <3> QED BY <2>5, <3>1 DEF IoFails
  <2>6. ASSUME NEW d \in Dir, Stop(d) \/ Join(d) \/ Return(d) PROVE TypeInv'
    BY <2>6 DEF Stop, Join, Return
  <2>7. CASE ReadFrame
    BY <2>7 DEF ReadFrame
  <2>8. CASE WriteFrame \/ Retry
    BY <2>8 DEF WriteFrame, Retry
  <2>9. ASSUME NEW d \in Dir, NEW byCaller \in BOOLEAN, End(d, byCaller)
        PROVE  TypeInv'
    <3>0. ctx[d] \in Ctx
      OBVIOUS
    <3>1. [ctx[d] EXCEPT !.ended = TRUE, !.caller = byCaller] \in Ctx
      BY <3>0 DEF Ctx
    <3>4. ctx' = [ctx EXCEPT
                    ![d] = [ctx[d] EXCEPT !.ended = TRUE, !.caller = byCaller]]
      BY <2>9 DEF End
    <3>2. ctx' \in [Dir -> Ctx]
      BY <3>1, <3>4
    <3>3. fns' \subseteq Dir \X Nat /\ reg' \in [Dir -> BOOLEAN]
      BY <2>9 DEF End
    <3> QED BY <2>9, <3>2, <3>3 DEF End
  <2>10. ASSUME NEW d \in Dir, ContextTimer(d) PROVE TypeInv'
    BY <2>9, <2>10 DEF ContextTimer
  <2>11. ASSUME NEW d \in Dir, DeadlinePasses(d) PROVE TypeInv'
    <3>1. ctx[d] \in Ctx
      OBVIOUS
    <3>2. [ctx[d] EXCEPT !.passed = TRUE] \in Ctx
      BY <3>1 DEF Ctx
    <3>3. ctx' \in [Dir -> Ctx]
      BY <2>11, <3>2 DEF DeadlinePasses
    <3> QED BY <2>11, <3>3 DEF DeadlinePasses
  <2>12. ASSUME NEW x \in fns, Interrupt(x) PROVE TypeInv'
    BY <2>12 DEF Interrupt, Interruption
  <2>13. ASSUME NEW data \in BOOLEAN, Close \/ Arrive(data) PROVE TypeInv'
    BY <2>13 DEF Close, Arrive
  <2>14. CASE UNCHANGED vars
    BY <2>14 DEF vars
  <2> QED BY <2>1, <2>2, <2>3, <2>4, <2>5, <2>6, <2>7, <2>8, <2>9, <2>10,
             <2>11, <2>12, <2>13, <2>14 DEF Next, Step, Cancel
<1> QED BY <1>1, <1>2, PTL DEF Spec

LEMMA CallStep ==
  ASSUME IInv, TypeInv', NEW d \in Dir, NEW w \in Deadlines, Call(d, w)
  PROVE  FnInv' /\ DeadlineInv'
<1>1. /\ pc[d] = "idle" /\ pc'[d] = "check" /\ ~done'[d] /\ ~Started(d)
      /\ UNCHANGED <<fileDl, reg, fns, result>>
      /\ \A e \in Dir \ {d} : /\ pc'[e] = pc[e] /\ call'[e] = call[e]
                              /\ ctx'[e] = ctx[e] /\ done'[e] = done[e]
  BY DEF Call, Goto, fileVars, IInv, TypeInv, FnInv
<1>2. ~reg[d] /\ \A x \in fns : x[1] \in Dir \ {d}
  <2>1. ASSUME NEW x \in fns, x[1] = d PROVE FALSE
    <3>1. x = <<x[1], x[2]>>
      BY DEF IInv, TypeInv
    <3> QED BY <1>1, <2>1, <3>1 DEF IInv, FnInv, Started
  <2> QED BY <1>1, <2>1 DEF IInv, TypeInv, FnInv
<1>3. FnInv'
  <2>1. \A x \in fns' : x[2] = call'[x[1]]
    BY <1>1, <1>2 DEF IInv, FnInv
  <2>2. ASSUME NEW e \in Dir, e # d PROVE Started(e)' <=> Started(e)
    BY <1>1, <2>2 DEF Started
  <2>3. ~ Started(d)'
    BY <1>1, <1>2 DEF Started
  <2> QED BY <1>1, <1>2, <2>1, <2>2, <2>3 DEF IInv, FnInv
<1>4. DeadlineInv'
  BY <1>1 DEF IInv, DeadlineInv
<1> QED BY <1>3, <1>4

LEMMA PrepareStep ==
  ASSUME IInv, TypeInv', NEW d \in Dir,
         CheckContext(d) \/ SetDeadline(d) \/ Register(d)
  PROVE  FnInv' /\ DeadlineInv'
<1> USE DEF IInv, TypeInv, Pc, Ctx, FnInv, DeadlineInv, Started, Goto,
            ReturnWith, fileVars, fnVars, kernel
<1>1. CASE CheckContext(d)
  BY <1>1 DEF CheckContext
<1>2. CASE SetDeadline(d)
  BY <1>2 DEF SetDeadline, DeadlineOf
<1>3. CASE Register(d)
  BY <1>3 DEF Register
<1> QED BY <1>1, <1>2, <1>3

LEMMA IoStep ==
  ASSUME IInv, TypeInv', NEW d \in Dir,
         \/ IoFails(d) \/ Stop(d) \/ Join(d) \/ Return(d)
         \/ ReadFrame \/ WriteFrame \/ Retry
  PROVE  FnInv' /\ DeadlineInv'
<1> USE DEF IInv, TypeInv, Pc, Ctx, FnInv, DeadlineInv, Started, Goto,
            ReturnWith, fileVars, fnVars, kernel
<1>1. CASE IoFails(d)
  BY <1>1 DEF IoFails, IoErrors
<1>2. CASE Stop(d)
  BY <1>2 DEF Stop
<1>3. CASE Join(d) \/ Return(d)
  BY <1>3 DEF Join, Joined, Return
<1>4. CASE ReadFrame
  <2>1. /\ "read" \in Dir /\ pc["read"] = "io"
        /\ UNCHANGED <<call, ctx, fileDl, reg, fns, done>>
        /\ \/ pc' = [pc EXCEPT !["read"] = "stop"]
              /\ result' = [result EXCEPT !["read"] = "ok"]
           \/ UNCHANGED <<pc, result>>
    BY <1>4 DEF ReadFrame
  <2> QED BY <2>1
<1>5. CASE WriteFrame \/ Retry
  BY <1>5 DEF WriteFrame, Retry
<1> QED BY <1>1, <1>2, <1>3, <1>4, <1>5

LEMMA EndStep ==
  ASSUME IInv, TypeInv', NEW d \in Dir, NEW byCaller \in BOOLEAN,
         End(d, byCaller)
  PROVE  FnInv' /\ DeadlineInv'
BY DEF IInv, TypeInv, Pc, Ctx, FnInv, DeadlineInv, Started, End, fileVars,
   kernel

LEMMA WorldStep ==
  ASSUME IInv, TypeInv',
         \/ \E x \in fns : Interrupt(x)
         \/ \E d \in Dir : DeadlinePasses(d)
         \/ Close \/ \E data \in BOOLEAN : Arrive(data)
  PROVE  FnInv' /\ DeadlineInv'
<1> USE DEF IInv, TypeInv, Pc, Ctx, FnInv, DeadlineInv, Started, fileVars,
            fnVars, kernel
<1>1. ASSUME NEW x \in fns, Interrupt(x) PROVE FnInv' /\ DeadlineInv'
  BY <1>1 DEF Interrupt, Interruption
<1>2. ASSUME NEW d \in Dir, DeadlinePasses(d) PROVE FnInv' /\ DeadlineInv'
  BY <1>2 DEF DeadlinePasses
<1>3. CASE Close \/ \E data \in BOOLEAN : Arrive(data)
  <2>1. UNCHANGED <<pc, call, ctx, fileDl, reg, fns, done, result>>
    BY <1>3 DEF Close, Arrive
  <2> QED BY <2>1
<1> QED BY <1>1, <1>2, <1>3

THEOREM Inductive == Spec => []IInv
<1>1. Init => IInv
  <2>1. Init => TypeInv
    BY TypeAtInit
  <2> QED BY <2>1 DEF Init, IInv, FnInv, DeadlineInv, Started
<1>2. TypeInv' /\ IInv /\ [Next]_vars => IInv'
  <2> SUFFICES ASSUME TypeInv', IInv, [Next]_vars
               PROVE  FnInv' /\ DeadlineInv'
    BY DEF IInv
  <2>1. CASE Next
    BY <2>1, CallStep, PrepareStep, IoStep, EndStep, WorldStep
       DEF Next, Step, Cancel, ContextTimer
  <2>2. CASE UNCHANGED vars
    BY <2>2 DEF vars, fileVars, fnVars, IInv, FnInv, DeadlineInv, Started
  <2> QED BY <2>1, <2>2
<1> QED BY <1>1, <1>2, TypeCorrect, PTL DEF Spec
\* "keep the interruption from hitting the next call": a failure for a
\* deadline or a context is the call's own, and a function that may still
\* interrupt belongs to the call under way.
THEOREM InterruptionIsOwn == Spec => []OwnInterruption
<1>1. IInv => OwnInterruption
  <2> SUFFICES ASSUME IInv PROVE OwnInterruption
    OBVIOUS
  <2>1. \A d \in Dir : pc[d] = "return" /\ result[d] \in {"ctx", "deadline"} =>
          ctx[d].ended \/ ctx[d].passed
    BY DEF IInv, DeadlineInv
  <2>2. ASSUME NEW x \in fns
        PROVE  x \in {<<d, call[d]>> : d \in {e \in Dir : pc[e] # "idle"}}
    <3>1. x[1] \in Dir /\ x = <<x[1], call[x[1]]>>
      BY DEF IInv, TypeInv, FnInv
    <3>2. pc[x[1]] # "idle"
      BY <3>1 DEF IInv, FnInv, Started
    <3> QED BY <3>1, <3>2
  <2> QED BY <2>1, <2>2 DEF OwnInterruption
<1> QED BY <1>1, Inductive, PTL

-----------------------------------------------------------------------------
\* The frames the kernel queued are the last of those that arrived.
QueueInv ==
  /\ log \in Seq(BOOLEAN)
  /\ rxq \in Seq(QueuedFrame)
  /\ got \in Seq(Nat)
  /\ Len(rxq) <= Len(log)

LEMMA ArriveKeeps ==
  ASSUME QueueInv, FramesKept, NEW data \in BOOLEAN, Arrive(data)
  PROVE  QueueInv' /\ FramesKept'
<1> DEFINE taken == Len(log) - Len(rxq)
           f == [n |-> Len(log) + 1, data |-> data]
<1>1. /\ log' = Append(log, data) /\ rxq' = Append(rxq, f) /\ got' = got
      /\ f \in QueuedFrame
      /\ Len(log) \in Nat /\ Len(rxq) \in Nat /\ Len(rxq) <= Len(log)
  BY DEF Arrive, QueueInv, QueuedFrame
<1>2. /\ Len(log') = Len(log) + 1 /\ Len(rxq') = Len(rxq) + 1
      /\ \A i \in 1 .. Len(log) : log'[i] = log[i]
      /\ log'[Len(log) + 1] = data
      /\ \A i \in 1 .. Len(rxq) : rxq'[i] = rxq[i]
      /\ rxq'[Len(rxq) + 1] = f
  BY <1>1 DEF QueueInv
<1>3. QueueInv'
  BY <1>1, <1>2 DEF QueueInv
<1>4. Len(log') - Len(rxq') = taken /\ taken \in Nat
  BY <1>1, <1>2
<1>5. ASSUME NEW i \in 1 .. Len(rxq')
      PROVE  rxq'[i] = [n |-> taken + i, data |-> log'[taken + i]]
  <2>1. CASE i \in 1 .. Len(rxq)
    <3>1. taken + i \in 1 .. Len(log)
      BY <1>1, <2>1
    <3> QED BY <1>2, <2>1, <3>1 DEF FramesKept
  <2>2. CASE i = Len(rxq) + 1
    <3>1. taken + i = Len(log) + 1
      BY <1>1, <2>2
    <3> QED BY <1>2, <2>2, <3>1
  <2>3. i \in 1 .. Len(rxq) \/ i = Len(rxq) + 1
    BY <1>1, <1>2
  <2> QED BY <2>1, <2>2, <2>3
<1>6. {got'[i] : i \in 1 .. Len(got')} = {k \in 1 .. taken : log'[k]}
  <2>1. \A k \in 1 .. taken : k \in 1 .. Len(log)
    BY <1>1, <1>4
  <2>2. \A k \in 1 .. taken : log'[k] <=> log[k]
    BY <1>2, <2>1
  <2>3. {k \in 1 .. taken : log'[k]} = {k \in 1 .. taken : log[k]}
    BY <2>2
  <2>4. {got[i] : i \in 1 .. Len(got)} = {k \in 1 .. taken : log[k]}
    BY DEF FramesKept
  <2> QED BY <1>1, <2>3, <2>4
<1>7. \A i, j \in 1 .. Len(got') : i < j => got'[i] < got'[j]
  BY <1>1 DEF FramesKept
<1> HIDE DEF taken
<1>8. FramesKept'
  BY <1>4, <1>5, <1>6, <1>7 DEF FramesKept
<1> QED BY <1>3, <1>8

LEMMA ReadFrameKeeps ==
  ASSUME QueueInv, FramesKept, ReadFrame PROVE QueueInv' /\ FramesKept'
<1> DEFINE taken == Len(log) - Len(rxq)
           f == rxq[1]
<1>1. /\ rxq # <<>> /\ rxq' = Tail(rxq) /\ log' = log
      /\ got' = IF f.data THEN Append(got, f.n) ELSE got
      /\ Len(log) \in Nat /\ Len(rxq) \in Nat \ {0} /\ Len(rxq) <= Len(log)
  <2>1. rxq # <<>> /\ rxq' = Tail(rxq) /\ log' = log
        /\ got' = got \o Returned(f)
    BY SMTT(30) DEF ReadFrame, QueueInv
  <2>2. f \in QueuedFrame
    <3>1. 1 \in 1 .. Len(rxq)
      BY <2>1 DEF QueueInv
    <3> QED BY <3>1 DEF QueueInv
  <2>3. got \o Returned(f) = IF f.data THEN Append(got, f.n) ELSE got
    BY SMTT(30), <2>2 DEF Returned, QueueInv, QueuedFrame
  <2> QED BY <2>1, <2>3 DEF QueueInv
<1>2. /\ Len(rxq') = Len(rxq) - 1
      /\ \A i \in 1 .. Len(rxq') : rxq'[i] = rxq[i + 1]
  BY <1>1 DEF QueueInv
<1>3. taken \in Nat /\ Len(log') - Len(rxq') = taken + 1
  BY <1>1, <1>2
<1>4. f = [n |-> taken + 1, data |-> log[taken + 1]]
      /\ log[taken + 1] \in BOOLEAN
  <2>1. 1 \in 1 .. Len(rxq) /\ taken + 1 \in 1 .. Len(log)
    BY <1>1
  <2> QED BY <2>1 DEF FramesKept, QueueInv
<1>5. ASSUME NEW i \in 1 .. Len(rxq')
      PROVE  rxq'[i] = [n |-> taken + 1 + i, data |-> log[taken + 1 + i]]
  <2>1. i + 1 \in 1 .. Len(rxq) /\ taken + (i + 1) = taken + 1 + i
    BY <1>1, <1>2
  <2> QED BY <1>2, <2>1 DEF FramesKept
<1>6. QueueInv'
  <2>1. rxq' \in Seq(QueuedFrame) /\ got' \in Seq(Nat)
    <3>1. f.n \in Nat
      BY <1>3, <1>4
    <3> QED BY <1>1, <3>1 DEF QueueInv
  <2> QED BY <1>1, <1>2, <2>1 DEF QueueInv
<1>7. \A i \in 1 .. Len(got) : got[i] \in 1 .. taken /\ log[got[i]]
  BY DEF FramesKept
<1>8. CASE f.data
  <2>1. /\ Len(got') = Len(got) + 1 /\ Len(got) \in Nat
        /\ \A i \in 1 .. Len(got) : got'[i] = got[i]
        /\ got'[Len(got) + 1] = taken + 1
        /\ log[taken + 1]
    BY <1>1, <1>4, <1>8 DEF QueueInv
  <2>2. \A i, j \in 1 .. Len(got') : i < j => got'[i] < got'[j]
    <3> SUFFICES ASSUME NEW i \in 1 .. Len(got'), NEW j \in 1 .. Len(got'),
                        i < j
                 PROVE  got'[i] < got'[j]
      OBVIOUS
    <3>1. i \in 1 .. Len(got)
      BY <2>1
    <3>2. CASE j \in 1 .. Len(got)
      BY <2>1, <3>1, <3>2 DEF FramesKept
    <3>3. CASE j = Len(got) + 1
      BY SMTT(30), <1>3, <1>7, <2>1, <3>1, <3>3
    <3> QED BY <2>1, <3>2, <3>3
  <2>3. {got'[i] : i \in 1 .. Len(got')}
          = {got[i] : i \in 1 .. Len(got)} \cup {taken + 1}
    BY <2>1
  <2>4. {k \in 1 .. taken + 1 : log[k]}
          = {k \in 1 .. taken : log[k]} \cup {taken + 1}
    BY <1>3, <2>1
  <2> QED BY <1>1, <1>3, <1>5, <1>6, <2>2, <2>3, <2>4 DEF FramesKept
<1>9. CASE ~f.data
  <2>1. got' = got /\ ~log[taken + 1]
    BY <1>1, <1>4, <1>9
  <2>2. {k \in 1 .. taken + 1 : log[k]} = {k \in 1 .. taken : log[k]}
    BY <1>3, <2>1
  <2> QED BY <1>1, <1>3, <1>5, <1>6, <2>1, <2>2 DEF FramesKept
<1> QED BY <1>8, <1>9

\* An interruption takes no frame away: those the kernel no longer has were
\* returned by Receive, once and in order, remote and error frames apart.
THEOREM FramesAreKept == Spec => []FramesKept
<1>1. Init => QueueInv /\ FramesKept
  BY DEF Init, QueueInv, FramesKept
<1>2. QueueInv /\ FramesKept /\ [Next]_vars => QueueInv' /\ FramesKept'
  <2> SUFFICES ASSUME QueueInv, FramesKept, [Next]_vars
               PROVE  QueueInv' /\ FramesKept'
    OBVIOUS
  <2>1. CASE UNCHANGED <<log, rxq, got>>
    BY <2>1 DEF QueueInv, FramesKept
  <2>2. ASSUME NEW d \in Dir, Step(d), ~ReadFrame
        PROVE  UNCHANGED <<log, rxq, got>>
    BY <2>2 DEF Step, CheckContext, SetDeadline, Register, IoFails, Stop, Join,
       Return, WriteFrame, Retry, kernel
  <2>3. ASSUME NEW d \in Dir, NEW w \in Deadlines, Call(d, w)
        PROVE  UNCHANGED <<log, rxq, got>>
    BY <2>3 DEF Call, kernel
  <2>4. ASSUME NEW d \in Dir,
               Cancel(d) \/ ContextTimer(d) \/ DeadlinePasses(d)
        PROVE  UNCHANGED <<log, rxq, got>>
    BY <2>4 DEF Cancel, ContextTimer, End, DeadlinePasses, kernel
  <2>5. CASE UNCHANGED vars
    BY <2>1, <2>5 DEF vars, kernel
  <2>6. CASE Close \/ \E x \in fns : Interrupt(x)
    BY <2>1, <2>6 DEF Close, Interrupt, kernel
  <2> QED BY <2>1, <2>2, <2>3, <2>4, <2>5, <2>6, ArriveKeeps, ReadFrameKeeps
          DEF Next
<1> QED BY <1>1, <1>2, PTL DEF Spec
==============================================================================
