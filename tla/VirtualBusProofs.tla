-------------------------- MODULE VirtualBusProofs --------------------------
(***************************************************************************)
(* The safety invariants of VirtualBus, for any set of endpoints and any   *)
(* number of frames.  The argument: Send holds the bus mutex from the      *)
(* moment its frame gets its place in the bus order until every endpoint   *)
(* has it (LockInv); an endpoint leaves the slice under that mutex before  *)
(* it is marked closed (LifeInv); so each queue grows at its end by the    *)
(* newest frame only (OrderInv).                                           *)
(***************************************************************************)
EXTENDS VirtualBus, TLAPS

LockInv ==
  \A s \in Port :
    /\ spc[s] = "delivering" <=> mu = s
    /\ todo[s] # {} => mu = s
    /\ ring[s] # None => mu = s
    /\ mu = s => frame[s] = Len(log)
    /\ todo[s] \subseteq attached

LifeInv ==
  \A p \in Port :
    /\ p \in attached => cpc[p] = "open"
    /\ cpc[p] \in {"unborn", "open"} => ~closed[p]
    /\ cpc[p] = "unborn" => queue[p] = <<>>
    /\ closed[p] => queue[p] = <<>>

OrderInv ==
  \A p \in Port :
    /\ read[p] \in 0 .. Len(log)
    /\ \A i \in 1 .. Len(queue[p]) : queue[p][i] \in 1 .. Len(log)
    /\ \A s \in Port : p \in todo[s] =>
         /\ read[p] < frame[s]
         /\ \A i \in 1 .. Len(queue[p]) : queue[p][i] < frame[s]

IInv == TypeOK /\ LockInv /\ LifeInv /\ OrderInv /\ SameOrder

-----------------------------------------------------------------------------
\* Type correctness of the endpoint state, the mutex and the histories.
THEOREM TypeCorrect == Spec => []TypeOK
<1>1. Init => TypeOK
  BY DEF Init, TypeOK
<1>2. TypeOK /\ [Next]_vars => TypeOK'
  <2> SUFFICES ASSUME TypeOK, [Next]_vars PROVE TypeOK'
    OBVIOUS
  <2> USE DEF TypeOK, busVars, portVars, sendVars, hist
  <2>1. ASSUME NEW p \in Port, Connect(p) PROVE TypeOK'
    BY <2>1 DEF Connect
  <2>2. ASSUME NEW s \in Port, SendCheck(s) PROVE TypeOK'
    BY <2>2 DEF SendCheck
  <2>3. ASSUME NEW s \in Port, SendLock(s) PROVE TypeOK'
    BY <2>3 DEF SendLock, LockBus, FrameOf, Targets
  <2>4. ASSUME NEW s \in Port, NEW q \in Port, Deliver(s, q) PROVE TypeOK'
    BY <2>4 DEF Deliver, QueueWith
  <2>5. ASSUME NEW s \in Port, Ring(s) PROVE TypeOK'
    BY <2>5 DEF Ring
  <2>6. ASSUME NEW s \in Port, SendReturn(s) PROVE TypeOK'
    BY <2>6 DEF SendReturn, UnlockBus
  <2>7. ASSUME NEW p \in Port, Take(p) PROVE TypeOK'
    <3>1. queue[p] \in Seq(Nat \ {0}) /\ queue[p] # <<>>
      BY <2>7 DEF Take
    <3>2. Head(queue[p]) \in Nat /\ Tail(queue[p]) \in Seq(Nat \ {0})
      BY <3>1
    <3> QED BY <2>7, <3>2 DEF Take
  <2>8. ASSUME NEW p \in Port,
               \/ ReceiveCall(p) \/ ReturnErrClosed(p) \/ Block(p)
               \/ Wake(p) \/ ContextDone(p)
        PROVE  TypeOK'
    BY ZenonT(60), <2>8
    DEF ReceiveCall, ReturnErrClosed, Block, Wake, ContextDone
  <2>9. ASSUME NEW p \in Port, CloseStep(p) PROVE TypeOK'
    <3>1. CASE CloseDetach(p)
      BY <3>1 DEF CloseDetach, CloseEnabled
    <3>2. CASE CloseMark(p)
      <4>1. queue' \in [Port -> Seq(Nat \ {0})]
        BY <3>2 DEF CloseMark
      <4> QED BY <3>2, <4>1 DEF CloseMark
    <3>3. CASE CloseNotify(p)
      BY <3>3 DEF CloseNotify, CloseToken
    <3> QED BY <2>9, <3>1, <3>2, <3>3 DEF CloseStep
  <2>10. CASE UNCHANGED vars
    BY <2>10 DEF vars
  <2> QED
    BY <2>1, <2>2, <2>3, <2>4, <2>5, <2>6, <2>7, <2>8, <2>9, <2>10
       DEF Next, SendStep, ReceiveStep
<1>3. QED
  BY <1>1, <1>2, PTL DEF Spec

-----------------------------------------------------------------------------
\* The inductive invariant.  Each action is one step, and under it each part
\* of the invariant that the action can disturb.
LEMMA InitIInv == Init => IInv
BY PortAssumption DEF Init, IInv, TypeOK, LockInv, LifeInv, OrderInv, SameOrder

LEMMA ConnectStep ==
  ASSUME IInv, TypeOK', NEW p \in Port, Connect(p) PROVE IInv'
<1>1. /\ UNCHANGED <<mu, queue, closed, spc, frame, todo, ring, log>>
      /\ attached' = attached \cup {p} /\ mu = None
      /\ cpc[p] = "unborn" /\ cpc[p]' = "open" /\ read[p]' = Len(log)
      /\ \A r \in Port \ {p} : cpc[r]' = cpc[r] /\ read[r]' = read[r]
  BY DEF Connect, portVars, sendVars, IInv, TypeOK
<1>2. queue[p] = <<>> /\ \A s \in Port : todo[s] = {}
  BY <1>1, PortAssumption DEF LockInv, LifeInv, IInv
<1>3. LockInv'
  BY <1>1 DEF LockInv, IInv
<1>4. LifeInv'
  BY <1>1 DEF LifeInv, IInv
<1>5. OrderInv' /\ SameOrder'
  <2>1. Len(log) \in 0 .. Len(log) /\ Len(queue[p]) = 0
    BY <1>2 DEF IInv, TypeOK
  <2> QED BY <1>1, <1>2, <2>1 DEF OrderInv, SameOrder, IInv
<1> QED BY <1>3, <1>4, <1>5 DEF IInv

LEMMA SendLockStep ==
  ASSUME IInv, TypeOK', NEW s \in Port, SendLock(s) PROVE IInv'
<1> USE PortAssumption DEF IInv, TypeOK, SendLock, LockBus, FrameOf, Targets,
                           portVars
<1>1. Len(log') = Len(log) + 1
  OBVIOUS
<1>2. LockInv'
  BY <1>1 DEF LockInv
<1>3. LifeInv'
  BY DEF LifeInv
<1>4. OrderInv'
  <2> SUFFICES ASSUME NEW p \in Port PROVE OrderInv!(p)'
    BY DEF OrderInv
  <2>1. read[p]' \in 0 .. Len(log')
    BY <1>1 DEF OrderInv
  <2>2. \A i \in 1 .. Len(queue[p]) : queue[p][i] \in 1 .. Len(log')
    BY <1>1 DEF OrderInv
  <2>3. ASSUME NEW t \in Port, p \in todo[t]' PROVE t = s
    <3>1. t # s => todo[t] = {} /\ todo[t]' = todo[t]
      BY SMTT(30) DEF LockInv
    <3> QED BY <2>3, <3>1
  <2>4. frame[s]' = Len(log) + 1
    OBVIOUS
  <2> QED BY SMTT(30), <2>1, <2>2, <2>3, <2>4 DEF OrderInv
<1>5. SameOrder'
  BY DEF SameOrder
<1> QED BY <1>2, <1>3, <1>4, <1>5

LEMMA DeliverStep ==
  ASSUME IInv, TypeOK', NEW s \in Port, NEW q \in Port, Deliver(s, q)
  PROVE  IInv'
<1>1. /\ mu = s /\ q \in attached /\ ~closed[q] /\ frame[s] = Len(log)
      /\ q \in todo[s] /\ queue[q] \in Seq(Nat \ {0}) /\ frame[s] \in Nat
  BY DEF LockInv, LifeInv, IInv, TypeOK, Deliver
<1>2. /\ queue[q]' = Append(queue[q], frame[s])
      /\ \A p \in Port \ {q} : queue[p]' = queue[p]
  BY <1>1 DEF Deliver, QueueWith, IInv, TypeOK
<1>3. /\ Len(queue[q]') = Len(queue[q]) + 1
      /\ Len(queue[q]) \in Nat
      /\ queue[q]'[Len(queue[q]) + 1] = frame[s]
      /\ \A i \in 1 .. Len(queue[q]) : queue[q]'[i] = queue[q][i]
  BY <1>1, <1>2
<1>4. /\ UNCHANGED <<attached, mu, closed, spc, frame, cpc, log, read>>
      /\ \A t \in Port \ {s} : todo[t]' = todo[t] /\ ring[t]' = ring[t]
      /\ todo[s]' = todo[s] \ {q} /\ ring[s]' = q
  BY DEF Deliver, busVars, hist, IInv, TypeOK
<1>5. LockInv'
  BY <1>1, <1>4 DEF LockInv, IInv
<1>6. LifeInv'
  BY <1>1, <1>2, <1>4 DEF LifeInv, IInv
<1>7. /\ read[q] < frame[s]
      /\ \A i \in 1 .. Len(queue[q]) : queue[q][i] < frame[s]
  BY <1>1 DEF OrderInv, IInv
<1>8. OrderInv'
  <2> SUFFICES ASSUME NEW p \in Port PROVE OrderInv!(p)'
    BY DEF OrderInv
  <2>1. CASE p # q
    BY <2>1, <1>2, <1>4 DEF OrderInv, IInv
  <2>2. CASE p = q
    <3>1. read[q]' \in 0 .. Len(log)'
      BY <1>4 DEF OrderInv, IInv
    <3>2. frame[s] \in 1 .. Len(log)
      BY <1>1, <1>7 DEF IInv, TypeOK
    <3>3. \A i \in 1 .. Len(queue[q]') : queue[q]'[i] \in 1 .. Len(log)
      BY SMTT(30), <3>2, <1>3 DEF OrderInv, IInv
    <3>4. \A t \in Port : q \notin todo[t]'
      BY <1>1, <1>4 DEF LockInv, IInv
    <3> QED BY <2>2, <3>1, <3>3, <3>4, <1>4
  <2> QED BY <2>1, <2>2
<1>9. SameOrder'
  <2> SUFFICES ASSUME NEW p \in Port PROVE SameOrder!(p)'
    BY DEF SameOrder
  <2>1. CASE p # q
    BY <2>1, <1>2, <1>4 DEF SameOrder, IInv
  <2>2. CASE p = q
    <3> DEFINE n == Len(queue[q])
    <3>1. /\ \A i \in 1 .. n : queue[q][i] > read[q]
          /\ \A i, j \in 1 .. n : i < j => queue[q][i] < queue[q][j]
          /\ read[q] \in Nat
      BY DEF SameOrder, IInv, TypeOK
    <3>2. ASSUME NEW i \in 1 .. Len(queue[q]')
          PROVE  queue[q]'[i] > read[q]'
      <4>1. i \in 1 .. n \/ i = n + 1
        BY <1>3
      <4> QED BY <4>1, <3>1, <1>1, <1>3, <1>4, <1>7
    <3>3. ASSUME NEW i \in 1 .. Len(queue[q]'), NEW j \in 1 .. Len(queue[q]'),
                 i < j
          PROVE  queue[q]'[i] < queue[q]'[j]
      <4>1. i \in 1 .. n /\ (j \in 1 .. n \/ j = n + 1)
        BY <1>3, <3>3
      <4> QED BY <4>1, <3>1, <3>3, <1>3, <1>7
    <3> QED BY <2>2, <3>2, <3>3
  <2> QED BY <2>1, <2>2
<1> QED BY <1>5, <1>6, <1>8, <1>9 DEF IInv

LEMMA SendOtherStep ==
  ASSUME IInv, TypeOK', NEW s \in Port,
         SendCheck(s) \/ Ring(s) \/ SendReturn(s)
  PROVE  IInv'
<1>1. UNCHANGED <<attached, queue, closed, frame, todo, cpc, log, read>>
  BY DEF SendCheck, Ring, SendReturn, busVars, portVars, hist
<1>2. LockInv'
  <2> USE PortAssumption DEF IInv, TypeOK, LockInv
  <2>1. CASE SendCheck(s)
    BY <1>1, <2>1 DEF SendCheck, busVars
  <2>2. CASE Ring(s)
    BY <1>1, <2>2 DEF Ring, busVars
  <2>3. CASE SendReturn(s)
    BY <1>1, <2>3 DEF SendReturn, UnlockBus
  <2> QED BY <2>1, <2>2, <2>3
<1>3. LifeInv' /\ OrderInv' /\ SameOrder'
  BY <1>1 DEF IInv, LifeInv, OrderInv, SameOrder
<1> QED BY <1>2, <1>3 DEF IInv

LEMMA TakeStep ==
  ASSUME IInv, TypeOK', NEW p \in Port, Take(p) PROVE IInv'
<1>1. /\ queue[p] \in Seq(Nat \ {0}) /\ queue[p] # <<>>
      /\ queue[p]' = Tail(queue[p]) /\ read[p]' = Head(queue[p])
  BY DEF Take, IInv, TypeOK
<1>2. /\ Len(queue[p]') = Len(queue[p]) - 1
      /\ Len(queue[p]) \in Nat /\ Len(queue[p]) >= 1
      /\ read[p]' = queue[p][1]
      /\ \A i \in 1 .. Len(queue[p]') : queue[p]'[i] = queue[p][i + 1]
  BY <1>1
<1>3. \A r \in Port \ {p} : queue[r]' = queue[r] /\ read[r]' = read[r]
  BY DEF Take, IInv, TypeOK
<1>4. UNCHANGED <<attached, mu, closed, spc, frame, todo, ring, cpc, log>>
  BY DEF Take, busVars, sendVars
<1>5. LockInv'
  BY <1>4 DEF LockInv, IInv
<1>6. LifeInv'
  BY <1>1, <1>3, <1>4 DEF LifeInv, IInv
<1>7. OrderInv'
  <2> SUFFICES ASSUME NEW r \in Port PROVE OrderInv!(r)'
    BY DEF OrderInv
  <2>1. CASE r # p
    BY <2>1, <1>3, <1>4 DEF OrderInv, IInv
  <2>2. CASE r = p
    <3>1. read[p]' \in 0 .. Len(log)' /\ read[p] < read[p]'
      BY <1>2, <1>4 DEF OrderInv, SameOrder, IInv
    <3>2. \A i \in 1 .. Len(queue[p]') : queue[p]'[i] \in 1 .. Len(log)'
      BY <1>2, <1>4 DEF OrderInv, IInv
    <3>3. ASSUME NEW s \in Port, p \in todo[s]'
          PROVE  /\ read[p]' < frame[s]'
                 /\ \A i \in 1 .. Len(queue[p]') : queue[p]'[i] < frame[s]'
      <4>1. \A i \in 1 .. Len(queue[p]) : queue[p][i] < frame[s]
        BY <3>3, <1>4 DEF OrderInv, IInv
      <4> QED BY <4>1, <1>2, <1>4
    <3> QED BY <2>2, <3>1, <3>2, <3>3
  <2> QED BY <2>1, <2>2
<1>8. SameOrder'
  <2> SUFFICES ASSUME NEW r \in Port PROVE SameOrder!(r)'
    BY DEF SameOrder
  <2>1. CASE r # p
    BY <2>1, <1>3 DEF SameOrder, IInv
  <2>2. CASE r = p
    BY <2>2, <1>2 DEF SameOrder, IInv
  <2> QED BY <2>1, <2>2
<1> QED BY <1>5, <1>6, <1>7, <1>8 DEF IInv

LEMMA ReceiveOtherStep ==
  ASSUME IInv, TypeOK', NEW p \in Port,
         \/ ReceiveCall(p) \/ ReturnErrClosed(p) \/ Block(p)
         \/ Wake(p) \/ ContextDone(p)
  PROVE  IInv'
<1>1. UNCHANGED <<attached, mu, queue, closed, spc, frame, todo, ring, cpc,
                  log, read>>
  BY DEF ReceiveCall, ReturnErrClosed, Block, Wake, ContextDone,
         busVars, portVars, sendVars, hist
<1> QED BY <1>1 DEF IInv, LockInv, LifeInv, OrderInv, SameOrder

LEMMA CloseInvStep ==
  ASSUME IInv, TypeOK', NEW p \in Port, CloseStep(p) PROVE IInv'
<1>1. CASE CloseDetach(p)
  <2> USE <1>1 DEF CloseDetach, CloseEnabled, portVars, sendVars, hist
  <2>1. LockInv'
    BY PortAssumption DEF LockInv, IInv, TypeOK
  <2>2. LifeInv'
    BY DEF LifeInv, IInv, TypeOK
  <2>3. OrderInv' /\ SameOrder'
    BY DEF OrderInv, SameOrder, IInv
  <2> QED BY <2>1, <2>2, <2>3 DEF IInv
<1>2. CASE CloseMark(p)
  <2>1. /\ queue[p]' = <<>> /\ closed[p]'
        /\ \A r \in Port \ {p} : queue[r]' = queue[r] /\ closed[r]' = closed[r]
        /\ cpc[p]' = "marked"
        /\ \A r \in Port \ {p} : cpc[r]' = cpc[r]
        /\ UNCHANGED <<attached, mu, spc, frame, todo, ring, log, read>>
        /\ cpc[p] = "detached"
    BY <1>2 DEF CloseMark, busVars, sendVars, hist, IInv, TypeOK
  <2>2. LockInv'
    BY <2>1 DEF LockInv, IInv
  <2>3. LifeInv'
    BY <2>1 DEF LifeInv, IInv
  <2>4. OrderInv'
    <3> SUFFICES ASSUME NEW r \in Port PROVE OrderInv!(r)'
      BY DEF OrderInv
    <3>1. CASE r = p
      BY <2>1, <3>1 DEF OrderInv, LockInv, LifeInv, IInv
    <3>2. CASE r # p
      BY <2>1, <3>2 DEF OrderInv, IInv
    <3> QED BY <3>1, <3>2
  <2>5. SameOrder'
    <3> SUFFICES ASSUME NEW r \in Port PROVE SameOrder!(r)'
      BY DEF SameOrder
    <3> QED BY <2>1 DEF SameOrder, IInv
  <2> QED BY <2>2, <2>3, <2>4, <2>5 DEF IInv
<1>3. CASE CloseNotify(p)
  <2>1. UNCHANGED <<attached, mu, queue, closed, spc, frame, todo, ring,
                    log, read>>
    BY <1>3 DEF CloseNotify, busVars, sendVars, hist
  <2>2. cpc[p] = "marked" /\ cpc' = [cpc EXCEPT ![p] = "done"]
    BY <1>3 DEF CloseNotify
  <2>3. LockInv' /\ OrderInv' /\ SameOrder'
    BY <2>1 DEF LockInv, OrderInv, SameOrder, IInv
  <2>4. LifeInv'
    BY <2>1, <2>2 DEF LifeInv, IInv, TypeOK
  <2> QED BY <2>3, <2>4 DEF IInv
<1> QED BY <1>1, <1>2, <1>3 DEF CloseStep

\* The bus mutex, the life of an endpoint and the order of every queue, as
\* one inductive invariant.
THEOREM Inductive == Spec => []IInv
<1>1. ASSUME TypeOK', IInv /\ [Next]_vars PROVE IInv'
  <2>1. CASE Next
    BY <1>1, <2>1, ConnectStep, SendLockStep, DeliverStep, SendOtherStep,
       TakeStep, ReceiveOtherStep, CloseInvStep
       DEF Next, SendStep, ReceiveStep
  <2>2. CASE UNCHANGED vars
    BY <1>1, <2>2 DEF vars, busVars, portVars, sendVars, hist, IInv, TypeOK,
       LockInv, LifeInv, OrderInv, SameOrder
  <2> QED BY <1>1, <2>1, <2>2
<1> QED BY <1>1, InitIInv, TypeCorrect, PTL DEF Spec

\* "All endpoints observe frames in the same order."
THEOREM OrderIsKept == Spec => []SameOrder
BY Inductive, PTL DEF IInv

\* Nothing is left in, or still on its way to, an endpoint that was closed.
THEOREM ClosedStaysSilent == Spec => []ClosedIsSilent
<1>1. IInv => ClosedIsSilent
  BY DEF IInv, LockInv, LifeInv, ClosedIsSilent, TypeOK
<1> QED BY <1>1, Inductive, PTL

-----------------------------------------------------------------------------
\* Between the look at the queue and the wait on the channel nothing is lost:
\* whoever changes the queue or the flag still has the notification to make.
THEOREM WakeupIsNotLost == Spec => []NoLostWakeup
<1>1. Init => NoLostWakeup
  BY DEF Init, NoLostWakeup
<1>2. ASSUME TypeOK, NoLostWakeup, [Next]_vars PROVE NoLostWakeup'
  <2> SUFFICES ASSUME NEW p \in Port, rpc[p]' = "select",
                      queue[p]' # <<>> \/ closed[p]'
               PROVE  \/ notify[p]' \/ cpc[p]' = "marked"
                      \/ \E s \in Port : ring[s]' = p
    BY DEF NoLostWakeup
  <2> DEFINE Unanswered == queue[p] # <<>> \/ closed[p]
             Promised == \/ notify[p] \/ cpc[p] = "marked"
                         \/ \E s \in Port : ring[s] = p
  <2>1. rpc[p] = "select" /\ Unanswered => Promised
    BY <1>2 DEF NoLostWakeup
  <2> USE <1>2 DEF TypeOK
  <2>2. ASSUME NEW s \in Port, NEW q \in Port, Deliver(s, q)
        PROVE  \E t \in Port : ring[t]' = p \/ notify[p]'
                                            \/ cpc[p]' = "marked"
    <3>1. CASE q = p
      BY <2>2, <3>1 DEF Deliver
    <3>2. CASE q # p
      BY <2>1, <2>2, <3>2, PortAssumption DEF Deliver, busVars, hist
    <3> QED BY <3>1, <3>2
  <2>3. ASSUME NEW s \in Port, Ring(s)
        PROVE  \E t \in Port : ring[t]' = p \/ notify[p]'
                                            \/ cpc[p]' = "marked"
    <3>1. CASE ring[s] = p
      BY <2>3, <3>1 DEF Ring
    <3>2. CASE ring[s] # p
      BY <2>1, <2>3, <3>2 DEF Ring, busVars, hist
    <3> QED BY <3>1, <3>2
  <2>4. ASSUME NEW r \in Port, \/ SendCheck(r) \/ SendLock(r)
                              \/ SendReturn(r) \/ Connect(r)
        PROVE  Promised'
    <3>1. UNCHANGED <<queue, closed, notify, rpc, ring>>
      BY <2>4 DEF SendCheck, SendLock, SendReturn, Connect, portVars, sendVars
    <3>2. cpc[p] = "marked" => cpc[p]' = "marked"
      BY <2>4 DEF SendCheck, SendLock, SendReturn, Connect
    <3> QED BY <2>1, <3>1, <3>2
  <2>5. ASSUME NEW r \in Port, ReceiveStep(r)
        PROVE  Promised'
    <3>1. UNCHANGED <<closed, cpc, ring>>
      BY <2>5 DEF ReceiveStep, ReceiveCall, Take, ReturnErrClosed, Block, Wake,
                  ContextDone, portVars, sendVars
    <3>2. CASE r = p
      BY <2>5, <3>2 DEF ReceiveStep, ReceiveCall, Take, ReturnErrClosed, Block,
                        Wake, ContextDone, portVars
    <3>3. CASE r # p
      <4>1. UNCHANGED <<rpc[p], queue[p], notify[p]>>
        BY <2>5, <3>3 DEF ReceiveStep, ReceiveCall, Take, ReturnErrClosed,
                          Block, Wake, ContextDone, portVars
      <4> QED BY <2>1, <3>1, <4>1
    <3> QED BY <3>2, <3>3
  <2>6. ASSUME NEW r \in Port, CloseStep(r)
        PROVE  Promised'
    <3>1. UNCHANGED <<rpc, ring>>
      BY <2>6 DEF CloseStep, CloseDetach, CloseMark, CloseNotify, sendVars
    <3>2. CASE r = p
      <4>1. CASE CloseDetach(p)
        BY <2>1, <3>1, <3>2, <4>1 DEF CloseDetach, CloseEnabled, portVars
      <4>2. CASE CloseMark(p) \/ CloseNotify(p)
        BY <3>2, <4>2 DEF CloseMark, CloseNotify, CloseToken
      <4> QED BY <2>6, <3>2, <4>1, <4>2 DEF CloseStep
    <3>3. CASE r # p
      <4>1. UNCHANGED <<closed[p], queue[p], notify[p], cpc[p]>>
        BY <2>6, <3>3
           DEF CloseStep, CloseDetach, CloseMark, CloseNotify,
             CloseToken, portVars
      <4> QED BY <2>1, <3>1, <4>1
    <3> QED BY <3>2, <3>3
  <2>7. CASE UNCHANGED vars
    BY <2>1, <2>7 DEF vars, portVars, sendVars
  <2> QED BY <2>2, <2>3, <2>4, <2>5, <2>6, <2>7 DEF Next, SendStep
<1> QED BY <1>1, <1>2, TypeCorrect, PTL DEF Spec

-----------------------------------------------------------------------------
\* "a slow reader never loses frames": every frame of another endpoint sent
\* since this one connected is queued here or on its way while it is attached.
Kept(p, k) == \/ \E i \in 1 .. Len(queue[p]) : queue[p][i] = k
              \/ \E s \in Port : frame[s] = k /\ p \in todo[s]

LEMMA NothingLostStep ==
  ASSUME IInv, TypeOK', NothingLost, [Next]_vars PROVE NothingLost'
<1> SUFFICES ASSUME NEW p \in attached', NEW k \in 1 .. Len(log'),
                    k > read[p]', log'[k] # p
             PROVE  Kept(p, k)'
  BY DEF NothingLost, Frame, Kept
<1>1. p \in Port /\ Len(log) \in Nat
  BY DEF TypeOK, IInv
<1>2. ASSUME p \in attached, k \in 1 .. Len(log), k > read[p], log[k] # p
      PROVE  Kept(p, k)
  BY <1>2 DEF NothingLost, Frame, Kept
<1>3. ASSUME NEW r \in Port, Connect(r) PROVE Kept(p, k)'
  <2>1. UNCHANGED <<log, queue, frame, todo>>
        /\ attached' = attached \cup {r}
        /\ read' = [read EXCEPT ![r] = Len(log)]
    BY <1>3 DEF Connect, portVars, sendVars
  <2>2. p # r
    BY <2>1 DEF IInv, TypeOK
  <2> QED BY <1>2, <2>1, <2>2 DEF Kept, IInv, TypeOK
<1>4. ASSUME NEW s \in Port, SendLock(s) PROVE Kept(p, k)'
  <2>1. /\ log' = Append(log, s) /\ todo'[s] = attached \ {s}
        /\ frame'[s] = Len(log) + 1 /\ UNCHANGED <<attached, queue, read>>
    BY <1>4 DEF SendLock, FrameOf, Targets, portVars, IInv, TypeOK
  <2>2. CASE k = Len(log) + 1
    BY <2>1, <2>2, <1>1 DEF Kept, IInv, TypeOK
  <2>3. CASE k # Len(log) + 1
    <3>1. k \in 1 .. Len(log) /\ log[k] = log'[k]
      BY <2>1, <2>3 DEF IInv, TypeOK
    <3>2. \A t \in Port : todo[t] = {}
      BY <1>4, PortAssumption DEF SendLock, LockBus, LockInv, IInv
    <3> QED BY <1>2, <2>1, <3>1, <3>2 DEF Kept
  <2> QED BY <2>2, <2>3
<1>5. ASSUME NEW s \in Port, NEW q \in Port, Deliver(s, q) PROVE Kept(p, k)'
  <2>1. /\ UNCHANGED <<attached, log, read, frame>> /\ ~closed[q]
        /\ \A t \in Port : todo[t]' = IF t = s THEN todo[t] \ {q} ELSE todo[t]
    <3>1. q \in attached
      BY <1>5 DEF Deliver, LockInv, IInv
    <3>2. ~closed[q]
      BY <3>1 DEF LifeInv, IInv
    <3> QED BY ZenonT(60), <1>5, <3>2 DEF Deliver, busVars, hist, IInv, TypeOK
  <2>2. Kept(p, k)
    BY <1>2, <2>1
  <2>3. CASE p # q
    <3>1. queue[p]' = queue[p]
      BY <1>5, <2>3 DEF Deliver, QueueWith, IInv, TypeOK
    <3> QED BY <2>1, <2>2, <2>3, <3>1 DEF Kept
  <2>4. CASE p = q
    <3>1. queue[p]' = Append(queue[p], frame[s]) /\ queue[p] \in Seq(Nat \ {0})
      BY <1>5, <2>1, <2>4 DEF Deliver, QueueWith, IInv, TypeOK
    <3>2. /\ Len(queue[p]') = Len(queue[p]) + 1 /\ Len(queue[p]) \in Nat
          /\ queue[p]'[Len(queue[p]) + 1] = frame[s]
          /\ \A i \in 1 .. Len(queue[p]) : queue[p]'[i] = queue[p][i]
      <4>1. frame[s] \in Nat
        BY DEF IInv, TypeOK
      <4> QED BY <3>1, <4>1
    <3>3. CASE \E i \in 1 .. Len(queue[p]) : queue[p][i] = k
      BY SMTT(30), <3>2, <3>3 DEF Kept
    <3>4. CASE \E t \in Port : frame[t] = k /\ p \in todo[t]
      <4>1. PICK t \in Port : frame[t] = k /\ p \in todo[t]
        BY <3>4
      <4>2. t = s
        BY <1>5, <4>1 DEF Deliver, LockInv, IInv
      <4>3. Len(queue[p]) + 1 \in 1 .. Len(queue[p]')
        BY <3>2
      <4> QED BY <3>2, <4>1, <4>2, <4>3 DEF Kept
    <3> QED BY <2>2, <3>3, <3>4 DEF Kept
  <2> QED BY <2>3, <2>4
<1>6. ASSUME NEW r \in Port, Take(r) PROVE Kept(p, k)'
  <2>1. /\ UNCHANGED <<attached, log, frame, todo>>
        /\ queue[r] \in Seq(Nat \ {0}) /\ queue[r] # <<>>
        /\ queue[r]' = Tail(queue[r]) /\ read[r]' = Head(queue[r])
    BY <1>6 DEF Take, busVars, sendVars, IInv, TypeOK
  <2>2. CASE p # r
    <3>1. UNCHANGED <<queue[p], read[p]>>
      BY <1>6, <2>2 DEF Take, IInv, TypeOK
    <3> QED BY <1>2, <2>1, <3>1 DEF Kept
  <2>3. CASE p = r
    <3>1. /\ Len(queue[p]') = Len(queue[p]) - 1 /\ Len(queue[p]) \in Nat \ {0}
          /\ \A i \in 2 .. Len(queue[p]) : queue[p]'[i - 1] = queue[p][i]
          /\ read[p]' = queue[p][1]
      <4>1. /\ queue[p] \in Seq(Nat \ {0}) /\ queue[p] # <<>>
            /\ queue[p]' = Tail(queue[p]) /\ read[p]' = Head(queue[p])
        BY <2>1, <2>3
      <4>2. Len(queue[p]) \in Nat \ {0} /\ Len(queue[p]') = Len(queue[p]) - 1
        BY <4>1
      <4>3. \A i \in 1 .. Len(Tail(queue[p])) :
              Tail(queue[p])[i] = queue[p][i + 1]
        BY <4>1
      <4>4. ASSUME NEW i \in 2 .. Len(queue[p])
            PROVE  queue[p]'[i - 1] = queue[p][i]
        <5>1. i - 1 \in 1 .. Len(queue[p]') /\ (i - 1) + 1 = i
          BY <4>2
        <5> QED BY <4>1, <4>3, <5>1
      <4>5. read[p]' = queue[p][1]
        BY <4>1
      <4> QED BY <4>2, <4>4, <4>5
    <3>2. read[p] < read[p]' /\ read[p] \in Nat /\ read[p]' \in Nat
      <4>1. read[p] \in Nat /\ read[p]' \in Nat
        BY <1>1 DEF IInv, TypeOK
      <4>2. queue[p][1] > read[p]
        BY <3>1, <1>1 DEF SameOrder, IInv
      <4> QED BY <3>1, <4>1, <4>2
    <3>3. Kept(p, k)
      BY <1>2, <2>1, <3>2
    <3>4. CASE \E t \in Port : frame[t] = k /\ p \in todo[t]
      BY <2>1, <3>4 DEF Kept
    <3>5. CASE \E i \in 1 .. Len(queue[p]) : queue[p][i] = k
      <4>1. PICK i \in 1 .. Len(queue[p]) : queue[p][i] = k
        BY <3>5
      <4>2. i # 1
        BY <3>1, <4>1
      <4>3. i - 1 \in 1 .. Len(queue[p]') /\ queue[p]'[i - 1] = k
        BY <3>1, <4>1, <4>2
      <4> QED BY <4>3 DEF Kept
    <3> QED BY <3>3, <3>4, <3>5 DEF Kept
  <2> QED BY <2>2, <2>3
<1>7. ASSUME NEW r \in Port,
             \/ SendCheck(r) \/ Ring(r) \/ SendReturn(r)
             \/ ReceiveCall(r) \/ ReturnErrClosed(r) \/ Block(r)
             \/ Wake(r) \/ ContextDone(r) \/ CloseNotify(r)
      PROVE  Kept(p, k)'
  <2>1. UNCHANGED <<attached, queue, log, read, frame, todo>>
    BY <1>7 DEF SendCheck, Ring, SendReturn, ReceiveCall, ReturnErrClosed,
       Block, Wake, ContextDone, CloseNotify, busVars, portVars, sendVars, hist
  <2> QED BY <1>2, <2>1 DEF Kept
<1>8. ASSUME NEW r \in Port, CloseDetach(r) PROVE Kept(p, k)'
  <2>1. /\ UNCHANGED <<queue, log, read, frame, todo>>
        /\ attached' = attached \ {r}
    BY <1>8 DEF CloseDetach, portVars, sendVars, hist
  <2> QED BY <1>2, <2>1 DEF Kept
<1>9. ASSUME NEW r \in Port, CloseMark(r) PROVE Kept(p, k)'
  <2>1. UNCHANGED <<attached, log, read, frame, todo>>
    BY <1>9 DEF CloseMark, busVars, sendVars, hist
  <2>2. queue[p]' = queue[p]
    BY <1>9, <2>1 DEF CloseMark, LifeInv, IInv, TypeOK
  <2> QED BY <1>2, <2>1, <2>2 DEF Kept
<1>10. CASE UNCHANGED vars
  BY <1>2, <1>10 DEF vars, busVars, portVars, sendVars, hist, Kept
<1> QED
  BY <1>3, <1>4, <1>5, <1>6, <1>7, <1>8, <1>9, <1>10
     DEF Next, SendStep, ReceiveStep, CloseStep

\* "Endpoint queues are unbounded, so a slow reader never loses frames."
THEOREM NothingIsLost == Spec => []NothingLost
<1>1. Init => NothingLost
  BY DEF Init, NothingLost
<1>2. ASSUME IInv, TypeOK', NothingLost, [Next]_vars PROVE NothingLost'
  BY <1>2, NothingLostStep
<1>3. IInv /\ IInv' /\ NothingLost /\ [Next]_vars => NothingLost'
  BY <1>2 DEF IInv
<1> QED BY <1>1, <1>3, Inductive, PTL DEF Spec
-----------------------------------------------------------------------------
\* What the step of reading needs beyond NothingLost, which speaks only of the
\* endpoints in the slice: a queue never holds an endpoint's own frame, and
\* has no gap even after the endpoint has been taken out.
GapInv ==
  /\ \A s \in Port :
       /\ spc[s] # "idle" => cpc[s] # "unborn"
       /\ mu = s => log # <<>> /\ log[Len(log)] = s
       /\ s \notin todo[s]
  /\ \A p \in Port : \A i \in 1 .. Len(queue[p]) :
       /\ log[queue[p][i]] # p
       /\ \A k \in 1 .. Len(log) :
            read[p] < k /\ k < queue[p][i] /\ log[k] # p =>
              \E j \in 1 .. Len(queue[p]) : queue[p][j] = k

LEMMA GapFrameStep ==
  ASSUME IInv, TypeOK', GapInv, NEW r \in Port,
         \/ Connect(r) \/ SendCheck(r) \/ Ring(r) \/ SendReturn(r)
         \/ ReceiveCall(r) \/ ReturnErrClosed(r) \/ Block(r) \/ Wake(r)
         \/ ContextDone(r) \/ CloseStep(r)
  PROVE  GapInv'
<1>1. UNCHANGED <<log, todo, frame>>
  BY DEF Connect, SendCheck, Ring, SendReturn, ReceiveCall, ReturnErrClosed,
     Block, Wake, ContextDone, CloseStep, CloseDetach, CloseMark, CloseNotify,
     portVars, sendVars, hist
<1>2. \A s \in Port : mu' = s => mu = s
  BY PortAssumption DEF Connect, SendCheck, Ring, SendReturn, ReceiveCall,
     ReturnErrClosed, Block, Wake, ContextDone, CloseStep, CloseDetach,
     CloseMark, CloseNotify, busVars, UnlockBus
<1>3. \A s \in Port : spc'[s] # "idle" => cpc'[s] # "unborn"
  <2> SUFFICES ASSUME NEW s \in Port
               PROVE  spc'[s] # "idle" => cpc'[s] # "unborn"
    OBVIOUS
  <2>1. spc[s] # "idle" => cpc[s] # "unborn"
    BY DEF GapInv
  <2>2. cpc' = cpc \/ \E c : cpc' = [cpc EXCEPT ![r] = c] /\ c # "unborn"
    BY DEF Connect, SendCheck, Ring, SendReturn, ReceiveCall, ReturnErrClosed,
       Block, Wake, ContextDone, CloseStep, CloseDetach, CloseMark,
       CloseNotify
  <2>3. cpc'[s] = "unborn" => cpc[s] = "unborn"
    BY <2>2 DEF IInv, TypeOK
  <2>4. \/ spc' = spc \/ spc' = [spc EXCEPT ![r] = "idle"]
        \/ spc' = [spc EXCEPT ![r] = "checked"] /\ cpc' = cpc
           /\ cpc[r] # "unborn"
    BY DEF Connect, SendCheck, Ring, SendReturn, ReceiveCall, ReturnErrClosed,
       Block, Wake, ContextDone, CloseStep, CloseDetach, CloseMark,
       CloseNotify, sendVars
  <2>5. \/ spc'[s] = spc[s] \/ spc'[s] = "idle"
        \/ s = r /\ cpc' = cpc /\ cpc[r] # "unborn"
    BY SMTT(30), <2>4 DEF IInv, TypeOK
  <2> QED BY <2>1, <2>3, <2>5
<1>4. \A p \in Port : \/ queue'[p] = queue[p] /\ read'[p] = read[p]
                      \/ queue'[p] = <<>>
  BY SMTT(30)
  DEF Connect, SendCheck, Ring, SendReturn, ReceiveCall, ReturnErrClosed,
     Block, Wake, ContextDone, CloseStep, CloseDetach, CloseMark, CloseNotify,
     portVars, sendVars, hist, LifeInv, IInv, TypeOK
<1>5. ASSUME NEW p \in Port, NEW i \in 1 .. Len(queue'[p])
      PROVE  /\ log'[queue'[p][i]] # p
             /\ \A k \in 1 .. Len(log') :
                  read'[p] < k /\ k < queue'[p][i] /\ log'[k] # p =>
                    \E j \in 1 .. Len(queue'[p]) : queue'[p][j] = k
  <2>1. queue'[p] = queue[p] /\ read'[p] = read[p]
    BY <1>4, <1>5
  <2> QED BY <1>1, <1>5, <2>1 DEF GapInv
<1> QED BY <1>1, <1>2, <1>3, <1>5 DEF GapInv

LEMMA GapSendLockStep ==
  ASSUME IInv, TypeOK', GapInv, NEW s \in Port, SendLock(s)
  PROVE  GapInv'
<1>1. /\ log' = Append(log, s) /\ Len(log) \in Nat
      /\ Len(log') = Len(log) + 1
      /\ \A k \in 1 .. Len(log) : log'[k] = log[k]
      /\ log'[Len(log')] = s
      /\ UNCHANGED <<queue, read, cpc>>
      /\ mu = None /\ mu' = s
      /\ spc[s] # "idle"
  BY DEF SendLock, LockBus, portVars, IInv, TypeOK
<1>2. \A r \in Port : /\ spc'[r] # "idle" => spc[r] # "idle"
                      /\ r \notin todo'[r]
  <2>1. \A r \in Port : spc'[r] # "idle" => spc[r] # "idle"
    BY <1>1 DEF SendLock, IInv, TypeOK
  <2>2. \A r \in Port :
          todo'[r] = IF r = s THEN attached \ {s} ELSE todo[r]
    BY DEF SendLock, Targets, IInv, TypeOK
  <2> QED BY <2>1, <2>2 DEF GapInv
<1>3. ASSUME NEW p \in Port, NEW i \in 1 .. Len(queue[p])
      PROVE  /\ log'[queue[p][i]] # p
             /\ \A k \in 1 .. Len(log') :
                  read[p] < k /\ k < queue[p][i] /\ log'[k] # p =>
                    \E j \in 1 .. Len(queue[p]) : queue[p][j] = k
  <2>1. queue[p][i] \in 1 .. Len(log)
    BY <1>3 DEF OrderInv, IInv
  <2>2. \A k \in 1 .. Len(log') : k < queue[p][i] => k \in 1 .. Len(log)
    BY <1>1, <2>1
  <2>3. log'[queue[p][i]] # p
    BY <1>1, <1>3, <2>1 DEF GapInv
  <2>4. ASSUME NEW k \in 1 .. Len(log'), read[p] < k, k < queue[p][i],
               log'[k] # p
        PROVE  \E j \in 1 .. Len(queue[p]) : queue[p][j] = k
    <3>1. k \in 1 .. Len(log) /\ log[k] # p
      BY <1>1, <2>2, <2>4
    <3> QED BY <1>3, <2>4, <3>1 DEF GapInv
  <2> QED BY <2>3, <2>4
<1>4. log' # <<>>
  <2>1. log \in Seq(Port)
    BY DEF IInv, TypeOK
  <2> QED BY <1>1, <2>1
<1>5. \A r \in Port : /\ spc'[r] # "idle" => cpc'[r] # "unborn"
                      /\ mu' = r => log' # <<>> /\ log'[Len(log')] = r
                      /\ r \notin todo'[r]
  <2>1. \A r \in Port : spc[r] # "idle" => cpc[r] # "unborn"
    BY DEF GapInv
  <2> QED BY <1>1, <1>2, <1>4, <2>1
<1>6. queue' = queue /\ read' = read
  BY <1>1
<1> QED BY <1>3, <1>5, <1>6 DEF GapInv

LEMMA GapDeliverStep ==
  ASSUME IInv, TypeOK', GapInv, NothingLost, NEW s \in Port, NEW q \in Port,
         Deliver(s, q)
  PROVE  GapInv'
<1>1. /\ UNCHANGED <<log, read, frame, spc, cpc, mu>>
      /\ \A r \in Port \ {q} : queue'[r] = queue[r]
      /\ \A r \in Port : todo'[r] \subseteq todo[r]
      /\ q \in todo[s]
  BY DEF Deliver, busVars, hist, IInv, TypeOK
<1>2. q \in attached /\ mu = s /\ frame[s] = Len(log) /\ Len(log) \in Nat
  BY <1>1 DEF LockInv, IInv, TypeOK
<1>3. queue'[q] = Append(queue[q], frame[s])
  BY SMTT(30), <1>2 DEF Deliver, QueueWith, LifeInv, IInv, TypeOK
<1>4. /\ Len(queue'[q]) = Len(queue[q]) + 1 /\ Len(queue[q]) \in Nat
      /\ queue'[q][Len(queue[q]) + 1] = Len(log)
      /\ \A i \in 1 .. Len(queue[q]) : queue'[q][i] = queue[q][i]
  <2>1. queue[q] \in Seq(Nat) /\ frame[s] \in Nat
    BY SMTT(30) DEF IInv, TypeOK
  <2> QED BY <1>2, <1>3, <2>1
<1>5. ASSUME NEW p \in Port, p # q, NEW i \in 1 .. Len(queue'[p])
      PROVE  /\ log[queue'[p][i]] # p
             /\ \A k \in 1 .. Len(log) :
                  read[p] < k /\ k < queue'[p][i] /\ log[k] # p =>
                    \E j \in 1 .. Len(queue'[p]) : queue'[p][j] = k
  BY <1>1, <1>5 DEF GapInv
<1>6. ASSUME NEW i \in 1 .. Len(queue'[q]) PROVE log[queue'[q][i]] # q
  <2>1. CASE i \in 1 .. Len(queue[q])
    BY <1>4, <2>1 DEF GapInv
  <2>2. CASE i = Len(queue[q]) + 1
    BY <1>1, <1>2, <1>4, <2>2 DEF GapInv
  <2> QED BY <1>4, <2>1, <2>2
<1>7. ASSUME NEW i \in 1 .. Len(queue'[q]), NEW k \in 1 .. Len(log),
             read[q] < k, k < queue'[q][i], log[k] # q
      PROVE  \E j \in 1 .. Len(queue'[q]) : queue'[q][j] = k
  <2>1. \E j \in 1 .. Len(queue[q]) : queue[q][j] = k
    <3>1. CASE i \in 1 .. Len(queue[q])
      <4>1. k < queue[q][i]
        BY <1>4, <1>7, <3>1
      <4> QED BY <1>7, <3>1, <4>1 DEF GapInv
    <3>2. CASE i = Len(queue[q]) + 1
      <4>1. k # Len(log)
        BY <1>2, <1>4, <1>7, <3>2
      <4>2. ~ \E t \in Port : frame[t] = k /\ q \in todo[t]
        BY <1>2, <4>1 DEF LockInv, IInv
      <4> QED BY <1>2, <1>7, <4>2 DEF NothingLost, Frame
    <3> QED BY <1>4, <3>1, <3>2
  <2> QED BY SMTT(30), <1>4, <2>1
<1>8. \A r \in Port : /\ spc'[r] # "idle" => cpc'[r] # "unborn"
                      /\ mu' = r => log' # <<>> /\ log'[Len(log')] = r
                      /\ r \notin todo'[r]
  BY <1>1 DEF GapInv
<1>9. ASSUME NEW p \in Port, NEW i \in 1 .. Len(queue'[p])
      PROVE  /\ log'[queue'[p][i]] # p
             /\ \A k \in 1 .. Len(log') :
                  read'[p] < k /\ k < queue'[p][i] /\ log'[k] # p =>
                    \E j \in 1 .. Len(queue'[p]) : queue'[p][j] = k
  BY <1>1, <1>5, <1>6, <1>7
<1> QED BY <1>8, <1>9 DEF GapInv

LEMMA GapTakeStep ==
  ASSUME IInv, TypeOK', GapInv, NEW r \in Port, Take(r) PROVE GapInv'
<1>1. /\ UNCHANGED <<log, todo, frame, spc, cpc, mu>>
      /\ \A p \in Port \ {r} : queue'[p] = queue[p] /\ read'[p] = read[p]
      /\ queue'[r] = Tail(queue[r]) /\ queue[r] # <<>>
      /\ queue[r] \in Seq(Nat \ {0})
      /\ read'[r] = Head(queue[r])
  BY DEF Take, busVars, sendVars, IInv, TypeOK
<1>2. /\ Len(queue[r]) \in Nat \ {0}
      /\ Len(queue'[r]) = Len(queue[r]) - 1
      /\ \A i \in 1 .. Len(queue'[r]) : queue'[r][i] = queue[r][i + 1]
      /\ read'[r] = queue[r][1]
  BY <1>1
<1>3. read[r] < read'[r] /\ read[r] \in Nat /\ read'[r] \in Nat
  <2>1. queue[r][1] > read[r]
    BY <1>2 DEF SameOrder, IInv
  <2>2. read[r] \in Nat /\ read'[r] \in Nat
    BY DEF IInv, TypeOK
  <2> QED BY <1>2, <2>1, <2>2
<1>4. ASSUME NEW i \in 1 .. Len(queue'[r])
      PROVE  /\ log[queue'[r][i]] # r
             /\ \A k \in 1 .. Len(log) :
                  read'[r] < k /\ k < queue'[r][i] /\ log[k] # r =>
                    \E j \in 1 .. Len(queue'[r]) : queue'[r][j] = k
  <2>1. i + 1 \in 1 .. Len(queue[r]) /\ queue'[r][i] = queue[r][i + 1]
    BY <1>2
  <2>2. ASSUME NEW k \in 1 .. Len(log), read'[r] < k, k < queue'[r][i],
               log[k] # r
        PROVE  \E j \in 1 .. Len(queue'[r]) : queue'[r][j] = k
    <3>1. PICK j \in 1 .. Len(queue[r]) : queue[r][j] = k
      BY SMTT(30), <1>3, <2>1, <2>2 DEF GapInv
    <3>2. j # 1
      BY <1>2, <1>3, <2>2, <3>1
    <3>3. j - 1 \in 1 .. Len(queue'[r]) /\ (j - 1) + 1 = j
      BY <1>2, <3>1, <3>2
    <3> QED BY <1>2, <3>1, <3>3
  <2> QED BY <2>1, <2>2 DEF GapInv
<1>5. ASSUME NEW p \in Port, p # r, NEW i \in 1 .. Len(queue'[p])
      PROVE  /\ log[queue'[p][i]] # p
             /\ \A k \in 1 .. Len(log) :
                  read'[p] < k /\ k < queue'[p][i] /\ log[k] # p =>
                    \E j \in 1 .. Len(queue'[p]) : queue'[p][j] = k
  <2>1. queue'[p] = queue[p] /\ read'[p] = read[p]
    BY <1>1, <1>5
  <2> QED BY <1>5, <2>1 DEF GapInv
<1>6. \A s \in Port : /\ spc'[s] # "idle" => cpc'[s] # "unborn"
                      /\ mu' = s => log' # <<>> /\ log'[Len(log')] = s
                      /\ s \notin todo'[s]
  BY <1>1 DEF GapInv
<1>7. ASSUME NEW p \in Port, NEW i \in 1 .. Len(queue'[p])
      PROVE  /\ log'[queue'[p][i]] # p
             /\ \A k \in 1 .. Len(log') :
                  read'[p] < k /\ k < queue'[p][i] /\ log'[k] # p =>
                    \E j \in 1 .. Len(queue'[p]) : queue'[p][j] = k
  <2>1. log' = log
    BY <1>1
  <2> QED BY <1>4, <1>5, <1>7, <2>1
<1> QED BY <1>6, <1>7 DEF GapInv

LEMMA GapStep ==
  ASSUME IInv, TypeOK', GapInv, NothingLost, [Next]_vars PROVE GapInv'
<1>1. CASE Next
  BY <1>1, GapFrameStep, GapSendLockStep, GapDeliverStep, GapTakeStep
     DEF Next, SendStep, ReceiveStep
<1>2. CASE UNCHANGED vars
  BY <1>2 DEF vars, busVars, portVars, sendVars, hist, GapInv
<1> QED BY <1>1, <1>2

\* A queue holds the frames of others only, and skips none of them.
THEOREM QueuesHaveNoGap == Spec => []GapInv
<1>1. Init => GapInv
  BY PortAssumption DEF Init, GapInv
<1>2. IInv /\ IInv' /\ GapInv /\ NothingLost /\ [Next]_vars => GapInv'
  BY GapStep DEF IInv
<1> QED BY <1>1, <1>2, Inductive, NothingIsLost, PTL DEF Spec

-----------------------------------------------------------------------------
(* The refinement: what each step of the bus is for the broadcast.         *)

LEMMA StageKept ==
  ASSUME UNCHANGED closed,
         \A r \in Port : cpc'[r] = "unborn" <=> cpc[r] = "unborn"
  PROVE  UNCHANGED stage
BY DEF stage

LEMMA ConnectJoins ==
  ASSUME IInv, NEW p \in Port, Connect(p) PROVE Abstract!Join(p)
<1>1. /\ cpc[p] = "unborn" /\ cpc' = [cpc EXCEPT ![p] = "open"]
      /\ UNCHANGED <<closed, log>> /\ read' = [read EXCEPT ![p] = Len(log)]
      /\ ~closed[p]
  BY DEF Connect, portVars, LifeInv, IInv
<1>2. stage[p] = "out"
  BY <1>1 DEF stage
<1>3. stage' = [stage EXCEPT ![p] = "in"]
  BY <1>1 DEF stage, IInv, TypeOK
<1> QED BY <1>1, <1>2, <1>3 DEF Abstract!Join

LEMMA SendLockPublishes ==
  ASSUME GapInv, NEW s \in Port, SendLock(s) PROVE Abstract!Publish(s)
<1>1. /\ spc[s] = "checked" /\ log' = Append(log, s)
      /\ UNCHANGED <<closed, cpc, read>>
  BY DEF SendLock, portVars
<1>2. stage[s] # "out"
  BY <1>1 DEF stage, GapInv
<1>3. UNCHANGED stage
  BY <1>1, StageKept
<1> QED BY <1>1, <1>2, <1>3 DEF Abstract!Publish

LEMMA TakeReads ==
  ASSUME IInv, GapInv, NEW p \in Port, Take(p) PROVE Abstract!Read(p)
<1>1. /\ queue[p] \in Seq(Nat \ {0}) /\ queue[p] # <<>>
      /\ read' = [read EXCEPT ![p] = Head(queue[p])]
      /\ UNCHANGED <<closed, cpc, log>>
  BY DEF Take, busVars, IInv, TypeOK
<1> DEFINE h == queue[p][1]
<1>2. 1 \in 1 .. Len(queue[p]) /\ h = Head(queue[p])
  BY <1>1
<1>3. h \in 1 .. Len(log) /\ read[p] < h /\ log[h] # p
      /\ read[p] \in Nat /\ Len(log) \in Nat
  BY <1>2 DEF OrderInv, SameOrder, GapInv, IInv, TypeOK
<1>4. ASSUME NEW k \in read[p] + 1 .. h - 1 PROVE log[k] = p
  <2>1. k \in 1 .. Len(log) /\ read[p] < k /\ k < h
    BY <1>3
  <2>2. ASSUME NEW j \in 1 .. Len(queue[p]) PROVE queue[p][j] # k
    <3>1. j = 1 \/ h < queue[p][j]
      BY <1>2 DEF SameOrder, IInv
    <3>2. queue[p][j] \in Nat
      BY <1>1
    <3> QED BY <1>3, <2>1, <3>1, <3>2
  <2> QED BY <1>2, <2>1, <2>2 DEF GapInv
<1>5. Abstract!NextFor(p, h)
  <2>1. h \in read[p] + 1 .. Len(log)
    BY <1>3
  <2> QED BY <1>3, <1>4, <2>1 DEF Abstract!NextFor
<1>6. stage[p] = "in"
  BY <1>1 DEF stage, LifeInv, IInv
<1>7. UNCHANGED stage
  BY <1>1, StageKept
<1> QED BY <1>1, <1>2, <1>3, <1>5, <1>6, <1>7 DEF Abstract!Read

\* The first Close leaves the broadcast; a second one changes nothing in it.
LEMMA CloseMarkLeaves ==
  ASSUME IInv, NEW p \in Port, CloseMark(p)
  PROVE  Abstract!Leave(p) \/ UNCHANGED <<log, read, stage>>
<1>1. /\ cpc[p] = "detached" /\ cpc' = [cpc EXCEPT ![p] = "marked"]
      /\ closed' = [closed EXCEPT ![p] = TRUE] /\ UNCHANGED <<log, read>>
  BY DEF CloseMark, hist
<1>2. CASE closed[p]
  <2>1. closed' = closed
    BY <1>1, <1>2 DEF IInv, TypeOK
  <2>2. \A r \in Port : cpc'[r] = "unborn" <=> cpc[r] = "unborn"
    BY <1>1 DEF IInv, TypeOK
  <2> QED BY <1>1, <2>1, <2>2, StageKept
<1>3. CASE ~closed[p]
  <2>1. stage[p] = "in"
    BY <1>1, <1>3 DEF stage
  <2>2. stage' = [stage EXCEPT ![p] = "left"]
    BY <1>1 DEF stage, IInv, TypeOK
  <2> QED BY <1>1, <2>1, <2>2 DEF Abstract!Leave
<1> QED BY <1>2, <1>3

LEMMA OthersStutter ==
  ASSUME IInv, NEW r \in Port,
         \/ SendCheck(r) \/ Ring(r) \/ SendReturn(r)
         \/ \E q \in Port : Deliver(r, q)
         \/ ReceiveCall(r) \/ ReturnErrClosed(r) \/ Block(r) \/ Wake(r)
         \/ ContextDone(r) \/ CloseDetach(r) \/ CloseNotify(r)
  PROVE  UNCHANGED <<log, read, stage>>
<1>1. UNCHANGED <<log, read, closed>>
  BY DEF SendCheck, Ring, SendReturn, Deliver, ReceiveCall, ReturnErrClosed,
     Block, Wake, ContextDone, CloseDetach, CloseNotify, portVars, hist
<1>2. \/ cpc' = cpc
      \/ /\ cpc[r] \in {"open", "done", "marked"}
         /\ \E c \in {"detached", "done"} : cpc' = [cpc EXCEPT ![r] = c]
  BY DEF SendCheck, Ring, SendReturn, Deliver, ReceiveCall, ReturnErrClosed,
     Block, Wake, ContextDone, CloseDetach, CloseNotify, CloseEnabled
<1>3. \A q \in Port : cpc'[q] = "unborn" <=> cpc[q] = "unborn"
  BY <1>2 DEF IInv, TypeOK
<1> QED BY <1>1, <1>3, StageKept

\* "All endpoints observe frames in the same order" and lose none: the bus is
\* an ordered broadcast.  Each endpoint's log entry is its publication, each
\* Take reads the next frame of another, Close leaves when it sets the flag.
THEOREM Refinement == Spec => ImplementsOrderedBroadcast
<1>1. Init => Abstract!Init
  BY DEF Init, Abstract!Init, stage
<1>2. IInv /\ GapInv /\ [Next]_vars =>
        [Abstract!Next]_<<log, read, stage>>
  <2> SUFFICES ASSUME IInv, GapInv, [Next]_vars
               PROVE  [Abstract!Next]_<<log, read, stage>>
    OBVIOUS
  <2>1. ASSUME NEW p \in Port, Connect(p) \/ SendLock(p) \/ Take(p)
        PROVE  Abstract!Next
    BY <2>1, ConnectJoins, SendLockPublishes, TakeReads DEF Abstract!Next
  <2>2. ASSUME NEW p \in Port, CloseMark(p)
        PROVE  [Abstract!Next]_<<log, read, stage>>
    BY <2>2, CloseMarkLeaves DEF Abstract!Next
  <2>3. CASE UNCHANGED vars
    BY <2>3 DEF vars, portVars, hist, stage
  <2> QED BY <2>1, <2>2, <2>3, OthersStutter
          DEF Next, SendStep, ReceiveStep, CloseStep
<1> QED BY <1>1, <1>2, Inductive, QueuesHaveNoGap, PTL
        DEF Spec, Abstract!Spec, ImplementsOrderedBroadcast
=============================================================================
