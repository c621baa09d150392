-------------------------- MODULE ElmAdapterProofs --------------------------
(***************************************************************************)
(* One command at a time, each with its own answer, for any protocols,     *)
(* channel capacity and number of commands, when resync always sees the    *)
(* prompt it waits for.  The argument: tokens that can still reach the     *)
(* caller (Live) belong to the one command whose answer is outstanding     *)
(* (LiveInv), its prompt comes last of them wherever they are (OrderInv),  *)
(* and after the error that ends the stream there are none (StreamInv).    *)
(***************************************************************************)
EXTENDS ElmAdapter, SequenceTheorems, TLAPS

Tok == [n : Nat, kind : {"obd", "set", "dpn", "prompt", "alert"}, proto : Nat]
Chunk == [b : Seq(Tok), err : BOOLEAN]
Cmd == [kind : {"none", "obd", "set", "dpn"}, n : Nat]

TypeInv ==
  /\ pc \in {"idle", "resync", "drain", "write", "read"}
  /\ cmd \in Cmd /\ data \in Seq(Tok) /\ dirty \in BOOLEAN /\ proto \in Nat
  /\ buf \in Seq(Tok) /\ chan \in Seq(Chunk)
  /\ closed \in BOOLEAN /\ rl \in {"reading", "sending", "failing", "done"}
  /\ hand \in Seq(Tok) /\ io \in {"open", "broken", "closed"}
  /\ wire \in Seq(Tok) /\ cmds \in Seq(Cmd) /\ elmProto \in Protocols

\* After its error readLoop hands nothing over, and nothing is read from a
\* stream that has failed.
StreamInv ==
  /\ rl # "sending" => hand = <<>>
  /\ rl \in {"failing", "done"} => io # "open"
  /\ closed => rl = "done"
  /\ \A i \in 1 .. Len(chan) : chan[i].err => i = Len(chan) /\ rl = "done"

Tokens(s) == {s[i] : i \in 1 .. Len(s)}
Quiet(S) == \A t \in S : t.n = 0

\* Where a token may still be on its way to the caller, from the far end.
OnWire == IF io = "open" THEN Tokens(wire) ELSE {}
Behind(i) == (UNION {Tokens(chan[j].b) : j \in i + 1 .. Len(chan)})
               \cup Tokens(hand) \cup OnWire
Live == Tokens(buf) \cup Behind(0)

\* No answer is outstanding.
Settled == \/ pc \in {"drain", "write"}
           \/ pc = "idle" /\ ~dirty

LiveInv ==
  /\ \A t \in Live : /\ t.n # 0 => t.proto = elmProto
                     /\ t.n = 0 <=> t.kind = "alert"
  /\ cmds # <<>> => Quiet(Live)
  /\ Settled => Quiet(Live) /\ (io = "open" => cmds = <<>>)
  /\ pc = "read" => /\ \A t \in Live : t.n \in {0, cmd.n}
                    /\ io = "open" => \A i \in 1 .. Len(cmds) :
                                        cmds[i] = cmd
  /\ io = "open" => Len(cmds) <= 1
  /\ pc \in {"drain", "write", "read"} => ~dirty
  /\ pc \in {"drain", "write"} => buf = <<>>
  /\ pc # "idle" => cmd.n # 0 /\ cmd.kind # "none"
  /\ \A i \in 1 .. Len(cmds) : cmds[i].n # 0 /\ cmds[i].kind # "none"

\* A prompt ends what is there of an answer.
Ended(s) == \A i, j \in 1 .. Len(s) : i < j /\ IsPrompt(s[i]) => s[j].n = 0
Answered(s) == \E i \in 1 .. Len(s) : IsPrompt(s[i])

OrderInv ==
  /\ Ended(buf) /\ Ended(hand) /\ (io = "open" => Ended(wire))
  /\ Answered(buf) => Quiet(Behind(0))
  /\ \A i \in 1 .. Len(chan) :
       Ended(chan[i].b) /\ (Answered(chan[i].b) => Quiet(Behind(i)))
  /\ Answered(hand) => Quiet(OnWire)

NoSetSent == \A i \in 1 .. Len(cmds) : cmds[i].kind # "set"

\* The protocol the adapter has settled on is the one it uses, and the lines
\* that await it came over that one.
ProtoInv ==
  /\ proto # 0 => proto = elmProto /\ NoSetSent
  /\ pc # "idle" /\ cmd.kind = "set" => proto = 0
  /\ pc # "idle" /\ cmd.kind = "dpn" =>
       /\ pc # "resync" /\ NoSetSent
       /\ \A i \in 1 .. Len(data) :
            /\ data[i].n \in {0, cmd.n - 1}
            /\ data[i].kind = "obd" => data[i].proto = elmProto

IInv == TypeInv /\ StreamInv /\ LiveInv /\ OrderInv /\ ProtoInv

-----------------------------------------------------------------------------
(* Sequences of tokens                                                     *)

LEMMA TokensOfConcat ==
  ASSUME NEW s \in Seq(Tok), NEW t \in Seq(Tok)
  PROVE  /\ s \o t \in Seq(Tok)
         /\ Tokens(s \o t) = Tokens(s) \cup Tokens(t)
         /\ Answered(s \o t) => Answered(s) \/ Answered(t)
         /\ Ended(s) /\ Ended(t) /\ (Answered(s) => Quiet(Tokens(t))) =>
              Ended(s \o t)
<1>1. /\ s \o t \in Seq(Tok) /\ Len(s \o t) = Len(s) + Len(t)
      /\ Len(s) \in Nat /\ Len(t) \in Nat
      /\ \A i \in 1 .. Len(s) + Len(t) :
           (s \o t)[i] = IF i <= Len(s) THEN s[i] ELSE t[i - Len(s)]
  BY ConcatProperties
<1>2. \A i \in 1 .. Len(s) : (s \o t)[i] = s[i] /\ i \in 1 .. Len(s \o t)
  BY <1>1
<1>3. \A i \in 1 .. Len(t) : /\ (s \o t)[Len(s) + i] = t[i]
                             /\ Len(s) + i \in 1 .. Len(s \o t)
  BY <1>1
<1>4. ASSUME NEW i \in 1 .. Len(s \o t)
      PROVE  \/ i \in 1 .. Len(s) /\ (s \o t)[i] = s[i]
             \/ \E k \in 1 .. Len(t) : i = Len(s) + k /\ (s \o t)[i] = t[k]
  <2>1. CASE i <= Len(s)
    BY <1>1, <2>1
  <2>2. CASE i > Len(s)
    <3>1. i - Len(s) \in 1 .. Len(t) /\ i = Len(s) + (i - Len(s))
      BY <1>1, <2>2
    <3> QED BY <1>1, <1>3, <3>1
  <2> QED BY <1>1, <2>1, <2>2
<1>5. Tokens(s \o t) \subseteq Tokens(s) \cup Tokens(t)
  BY <1>4 DEF Tokens
<1>6. Tokens(s) \cup Tokens(t) \subseteq Tokens(s \o t)
  <2>1. Tokens(s) \subseteq Tokens(s \o t)
    BY <1>2 DEF Tokens
  <2>2. Tokens(t) \subseteq Tokens(s \o t)
    BY <1>3 DEF Tokens
  <2> QED BY <2>1, <2>2
<1>7. Answered(s \o t) => Answered(s) \/ Answered(t)
  BY <1>4 DEF Answered
<1>8. ASSUME Ended(s), Ended(t), Answered(s) => Quiet(Tokens(t))
      PROVE  Ended(s \o t)
  <2> SUFFICES ASSUME NEW i \in 1 .. Len(s \o t), NEW j \in 1 .. Len(s \o t),
                      i < j, IsPrompt((s \o t)[i])
               PROVE  (s \o t)[j].n = 0
    BY DEF Ended
  <2>1. CASE i \in 1 .. Len(s) /\ j \in 1 .. Len(s)
    BY <1>2, <1>8, <2>1 DEF Ended
  <2>2. CASE i \in 1 .. Len(s) /\ j \notin 1 .. Len(s)
    <3>1. Answered(s)
      BY <1>2, <2>2 DEF Answered
    <3>2. (s \o t)[j] \in Tokens(t)
      BY <1>4, <2>2 DEF Tokens
    <3> QED BY <1>8, <3>1, <3>2 DEF Quiet
  <2>3. CASE i \notin 1 .. Len(s)
    <3>1. PICK k \in 1 .. Len(t) : i = Len(s) + k /\ (s \o t)[i] = t[k]
      BY <1>4, <2>3
    <3>2. j \notin 1 .. Len(s)
      BY <1>1, <3>1
    <3>3. PICK l \in 1 .. Len(t) : j = Len(s) + l /\ (s \o t)[j] = t[l]
      BY <1>4, <3>2
    <3>4. k < l
      BY <1>1, <3>1, <3>3
    <3> QED BY <1>8, <3>1, <3>3, <3>4 DEF Ended
  <2> QED BY <2>1, <2>2, <2>3
<1> QED BY <1>1, <1>5, <1>6, <1>7, <1>8

LEMMA TokensOfSplit ==
  ASSUME NEW s \in Seq(Tok), NEW k \in 0 .. Len(s)
  PROVE  LET u == SubSeq(s, 1, k)
             v == SubSeq(s, k + 1, Len(s))
         IN /\ u \in Seq(Tok) /\ v \in Seq(Tok)
            /\ Tokens(u) \subseteq Tokens(s) /\ Tokens(v) \subseteq Tokens(s)
            /\ Answered(u) \/ Answered(v) => Answered(s)
            /\ Ended(s) => /\ Ended(u) /\ Ended(v)
                           /\ Answered(u) => Quiet(Tokens(v))
<1> DEFINE u == SubSeq(s, 1, k)
           v == SubSeq(s, k + 1, Len(s))
<1>1. /\ u \in Seq(Tok) /\ Len(u) = k /\ k \in Nat /\ Len(s) \in Nat
      /\ k <= Len(s)
      /\ \A i \in 1 .. k : u[i] = s[i]
  <2>1. \A i \in 1 .. k : s[i] \in Tok
    OBVIOUS
  <2> QED BY <2>1, SubSeqProperties
<1>2. /\ v \in Seq(Tok) /\ Len(v) = Len(s) - k
      /\ \A i \in 1 .. Len(s) - k : v[i] = s[k + i]
  <2>1. \A i \in k + 1 .. Len(s) : s[i] \in Tok
    BY <1>1
  <2>2. /\ v \in Seq(Tok)
        /\ Len(v) = IF k + 1 <= Len(s) THEN Len(s) - (k + 1) + 1 ELSE 0
        /\ \A i \in 1 .. Len(s) - (k + 1) + 1 : v[i] = s[(k + 1) + i - 1]
    BY <1>1, <2>1, SubSeqProperties
  <2>3. Len(v) = Len(s) - k
    BY <1>1, <2>2
  <2>4. ASSUME NEW i \in 1 .. Len(s) - k PROVE v[i] = s[k + i]
    <3>1. i \in 1 .. Len(s) - (k + 1) + 1 /\ (k + 1) + i - 1 = k + i
      BY <1>1
    <3> QED BY <2>2, <3>1
  <2> QED BY <2>2, <2>3, <2>4
<1> HIDE DEF u, v
<1>3. \A i \in 1 .. Len(u) : i \in 1 .. Len(s) /\ u[i] = s[i]
  BY <1>1
<1>4. \A i \in 1 .. Len(v) : k + i \in 1 .. Len(s) /\ v[i] = s[k + i]
  BY <1>1, <1>2
<1>5. Tokens(u) \subseteq Tokens(s) /\ Tokens(v) \subseteq Tokens(s)
  <2>1. Tokens(u) \subseteq Tokens(s)
    BY <1>3 DEF Tokens
  <2>2. Tokens(v) \subseteq Tokens(s)
    BY <1>4 DEF Tokens
  <2> QED BY <2>1, <2>2
<1>6. Answered(u) \/ Answered(v) => Answered(s)
  BY <1>3, <1>4 DEF Answered
<1>7. ASSUME Ended(s)
      PROVE  Ended(u) /\ Ended(v) /\ (Answered(u) => Quiet(Tokens(v)))
  <2>1. Ended(u)
    BY <1>3, <1>7 DEF Ended
  <2>2. ASSUME NEW i \in 1 .. Len(v), NEW j \in 1 .. Len(v), i < j,
               IsPrompt(v[i])
        PROVE  v[j].n = 0
    <3>1. k + i < k + j
      BY <1>1, <1>2, <2>2
    <3> QED BY <1>4, <1>7, <2>2, <3>1 DEF Ended
  <2>3. ASSUME NEW i \in 1 .. Len(u), IsPrompt(u[i]), NEW j \in 1 .. Len(v)
        PROVE  v[j].n = 0
    <3>1. i < k + j
      BY <1>1, <1>2
    <3> QED BY <1>3, <1>4, <1>7, <2>3, <3>1 DEF Ended
  <2> QED BY <2>1, <2>2, <2>3 DEF Ended, Answered, Quiet, Tokens
<1> QED BY <1>1, <1>2, <1>5, <1>6, <1>7 DEF u, v

\* With one prompt at most, the first is the only one, and what follows it
\* are alerts.
LEMMA OnlyPrompt ==
  ASSUME TypeInv, Ended(buf), \A t \in Tokens(buf) : t.n = 0 => ~IsPrompt(t),
         Prompts(buf) # {}
  PROVE  /\ FirstPrompt(buf) \in 1 .. Len(buf)
         /\ IsPrompt(buf[FirstPrompt(buf)])
         /\ Answered(buf)
<1>1. PICK i \in 1 .. Len(buf) : IsPrompt(buf[i])
  BY DEF Prompts
<1>2. ASSUME NEW j \in 1 .. Len(buf), IsPrompt(buf[j]) PROVE i <= j
  <2>1. SUFFICES ASSUME ~(i <= j) PROVE FALSE
    OBVIOUS
  <2>2. j < i
    BY <2>1
  <2>3. buf[i].n = 0 /\ buf[i] \in Tokens(buf)
    BY <1>1, <1>2, <2>2 DEF Ended, Tokens
  <2> QED BY <1>1, <2>3
<1>3. i \in Prompts(buf) /\ \A j \in Prompts(buf) : i <= j
  BY <1>1, <1>2 DEF Prompts
<1>4. FirstPrompt(buf) \in Prompts(buf)
  BY <1>3 DEF FirstPrompt
<1> QED BY <1>1, <1>4 DEF Prompts, Answered

\* What TakeAnswer makes of the buffer.
LEMMA AnswerAndRest ==
  ASSUME TypeInv, Ended(buf), \A t \in Tokens(buf) : t.n = 0 => ~IsPrompt(t),
         Prompts(buf) # {}
  PROVE  /\ Lines \in Seq(Tok) /\ Tokens(Lines) \subseteq Tokens(buf)
         /\ Rest \in Seq(Tok) /\ Tokens(Rest) \subseteq Tokens(buf)
         /\ Quiet(Tokens(Rest)) /\ Ended(Rest) /\ ~Answered(Rest)
         /\ Answered(buf)
<1> DEFINE f == FirstPrompt(buf)
<1>1. f \in 1 .. Len(buf) /\ IsPrompt(buf[f]) /\ Answered(buf)
  BY OnlyPrompt
<1>2. buf \in Seq(Tok) /\ Len(buf) \in Nat
  BY DEF TypeInv
<1> HIDE DEF f
<1>3. f - 1 \in 0 .. Len(buf) /\ f \in 0 .. Len(buf)
  BY <1>1, <1>2
<1>4. Lines \in Seq(Tok) /\ Tokens(Lines) \subseteq Tokens(buf)
  BY <1>2, <1>3, TokensOfSplit DEF Lines, f
<1>5. /\ Rest \in Seq(Tok) /\ Tokens(Rest) \subseteq Tokens(buf) /\ Ended(Rest)
      /\ Answered(SubSeq(buf, 1, f)) => Quiet(Tokens(Rest))
  BY <1>2, <1>3, TokensOfSplit DEF Rest, f
<1>6. Answered(SubSeq(buf, 1, f))
  <2>1. \A i \in 1 .. f : buf[i] \in Tok
    BY <1>1, <1>2
  <2>2. Len(SubSeq(buf, 1, f)) = f /\ SubSeq(buf, 1, f)[f] = buf[f]
    BY <1>1, <1>2, <2>1, SubSeqProperties
  <2> QED BY <1>1, <2>2 DEF Answered
<1>7. ~Answered(Rest)
  <2>1. \A i \in 1 .. Len(Rest) : Rest[i] \in Tokens(Rest)
    BY DEF Tokens
  <2> QED BY <1>5, <1>6, <2>1 DEF Quiet, Answered
<1> QED BY <1>1, <1>4, <1>5, <1>6, <1>7

-----------------------------------------------------------------------------
LEMMA TypeStep ==
  ASSUME TypeInv, LiveInv, OrderInv, [Next]_vars PROVE TypeInv'
<1> USE DEF TypeInv, callerVars, loopVars, elmVars
<1>1. ASSUME NEW kind \in Kinds, Call(kind) PROVE TypeInv'
  <2>1. [kind |-> kind, n |-> cmd.n + 1] \in Cmd /\ <<>> \in Seq(Tok)
    BY KindsAssumption DEF Cmd
  <2> QED BY <1>1, <2>1 DEF Call, Begin, FirstStep, ProtoAtCall
<1>2. CASE ReadChunk
  <2>1. /\ Head(chan) \in Chunk /\ Tail(chan) \in Seq(Chunk)
        /\ Head(chan).b \in Seq(Tok)
    <3>1. Head(chan) \in Chunk /\ Tail(chan) \in Seq(Chunk)
      BY <1>2, HeadTailProperties DEF ReadChunk
    <3> QED BY <3>1 DEF Chunk
  <2>2. buf \o Head(chan).b \in Seq(Tok)
    BY <2>1, ConcatProperties
  <2>3. <<>> \in Seq(Tok)
    OBVIOUS
  <2> HIDE DEF Chunk
  <2> QED BY <1>2, <2>1, <2>2, <2>3
          DEF ReadChunk, ReadPromptFails, LeaveResync, Abandon, Fail,
              DirtyAfterError
<1>3. CASE ReadClosed \/ GiveUp \/ ResyncDone
  <2>1. <<>> \in Seq(Tok)
    OBVIOUS
  <2>2. /\ pc' \in {"drain", "idle"} /\ buf' \in {buf, <<>>}
        /\ dirty' \in BOOLEAN
        /\ UNCHANGED <<cmd, data, proto, chan, loopVars, io, elmVars>>
    BY <1>3 DEF ReadClosed, GiveUp, ResyncDone, ReadPromptFails, LeaveResync,
       Abandon, Fail, DirtyAfterError
  <2> QED BY <2>1, <2>2
<1>4. CASE DrainChunk \/ DrainEnd
  <2>1. chan # <<>> => Tail(chan) \in Seq(Chunk)
    BY HeadTailProperties
  <2> QED BY <1>4, <2>1 DEF DrainChunk, DrainEnd
<1>5. CASE Write
  <2>1. Append(cmds, cmd) \in Seq(Cmd)
    OBVIOUS
  <2>2. cmds' = cmds \/ cmds' = Append(cmds, cmd)
    BY <1>5 DEF Write
  <2>3. /\ pc' \in {"read", "idle"}
        /\ UNCHANGED <<cmd, data, dirty, proto, buf, chan, loopVars, io, wire,
                      elmProto>>
    BY <1>5 DEF Write, Fail
  <2> QED BY <2>1, <2>2, <2>3
<1>6. CASE TakeAnswer
  <2>1. Ended(buf) /\ \A t \in Tokens(buf) : t.n = 0 => ~IsPrompt(t)
    BY DEF LiveInv, OrderInv, Live, IsPrompt
  <2>2. /\ Lines \in Seq(Tok) /\ Rest \in Seq(Tok)
    BY <1>6, <2>1, AnswerAndRest DEF TakeAnswer
  <2>3. Lines # <<>> => Lines[Len(Lines)] \in Tok
    BY <2>2
  <2>4. Lines # <<>> => Lines[Len(Lines)].proto \in Nat
    BY <2>3 DEF Tok
  <2>5. [kind |-> "dpn", n |-> cmd.n + 1] \in Cmd /\ <<>> \in Seq(Tok)
    BY DEF Cmd
  <2> HIDE DEF Tok, Cmd
  <2> QED BY <1>6, <2>2, <2>4, <2>5
          DEF TakeAnswer, RoundTripAnswer, DetectProtocolAnswer, Finish, Fail,
              FirstStep, NamesProtocol
<1>7. CASE ReadSome
  <2>1. PICK k \in 1 .. Len(wire) :
          /\ hand' = SubSeq(wire, 1, k)
          /\ wire' = SubSeq(wire, k + 1, Len(wire))
    BY <1>7 DEF ReadSome
  <2>2. hand' \in Seq(Tok) /\ wire' \in Seq(Tok)
    BY <2>1, TokensOfSplit
  <2> QED BY <1>7, <2>2 DEF ReadSome
<1>8. CASE HandOver
  <2>1. [b |-> hand, err |-> FALSE] \in Chunk
    BY DEF Chunk
  <2> QED BY <1>8, <2>1 DEF HandOver
<1>9. CASE ReadError \/ HandOverError
  <2>1. [b |-> <<>>, err |-> TRUE] \in Chunk
    BY DEF Chunk
  <2>3. Append(chan, [b |-> <<>>, err |-> TRUE]) \in Seq(Chunk)
    BY <2>1, AppendProperties
  <2>2. chan' \in Seq(Chunk)
    BY <1>9, <2>3 DEF ReadError, HandOverError
  <2> QED BY <1>9, <2>2 DEF ReadError, HandOverError, ClosesChan
<1>10. CASE Break \/ Close
  BY <1>10 DEF Break, Close
<1>11. CASE ElmAnswer
  <2> DEFINE answer(p) == <<Token(Head(cmds).n, Head(cmds).kind, p)>>
  <2>0. PICK p \in Protocols :
          /\ elmProto' = p
          /\ \E lines \in {answer(p), <<>>} :
               wire' = wire \o lines \o <<Token(Head(cmds).n, "prompt", p)>>
    BY <1>11 DEF ElmAnswer
  <2>1. PICK lines \in {answer(p), <<>>} :
          wire' = wire \o lines \o <<Token(Head(cmds).n, "prompt", p)>>
    BY <2>0
  <2>2. Head(cmds) \in Cmd /\ cmds' = Tail(cmds) /\ Tail(cmds) \in Seq(Cmd)
        /\ Head(cmds).kind # "none"
    <3>1. cmds # <<>> /\ cmds' = Tail(cmds) /\ Head(cmds) = cmds[1]
          /\ 1 \in 1 .. Len(cmds)
      BY <1>11 DEF ElmAnswer
    <3> QED BY <3>1, HeadTailProperties DEF LiveInv
  <2>3. /\ Token(Head(cmds).n, Head(cmds).kind, p) \in Tok
        /\ Token(Head(cmds).n, "prompt", p) \in Tok
    BY <2>2, ProtocolsAssumption DEF Token, Tok, Cmd
  <2>4. lines \in Seq(Tok) /\ <<Token(Head(cmds).n, "prompt", p)>> \in Seq(Tok)
    <3>1. answer(p) \in Seq(Tok) /\ <<>> \in Seq(Tok)
      BY <2>3
    <3>2. <<Token(Head(cmds).n, "prompt", p)>> \in Seq(Tok)
      BY <2>3
    <3>3. lines = answer(p) \/ lines = <<>>
      OBVIOUS
    <3> HIDE DEF answer
    <3> QED BY <3>1, <3>2, <3>3
  <2>5. wire' \in Seq(Tok)
    BY <2>1, <2>4, ConcatProperties
  <2> QED BY <1>11, <2>0, <2>2, <2>5 DEF ElmAnswer
<1>12. CASE ElmAlert
  <2>1. Token(0, "alert", 0) \in Tok
    BY DEF Token, Tok
  <2> QED BY <1>12, <2>1 DEF ElmAlert
<1>13. CASE UNCHANGED vars
  BY <1>13 DEF vars
<1> QED BY <1>1, <1>2, <1>3, <1>4, <1>5, <1>6, <1>7, <1>8, <1>9, <1>10,
           <1>11, <1>12, <1>13 DEF Next, CallerStep, LoopStep

LEMMA StreamStep ==
  ASSUME TypeInv, StreamInv, [Next]_vars PROVE StreamInv'
<1> USE DEF TypeInv, StreamInv, callerVars, loopVars, elmVars
<1>1. CASE chan' = chan
  BY SMTT(30), <1>1
  DEF Next, CallerStep, LoopStep, Call, ReadClosed, GiveUp, ResyncDone,
     DrainEnd, Write, TakeAnswer, ReadSome, ReadError, Break, Close, ElmAnswer,
     ElmAlert, ReadChunk, DrainChunk, HandOver, HandOverError, ClosesChan, vars
<1>2. CASE ReadChunk \/ DrainChunk
  <2>1. /\ chan # <<>> /\ chan' = Tail(chan)
        /\ UNCHANGED <<closed, rl, hand, io>>
    BY <1>2 DEF ReadChunk, DrainChunk
  <2>2. /\ Len(chan') = Len(chan) - 1 /\ Len(chan) \in Nat
        /\ \A i \in 1 .. Len(chan') : chan'[i] = chan[i + 1]
                                      /\ i + 1 \in 1 .. Len(chan)
    <3>1. \A q \in Seq(Chunk) : q # <<>> =>
            /\ Len(Tail(q)) = Len(q) - 1 /\ Len(q) \in Nat
            /\ \A i \in 1 .. Len(Tail(q)) : Tail(q)[i] = q[i + 1]
                                            /\ i + 1 \in 1 .. Len(q)
      OBVIOUS
    <3>2. chan \in Seq(Chunk)
      OBVIOUS
    <3> QED BY ONLY <2>1, <3>1, <3>2
  <2>3. \A i \in 1 .. Len(chan') : chan'[i].err =>
          i = Len(chan') /\ rl' = "done"
    <3> SUFFICES ASSUME NEW i \in 1 .. Len(chan'), chan'[i].err
                 PROVE  i = Len(chan') /\ rl' = "done"
      OBVIOUS
    <3>1. chan[i + 1].err /\ i + 1 \in 1 .. Len(chan)
      BY <2>2
    <3>2. i + 1 = Len(chan) /\ rl = "done"
      BY <3>1
    <3>3. i = Len(chan')
      BY <2>2, <3>2
    <3> QED BY <2>1, <3>2, <3>3
  <2> QED BY <2>1, <2>3
<1>3. CASE HandOver
  <2>1. /\ chan' = Append(chan, [b |-> hand, err |-> FALSE]) /\ hand' = <<>>
        /\ rl = "sending" /\ rl' = "reading" /\ UNCHANGED <<closed, io>>
    BY <1>3 DEF HandOver
  <2>2. \A i \in 1 .. Len(chan') : ~chan'[i].err
    BY <2>1
  <2> QED BY <2>1, <2>2
<1>4. CASE HandOverError
  <2>1. /\ chan' = Append(chan, [b |-> <<>>, err |-> TRUE]) /\ hand' = <<>>
        /\ rl = "failing" /\ rl' = "done" /\ UNCHANGED io
    BY <1>4 DEF HandOverError
  <2>2. \A i \in 1 .. Len(chan) : ~chan[i].err
    BY <2>1
  <2>3. \A i \in 1 .. Len(chan') : chan'[i].err => i = Len(chan')
    BY <2>1, <2>2
  <2> QED BY <2>1, <2>3
<1>5. \/ chan' = chan \/ ReadChunk \/ DrainChunk \/ HandOver \/ HandOverError
  BY DEF Next, CallerStep, LoopStep, Call, ReadClosed, GiveUp, ResyncDone,
     DrainEnd, Write, TakeAnswer, ReadSome, ReadError, Break, Close, ElmAnswer,
     ElmAlert, vars
<1> QED BY <1>1, <1>2, <1>3, <1>4, <1>5

-----------------------------------------------------------------------------
(* The tokens on their way, step by step                                   *)

\* The front of the channel goes on to the caller.
LEMMA TakeFromChan ==
  ASSUME TypeInv, chan # <<>>, chan' = Tail(chan),
         UNCHANGED <<hand, io, wire>>
  PROVE  /\ \A i \in Nat : Behind(i)' = Behind(i + 1)
         /\ Tokens(Head(chan).b) \subseteq Behind(0)
         /\ Behind(1) \subseteq Behind(0)
         /\ Len(chan') = Len(chan) - 1 /\ Len(chan) \in Nat \ {0}
         /\ \A i \in 1 .. Len(chan') : chan'[i] = chan[i + 1]
                                       /\ i + 1 \in 1 .. Len(chan)
         /\ Head(chan) = chan[1]
<1>1. /\ Len(chan') = Len(chan) - 1 /\ Len(chan) \in Nat \ {0}
      /\ \A i \in 1 .. Len(chan') : chan'[i] = chan[i + 1]
                                    /\ i + 1 \in 1 .. Len(chan)
      /\ Head(chan) = chan[1]
  BY DEF TypeInv
<1>2. ASSUME NEW i \in Nat PROVE Behind(i)' = Behind(i + 1)
  <2>1. OnWire' = OnWire /\ hand' = hand
    BY DEF OnWire
  <2>2. ASSUME NEW t, NEW j \in i + 1 .. Len(chan'), t \in Tokens(chan'[j].b)
        PROVE  \E k \in i + 2 .. Len(chan) : t \in Tokens(chan[k].b)
    <3>1. j + 1 \in i + 2 .. Len(chan) /\ chan'[j] = chan[j + 1]
      BY <1>1
    <3> QED BY <2>2, <3>1
  <2>3. ASSUME NEW t, NEW k \in i + 2 .. Len(chan), t \in Tokens(chan[k].b)
        PROVE  \E j \in i + 1 .. Len(chan') : t \in Tokens(chan'[j].b)
    <3>1. k - 1 \in i + 1 .. Len(chan') /\ chan'[k - 1] = chan[k]
      <4>1. k \in i + 2 .. Len(chan') + 1 /\ i \in Nat
        BY <1>1
      <4>2. k - 1 \in i + 1 .. Len(chan') /\ (k - 1) + 1 = k
        BY ONLY <4>1, <1>1
      <4>3. k - 1 \in 1 .. Len(chan')
        BY ONLY <4>1, <4>2
      <4> QED BY <1>1, <4>2, <4>3
    <3> QED BY <2>3, <3>1
  <2>4. (i + 1) + 1 = i + 2
    OBVIOUS
  <2> QED BY SMTT(30), <2>1, <2>2, <2>3, <2>4 DEF Behind
<1>3. Tokens(Head(chan).b) \subseteq Behind(0)
  <2>1. 1 \in 0 + 1 .. Len(chan)
    BY <1>1
  <2> QED BY <1>1, <2>1 DEF Behind
<1>4. Behind(1) \subseteq Behind(0)
  <2>1. \A j : j \in 1 + 1 .. Len(chan) => j \in 0 + 1 .. Len(chan)
    OBVIOUS
  <2> QED BY <2>1 DEF Behind
<1> QED BY <1>1, <1>2, <1>3, <1>4

\* Nothing that is on its way comes into being.
LEMMA LiveKept ==
  ASSUME LiveInv, Live' \subseteq Live,
         UNCHANGED <<pc, cmd, dirty, buf, cmds, elmProto>>,
         io' = "open" => io = "open"
  PROVE  LiveInv'
BY DEF LiveInv, Settled, Quiet

\* The channel hands over a chunk, or the error that is the last of all.
LEMMA ReadChunkStep ==
  ASSUME TypeInv, TypeInv', StreamInv, LiveInv, OrderInv, ReadChunk
  PROVE  LiveInv' /\ OrderInv'
<1>1. /\ chan # <<>> /\ chan' = Tail(chan) /\ Waiting
      /\ UNCHANGED <<hand, io, wire, cmds, elmProto, closed, rl>>
  BY DEF ReadChunk, loopVars, elmVars
<1>2. /\ \A i \in Nat : Behind(i)' = Behind(i + 1)
      /\ Tokens(Head(chan).b) \subseteq Behind(0)
      /\ Behind(1) \subseteq Behind(0)
      /\ Len(chan') = Len(chan) - 1 /\ Len(chan) \in Nat \ {0}
      /\ \A i \in 1 .. Len(chan') : chan'[i] = chan[i + 1]
                                    /\ i + 1 \in 1 .. Len(chan)
      /\ Head(chan) = chan[1]
  BY <1>1, TakeFromChan
<1>3. 1 \in 1 .. Len(chan) /\ chan[1] \in Chunk /\ chan[1].b \in Seq(Tok)
      /\ buf \in Seq(Tok)
  <2>1. 1 \in 1 .. Len(chan) /\ chan \in Seq(Chunk)
    BY <1>2 DEF TypeInv
  <2>2. chan[1] \in Chunk
    BY <2>1
  <2> QED BY <2>1, <2>2 DEF Chunk, TypeInv
<1>4. ASSUME NEW i \in 1 .. Len(chan')
      PROVE  /\ Ended(chan'[i].b)
             /\ Answered(chan'[i].b) => Quiet(Behind(i)')
  <2>1. chan'[i] = chan[i + 1] /\ i + 1 \in 1 .. Len(chan)
        /\ Behind(i)' = Behind(i + 1)
    <3>1. i \in Nat
      OBVIOUS
    <3>2. Behind(i)' = Behind(i + 1)
      BY <1>2, <3>1
    <3>3. chan'[i] = chan[i + 1] /\ i + 1 \in 1 .. Len(chan)
      BY <1>2
    <3> QED BY <3>2, <3>3
  <2>2. /\ Ended(chan[i + 1].b)
        /\ Answered(chan[i + 1].b) => Quiet(Behind(i + 1))
    BY <2>1 DEF OrderInv
  <2> QED BY <2>1, <2>2
<1>5. OnWire' = OnWire
  BY <1>1 DEF OnWire
<1>6. CASE ~Head(chan).err
  <2>1. buf' = buf \o chan[1].b /\ UNCHANGED <<pc, cmd, dirty>>
    BY <1>2, <1>6 DEF ReadChunk
  <2>2. ~Answered(buf)
    BY <1>1 DEF Waiting, Prompts, Answered
  <2>3. /\ Tokens(buf') = Tokens(buf) \cup Tokens(chan[1].b)
        /\ Answered(buf') => Answered(chan[1].b)
        /\ Ended(buf) /\ Ended(chan[1].b) => Ended(buf')
    BY <1>3, <2>1, <2>2, TokensOfConcat
  <2>4. Live' \subseteq Live
    BY SMTT(30), <1>2, <2>3 DEF Live
  <2>5. LiveInv'
    <3>1. pc \in {"resync", "read"}
      BY <1>1 DEF Waiting
    <3> QED BY SMTT(30), <1>1, <2>1, <2>4, <3>1 DEF LiveInv, Settled, Quiet
  <2>6. Ended(buf') /\ (Answered(buf') => Quiet(Behind(0)'))
    <3>1. Behind(0)' = Behind(1)
      BY <1>2
    <3> QED BY <1>3, <2>3, <3>1 DEF OrderInv
  <2> QED BY <1>1, <1>4, <1>5, <2>5, <2>6 DEF OrderInv
<1>7. CASE Head(chan).err
  <2>1. ReadPromptFails
    BY <1>7 DEF ReadChunk
  <2>2. io # "open" /\ Len(chan) = 1 /\ hand = <<>>
    BY <1>2, <1>3, <1>7 DEF StreamInv
  <2>3. Behind(0)' = {}
    <3>1. Len(chan') = 0 /\ Tokens(hand') = {} /\ OnWire' = {}
      BY <1>1, <1>2, <2>2 DEF OnWire, Tokens
    <3> QED BY <3>1 DEF Behind
  <2>4. CASE pc = "resync"
    <3>1. pc' = "drain" /\ ~dirty' /\ buf' = <<>> /\ cmd' = cmd
      BY <2>1, <2>4 DEF ReadPromptFails, LeaveResync
    <3>2. Tokens(buf') = {} /\ ~Answered(buf') /\ Ended(buf')
      BY <3>1 DEF Tokens, Answered, Ended
    <3>3. Live' = {}
      BY <2>3, <3>2 DEF Live
    <3>4. LiveInv'
      BY <1>1, <2>2, <2>4, <3>1, <3>3 DEF LiveInv, Settled, Quiet
    <3> QED BY <1>1, <1>4, <1>5, <3>2, <3>4 DEF OrderInv
  <2>5. CASE pc = "read"
    <3>1. pc' = "idle" /\ dirty' /\ buf' = buf /\ cmd' = cmd
      BY <2>1, <2>5
         DEF ReadPromptFails, Abandon, Fail, DirtyAfterError
    <3>2. Live' \subseteq Live
      BY <2>3, <3>1 DEF Live
    <3>3. LiveInv'
      BY <1>1, <2>2, <2>5, <3>1, <3>2 DEF LiveInv, Settled, Quiet
    <3>4. Quiet(Behind(0)')
      BY <2>3 DEF Quiet
    <3> QED BY <1>1, <1>4, <1>5, <3>1, <3>3, <3>4 DEF OrderInv
  <2> QED BY <1>1, <2>4, <2>5 DEF Waiting
<1> QED BY <1>6, <1>7

\* A step that leaves the channel alone and puts nothing on the wire.
LEMMA OrderKept ==
  ASSUME OrderInv, UNCHANGED <<chan, hand, wire>>,
         io' = "open" => io = "open",
         Ended(buf)', Answered(buf)' => Answered(buf)
  PROVE  OrderInv' /\ Behind(0)' \subseteq Behind(0)
<1>1. OnWire' \subseteq OnWire
  BY DEF OnWire
<1>2. \A i \in Nat : Behind(i)' \subseteq Behind(i)
  BY <1>1 DEF Behind
<1>3. ASSUME NEW i \in 1 .. Len(chan')
      PROVE  /\ Ended(chan'[i].b)
             /\ Answered(chan'[i].b) => Quiet(Behind(i)')
  <2>1. i \in Nat
    OBVIOUS
  <2>2. Behind(i)' \subseteq Behind(i)
    BY <1>2, <2>1
  <2>3. /\ Ended(chan[i].b)
        /\ Answered(chan[i].b) => Quiet(Behind(i))
    BY <1>3 DEF OrderInv
  <2> QED BY <2>2, <2>3 DEF Quiet
<1>4. Behind(0)' \subseteq Behind(0)
  BY <1>2
<1>5. Answered(buf)' => Quiet(Behind(0))'
  BY <1>4 DEF OrderInv, Quiet
<1>6. Answered(hand)' => Quiet(OnWire)'
  BY <1>1 DEF OrderInv, Quiet
<1>7. Ended(hand)' /\ (io' = "open" => Ended(wire)')
  BY DEF OrderInv
<1> QED BY <1>3, <1>4, <1>5, <1>6, <1>7 DEF OrderInv

LEMMA EmptyTokens ==
  Tokens(<<>>) = {} /\ Ended(<<>>) /\ ~Answered(<<>>)
BY DEF Tokens, Ended, Answered

\* A prompt in the buffer is the end of the only answer on its way.
LEMMA PromptSettles ==
  ASSUME TypeInv, LiveInv, OrderInv, Prompts(buf) # {}
  PROVE  /\ Quiet(Behind(0)) /\ cmds = <<>>
         /\ \A t \in Tokens(buf) : t.n = 0 => ~IsPrompt(t)
<1>1. PICK i \in 1 .. Len(buf) : IsPrompt(buf[i])
  BY DEF Prompts
<1>2. buf[i] \in Live /\ buf[i].n # 0
  BY <1>1 DEF Live, Tokens, LiveInv, IsPrompt
<1>3. Answered(buf)
  BY <1>1 DEF Answered
<1>4. \A t \in Tokens(buf) : t.n = 0 => ~IsPrompt(t)
  BY DEF LiveInv, Live, IsPrompt
<1>5. cmds = <<>>
  BY <1>2 DEF LiveInv, Quiet
<1> QED BY <1>3, <1>4, <1>5 DEF OrderInv

LEMMA CallStep ==
  ASSUME TypeInv, LiveInv, OrderInv, NEW kind \in Kinds, Call(kind)
  PROVE  LiveInv' /\ OrderInv'
<1>1. /\ pc = "idle" /\ cmd' = [kind |-> kind, n |-> cmd.n + 1]
      /\ pc' = FirstStep
      /\ buf' = IF FirstStep = "drain" THEN <<>> ELSE buf
      /\ UNCHANGED <<dirty, chan, hand, wire, io, cmds, elmProto>>
  BY DEF Call, Begin, loopVars, elmVars
<1>2. cmd.n \in Nat /\ kind # "none"
  BY KindsAssumption DEF TypeInv, Cmd
<1>3. OrderInv' /\ Behind(0)' \subseteq Behind(0)
  <2>1. Ended(buf)' /\ (Answered(buf)' => Answered(buf))
    BY <1>1, EmptyTokens DEF OrderInv
  <2> QED BY <1>1, <2>1, OrderKept
<1>4. Tokens(buf)' \subseteq Tokens(buf)
  BY <1>1, EmptyTokens
<1>5. Live' \subseteq Live
  BY <1>3, <1>4 DEF Live
<1>6. \/ pc' = "resync" /\ dirty
      \/ pc' = "drain" /\ ~dirty /\ buf' = <<>>
  BY <1>1 DEF FirstStep
<1>7. LiveInv'
  BY <1>1, <1>2, <1>5, <1>6 DEF LiveInv, Settled, Quiet
<1> QED BY <1>3, <1>7

LEMMA GiveUpStep ==
  ASSUME TypeInv, StreamInv, LiveInv, OrderInv, ~ResyncMayFail,
         ReadClosed \/ GiveUp
  PROVE  LiveInv' /\ OrderInv'
<1>1. /\ Waiting /\ ReadPromptFails
      /\ UNCHANGED <<chan, hand, wire, io, cmds, elmProto>>
      /\ pc = "resync" => chan = <<>> /\ closed
  BY DEF ReadClosed, GiveUp, loopVars, elmVars
<1>2. CASE pc = "read"
  <2>1. pc' = "idle" /\ dirty' /\ buf' = buf /\ cmd' = cmd
    BY <1>1, <1>2 DEF ReadPromptFails, Abandon, Fail, DirtyAfterError
  <2>2. OrderInv' /\ Behind(0)' \subseteq Behind(0)
    <3>1. Ended(buf)' /\ (Answered(buf)' => Answered(buf))
      BY <2>1 DEF OrderInv
    <3> QED BY <1>1, <3>1, OrderKept
  <2>3. Live' \subseteq Live
    BY <2>1, <2>2 DEF Live
  <2>4. LiveInv'
    BY <1>1, <2>1, <2>3 DEF LiveInv, Settled, Quiet
  <2> QED BY <2>2, <2>4
<1>3. CASE pc = "resync"
  <2>1. pc' = "drain" /\ ~dirty' /\ buf' = <<>> /\ cmd' = cmd
    BY <1>1, <1>3 DEF ReadPromptFails, LeaveResync
  <2>2. OrderInv' /\ Behind(0)' \subseteq Behind(0)
    <3>1. Ended(buf)' /\ (Answered(buf)' => Answered(buf))
      BY <2>1, EmptyTokens
    <3> QED BY <1>1, <3>1, OrderKept
  <2>3. io # "open" /\ hand = <<>> /\ chan = <<>>
    BY <1>1, <1>3 DEF StreamInv
  <2>4. Live' = {}
    <3>1. OnWire' = {} /\ Tokens(hand)' = {} /\ Len(chan') = 0
          /\ Tokens(buf)' = {}
      BY <1>1, <2>1, <2>3, EmptyTokens DEF OnWire
    <3> QED BY <3>1 DEF Live, Behind
  <2>5. LiveInv'
    BY <1>1, <1>3, <2>1, <2>3, <2>4 DEF LiveInv, Settled, Quiet
  <2> QED BY <2>2, <2>5
<1> QED BY <1>1, <1>2, <1>3 DEF Waiting

LEMMA ResyncDoneStep ==
  ASSUME TypeInv, LiveInv, OrderInv, ResyncDone
  PROVE  LiveInv' /\ OrderInv'
<1>1. /\ pc = "resync" /\ Prompts(buf) # {}
      /\ pc' = "drain" /\ ~dirty' /\ buf' = <<>> /\ cmd' = cmd
      /\ UNCHANGED <<chan, hand, wire, io, cmds, elmProto>>
  BY DEF ResyncDone, LeaveResync, loopVars, elmVars
<1>2. Quiet(Behind(0)) /\ cmds = <<>>
  BY <1>1, PromptSettles
<1>3. OrderInv' /\ Behind(0)' \subseteq Behind(0)
  <2>1. Ended(buf)' /\ (Answered(buf)' => Answered(buf))
    BY <1>1, EmptyTokens
  <2> QED BY <1>1, <2>1, OrderKept
<1>4. Live' \subseteq Behind(0) /\ Behind(0) \subseteq Live
  BY <1>1, <1>3, EmptyTokens DEF Live
<1>5. LiveInv'
  BY <1>1, <1>2, <1>4 DEF LiveInv, Settled, Quiet
<1> QED BY <1>3, <1>5

LEMMA DrainStep ==
  ASSUME TypeInv, LiveInv, OrderInv, DrainChunk \/ DrainEnd
  PROVE  LiveInv' /\ OrderInv'
<1>1. /\ pc = "drain" /\ pc' \in {"drain", "write"}
      /\ UNCHANGED <<cmd, dirty, buf, hand, wire, io, cmds, elmProto>>
      /\ buf = <<>>
  BY DEF DrainChunk, DrainEnd, loopVars, elmVars, LiveInv
<1>2. /\ OrderInv' /\ Behind(0)' \subseteq Behind(0)
  <2>1. CASE DrainEnd
    <3>1. Ended(buf)' /\ (Answered(buf)' => Answered(buf)) /\ chan' = chan
      BY <1>1, <2>1 DEF OrderInv, DrainEnd
    <3> QED BY <1>1, <3>1, OrderKept
  <2>2. CASE DrainChunk
    <3>1. chan # <<>> /\ chan' = Tail(chan)
      BY <2>2 DEF DrainChunk
    <3>2. /\ \A i \in Nat : Behind(i)' = Behind(i + 1)
          /\ Behind(1) \subseteq Behind(0)
          /\ Len(chan') = Len(chan) - 1 /\ Len(chan) \in Nat \ {0}
          /\ \A i \in 1 .. Len(chan') : chan'[i] = chan[i + 1]
                                        /\ i + 1 \in 1 .. Len(chan)
      BY <1>1, <3>1, TakeFromChan
    <3>3. ASSUME NEW i \in 1 .. Len(chan')
          PROVE  /\ Ended(chan'[i].b)
                 /\ Answered(chan'[i].b) => Quiet(Behind(i)')
      <4>1. i \in Nat
        OBVIOUS
      <4>2. Behind(i)' = Behind(i + 1)
        BY <3>2, <4>1
      <4>3. chan'[i] = chan[i + 1] /\ i + 1 \in 1 .. Len(chan)
        BY <3>2
      <4>4. /\ Ended(chan[i + 1].b)
            /\ Answered(chan[i + 1].b) => Quiet(Behind(i + 1))
        BY <4>3 DEF OrderInv
      <4> QED BY <4>2, <4>3, <4>4
    <3>4. Behind(0)' \subseteq Behind(0)
      BY <3>2
    <3>5. OnWire' = OnWire
      BY <1>1 DEF OnWire
    <3>6. ~Answered(buf)' /\ Ended(buf)'
      BY <1>1, EmptyTokens
    <3> QED BY <1>1, <3>3, <3>4, <3>5, <3>6 DEF OrderInv
  <2> QED BY <2>1, <2>2
<1>3. Live' \subseteq Live
  BY <1>1, <1>2 DEF Live
<1>4. LiveInv'
  BY <1>1, <1>3 DEF LiveInv, Settled, Quiet
<1> QED BY <1>2, <1>4

LEMMA WriteStep ==
  ASSUME TypeInv, LiveInv, OrderInv, Write
  PROVE  LiveInv' /\ OrderInv'
<1>1. /\ pc = "write" /\ ~dirty /\ Quiet(Live)
      /\ io = "open" => cmds = <<>>
      /\ cmd.n # 0 /\ cmd.kind # "none"
      /\ UNCHANGED <<cmd, dirty, buf, chan, hand, wire, io, elmProto>>
  BY DEF Write, LiveInv, Settled, loopVars
<1>2. OrderInv' /\ Behind(0)' \subseteq Behind(0)
  <2>1. Ended(buf)' /\ (Answered(buf)' => Answered(buf))
    BY <1>1 DEF OrderInv
  <2> QED BY <1>1, <2>1, OrderKept
<1>3. Live' \subseteq Live
  BY <1>1, <1>2 DEF Live
<1>4. CASE pc' = "read" /\ cmds' = Append(cmds, cmd)
  <2>1. /\ cmds' \in Seq(Cmd) /\ Len(cmds') = Len(cmds) + 1
        /\ Len(cmds) \in Nat
        /\ \A i \in 1 .. Len(cmds) : cmds'[i] = cmds[i]
        /\ cmds'[Len(cmds) + 1] = cmd
    BY <1>4, AppendProperties DEF TypeInv
  <2>2. \A i \in 1 .. Len(cmds') : cmds'[i].n # 0 /\ cmds'[i].kind # "none"
    <3> SUFFICES ASSUME NEW i \in 1 .. Len(cmds')
                 PROVE  cmds'[i].n # 0 /\ cmds'[i].kind # "none"
      OBVIOUS
    <3>1. CASE i \in 1 .. Len(cmds)
      BY <2>1, <3>1 DEF LiveInv
    <3>2. CASE i = Len(cmds) + 1
      BY <1>1, <2>1, <3>2
    <3> QED BY <2>1, <3>1, <3>2
  <2>3. io = "open" => /\ Len(cmds') = 1
                       /\ \A i \in 1 .. Len(cmds') : cmds'[i] = cmd
    <3>1. CASE io = "open"
      <4>1. Len(cmds) = 0
        BY <1>1, <3>1
      <4> QED BY <2>1, <4>1
    <3> QED BY <3>1
  <2>4. LiveInv'
    BY <1>1, <1>3, <1>4, <2>2, <2>3 DEF LiveInv, Settled, Quiet
  <2> QED BY <1>2, <2>4
<1>5. CASE pc' = "idle" /\ cmds' = cmds
  <2>1. LiveInv'
    BY <1>1, <1>3, <1>5 DEF LiveInv, Settled, Quiet
  <2> QED BY <1>2, <2>1
<1> QED BY <1>4, <1>5 DEF Write, Fail

LEMMA TakeAnswerStep ==
  ASSUME TypeInv, LiveInv, OrderInv, TakeAnswer
  PROVE  LiveInv' /\ OrderInv'
<1>1. /\ pc = "read" /\ Prompts(buf) # {} /\ ~dirty /\ dirty' = dirty
      /\ UNCHANGED <<chan, hand, wire, io, cmds, elmProto>>
  BY DEF TakeAnswer, loopVars, elmVars, LiveInv
<1>2. /\ Quiet(Behind(0)) /\ cmds = <<>>
      /\ \A t \in Tokens(buf) : t.n = 0 => ~IsPrompt(t)
  BY <1>1, PromptSettles
<1>3. /\ Tokens(Rest) \subseteq Tokens(buf)
      /\ Quiet(Tokens(Rest)) /\ Ended(Rest) /\ ~Answered(Rest)
  BY <1>1, <1>2, AnswerAndRest DEF OrderInv
<1>4. \/ pc' = "idle" /\ buf' = Rest /\ cmd' = cmd
      \/ /\ pc' = "drain" /\ buf' = <<>>
         /\ cmd' = [kind |-> "dpn", n |-> cmd.n + 1]
  BY <1>1 DEF TakeAnswer, RoundTripAnswer, DetectProtocolAnswer, Finish, Fail,
     FirstStep
<1>5. /\ Ended(buf)' /\ ~Answered(buf)' /\ Quiet(Tokens(buf)')
      /\ Tokens(buf)' \subseteq Tokens(buf)
  <2>1. buf' = Rest \/ buf' = <<>>
    BY <1>4
  <2>2. Quiet(Tokens(<<>>))
    BY EmptyTokens DEF Quiet
  <2> QED BY <1>3, <2>1, <2>2, EmptyTokens
<1>6. OrderInv' /\ Behind(0)' \subseteq Behind(0)
  BY <1>1, <1>5, OrderKept
<1>7. Live' \subseteq Live /\ Quiet(Live')
  BY <1>2, <1>5, <1>6 DEF Live, Quiet
<1>8. cmd.n \in Nat
  BY DEF TypeInv, Cmd
<1>9. pc' # "idle" => cmd'.n # 0 /\ cmd'.kind # "none"
  BY <1>4, <1>8
<1>10. LiveInv'
  BY <1>1, <1>2, <1>4, <1>7, <1>9 DEF LiveInv, Settled, Quiet
<1> QED BY <1>6, <1>10

LEMMA ReadSomeStep ==
  ASSUME TypeInv, StreamInv, LiveInv, OrderInv, ReadSome
  PROVE  LiveInv' /\ OrderInv'
<1>1. /\ hand = <<>> /\ io = "open" /\ io' = io
      /\ UNCHANGED <<pc, cmd, dirty, buf, chan, cmds, elmProto>>
  BY DEF ReadSome, StreamInv, callerVars
<1>2. PICK k \in 1 .. Len(wire) :
        hand' = SubSeq(wire, 1, k) /\ wire' = SubSeq(wire, k + 1, Len(wire))
  BY DEF ReadSome
<1>3. /\ Tokens(hand') \subseteq Tokens(wire)
      /\ Tokens(wire') \subseteq Tokens(wire)
      /\ Ended(wire) => /\ Ended(hand') /\ Ended(wire')
                        /\ Answered(hand') => Quiet(Tokens(wire'))
  <2>1. wire \in Seq(Tok) /\ k \in 0 .. Len(wire)
    BY DEF TypeInv
  <2> QED BY <1>2, <2>1, TokensOfSplit
<1>4. /\ OnWire = Tokens(wire) /\ OnWire' = Tokens(wire')
      /\ Tokens(hand) = {}
  BY <1>1, EmptyTokens DEF OnWire
<1>5. \A i \in Nat : Behind(i)' \subseteq Behind(i)
  BY <1>1, <1>3, <1>4 DEF Behind
<1>6. ASSUME NEW i \in 1 .. Len(chan')
      PROVE  /\ Ended(chan'[i].b)
             /\ Answered(chan'[i].b) => Quiet(Behind(i)')
  <2>1. i \in Nat
    OBVIOUS
  <2>2. Behind(i)' \subseteq Behind(i)
    BY <1>5, <2>1
  <2>3. /\ Ended(chan[i].b)
        /\ Answered(chan[i].b) => Quiet(Behind(i))
    BY <1>1, <1>6 DEF OrderInv
  <2> QED BY <1>1, <2>2, <2>3 DEF Quiet
<1>7. Behind(0)' \subseteq Behind(0)
  BY <1>5
<1>8. OrderInv'
  <2>1. Ended(wire)
    BY <1>1 DEF OrderInv
  <2>2. Answered(buf') => Quiet(Behind(0)')
    BY <1>1, <1>7 DEF OrderInv, Quiet
  <2> QED BY <1>1, <1>3, <1>4, <1>6, <2>1, <2>2 DEF OrderInv
<1>9. Live' \subseteq Live
  BY <1>1, <1>7 DEF Live
<1> QED BY <1>1, <1>8, <1>9, LiveKept

\* What readLoop appends to the channel was in its hand.
LEMMA HandOverStep ==
  ASSUME TypeInv, StreamInv, LiveInv, OrderInv,
         UNCHANGED <<pc, cmd, dirty, buf, io, wire, cmds, elmProto>>,
         NEW e \in BOOLEAN,
         chan' = Append(chan, [b |-> hand, err |-> e]), hand' = <<>>
  PROVE  LiveInv' /\ OrderInv'
<1>0. PICK last \in Nat : last = Len(chan) + 1
  BY DEF TypeInv
<1>1. /\ Len(chan') = last /\ Len(chan) \in Nat
      /\ \A i \in 1 .. Len(chan) : chan'[i] = chan[i]
      /\ chan'[last].b = hand
  <2>1. [b |-> hand, err |-> e] \in Chunk /\ chan \in Seq(Chunk)
    BY DEF TypeInv, Chunk
  <2> QED BY <1>0, <2>1, AppendProperties
<1>2. OnWire' = OnWire /\ Tokens(hand') = {}
  BY EmptyTokens DEF OnWire
<1>3. ASSUME NEW i \in Nat PROVE Behind(i)' \subseteq Behind(i)
  <2> SUFFICES ASSUME NEW t, NEW j \in i + 1 .. Len(chan'),
                      t \in Tokens(chan'[j].b)
               PROVE  t \in Behind(i)
    BY <1>2 DEF Behind
  <2>1. CASE j = last
    <3>1. t \in Tokens(hand)
      BY <1>1, <2>1
    <3>2. \A S, T, U : t \in T => t \in S \cup T \cup U
      OBVIOUS
    <3> QED BY <3>1, <3>2 DEF Behind
  <2>2. CASE j # last
    <3>1. j \in i + 1 .. Len(chan) /\ chan'[j] = chan[j]
      BY <1>0, <1>1, <2>2
    <3> QED BY <3>1 DEF Behind
  <2> QED BY <2>1, <2>2
<1>4. Behind(last)' \subseteq OnWire
  <2>1. last + 1 .. Len(chan') = {}
    BY <1>1
  <2>2. UNION {Tokens(chan'[j].b) : j \in last + 1 .. Len(chan')} = {}
    BY <2>1
  <2> QED BY <1>2, <2>2 DEF Behind
<1>5. ASSUME NEW i \in 1 .. Len(chan')
      PROVE  /\ Ended(chan'[i].b)
             /\ Answered(chan'[i].b) => Quiet(Behind(i)')
  <2>1. CASE i = last
    <3>1. chan'[i].b = hand
      BY <1>1, <2>1
    <3>2. Behind(i)' \subseteq OnWire
      BY <1>4, <2>1
    <3> QED BY <3>1, <3>2 DEF OrderInv, Quiet
  <2>2. CASE i # last
    <3>1. i \in 1 .. Len(chan) /\ chan'[i] = chan[i] /\ i \in Nat
      BY <1>0, <1>1, <2>2
    <3>2. Behind(i)' \subseteq Behind(i)
      BY <1>3, <3>1
    <3>3. /\ Ended(chan[i].b)
          /\ Answered(chan[i].b) => Quiet(Behind(i))
      BY <3>1 DEF OrderInv
    <3> QED BY <3>1, <3>2, <3>3 DEF Quiet
  <2> QED BY <2>1, <2>2
<1>6. Behind(0)' \subseteq Behind(0)
  BY <1>3
<1>7. OrderInv'
  <2>1. Answered(buf') => Quiet(Behind(0)')
    BY <1>6 DEF OrderInv, Quiet
  <2>2. Ended(hand') /\ ~Answered(hand')
    BY EmptyTokens
  <2>3. Ended(buf') /\ (io' = "open" => Ended(wire'))
    BY DEF OrderInv
  <2> QED BY <1>5, <2>1, <2>2, <2>3 DEF OrderInv
<1>8. Live' \subseteq Live
  BY <1>6 DEF Live
<1> QED BY <1>7, <1>8, LiveKept

\* The stream fails or is closed, or readLoop notices.
LEMMA FailStep ==
  ASSUME LiveInv, OrderInv, ReadError \/ Break \/ Close \/ UNCHANGED vars
  PROVE  LiveInv' /\ OrderInv'
<1>1. /\ UNCHANGED <<pc, cmd, dirty, buf, cmds, elmProto, chan, hand, wire>>
      /\ io' = "open" => io = "open"
  BY DEF ReadError, Break, Close, vars, callerVars, loopVars, elmVars
<1>2. OrderInv' /\ Behind(0)' \subseteq Behind(0)
  <2>1. Ended(buf)' /\ (Answered(buf)' => Answered(buf))
    BY <1>1 DEF OrderInv
  <2> QED BY <1>1, <2>1, OrderKept
<1>3. Live' \subseteq Live
  BY <1>1, <1>2 DEF Live
<1> QED BY <1>1, <1>2, <1>3, LiveKept

\* The adapter writes s.
LEMMA WireGrows ==
  ASSUME TypeInv, NEW s \in Seq(Tok), wire' = wire \o s,
         UNCHANGED <<buf, chan, hand, io>>
  PROVE  /\ \A i \in Nat : Behind(i)' \subseteq Behind(i) \cup Tokens(s)
         /\ OnWire' \subseteq OnWire \cup Tokens(s)
         /\ Live' \subseteq Live \cup Tokens(s)
         /\ io # "open" => Live' = Live
         /\ Ended(wire) /\ Ended(s) /\ (Answered(wire) => Quiet(Tokens(s))) =>
              Ended(wire')
<1>1. wire \in Seq(Tok)
  BY DEF TypeInv
<1>2. /\ Tokens(wire') = Tokens(wire) \cup Tokens(s)
      /\ Ended(wire) /\ Ended(s) /\ (Answered(wire) => Quiet(Tokens(s))) =>
           Ended(wire')
  BY <1>1, TokensOfConcat
<1>3. /\ OnWire' \subseteq OnWire \cup Tokens(s)
      /\ io # "open" => OnWire' = OnWire
  BY <1>2 DEF OnWire
<1>4. /\ \A i \in Nat : Behind(i)' \subseteq Behind(i) \cup Tokens(s)
      /\ io # "open" => \A i \in Nat : Behind(i)' = Behind(i)
  BY <1>3 DEF Behind
<1>5. /\ Behind(0)' \subseteq Behind(0) \cup Tokens(s)
      /\ io # "open" => Behind(0)' = Behind(0)
  BY <1>4
<1> QED BY <1>2, <1>3, <1>4, <1>5 DEF Live

\* OrderInv of such a step, for a piece that is an answer to come after
\* alerts only, or itself an alert.
LEMMA OrderGrows ==
  ASSUME TypeInv, OrderInv, NEW s \in Seq(Tok), wire' = wire \o s,
         UNCHANGED <<buf, chan, hand, io>>, Ended(s),
         \/ Quiet(Tokens(s))
         \/ io # "open"
         \/ /\ ~Answered(buf) /\ ~Answered(hand) /\ ~Answered(wire)
            /\ \A i \in 1 .. Len(chan) : ~Answered(chan[i].b)
  PROVE  OrderInv'
<1>1. /\ \A i \in Nat : Behind(i)' \subseteq Behind(i) \cup Tokens(s)
      /\ OnWire' \subseteq OnWire \cup Tokens(s)
      /\ Ended(wire) /\ Ended(s) /\ (Answered(wire) => Quiet(Tokens(s))) =>
           Ended(wire')
  BY WireGrows
<1>2. io # "open" => OnWire' = OnWire /\ \A i \in Nat : Behind(i)' = Behind(i)
  BY DEF OnWire, Behind
<1>3. ASSUME NEW i \in 1 .. Len(chan')
      PROVE  /\ Ended(chan'[i].b)
             /\ Answered(chan'[i].b) => Quiet(Behind(i)')
  <2>1. /\ Ended(chan[i].b) /\ chan'[i] = chan[i]
        /\ Answered(chan[i].b) => Quiet(Behind(i))
    BY <1>3 DEF OrderInv
  <2>2. Behind(i)' \subseteq Behind(i) \cup Tokens(s)
    BY <1>1
  <2>3. io # "open" => Behind(i)' = Behind(i)
    BY <1>2
  <2> QED BY <2>1, <2>2, <2>3 DEF Quiet
<1>4. Answered(buf') => Quiet(Behind(0)')
  <2>1. Behind(0)' \subseteq Behind(0) \cup Tokens(s)
    BY <1>1
  <2>2. io # "open" => Behind(0)' = Behind(0)
    BY <1>2
  <2> QED BY <2>1, <2>2 DEF OrderInv, Quiet
<1>5. Answered(hand') => Quiet(OnWire')
  BY <1>1, <1>2 DEF OrderInv, Quiet
<1>6. io' = "open" => Ended(wire')
  BY <1>1 DEF OrderInv
<1>7. Ended(buf') /\ Ended(hand')
  BY DEF OrderInv
<1> QED BY <1>3, <1>4, <1>5, <1>6, <1>7 DEF OrderInv

LEMMA ElmAlertStep ==
  ASSUME TypeInv, LiveInv, OrderInv, ElmAlert
  PROVE  LiveInv' /\ OrderInv'
<1> DEFINE s == <<Token(0, "alert", 0)>>
<1>1. /\ cmds = <<>> /\ cmds' = cmds
      /\ UNCHANGED <<pc, cmd, dirty, buf, chan, hand, io, elmProto>>
      /\ wire' = wire \o s
  <2>1. wire' = Append(wire, Token(0, "alert", 0)) /\ wire \in Seq(Tok)
    BY DEF ElmAlert, TypeInv
  <2>2. wire' = wire \o s
    BY <2>1
  <2> HIDE DEF s
  <2> QED BY <2>2 DEF ElmAlert, callerVars, loopVars
<1>2. /\ s \in Seq(Tok) /\ Ended(s)
      /\ \A t \in Tokens(s) : t.n = 0 /\ t.kind = "alert"
  <2>1. Token(0, "alert", 0) \in Tok
    BY DEF Token, Tok
  <2>2. Len(s) = 1 /\ s[1] = Token(0, "alert", 0) /\ s \in Seq(Tok)
    BY <2>1
  <2>3. Token(0, "alert", 0).n = 0 /\ Token(0, "alert", 0).kind = "alert"
    BY DEF Token
  <2> HIDE DEF s
  <2> QED BY <2>2, <2>3 DEF Tokens, Ended
<1> HIDE DEF s
<1>3. OrderInv'
  <2>1. Quiet(Tokens(s))
    BY <1>2 DEF Quiet
  <2> QED BY <1>1, <1>2, <2>1, OrderGrows
<1>4. Live' \subseteq Live \cup Tokens(s)
  BY <1>1, <1>2, WireGrows
<1>5. LiveInv'
  BY <1>1, <1>2, <1>4 DEF LiveInv, Settled, Quiet
<1> QED BY <1>3, <1>5

\* Where the adapter is at work on a command, no prompt is on its way.
LEMMA NothingAnswered ==
  ASSUME LiveInv, Quiet(Live)
  PROVE  /\ ~Answered(buf) /\ ~Answered(hand)
         /\ io = "open" => ~Answered(wire)
         /\ \A i \in 1 .. Len(chan) : ~Answered(chan[i].b)
<1>1. ASSUME NEW s, Tokens(s) \subseteq Live PROVE ~Answered(s)
  <2>1. \A i \in 1 .. Len(s) : s[i] \in Live
    BY <1>1 DEF Tokens
  <2> QED BY <2>1 DEF Answered, LiveInv, Quiet, IsPrompt
<1>2. Tokens(buf) \subseteq Live
  BY DEF Live
<1>3. Tokens(hand) \subseteq Live
  BY DEF Live, Behind
<1>4. io = "open" => Tokens(wire) \subseteq Live
  BY DEF Live, Behind, OnWire
<1>5. \A i \in 1 .. Len(chan) : Tokens(chan[i].b) \subseteq Live
  <2>1. \A i \in 1 .. Len(chan) : i \in 0 + 1 .. Len(chan)
    OBVIOUS
  <2> QED BY <2>1 DEF Live, Behind
<1> QED BY <1>1, <1>2, <1>3, <1>4, <1>5

\* What the adapter writes for a command: its line, if there is one, and its
\* prompt.
LEMMA AnswerWritten ==
  ASSUME TypeInv, LiveInv, ElmAnswer
  PROVE  \E s \in Seq(Tok) :
           /\ wire' = wire \o s /\ Ended(s)
           /\ \A t \in Tokens(s) : /\ t.n = Head(cmds).n /\ t.n # 0
                                   /\ t.kind # "alert"
                                   /\ t.proto = elmProto'
<1> DEFINE c == Head(cmds)
           answer == <<Token(c.n, c.kind, elmProto')>>
           prompt == <<Token(c.n, "prompt", elmProto')>>
<1>1. /\ c \in Cmd /\ c.n # 0 /\ c.kind # "none"
  <2>1. cmds # <<>> /\ Head(cmds) = cmds[1] /\ 1 \in 1 .. Len(cmds)
    BY DEF ElmAnswer, TypeInv
  <2> QED BY <2>1, HeadTailProperties DEF LiveInv, TypeInv
<1>2. PICK lines \in {answer, <<>>} : wire' = wire \o lines \o prompt
  <2>1. PICK p \in Protocols \cup {elmProto} :
          /\ elmProto' = p
          /\ \E lines \in {<<Token(c.n, c.kind, p)>>, <<>>} :
               wire' = wire \o lines \o <<Token(c.n, "prompt", p)>>
    BY DEF ElmAnswer
  <2> QED BY <2>1
<1>3. elmProto' \in Nat
  BY ProtocolsAssumption DEF ElmAnswer, TypeInv
<1> DEFINE Good(t) == /\ t \in Tok /\ t.n = c.n /\ t.n # 0
                      /\ t.kind # "alert" /\ t.proto = elmProto'
<1>4. /\ Good(Token(c.n, c.kind, elmProto'))
      /\ Good(Token(c.n, "prompt", elmProto'))
      /\ ~IsPrompt(Token(c.n, c.kind, elmProto'))
  BY <1>1, <1>3 DEF Token, Tok, Cmd, IsPrompt
<1>5. /\ answer \in Seq(Tok) /\ prompt \in Seq(Tok)
      /\ \A t \in Tokens(answer) : Good(t) /\ ~IsPrompt(t)
      /\ \A t \in Tokens(prompt) : Good(t)
      /\ Ended(answer) /\ Ended(prompt)
  <2>1. ASSUME NEW u \in Tok
        PROVE  /\ <<u>> \in Seq(Tok) /\ Ended(<<u>>)
               /\ \A t \in Tokens(<<u>>) : t = u
    <3>1. <<u>> \in Seq(Tok) /\ Len(<<u>>) = 1 /\ <<u>>[1] = u
      OBVIOUS
    <3> QED BY <3>1 DEF Ended, Tokens
  <2> HIDE DEF Good
  <2>2. /\ Token(c.n, c.kind, elmProto') \in Tok
        /\ Token(c.n, "prompt", elmProto') \in Tok
    BY <1>4 DEF Good
  <2> QED BY <1>4, <2>1, <2>2
<1> HIDE DEF answer, prompt, Good
<1>6. /\ lines \in Seq(Tok) /\ Ended(lines) /\ ~Answered(lines)
      /\ \A t \in Tokens(lines) : Good(t)
  <2>1. CASE lines = <<>>
    BY <2>1, EmptyTokens
  <2>2. CASE lines = answer
    <3>1. \A i \in 1 .. Len(lines) : lines[i] \in Tokens(lines)
      BY DEF Tokens
    <3> QED BY <1>5, <2>2, <3>1 DEF Answered
  <2> QED BY <2>1, <2>2
<1> DEFINE s == lines \o prompt
<1>7. /\ s \in Seq(Tok) /\ Tokens(s) = Tokens(lines) \cup Tokens(prompt)
      /\ Ended(s)
  BY <1>5, <1>6, TokensOfConcat
<1>8. wire' = wire \o s
  <2>1. wire \in Seq(Tok)
    BY DEF TypeInv
  <2>2. wire \o lines \o prompt = wire \o (lines \o prompt)
    BY <1>5, <1>6, <2>1, ConcatAssociative
  <2> QED BY <1>2, <2>2
<1> HIDE DEF s
<1>9. \A t \in Tokens(s) : Good(t)
  BY <1>5, <1>6, <1>7
<1> QED BY <1>7, <1>8, <1>9 DEF Good

LEMMA ElmAnswerStep ==
  ASSUME TypeInv, LiveInv, OrderInv, ElmAnswer
  PROVE  LiveInv' /\ OrderInv'
<1>1. /\ cmds # <<>> /\ cmds' = Tail(cmds)
      /\ UNCHANGED <<pc, cmd, dirty, buf, chan, hand, io>>
  BY DEF ElmAnswer, callerVars, loopVars
<1>2. Quiet(Live) /\ (Settled => io # "open")
  BY <1>1 DEF LiveInv
<1>3. PICK s \in Seq(Tok) :
        /\ wire' = wire \o s /\ Ended(s)
        /\ \A t \in Tokens(s) : /\ t.n = Head(cmds).n /\ t.n # 0
                                /\ t.kind # "alert" /\ t.proto = elmProto'
  BY AnswerWritten
<1>4. /\ Live' \subseteq Live \cup Tokens(s)
      /\ io # "open" => Live' = Live
  BY <1>1, <1>3, WireGrows
<1>5. OrderInv'
  <2>1. /\ ~Answered(buf) /\ ~Answered(hand)
        /\ io = "open" => ~Answered(wire)
        /\ \A i \in 1 .. Len(chan) : ~Answered(chan[i].b)
    BY <1>2, NothingAnswered
  <2> QED BY <1>1, <1>3, <2>1, OrderGrows
<1>6. /\ Head(cmds) = cmds[1] /\ 1 \in 1 .. Len(cmds)
      /\ Len(cmds') = Len(cmds) - 1 /\ Len(cmds) \in Nat
      /\ \A i \in 1 .. Len(cmds') : /\ i + 1 \in 1 .. Len(cmds)
                                    /\ cmds'[i] = cmds[i + 1]
  BY <1>1 DEF TypeInv
<1>7. \A i \in 1 .. Len(cmds') : cmds'[i].n # 0 /\ cmds'[i].kind # "none"
  BY <1>6 DEF LiveInv
<1>8. io = "open" => cmds' = <<>>
  <2>1. io = "open" => Len(cmds') = 0
    BY <1>6 DEF LiveInv
  <2>2. cmds' \in Seq(Cmd)
    BY <1>1 DEF TypeInv
  <2> QED BY <2>1, <2>2, EmptySeq
<1>9. \A t \in Live' : /\ t.n # 0 => t.proto = elmProto'
                       /\ t.n = 0 <=> t.kind = "alert"
  <2>1. \A t \in Live : t.n = 0 /\ t.kind = "alert"
    BY <1>2 DEF Quiet, LiveInv
  <2> QED BY <1>3, <1>4, <2>1
<1>10. cmds' # <<>> => Quiet(Live')
  BY <1>2, <1>4, <1>8
<1>11. (Settled => Quiet(Live) /\ (io = "open" => cmds = <<>>))'
  <2>1. Settled' = Settled
    BY <1>1 DEF Settled
  <2> QED BY <1>1, <1>2, <1>4, <2>1
<1>12. (pc = "read" => \A t \in Live : t.n \in {0, cmd.n})'
  <2>1. io = "open" /\ pc = "read" => Head(cmds).n = cmd.n
    BY <1>6 DEF LiveInv
  <2> QED BY <1>1, <1>2, <1>3, <1>4, <2>1 DEF Quiet
<1>13. /\ io' = "open" => Len(cmds') <= 1
       /\ io' = "open" => \A i \in 1 .. Len(cmds') : cmds'[i] = cmd'
  BY <1>1, <1>8
<1>14. (/\ pc \in {"drain", "write", "read"} => ~dirty
        /\ pc \in {"drain", "write"} => buf = <<>>
        /\ pc # "idle" => cmd.n # 0 /\ cmd.kind # "none")'
  BY <1>1 DEF LiveInv
<1>15. LiveInv'
  BY <1>7, <1>9, <1>10, <1>11, <1>12, <1>13, <1>14 DEF LiveInv
<1> QED BY <1>5, <1>15

\* One step keeps what the tokens on their way satisfy.
LEMMA FlowStep ==
  ASSUME ~ResyncMayFail, TypeInv, TypeInv', StreamInv, LiveInv, OrderInv,
         [Next]_vars
  PROVE  LiveInv' /\ OrderInv'
<1>1. CASE HandOver
  <2>1. UNCHANGED <<pc, cmd, dirty, buf, io, wire, cmds, elmProto>>
    BY <1>1 DEF HandOver, callerVars, elmVars
  <2>2. chan' = Append(chan, [b |-> hand, err |-> FALSE]) /\ hand' = <<>>
    BY <1>1 DEF HandOver
  <2> QED BY <2>1, <2>2, HandOverStep
<1>2. CASE HandOverError
  <2>1. UNCHANGED <<pc, cmd, dirty, buf, io, wire, cmds, elmProto>>
    BY <1>2 DEF HandOverError, callerVars, elmVars
  <2>2. hand = <<>> /\ hand' = <<>>
    BY <1>2 DEF HandOverError, StreamInv
  <2>3. chan' = Append(chan, [b |-> hand, err |-> TRUE])
    BY <1>2, <2>2 DEF HandOverError
  <2> QED BY <2>1, <2>2, <2>3, HandOverStep
<1> QED BY <1>1, <1>2, CallStep, ReadChunkStep, GiveUpStep, ResyncDoneStep,
           DrainStep, WriteStep, TakeAnswerStep, ReadSomeStep, FailStep,
           ElmAnswerStep, ElmAlertStep
        DEF Next, CallerStep, LoopStep

-----------------------------------------------------------------------------
(* The protocol                                                            *)

LEMMA ProtoKept ==
  ASSUME ProtoInv, UNCHANGED <<cmd, data, proto, cmds, elmProto>>,
         pc = "idle" => pc' = "idle", pc' = "resync" => pc = "resync"
  PROVE  ProtoInv'
BY DEF ProtoInv, NoSetSent

\* The lines of an answer, which TakeAnswer works on.
LEMMA LinesRead ==
  ASSUME TypeInv, LiveInv, OrderInv, TakeAnswer
  PROVE  /\ cmds = <<>> /\ cmd.n \in Nat
         /\ \A i \in 1 .. Len(Lines) :
              /\ Lines[i].n \in {0, cmd.n}
              /\ Lines[i].kind # "alert" => Lines[i].proto = elmProto
         /\ Lines \in Seq(Tok)
<1>1. pc = "read" /\ Prompts(buf) # {}
  BY DEF TakeAnswer
<1>2. /\ cmds = <<>>
      /\ \A t \in Tokens(buf) : t.n = 0 => ~IsPrompt(t)
  BY <1>1, PromptSettles
<1>3. Lines \in Seq(Tok) /\ Tokens(Lines) \subseteq Tokens(buf)
  BY <1>1, <1>2, AnswerAndRest DEF OrderInv
<1>4. \A i \in 1 .. Len(Lines) : Lines[i] \in Live
  BY <1>3 DEF Tokens, Live
<1>5. cmd.n \in Nat
  BY DEF TypeInv, Cmd
<1> QED BY <1>1, <1>2, <1>3, <1>4, <1>5 DEF LiveInv

\* The line that names the protocol names the one the adapter uses.
LEMMA ProtocolNamed ==
  ASSUME TypeInv, LiveInv, OrderInv, TakeAnswer, NamesProtocol(Lines)
  PROVE  Lines[Len(Lines)].proto = elmProto
<1>1. Lines \in Seq(Tok) /\ Lines # <<>> /\ Lines[Len(Lines)].kind = "dpn"
  BY LinesRead DEF NamesProtocol
<1>2. Len(Lines) \in 1 .. Len(Lines)
  BY <1>1
<1> QED BY <1>1, <1>2, LinesRead

LEMMA ProtoAnswer ==
  ASSUME TypeInv, LiveInv, OrderInv, ProtoInv, TakeAnswer
  PROVE  ProtoInv'
<1>1. /\ cmds = <<>> /\ pc = "read" /\ cmd.n \in Nat
      /\ UNCHANGED <<cmds, elmProto>>
      /\ NoSetSent'
  <2>1. cmds' = cmds /\ elmProto' = elmProto /\ pc = "read"
    BY DEF TakeAnswer, elmVars
  <2>2. Len(<<>>) = 0
    OBVIOUS
  <2> QED BY <2>1, <2>2, LinesRead DEF NoSetSent
<1>2. CASE UNCHANGED proto /\ pc' = "idle"
  BY <1>1, <1>2 DEF ProtoInv
<1>3. CASE /\ UNCHANGED proto /\ proto = 0 /\ data' = Lines
           /\ cmd' = [kind |-> "dpn", n |-> cmd.n + 1] /\ pc' = "drain"
  <2>1. cmd'.n - 1 = cmd.n /\ cmd'.kind = "dpn"
    BY <1>1, <1>3
  <2> QED BY <1>1, <1>3, <2>1, LinesRead DEF ProtoInv
<1>4. CASE NamesProtocol(Lines) /\ proto' = Lines[Len(Lines)].proto
             /\ pc' = "idle"
  BY <1>1, <1>4, ProtocolNamed DEF ProtoInv
<1>5. ~dirty
  BY <1>1 DEF LiveInv
<1> QED BY <1>2, <1>3, <1>4, <1>5
        DEF TakeAnswer, RoundTripAnswer, DetectProtocolAnswer, Finish, Fail,
            FirstStep

LEMMA ProtoStep ==
  ASSUME TypeInv, LiveInv, OrderInv, ProtoInv, [Next]_vars
  PROVE  ProtoInv'
<1>1. ASSUME NEW kind \in Kinds, Call(kind) PROVE ProtoInv'
  <2>1. /\ cmd'.kind = kind /\ kind # "dpn"
        /\ UNCHANGED <<cmds, elmProto>>
        /\ proto' = IF kind = "set" THEN 0 ELSE proto
    BY <1>1, KindsAssumption DEF Call, Begin, ProtoAtCall, elmVars
  <2> QED BY <2>1 DEF ProtoInv, NoSetSent
<1>2. CASE ReadChunk \/ ReadClosed \/ GiveUp \/ ResyncDone
  BY <1>2, ProtoKept
     DEF ReadChunk, ReadClosed, GiveUp, ResyncDone, ReadPromptFails, Waiting,
         LeaveResync, Abandon, Fail, elmVars
<1>3. CASE \/ DrainChunk \/ DrainEnd \/ ReadSome \/ HandOver \/ ReadError
           \/ HandOverError \/ Break \/ Close \/ ElmAlert \/ UNCHANGED vars
  BY <1>3, ProtoKept
     DEF DrainChunk, DrainEnd, ReadSome, HandOver, ReadError, HandOverError,
         Break, Close, ElmAlert, vars, callerVars, elmVars
<1>4. CASE Write
  <2>1. /\ UNCHANGED <<cmd, data, proto, elmProto>> /\ pc = "write"
        /\ pc' # "resync"
        /\ cmds' = Append(cmds, cmd) \/ cmds' = cmds
    BY <1>4 DEF Write, Fail
  <2>2. cmd.kind # "set" /\ NoSetSent => NoSetSent'
    <3>1. CASE cmds' = cmds
      BY <3>1 DEF NoSetSent
    <3>2. CASE cmds' = Append(cmds, cmd)
      <4> SUFFICES ASSUME cmd.kind # "set", NoSetSent,
                          NEW i \in 1 .. Len(cmds')
                   PROVE  cmds'[i].kind # "set"
        BY DEF NoSetSent
      <4>1. /\ Len(cmds') = Len(cmds) + 1 /\ Len(cmds) \in Nat
            /\ \A j \in 1 .. Len(cmds) : cmds'[j] = cmds[j]
            /\ cmds'[Len(cmds) + 1] = cmd
        BY <3>2, AppendProperties DEF TypeInv
      <4>2. i \in 1 .. Len(cmds) \/ i = Len(cmds) + 1
        BY <4>1
      <4> QED BY <4>1, <4>2 DEF NoSetSent
    <3> QED BY <2>1, <3>1, <3>2
  <2> QED BY <2>1, <2>2 DEF ProtoInv
<1>5. CASE ElmAnswer
  <2>1. /\ UNCHANGED <<pc, cmd, data, proto>>
        /\ Head(cmds) = cmds[1] /\ 1 \in 1 .. Len(cmds)
        /\ \A i \in 1 .. Len(cmds') : /\ i + 1 \in 1 .. Len(cmds)
                                      /\ cmds'[i] = cmds[i + 1]
    BY <1>5 DEF ElmAnswer, callerVars, TypeInv
  <2>2. NoSetSent => NoSetSent'
    BY <2>1 DEF NoSetSent
  <2>3. NoSetSent => elmProto' = elmProto
    <3>1. NoSetSent => Head(cmds).kind # "set"
      BY <2>1 DEF NoSetSent
    <3> QED BY <1>5, <3>1 DEF ElmAnswer
  <2> QED BY <2>1, <2>2, <2>3 DEF ProtoInv
<1> QED BY <1>1, <1>2, <1>3, <1>4, <1>5, ProtoAnswer
        DEF Next, CallerStep, LoopStep

-----------------------------------------------------------------------------
\* The invariant holds initially.
LEMMA InitIInv == ASSUME Init PROVE IInv
<1>1. /\ Tokens(buf) = {} /\ Tokens(hand) = {} /\ Tokens(wire) = {}
      /\ Ended(buf) /\ Ended(hand) /\ Ended(wire)
      /\ ~Answered(buf) /\ ~Answered(hand)
  BY EmptyTokens DEF Init
<1>2. Len(chan) = 0 /\ Len(cmds) = 0
  BY DEF Init
<1>3. Live = {}
  <2>1. OnWire = {}
    BY <1>1 DEF OnWire
  <2> QED BY <1>1, <1>2, <2>1 DEF Live, Behind
<1>4. TypeInv
  <2>1. <<>> \in Seq(Tok) /\ <<>> \in Seq(Chunk) /\ <<>> \in Seq(Cmd)
    OBVIOUS
  <2>2. [kind |-> "none", n |-> 0] \in Cmd
    BY DEF Cmd
  <2> QED BY <2>1, <2>2, ProtocolsAssumption DEF Init, TypeInv
<1>5. StreamInv
  BY <1>2 DEF Init, StreamInv
<1>6. LiveInv
  BY <1>2, <1>3 DEF Init, LiveInv, Settled, Quiet
<1>7. OrderInv
  BY <1>1, <1>2 DEF OrderInv
<1>8. ProtoInv
  BY <1>2 DEF Init, ProtoInv, NoSetSent
<1> QED BY <1>4, <1>5, <1>6, <1>7, <1>8 DEF IInv

\* The invariant is inductive, as long as resync does not give up before the
\* prompt it waits for.
THEOREM Inductive == ASSUME ~ResyncMayFail PROVE Spec => []IInv
<1>1. Init => IInv
  BY InitIInv
<1>2. ASSUME IInv, [Next]_vars PROVE IInv'
  <2>1. TypeInv /\ StreamInv /\ LiveInv /\ OrderInv /\ ProtoInv
    BY <1>2 DEF IInv
  <2>2. TypeInv'
    BY <1>2, <2>1, TypeStep
  <2>3. StreamInv'
    BY <1>2, <2>1, StreamStep
  <2>4. LiveInv' /\ OrderInv'
    BY <1>2, <2>1, <2>2, FlowStep
  <2>5. ProtoInv'
    BY <1>2, <2>1, ProtoStep
  <2> QED BY <2>2, <2>3, <2>4, <2>5 DEF IInv
<1> QED BY <1>1, <1>2, PTL DEF Spec

\* "commands are sent one at a time" (elm327.go): the adapter never has a
\* second command while it works on one, whatever was abandoned before.
THEOREM OneAtATime ==
  ASSUME ~ResyncMayFail PROVE Spec => []OneCommandAtATime
<1>1. IInv => OneCommandAtATime
  BY DEF IInv, LiveInv, OneCommandAtATime
<1> QED BY <1>1, Inductive, PTL

\* What a call returns: an error, or the lines of its own answer with the
\* protocol they came over.
Good(r) == r.ok => /\ \A i \in 1 .. Len(r.lines) : r.lines[i].n \in {r.n, 0}
                   /\ r.proto # 0 =>
                        \A i \in 1 .. Len(r.lines) :
                          r.lines[i].kind = "obd" =>
                            r.lines[i].proto = r.proto

LEMMA ResultStep ==
  ASSUME IInv, [Next]_vars PROVE result' = result \/ Good(result')
<1>1. TypeInv /\ LiveInv /\ OrderInv /\ ProtoInv
  BY DEF IInv
<1>2. ~[NoResult EXCEPT !.n = cmd.n].ok
  BY DEF NoResult
<1>3. Fail => Good(result')
  BY <1>2 DEF Fail, Good
<1>4. CASE TakeAnswer
  <2>1. /\ cmd.n \in Nat
        /\ \A i \in 1 .. Len(Lines) :
             /\ Lines[i].n \in {0, cmd.n}
             /\ Lines[i].kind # "alert" => Lines[i].proto = elmProto
    BY <1>1, <1>4, LinesRead
  <2>2. CASE Finish(cmd.n, Lines, proto)
    BY <1>1, <2>1, <2>2 DEF Finish, Good, ProtoInv
  <2>3. CASE /\ cmd.kind = "dpn" /\ NamesProtocol(Lines)
             /\ Finish(cmd.n - 1, data, Lines[Len(Lines)].proto)
    <3>1. Lines[Len(Lines)].proto = elmProto
      BY <1>1, <1>4, <2>3, ProtocolNamed
    <3>2. pc = "read"
      BY <1>4 DEF TakeAnswer
    <3> QED BY <1>1, <2>3, <3>1, <3>2 DEF Finish, Good, ProtoInv
  <2> QED BY <1>3, <1>4, <2>2, <2>3
          DEF TakeAnswer, RoundTripAnswer, DetectProtocolAnswer
<1>5. CASE ~TakeAnswer
  BY <1>3, <1>5
     DEF Next, CallerStep, LoopStep, Call, ReadChunk, ReadClosed, GiveUp,
         ResyncDone, ReadPromptFails, LeaveResync, Abandon, DrainChunk,
         DrainEnd, Write, ReadSome, HandOver, ReadError, HandOverError,
         Break, Close, ElmAnswer, ElmAlert, vars, callerVars
<1> QED BY <1>4, <1>5

LEMMA ResultsGood == ASSUME ~ResyncMayFail PROVE Spec => []Good(result)
<1>1. Init => Good(result)
  BY DEF Init, NoResult, Good
<1>2. IInv /\ Good(result) /\ [Next]_vars => Good(result)'
  BY ResultStep
<1> QED BY <1>1, <1>2, Inductive, PTL DEF Spec

\* "The next command must get its own answer, not the late one" (elm327.go):
\* after any number of abandoned commands.
THEOREM AnswerIsOwn == ASSUME ~ResyncMayFail PROVE Spec => []OwnAnswer
<1>1. Good(result) => OwnAnswer
  BY DEF Good, OwnAnswer
<1> QED BY <1>1, ResultsGood, PTL

\* A response is parsed with the headers of the protocol it came over, also
\* when a command has changed the protocol between two requests.
THEOREM ProtocolIsRight ==
  ASSUME ~ResyncMayFail PROVE Spec => []ParsedWithItsProtocol
<1>1. Good(result) => ParsedWithItsProtocol
  BY DEF Good, ParsedWithItsProtocol
<1> QED BY <1>1, ResultsGood, PTL
=============================================================================
