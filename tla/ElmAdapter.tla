----------------------------- MODULE ElmAdapter -----------------------------
(***************************************************************************)
(* elm327/elm327.go: commands to an ELM327 adapter over a serial stream.   *)
(*                                                                         *)
(* Adapter.mu is held for the whole of a call, so there is one caller; the *)
(* background goroutine readLoop runs beside it and hands over what it     *)
(* reads through a channel.  The adapter itself is outside src/: it works  *)
(* on the commands in the order they were written and ends each answer     *)
(* with a prompt, which is all that tells where an answer ends.            *)
(*                                                                         *)
(* Output is a sequence of tokens: a line of data that belongs to command  *)
(* n, the prompt of command n, or an alert (n = 0).  Contexts and the      *)
(* resync timeout may end a wait at any moment.                            *)
(***************************************************************************)
EXTENDS Naturals, Sequences

CONSTANTS
  Protocols,      \* vehicle protocols the adapter may use, nonzero numbers
  ChanCap,        \* capacity of the channel, 16 in the code
  ResyncMayFail,  \* resync may end before the prompt is there
  MayBreak,       \* the stream may fail or be closed
  Kinds,          \* calls a program makes: "obd" (RoundTrip), "set" (Command)
  MaxCommands,    \* bound: the commands written in a behaviour
  MaxAlerts       \* bound: the alerts in a behaviour

ASSUME ProtocolsAssumption == Protocols \subseteq Nat \ {0} /\ Protocols # {}
ASSUME KindsAssumption == Kinds \subseteq {"obd", "set"}
ASSUME CapAssumption == ChanCap \in Nat \ {0}
ASSUME ElmBoundsAssumption == MaxCommands \in Nat /\ MaxAlerts \in Nat

VARIABLES
  pc,        \* idle, resync, drain, write, read
  cmd,       \* the command in hand: its kind (obd, set, dpn) and number
  data,      \* RoundTrip: the lines that await the protocol
  dirty,     \* Adapter.dirty
  proto,     \* Adapter.proto, 0 for ProtocolUnknown
  buf,       \* Adapter.buf
  chan,      \* Adapter.in: chunks [b, err]
  closed,    \* the channel was closed
  rl,        \* readLoop: reading, sending, failing, done
  hand,      \* readLoop: what it has read and not yet handed over
  io,        \* the stream: open, broken (reads fail), closed
  wire,      \* output of the adapter that was not read yet
  cmds,      \* commands the adapter has not answered
  elmProto,  \* protocol the adapter uses
  result,    \* history: what the last call returned
  alerts     \* number of alerts

callerVars == <<pc, cmd, data, dirty, proto, buf, result>>
loopVars   == <<closed, rl, hand>>
elmVars    == <<wire, cmds, elmProto, alerts>>
vars       == <<callerVars, chan, loopVars, io, elmVars>>

NoResult == [n |-> 0, lines |-> <<>>, proto |-> 0, ok |-> FALSE]

Init ==
  /\ pc = "idle" /\ cmd = [kind |-> "none", n |-> 0] /\ data = <<>>
  /\ dirty = FALSE /\ proto = 0 /\ buf = <<>> /\ result = NoResult
  /\ chan = <<>> /\ closed = FALSE /\ rl = "reading" /\ hand = <<>>
  /\ io = "open" /\ wire = <<>> /\ cmds = <<>> /\ alerts = 0
  /\ elmProto \in Protocols

IsPrompt(t) == t.kind = "prompt"
Prompts(s) == {i \in 1 .. Len(s) : IsPrompt(s[i])}
FirstPrompt(s) == CHOOSE i \in Prompts(s) : \A j \in Prompts(s) : i <= j

-----------------------------------------------------------------------------
(* command                                                                 *)

\* The call returns an error.
Fail == pc' = "idle" /\ result' = [NoResult EXCEPT !.n = cmd.n]

\* command begins with resync if an earlier one was abandoned, and otherwise
\* with drain, which empties the buffer first.
MutFirstStep == "drain"              \* mutant: dirty is not looked at
FirstStep == IF dirty THEN "resync" ELSE "drain"

Begin(kind, n) ==
  /\ cmd' = [kind |-> kind, n |-> n]
  /\ pc' = FirstStep
  /\ buf' = IF FirstStep = "drain" THEN <<>> ELSE buf

\* mutant: a change of protocol leaves the protocol that was detected
MutProtoAtCall(kind) == proto
ProtoAtCall(kind) == IF kind = "set" THEN 0 ELSE proto

Call(kind) ==
  /\ pc = "idle"
  /\ cmd.n < MaxCommands
  /\ proto' = ProtoAtCall(kind)
  /\ data' = <<>>
  /\ Begin(kind, cmd.n + 1)
  /\ UNCHANGED <<dirty, result, chan, loopVars, io, elmVars>>

\* resync has seen the prompt, or has given up on it.
LeaveResync ==
  /\ pc' = "drain"
  /\ dirty' = FALSE
  /\ buf' = <<>>
  /\ UNCHANGED <<cmd, data, proto, result>>

\* The call returns an error from readPrompt.
MutDirtyAfterError == dirty          \* mutant: forgotten
DirtyAfterError == TRUE

Abandon ==
  /\ Fail
  /\ dirty' = DirtyAfterError
  /\ UNCHANGED <<cmd, data, proto, buf>>

ReadPromptFails == \/ pc = "resync" /\ LeaveResync
                   \/ pc = "read" /\ Abandon

Waiting == pc \in {"resync", "read"} /\ Prompts(buf) = {}

ReadChunk ==
  /\ Waiting
  /\ chan # <<>>
  /\ chan' = Tail(chan)
  /\ \/ /\ ~Head(chan).err
        /\ buf' = buf \o Head(chan).b
        /\ UNCHANGED <<pc, cmd, data, dirty, proto, result>>
     \/ Head(chan).err /\ ReadPromptFails
  /\ UNCHANGED <<loopVars, io, elmVars>>

ReadClosed ==
  /\ Waiting
  /\ chan = <<>> /\ closed
  /\ ReadPromptFails
  /\ UNCHANGED <<chan, loopVars, io, elmVars>>

\* The caller's context ends, or the resync timeout expires.
GiveUp ==
  /\ Waiting
  /\ pc = "resync" => ResyncMayFail
  /\ ReadPromptFails
  /\ UNCHANGED <<chan, loopVars, io, elmVars>>

ResyncDone ==
  /\ pc = "resync"
  /\ Prompts(buf) # {}
  /\ LeaveResync
  /\ UNCHANGED <<chan, loopVars, io, elmVars>>

\* drain takes what is in the channel; an error ends it like an empty one.
DrainChunk ==
  /\ pc = "drain"
  /\ chan # <<>>
  /\ chan' = Tail(chan)
  /\ pc' = IF Head(chan).err THEN "write" ELSE "drain"
  /\ UNCHANGED <<cmd, data, dirty, proto, buf, result, loopVars, io, elmVars>>

DrainEnd ==
  /\ pc = "drain"
  /\ chan = <<>>
  /\ pc' = "write"
  /\ UNCHANGED <<cmd, data, dirty, proto, buf, result, chan, loopVars, io,
                 elmVars>>

Write ==
  /\ pc = "write"
  /\ \/ /\ io # "closed"
        /\ cmds' = Append(cmds, cmd)
        /\ pc' = "read"
        /\ UNCHANGED result
     \/ io # "open" /\ Fail /\ UNCHANGED cmds
  /\ UNCHANGED <<cmd, data, dirty, proto, buf, chan, loopVars, io, wire,
                 elmProto, alerts>>

-----------------------------------------------------------------------------
(* What RoundTrip, detectProtocol and Command do with an answer            *)

\* The lines before the first prompt, and what readPrompt leaves.
Lines == SubSeq(buf, 1, FirstPrompt(buf) - 1)
Rest == SubSeq(buf, FirstPrompt(buf) + 1, Len(buf))
HasAlert(lines) == \E i \in 1 .. Len(lines) : lines[i].kind = "alert"

Finish(n, lines, p) ==
  /\ pc' = "idle"
  /\ result' = [n |-> n, lines |-> lines, proto |-> p, ok |-> TRUE]

\* RoundTrip: without data, or with an alert among the lines, it fails; with
\* an unknown protocol it asks for it first.
RoundTripAnswer(lines) ==
  \/ /\ lines = <<>> \/ HasAlert(lines)
     /\ Fail
     /\ buf' = Rest
     /\ UNCHANGED <<cmd, data>>
  \/ /\ lines # <<>> /\ ~HasAlert(lines) /\ proto = 0
     /\ data' = lines
     /\ cmd' = [kind |-> "dpn", n |-> cmd.n + 1]
     /\ pc' = FirstStep
     /\ buf' = IF FirstStep = "drain" THEN <<>> ELSE Rest
     /\ UNCHANGED result
  \/ /\ lines # <<>> /\ ~HasAlert(lines) /\ proto # 0
     /\ Finish(cmd.n, lines, proto)
     /\ buf' = Rest
     /\ UNCHANGED <<cmd, data>>

NamesProtocol(lines) == lines # <<>> /\ lines[Len(lines)].kind = "dpn"

\* detectProtocol: the last line names the protocol, and RoundTrip ends.
DetectProtocolAnswer(lines) ==
  /\ \/ /\ NamesProtocol(lines)
        /\ proto' = lines[Len(lines)].proto
        /\ Finish(cmd.n - 1, data, lines[Len(lines)].proto)
     \/ ~NamesProtocol(lines) /\ Fail /\ UNCHANGED proto
  /\ buf' = Rest
  /\ UNCHANGED <<cmd, data>>

TakeAnswer ==
  /\ pc = "read"
  /\ Prompts(buf) # {}
  /\ \/ cmd.kind = "obd" /\ RoundTripAnswer(Lines) /\ UNCHANGED proto
     \/ cmd.kind = "dpn" /\ DetectProtocolAnswer(Lines)
     \/ /\ cmd.kind = "set"
        /\ Finish(cmd.n, Lines, proto)
        /\ buf' = Rest
        /\ UNCHANGED <<cmd, data, proto>>
  /\ UNCHANGED <<dirty, chan, loopVars, io, elmVars>>

-----------------------------------------------------------------------------
(* readLoop                                                                *)

\* A Read returns some of what is there.
ReadSome ==
  /\ rl = "reading" /\ io = "open"
  /\ \E k \in 1 .. Len(wire) :
       /\ hand' = SubSeq(wire, 1, k)
       /\ wire' = SubSeq(wire, k + 1, Len(wire))
  /\ rl' = "sending"
  /\ UNCHANGED <<callerVars, chan, closed, io, cmds, elmProto, alerts>>

Room == Len(chan) < ChanCap

HandOver ==
  /\ rl = "sending"
  /\ Room
  /\ chan' = Append(chan, [b |-> hand, err |-> FALSE])
  /\ hand' = <<>>
  /\ rl' = "reading"
  /\ UNCHANGED <<callerVars, closed, io, elmVars>>

ReadError ==
  /\ rl = "reading" /\ io # "open"
  /\ rl' = "failing"
  /\ UNCHANGED <<callerVars, chan, closed, hand, io, elmVars>>

MutClosesChan == closed              \* mutant: the channel is left open
ClosesChan == TRUE

HandOverError ==
  /\ rl = "failing"
  /\ Room
  /\ chan' = Append(chan, [b |-> <<>>, err |-> TRUE])
  /\ closed' = ClosesChan
  /\ rl' = "done"
  /\ UNCHANGED <<callerVars, hand, io, elmVars>>

-----------------------------------------------------------------------------
(* The stream and the adapter (external), and Close                        *)

Break ==
  /\ MayBreak /\ io = "open"
  /\ io' = "broken"
  /\ UNCHANGED <<callerVars, chan, loopVars, elmVars>>

Close ==
  /\ MayBreak /\ io # "closed"
  /\ io' = "closed"
  /\ UNCHANGED <<callerVars, chan, loopVars, elmVars>>

Token(n, kind, p) == [n |-> n, kind |-> kind, proto |-> p]

\* The adapter answers its first command: with a line of data, or, for a
\* request, with none; a command may set the protocol.
ElmAnswer ==
  /\ cmds # <<>>
  /\ LET c == Head(cmds)
     IN \E p \in IF c.kind = "set" THEN Protocols ELSE {elmProto} :
          /\ elmProto' = p
          /\ \E lines \in {<<Token(c.n, c.kind, p)>>}
                           \cup (IF c.kind = "obd" THEN {<<>>} ELSE {}) :
               wire' = wire \o lines \o <<Token(c.n, "prompt", p)>>
  /\ cmds' = Tail(cmds)
  /\ UNCHANGED <<callerVars, chan, loopVars, io, alerts>>

ElmAlert ==
  /\ alerts < MaxAlerts
  /\ cmds = <<>>
  /\ alerts' = alerts + 1
  /\ wire' = Append(wire, Token(0, "alert", 0))
  /\ UNCHANGED <<callerVars, chan, loopVars, io, cmds, elmProto>>

-----------------------------------------------------------------------------
CallerStep == \/ ReadChunk \/ ReadClosed \/ ResyncDone \/ DrainChunk
              \/ DrainEnd \/ Write \/ TakeAnswer
LoopStep == ReadSome \/ HandOver \/ ReadError \/ HandOverError

Next == \/ \E kind \in Kinds : Call(kind)
        \/ CallerStep \/ GiveUp
        \/ LoopStep
        \/ Break \/ Close
        \/ ElmAnswer \/ ElmAlert

Spec == Init /\ [][Next]_vars

\* Both goroutines run, and the adapter answers a command it has got.  No
\* context is obliged to end.
FairSpec == /\ Spec
            /\ WF_vars(CallerStep) /\ WF_vars(LoopStep) /\ WF_vars(ElmAnswer)

-----------------------------------------------------------------------------
(* Properties                                                              *)

\* "The next command must get its own answer, not the late one": the lines
\* of an answer belong to the command that was sent, or are alerts.
OwnAnswer ==
  result.ok => \A i \in 1 .. Len(result.lines) :
                 result.lines[i].n \in {result.n, 0}

\* "commands are sent one at a time": the adapter never has a second command
\* while it works on one, which would interrupt the first, as long as its
\* answers can be read.
OneCommandAtATime == io = "open" => Len(cmds) <= 1

\* A response is parsed with the headers of the protocol it came over.
ParsedWithItsProtocol ==
  result.ok /\ result.proto # 0 =>
    \A i \in 1 .. Len(result.lines) :
      result.lines[i].kind = "obd" => result.lines[i].proto = result.proto

\* A call returns once the adapter has answered or the stream has failed; the
\* caller's context is not needed for that.
CallReturns == pc # "idle" ~> pc = "idle"
=============================================================================
