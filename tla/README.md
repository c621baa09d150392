# A TLA+ model of obd2

This directory holds TLA+ modules that model the `obd2` Go library, TLC
configurations that check them on small instances, and TLAPS proofs that the
safety properties hold for every instance. `PROJECT.json` lists the runs, the
mutants that show each property can fail, the lines of code each definition
stands for, the hazards the properties are aimed at, and the theorems.

    tlc -workers 2 -config Commands.cfg MCCommands
    tlapm VirtualBusProofs.tla

## 1. The system

The library talks to the engine control units (ECUs) of a vehicle. A program
calls a `Client`; the client sends requests through a `Transport`, which is
either a `CANTransport` on a `can.Bus` or an `elm327.Adapter` on a serial
stream. A `can.Bus` is a Linux socket (`socketcan.Conn`) or, in tests, an
endpoint of a `can.VirtualBus`, with an `ecusim.ECU` at another endpoint.
Messages longer than a CAN frame go through ISO-TP (`isotp`).

            program goroutines
                   |  Query, ClearDTCs, SupportedPIDs, ...
                Client           mutex: one request at a time
                   |  RoundTrip
         +---------+----------+
    CANTransport         elm327.Adapter     mutex, channel from readLoop
         |  Receiver per ECU  |
      can.Bus              serial stream
       /     \                |
  VirtualBus  socketcan.Conn  ELM327 (external)
      |            |
  ecusim.ECU    the kernel, real ECUs (external)
      |
  isotp.Conn

| Component | State it keeps | Operations | What is hard | What makes it correct |
|---|---|---|---|---|
| `can.VirtualBus` | list of ports under one mutex; per port a queue, `closed`, a one-token channel | Connect, Send, Receive, Close | locks of two levels, taken one after the other with gaps; wake-up through a channel that drops tokens | one order for all, nothing lost, no Receive asleep with something to return, silence after Close |
| `isotp.Receiver` | buffer, wanted length, next sequence number, frames in the block | Feed, Active, Reset | frames out of sequence, malformed, in the middle of another message | a message is returned only as it was sent |
| `isotp.Conn` | none between calls; the call's offset, block counter, timers | Send, Receive | flow control between two counters, N_Bs and N_Cr racing late frames, lost frames | whole messages, in order; block size respected; every call ends |
| `CANTransport` | the addressing that worked; per round trip a Receiver and a deadline for each ECU | RoundTrip | several ECUs at once, response pending, late answers, other testers | every ECU's answer, no one else's, no idle waiting |
| `elm327.Adapter` | `dirty`, `proto`, `buf`, a channel from `readLoop` | Open, Command, RoundTrip, Close | an answer that comes after its command was given up; an adapter busy for another program; alerts; a stream that fails; lines of several ECUs mixed | each command gets its own answer; each call returns; frames are put together by ECU |
| `socketcan.Conn` | the file and its deadlines | Receive, Send, Close | the end of a context is turned into a deadline by another goroutine | only the own call is interrupted, no frame is lost |
| `Client` | the protocol, once known | Request, Query, ClearDTCs, SupportedPIDs, trouble codes, VIN, ReadDataByIdentifier | requests of goroutines interleave; partial answers; answers for others; messages of the older protocols in any order | readings and codes complete, once, in order; requests the vehicle understands |
| `ecusim.ECU` | its tables, the Receiver of Serve | Serve | answering while the bus brings more requests; flow control meant for others | whole answers to what it has; it keeps serving |
| PID table, DTC and STmin codecs | none | conversions | boundaries of bytes, a count byte that wraps | nothing is made up or left out |
| `cmd/obd2` | flags | one command of several requests | one of the requests fails | the report tells what the ECUs hold |

Shared state and interactions: goroutines share the client through
`Client.mu`, held for one request; the bus through `VirtualBus.mu` and each
port's mutex; the adapter's channel is written by `readLoop` and read by the
call that holds `Adapter.mu`; a socket call is interrupted by the goroutine of
`context.AfterFunc`. Everything else is passed by call and return.

## 2. Modules

| Module | Models | Kind |
|---|---|---|
| `VirtualBus` | `can/virtual.go`, one action per critical section or channel operation | component |
| `OrderedBroadcast` | the promise of VirtualBus's doc comment | abstract specification |
| `MCVirtualBus` | the symmetry | model checking |
| `IsoTp` | `isotp/isotp.go`: the frames and `Receiver.Feed`, as operators | component |
| `IsoTpConn` | `isotp/conn.go`: two Conns face to face, extends `IsoTp` | component |
| `MessageChannel` | what a pair of Conns promises | abstract specification |
| `MCIsoTpConn` | stray frames, the symmetry | model checking |
| `CANTransport`, `MCCANTransport` | `can_transport.go` and `answer.go`, extends `IsoTp` | component |
| `ElmAdapter`, `MCElmAdapter` | `elm327/elm327.go`: commands, resynchronisation, readLoop | component |
| `ElmOpen` | `elm327/elm327.go`: Open | component |
| `ElmParse` | `elm327/elm327.go`: the lines of RoundTrip, parse, parseCAN, as operators on `IsoTp` | component |
| `SocketCAN` | `socketcan/socketcan_linux.go`, and `timeoutError` of `isotp/conn.go` | component |
| `Client`, `MCClient` | `client.go`, `answer.go`, `parseReadings` of `pid.go` | component |
| `SupportedPIDs` | `Client.SupportedPIDs`, `supportedFromBitmap`, `ECU.pidData` | component |
| `Commands`, `MCCommands` | `run` of `cmd/obd2/main.go` with MILStatus, dtcs, VIN and ReadDataByIdentifier of `client.go` and `ParseDTCs`; extends `ElmOpen`, `ElmParse`, `SupportedPIDs` | composition |
| `EcuSim`, `MCEcuSim` | `ecusim/ecusim.go` with the round trips of `can_transport.go`, extends `IsoTp` | composition |
| `VirtualBusProofs`, `SocketCANProofs`, `ElmAdapterProofs`, `CANTransportProofs`, `IsoTpConnProofs`, `ClientProofs`, `EcuSimProofs` | theorems about the module of that name, which each extends | proofs |
| `CommandsProofs` | theorems about `Commands`, and about `SupportedPIDs` and `ElmOpen` as it runs them | proofs |

`IsoTpConn`, `CANTransport`, `ElmParse` and `EcuSim` compose the reassembly
machine of `IsoTp` with their own control. `EcuSim` puts the simulated ECUs and
the transport on one bus; `Commands` puts a program, the client's calls, the
adapter's lines and the ECUs behind each other. The other modules meet at
interfaces: `VirtualBus` shows that a bus keeps order and loses nothing, which
`IsoTpConn` takes as the behaviour of its inboxes; `CANTransport` and
`ElmAdapter` look inside the round trip that `Client` takes as one step, which
`Client.mu` justifies.

Operators whose names begin with `Mut` are not part of a model. Each is the
body a plausible bug would give to the definition below it (a dropped guard, a
limit off by one, a forgotten reset), and `PROJECT.json` names the property
that must then fail. The refinement mappings, from `VirtualBus` to
`OrderedBroadcast` and from `IsoTpConn` to `MessageChannel`, are at the end of
the detailed modules, where the runs and the proofs share them.

### VirtualBus

An endpoint has three program counters: `spc` (Send), `rpc` (Receive) and
`cpc` (its life and Close), which is the contract of `can.Bus`, Send and
Receive at the same time but not two Receives. A critical section of a port's
mutex is one step. The bus mutex `mu` is a variable because `Send` holds it
over all its deliveries. `SendCheck` reads `closed` and lets the port's mutex
go before `SendLock` takes the bus, as the code does, so a Close fits between.
`deliver` is two steps, `Deliver` (queue) and `Ring` (token), because the token
is sent after the unlock; so is Close (`CloseDetach`, `CloseMark`,
`CloseNotify`). A frame is its position in the bus order; `log` and `read` are
history. `deliver` looks at `closed` again: `ClosedIsSilent`'s proof shows that
this test never decides anything, because Close detaches under `mu` first.

### IsoTp and IsoTpConn

A frame carries parts `[msg, off, n]`, the bytes `off .. off + n - 1` of a
message, instead of bytes; the buffer of a Receiver is the sequence of parts
it holds. `Split` is the reference: what the buffer of an unharmed message is.
Each endpoint is in at most one call (`Conn` "is not safe for concurrent use").
`waitFlowControl` drops frames that are not flow control; `Receive` answers a
first frame before it looks at errors; N_Cr is set again after every frame
while a transfer is active. All of these are in the actions as the code has
them. Time is abstracted: an armed timer and a context may end a wait at any
moment, which covers all durations.

A behaviour is `calm` or not. In a calm one no timer fires, no context ends
and no frame is lost: it is where one can ask that messages do arrive and
blocks are kept. `BlockSizeRespected` counts the consecutive frames on their
way to a receiver and those it counted itself, so that it relates two counters
that never meet in the code. The sequence number is reduced (`SeqNumbers`), so
that it wraps in a short message; the code's value is 16.

### CANTransport

Time is a discrete clock, as deadlines are the subject here. A tick passes only
when the tester has nothing to do; a deadline is the number of ticks left. The
window, N_Cr and the time after response pending are parameters, and an ECU
that keeps the standard answers strictly within them. `world` fixes, for a
behaviour, how the transport was configured and what surrounds it. The run
checks four worlds:

- *Searching*: auto addressing, both ECUs speak 29-bit, may ask for time again
  and again, may answer in segments; two requests;
- *Crosstalk*: another tester gets answers for a different PID, twice;
- *Directed*: the same with requests to one ECU;
- *Disorderly*: answers at any time or not at all, response pending, malformed
  frames, contexts that end; an ECU may stop at any point.

Properties that need ECUs to keep their times are stated for orderly worlds
(`world.orderly`), and `RoundTripReturns` for all, with one premise: each ECU
at some point no longer sends response pending. How often it does is not
bounded, and without the premise the property is false (section 5). Frames for
another tester are bounded in every world (`world.others`).

### ElmAdapter

The adapter (external) takes commands in order, answers with lines and a
prompt; tokens remember which command they belong to, which the code cannot
see. `readLoop` is a process of its own: it may read any prefix of what is
there, and waits for room in the channel. `command` is split at each point
where the other side may act: resync, drain (chunk by chunk), write, read.

### SocketCAN

Each direction is a process that goes through `watch` (check the context, set
the deadline, register the AfterFunc), the operation, and the function `watch`
returned (stop; if that is too late, wait for the channel). The AfterFunc is a
process too. The context's timer and the poller's deadline are separate, as in
the runtime.

### Client and SupportedPIDs

A request and its answers are one step, as `Client.mu` is held. A response is
a list of groups (PID and its data), or a refusal, possibly cut short or meant
for another tester. A refusal that is cut short has two bytes: `answers` lets
it pass, but it has no code, and `Response.Err` makes no error of it
(`Refuses`). `answers`, the sort by ECU, `positive`, `parseReadings`
and the de-duplication of `service01` are translated as functions on these.
The sort by ECU is a bijection onto positions (`EcuOrder` is the sequence of
ECUs by identifier), and what the code computes in loops is recursive functions
over positions, so that they can be reasoned about. Two callers share `proto`,
read by `batchSize` in a step of its own.
`SupportedPIDs` starts from every set of PIDs the ECUs may have; it has no
specification of its own and runs as the `info` command of `Commands`.

### Commands, ElmOpen and ElmParse

A behaviour is one command: `open`, `info`, `dtc`, `vin`, or `did` (which
programs call themselves). A request is sent; each ECU has a queue of messages
to answer with, which become lines one by one (`NextLine`): ISO-TP frames on
CAN and whole messages on the older protocols. The lines of the ECUs are
printed in any order, and when none is left the prompt comes. Then, in one
action, `RoundTrip` reads the lines (`RoundTripLines`, `ParseCAN` with one
`Receiver` for each identifier), `Request` filters by `answers` and sorts by
ECU, `positive` sorts out refusals, and the call decodes. Codes and characters
are numbers. At most `MaxQuirks` things out of
the ordinary happen: an ECU is silent, refuses, asks for time first, answers
another tester too, sends VIN messages in another order, announces a code it
does not send; a line is damaged or unreadable; the adapter gives up. History
variables keep who answered (`said`) and what was out of the ordinary (`odd`),
and the properties compare the result with what the ECUs hold. What the code
computes in a loop over a list (`Without`, `ParsedCAN`, `SortedByEcu`, `SumOf`)
is a recursive function over positions, which the proofs unfold.

`ElmOpen` is Open with an adapter that may be at work for an earlier program,
or have one answer of it on the way; it may also refuse any command. A command
sent to a working adapter interrupts it and is lost, as the code's comment
(`elm327.go:100`) has it. Answers are matched to commands by nothing but their
order, so one that is out of step shifts all that follow; `OpenedAsConfigured`
says that this cannot end in an adapter taken for set up. Draining and writing
are one step here; that another answer arrives between them is `ElmAdapter`'s
subject, and `Arrive` allows it right after.

### EcuSim

Each ECU runs Serve: a functional request is read at sight, a physical one goes
through the Receiver; `answer` computes the reply, clears codes, or stays
silent; then response pending, the first frame, the wait for flow control and
the blocks. The wait is that of `isotp.Conn` and takes every frame from the
ECU's queue, requests included, as the code does. Testers make round trips with
the addressing known, with `Feed` for each ECU, flow control, `answers`, and
requests of two frames through `Conn.Send`. What a round trip gathers is a
sequence, as in the code: an answer that is gathered twice is there twice, and
`CallsAnswered` compares its length with the number of ECUs that answer. A sent
frame is queued at once for
everyone who looks at it; `VirtualBus` shows that this order is kept. Two
worlds:

- *Calm*: one tester, two ECUs, three calls out of fourteen; no window and no
  timer ends before all ECUs are silent;
- *Busy*: two testers of one ECU; a window, a timer, the context of the ECU may
  end at any moment.

## 3. Runs

States are distinct states found by TLC.

| Run | Instance | States | Shows |
|---|---|---|---|
| `virtualbus_safety` | 3 ports, 2 frames | 830,875 | order, delivery, wake-ups, silence after Close; refinement of `OrderedBroadcast` |
| `virtualbus_live` | 2 ports, 2 frames, fair | 30,867 | Receive and Send return |
| `isotp_safety` | both send, 2 messages of 7 or 27 bytes, 2 stray frames, block size 2 | 702,711 | types, refinement of `MessageChannel` |
| `isotp_transfers` | one sender; not calm: 1 message, 3 faults; calm: 3 messages; lengths 7, 8, 27, 41, 48; fair | 13,023 | integrity under loss and repetition, block size, all calls end, all delivered |
| `transport` | 2 ECUs, four worlds, window 2, N_Cr 2, pending 3; fair | 200,657 | round trips complete, own, not idle, settled, and they return |
| `elm_adapter` | 4 commands, 2 protocols, channel of 2, 1 alert, stream may break; fair | 140,738 | own answers, own protocol, calls return |
| `socketcan` | 2 calls over both directions, 2 frames, fair | 299,639 | own interruption, frames kept, calls end |
| `client` | 2 callers, 3 calls, 2 quirks, batch of 2 | 52,593 | readings complete, once, ordered; legal requests |
| `commands` | 2 ECUs, 5 commands, 2 protocols, 3 profiles for codes, 2 quirks; 3 bitmaps of 3 PIDs; VINs of 3 parts | 277,137 | codes, counts, VINs, data as the ECUs hold them; the union of PIDs; Open |
| `simulated_ecus` | 2 ECUs and 1 tester with 3 calls; 1 ECU and 2 testers with 2 and 1; block size 1; fair | 207,565 | calls answered in full, nothing mixed, ECUs keep serving |
| `elm_resync_given_up` | 3 commands, resync may give up | violation | finding 1 |
| `socketcan_callers_deadline` | 1 Receive | violation | finding 2 |

Why the bounds are enough:

- *VirtualBus*: an order anomaly needs two frames and two observers; a Close
  between check and delivery needs a third endpoint to see it.
- *IsoTp*: 7 bytes is the longest single frame, 8 the shortest segmented
  message; 27, 41 and 48 take 3, 5 and 6 consecutive frames, so with blocks of
  2 a message ends within a block and at the end of one, and with a modulus of
  4 the sequence number wraps before the end. A receiver cannot tell the loss
  of as many frames as the modulus from the loss of none, here or with sixteen
  in the code; the faults are bounded below it.
- *CANTransport*: two ECUs are needed for one to be waited for while another
  is done; two requests for one to be followed by the next.
- *ElmAdapter*: a command, one that is abandoned, a protocol inquiry and the
  command after; a channel of 2 is full with a chunk and an error.
- *SocketCAN*: a call and the next one that a late interruption would hit;
  a data frame after a remote frame.
- *Client*: lists that must be split and combined (`<<2, 9, 1, 3>>`: 9 has no
  known size), a PID both ECUs have, a caller that learns the protocol between
  two requests of the other.
- *Commands*: two ECUs, so that one can refuse, be silent or mix its lines with
  the other's; two quirks, so that one can follow from another. Lists of
  none to four codes take one or two frames on CAN, one or two messages before
  it; a count byte of four values is overflown by four codes, as one of 256 is
  by 256 codes. A VIN of three messages can be out of order as one of five.
- *ElmOpen*: one old command and one old answer, which is what the reset
  written twice is for.
- *SupportedPIDs*: three bitmaps are the first, one in the middle and the last,
  before the byte wraps.
- *EcuSim*: answers of one to three frames with a block of one, so that an ECU
  waits for flow control twice; three calls, so that what a call leaves behind
  meets the next, and clearing codes comes before and after reading them.

Symmetry is used only in runs without liveness: ports, nodes and callers are
interchangeable in the specifications (`Senders` is all nodes in
`isotp_safety`). `ECU` identifiers are ordered, so they are not symmetric.

`CHECK_DEADLOCK FALSE` is set where the bounded number of calls is used up and
nothing is left to do: `isotp_transfers`, `elm_adapter`, `elm_resync_given_up`,
`socketcan`, `socketcan_callers_deadline`, `client`, `commands` and
`simulated_ecus`. The other runs check for deadlock: in `VirtualBus`,
`isotp_safety` and `CANTransport` a call, a step of time or a cancellation is
always possible.

### Fairness

- *VirtualBus*: each step inside a call is weakly fair (the Go scheduler runs
  runnable goroutines); taking the bus mutex strongly, since `sync.Mutex`
  hands over to a waiter that has starved for a millisecond. No call has to be
  made, no context has to end.
- *IsoTpConn*: steps of a call and expiry of an armed timer. `AllDelivered`
  states its own extra premise, that somebody calls Receive (`Listening`).
- *CANTransport*: steps of the tester and time. In an orderly world an ECU that
  has begun goes on, but it may choose to stay silent; in the disorderly one
  nothing is asked of the ECUs.
- *ElmAdapter*: both goroutines, and an adapter that answers a command it was
  given. Without the last a call returns by its context only.
- *SocketCAN*: the goroutines, and timers that fire once their time has come.
- *Commands*: each request of the walk over the bitmaps is answered or fails
  (`ElmAdapter` shows that); the other commands need no fairness.
- *EcuSim*: Serve and each round trip go on when they can, which includes that
  a wait ends by its timer. No call has to be made, no ECU has to be stopped.

## 4. Proofs

The theorems hold for every value of the constants that satisfies the `ASSUME`s
of the modules (any sets of ports, callers and ECUs, any lengths, timeouts and
bounds), where the runs of section 3 check one instance. They are about `Spec`,
without fairness.

| Module | Theorem | States | Under |
|---|---|---|---|
| `VirtualBusProofs` | `TypeCorrect`, `Inductive` | `[]TypeOK`, `[]IInv` | |
| | `OrderIsKept` | `[]SameOrder` | |
| | `ClosedStaysSilent` | `[]ClosedIsSilent` | |
| | `WakeupIsNotLost` | `[]NoLostWakeup` | |
| | `NothingIsLost` | `[]NothingLost` | |
| | `QueuesHaveNoGap` | what is received and queued is one stretch of the log | |
| | `Refinement` | `ImplementsOrderedBroadcast` | |
| `IsoTpConnProofs` | `TypeCorrect` | `[]TypeOK`, whatever is lost or repeated | `StraysAreFrames` |
| | `Inductive` | `[](Faultless => IInv)` | and `StraysArePlain` |
| | `MessagesAreWhole` | `[](Faultless => Integrity)` | the same |
| | `Refinement` | `Faultless => ImplementsMessageChannel` | the same |
| | `FlowInductive` | `[](calm => FlowInv)` | the same, blocks in use |
| | `BlocksAreKept` | `[]BlockSizeRespected` | the same |
| `CANTransportProofs` | `Inductive` | `[](world.orderly => IInv)` | `Undisturbed` |
| | `NobodyIsMissed` | `[]NobodyMissed` | the same |
| | `AnswersAreItsOwn` | `[]AnswersAreOwn` | the same |
| | `NoWaitIsIdle` | `[](world.orderly => NoIdleWait)` | the same |
| | `ModeIsSettledByAnswer` | `ModeSettledByAnswer` | all worlds orderly |
| `ElmAdapterProofs` | `Inductive` | `[]IInv` | `~ResyncMayFail` |
| | `OneAtATime` | `[]OneCommandAtATime` | the same |
| | `AnswerIsOwn` | `[]OwnAnswer` | the same |
| | `ProtocolIsRight` | `[]ParsedWithItsProtocol` | the same |
| `SocketCANProofs` | `TypeCorrect`, `Inductive` | `[]TypeInv`, `[]IInv` | |
| | `InterruptionIsOwn` | `[]OwnInterruption` | |
| | `FramesAreKept` | `[]FramesKept` | |
| `ClientProofs` | `TypeCorrect`, `Inductive` | `[]TypeOK`, `[]IInv` | |
| | `NothingIsForgotten` | `[]NothingForgotten` | |
| | `ResultsAreInOrder` | `[]InOrder` | |
| | `OnlySilenceIsNoResponse` | `[]SilenceOnly` | |
| | `RequestsAreLegal` | `[]LegalRequests` | |
| `CommandsProofs` | `WalkInductive` | `[]WalkInv` | |
| | `UnionIsReturned` | `[]UnionReturned` | |
| | `OpenInductive` | `[]OpenInv` | |
| | `OpensAsConfigured` | `[]OpenedAsConfigured` | |
| | `LinesInductive` | `[](TaskInv /\ LinesInv)` | |
| | `AnAnswerWins` | `[]AnswerWins` | |
| | `EachIsCountedOnce` | `[]ConfirmedOnce` | |
| | `ListsAreTheECUs` | `[]CodesReported` | |
| | `OneECUsValue` | `[]ValueWhole` | |
| `EcuSimProofs` | `MixInductive` | `[]MixInv` | |
| | `NeverMixed` | `[]NothingMixed` | |
| | `CalmInductive` | `[](MixInv /\ Shapes /\ CalmInv)` | |
| | `CallsAreAnswered` | `[]CallsAnswered` | |

### What is assumed

- `StraysAreFrames`, `StraysArePlain`: the frames of a foreign peer are flow
  control frames of any kind, or malformed. A foreign peer that sent data with
  the peer's identifier could not be told from the peer by any receiver.
- `Faultless` is `calm \/ MaxFaults = 0`: the bus loses and repeats nothing.
  Timers, contexts and given-up messages remain. Without it the claim is
  false: when the frames lost are as many as there are sequence numbers, or
  two messages of equal length have lost complementary parts, ISO-TP joins
  what is left, and so does the code. `isotp_transfers` checks what does hold
  under loss. `BlockSizeRespected` is about calm behaviours by its own words
  (section 5: a flow control frame left by a Send that was given up).
- `Undisturbed`: in an orderly world another tester does not ask for the same
  data, and does not get answers from an ECU that has asked for more time.
  Both exceptions are divergences of section 5. In a world that is not orderly
  a wait can be idle and the addressing be settled by a late answer.
- `~ResyncMayFail`: finding 1 is what happens otherwise.
- `BenchAssumption` of `EcuSim`: finitely many ECUs, and in a calm world one
  tester and no ECU that is stopped. That is what calm means there: with
  two testers an ECU can be at work for the other for longer than a call
  waits, and its Conn drops what it reads meanwhile (section 5).

### The arguments

- **VirtualBus.** `IInv` is `TypeOK /\ LockInv /\ LifeInv /\ OrderInv /\
  SameOrder`. `SameOrder` alone is not inductive: that an appended frame is
  newer than those queued needs `OrderInv` (no queue holds a frame beyond the
  log, and a port that a delivery has still to reach holds none as new as the
  frame in hand), which needs `LockInv` (only the holder of `mu` delivers, and
  its frame is the last of the log), which with `LifeInv` (who is attached,
  closed, unborn) also gives `ClosedIsSilent`. `NoLostWakeup` is inductive
  relative to `TypeOK`; `NothingLost` is proved on top of `IInv`, frame by
  frame. The abstract bus has no queues, only the log and how far each member
  has read it; `GapInv` (queues have no gap and none of an endpoint's own
  frames) is why reading from a queue is reading the log.
- **IsoTpConn.** A frame in a queue means nothing alone. `Follows` says where
  in which message the receiver will be when it gets to a frame, from what it
  holds and the frames before; `IInv` says that each consecutive frame
  continues there, and that first frames are in the order of their messages.
  The refinement needs that order, since a message that was given up is
  skipped. Blocks are counted twice, by the sender (`job.i`) and by the
  Receiver (`inBlock`); `FlowInv` relates them: while a block is under way,
  what the receiver counted and what is queued is what the sender counted,
  and a grant is on its way only when there is nothing to be counted.
- **CANTransport.** What an ECU has queued ends in its answer (`QueueInv`),
  its Receiver is in step with that (`EcuInv`), and until the answer is queued
  the ECU owes its next frame before the deadline that the transport keeps for
  it (`TimeInv`). So when all deadlines have passed nobody is missing
  (`RoundInv`).
- **ElmAdapter.** Tokens that can still reach the caller, in the adapter, on
  the wire, in the channel, in `readLoop`'s hand or in `buf`, belong to the
  one command whose answer is outstanding (`LiveInv`), and its prompt is the
  last of them (`OrderInv`); so whoever sees a prompt has seen all there was.
- **SocketCAN.** A function of a context belongs to the call under way, and
  runs at the latest while `stop` waits for it (`FnInv`); so a deadline in the
  past is that of the call itself (`DeadlineInv`).
- **Client.** A call's requests are consecutive pieces of its argument
  (`PlaceInv`), a piece of several PIDs is legal whatever has been learnt since
  (`BatchInv`), and what answers so far have owed is there (`OwedInv`). The
  rest are lemmas about the functions that filter, sort and take readings
  apart, by induction over positions.
- **SupportedPIDs.** `WalkInv`: what was found is what there is up to `base`,
  and a later bitmap is asked for only when an ECU has a PID beyond it.
- **ElmOpen.** `OpenedAsConfigured` speaks of the end only. `OpenInv` says how
  it gets there: once an answer was taken for that to the reset, either the
  adapter owes the answer to the command under way and nothing else, or the
  next answer is no OK and Open fails.
- **Commands.** What a command returns is decided at the prompt, from lines of
  several ECUs in an order nobody controls. `LinesInv` says what a prefix of
  the lines is worth. If nothing in it makes the round trip fail (`Spoilt`),
  each response was given by its ECU, or is one the ECU gave with bytes that
  are nobody's where a damaged line has joined two messages (`Genuine`), and
  each Receiver holds the beginning of something its ECU has sent (`BegunBy`).
  If moreover no line was damaged, then for each ECU every message of its
  answer is still queued or among the responses as it was sent (`Complete`;
  or its list with the wrong count is, which the decoding refuses if the list
  fits its count),
  and the Receiver holds just what came of the first message in the queue
  (`Synced`), so that its next frame continues it (`FeedInOrder`). Spoilt
  lines stay spoilt, and damage is what spoils them. On the older protocols
  the messages of a VIN are all different as long as it was not sent twice
  (`Once`). `TaskInv` says which services were asked for and that a list is
  read once. At the prompt the queues are empty: `RoundTripIs` and `WantedIs`
  follow the responses through the filter, the sort and `positive`, and
  `HeardAtPrompt` sums up what a request returns. Each service then has lemmas
  of its own: what is read of an answer in one long message or in padded short
  ones (`SaidOnCAN`, `SaidOnLegacy`), the sum over the first reading of each
  ECU (`FirstSum`), and that distinct numbers in ascending order with none
  left out are `1 .. n` (`NoneLeftOut`), which is why sorting by number gives
  the VIN back although the sort is not stable.
- **EcuSim.** As in `IsoTpConn`, but every tester sees the frames of every
  ECU, mixed, and reads them with one Receiver per ECU that it throws away
  after each call. `Orderly` says of a tester's queue that a consecutive frame
  has the one before it further ahead in the queue with none of that ECU in
  between, or, if it is the first of its ECU, that the tester's Receiver holds
  just what comes before it or is idle; `Coming` says the same of the frame an
  ECU will send next. Nothing is assumed of the world: the lemmas on `Feed`
  (`FeedBegins`, `FeedContinues`) and on the frames of a message
  (`FramesOfLong`, `FrameNames`) hold for all lengths and any number of
  sequence numbers. A consequence: no Receiver of a tester ever fails.
  `CallsAnswered` also needs that nothing is lost or left over, which a calm
  world gives. `CalmInv` puts every ECU in a stage of the tester's call: the
  request is in its queue behind late flow control frames only (`Asked`), it
  sends or has sent an answer of which the tester's queue holds the rest, in
  order and behind requests for time only, where the Receiver stops
  (`Working`, `Chain`), one place of the sequence of answers, and no second
  one, is its (`Heard`, `OneOf`), or it has nothing to say (`Silent`). When
  nobody works and the queue is empty, or the one ECU that was asked has been
  heard, every ECU is `Heard` or `Silent`, and so the answers are those of
  `Answerers`.

Induction over data needs a detour: the library's induction theorems take an
operator, which the provers cannot instantiate. `ClientProofs` derives
induction for sets from the well-foundedness of the finite sets under
inclusion (`FS_StrictSubsetOrderingWellFounded`), which takes none; a lemma
then names the set of the numbers for which it holds. `CommandsProofs` uses
the same order for the least number principle (`Least`) and has induction from
that. A recursive function is a CHOOSE, so for each one a lemma shows that
there is a function that satisfies its equation (`KeepingExists`,
`ParsingExists`, `SummingExists`, `SortingExists`).

### Only model-checked

- `Integrity` where frames are lost, see above.
- Liveness under fairness: `ReceiveReturns`, `SendReturns`, `CallsEnd`,
  `CallEnds`, `AllDelivered`, `RoundTripReturns`, `CallReturns`, `Ends` and
  `KeepsServing` are outside what the prover can do.

## 5. Findings

Two runs violate a statement of the repository:

1. `elm_resync_given_up`. `resync` clears `dirty` also when it did not see the
   prompt (`elm327.go:234`); if the answer comes later still, the next command
   takes it. `elm327_test.go:210` says the next command must get its own.
   In `elm_adapter` resync is taken to see its prompt (`ResyncMayFail` FALSE),
   and `OwnAnswer` holds.
2. `socketcan_callers_deadline`. The poller may end a call for the caller's
   deadline before the context says so; `timeoutError` (`conn.go:157`) then
   reports `ErrTimeout` though its comment promises the caller's own error.

Known divergences from comments that have no run of their own. The properties
are conditioned so as not to depend on them:

- After response pending an ECU has 5 s (`can_transport.go:53`), but any frame
  of it, also one for another tester that is then dropped, clears its deadline
  (line 196); no world has both.
- A late answer stays queued and is taken by the next identical request
  (`can_transport.go:153`); `AnswersAreOwn` is stated for orderly worlds.
- A directed request for several PIDs ends with the ECU's answer to another
  tester for one of them (`can_transport.go:211`, `answer.go:25`,
  `crosstalk_test.go:53`); the Directed world asks for one PID.
- `CANOptions.Timeout` "is how long to wait for answers"
  (`can_transport.go:37`), but an ECU that says response pending without end
  moves its deadline each time (lines 206-208), and RoundTrip waits (lines
  156-214) until the caller's context ends. `RoundTripReturns` is about ECUs
  that stop. The same holds of one that begins message after message and
  finishes none (line 198); the worlds bound those.
- A negative response of two bytes passes `answers` (`answer.go:17`) but is no
  error for `Response.Err` (`transport.go:50`), so a Query that got nothing
  else fails with `ErrNoResponse` (`client.go:69-77`), although it does so "only
  if no ECU answered at all" (`client.go:86`). `SilenceOnly` counts answers, and
  refusals with their code.
- One ECU's malformed frame discards the others' answers
  (`can_transport.go:193`, `transport.go:15`).
- N_Cr is restarted by frames that Feed ignores (`conn.go:128` and 103).
- A flow control frame left by a Send that was given up is taken by the next
  (`conn.go:77`); `BlockSizeRespected` is stated for calm behaviours. For the
  same reason two messages under loss can mix, and `Integrity` is checked with
  one message where frames are lost.
- `readLoop` stays blocked on a full channel after Close when no further
  command reads it (`elm327.go:87` and 180).
- A PID named twice in a Query gives two readings per ECU if its requests
  differ (`client.go:84` and 106); `Queries` holds lists without repetition.
- Another tester's answer to a combined request becomes one long reading of
  the first PID (`pid.go:284` and 292).
- `ClearDTCs` succeeds although one ECU refused (`client.go:266` and 275).
- An error after the first bitmap cuts `SupportedPIDs` short without an error
  (`client.go:182` and 192); `UnionReturned` exempts walks where this happened.
- An ECU that sets the last bit of bitmap 0xE0 makes PID 0 part of the result;
  `UnionReturned` disregards it.
- The simulated ECU announces 256 trouble codes as none (`ecusim.go:217`);
  `CodesReported` asks for all codes only where the count fits its byte.
- On the older protocols a VIN with a message missing, or sent for two testers,
  is returned without an error (`client.go:297-307`, `answer.go:10`);
  `ValueWhole` exempts those two.
- A list of codes is nil, which "means that no ECU supports that service"
  (`output.go:42`), also when the answer was lost; and when every ECU refuses
  one list, the whole report fails (`main.go:201`). `CodesReported` exempts
  damaged lines, and is stated for reports that do not fail.
- A request that reaches a simulated ECU while it waits for flow control is
  taken by its Conn and goes unanswered, although Serve "answers requests
  arriving on bus" (`ecusim.go:67` and 129); `CallsAnswered` is stated for one
  tester at a time.
- Serve does not time a request of several frames (`ecusim.go:96`), so one that
  was broken off is waited for without end; the next one replaces it.
- Serve returns an error instead of nil when its context ends while it sends
  flow control or response pending (`ecusim.go:98` and 124).
- The answer to ATSH is not checked (`main.go:128`), so that `-ecu` may have no
  effect on an adapter that refuses it (`main.go:60`).
- `watch` ends at the first error (`main.go:182`), although it reads "until
  interrupted" (`main.go:41`).
- `Open` relies on at most one answer of an earlier program being outstanding;
  with several, OKs that are out of step could pass for its own.

## 6. Not modelled

- Wall-clock durations (only their order matters), frame padding, the bytes of
  STmin, error texts, wording of output.
- `Open` of the socket and `SetFilter`: single system calls. `Open` of the
  adapter with a given protocol, which is the search without its fallback.
- The codecs of STmin and of a trouble code's text, decoding of values and
  formatting: arithmetic on bytes and text with no state. The filter for
  printable characters of VIN.
- `cmd/obd2`: flags, the loop of read and watch (a `Query` each), raw, the
  output. Services 02 and 06, which only `answers` knows.
- Several PIDs in one request to a simulated ECU, and 29-bit simulated ECUs:
  `Client` and `CANTransport` have these cases with ECUs of their own.
- Two goroutines in Receive on one endpoint, or Send and Receive at the same
  time on one `isotp.Conn`: the docs forbid both.
- In `SocketCAN` the file fails with its deadline, with being closed, or because
  the transmit queue is full. Other errors, such as an interface that is down,
  are returned at once and left out.
- A Send of the bus fails only where this changes the control
  (`ReceiveCannotAnswer`, `AskFails`, `WriteFrame`); `CANTransport` takes its
  sends to succeed, since a failure ends the round trip at once.

## 7. Plan

Modelled, in this order: `VirtualBus`, `IsoTp` and `IsoTpConn`,
`CANTransport`, `ElmAdapter`, `SocketCAN`, `Client`, `SupportedPIDs`,
`ElmParse`, `ElmOpen`, `Commands`, `EcuSim`. What is left of the code is listed
in section 6. Proved: what section 4 lists.

Every invariant of a passing run has its theorem, under the assumptions of
section 4. What could follow:

- The worlds the assumptions of section 4 leave out: `NobodyMissed` where
  another tester asks for the same data, and `OwnAnswer` with a `resync` that
  fails, once the code tells such answers apart.
- `Integrity` under the loss of fewer frames than there are sequence numbers.
- A bus whose Send fails in `CANTransport`.

The two violating runs may give way to new passing runs once their divergences
are settled in the code or in its comments.
