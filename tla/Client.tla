------------------------------- MODULE Client -------------------------------
(***************************************************************************)
(* client.go: Query and ClearDTCs, called by several goroutines, with the  *)
(* filter of answer.go and parseReadings of pid.go.                        *)
(*                                                                         *)
(* Client.mu is held for one request and its answers, and is free between  *)
(* the requests of a Query.  A request and its answers are therefore one   *)
(* step (modules CANTransport and ElmAdapter look inside it).  The answers *)
(* of an ECU keep their order; those of different ECUs are sorted.         *)
(*                                                                         *)
(* The data of a response is a list of groups, each the PID and its bytes; *)
(* cut tells that bytes are missing at the end.  ECUs and PIDs are         *)
(* numbers.  What loops over a list is a recursive function or a           *)
(* FlattenSeq, which the proofs (module ClientProofs) can unfold.          *)
(***************************************************************************)
EXTENDS Naturals, Sequences, SequencesExt

CONSTANTS
  Caller,      \* goroutines that use the client
  EcuOrder,    \* the ECU identifiers in ascending order
  Supports,    \* the PIDs each ECU has
  Known,       \* the PIDs with a size in pidTable
  Queries,     \* the PID lists a program asks for, no PID twice in one
  MaxBatch,    \* maxPIDsPerRequest
  Vehicles,    \* protocols of the vehicle, of "can" and "legacy"
  Combines,    \* PIDCombiner.CombinesPIDs of the transport
  Foreign,     \* PID lists another tester may ask for
  MaxQueries,  \* bound: calls in a behaviour
  MaxQuirks    \* bound: answers lost, refused, damaged or for another tester

ASSUME EcuAssumption ==
  EcuOrder \in Seq(Nat)
    /\ \A i, j \in 1 .. Len(EcuOrder) : i < j => EcuOrder[i] < EcuOrder[j]
ASSUME VehiclesAssumption == Vehicles \subseteq {"can", "legacy"}
ASSUME QueriesAssumption ==
  Queries \cup Foreign \subseteq Seq(Nat) /\ \A q \in Queries : IsInjective(q)
ASSUME MaxBatchAssumption == MaxBatch \in Nat \ {0}
ASSUME ClientBoundsAssumption == MaxQueries \in Nat /\ MaxQuirks \in Nat

Ecu == ToSet(EcuOrder)

VARIABLES
  vehicle,   \* protocol of the vehicle; it never changes
  proto,     \* Client.proto: unknown, can, legacy
  pc,        \* of a caller: idle, batch, ask
  pids,      \* Query: its argument
  rest,      \* Query: the PIDs not asked for yet
  batch,     \* Query: the PIDs of the request in hand
  out,       \* Query: the readings so far, then the result
  answered,  \* Query: an ECU answered
  ret,       \* how the last call ended: none, ok, noResponse, error
  owed,      \* history: <<pid, ecu>> of the well-formed answers of this Query
  heard,     \* history: the ECUs that answered, or refused with a code
  calls,     \* number of calls
  quirks     \* number of quirks

queryVars == <<pids, rest, batch, out, answered, ret, owed, heard>>
vars == <<vehicle, proto, pc, queryVars, calls, quirks>>

Init ==
  /\ vehicle \in Vehicles /\ proto = "unknown"
  /\ pc = [c \in Caller |-> "idle"]
  /\ pids = [c \in Caller |-> <<>>]
  /\ rest = pids /\ batch = pids /\ out = pids
  /\ answered = [c \in Caller |-> FALSE]
  /\ ret = [c \in Caller |-> "none"]
  /\ owed = [c \in Caller |-> {}] /\ heard = owed
  /\ calls = 0 /\ quirks = 0

-----------------------------------------------------------------------------
(* Responses                                                               *)

Positive(groups, cut, own) ==
  [kind |-> "positive", groups |-> groups, cut |-> cut, own |-> own]
Refusal(cut) ==
  [kind |-> "refusal", groups |-> <<>>, cut |-> cut, own |-> TRUE]

\* Response.Err is an error: a refusal with its code, which is the third byte.
Refuses(r) == r.kind = "refusal" /\ ~r.cut

\* answers, for service 01.
Answers(asked, r) == \/ r.kind = "refusal"
                     \/ \E i \in 1 .. Len(asked) : asked[i] = r.groups[1]

\* parseReadings.  With one PID asked for, or from a PID of unknown size on,
\* one reading takes all the data that is left.
TakesAll(g, single) ==
  {i \in 1 .. Len(g) : (i = 1 /\ single) \/ g[i] \notin Known}

Malformed(r, single) == r.cut /\ TakesAll(r.groups, single) = {}

ParseReadings(e, r, single) ==
  LET g == r.groups
      all == TakesAll(g, single)
      last == IF all = {} THEN Len(g)
              ELSE CHOOSE i \in all : \A j \in all : i <= j
  IN [i \in 1 .. last |-> [pid |-> g[i], ecu |-> e]]

SameKey(x, y) == x.pid = y.pid /\ x.ecu = y.ecu
Holds(s, x) == \E i \in 1 .. Len(s) : SameKey(s[i], x)

\* What service01 keeps: the first reading of each PID asked for and ECU.
Keep(asked, s, x) ==
  IF Contains(asked, x.pid) /\ ~Holds(s, x) THEN Append(s, x) ELSE s
KeepFirst(asked, s) ==
  LET kept[n \in 0 .. Len(s)] ==
        IF n = 0 THEN <<>> ELSE Keep(asked, kept[n - 1], s[n])
  IN kept[Len(s)]

\* Those members of a sequence that are in S.
Those(s, S) ==
  LET kept[n \in 0 .. Len(s)] ==
        IF n = 0 THEN <<>>
        ELSE IF s[n] \in S THEN Append(kept[n - 1], s[n]) ELSE kept[n - 1]
  IN kept[Len(s)]

\* The responses of all ECUs in the order of their identifiers.
ByEcu(rs) ==
  FlattenSeq([i \in 1 .. Len(EcuOrder) |->
    [j \in 1 .. Len(rs[EcuOrder[i]]) |->
       [ecu |-> EcuOrder[i], r |-> rs[EcuOrder[i]][j]]]])

\* What answers lets pass.
Answering(asked, s) == Those(s, {x \in ToSet(s) : Answers(asked, x.r)})

\* service01 on the responses: its readings and its error.
Service01(asked, all) ==
  LET single == Len(asked) = 1
      pos == {i \in 1 .. Len(all) : all[i].r.kind = "positive"}
      bad == {i \in pos : Malformed(all[i].r, single)}
      refusals == {i \in 1 .. Len(all) : Refuses(all[i].r)}
      readings == FlattenSeq([i \in 1 .. Len(all) |->
                    IF i \in pos \ bad
                    THEN ParseReadings(all[i].ecu, all[i].r, single)
                    ELSE <<>>])
      kept == KeepFirst(asked, readings)
  IN [out |-> kept,
      err |-> IF kept # <<>> THEN "nil"
              ELSE IF bad # {} \/ (pos = {} /\ refusals # {}) THEN "error"
              ELSE "noResponse"]

-----------------------------------------------------------------------------
(* Query                                                                   *)

Query(c, q) ==
  /\ pc[c] = "idle"
  /\ calls < MaxQueries
  /\ calls' = calls + 1
  /\ pc' = [pc EXCEPT ![c] = "batch"]
  /\ pids' = [pids EXCEPT ![c] = q] /\ rest' = [rest EXCEPT ![c] = q]
  /\ batch' = [batch EXCEPT ![c] = <<>>] /\ out' = [out EXCEPT ![c] = <<>>]
  /\ answered' = [answered EXCEPT ![c] = FALSE]
  /\ ret' = [ret EXCEPT ![c] = "none"]
  /\ owed' = [owed EXCEPT ![c] = {}] /\ heard' = [heard EXCEPT ![c] = {}]
  /\ UNCHANGED <<vehicle, proto, quirks>>

\* batchSize, which takes and releases the mutex to read the protocol.
UpTo(r) == {n \in 1 .. Len(r) : n <= MaxBatch}
Fits(r) == {n \in UpTo(r) : \A i \in 1 .. n : r[i] \in Known}
Largest(S) == CHOOSE n \in S : \A m \in S : m <= n

MutAskAnything(r) ==                 \* mutant: sizes need not be known
  IF proto # "can" \/ ~Combines THEN 1 ELSE Largest(UpTo(r))
MutAskAlways(r) ==                   \* mutant: the protocol is not looked at
  IF ~Combines \/ Fits(r) = {} THEN 1 ELSE Largest(Fits(r))
BatchSize(r) == IF proto # "can" \/ ~Combines \/ Fits(r) = {} THEN 1
                ELSE Largest(Fits(r))

\* The PIDs that are left when n were taken.
Left(r, n) == SubSeq(r, n + 1, Len(r))

Batch(c) ==
  /\ pc[c] = "batch"
  /\ rest[c] # <<>>
  /\ LET n == BatchSize(rest[c])
     IN /\ batch' = [batch EXCEPT ![c] = SubSeq(rest[c], 1, n)]
        /\ rest' = [rest EXCEPT ![c] = Left(@, n)]
  /\ pc' = [pc EXCEPT ![c] = "ask"]
  /\ UNCHANGED <<vehicle, proto, pids, out, answered, ret, owed, heard, calls,
                 quirks>>

\* What an ECU sends after a request (external): the PIDs it has, in the
\* order asked, or nothing; or it does something out of the ordinary.
Has(e, asked) == Those(asked, Supports[e])
Plain(e, asked) == IF Has(e, asked) = <<>> THEN <<>>
                   ELSE <<Positive(Has(e, asked), FALSE, TRUE)>>
Quirky(e, asked) ==
  LET foreign == {Positive(Has(e, g), FALSE, FALSE) :
                    g \in {h \in Foreign : Has(e, h) # <<>>}}
  IN {<<>>, <<Refusal(FALSE)>>, <<Refusal(TRUE)>>}
       \cup {<<Positive(g, TRUE, TRUE)>> : g \in {Has(e, asked)} \ {<<>>}}
       \cup {<<f>> \o Plain(e, asked) : f \in foreign}
       \cup {Plain(e, asked) \o <<f>> : f \in foreign}

\* The responses that say something: answers, and refusals with a code.
HeardIn(all) ==
  {x \in ToSet(all) : x.r.kind = "positive" \/ Refuses(x.r)}

\* The responses Request returns, once answers has looked at them.
Ask(c, rs) ==
  LET all == Answering(batch[c], ByEcu(rs))
      res == Service01(batch[c], all)
      own == {x \in ToSet(all) : x.r.own /\ ~x.r.cut}
  IN /\ pc[c] = "ask"
     /\ proto' = IF all = <<>> THEN proto ELSE vehicle
     /\ owed' = [owed EXCEPT ![c] = @ \cup
          UNION {{<<p, x.ecu>> : p \in ToSet(x.r.groups)} : x \in own}]
     /\ heard' = [heard EXCEPT ![c] = @ \cup {x.ecu : x \in HeardIn(all)}]
     /\ \/ /\ res.err = "nil"
           /\ out' = [out EXCEPT ![c] = @ \o res.out]
           /\ answered' = [answered EXCEPT ![c] = TRUE]
           /\ pc' = [pc EXCEPT ![c] = "batch"]
           /\ UNCHANGED ret
        \/ /\ res.err = "noResponse"
           /\ pc' = [pc EXCEPT ![c] = "batch"]
           /\ UNCHANGED <<out, answered, ret>>
        \/ /\ res.err = "error"
           /\ pc' = [pc EXCEPT ![c] = "idle"]
           /\ ret' = [ret EXCEPT ![c] = "error"]
           /\ UNCHANGED <<out, answered>>
     /\ UNCHANGED <<vehicle, pids, rest, batch, calls>>

AskPlainly(c) == /\ Ask(c, [e \in Ecu |-> Plain(e, batch[c])])
                 /\ UNCHANGED quirks

AskWithQuirk(c) ==
  /\ quirks < MaxQuirks
  /\ quirks' = quirks + 1
  /\ \E e \in Ecu : \E s \in Quirky(e, batch[c]) :
       Ask(c, [f \in Ecu |-> IF f = e THEN s ELSE Plain(f, batch[c])])

\* The transport fails, or the context ends.
AskFails(c) ==
  /\ pc[c] = "ask"
  /\ quirks < MaxQuirks
  /\ quirks' = quirks + 1
  /\ pc' = [pc EXCEPT ![c] = "idle"]
  /\ ret' = [ret EXCEPT ![c] = "error"]
  /\ UNCHANGED <<vehicle, proto, pids, rest, batch, out, answered, owed, heard,
                 calls>>

\* The place of a PID in the argument of Query, that of the first if it is
\* there twice.
Place(q, p) ==
  CHOOSE i \in 1 .. Len(q) : q[i] = p /\ \A j \in 1 .. i - 1 : q[j] # p

MutBefore(q, x, y) == x.ecu < y.ecu           \* mutant: by ECU only
Before(q, x, y) == \/ Place(q, x.pid) < Place(q, y.pid)
                   \/ Place(q, x.pid) = Place(q, y.pid) /\ x.ecu < y.ecu

\* slices.SortStableFunc: the one order in which nothing comes after what it
\* is before, and readings of the same place stay as they were.
Orders(q, s) ==
  {p \in Bijection(1 .. Len(s), 1 .. Len(s)) :
     \A i, j \in 1 .. Len(s) : i < j =>
       \/ Before(q, s[p[i]], s[p[j]])
       \/ ~Before(q, s[p[j]], s[p[i]]) /\ p[i] < p[j]}

MutAnyAnswer(c) ==                   \* mutant: the last request decides
  \E i \in 1 .. Len(out[c]) : Contains(batch[c], out[c][i].pid)
AnyAnswer(c) == answered[c] \/ pids[c] = <<>>

FinishQuery(c) ==
  /\ pc[c] = "batch"
  /\ rest[c] = <<>>
  /\ pc' = [pc EXCEPT ![c] = "idle"]
  /\ \/ /\ AnyAnswer(c)
        /\ ret' = [ret EXCEPT ![c] = "ok"]
        /\ \E p \in Orders(pids[c], out[c]) :
             out' = [out EXCEPT ![c] = [i \in 1 .. Len(@) |-> @[p[i]]]]
     \/ /\ ~AnyAnswer(c)
        /\ ret' = [ret EXCEPT ![c] = "noResponse"]
        /\ out' = [out EXCEPT ![c] = <<>>]
  /\ UNCHANGED <<vehicle, proto, pids, rest, batch, answered, owed, heard,
                 calls, quirks>>

-----------------------------------------------------------------------------
(* ClearDTCs: each ECU clears its codes, refuses, refuses without a code   *)
(* (in two bytes), or does not answer.                                     *)

Clearing == {"clears", "refuses", "codeless", "ignores"}

ClearedBy(c, does) ==
  LET Some(what) == \E e \in Ecu : does[e] = what
  IN /\ ret' = [ret EXCEPT ![c] = IF Some("clears") THEN "ok"
                  ELSE IF Some("refuses") THEN "error" ELSE "noResponse"]
     /\ proto' = IF \E e \in Ecu : does[e] # "ignores" THEN vehicle ELSE proto
     /\ heard' = [heard EXCEPT ![c] =
                    {e \in Ecu : does[e] \in {"clears", "refuses"}}]

ClearDTCs(c) ==
  /\ pc[c] = "idle"
  /\ calls < MaxQueries
  /\ calls' = calls + 1
  /\ \/ \E does \in [Ecu -> Clearing] : ClearedBy(c, does)
     \/ /\ ret' = [ret EXCEPT ![c] = "error"]      \* the transport fails
        /\ heard' = [heard EXCEPT ![c] = {}]
        /\ UNCHANGED proto
  /\ pids' = [pids EXCEPT ![c] = <<>>] /\ rest' = [rest EXCEPT ![c] = <<>>]
  /\ batch' = [batch EXCEPT ![c] = <<>>] /\ out' = [out EXCEPT ![c] = <<>>]
  /\ owed' = [owed EXCEPT ![c] = {}]
  /\ UNCHANGED <<vehicle, pc, answered, quirks>>

-----------------------------------------------------------------------------
QueryStep(c) == \/ Batch(c) \/ AskPlainly(c) \/ AskWithQuirk(c) \/ AskFails(c)
                \/ FinishQuery(c)

Next == \E c \in Caller : \/ \E q \in Queries : Query(c, q)
                          \/ QueryStep(c)
                          \/ ClearDTCs(c)

Spec == Init /\ [][Next]_vars

-----------------------------------------------------------------------------
(* Properties                                                              *)

\* A Query that succeeds has a reading for every PID an ECU answered with,
\* whichever request it was part of and whatever the other answers were like.
NothingForgotten ==
  \A c \in Caller : ret[c] = "ok" =>
    \A x \in owed[c] : \E i \in 1 .. Len(out[c]) :
      out[c][i].pid = x[1] /\ out[c][i].ecu = x[2]

\* "ordered as the PIDs were given and then by ECU"
InOrder ==
  \A c \in Caller : ret[c] = "ok" =>
    \A i, j \in 1 .. Len(out[c]) : i < j =>
      LET x == Place(pids[c], out[c][i].pid)
          y == Place(pids[c], out[c][j].pid)
      IN x < y \/ (x = y /\ out[c][i].ecu < out[c][j].ecu)

\* A call fails with ErrNoResponse only if no ECU answered any of its requests
\* or refused one with a code.  ("Query fails with ErrNoResponse only if no ECU
\* answered at all", the code says; a negative answer of two bytes, which
\* answers lets pass and Err does not know, is the exception.)
SilenceOnly == \A c \in Caller : ret[c] = "noResponse" => heard[c] = {}

\* Several PIDs are asked for in one request only over CAN, and at most as
\* many as fit: another goroutine may be the one that learns the protocol.
LegalRequests ==
  \A c \in Caller : Len(batch[c]) > 1 =>
    vehicle = "can" /\ Combines /\ Len(batch[c]) <= MaxBatch
=============================================================================
