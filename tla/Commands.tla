------------------------------ MODULE Commands ------------------------------
(***************************************************************************)
(* The commands of cmd/obd2 that ask ECUs for more than readings, over an  *)
(* ELM327 adapter: open (elm327.Open, which comes first), info             *)
(* (Client.SupportedPIDs), dtc (MILStatus and the three lists of codes),   *)
(* vin (VIN), and did (ReadDataByIdentifier, which programs call           *)
(* themselves).                                                            *)
(*                                                                         *)
(* A request goes out, the ECUs' answers arrive line by line in any order  *)
(* between ECUs, and at the prompt module ElmParse, Request of client.go,  *)
(* the filter of answer.go and the service's own decoding turn them into   *)
(* the next part of the result.  Bytes are numbers; ECUs are numbers too.  *)
(***************************************************************************)
EXTENDS ElmParse, ElmOpen, SupportedPIDs

CONSTANTS
  EcuOrder,   \* the ECU identifiers in ascending order
  Tasks,      \* the commands, of open, info, dtc, vin, did
  Vehicles,   \* of can, legacy
  Profiles,   \* what an ECU may hold for each command, see Profile
  VinParts,   \* messages of a VIN on the older protocols, 5 in a vehicle
  CountMod,   \* values of the count byte of a code list, 256
  MaxQuirks   \* bound: answers out of the ordinary in a behaviour

Lists == {"03", "07", "0A"}

\* codes of each service, and the services the ECU answers; its MIL and count.
Profile == [codes : [Lists -> Seq(Nat \ {0})],
            answers : SUBSET {"01", "03", "07", "0A", "09", "22"},
            lamp : {0, 1}, count : Nat]

ASSUME EcuAssumption ==
  /\ EcuOrder \in Seq(Nat \ {0}) /\ Ecu = ToSet(EcuOrder)
  /\ \A i, j \in 1 .. Len(EcuOrder) : i < j => EcuOrder[i] < EcuOrder[j]
ASSUME TasksAssumption == Tasks \subseteq {"open", "info", "dtc", "vin", "did"}
ASSUME VehiclesAssumption == Vehicles \subseteq {"can", "legacy"}
ASSUME ProfilesAssumption == \A t \in Tasks : Profiles[t] \subseteq Profile
ASSUME CountAssumption ==
  {CountMod, VinParts} \subseteq Nat \ {0} /\ MaxQuirks \in Nat

VARIABLES
  task,      \* the command; it never changes, nor do the next two
  vehicle,   \* the protocol of the vehicle
  ecus,      \* the profile of each ECU
  step,      \* the request of the command that is under way
  queue,     \* the messages of each ECU that are still to come
  sent,      \* the frames of the first of them that have come
  lines,     \* what the adapter has printed
  lamp,      \* dtc: dtcReport.MIL and Confirmed
  codes,     \* dtc: the lists that are not nil, by service
  value,     \* vin, did: what is returned
  ret,       \* none, ok, noResponse, refused, error
  said,      \* history: the ECUs that gave their answer to each service
  odd,       \* history: <<service, quirk>> of what was out of the ordinary
  quirks     \* number of quirks

resultVars == <<lamp, codes, value, ret>>
taskVars == <<task, vehicle, ecus, step, queue, sent, lines, resultVars,
              said, odd, quirks>>
bitmapVars == <<has, rogue, failed, base, out>>
vars == <<openVars, walkVars, taskVars>>

Blank == [codes |-> [s \in Lists |-> <<>>], answers |-> {}, lamp |-> 0,
          count |-> 0]

Init ==
  /\ task \in Tasks
  /\ step = 1 /\ queue = [e \in Ecu |-> <<>>] /\ lines = <<>>
  /\ sent = [e \in Ecu |-> 0]
  /\ lamp = [mil |-> 0, confirmed |-> 0] /\ codes = <<>> /\ value = <<>>
  /\ ret = "none" /\ said = <<>> /\ odd = {} /\ quirks = 0
  /\ vehicle \in (IF task \in {"open", "info"} THEN {"can"} ELSE Vehicles)
  /\ ecus \in [Ecu -> IF task \in {"open", "info"} THEN {Blank}
                       ELSE Profiles[task]]
  /\ IF task = "open" THEN OpenInit
     ELSE /\ opc = "none" /\ cmd = "" /\ resets = 0 /\ doing = "none"
          /\ set = {} /\ air = <<>> /\ arrived = <<>>
  /\ IF task = "info" THEN WalkInit
     ELSE /\ pc = IF task = "open" THEN "opening" ELSE "request"
          /\ has = [e \in Ecu |-> {}] /\ rogue = {} /\ failed = FALSE
          /\ base = 0 /\ out = {}

-----------------------------------------------------------------------------
(* Messages.  The body is what follows the service and the identifier.     *)

Positive(svc, id, body, len) ==
  [kind |-> "positive", svc |-> svc, id |-> id, body |-> body, len |-> len]
Negative(kind, svc) ==
  [kind |-> kind, svc |-> svc, id |-> 0, body |-> <<>>, len |-> 3]

\* The requests of a command, by service and identifier.
Requests ==
  CASE task = "dtc" -> <<<<"01", 1>>, <<"03", 0>>, <<"07", 0>>, <<"0A", 0>>>>
    [] task = "vin" -> <<<<"09", 2>>>>
    [] task = "did" -> <<<<"22", 1>>>>
    [] OTHER -> <<>>
Svc == Requests[step][1]
Id == Requests[step][2]

\* The characters of an ECU's VIN, in groups, and its data.
Vin(e) == [k \in 1 .. VinParts |-> 10 * e + k]
DidData(e) == <<10 * e>>

\* The slots of a message of the older protocols, filled up with 0000.
Slots(list, k) == [i \in 1 .. 3 |-> IF 3 * k + i <= Len(list)
                                    THEN list[3 * k + i] ELSE 0]

CodesOnCAN(svc, list) ==
  <<Positive(svc, 0, <<Len(list) % CountMod>> \o list, 2 + 2 * Len(list))>>
CodesOnLegacy(svc, list) ==
  [k \in 1 .. (IF list = <<>> THEN 1 ELSE (Len(list) + 2) \div 3) |->
     Positive(svc, 0, Slots(list, k - 1), 7)]

\* The messages an ECU answers a request with.
Answer(e, svc, id) ==
  LET p == ecus[e]
      can == vehicle = "can"
  IN IF svc \notin p.answers THEN <<>>
     ELSE CASE svc = "01" -> <<Positive(svc, id, <<p.lamp, p.count>>, 6)>>
            [] svc \in Lists -> IF can THEN CodesOnCAN(svc, p.codes[svc])
                                ELSE CodesOnLegacy(svc, p.codes[svc])
            [] svc = "09" -> IF can THEN <<Positive(svc, id, Vin(e), 20)>>
                             ELSE [k \in 1 .. VinParts |->
                                     Positive(svc, id, <<k, Vin(e)[k]>>, 7)]
            [] OTHER -> <<Positive(svc, id, DidData(e), 5)>>

-----------------------------------------------------------------------------
(* The lines of an answer (external: the ECUs and the adapter)             *)

\* On CAN a line for each frame, on the older protocols one for the message.
NextLine(e) ==
  IF vehicle = "can"
  THEN FrameLine(e, Frames(Head(queue[e]))[sent[e] + 1])
  ELSE MessageLine(e, Head(queue[e]))

\* What an ECU may do that is out of the ordinary: be silent, refuse, ask for
\* time first, answer another tester too (the same request or another one of
\* that service), send a VIN's messages out of order, or announce a code more
\* than it sends.
Oddities ==
  {"silent", "refused", "pending", "same", "other", "mixed", "short"}
OddAnswer(e, what) ==
  LET own == Answer(e, Svc, Id)
  IN CASE what = "silent" -> {<<>>}
       [] what = "refused" -> {<<Negative("negative", Svc)>>}
       [] what = "pending" -> {<<Negative("pending", Svc)>> \o own}
       [] what = "same" -> {own \o own}
       [] what = "other" ->
            LET f == <<Positive(Svc, Id + 1, [i \in 1 .. 2 |-> 99], 6)>>
            IN IF Svc \in Lists THEN {} ELSE {f \o own, own \o f}
       [] what = "mixed" -> IF Svc = "09" /\ vehicle = "legacy"
                            THEN {Reverse(own)} ELSE {}
       [] OTHER -> IF Svc \in Lists /\ vehicle = "can" /\ own # <<>>
                   THEN {<<[own[1] EXCEPT !.body[1] = @ + 1]>>} ELSE {}

Empty == \A e \in Ecu : queue[e] = <<>>

SendRequest(answer, giving) ==
  /\ pc = "request"
  /\ queue' = answer
  /\ lines' = IF step = 1 THEN <<Notice>> ELSE <<>>
  /\ said' = With(said, Svc, giving)
  /\ pc' = "lines"
  /\ UNCHANGED <<openVars, bitmapVars, task, vehicle, ecus, step, sent,
                 resultVars>>

Able == {e \in Ecu : Svc \in ecus[e].answers}

AskPlainly ==
  /\ SendRequest([e \in Ecu |-> Answer(e, Svc, Id)], Able)
  /\ UNCHANGED <<odd, quirks>>

AskOddly(e, what) ==
  /\ quirks < MaxQuirks
  /\ pc = "request"
  /\ \E a \in OddAnswer(e, what) :
       SendRequest([f \in Ecu |-> IF f = e THEN a ELSE Answer(f, Svc, Id)],
                   IF what \in {"silent", "refused"} THEN Able \ {e} ELSE Able)
  /\ odd' = odd \cup {<<Svc, what>>}
  /\ quirks' = quirks + 1

\* The next line of an ECU, which may have been damaged on the way.
PrintLine(e) ==
  /\ queue[e] # <<>>
  /\ IF vehicle = "can" /\ sent[e] + 1 < Len(Frames(Head(queue[e])))
     THEN sent' = [sent EXCEPT ![e] = @ + 1] /\ UNCHANGED queue
     ELSE /\ sent' = [sent EXCEPT ![e] = 0]
          /\ queue' = [queue EXCEPT ![e] = Tail(@)]
  /\ \/ /\ lines' = Append(lines, NextLine(e))
        /\ UNCHANGED <<odd, quirks>>
     \/ /\ quirks < MaxQuirks
        /\ quirks' = quirks + 1
        /\ odd' = odd \cup {<<Svc, "damaged">>}
        /\ lines' \in {Append(lines, Damaged), Append(lines, Unreadable)}
  /\ UNCHANGED <<openVars, walkVars, task, vehicle, ecus, step, resultVars,
                 said>>

\* The adapter gives up, whatever the ECUs have still to say.
PrintTrouble ==
  /\ pc = "lines"
  /\ ~Empty
  /\ quirks < MaxQuirks
  /\ quirks' = quirks + 1
  /\ odd' = odd \cup {<<Svc, "damaged">>}
  /\ lines' = Append(lines, Trouble)
  /\ queue' = [e \in Ecu |-> <<>>] /\ sent' = [e \in Ecu |-> 0]
  /\ UNCHANGED <<openVars, walkVars, task, vehicle, ecus, step, resultVars,
                 said>>

Printed == IF \A i \in 1 .. Len(lines) : lines[i] = Notice
           THEN Append(lines, NoData) ELSE lines

-----------------------------------------------------------------------------
(* Client.Request and positive                                             *)

MutAnswers(m) ==         \* mutant: the echo of service 09 is not compared
  m.svc = Svc /\ (m.kind = "positive" /\ Svc \in {"01", "22"} => m.id = Id)
Answers(m) ==
  m.svc = Svc
    /\ (m.kind = "positive" /\ Svc \in {"01", "09", "22"} => m.id = Id)

\* In the order of the ECUs; the responses of each stay in theirs.
SortedByEcu(rs) ==
  LET sorted[n \in 0 .. Len(EcuOrder)] ==
        IF n = 0 THEN <<>>
        ELSE sorted[n - 1] \o
               Without(rs, {r \in ToSet(rs) : r.ecu # EcuOrder[n]})
  IN sorted[Len(EcuOrder)]

Filtered(trip) ==
  LET rs == Without(trip.rs, {r \in ToSet(trip.rs) : ~Answers(r.msg)})
  IN IF trip.err # "nil" THEN trip
     ELSE Result(SortedByEcu(rs), IF rs = <<>> THEN "noResponse" ELSE "nil")
Request == Filtered(RoundTripLines(Printed, vehicle = "can"))

Positives(rs) ==
  Without(rs, {r \in ToSet(rs) : r.msg.kind # "positive"})
MutPositiveOf(rs) ==       \* mutant: a refusal is returned at once
  LET pos == Positives(rs)
  IN Result(pos, IF pos # rs THEN "refused" ELSE "nil")
PositiveOf(rs) ==
  LET pos == Positives(rs)
  IN Result(pos, IF pos = <<>> THEN "refused" ELSE "nil")

Wanted(r) == IF r.err # "nil" THEN r ELSE PositiveOf(r.rs)

-----------------------------------------------------------------------------
(* The services                                                            *)

SumOf(f) ==
  LET sum[n \in 0 .. Len(f)] == IF n = 0 THEN 0 ELSE sum[n - 1] + f[n]
  IN sum[Len(f)]

\* service01 keeps the first reading of each ECU.
MutFirstOfEach(rs) == 1 .. Len(rs)      \* mutant: duplicates are kept
FirstOfEach(rs) ==
  {i \in 1 .. Len(rs) : \A j \in 1 .. i - 1 : rs[j].ecu # rs[i].ecu}

\* MILStatus: the lamp of any ECU, the counts of all.
MILStatus(rs) ==
  [mil |-> IF \E i \in FirstOfEach(rs) : rs[i].msg.body[1] = 1 THEN 1 ELSE 0,
   confirmed |-> SumOf([i \in 1 .. Len(rs) |->
                          IF i \in FirstOfEach(rs) THEN rs[i].msg.body[2]
                          ELSE 0])]

\* ParseDTCs: the number of codes and the bytes they are in.
Announced(m) == IF vehicle = "can" THEN m.body[1] ELSE Len(m.body)
Body(m) == IF vehicle = "can" THEN Tail(m.body) ELSE m.body

TooFew(m) == Len(Body(m)) < Announced(m)
MutParseDTCs(m) ==          \* mutant: unused slots are taken for codes
  {Body(m)[i] : i \in 1 .. Announced(m)}
ParseDTCs(m) ==
  {Body(m)[i] : i \in 1 .. Announced(m)} \ {0}

\* dtcs: the codes of all ECUs, each once, in ascending order.
Ascending(S) ==
  {s \in [1 .. Cardinality(S) -> S] :
     /\ ToSet(s) = S
     /\ \A i, j \in 1 .. Cardinality(S) : i < j => s[i] < s[j]}
CodesOf(rs) ==
  Ascending(UNION {ParseDTCs(rs[i].msg) : i \in 1 .. Len(rs)})

\* VIN: the data of the first response, or the messages of its ECU in the
\* order of their numbers, those with the same number in any order.
InOrder(ms) ==
  {p \in Bijection(1 .. Len(ms), 1 .. Len(ms)) :
     \A i, j \in 1 .. Len(ms) :
       i < j => ms[p[i]].msg.body[1] <= ms[p[j]].msg.body[1]}
VINsOf(rs) ==
  LET own == Without(rs, {r \in ToSet(rs) : r.ecu # rs[1].ecu})
  IN IF vehicle = "can" THEN {rs[1].msg.body}
     ELSE {[i \in 1 .. Len(own) |-> own[p[i]].msg.body[2]] :
             p \in InOrder(own)}

-----------------------------------------------------------------------------
(* The commands                                                            *)

Finish(how) == /\ pc' = "done" /\ ret' = how
               /\ UNCHANGED step
Proceed == \/ /\ step < Len(Requests)
              /\ step' = step + 1 /\ pc' = "request" /\ UNCHANGED ret
           \/ /\ step = Len(Requests)
              /\ Finish("ok")

\* An error of the request ends the command; a list of codes that no ECU
\* answered for stays nil.
Fails(got) ==
  /\ \/ /\ got.err # "nil"
        /\ got.err = "noResponse" => Svc \notin Lists
        /\ Finish(got.err)
     \/ /\ got.err = "noResponse"
        /\ Svc \in Lists
        /\ Proceed
  /\ UNCHANGED <<lamp, codes, value>>

ReadLamp(got) ==
  /\ Svc = "01" /\ got.err = "nil"
  /\ lamp' = MILStatus(got.rs)
  /\ Proceed
  /\ UNCHANGED <<codes, value>>

ReadCodes(got) ==
  /\ Svc \in Lists /\ got.err = "nil"
  /\ \/ /\ \E i \in DOMAIN got.rs : TooFew(got.rs[i].msg)
        /\ Finish("error")
        /\ UNCHANGED codes
     \/ /\ \A i \in DOMAIN got.rs : ~TooFew(got.rs[i].msg)
        /\ \E list \in CodesOf(got.rs) : codes' = With(codes, Svc, list)
        /\ Proceed
  /\ UNCHANGED <<lamp, value>>

ReadVIN(got) ==
  /\ Svc = "09" /\ got.err = "nil"
  /\ value' \in VINsOf(got.rs)
  /\ Finish("ok")
  /\ UNCHANGED <<lamp, codes>>

ReadDataByIdentifier(got) ==
  /\ Svc = "22" /\ got.err = "nil"
  /\ value' = got.rs[1].msg.body
  /\ Finish("ok")
  /\ UNCHANGED <<lamp, codes>>

\* The prompt: got is what the request of the step returns.
AtPrompt ==
  /\ pc = "lines"
  /\ Empty
  /\ lines' = <<>>
  /\ \E got \in {Wanted(Request)} :
       \/ Fails(got) \/ ReadLamp(got) \/ ReadCodes(got) \/ ReadVIN(got)
       \/ ReadDataByIdentifier(got)
  /\ UNCHANGED <<openVars, bitmapVars, task, vehicle, ecus, queue, sent, said,
                 odd, quirks>>

Connect == /\ task = "open"
           /\ Open
           /\ UNCHANGED <<walkVars, taskVars>>

Info == /\ task = "info"
        /\ Walk
        /\ UNCHANGED <<openVars, taskVars>>

-----------------------------------------------------------------------------
Next == \/ Connect \/ Info
        \/ AskPlainly
        \/ \E e \in Ecu : \E what \in Oddities : AskOddly(e, what)
        \/ \E e \in Ecu : PrintLine(e)
        \/ PrintTrouble
        \/ AtPrompt

\* Every request is answered or fails after a time (module ElmAdapter).
Spec == Init /\ [][Next]_vars /\ WF_vars(Info)

-----------------------------------------------------------------------------
(* Properties                                                              *)

Harmed(svc) == <<svc, "damaged">> \in odd
Truth(svc, from) == UNION {ToSet(ecus[e].codes[svc]) : e \in from}

\* "the codes all ECUs report for sid, sorted and without duplicates", and
\* nil "means that no ECU supports that service": several ECUs with lists of
\* every shape, answers in any number of frames or padded messages and mixed
\* line by line, and answers given twice.  A damaged line can only leave
\* codes out, and so can a list whose length does not fit the count byte.
CodesReported ==
  ret \in {"none", "ok"} =>
    \A svc \in Lists \cap DOMAIN said : ~(svc = Svc /\ pc = "lines") =>
      LET list == IF svc \in DOMAIN codes THEN codes[svc] ELSE <<>>
          from == said[svc]
          fits == vehicle = "legacy" \/
                    \A e \in from : Len(ecus[e].codes[svc]) < CountMod
      IN /\ \A i \in 1 .. Len(list) - 1 : list[i] < list[i + 1]
         /\ ToSet(list) \subseteq Truth(svc, Ecu)
         /\ ~Harmed(svc) => (svc \in DOMAIN codes <=> from # {})
         /\ ~Harmed(svc) /\ fits => ToSet(list) = Truth(svc, from)

\* "the number of confirmed DTCs the ECUs report in total": each ECU counts
\* once, also when it answers another tester's request for the same PID.
ConfirmedOnce ==
  step > 1 /\ ~Harmed("01") =>
    /\ lamp.confirmed =
         SumOf([i \in 1 .. Len(EcuOrder) |->
                  IF EcuOrder[i] \in said["01"] THEN ecus[EcuOrder[i]].count
                  ELSE 0])
    /\ lamp.mil = 1 <=> \E e \in said["01"] : ecus[e].lamp = 1

\* A VIN or the data of an identifier is that of one ECU, whole and in order,
\* whatever order the lines came in and whatever else was answered.  On the
\* older protocols nothing tells a VIN message that is missing, or there
\* twice, since each is a message of its own.
ValueWhole ==
  ret = "ok" /\ task \in {"vin", "did"} =>
    \/ \E e \in said[Svc] : value = IF task = "vin" THEN Vin(e)
                                    ELSE DidData(e)
    \/ vehicle = "legacy" /\ (Harmed("09") \/ <<"09", "same">> \in odd)

\* A refusal is returned only when no ECU gave an answer: one ECU that
\* refuses a broadcast request does not hide the others.
AnswerWins == ret = "refused" => said[Svc] = {} \/ Harmed(Svc)
=============================================================================
