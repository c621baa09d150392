------------------------------ MODULE ElmParse ------------------------------
(***************************************************************************)
(* elm327/elm327.go: what RoundTrip makes of the lines the adapter prints  *)
(* between a request and the prompt.                                       *)
(*                                                                         *)
(* A line of data carries the identifier it was sent from and, on CAN, a   *)
(* frame; on the older protocols, whose messages fit a line, a message.    *)
(* The other lines are about the adapter: what they say is all they have.  *)
(* What loops over a list is a recursive function, which the proofs        *)
(* (module CommandsProofs) can unfold.                                     *)
(***************************************************************************)
EXTENDS IsoTp, SequencesExt

\* Lines.  An unreadable one is no hex, or too short for its header.
FrameLine(id, f) == [what |-> "data", id |-> id, frame |-> f]
MessageLine(id, m) == [what |-> "data", id |-> id, msg |-> m]
Notice == [what |-> "notice"]            \* SEARCHING..., BUS INIT: OK
Damaged == [what |-> "damaged"]          \* <DATA ERROR, <RX ERROR
NoData == [what |-> "noData"]            \* NO DATA
Trouble == [what |-> "trouble"]          \* ?, BUS ERROR, ...
Unreadable == [what |-> "unreadable"]

\* What RoundTrip returns.
Result(rs, err) == [rs |-> rs, err |-> err]
Response(id, m) == [ecu |-> id, msg |-> m]

\* The map with one entry more, or that one changed.
With(f, x, y) == [z \in DOMAIN f \cup {x} |-> IF z = x THEN y ELSE f[z]]

\* Those members of a sequence that are not in S.
Without(s, S) ==
  LET kept[n \in 0 .. Len(s)] ==
        IF n = 0 THEN <<>>
        ELSE IF s[n] \in S THEN kept[n - 1] ELSE Append(kept[n - 1], s[n])
  IN kept[Len(s)]

-----------------------------------------------------------------------------
\* The message in a complete buffer.  One put together of two begins like the
\* first, and its bytes (0) are nobody's.
Content(x) ==
  LET m == x.parts[1].msg
  IN IF x.parts = Split(m) THEN m
     ELSE [m EXCEPT !.body = [i \in DOMAIN @ |-> 0]]

IsPending(m) == m.kind = "pending"

\* parseCAN: one Receiver for each identifier, new when it is first seen.
Fresh == [rx |-> <<>>, rs |-> <<>>, err |-> "nil"]
ReceiverOf(s, id) == IF id \in DOMAIN s.rx THEN s.rx[id] ELSE NewReceiver

AfterFeed(s, id, fed) ==
  IF fed.err # "nil" THEN [s EXCEPT !.err = "error"]
  ELSE [rx |-> With(s.rx, id, fed.r),
        rs |-> IF fed.msg = NoMessage \/ IsPending(Content(fed.msg)) THEN s.rs
               ELSE Append(s.rs, Response(id, Content(fed.msg))),
        err |-> "nil"]

ParseCANLine(s, l) ==
  IF s.err # "nil" THEN s
  ELSE AfterFeed(s, l.id, Feed(ReceiverOf(s, l.id), l.frame))

ParsedCAN(lines) ==
  LET s[n \in 0 .. Len(lines)] ==
        IF n = 0 THEN Fresh ELSE ParseCANLine(s[n - 1], lines[n])
  IN s[Len(lines)]

AfterLines(s) ==
  IF s.err # "nil" THEN Result(<<>>, "error")
  ELSE Result(s.rs, IF s.rs = <<>> THEN "noResponse" ELSE "nil")
ParseCAN(lines) == AfterLines(ParsedCAN(lines))

ParseLegacy(lines) ==
  Result([i \in DOMAIN lines |-> Response(lines[i].id, lines[i].msg)], "nil")

Parse(lines, can) ==
  IF \E i \in DOMAIN lines : lines[i] = Unreadable
  THEN Result(<<>>, "error")
  ELSE IF can THEN ParseCAN(lines) ELSE ParseLegacy(lines)

-----------------------------------------------------------------------------
\* RoundTrip: the first line that ends the matter decides; notices and
\* damaged lines are skipped.
RoundTripLines(lines, can) ==
  LET ends == {i \in DOMAIN lines : lines[i] \in {NoData, Trouble}}
      data == Without(lines, {Notice, Damaged})
  IN IF ends # {} THEN
       LET first == CHOOSE i \in ends : \A j \in ends : i <= j
       IN Result(<<>>, IF lines[first] = NoData THEN "noResponse"
                       ELSE "error")
     ELSE IF data = <<>> THEN Result(<<>>, "noResponse")
     ELSE Parse(data, can)
=============================================================================
