------------------------------- MODULE IsoTp --------------------------------
(***************************************************************************)
(* isotp/isotp.go: the frames of ISO-TP and the Receiver, a pure state     *)
(* machine without timers.                                                 *)
(*                                                                         *)
(* The bytes of a message are named by the message and their offset.  A    *)
(* buffer is the list of the parts it was filled with, so that a mixture   *)
(* of two messages, a gap or a repetition can be told from a message.      *)
(* Frames are padded to 8 bytes (the zero Options).                        *)
(***************************************************************************)
EXTENDS Naturals, Sequences

CONSTANTS SeqNumbers,     \* values of the sequence number, 16 in the code: the
                      \* nibble wraps, and a small value wraps sooner
          BlockSize   \* Options.BlockSize of every endpoint, 0 for no limit

ASSUME SeqNumbersAssumption == SeqNumbers \in Nat \ {0, 1}
ASSUME BlockSizeAssumption == BlockSize \in Nat

SFMax == 7      \* bytes of a single frame
FFData == 6     \* bytes of a first frame
CFData == 7     \* bytes of a consecutive frame
FrameLen == 8   \* can.MaxDataLen

Lesser(a, b) == IF a < b THEN a ELSE b

\* A message as its sender has it: who sent it, which one it is, its length.
Part(m, off, n) == [msg |-> m, off |-> off, n |-> n]

\* The bytes of a message, as the parts its frames carry.
Split(m) ==
  IF m.len <= SFMax THEN <<Part(m, 0, m.len)>>
  ELSE <<Part(m, 0, FFData)>> \o
       [k \in 1 .. (m.len - FFData + CFData - 1) \div CFData |->
          LET off == FFData + CFData * (k - 1)
          IN Part(m, off, Lesser(m.len - off, CFData))]

-----------------------------------------------------------------------------
(* Frames.  A short frame has fewer than 8 bytes.                          *)

SingleFrame(m, n) == [pci |-> "SF", msg |-> m, len |-> n]
FirstFrame(m, n, short) ==
  [pci |-> "FF", msg |-> m, len |-> n, short |-> short]
ConsecutiveFrame(m, off, sn) ==
  [pci |-> "CF", msg |-> m, off |-> off, sn |-> sn]
FlowControl(status, bs) == [pci |-> "FC", status |-> status, bs |-> bs]

\* The frames of a message.
Frames(m) ==
  LET parts == Split(m)
  IN [k \in DOMAIN parts |->
        IF Len(parts) = 1 THEN SingleFrame(m, m.len)
        ELSE IF k = 1 THEN FirstFrame(m, m.len, FALSE)
        ELSE ConsecutiveFrame(m, parts[k].off, (k - 1) % SeqNumbers)]

NoFrame == [pci |-> "none"]
NoMessage == [len |-> 0, parts |-> <<>>]

-----------------------------------------------------------------------------
(* Receiver                                                                *)

NewReceiver == [active |-> FALSE, want |-> 0, got |-> 0, parts |-> <<>>,
                seq |-> 0, inBlock |-> 0]

\* What Feed leaves behind: the receiver, the flow control frame to send, the
\* complete message, the error.
Fed(r, fc, msg, err) == [r |-> r, fc |-> fc, msg |-> msg, err |-> err]

Ignore(r) == Fed(r, NoFrame, NoMessage, "nil")
Failed(fc, err) == Fed(NewReceiver, fc, NoMessage, err)

FeedSingle(f) ==
  IF f.len \in 1 .. SFMax
  THEN Fed(NewReceiver, NoFrame,
           [len |-> f.len, parts |-> <<Part(f.msg, 0, f.len)>>], "nil")
  ELSE Failed(NoFrame, "invalid")

MutFeedFirst(r, f) ==      \* mutant: an earlier transfer's count is kept
  IF f.short THEN Failed(NoFrame, "invalid")
  ELSE IF f.len = 0 THEN Failed(FlowControl("overflow", 0), "tooLong")
  ELSE IF f.len < FrameLen THEN Ignore(NewReceiver)
  ELSE Fed([r EXCEPT !.active = TRUE, !.want = f.len,
                     !.parts = Append(r.parts, Part(f.msg, 0, FFData)),
                     !.got = r.got + FFData, !.seq = 1],
           FlowControl("continue", BlockSize), NoMessage, "nil")

FeedFirst(r, f) ==
  IF f.short THEN Failed(NoFrame, "invalid")
  ELSE IF f.len = 0 THEN Failed(FlowControl("overflow", 0), "tooLong")
  ELSE IF f.len < FrameLen THEN Ignore(NewReceiver)
  ELSE Fed([active |-> TRUE, want |-> f.len, got |-> FFData,
            parts |-> <<Part(f.msg, 0, FFData)>>, seq |-> 1, inBlock |-> 0],
           FlowControl("continue", BlockSize), NoMessage, "nil")

\* The block counter after a consecutive frame, back to 0 at its end.
MutInBlockAfter(r) ==      \* mutant: the block ends one frame too late
  IF BlockSize = 0 \/ r.inBlock = BlockSize THEN 0 ELSE r.inBlock + 1
InBlockAfter(r) ==
  IF BlockSize = 0 \/ r.inBlock + 1 = BlockSize THEN 0 ELSE r.inBlock + 1

\* mutant: any sequence number will do
MutInSequence(r, f) == TRUE
InSequence(r, f) == f.sn = r.seq

FeedConsecutive(r, f) ==
  IF ~r.active THEN Ignore(r)
  ELSE IF ~InSequence(r, f) THEN Failed(NoFrame, "sequence")
  ELSE LET take == Lesser(r.want - r.got, CFData)
           parts == Append(r.parts, Part(f.msg, f.off, take))
           next == [r EXCEPT !.got = r.got + take, !.parts = parts,
                             !.seq = (r.seq + 1) % SeqNumbers,
                             !.inBlock = InBlockAfter(r)]
       IN IF r.got + take >= r.want
          THEN Fed(NewReceiver, NoFrame, [len |-> r.want, parts |-> parts],
                   "nil")
          ELSE IF BlockSize > 0 /\ next.inBlock = 0
          THEN Fed(next, FlowControl("continue", BlockSize), NoMessage, "nil")
          ELSE Ignore(next)

Feed(r, f) == CASE f.pci = "SF" -> FeedSingle(f)
                [] f.pci = "FF" -> FeedFirst(r, f)
                [] f.pci = "CF" -> FeedConsecutive(r, f)
                [] OTHER -> Ignore(r)
=============================================================================
