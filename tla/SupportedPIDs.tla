---------------------------- MODULE SupportedPIDs ----------------------------
(***************************************************************************)
(* Client.SupportedPIDs of client.go against ECUs that derive their        *)
(* bitmaps as ecusim.ECU.pidData does.                                     *)
(*                                                                         *)
(* PID k * Width announces the PIDs k * Width + 1 .. (k + 1) * Width, one  *)
(* bit each; the last bit stands for the next such PID.  A PID is a byte,  *)
(* so that 0 follows the last one.  A bitmap is the set of its bits.       *)
(***************************************************************************)
EXTENDS Naturals, FiniteSets

CONSTANTS
  Ecu,
  Width,      \* PIDs of a bitmap, 32 in the code
  Ranges,     \* number of bitmaps, 8 in the code
  Rogue,      \* an ECU may set the last bit of the last bitmap
  MayFail     \* a request after the first may go without an answer

Bytes == Width * Ranges             \* the values of a byte, 256
LastBase == Width * (Ranges - 1)    \* 0xE0

ASSUME WidthAssumption == Width \in Nat \ {0, 1} /\ Ranges \in Nat \ {0}

VARIABLES has,    \* ECU.PIDs of each ECU, bitmap PIDs not counted
          rogue,  \* the ECUs that set the last bit of the last bitmap
          pc,     \* asking, done
          failed, \* a request that ECUs had an answer to went without one
          base,   \* the bitmap to ask for
          out     \* the PIDs found

walkVars == <<has, rogue, pc, failed, base, out>>

IsBitmap(p) == p % Width = 0

WalkInit ==
  /\ has \in [Ecu -> SUBSET {p \in 0 .. Bytes - 1 : ~IsBitmap(p)}]
  /\ rogue \in SUBSET (IF Rogue THEN Ecu ELSE {})
  /\ pc = "asking" /\ failed = FALSE /\ base = 0 /\ out = {}

-----------------------------------------------------------------------------
(* ecusim                                                                  *)

\* The last bit is set when there is any PID beyond this range.
MutBeyond(e, b) ==       \* mutant: when the next range has one
  \E p \in has[e] : p \in b + Width + 1 .. b + 2 * Width - 1
Beyond(e, b) == \E p \in has[e] : p > b + Width

PidData(e, b) ==
  {p - b - 1 : p \in has[e] \cap (b + 1 .. b + Width - 1)}
    \cup (IF Beyond(e, b) \/ (e \in rogue /\ b = LastBase)
          THEN {Width - 1} ELSE {})

\* An ECU with nothing to announce is silent, except for the first bitmap.
Answering(b) == {e \in Ecu : b = 0 \/ PidData(e, b) # {}}

-----------------------------------------------------------------------------
(* Client                                                                  *)

SupportedFromBitmap(b, bitmap) == {(b + i + 1) % Bytes : i \in bitmap}

MutMore(b) ==            \* mutant: the byte may wrap
  \E e \in Answering(b) :
    (b + Width) % Bytes \in SupportedFromBitmap(b, PidData(e, b))
More(b) ==
  /\ b # LastBase
  /\ \E e \in Answering(b) :
       (b + Width) % Bytes \in SupportedFromBitmap(b, PidData(e, b))

AskBitmap ==
  /\ pc = "asking"
  /\ Answering(base) # {}
  /\ out' = out \cup UNION {SupportedFromBitmap(base, PidData(e, base)) :
                              e \in Answering(base)}
  /\ \/ More(base) /\ base' = (base + Width) % Bytes /\ UNCHANGED pc
     \/ ~More(base) /\ pc' = "done" /\ UNCHANGED base
  /\ UNCHANGED <<has, rogue, failed>>

\* An error of service01 ends the loop; after the first bitmap what was found
\* so far is returned, without the error.
AskFails ==
  /\ pc = "asking"
  /\ MayFail \/ Answering(base) = {}
  /\ pc' = "done"
  /\ failed' = (Answering(base) # {})
  /\ UNCHANGED <<has, rogue, base, out>>

Walk == AskBitmap \/ AskFails

-----------------------------------------------------------------------------
(* Properties                                                              *)

\* The bitmap PIDs that lead to a PID some ECU has.
Leading == {k * Width : k \in {j \in 1 .. Ranges - 1 :
              \E e \in Ecu : \E p \in has[e] : p > j * Width}}

\* "asks the ECUs which service 01 PIDs they support and returns the union":
\* with ECUs that announce different ranges, or ranges with gaps between
\* them, nothing is left out and nothing added (but for 0, which is what a
\* last bit of the last bitmap would stand for), unless a request failed.
UnionReturned ==
  pc = "done" /\ ~failed =>
    out \ {0} = (UNION {has[e] : e \in Ecu}) \cup Leading

\* The call ends although the bitmap PID after the last one is the first.
Ends == pc = "asking" ~> pc = "done"
=============================================================================
