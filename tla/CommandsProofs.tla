--------------------------- MODULE CommandsProofs ---------------------------
(***************************************************************************)
(* The commands for any sizes: the walk over the bitmaps of supported      *)
(* PIDs, Open against an adapter of which nothing is known, and the        *)
(* commands that put together what ECUs say line by line.                  *)
(*                                                                         *)
(* The walk: base is always a bitmap PID, what was found is what there is  *)
(* up to base, and a later bitmap is only asked for when some ECU has a    *)
(* PID beyond its base, so that an ECU always answers (WalkInv).           *)
(*                                                                         *)
(* Open: once an answer was taken for that to the reset, either all that   *)
(* the adapter owes is the answer to the command under way, or the next    *)
(* answer that arrives is no OK (OpenInv).                                 *)
(*                                                                         *)
(* The others (TaskInv, LinesInv): the frames parseCAN has fed a Receiver  *)
(* of an ECU are those the ECU has sent of a message, so that each message *)
(* of an answer is either still to come or among the responses, as it was  *)
(* sent; only a damaged line can put two messages together or lose one.    *)
(* What the prompt makes of the lines follows (HeardAtPrompt), and from it *)
(* what each service returns.  The recursive functions of the model are    *)
(* unfolded by Induction, which the least number principle gives.          *)
(***************************************************************************)
EXTENDS Commands, SequenceTheorems, FiniteSetTheorems, WellFoundedInduction,
        TLAPS

Bases == {k * Width : k \in 0 .. Ranges - 1}
Plain == {p \in 0 .. Bytes - 1 : ~IsBitmap(p)}
Found == (UNION {has[e] : e \in Ecu}) \cup Leading
UpTo(b) == {p \in Found : p <= b}
Further(b) == \E e \in Ecu : \E p \in has[e] : p > b

WalkType == has \in [Ecu -> SUBSET Plain] /\ base \in Bases

WalkInv ==
  /\ WalkType
  /\ task = "info" => pc \in {"asking", "done"}
  /\ pc = "asking" => /\ base = 0 \/ Further(base)
                      /\ out \ {0} = UpTo(base)
  /\ pc = "done" /\ ~failed => out \ {0} = Found
  /\ task # "info" => /\ pc # "asking"
                      /\ has = [e \in Ecu |-> {}] /\ out = {}

-----------------------------------------------------------------------------
(* The numbers of the walk                                                 *)

LEMMA WidthIs == Width \in Nat /\ Width > 1 /\ Ranges \in Nat /\ Ranges > 0
BY WidthAssumption

LEMMA Products ==
  ASSUME NEW j \in Int, NEW k \in Int
  PROVE  /\ j * Width \in Int
         /\ (j + 1) * Width = j * Width + Width
         /\ j < k => j * Width + Width <= k * Width
<1>1. Width \in Nat /\ Width > 1
  BY WidthIs
<1>2. j * Width \in Int /\ (j + 1) * Width = j * Width + Width
  BY <1>1
<1>3. ASSUME j < k PROVE j * Width + Width <= k * Width
  <2> DEFINE d == k - j - 1
  <2>1. d \in Nat /\ k = j + 1 + d
    BY <1>3
  <2>2. k * Width = j * Width + Width + d * Width
    BY <1>1, <2>1
  <2>3. d * Width \in Nat
    BY <1>1, <2>1
  <2> QED BY <1>1, <1>2, <2>2, <2>3
<1> QED BY <1>2, <1>3

LEMMA BytesIs ==
  /\ Bytes \in Nat \ {0} /\ LastBase \in Nat
  /\ LastBase + Width = Bytes
<1>1. Ranges * Width = Width * Ranges /\ (Ranges - 1) * Width = LastBase
  BY WidthIs DEF LastBase
<1>2. (Ranges - 1) * Width + Width = Ranges * Width
  BY WidthIs, Products, Ranges - 1 + 1 = Ranges
<1>3. LastBase \in Int /\ Bytes \in Int
  BY WidthIs DEF LastBase, Bytes
<1>4. LastBase >= 0
  <2>1. Ranges - 1 \in Nat
    BY WidthIs
  <2> QED BY WidthIs, <2>1 DEF LastBase
<1> QED BY WidthIs, <1>1, <1>2, <1>3, <1>4 DEF Bytes

\* A base is a number of a byte; it is the last, or the next one is one too.
LEMMA BaseIs ==
  ASSUME NEW b \in Bases
  PROVE  /\ b \in 0 .. LastBase /\ b + Width <= Bytes
         /\ b # LastBase => b + Width \in Bases /\ b + Width < Bytes
<1>1. PICK k \in 0 .. Ranges - 1 : b = k * Width
  BY DEF Bases
<1>2. (Ranges - 1) * Width = LastBase /\ Ranges - 1 \in Int
  BY WidthIs DEF LastBase
<1>3. b \in Nat
  BY WidthIs, <1>1
<1>4. b <= LastBase
  <2>1. k < Ranges - 1 => k * Width + Width <= (Ranges - 1) * Width
    BY <1>2, Products
  <2>2. k < Ranges - 1 \/ k = Ranges - 1
    BY WidthIs
  <2> QED BY WidthIs, BytesIs, <1>1, <1>2, <1>3, <2>1, <2>2
<1>5. ASSUME b # LastBase PROVE b + Width \in Bases /\ b + Width < Bytes
  <2>1. k + 1 \in 0 .. Ranges - 1
    BY WidthIs, <1>1, <1>2, <1>5
  <2>2. (k + 1) * Width = b + Width
    BY <1>1, Products
  <2>3. b + Width \in Bases
    BY <2>1, <2>2 DEF Bases
  <2> QED BY <2>3, <1>3, <1>4, <1>5, BytesIs, WidthIs
<1> QED BY <1>3, <1>4, <1>5, BytesIs, WidthIs

LEMMA MultipleIsBitmap ==
  ASSUME NEW k \in Nat
  PROVE  IsBitmap(k * Width)
<1>1. Width \in Nat /\ Width > 0
  BY WidthIs
<1> DEFINE n == k * Width
<1>2. n \in Nat
  BY <1>1
<1> QED BY <1>1, <1>2 DEF IsBitmap

LEMMA ByteOf ==
  ASSUME NEW p \in 0 .. Bytes - 1
  PROVE  p % Bytes = p
BY BytesIs

LEMMA ByteWraps == Bytes % Bytes = 0
BY BytesIs

-----------------------------------------------------------------------------
(* What a bitmap says                                                      *)

\* A PID that is not a bitmap PID is neither a base nor 0.
LEMMA PlainIs ==
  ASSUME NEW p \in Plain, NEW b \in Bases
  PROVE  /\ p \in 1 .. Bytes - 1 /\ p % Bytes = p
         /\ p # b /\ p # b + Width
<1>1. p \in 0 .. Bytes - 1 /\ ~IsBitmap(p)
  BY DEF Plain
<1>2. PICK k \in 0 .. Ranges - 1 : b = k * Width
  BY DEF Bases
<1>3. k \in Nat /\ k + 1 \in Nat /\ (k + 1) * Width = b + Width
  BY <1>2, Products
<1>4. IsBitmap(b) /\ IsBitmap(b + Width)
  BY <1>2, <1>3, MultipleIsBitmap
<1>5. 0 * Width = 0
  BY WidthIs
<1>6. IsBitmap(0)
  BY <1>5, MultipleIsBitmap
<1> QED BY <1>1, <1>4, <1>6, ByteOf, BytesIs

\* What an answer adds to out: the ECU's PIDs of the range, and the next
\* base if it has any beyond, or 0 for the bit that means nothing.
LEMMA BitmapSays ==
  ASSUME WalkType, NEW e \in Ecu, NEW b \in Bases, NEW x, x # 0
  PROVE  x \in SupportedFromBitmap(b, PidData(e, b)) <=>
           \/ x \in has[e] /\ x > b /\ x < b + Width
           \/ x = b + Width /\ Beyond(e, b)
<1> DEFINE S == SupportedFromBitmap(b, PidData(e, b))
<1>1. has[e] \subseteq Plain
  BY DEF WalkType
<1>2. b \in 0 .. LastBase /\ b + Width <= Bytes /\ b \in Int
  BY BaseIs, BytesIs
<1>3. S = {(b + i + 1) % Bytes : i \in PidData(e, b)}
  BY DEF SupportedFromBitmap
<1>4. Beyond(e, b) => b + Width < Bytes /\ (b + Width) % Bytes = b + Width
  <2> SUFFICES ASSUME Beyond(e, b)
               PROVE  b + Width < Bytes /\ (b + Width) % Bytes = b + Width
    OBVIOUS
  <2>1. PICK p \in has[e] : p > b + Width
    BY DEF Beyond
  <2>2. p \in 1 .. Bytes - 1
    BY <1>1, <2>1, PlainIs
  <2>3. b + Width < Bytes /\ b + Width \in 0 .. Bytes - 1
    BY <1>2, <2>1, <2>2, WidthIs, BytesIs
  <2> QED BY <2>3, ByteOf
<1>5. ASSUME x \in S
      PROVE  \/ x \in has[e] /\ x > b /\ x < b + Width
             \/ x = b + Width /\ Beyond(e, b)
  <2>1. PICK i \in PidData(e, b) : x = (b + i + 1) % Bytes
    BY <1>3, <1>5
  <2>2. CASE i \in {p - b - 1 : p \in has[e] \cap (b + 1 .. b + Width - 1)}
    <3>1. PICK p \in has[e] \cap (b + 1 .. b + Width - 1) : i = p - b - 1
      BY <2>2
    <3>2. p \in Plain /\ p \in 1 .. Bytes - 1 /\ p % Bytes = p
      BY <1>1, <3>1, PlainIs
    <3>3. b + i + 1 = p
      BY <1>2, <3>1, <3>2, BytesIs
    <3>4. x = p
      BY <2>1, <3>2, <3>3
    <3> QED BY <1>2, <3>1, <3>2, <3>4, WidthIs, BytesIs
  <2>3. CASE i = Width - 1 /\ Beyond(e, b)
    <3>1. b + i + 1 = b + Width
      BY <1>2, <2>3, WidthIs
    <3> QED BY <1>4, <2>1, <2>3, <3>1
  <2>4. CASE i = Width - 1 /\ b = LastBase
    <3>1. b + i + 1 = Bytes
      BY <1>2, <2>4, WidthIs, BytesIs
    <3> QED BY <2>1, <3>1, ByteWraps
  <2> QED BY <2>1, <2>2, <2>3, <2>4 DEF PidData
<1>6. ASSUME x \in has[e], x > b, x < b + Width PROVE x \in S
  <2>1. x \in Plain /\ x \in 1 .. Bytes - 1 /\ x % Bytes = x
    BY <1>1, <1>6, PlainIs
  <2>2. x \in has[e] \cap (b + 1 .. b + Width - 1)
    BY <1>2, <1>6, <2>1, WidthIs, BytesIs
  <2>3. x - b - 1 \in PidData(e, b)
    BY <2>2 DEF PidData
  <2>4. b + (x - b - 1) + 1 = x
    BY <1>2, <2>1, BytesIs
  <2> QED BY <1>3, <2>1, <2>3, <2>4
<1>7. ASSUME x = b + Width, Beyond(e, b) PROVE x \in S
  <2>1. Width - 1 \in PidData(e, b)
    BY <1>7 DEF PidData
  <2>2. b + (Width - 1) + 1 = b + Width
    BY <1>2, WidthIs
  <2> QED BY <1>3, <1>4, <1>7, <2>1, <2>2
<1> QED BY <1>5, <1>6, <1>7

\* An ECU that has a PID beyond the base has an answer.
LEMMA FurtherAnswers ==
  ASSUME WalkType, NEW e \in Ecu, NEW b \in Bases,
         NEW p \in has[e], p > b
  PROVE  e \in Answering(b)
<1>1. b \in 0 .. LastBase /\ b \in Int
  BY BaseIs, BytesIs
<1>2. p \in Plain /\ p \in 1 .. Bytes - 1 /\ p # b + Width
  BY PlainIs DEF WalkType
<1>3. PidData(e, b) # {}
  <2>1. CASE p < b + Width
    <3>1. p \in has[e] \cap (b + 1 .. b + Width - 1)
      BY <1>1, <1>2, <2>1, WidthIs, BytesIs
    <3> QED BY <3>1 DEF PidData
  <2>2. CASE p > b + Width
    BY <2>2 DEF PidData, Beyond
  <2> QED BY <1>1, <1>2, <2>1, <2>2, WidthIs, BytesIs
<1> QED BY <1>3 DEF Answering

LEMMA LeadingIs ==
  ASSUME WalkType, NEW b \in Bases, NEW x
  PROVE  /\ x \in Leading => x \in Nat \ {0} /\ x <= LastBase
         /\ x \in Leading /\ x > b => x >= b + Width /\ Further(x)
         /\ Further(b + Width) => b + Width \in Leading
<1>1. PICK k \in 0 .. Ranges - 1 : b = k * Width
  BY DEF Bases
<1>2. b \in Int /\ b >= 0
  BY BaseIs, BytesIs
<1>3. ASSUME x \in Leading
      PROVE  /\ x \in Nat \ {0} /\ x <= LastBase
             /\ x > b => x >= b + Width /\ Further(x)
  <2>1. PICK j \in 1 .. Ranges - 1 :
          x = j * Width /\ \E e \in Ecu : \E p \in has[e] : p > j * Width
    BY <1>3 DEF Leading
  <2>2. x \in Bases /\ Further(x)
    BY <2>1, WidthIs DEF Bases, Further
  <2>3. x \in 0 .. LastBase
    BY <2>2, BaseIs
  <2>4. 0 * Width + Width <= j * Width /\ 0 * Width = 0
    BY <2>1, WidthIs, Products
  <2>5. k < j => b + Width <= x
    BY <1>1, <2>1, WidthIs, Products
  <2>6. j < k => x + Width <= b
    BY <1>1, <2>1, WidthIs, Products
  <2>7. j = k => x = b
    BY <1>1, <2>1
  <2>8. x > b => x >= b + Width
    BY <1>1, <1>2, <2>1, <2>3, <2>5, <2>6, <2>7, WidthIs, BytesIs
  <2> QED BY <2>1, <2>2, <2>3, <2>4, <2>8, WidthIs, BytesIs
<1>4. ASSUME Further(b + Width) PROVE b + Width \in Leading
  <2>1. PICK e \in Ecu : \E p \in has[e] : p > b + Width
    BY <1>4 DEF Further
  <2>2. PICK p \in has[e] : p > b + Width
    BY <2>1
  <2>3. p \in 1 .. Bytes - 1
    BY <2>2, PlainIs DEF WalkType
  <2>4. b # LastBase
    BY <1>2, <2>2, <2>3, BytesIs, WidthIs
  <2>5. k # Ranges - 1
    BY <1>1, <2>4, WidthIs DEF LastBase
  <2>6. k + 1 \in 1 .. Ranges - 1 /\ b + Width = (k + 1) * Width
    BY <1>1, <2>5, WidthIs, Products
  <2> QED BY <2>2, <2>6 DEF Leading
<1> QED BY <1>3, <1>4

LEMMA FoundIs ==
  ASSUME WalkType, NEW x \in Found
  PROVE  x \in Nat \ {0} /\ x < Bytes
<1>1. PICK b \in Bases : TRUE
  BY DEF WalkType
<1>2. CASE x \in Leading
  BY <1>1, <1>2, LeadingIs, BytesIs, WidthIs
<1>3. CASE \E e \in Ecu : x \in has[e]
  BY <1>1, <1>3, PlainIs, BytesIs DEF WalkType
<1> QED BY <1>2, <1>3 DEF Found

\* Nothing was found at the start, and all of it when nobody has a PID
\* beyond the range.
LEMMA UpToEnds ==
  ASSUME WalkType, NEW b \in Bases
  PROVE  /\ UpTo(0) = {}
         /\ ~Further(b + Width) => UpTo(b + Width) = Found
<1>1. b \in Nat /\ b + Width \in Nat
  BY BaseIs, BytesIs, WidthIs
<1>2. UpTo(0) = {}
  BY FoundIs DEF UpTo
<1>3. ASSUME ~Further(b + Width), NEW x \in Found
      PROVE  x <= b + Width
  <2>1. CASE x \in Leading
    <3>1. Further(x) \/ x <= b
      BY <1>1, <2>1, LeadingIs, BytesIs
    <3>2. x > b + Width => ~Further(x)
      BY <1>1, <1>3, <2>1, FoundIs, PlainIs, BytesIs
         DEF Further, WalkType
    <3> QED BY <1>1, <3>1, <3>2, FoundIs, WidthIs
  <2>2. CASE \E e \in Ecu : x \in has[e]
    BY <1>1, <1>3, <2>2, FoundIs DEF Further
  <2> QED BY <2>1, <2>2 DEF Found
<1> QED BY <1>2, <1>3 DEF UpTo

\* The answers to one bitmap add what there is of its range.
LEMMA RangeAdds ==
  ASSUME WalkType, NEW b \in Bases
  PROVE  UpTo(b + Width) =
           UpTo(b) \cup
             ((UNION {SupportedFromBitmap(b, PidData(e, b)) :
                        e \in Answering(b)}) \ {0})
<1> DEFINE S(e) == SupportedFromBitmap(b, PidData(e, b))
           New == (UNION {S(e) : e \in Answering(b)}) \ {0}
<1>0. \A x : x \in New <=> x # 0 /\ \E e \in Answering(b) : x \in S(e)
  BY Zenon
<1>1. b \in Nat /\ b + Width \in Nat
  BY BaseIs, BytesIs, WidthIs
<1>2. \A e \in Ecu : Beyond(e, b) <=> \E p \in has[e] : p > b + Width
  BY DEF Beyond
<1>3. ASSUME NEW x \in UpTo(b + Width), x \notin UpTo(b) PROVE x \in New
  <2>1. x \in Found /\ x \in Nat \ {0} /\ x <= b + Width /\ x > b
    BY <1>1, <1>3, FoundIs DEF UpTo
  <2>2. CASE \E e \in Ecu : x \in has[e]
    <3>1. PICK e \in Ecu : x \in has[e]
      BY <2>2
    <3>2. x # b + Width
      BY <3>1, PlainIs DEF WalkType
    <3>3. x \in S(e)
      BY <1>1, <2>1, <3>1, <3>2, BitmapSays, WidthIs
    <3>4. e \in Answering(b)
      BY <2>1, <3>1, FurtherAnswers
    <3> QED BY <1>0, <2>1, <3>3, <3>4
  <2>3. CASE x \in Leading
    <3>1. x = b + Width /\ Further(x)
      BY <1>1, <2>1, <2>3, LeadingIs, WidthIs
    <3>2. PICK e \in Ecu : \E p \in has[e] : p > b + Width
      BY <3>1 DEF Further
    <3>3. PICK p \in has[e] : p > b + Width
      BY <3>2
    <3>4. p \in Nat /\ p > b
      BY <1>1, <3>3, PlainIs, WidthIs DEF WalkType
    <3>5. e \in Answering(b)
      BY <3>3, <3>4, FurtherAnswers
    <3>6. x \in S(e)
      BY <1>2, <2>1, <3>1, <3>2, BitmapSays
    <3> QED BY <1>0, <2>1, <3>5, <3>6
  <2> QED BY <2>1, <2>2, <2>3 DEF Found
<1>4. ASSUME NEW x \in New PROVE x \in UpTo(b + Width)
  <2>1. PICK e \in Answering(b) : x \in S(e)
    BY <1>0, <1>4
  <2>2. e \in Ecu /\ x # 0
    BY <1>0, <1>4, <2>1 DEF Answering
  <2>3. CASE x \in has[e] /\ x > b /\ x < b + Width
    <3>1. x \in Found
      BY <2>2, <2>3 DEF Found
    <3> QED BY <1>1, <2>3, <3>1, FoundIs DEF UpTo
  <2>4. CASE x = b + Width /\ Beyond(e, b)
    <3>1. Further(b + Width)
      BY <1>2, <2>2, <2>4 DEF Further
    <3>2. x \in Found
      BY <2>4, <3>1, LeadingIs DEF Found
    <3> QED BY <1>1, <2>4, <3>2 DEF UpTo
  <2> QED BY <2>1, <2>2, <2>3, <2>4, BitmapSays
<1>5. UpTo(b) \subseteq UpTo(b + Width)
  BY <1>1, FoundIs, WidthIs DEF UpTo
<1> QED BY <1>3, <1>4, <1>5

\* The next bitmap is asked for if an ECU has a PID beyond this one.
LEMMA MoreIs ==
  ASSUME WalkType, NEW b \in Bases
  PROVE  /\ More(b) <=> Further(b + Width)
         /\ More(b) => /\ (b + Width) % Bytes = b + Width
                       /\ b + Width \in Bases
<1>1. b \in Nat /\ b <= LastBase /\ b + Width \in Nat /\ b + Width # 0
  BY BaseIs, BytesIs, WidthIs
<1>2. b # LastBase => /\ (b + Width) % Bytes = b + Width
                      /\ b + Width \in Bases
  <2> SUFFICES ASSUME b # LastBase
               PROVE  (b + Width) % Bytes = b + Width /\ b + Width \in Bases
    OBVIOUS
  <2>1. b + Width < Bytes /\ b + Width \in Bases
    BY BaseIs
  <2>2. b + Width \in 0 .. Bytes - 1
    BY <1>1, <2>1, BytesIs
  <2> QED BY <2>1, <2>2, ByteOf
<1>3. ASSUME More(b) PROVE Further(b + Width)
  <2>1. PICK e \in Answering(b) :
          b + Width \in SupportedFromBitmap(b, PidData(e, b))
    BY <1>2, <1>3 DEF More
  <2>2. e \in Ecu
    BY <2>1 DEF Answering
  <2>3. Beyond(e, b)
    BY <1>1, <2>1, <2>2, BitmapSays
  <2> QED BY <2>2, <2>3 DEF Beyond, Further
<1>4. ASSUME Further(b + Width) PROVE More(b)
  <2>1. PICK e \in Ecu : \E p \in has[e] : p > b + Width
    BY <1>4 DEF Further
  <2>2. PICK p \in has[e] : p > b + Width
    BY <2>1
  <2>3. p \in 1 .. Bytes - 1
    BY <2>2, PlainIs DEF WalkType
  <2>4. b # LastBase
    BY <1>1, <2>2, <2>3, BytesIs
  <2>5. e \in Answering(b)
    BY <1>1, <2>2, <2>3, FurtherAnswers, WidthIs
  <2>6. Beyond(e, b)
    BY <2>1 DEF Beyond
  <2>7. b + Width \in SupportedFromBitmap(b, PidData(e, b))
    BY <1>1, <2>6, BitmapSays
  <2> QED BY <1>2, <2>4, <2>5, <2>7 DEF More
<1> QED BY <1>2, <1>3, <1>4 DEF More

-----------------------------------------------------------------------------
(* The walk                                                                *)

LEMMA WalkAtInit == Init => WalkInv
<1> SUFFICES ASSUME Init PROVE WalkInv
  OBVIOUS
<1>1. 0 \in Bases
  <2>1. 0 \in 0 .. Ranges - 1 /\ 0 * Width = 0
    BY WidthIs
  <2> QED BY <2>1 DEF Bases
<1>2. CASE task = "info"
  <2>1. WalkInit
    BY <1>2 DEF Init
  <2>2. WalkType
    BY <1>1, <2>1 DEF WalkInit, WalkType, Plain
  <2>3. UpTo(0) = {}
    BY <1>1, <2>2, UpToEnds
  <2> QED BY <1>2, <2>1, <2>2, <2>3 DEF WalkInit, WalkInv
<1>3. CASE task # "info"
  <2>1. /\ pc \in {"opening", "request"}
        /\ has = [e \in Ecu |-> {}] /\ base = 0 /\ out = {}
    BY <1>3 DEF Init
  <2> QED BY <1>1, <1>3, <2>1 DEF WalkInv, WalkType
<1> QED BY <1>2, <1>3

LEMMA FoundPrime ==
  ASSUME has' = has
  PROVE  /\ Found' = Found
         /\ \A b : UpTo(b)' = UpTo(b) /\ Further(b)' = Further(b)
BY DEF Found, Leading, UpTo, Further

LEMMA AskBitmapStep ==
  ASSUME WalkInv, AskBitmap, task = "info", UNCHANGED task
  PROVE  WalkInv'
<1>1. /\ WalkType /\ base \in Bases /\ pc = "asking" /\ has' = has
      /\ out \ {0} = UpTo(base) /\ failed' = failed
  BY DEF WalkInv, WalkType, AskBitmap
<1>2. out' \ {0} = UpTo(base + Width)
  <2> DEFINE New == UNION {SupportedFromBitmap(base, PidData(e, base)) :
                             e \in Answering(base)}
  <2>1. UpTo(base + Width) = UpTo(base) \cup (New \ {0})
    BY <1>1, RangeAdds
  <2>2. out' = out \cup New
    BY DEF AskBitmap
  <2> HIDE DEF New
  <2> QED BY <1>1, <2>1, <2>2
<1>3. CASE More(base) /\ base' = (base + Width) % Bytes /\ UNCHANGED pc
  <2>1. base' = base + Width /\ base' \in Bases /\ Further(base')
    BY <1>1, <1>3, MoreIs
  <2>2. WalkType'
    BY <1>1, <2>1 DEF WalkType
  <2>3. Further(base)' /\ UpTo(base)' = UpTo(base + Width)
    BY <1>1, <2>1 DEF Further, UpTo, Found, Leading
  <2> QED BY <1>1, <1>2, <1>3, <2>2, <2>3 DEF WalkInv
<1>4. CASE ~More(base) /\ pc' = "done" /\ UNCHANGED base
  <2>1. UpTo(base + Width) = Found
    BY <1>1, <1>4, MoreIs, UpToEnds
  <2>2. Found' = Found /\ WalkType'
    BY <1>1, <1>4, FoundPrime DEF WalkType
  <2> QED BY <1>2, <1>4, <2>1, <2>2 DEF WalkInv
<1> QED BY <1>3, <1>4 DEF AskBitmap

LEMMA AskFailsStep ==
  ASSUME WalkInv, AskFails, task = "info", UNCHANGED task
  PROVE  WalkInv'
<1>1. /\ WalkType /\ base \in Bases /\ pc = "asking" /\ pc' = "done"
      /\ base = 0 \/ Further(base)
      /\ out \ {0} = UpTo(base)
      /\ has' = has /\ base' = base /\ out' = out
  BY DEF WalkInv, WalkType, AskFails
<1>2. ASSUME ~failed' PROVE out' \ {0} = Found'
  <2>1. Answering(base) = {}
    BY <1>2 DEF AskFails
  <2>2. ~Further(base)
    BY <1>1, <2>1, FurtherAnswers DEF Further
  <2>3. base = 0 /\ Ecu = {}
    BY <1>1, <2>1, <2>2 DEF Answering
  <2>4. Found = {}
    BY <2>3 DEF Found, Leading
  <2>5. UpTo(base) = {}
    BY <2>4 DEF UpTo
  <2> QED BY <1>1, <2>4, <2>5, FoundPrime
<1>3. WalkType'
  BY <1>1 DEF WalkType
<1> QED BY <1>1, <1>2, <1>3 DEF WalkInv

\* A step of the other commands is none of the walk.
LEMMA WalkOtherStep ==
  ASSUME WalkInv, UNCHANGED <<task, has, failed, base, out>>,
         pc' = pc \/ (task # "info" /\ pc' # "asking")
  PROVE  WalkInv'
<1>1. Found' = Found /\ UpTo(base)' = UpTo(base)
        /\ Further(base)' = Further(base)
  BY DEF Found, UpTo, Further, Leading
<1>2. WalkType'
  BY DEF WalkInv, WalkType
<1>3. CASE pc' = pc
  BY <1>1, <1>2, <1>3 DEF WalkInv
<1>4. CASE task # "info" /\ pc' # "asking"
  <2>1. has = [e \in Ecu |-> {}] /\ out = {} /\ 0 \notin Leading
    BY <1>4, LeadingIs DEF WalkInv, WalkType
  <2>2. Found = {}
    BY <2>1 DEF Found, Leading
  <2> QED BY <1>1, <1>2, <1>4, <2>1, <2>2 DEF WalkInv
<1> QED BY <1>3, <1>4

LEMMA PromptEnds ==
  ASSUME AtPrompt
  PROVE  /\ pc = "lines" /\ pc' \in {"lines", "request", "done"}
         /\ UNCHANGED <<task, has, failed, base, out>>
BY DEF AtPrompt, bitmapVars, Fails, ReadLamp, ReadCodes, ReadVIN,
       ReadDataByIdentifier, Proceed, Finish

LEMMA SendGoesOut ==
  ASSUME NEW answer, NEW giving, SendRequest(answer, giving)
  PROVE  /\ pc = "request" /\ pc' = "lines"
         /\ UNCHANGED <<task, has, failed, base, out>>
BY DEF SendRequest, bitmapVars

\* The inductive invariant of the walk over the bitmaps.
THEOREM WalkInductive == Spec => []WalkInv
<1>1. Init => WalkInv
  BY WalkAtInit
<1>2. WalkInv /\ [Next]_vars => WalkInv'
  <2> SUFFICES ASSUME WalkInv, [Next]_vars PROVE WalkInv'
    OBVIOUS
  <2>1. CASE Info
    <3>1. task = "info" /\ UNCHANGED task /\ Walk
      BY <2>1 DEF Info, taskVars
    <3> QED BY <3>1, AskBitmapStep, AskFailsStep DEF Walk
  <2>2. CASE Connect
    BY <2>2, WalkOtherStep DEF Connect, walkVars, taskVars
  <2>3. CASE AskPlainly
    <3>1. /\ pc = "request" /\ pc' = "lines"
          /\ UNCHANGED <<task, has, failed, base, out>>
      BY <2>3, SendGoesOut DEF AskPlainly
    <3> QED BY <3>1, WalkOtherStep DEF WalkInv
  <2>4. ASSUME NEW e \in Ecu, NEW what \in Oddities, AskOddly(e, what)
        PROVE  WalkInv'
    <3>1. /\ pc = "request" /\ pc' = "lines"
          /\ UNCHANGED <<task, has, failed, base, out>>
      BY <2>4, SendGoesOut DEF AskOddly
    <3> QED BY <3>1, WalkOtherStep DEF WalkInv
  <2>5. ASSUME NEW e \in Ecu, PrintLine(e) PROVE WalkInv'
    BY <2>5, WalkOtherStep DEF PrintLine, walkVars
  <2>6. CASE PrintTrouble
    BY <2>6, WalkOtherStep DEF PrintTrouble, walkVars
  <2>7. CASE AtPrompt
    <3>1. /\ pc = "lines" /\ pc' \in {"lines", "request", "done"}
          /\ UNCHANGED <<task, has, failed, base, out>>
      BY <2>7, PromptEnds
    <3> QED BY <3>1, WalkOtherStep DEF WalkInv
  <2>8. CASE UNCHANGED vars
    BY <2>8, WalkOtherStep DEF vars, walkVars, taskVars
  <2> QED BY <2>1, <2>2, <2>3, <2>4, <2>5, <2>6, <2>7, <2>8 DEF Next
<1> QED BY <1>1, <1>2, PTL DEF Spec

\* Client.SupportedPIDs returns the union of what the ECUs support, whatever
\* the width of a bitmap, the number of bitmaps and the ECUs' PIDs.
THEOREM UnionIsReturned == Spec => []UnionReturned
<1>1. WalkInv => UnionReturned
  BY DEF WalkInv, UnionReturned, Found
<1> QED BY <1>1, WalkInductive, PTL

-----------------------------------------------------------------------------
(* Open                                                                    *)

Words == {"data", "OK", "ELM", "STOPPED", "?"}
Four == {"ATE0", "ATL0", "ATS0", "ATH1"}
Known == Four \cup {"ATTPA6", "ATSP0"}

\* What has been set when a command of the set-up is sent.
Before(c) == CASE c = "ATE0" -> {}
               [] c = "ATL0" -> {"ATE0"}
               [] c = "ATS0" -> {"ATE0", "ATL0"}
               [] c = "ATH1" -> {"ATE0", "ATL0", "ATS0"}
               [] OTHER -> Four

OpenType ==
  /\ opc \in {"none", "write", "wait", "opened", "failed"}
  /\ doing \in {"none", "old", "ATZ"} \cup Known
  /\ air \in Seq(Words) /\ arrived \in Seq(Words)

NoOKFrom(n, s) == \A i \in n .. Len(s) : s[i] # "OK"

\* The reset: an OK from before can only be the next to arrive.
Resetting ==
  /\ cmd = "ATZ"
  /\ doing \in {"none", "old", "ATZ"} /\ (doing = "old" => opc = "write")
  /\ NoOKFrom(2, air) /\ NoOKFrom(2, arrived)
  /\ arrived # <<>> => NoOKFrom(1, air)

\* An answer from before was taken for that to the reset: what is taken for
\* the answer to the next command will be no OK either.
OutOfStep ==
  /\ cmd = "ATE0"
  /\ \/ /\ opc = "write" /\ doing \in {"none", "ATZ"}
        /\ NoOKFrom(1, arrived) /\ NoOKFrom(1, air)
     \/ /\ opc = "wait" /\ doing \in {"none", "ATZ", "ATE0"}
        /\ arrived # <<>> => arrived[1] # "OK"
        /\ arrived = <<>> /\ air # <<>> => air[1] # "OK"
        /\ arrived = <<>> /\ air = <<>> => doing = "ATZ"

\* The adapter owes the answer to the command under way and nothing else.
InStep ==
  /\ cmd \in Known /\ Before(cmd) \subseteq set
  /\ \/ /\ opc = "write" /\ doing = "none"
        /\ air = <<>> /\ arrived = <<>>
     \/ /\ opc = "wait" /\ doing = cmd
        /\ air = <<>> /\ arrived = <<>>
     \/ /\ opc = "wait" /\ doing = "none"
        /\ Len(air) = 1 /\ (air[1] = "OK" => cmd \in set)
        /\ arrived = <<>>
     \/ /\ opc = "wait" /\ doing = "none"
        /\ Len(arrived) = 1 /\ (arrived[1] = "OK" => cmd \in set)
        /\ air = <<>>

OpenInv ==
  /\ OpenType
  /\ opc \in {"write", "wait"} => Resetting \/ OutOfStep \/ InStep
  /\ opc = "opened" => /\ Four \subseteq set
                       /\ {"ATTPA6", "ATSP0"} \cap set # {}
                       /\ doing = "none" /\ air = <<>> /\ arrived = <<>>

LEMMA OpenAtInit == Init => OpenInv
<1> SUFFICES ASSUME Init PROVE OpenInv
  OBVIOUS
<1>1. CASE task = "open"
  <2>1. OpenInit
    BY <1>1 DEF Init
  <2>2. <<>> \in Seq(Words) /\ Len(<<>>) = 0
    OBVIOUS
  <2>3. /\ <<"data">> \in Seq(Words) /\ Len(<<"data">>) = 1
        /\ <<"OK">> \in Seq(Words) /\ Len(<<"OK">>) = 1
        /\ <<"ELM">> \in Seq(Words) /\ Len(<<"ELM">>) = 1
    BY DEF Words
  <2>4. air \in Seq(Words) /\ Len(air) \in {0, 1}
    BY <2>1, <2>2, <2>3 DEF OpenInit
  <2>5. OpenType
    BY <2>1, <2>2, <2>4 DEF OpenInit, OpenType
  <2>6. NoOKFrom(2, air) /\ NoOKFrom(2, arrived)
    BY <2>1, <2>2, <2>4 DEF OpenInit, NoOKFrom
  <2> QED BY <2>1, <2>5, <2>6 DEF OpenInit, OpenInv, Resetting
<1>2. CASE task # "open"
  <2>1. opc = "none" /\ doing = "none" /\ air = <<>> /\ arrived = <<>>
    BY <1>2 DEF Init
  <2> QED BY <2>1 DEF OpenInv, OpenType
<1> QED BY <1>1, <1>2

LEMMA AppendIs ==
  ASSUME NEW s \in Seq(Words), NEW w \in Words
  PROVE  /\ Append(s, w) \in Seq(Words) /\ Append(s, w) # <<>>
         /\ Len(Append(s, w)) = Len(s) + 1
         /\ Append(s, w)[1] = IF s = <<>> THEN w ELSE s[1]
         /\ \A n \in {1, 2} : NoOKFrom(n, s) /\ w # "OK" =>
                                NoOKFrom(n, Append(s, w))
         /\ s = <<>> => NoOKFrom(2, Append(s, w))
         /\ NoOKFrom(1, s) => NoOKFrom(2, s)
<1>1. /\ Append(s, w) \in Seq(Words) /\ Len(Append(s, w)) = Len(s) + 1
      /\ \A i \in 1 .. Len(s) : Append(s, w)[i] = s[i]
      /\ Append(s, w)[Len(s) + 1] = w /\ Len(s) \in Nat
  OBVIOUS
<1>2. s = <<>> <=> Len(s) = 0
  OBVIOUS
<1>3. Append(s, w) # <<>>
  BY <1>1
<1>4. Append(s, w)[1] = IF s = <<>> THEN w ELSE s[1]
  BY <1>1, <1>2
<1> QED BY <1>1, <1>2, <1>3, <1>4 DEF NoOKFrom

LEMMA TailIs ==
  ASSUME NEW s \in Seq(Words), s # <<>>
  PROVE  /\ Head(s) = s[1] /\ s[1] \in Words
         /\ Tail(s) \in Seq(Words) /\ Len(Tail(s)) = Len(s) - 1
         /\ Tail(s) = <<>> <=> Len(s) = 1
         /\ Tail(s) # <<>> => Tail(s)[1] = s[2]
         /\ NoOKFrom(1, s) => NoOKFrom(1, Tail(s))
         /\ NoOKFrom(2, s) => NoOKFrom(1, Tail(s)) /\ NoOKFrom(2, Tail(s))
         /\ NoOKFrom(1, s) => s[1] # "OK"
<1>1. /\ Head(s) = s[1] /\ s[1] \in Words /\ Len(s) \in Nat \ {0}
      /\ Tail(s) \in Seq(Words) /\ Len(Tail(s)) = Len(s) - 1
      /\ \A i \in 1 .. Len(s) - 1 : Tail(s)[i] = s[i + 1]
  OBVIOUS
<1>2. Tail(s) = <<>> <=> Len(Tail(s)) = 0
  BY ONLY <1>1, EmptySeq
<1>3. PICK n, t : n = Len(s) /\ t = Tail(s)
  OBVIOUS
<1>4. ASSUME NoOKFrom(1, s) PROVE NoOKFrom(1, t)
  BY <1>1, <1>3, <1>4 DEF NoOKFrom
<1>5. ASSUME NoOKFrom(2, s) PROVE NoOKFrom(1, t) /\ NoOKFrom(2, t)
  BY <1>1, <1>3, <1>5 DEF NoOKFrom
<1>6. NoOKFrom(1, s) => s[1] # "OK"
  BY <1>1 DEF NoOKFrom
<1> QED BY <1>1, <1>2, <1>3, <1>4, <1>5, <1>6

LEMMA WriteStep ==
  ASSUME OpenInv, Write
  PROVE  OpenInv'
<1>1. /\ opc = "write" /\ opc' = "wait" /\ arrived' = <<>>
      /\ UNCHANGED <<cmd, resets, set>> /\ OpenType
  BY DEF Write, OpenInv
<1>2. cmd \in {"ATZ"} \cup Known /\ air' \in Seq(Words)
        /\ doing' \in {"none", cmd, "ATZ"}
  <2>1. "STOPPED" \in Words
    BY DEF Words
  <2>2. cmd \in {"ATZ"} \cup Known
    BY <1>1 DEF OpenInv, Resetting, OutOfStep, InStep, Known, Four
  <2>3. air' \in {air, Append(air, "STOPPED")}
          /\ doing' \in {"none", cmd, "ATZ"}
    BY DEF Write
  <2>4. Append(air, "STOPPED") \in Seq(Words)
    BY <1>1, <2>1, AppendIs DEF OpenType
  <2> QED BY <1>1, <2>2, <2>3, <2>4 DEF OpenType
<1>3. OpenType'
  BY <1>1, <1>2, EmptySeq DEF OpenType
<1>4. NoOKFrom(2, <<>>)
  BY DEF NoOKFrom
<1>5. CASE Resetting
  <2>1. NoOKFrom(2, air')
    <3>1. NoOKFrom(2, air) /\ air \in Seq(Words)
      BY <1>1, <1>5 DEF Resetting, OpenType
    <3>2. "STOPPED" \in Words
      BY DEF Words
    <3>3. NoOKFrom(2, Append(air, "STOPPED"))
      BY <3>1, <3>2, AppendIs
    <3>4. air' \in {air, Append(air, "STOPPED")}
      BY DEF Write
    <3> QED BY <3>1, <3>3, <3>4
  <2>2. Resetting'
    BY <1>1, <1>4, <1>5, <2>1 DEF Resetting, Write
  <2> QED BY <1>1, <1>3, <2>2 DEF OpenInv
<1>6. CASE OutOfStep
  <2>1. NoOKFrom(1, air) /\ doing \in {"none", "ATZ"} /\ cmd = "ATE0"
    BY <1>1, <1>6 DEF OutOfStep
  <2>2. air' = air /\ (air # <<>> => air[1] # "OK")
    BY <1>1, <2>1, TailIs DEF Write, OpenType
  <2>3. doing' = IF doing = "none" THEN "ATE0" ELSE "ATZ"
    BY <2>1 DEF Write
  <2>4. CASE air = <<>> /\ doing = "none"
    <3>1. InStep'
      BY <1>1, <2>1, <2>2, <2>3, <2>4 DEF InStep, Known, Four, Before
    <3> QED BY <1>1, <1>3, <3>1 DEF OpenInv
  <2>5. CASE air # <<>> \/ doing = "ATZ"
    <3>1. OutOfStep'
      BY <1>1, <2>1, <2>2, <2>3, <2>5 DEF OutOfStep
    <3> QED BY <1>1, <1>3, <3>1 DEF OpenInv
  <2> QED BY <2>1, <2>4, <2>5
<1>7. CASE InStep
  <2>1. doing = "none" /\ air = <<>> /\ doing' = cmd /\ air' = air
    BY <1>1, <1>7 DEF InStep, Write
  <2>2. InStep'
    BY <1>1, <1>7, <2>1 DEF InStep, Before
  <2> QED BY <1>1, <1>3, <2>2 DEF OpenInv
<1> QED BY <1>1, <1>5, <1>6, <1>7 DEF OpenInv

LEMMA RespondStep ==
  ASSUME OpenInv, Respond
  PROVE  OpenInv'
<1>1. /\ UNCHANGED <<opc, cmd, resets, arrived>> /\ OpenType
      /\ doing # "none" /\ doing' = "none" /\ air \in Seq(Words)
  BY DEF Respond, OpenInv, OpenType
<1>2. PICK w \in Words : air' = Append(air, w)
  BY DEF Respond, Words
<1>3. /\ air' \in Seq(Words) /\ air' # <<>> /\ Len(air') = Len(air) + 1
      /\ air'[1] = IF air = <<>> THEN w ELSE air[1]
      /\ NoOKFrom(2, air) /\ w # "OK" => NoOKFrom(2, air')
      /\ NoOKFrom(1, air) /\ w # "OK" => NoOKFrom(1, air')
  BY <1>1, <1>2, AppendIs
<1>4. doing \in {"old", "ATZ"} => w # "OK"
  <2>1. /\ Len(air) + 1 \in 1 .. Len(air) + 1
        /\ Append(air, w)[Len(air) + 1] = w
    BY <1>1
  <2>2. doing \in {"old", "ATZ"} =>
          air' \in {Append(air, x) : x \in Words \ {"OK"}}
    BY DEF Respond, Words
  <2>3. \A x \in Words : Append(air, x)[Len(air) + 1] = x
    BY <1>1
  <2> QED BY <1>2, <2>1, <2>2, <2>3
<1>5. OpenType'
  BY <1>1, <1>3 DEF OpenType
<1>6. opc \notin {"opened"}
  BY <1>1 DEF OpenInv
<1>7. CASE Resetting /\ opc \in {"write", "wait"}
  <2>1. Resetting'
    BY <1>1, <1>3, <1>4, <1>7 DEF Resetting
  <2> QED BY <1>1, <1>5, <1>7, <2>1 DEF OpenInv
<1>8. CASE OutOfStep
  <2>1. OutOfStep'
    BY <1>1, <1>3, <1>4, <1>8 DEF OutOfStep
  <2> QED BY <1>1, <1>5, <1>6, <2>1 DEF OpenInv
<1>9. CASE InStep
  <2>1. /\ opc = "wait" /\ doing = cmd /\ cmd \in Known
        /\ air = <<>> /\ arrived = <<>> /\ Before(cmd) \subseteq set
    BY <1>1, <1>9 DEF InStep
  <2>2. doing \notin {"old", "ATZ"}
    BY <2>1 DEF Known, Four
  <2>3. \/ air' = Append(air, "OK") /\ set' = set \cup {cmd}
        \/ air' = Append(air, "?") /\ set' = set
    BY <2>1, <2>2 DEF Respond
  <2>4. Len(air') = 1 /\ air'[1] = w
    BY <1>3, <2>1
  <2>5. air'[1] = "OK" => cmd \in set'
    BY <1>2, <2>1, <2>3, <2>4
  <2>6. Before(cmd)' \subseteq set'
    BY <1>1, <2>1, <2>3 DEF Before
  <2>7. InStep'
    BY <1>1, <2>1, <2>4, <2>5, <2>6 DEF InStep
  <2> QED BY <1>1, <1>5, <1>6, <2>7 DEF OpenInv
<1>10. CASE opc \notin {"write", "wait"}
  BY <1>1, <1>5, <1>6, <1>10 DEF OpenInv
<1> QED BY <1>1, <1>7, <1>8, <1>9, <1>10 DEF OpenInv

LEMMA ArriveStep ==
  ASSUME OpenInv, Arrive
  PROVE  OpenInv'
<1> DEFINE w == air[1]
<1>1. /\ UNCHANGED <<opc, cmd, resets, doing, set>> /\ OpenType
      /\ air # <<>> /\ air' = Tail(air) /\ arrived' = Append(arrived, w)
      /\ air \in Seq(Words) /\ arrived \in Seq(Words) /\ w \in Words
  BY TailIs DEF Arrive, OpenInv, OpenType
<1>2. /\ air' \in Seq(Words) /\ Len(air') = Len(air) - 1
      /\ NoOKFrom(1, air) => NoOKFrom(1, air') /\ w # "OK"
      /\ NoOKFrom(2, air) => NoOKFrom(1, air') /\ NoOKFrom(2, air')
      /\ air' = <<>> <=> Len(air) = 1
  BY <1>1, TailIs
<1>3. /\ arrived' \in Seq(Words) /\ arrived' # <<>>
      /\ Len(arrived') = Len(arrived) + 1
      /\ arrived'[1] = IF arrived = <<>> THEN w ELSE arrived[1]
      /\ NoOKFrom(2, arrived) /\ w # "OK" => NoOKFrom(2, arrived')
      /\ NoOKFrom(1, arrived) /\ w # "OK" => NoOKFrom(1, arrived')
      /\ arrived = <<>> => NoOKFrom(2, arrived')
  <2> HIDE DEF w
  <2> QED BY <1>1, AppendIs
<1>4. OpenType'
  BY <1>1, <1>2, <1>3 DEF OpenType
<1>5. opc # "opened"
  BY <1>1 DEF OpenInv
<1> HIDE DEF w
<1>6. CASE Resetting /\ opc \in {"write", "wait"}
  <2>1. Resetting'
    BY <1>1, <1>2, <1>3, <1>6 DEF Resetting
  <2> QED BY <1>1, <1>4, <1>5, <2>1 DEF OpenInv
<1>7. CASE OutOfStep
  <2>1. arrived = <<>> /\ opc = "wait" => w # "OK"
    BY <1>1, <1>7 DEF OutOfStep, w
  <2>2. OutOfStep'
    BY <1>1, <1>2, <1>3, <1>7, <2>1 DEF OutOfStep
  <2> QED BY <1>1, <1>4, <1>5, <2>2 DEF OpenInv
<1>8. CASE InStep
  <2>1. /\ opc = "wait" /\ doing = "none" /\ Len(air) = 1
        /\ w = "OK" => cmd \in set
        /\ arrived = <<>> /\ cmd \in Known /\ Before(cmd) \subseteq set
    BY <1>1, <1>8, EmptySeq DEF InStep, w
  <2>2. air' = <<>> /\ Len(arrived') = 1 /\ arrived'[1] = w
    BY <1>2, <1>3, <2>1, EmptySeq
  <2>3. InStep'
    BY <1>1, <2>1, <2>2 DEF InStep, Before
  <2> QED BY <1>1, <1>4, <1>5, <2>3 DEF OpenInv
<1>9. CASE opc \notin {"write", "wait"}
  BY <1>1, <1>4, <1>5, <1>9 DEF OpenInv
<1> QED BY <1>1, <1>6, <1>7, <1>8, <1>9 DEF OpenInv

\* The command after one of the set-up needs what the first has set.
LEMMA AfterIs ==
  ASSUME NEW c \in Four
  PROVE  /\ After(c) \in Known \ {"ATE0", "ATSP0"}
         /\ Before(After(c)) = Before(c) \cup {c}
         /\ Setup[1] = "ATE0"
<1>1. DOMAIN Setup = 1 .. 5
  BY DEF Setup
<1>2. /\ Setup[1] = "ATE0" /\ Setup[2] = "ATL0" /\ Setup[3] = "ATS0"
      /\ Setup[4] = "ATH1" /\ Setup[5] = "ATTPA6"
  BY DEF Setup
<1>3. PICK k \in 1 .. 4 : c = Setup[k]
  BY <1>2 DEF Four
<1>4. (CHOOSE j \in DOMAIN Setup : Setup[j] = c) = k
  <2>1. \A j \in DOMAIN Setup : Setup[j] = c <=> j = k
    <3>1. \A j \in 1 .. 5 : j = 1 \/ j = 2 \/ j = 3 \/ j = 4 \/ j = 5
      OBVIOUS
    <3>2. k = 1 \/ k = 2 \/ k = 3 \/ k = 4
      OBVIOUS
    <3> QED BY <1>1, <1>2, <1>3, <3>1, <3>2
  <2>2. k \in DOMAIN Setup
    BY <1>1
  <2> HIDE DEF Setup
  <2> QED BY <2>1, <2>2
<1>5. After(c) = Setup[1 + k]
  BY <1>4 DEF After
<1>6. k = 1 \/ k = 2 \/ k = 3 \/ k = 4
  OBVIOUS
<1> QED BY <1>2, <1>3, <1>5, <1>6 DEF Known, Four, Before

LEMMA ReadPromptStep ==
  ASSUME OpenInv, ReadPrompt
  PROVE  OpenInv'
<1> DEFINE x == arrived[1]
<1>1. /\ opc = "wait" /\ arrived # <<>> /\ arrived' = Tail(arrived)
      /\ UNCHANGED <<doing, set, air>> /\ Answered(x)
      /\ arrived \in Seq(Words) /\ OpenType
      /\ Resetting \/ OutOfStep \/ InStep
  BY TailIs DEF ReadPrompt, OpenInv, OpenType
<1>2. /\ arrived' \in Seq(Words) /\ Len(arrived') = Len(arrived) - 1
      /\ NoOKFrom(2, arrived) => NoOKFrom(1, arrived') /\ NoOKFrom(2, arrived')
  BY <1>1, TailIs
<1> HIDE DEF x
<1>3. opc' \in {"write", "opened", "failed"}
  BY <1>1 DEF Answered
<1>4. OpenType'
  BY <1>1, <1>2, <1>3 DEF OpenType
<1>5. CASE Resetting
  <2>1. cmd = "ATZ" /\ doing \in {"none", "ATZ"} /\ NoOKFrom(1, air)
    BY <1>1, <1>5 DEF Resetting
  <2>2. CASE cmd' = Setup[1] /\ opc' = "write"
    <3>1. cmd' = "ATE0"
      BY <2>2 DEF Setup
    <3>2. OutOfStep'
      BY <1>1, <1>2, <1>5, <2>1, <2>2, <3>1 DEF Resetting, OutOfStep
    <3> QED BY <1>4, <2>2, <3>2 DEF OpenInv
  <2>3. CASE cmd' = cmd /\ opc' = "write"
    <3>1. Resetting'
      BY <1>1, <1>2, <1>5, <2>1, <2>3 DEF Resetting
    <3> QED BY <1>4, <2>3, <3>1 DEF OpenInv
  <2>4. CASE opc' = "failed"
    BY <1>4, <2>4 DEF OpenInv
  <2> QED BY <1>1, <2>1, <2>2, <2>3, <2>4 DEF Answered
<1>6. CASE OutOfStep
  <2>1. cmd = "ATE0" /\ x # "OK"
    BY <1>1, <1>6 DEF OutOfStep, x
  <2>2. opc' = "failed"
    BY <1>1, <2>1 DEF Answered, ExpectOK
  <2> QED BY <1>4, <2>2 DEF OpenInv
<1>7. CASE InStep
  <2>1. /\ doing = "none" /\ air = <<>> /\ cmd \in Known
        /\ Before(cmd) \subseteq set /\ Len(arrived) = 1
        /\ x = "OK" => cmd \in set
    BY <1>1, <1>7 DEF InStep, x
  <2>2. arrived' = <<>>
    BY <1>2, <2>1, EmptySeq
  <2>3. cmd # "ATZ"
    BY <2>1 DEF Known, Four
  <2>4. CASE ExpectOK(x) /\ cmd \in {"ATTPA6", "ATSP0"}
    <3>1. opc' = "opened" /\ cmd \in set
      BY <1>1, <2>1, <2>3, <2>4 DEF Answered, ExpectOK
    <3>2. Four \subseteq set
      BY <2>1, <2>4 DEF Before
    <3> QED BY <1>1, <1>4, <2>1, <2>2, <2>4, <3>1, <3>2 DEF OpenInv
  <2>5. CASE ExpectOK(x) /\ cmd \notin {"ATTPA6", "ATSP0"}
    <3>1. opc' = "write" /\ cmd' = After(cmd) /\ cmd \in set
      BY <1>1, <2>1, <2>3, <2>5 DEF Answered, ExpectOK
    <3>2. cmd \in Four
      BY <2>1, <2>5 DEF Known
    <3>3. cmd' \in Known /\ Before(cmd') \subseteq set
      BY <2>1, <3>1, <3>2, AfterIs
    <3>4. InStep'
      BY <1>1, <2>1, <2>2, <3>1, <3>3 DEF InStep, Before
    <3> QED BY <1>4, <3>1, <3>4 DEF OpenInv
  <2>6. CASE ~ExpectOK(x) /\ cmd = "ATTPA6"
    <3>1. opc' = "write" /\ cmd' = "ATSP0"
      BY <1>1, <2>3, <2>6 DEF Answered
    <3>2. cmd' \in Known /\ Before(cmd') \subseteq set
      BY <2>1, <2>6, <3>1 DEF Known, Before
    <3>3. InStep'
      BY <1>1, <2>1, <2>2, <3>1, <3>2 DEF InStep, Before
    <3> QED BY <1>4, <3>1, <3>3 DEF OpenInv
  <2>7. CASE ~ExpectOK(x) /\ cmd # "ATTPA6"
    <3>1. opc' = "failed"
      BY <1>1, <2>3, <2>7 DEF Answered
    <3> QED BY <1>4, <3>1 DEF OpenInv
  <2> QED BY <2>4, <2>5, <2>6, <2>7
<1> QED BY <1>1, <1>5, <1>6, <1>7

LEMMA OpenOtherStep ==
  ASSUME OpenInv, UNCHANGED openVars
  PROVE  OpenInv'
BY DEF openVars, OpenInv, OpenType, Resetting, OutOfStep, InStep, Before

\* The inductive invariant of Open.
THEOREM OpenInductive == Spec => []OpenInv
<1>1. Init => OpenInv
  BY OpenAtInit
<1>2. OpenInv /\ [Next]_vars => OpenInv'
  <2> SUFFICES ASSUME OpenInv, [Next]_vars PROVE OpenInv'
    OBVIOUS
  <2>1. CASE Connect
    <3>1. CASE ContextEnds
      BY <3>1 DEF ContextEnds, OpenInv, OpenType
    <3> QED BY <2>1, <3>1, WriteStep, RespondStep, ArriveStep,
               ReadPromptStep DEF Connect, Open
  <2>2. CASE UNCHANGED openVars
    BY <2>2, OpenOtherStep
  <2>3. ASSUME Next, ~Connect PROVE UNCHANGED openVars
    BY <2>3 DEF Next, Info, AskPlainly, AskOddly, SendRequest, PrintLine,
                PrintTrouble, AtPrompt
  <2>4. UNCHANGED vars => UNCHANGED openVars
    BY DEF vars
  <2> QED BY <2>1, <2>2, <2>3, <2>4
<1> QED BY <1>1, <1>2, PTL DEF Spec

\* Open returns an adapter that is set up and owes no answer, whatever the
\* adapter was doing and had printed before.
THEOREM OpensAsConfigured == Spec => []OpenedAsConfigured
<1>1. OpenInv => OpenedAsConfigured
  BY DEF OpenInv, OpenedAsConfigured, Four
<1> QED BY <1>1, OpenInductive, PTL
-----------------------------------------------------------------------------
(* Numbers and sequences                                                   *)

\* A set of natural numbers that is not empty has a least member.
LEMMA Least ==
  ASSUME NEW S \in SUBSET Nat, S # {}
  PROVE  \E n \in S : \A m \in S : n <= m
<1>1. PICK k \in S : TRUE
  OBVIOUS
<1> DEFINE T == {1 .. n : n \in {m \in S : m <= k}}
           D == 1 .. k
<1>2. IsFiniteSet(D) /\ FiniteSubsetsOf(D) = SUBSET D
  BY <1>1, FS_Interval, FS_FiniteSubsetsOfFinite
<1>3. IsWellFoundedOn(StrictSubsetOrdering(D), SUBSET D)
  BY <1>2, FS_StrictSubsetOrderingWellFounded
<1>4. T \subseteq SUBSET D /\ T # {}
  BY <1>1
<1>5. \E x \in T : \A y \in T : <<y, x>> \notin StrictSubsetOrdering(D)
  <2> HIDE DEF T, D
  <2> QED BY <1>3, <1>4, WFMin
<1>6. PICK x \in T : \A y \in T : <<y, x>> \notin StrictSubsetOrdering(D)
  BY <1>5
<1>7. PICK n \in S : n <= k /\ x = 1 .. n
  BY <1>6
<1>8. ASSUME NEW m \in S, m < n PROVE FALSE
  <2>1. 1 .. m \in T
    BY <1>1, <1>7, <1>8
  <2>2. <<1 .. m, x>> \notin StrictSubsetOrdering(D)
    BY <2>1, <1>6
  <2>3. /\ 1 .. m \subseteq D /\ x \subseteq D
        /\ 1 .. m \subseteq x /\ n \in x /\ n \notin 1 .. m
    BY <1>1, <1>7, <1>8
  <2> QED BY <2>2, <2>3 DEF StrictSubsetOrdering
<1> QED BY <1>7, <1>8

\* Induction: a set that has 0 and with n has n + 1 has every number.
LEMMA Induction ==
  ASSUME NEW S, 0 \in S, \A n \in Nat : n \in S => n + 1 \in S
  PROVE  Nat \subseteq S
<1> SUFFICES ASSUME Nat \ S # {} PROVE FALSE
  OBVIOUS
<1>1. PICK n \in Nat \ S : \A m \in Nat \ S : n <= m
  BY Least
<1>2. n # 0 /\ n - 1 \in Nat /\ n - 1 \in S /\ (n - 1) + 1 = n
  BY <1>1
<1> QED BY <1>1, <1>2

IsSequence(q) == \E S : q \in Seq(S)

LEMMA AppendedIs ==
  ASSUME NEW q, IsSequence(q), NEW x
  PROVE  /\ IsSequence(Append(q, x)) /\ Len(Append(q, x)) = Len(q) + 1
         /\ \A i \in 1 .. Len(q) : Append(q, x)[i] = q[i]
         /\ Append(q, x)[Len(q) + 1] = x
         /\ \A i \in 1 .. Len(q) + 1 : i \in 1 .. Len(q) \/ i = Len(q) + 1
         /\ Len(q) \in Nat
<1>1. PICK S : q \in Seq(S)
  BY DEF IsSequence
<1>2. q \in Seq(S \cup {x})
  BY <1>1, SeqMonotonic
<1>3. Append(q, x) \in Seq(S \cup {x})
  BY <1>2, AppendProperties
<1>4. /\ Len(Append(q, x)) = Len(q) + 1 /\ Append(q, x)[Len(q) + 1] = x
      /\ \A i \in 1 .. Len(q) : Append(q, x)[i] = q[i]
  BY <1>2, AppendProperties
<1>5. Len(q) \in Nat
  BY <1>1
<1> QED BY <1>3, <1>4, <1>5 DEF IsSequence

LEMMA RestIs ==
  ASSUME NEW q, IsSequence(q), q # <<>>
  PROVE  /\ IsSequence(Tail(q)) /\ Len(q) = Len(Tail(q)) + 1
         /\ \A i \in 1 .. Len(Tail(q)) : Tail(q)[i] = q[i + 1]
         /\ Head(q) = q[1] /\ Len(Tail(q)) \in Nat
<1>1. PICK S : q \in Seq(S)
  BY DEF IsSequence
<1>2. Tail(q) \in Seq(S)
  BY <1>1
<1> QED BY <1>1, <1>2, HeadTailProperties DEF IsSequence

LEMMA NoneIsSequence == IsSequence(<<>>) /\ Len(<<>>) = 0
BY DEF IsSequence

-----------------------------------------------------------------------------
(* Without                                                                 *)

Keep(s, S, n, t) == IF s[n] \in S THEN t ELSE Append(t, s[n])
Keeping(s, S, N, F) ==
  F = [n \in 0 .. N |-> IF n = 0 THEN <<>> ELSE Keep(s, S, n, F[n - 1])]

LEMMA KeepingExists ==
  ASSUME NEW s, NEW S, NEW N \in Nat
  PROVE  \E F : Keeping(s, S, N, F)
<1> DEFINE T == {n \in Nat : \E F : Keeping(s, S, n, F)}
<1>1. 0 \in T
  <2> DEFINE F == [n \in 0 .. 0 |-> <<>>]
  <2>1. F = [n \in 0 .. 0 |-> IF n = 0 THEN <<>> ELSE Keep(s, S, n, F[n - 1])]
    OBVIOUS
  <2>2. Keeping(s, S, 0, F)
    BY <2>1 DEF Keeping
  <2> QED BY <2>2
<1>2. ASSUME NEW n \in Nat, n \in T PROVE n + 1 \in T
  <2>1. PICK F : Keeping(s, S, n, F)
    BY <1>2
  <2> DEFINE H == [i \in 0 .. n + 1 |->
                     IF i = n + 1 THEN Keep(s, S, n + 1, F[n]) ELSE F[i]]
  <2>2. ASSUME NEW i \in 0 .. n + 1
        PROVE  H[i] = IF i = 0 THEN <<>> ELSE Keep(s, S, i, H[i - 1])
    <3>1. CASE i = 0
      BY <2>1, <3>1 DEF Keeping
    <3>2. CASE i = n + 1
      BY <3>2
    <3>3. CASE i # 0 /\ i # n + 1
      <4>1. i \in 0 .. n /\ i - 1 \in 0 .. n + 1 /\ i - 1 # n + 1
        BY <3>3
      <4>2. F[i] = Keep(s, S, i, F[i - 1])
        BY <2>1, <3>3, <4>1 DEF Keeping
      <4> QED BY <3>3, <4>1, <4>2
    <3> QED BY <3>1, <3>2, <3>3
  <2>3. H = [i \in 0 .. n + 1 |-> H[i]]
    OBVIOUS
  <2> HIDE DEF H
  <2>4. Keeping(s, S, n + 1, H)
    BY <2>2, <2>3 DEF Keeping
  <2> QED BY <2>4
<1>3. N \in T
  <2> HIDE DEF T
  <2> QED BY <1>1, <1>2, Induction
<1> QED BY <1>3

LEMMA KeepingIs ==
  ASSUME NEW s, NEW S, Len(s) \in Nat
  PROVE  \E F : Keeping(s, S, Len(s), F) /\ Without(s, S) = F[Len(s)]
<1> DEFINE F == CHOOSE F : Keeping(s, S, Len(s), F)
<1>1. Keeping(s, S, Len(s), F)
  <2> HIDE DEF F
  <2>1. \E G : Keeping(s, S, Len(s), G)
    BY KeepingExists
  <2> QED BY ZenonT(30), <2>1 DEF F
<1>2. Without(s, S) = F[Len(s)]
  BY Zenon DEF Without, Keeping, Keep
<1> HIDE DEF F
<1> QED BY <1>1, <1>2

\* One member more is kept or not.
LEMMA WithoutAppend ==
  ASSUME NEW s, IsSequence(s), NEW S, NEW x
  PROVE  /\ Without(<<>>, S) = <<>>
         /\ x \in S => Without(Append(s, x), S) = Without(s, S)
         /\ x \notin S => Without(Append(s, x), S) =
                            Append(Without(s, S), x)
<1>1. Without(<<>>, S) = <<>>
  <2>1. Len(<<>>) = 0
    OBVIOUS
  <2>2. PICK F : Keeping(<<>>, S, 0, F) /\ Without(<<>>, S) = F[0]
    BY <2>1, KeepingIs
  <2> QED BY <2>2 DEF Keeping
<1>2. PICK t : t = Append(s, x)
  OBVIOUS
<1>3. PICK N \in Nat : N = Len(s)
  BY DEF IsSequence
<1>4. Len(t) = N + 1 /\ t[N + 1] = x /\ \A i \in 1 .. N : t[i] = s[i]
  BY <1>2, <1>3, AppendedIs
<1>5. PICK F : Keeping(s, S, N, F) /\ Without(s, S) = F[N]
  BY <1>3, KeepingIs
<1>6. PICK G : Keeping(t, S, N + 1, G) /\ Without(t, S) = G[N + 1]
  BY <1>4, KeepingIs
<1> DEFINE T == {n \in Nat : n <= N => F[n] = G[n]}
<1>7. 0 \in T
  BY <1>5, <1>6 DEF Keeping
<1>8. ASSUME NEW n \in Nat, n \in T PROVE n + 1 \in T
  <2> SUFFICES ASSUME n + 1 <= N PROVE F[n + 1] = G[n + 1]
    OBVIOUS
  <2>1. /\ n + 1 \in 0 .. N /\ n + 1 # 0 /\ (n + 1) - 1 = n
        /\ n + 1 \in 0 .. N + 1 /\ n + 1 \in 1 .. N /\ n <= N
    OBVIOUS
  <2>2. F[n + 1] = Keep(s, S, n + 1, F[n])
        /\ G[n + 1] = Keep(t, S, n + 1, G[n])
    BY <1>5, <1>6, <2>1 DEF Keeping
  <2>3. F[n] = G[n] /\ t[n + 1] = s[n + 1]
    BY <1>4, <1>8, <2>1
  <2> QED BY <2>2, <2>3 DEF Keep
<1>9. N \in T
  <2> HIDE DEF T
  <2> QED BY <1>7, <1>8, Induction
<1>10. G[N + 1] = Keep(t, S, N + 1, G[N])
  <2>1. N + 1 \in 0 .. N + 1 /\ N + 1 # 0 /\ (N + 1) - 1 = N
    OBVIOUS
  <2> QED BY <1>6, <2>1 DEF Keeping
<1> QED BY <1>1, <1>2, <1>4, <1>5, <1>6, <1>9, <1>10 DEF Keep

Distinct(s) == \A i, j \in 1 .. Len(s) : i # j => s[i] # s[j]

\* What is left are the members of s that are not in S.
LEMMA WithoutIs ==
  ASSUME NEW s, IsSequence(s), NEW S
  PROVE  /\ IsSequence(Without(s, S))
         /\ \A i \in 1 .. Len(Without(s, S)) : Without(s, S)[i] \notin S
         /\ \A i \in 1 .. Len(Without(s, S)) :
              \E j \in 1 .. Len(s) : Without(s, S)[i] = s[j]
         /\ \A j \in 1 .. Len(s) : s[j] \notin S =>
              \E i \in 1 .. Len(Without(s, S)) : Without(s, S)[i] = s[j]
         /\ Distinct(s) => Distinct(Without(s, S))
<1>1. PICK N \in Nat : N = Len(s)
  BY DEF IsSequence
<1>2. PICK F : Keeping(s, S, N, F) /\ Without(s, S) = F[N]
  BY <1>1, KeepingIs
<1> DEFINE Once == \A i, j \in 1 .. N : i # j => s[i] # s[j]
           P(n) ==
             /\ IsSequence(F[n])
             /\ \A i \in 1 .. Len(F[n]) : F[n][i] \notin S
             /\ \A i \in 1 .. Len(F[n]) : \E j \in 1 .. n : F[n][i] = s[j]
             /\ \A j \in 1 .. n : s[j] \notin S =>
                  \E i \in 1 .. Len(F[n]) : F[n][i] = s[j]
             /\ Once => \A i, j \in 1 .. Len(F[n]) :
                          i # j => F[n][i] # F[n][j]
           T == {n \in Nat : n <= N => P(n)}
<1>3. 0 \in T
  <2>1. F[0] = <<>>
    BY <1>2 DEF Keeping
  <2> QED BY <2>1, NoneIsSequence
<1>4. ASSUME NEW n \in Nat, n \in T PROVE n + 1 \in T
  <2> SUFFICES ASSUME n + 1 <= N PROVE P(n + 1)
    OBVIOUS
  <2>1. n + 1 \in 0 .. N /\ n + 1 # 0 /\ (n + 1) - 1 = n /\ n <= N
    OBVIOUS
  <2>2. F[n + 1] = Keep(s, S, n + 1, F[n])
    BY <1>2, <2>1 DEF Keeping
  <2>3. P(n)
    BY <1>4, <2>1
  <2>4. \A j \in 1 .. n + 1 : j \in 1 .. n \/ j = n + 1
    OBVIOUS
  <2>5. 1 .. n \subseteq 1 .. n + 1 /\ n + 1 \in 1 .. n + 1
        /\ 1 .. n + 1 \subseteq 1 .. N /\ n + 1 \notin 1 .. n
    OBVIOUS
  <2>6. CASE s[n + 1] \in S
    <3>1. F[n + 1] = F[n]
      BY <2>2, <2>6 DEF Keep
    <3> QED BY <2>3, <2>4, <2>5, <2>6, <3>1
  <2>7. CASE s[n + 1] \notin S
    <3>1. PICK t : t = F[n]
      OBVIOUS
    <3>2. PICK u : u = F[n + 1] /\ u = Append(t, s[n + 1])
      BY <2>2, <2>7, <3>1 DEF Keep
    <3>3. /\ IsSequence(u) /\ Len(u) = Len(t) + 1
          /\ \A i \in 1 .. Len(t) : u[i] = t[i]
          /\ u[Len(t) + 1] = s[n + 1]
          /\ \A i \in 1 .. Len(t) + 1 : i \in 1 .. Len(t) \/ i = Len(t) + 1
          /\ Len(t) \in Nat
      BY <2>3, <3>1, <3>2, AppendedIs
    <3>4. 1 .. Len(t) \subseteq 1 .. Len(t) + 1
          /\ Len(t) + 1 \in 1 .. Len(t) + 1
      BY <3>3
    <3>5. \A i \in 1 .. Len(u) : u[i] \notin S
      BY <2>3, <2>7, <3>1, <3>3
    <3>6. \A i \in 1 .. Len(u) : \E j \in 1 .. n + 1 : u[i] = s[j]
      BY <2>3, <2>5, <3>1, <3>3
    <3>7. \A j \in 1 .. n + 1 : s[j] \notin S =>
            \E i \in 1 .. Len(u) : u[i] = s[j]
      BY <2>3, <2>4, <3>1, <3>3, <3>4
    <3>8. ASSUME Once, NEW i \in 1 .. Len(u), NEW j \in 1 .. Len(u), i # j
          PROVE  u[i] # u[j]
      <4>1. CASE i \in 1 .. Len(t) /\ j \in 1 .. Len(t)
        BY <2>3, <3>1, <3>3, <3>8, <4>1
      <4>2. \A k \in 1 .. Len(t) : u[k] # s[n + 1]
        <5> SUFFICES ASSUME NEW k \in 1 .. Len(t) PROVE t[k] # s[n + 1]
          BY <3>3
        <5>1. PICK l \in 1 .. n : t[k] = s[l]
          BY <2>3, <3>1
        <5>2. l \in 1 .. N /\ n + 1 \in 1 .. N /\ l # n + 1
          BY <2>5
        <5> QED BY <3>8, <5>1, <5>2
      <4> QED BY <3>3, <3>8, <4>1, <4>2
    <3>9. Once => \A i, j \in 1 .. Len(u) : i # j => u[i] # u[j]
      BY <3>8
    <3>10. u = F[n + 1] /\ IsSequence(u)
      BY <3>2, <3>3
    <3> HIDE DEF Once
    <3> QED BY Zenon, <3>5, <3>6, <3>7, <3>9, <3>10
  <2> QED BY <2>6, <2>7
<1>5. N \in T
  <2> HIDE DEF T
  <2> QED BY <1>3, <1>4, Induction
<1> QED BY <1>1, <1>2, <1>5 DEF Distinct

-----------------------------------------------------------------------------
(* ParsedCAN                                                               *)

Parsing(ls, N, F) ==
  F = [n \in 0 .. N |->
         IF n = 0 THEN Fresh ELSE ParseCANLine(F[n - 1], ls[n])]

LEMMA ParsingExists ==
  ASSUME NEW ls, NEW N \in Nat
  PROVE  \E F : Parsing(ls, N, F)
<1> DEFINE T == {n \in Nat : \E F : Parsing(ls, n, F)}
<1>1. 0 \in T
  <2> DEFINE F == [n \in 0 .. 0 |-> Fresh]
  <2>1. F = [n \in 0 .. 0 |-> IF n = 0 THEN Fresh
                              ELSE ParseCANLine(F[n - 1], ls[n])]
    OBVIOUS
  <2>2. Parsing(ls, 0, F)
    BY <2>1 DEF Parsing
  <2> QED BY <2>2
<1>2. ASSUME NEW n \in Nat, n \in T PROVE n + 1 \in T
  <2>1. PICK F : Parsing(ls, n, F)
    BY <1>2
  <2> DEFINE H == [i \in 0 .. n + 1 |->
                     IF i = n + 1 THEN ParseCANLine(F[n], ls[n + 1])
                     ELSE F[i]]
  <2>2. ASSUME NEW i \in 0 .. n + 1
        PROVE  H[i] = IF i = 0 THEN Fresh ELSE ParseCANLine(H[i - 1], ls[i])
    <3>1. CASE i = 0
      BY <2>1, <3>1 DEF Parsing
    <3>2. CASE i = n + 1
      BY <3>2
    <3>3. CASE i # 0 /\ i # n + 1
      <4>1. i \in 0 .. n /\ i - 1 \in 0 .. n + 1 /\ i - 1 # n + 1
        BY <3>3
      <4>2. F[i] = ParseCANLine(F[i - 1], ls[i])
        BY <2>1, <3>3, <4>1 DEF Parsing
      <4> QED BY <3>3, <4>1, <4>2
    <3> QED BY <3>1, <3>2, <3>3
  <2>3. H = [i \in 0 .. n + 1 |-> H[i]]
    OBVIOUS
  <2> HIDE DEF H
  <2>4. Parsing(ls, n + 1, H)
    BY <2>2, <2>3 DEF Parsing
  <2> QED BY <2>4
<1>3. N \in T
  <2> HIDE DEF T
  <2> QED BY <1>1, <1>2, Induction
<1> QED BY <1>3

LEMMA ParsingIs ==
  ASSUME NEW ls, Len(ls) \in Nat
  PROVE  \E F : Parsing(ls, Len(ls), F) /\ ParsedCAN(ls) = F[Len(ls)]
<1> DEFINE F == CHOOSE F : Parsing(ls, Len(ls), F)
<1>1. Parsing(ls, Len(ls), F)
  <2> HIDE DEF F
  <2>1. \E G : Parsing(ls, Len(ls), G)
    BY ParsingExists
  <2> QED BY ZenonT(30), <2>1 DEF F
<1>2. ParsedCAN(ls) = F[Len(ls)]
  BY Zenon DEF ParsedCAN, Parsing
<1> HIDE DEF F
<1> QED BY <1>1, <1>2

\* One line more is one step more.
LEMMA ParsedAppend ==
  ASSUME NEW ls, IsSequence(ls), NEW l
  PROVE  /\ ParsedCAN(<<>>) = Fresh
         /\ ParsedCAN(Append(ls, l)) = ParseCANLine(ParsedCAN(ls), l)
<1>1. ParsedCAN(<<>>) = Fresh
  <2>1. Len(<<>>) = 0
    OBVIOUS
  <2>2. PICK F : Parsing(<<>>, 0, F) /\ ParsedCAN(<<>>) = F[0]
    BY <2>1, ParsingIs
  <2> QED BY <2>2 DEF Parsing
<1>2. PICK t : t = Append(ls, l)
  OBVIOUS
<1>3. PICK N \in Nat : N = Len(ls)
  BY DEF IsSequence
<1>4. Len(t) = N + 1 /\ t[N + 1] = l /\ \A i \in 1 .. N : t[i] = ls[i]
  BY <1>2, <1>3, AppendedIs
<1>5. PICK F : Parsing(ls, N, F) /\ ParsedCAN(ls) = F[N]
  BY <1>3, ParsingIs
<1>6. PICK G : Parsing(t, N + 1, G) /\ ParsedCAN(t) = G[N + 1]
  BY <1>4, ParsingIs
<1> DEFINE T == {n \in Nat : n <= N => F[n] = G[n]}
<1>7. 0 \in T
  BY <1>5, <1>6 DEF Parsing
<1>8. ASSUME NEW n \in Nat, n \in T PROVE n + 1 \in T
  <2> SUFFICES ASSUME n + 1 <= N PROVE F[n + 1] = G[n + 1]
    OBVIOUS
  <2>1. /\ n + 1 \in 0 .. N /\ n + 1 # 0 /\ (n + 1) - 1 = n
        /\ n + 1 \in 0 .. N + 1 /\ n + 1 \in 1 .. N /\ n <= N
    OBVIOUS
  <2>2. F[n + 1] = ParseCANLine(F[n], ls[n + 1])
        /\ G[n + 1] = ParseCANLine(G[n], t[n + 1])
    BY <1>5, <1>6, <2>1 DEF Parsing
  <2>3. F[n] = G[n] /\ t[n + 1] = ls[n + 1]
    BY <1>4, <1>8, <2>1
  <2> QED BY <2>2, <2>3
<1>9. N \in T
  <2> HIDE DEF T
  <2> QED BY <1>7, <1>8, Induction
<1>10. G[N + 1] = ParseCANLine(G[N], t[N + 1])
  <2>1. N + 1 \in 0 .. N + 1 /\ N + 1 # 0 /\ (N + 1) - 1 = N
    OBVIOUS
  <2> QED BY <1>6, <2>1 DEF Parsing
<1> QED BY <1>1, <1>2, <1>4, <1>5, <1>6, <1>9, <1>10

-----------------------------------------------------------------------------
(* SumOf                                                                   *)

Summing(f, N, F) ==
  F = [n \in 0 .. N |-> IF n = 0 THEN 0 ELSE F[n - 1] + f[n]]

LEMMA SummingExists ==
  ASSUME NEW f, NEW N \in Nat
  PROVE  \E F : Summing(f, N, F)
<1> DEFINE T == {n \in Nat : \E F : Summing(f, n, F)}
<1>1. 0 \in T
  <2> DEFINE F == [n \in 0 .. 0 |-> 0]
  <2>1. F = [n \in 0 .. 0 |-> IF n = 0 THEN 0
                              ELSE F[n - 1] + f[n]]
    OBVIOUS
  <2>2. Summing(f, 0, F)
    BY <2>1 DEF Summing
  <2> QED BY <2>2
<1>2. ASSUME NEW n \in Nat, n \in T PROVE n + 1 \in T
  <2>1. PICK F : Summing(f, n, F)
    BY <1>2
  <2> DEFINE H == [i \in 0 .. n + 1 |->
                     IF i = n + 1 THEN F[n] + f[n + 1]
                     ELSE F[i]]
  <2>2. ASSUME NEW i \in 0 .. n + 1
        PROVE  H[i] = IF i = 0 THEN 0 ELSE H[i - 1] + f[i]
    <3>1. CASE i = 0
      BY <2>1, <3>1 DEF Summing
    <3>2. CASE i = n + 1
      BY <3>2
    <3>3. CASE i # 0 /\ i # n + 1
      <4>1. i \in 0 .. n /\ i - 1 \in 0 .. n + 1 /\ i - 1 # n + 1
        BY <3>3
      <4>2. F[i] = F[i - 1] + f[i]
        BY <2>1, <3>3, <4>1 DEF Summing
      <4> QED BY <3>3, <4>1, <4>2
    <3> QED BY <3>1, <3>2, <3>3
  <2>3. H = [i \in 0 .. n + 1 |-> H[i]]
    OBVIOUS
  <2> HIDE DEF H
  <2>4. Summing(f, n + 1, H)
    BY <2>2, <2>3 DEF Summing
  <2> QED BY <2>4
<1>3. N \in T
  <2> HIDE DEF T
  <2> QED BY <1>1, <1>2, Induction
<1> QED BY <1>3

LEMMA SummingIs ==
  ASSUME NEW f, Len(f) \in Nat
  PROVE  \E F : Summing(f, Len(f), F) /\ SumOf(f) = F[Len(f)]
<1> DEFINE F == CHOOSE F : Summing(f, Len(f), F)
<1>1. Summing(f, Len(f), F)
  <2> HIDE DEF F
  <2>1. \E G : Summing(f, Len(f), G)
    BY SummingExists
  <2> QED BY ZenonT(30), <2>1 DEF F
<1>2. SumOf(f) = F[Len(f)]
  BY Zenon DEF SumOf, Summing
<1> HIDE DEF F
<1> QED BY <1>1, <1>2

LEMMA SumSteps ==
  ASSUME NEW f, NEW N \in Nat, NEW F, Summing(f, N, F),
         \A i \in 1 .. N : f[i] \in Nat
  PROVE  /\ F[0] = 0
         /\ \A n \in 0 .. N : F[n] \in Nat
         /\ \A n \in Nat : n + 1 <= N => F[n + 1] = F[n] + f[n + 1]
<1>1. F[0] = 0
  BY DEF Summing
<1>2. ASSUME NEW n \in Nat, n + 1 <= N PROVE F[n + 1] = F[n] + f[n + 1]
  <2>1. n + 1 \in 0 .. N /\ n + 1 # 0 /\ (n + 1) - 1 = n
    BY <1>2
  <2> QED BY <2>1 DEF Summing
<1> DEFINE T == {n \in Nat : n <= N => F[n] \in Nat}
<1>3. 0 \in T
  BY <1>1
<1>4. ASSUME NEW n \in Nat, n \in T PROVE n + 1 \in T
  <2> SUFFICES ASSUME n + 1 <= N PROVE F[n + 1] \in Nat
    OBVIOUS
  <2>1. n <= N /\ n + 1 \in 1 .. N
    OBVIOUS
  <2> QED BY <1>2, <1>4, <2>1
<1>5. Nat \subseteq T
  <2> HIDE DEF T
  <2> QED BY <1>3, <1>4, Induction
<1> QED BY <1>1, <1>2, <1>5

\* Nothing adds up to 0.
LEMMA SumOfNothing ==
  ASSUME NEW f, Len(f) \in Nat, \A i \in 1 .. Len(f) : f[i] = 0
  PROVE  SumOf(f) = 0
<1>1. PICK N \in Nat : N = Len(f)
  OBVIOUS
<1>2. PICK F : Summing(f, N, F) /\ SumOf(f) = F[N]
  BY <1>1, SummingIs
<1>3. /\ F[0] = 0
      /\ \A n \in Nat : n + 1 <= N => F[n + 1] = F[n] + f[n + 1]
  BY <1>1, <1>2, SumSteps
<1> DEFINE T == {n \in Nat : n <= N => F[n] = 0}
<1>4. 0 \in T
  BY <1>3
<1>5. ASSUME NEW n \in Nat, n \in T PROVE n + 1 \in T
  <2> SUFFICES ASSUME n + 1 <= N PROVE F[n + 1] = 0
    OBVIOUS
  <2>1. n <= N /\ n + 1 \in 1 .. N
    OBVIOUS
  <2>2. F[n] = 0 /\ f[n + 1] = 0 /\ F[n + 1] = F[n] + f[n + 1]
    BY <1>1, <1>3, <1>5, <2>1
  <2> QED BY <2>2
<1>6. N \in T
  <2> HIDE DEF T
  <2> QED BY <1>4, <1>5, Induction
<1> QED BY <1>2, <1>6

\* Sums that differ in one place.
LEMMA SumDiffers ==
  ASSUME NEW f, NEW g, NEW N \in Nat, Len(f) = N, Len(g) = N,
         \A i \in 1 .. N : f[i] \in Nat /\ g[i] \in Nat,
         NEW k \in 1 .. N, \A i \in 1 .. N : i # k => f[i] = g[i]
  PROVE  SumOf(f) \in Nat /\ SumOf(g) \in Nat
         /\ SumOf(f) + g[k] = SumOf(g) + f[k]
<1>1. PICK F : Summing(f, N, F) /\ SumOf(f) = F[N]
  BY SummingIs
<1>2. PICK G : Summing(g, N, G) /\ SumOf(g) = G[N]
  BY SummingIs
<1>3. /\ F[0] = 0 /\ \A n \in 0 .. N : F[n] \in Nat
      /\ \A n \in Nat : n + 1 <= N => F[n + 1] = F[n] + f[n + 1]
  BY <1>1, SumSteps
<1>4. /\ G[0] = 0 /\ \A n \in 0 .. N : G[n] \in Nat
      /\ \A n \in Nat : n + 1 <= N => G[n + 1] = G[n] + g[n + 1]
  BY <1>2, SumSteps
<1> DEFINE P(n) == IF n < k THEN F[n] = G[n] ELSE F[n] + g[k] = G[n] + f[k]
           T == {n \in Nat : n <= N => P(n)}
<1>5. 0 \in T
  BY <1>3, <1>4
<1>6. ASSUME NEW n \in Nat, n \in T PROVE n + 1 \in T
  <2> SUFFICES ASSUME n + 1 <= N PROVE P(n + 1)
    OBVIOUS
  <2>1. n <= N /\ n + 1 \in 1 .. N /\ n \in 0 .. N
    OBVIOUS
  <2>2. F[n + 1] = F[n] + f[n + 1] /\ G[n + 1] = G[n] + g[n + 1]
    BY <1>3, <1>4
  <2>3. P(n) /\ F[n] \in Nat /\ G[n] \in Nat
        /\ f[n + 1] \in Nat /\ g[n + 1] \in Nat
        /\ f[k] \in Nat /\ g[k] \in Nat
    BY <1>3, <1>4, <1>6, <2>1
  <2>4. n + 1 # k => f[n + 1] = g[n + 1]
    BY <2>1
  <2>5. CASE n + 1 < k
    <3>1. n < k /\ n + 1 # k
      BY <2>5
    <3> QED BY <2>2, <2>3, <2>4, <2>5, <3>1
  <2>6. CASE n + 1 = k
    <3>1. n < k /\ ~(n + 1 < k)
      BY <2>6
    <3>2. F[n] = G[n]
      BY <2>3, <3>1
    <3>3. F[n + 1] = F[n] + f[k] /\ G[n + 1] = G[n] + g[k]
      BY <2>2, <2>6
    <3>4. F[n + 1] + g[k] = G[n + 1] + f[k]
      BY <2>3, <3>2, <3>3
    <3> QED BY <3>1, <3>4
  <2>7. CASE n + 1 > k
    <3>1. ~(n < k) /\ ~(n + 1 < k) /\ n + 1 # k
      BY <2>7
    <3>2. F[n] + g[k] = G[n] + f[k]
      BY <2>3, <3>1
    <3>3. F[n + 1] = F[n] + f[n + 1] /\ G[n + 1] = G[n] + f[n + 1]
      BY <2>2, <2>4, <3>1
    <3>4. PICK a, b, c, x, y \in Nat :
            a = F[n] /\ b = G[n] /\ c = f[n + 1] /\ x = f[k] /\ y = g[k]
      BY <2>3
    <3>5. a + y = b + x => (a + c) + y = (b + c) + x
      OBVIOUS
    <3>6. F[n + 1] + g[k] = G[n + 1] + f[k]
      BY <3>2, <3>3, <3>4, <3>5
    <3> QED BY <3>1, <3>6
  <2> QED BY <2>1, <2>5, <2>6, <2>7
<1>7. N \in T
  <2> HIDE DEF T
  <2> QED BY <1>5, <1>6, Induction
<1>8. N \in 0 .. N /\ ~(N < k)
  OBVIOUS
<1> QED BY <1>1, <1>2, <1>3, <1>4, <1>7, <1>8

-----------------------------------------------------------------------------
(* SortedByEcu                                                             *)

OfEcu(rs, n) == Without(rs, {r \in ToSet(rs) : r.ecu # EcuOrder[n]})
Sorting(rs, N, F) ==
  F = [n \in 0 .. N |-> IF n = 0 THEN <<>> ELSE F[n - 1] \o OfEcu(rs, n)]

LEMMA SortingExists ==
  ASSUME NEW rs, NEW N \in Nat
  PROVE  \E F : Sorting(rs, N, F)
<1> DEFINE T == {n \in Nat : \E F : Sorting(rs, n, F)}
<1>1. 0 \in T
  <2> DEFINE F == [n \in 0 .. 0 |-> <<>>]
  <2>1. F = [n \in 0 .. 0 |-> IF n = 0 THEN <<>>
                              ELSE F[n - 1] \o OfEcu(rs, n)]
    OBVIOUS
  <2>2. Sorting(rs, 0, F)
    BY <2>1 DEF Sorting
  <2> QED BY <2>2
<1>2. ASSUME NEW n \in Nat, n \in T PROVE n + 1 \in T
  <2>1. PICK F : Sorting(rs, n, F)
    BY <1>2
  <2> DEFINE H == [i \in 0 .. n + 1 |->
                     IF i = n + 1 THEN F[n] \o OfEcu(rs, n + 1)
                     ELSE F[i]]
  <2>2. ASSUME NEW i \in 0 .. n + 1
        PROVE  H[i] = IF i = 0 THEN <<>> ELSE H[i - 1] \o OfEcu(rs, i)
    <3>1. CASE i = 0
      <4>1. 0 \in 0 .. n /\ 0 \in 0 .. n + 1 /\ 0 # n + 1
        OBVIOUS
      <4>2. F[0] = <<>>
        BY <2>1, <4>1 DEF Sorting
      <4>3. H[0] = F[0]
        BY <4>1
      <4> HIDE DEF H
      <4> QED BY <3>1, <4>2, <4>3
    <3>2. CASE i = n + 1
      <4>1. i \in 0 .. n + 1 /\ i # 0 /\ i - 1 = n /\ n \in 0 .. n + 1
            /\ n # n + 1
        BY <3>2
      <4>2. H[i] = F[n] \o OfEcu(rs, n + 1) /\ H[i - 1] = F[n]
        BY <3>2, <4>1
      <4> HIDE DEF H
      <4> QED BY <3>2, <4>1, <4>2
    <3>3. CASE i # 0 /\ i # n + 1
      <4>1. i \in 0 .. n /\ i - 1 \in 0 .. n + 1 /\ i - 1 # n + 1
        BY <3>3
      <4>2. F[i] = F[i - 1] \o OfEcu(rs, i)
        BY <2>1, <3>3, <4>1 DEF Sorting
      <4> QED BY <3>3, <4>1, <4>2
    <3> QED BY <3>1, <3>2, <3>3
  <2>3. H = [i \in 0 .. n + 1 |-> H[i]]
    OBVIOUS
  <2> HIDE DEF H
  <2>4. Sorting(rs, n + 1, H)
    BY <2>2, <2>3 DEF Sorting
  <2> QED BY <2>4
<1>3. N \in T
  <2> HIDE DEF T
  <2> QED BY <1>1, <1>2, Induction
<1> QED BY <1>3

LEMMA SortingIs ==
  ASSUME NEW rs, Len(EcuOrder) \in Nat
  PROVE  \E F : /\ Sorting(rs, Len(EcuOrder), F)
               /\ SortedByEcu(rs) = F[Len(EcuOrder)]
<1> DEFINE F == CHOOSE F : Sorting(rs, Len(EcuOrder), F)
<1>1. Sorting(rs, Len(EcuOrder), F)
  <2> HIDE DEF F
  <2>1. \E G : Sorting(rs, Len(EcuOrder), G)
    BY SortingExists
  <2> QED BY ZenonT(30), <2>1 DEF F
<1>2. SortedByEcu(rs) = F[Len(EcuOrder)]
  BY Zenon DEF SortedByEcu, Sorting, OfEcu
<1> HIDE DEF F
<1> QED BY <1>1, <1>2

LEMMA OrderIs ==
  /\ Len(EcuOrder) \in Nat /\ Ecu \subseteq Nat
  /\ \A e : e \in Ecu <=> \E n \in 1 .. Len(EcuOrder) : e = EcuOrder[n]
  /\ \A i, j \in 1 .. Len(EcuOrder) : EcuOrder[i] = EcuOrder[j] => i = j
<1>1. EcuOrder \in Seq(Nat \ {0}) /\ Ecu = ToSet(EcuOrder)
      /\ \A i, j \in 1 .. Len(EcuOrder) : i < j => EcuOrder[i] < EcuOrder[j]
  BY EcuAssumption
<1>2. Len(EcuOrder) \in Nat /\ DOMAIN EcuOrder = 1 .. Len(EcuOrder)
      /\ \A i \in 1 .. Len(EcuOrder) : EcuOrder[i] \in Nat
  BY <1>1
<1>3. Ecu = {EcuOrder[i] : i \in 1 .. Len(EcuOrder)}
  BY <1>1, <1>2 DEF ToSet
<1>4. ASSUME NEW i \in 1 .. Len(EcuOrder), NEW j \in 1 .. Len(EcuOrder),
             EcuOrder[i] = EcuOrder[j]
      PROVE  i = j
  <2>1. i < j \/ j < i \/ i = j
    BY <1>2
  <2>2. ~(EcuOrder[i] < EcuOrder[j]) /\ ~(EcuOrder[j] < EcuOrder[i])
    BY <1>2, <1>4
  <2> QED BY <1>1, <2>1, <2>2
<1> QED BY <1>2, <1>3, <1>4

LEMMA ConcatIs ==
  ASSUME NEW s, NEW t, IsSequence(s), IsSequence(t)
  PROVE  /\ IsSequence(s \o t) /\ Len(s \o t) = Len(s) + Len(t)
         /\ Len(s) \in Nat /\ Len(t) \in Nat
         /\ \A i \in 1 .. Len(s) : (s \o t)[i] = s[i]
         /\ \A i \in 1 .. Len(t) : (s \o t)[Len(s) + i] = t[i]
         /\ \A i \in 1 .. Len(s) + Len(t) :
              \/ i \in 1 .. Len(s)
              \/ \E j \in 1 .. Len(t) : i = Len(s) + j
<1>1. PICK S : s \in Seq(S)
  BY DEF IsSequence
<1>2. PICK T : t \in Seq(T)
  BY DEF IsSequence
<1>3. s \in Seq(S \cup T) /\ t \in Seq(S \cup T)
  BY <1>1, <1>2, SeqMonotonic
<1>4. Len(s) \in Nat /\ Len(t) \in Nat
  BY <1>3
<1>5. /\ s \o t \in Seq(S \cup T) /\ Len(s \o t) = Len(s) + Len(t)
      /\ \A i \in 1 .. Len(s) + Len(t) :
           (s \o t)[i] = IF i <= Len(s) THEN s[i] ELSE t[i - Len(s)]
  BY <1>3, ConcatProperties
<1>6. ASSUME NEW i \in 1 .. Len(s) PROVE (s \o t)[i] = s[i]
  BY <1>4, <1>5
<1>7. ASSUME NEW i \in 1 .. Len(t) PROVE (s \o t)[Len(s) + i] = t[i]
  <2>1. Len(s) + i \in 1 .. Len(s) + Len(t) /\ ~(Len(s) + i <= Len(s))
        /\ (Len(s) + i) - Len(s) = i
    BY <1>4
  <2> QED BY <1>5, <2>1
<1>8. ASSUME NEW i \in 1 .. Len(s) + Len(t), i \notin 1 .. Len(s)
      PROVE  \E j \in 1 .. Len(t) : i = Len(s) + j
  <2>1. i - Len(s) \in 1 .. Len(t) /\ i = Len(s) + (i - Len(s))
    BY <1>4, <1>8
  <2> QED BY <2>1
<1> QED BY <1>4, <1>5, <1>6, <1>7, <1>8 DEF IsSequence

\* What is put together of the responses of the first ECUs.
Drawn(u, rs, n) ==
  \A i \in 1 .. Len(u) : /\ \E j \in 1 .. Len(rs) : u[i] = rs[j]
                         /\ \E k \in 1 .. n : u[i].ecu = EcuOrder[k]
Covers(u, rs, n) ==
  \A j \in 1 .. Len(rs) : (\E k \in 1 .. n : rs[j].ecu = EcuOrder[k]) =>
    \E i \in 1 .. Len(u) : u[i] = rs[j]

Those(t, rs, n) ==
  /\ IsSequence(t)
  /\ \A i \in 1 .. Len(t) : /\ \E j \in 1 .. Len(rs) : t[i] = rs[j]
                            /\ t[i].ecu = EcuOrder[n]
  /\ \A j \in 1 .. Len(rs) : rs[j].ecu = EcuOrder[n] =>
       \E i \in 1 .. Len(t) : t[i] = rs[j]
  /\ Distinct(rs) => Distinct(t)

LEMMA OfEcuIs ==
  ASSUME NEW rs, IsSequence(rs), NEW n
  PROVE  Those(OfEcu(rs, n), rs, n)
<1>0. PICK t : t = OfEcu(rs, n)
  OBVIOUS
<1>1. PICK S : S = {r \in ToSet(rs) : r.ecu # EcuOrder[n]}
  OBVIOUS
<1>2. t = Without(rs, S)
  BY <1>0, <1>1 DEF OfEcu
<1>3. \A j \in 1 .. Len(rs) :
        rs[j] \notin S <=> rs[j].ecu = EcuOrder[n]
  <2>1. PICK X : rs \in Seq(X)
    BY DEF IsSequence
  <2>2. DOMAIN rs = 1 .. Len(rs)
    BY <2>1
  <2> QED BY <1>1, <2>2 DEF ToSet
<1>4. /\ IsSequence(Without(rs, S))
      /\ \A i \in 1 .. Len(Without(rs, S)) : Without(rs, S)[i] \notin S
      /\ \A i \in 1 .. Len(Without(rs, S)) :
           \E j \in 1 .. Len(rs) : Without(rs, S)[i] = rs[j]
      /\ \A j \in 1 .. Len(rs) : rs[j] \notin S =>
           \E i \in 1 .. Len(Without(rs, S)) : Without(rs, S)[i] = rs[j]
      /\ Distinct(rs) => Distinct(Without(rs, S))
  BY ZenonT(30), WithoutIs
<1>5. /\ IsSequence(t)
      /\ \A i \in 1 .. Len(t) : t[i] \notin S
      /\ \A i \in 1 .. Len(t) : \E j \in 1 .. Len(rs) : t[i] = rs[j]
      /\ \A j \in 1 .. Len(rs) : rs[j] \notin S =>
           \E i \in 1 .. Len(t) : t[i] = rs[j]
      /\ Distinct(rs) => Distinct(t)
  BY Zenon, <1>2, <1>4
<1>6. Those(t, rs, n)
  <2>1. \A i \in 1 .. Len(t) : /\ \E j \in 1 .. Len(rs) : t[i] = rs[j]
                               /\ t[i].ecu = EcuOrder[n]
    <3> TAKE i \in 1 .. Len(t)
    <3>1. PICK j \in 1 .. Len(rs) : t[i] = rs[j]
      BY <1>5
    <3> QED BY <1>3, <1>5, <3>1
  <2>2. \A j \in 1 .. Len(rs) : rs[j].ecu = EcuOrder[n] =>
          \E i \in 1 .. Len(t) : t[i] = rs[j]
    BY <1>3, <1>5
  <2> QED BY <1>5, <2>1, <2>2 DEF Those
<1> QED BY <1>0, <1>6

LEMMA SortedStep ==
  ASSUME NEW rs, IsSequence(rs), NEW n \in Nat, n + 1 <= Len(EcuOrder),
         NEW s, IsSequence(s), Drawn(s, rs, n), Covers(s, rs, n),
         Distinct(rs) => Distinct(s),
         NEW u, u = s \o OfEcu(rs, n + 1)
  PROVE  /\ IsSequence(u) /\ Drawn(u, rs, n + 1) /\ Covers(u, rs, n + 1)
         /\ Distinct(rs) => Distinct(u)
<1>1. PICK t : t = OfEcu(rs, n + 1)
  OBVIOUS
<1>2. /\ IsSequence(t)
      /\ \A i \in 1 .. Len(t) : /\ \E j \in 1 .. Len(rs) : t[i] = rs[j]
                                /\ t[i].ecu = EcuOrder[n + 1]
      /\ \A j \in 1 .. Len(rs) : rs[j].ecu = EcuOrder[n + 1] =>
           \E i \in 1 .. Len(t) : t[i] = rs[j]
      /\ Distinct(rs) => Distinct(t)
  <2>1. Those(t, rs, n + 1)
    BY <1>1, OfEcuIs
  <2> QED BY <2>1 DEF Those
<1>3. /\ IsSequence(u) /\ Len(u) = Len(s) + Len(t)
      /\ Len(s) \in Nat /\ Len(t) \in Nat
      /\ \A i \in 1 .. Len(s) : u[i] = s[i]
      /\ \A i \in 1 .. Len(t) : u[Len(s) + i] = t[i]
      /\ \A i \in 1 .. Len(s) + Len(t) :
           \/ i \in 1 .. Len(s)
           \/ \E j \in 1 .. Len(t) : i = Len(s) + j
  <2>1. IsSequence(s) /\ IsSequence(t) /\ u = s \o t
    BY <1>1, <1>2
  <2>2. /\ IsSequence(s \o t) /\ Len(s \o t) = Len(s) + Len(t)
        /\ Len(s) \in Nat /\ Len(t) \in Nat
        /\ \A i \in 1 .. Len(s) : (s \o t)[i] = s[i]
        /\ \A i \in 1 .. Len(t) : (s \o t)[Len(s) + i] = t[i]
        /\ \A i \in 1 .. Len(s) + Len(t) :
             \/ i \in 1 .. Len(s)
             \/ \E j \in 1 .. Len(t) : i = Len(s) + j
    BY ZenonT(30), <2>1, ConcatIs
  <2> QED BY Zenon, <2>1, <2>2
<1>4. /\ \A i \in 1 .. Len(s) : i \in 1 .. Len(u)
      /\ \A i \in 1 .. Len(t) : Len(s) + i \in 1 .. Len(u)
  BY <1>3
<1>5. /\ \A k \in 1 .. n + 1 : (k \in 1 .. n \/ k = n + 1)
      /\ \A k \in 1 .. n : k \in 1 .. n + 1 /\ k # n + 1
                           /\ k \in 1 .. Len(EcuOrder)
      /\ n + 1 \in 1 .. n + 1 /\ n + 1 \in 1 .. Len(EcuOrder)
  BY OrderIs
<1>6. Drawn(u, rs, n + 1)
  <2> SUFFICES ASSUME NEW i \in 1 .. Len(u)
               PROVE  /\ \E j \in 1 .. Len(rs) : u[i] = rs[j]
                      /\ \E k \in 1 .. n + 1 : u[i].ecu = EcuOrder[k]
    BY DEF Drawn
  <2>1. CASE i \in 1 .. Len(s)
    <3>1. PICK k \in 1 .. n : s[i].ecu = EcuOrder[k]
      BY <2>1 DEF Drawn
    <3>2. u[i] = s[i] /\ k \in 1 .. n + 1
      BY <1>3, <1>5, <2>1
    <3>3. \E j \in 1 .. Len(rs) : s[i] = rs[j]
      BY <2>1 DEF Drawn
    <3> QED BY <3>1, <3>2, <3>3
  <2>2. CASE i \notin 1 .. Len(s)
    <3>1. PICK j \in 1 .. Len(t) : i = Len(s) + j
      BY <1>3, <2>2
    <3>2. u[i] = t[j]
      BY <1>3, <3>1
    <3>3. t[j].ecu = EcuOrder[n + 1] /\ n + 1 \in 1 .. n + 1
          /\ \E l \in 1 .. Len(rs) : t[j] = rs[l]
      BY <1>2, <1>5
    <3> QED BY <3>2, <3>3
  <2> QED BY <2>1, <2>2
<1>7. Covers(u, rs, n + 1)
  <2> SUFFICES ASSUME NEW j \in 1 .. Len(rs), NEW k \in 1 .. n + 1,
                      rs[j].ecu = EcuOrder[k]
               PROVE  \E i \in 1 .. Len(u) : u[i] = rs[j]
    BY DEF Covers
  <2>1. CASE k = n + 1
    <3>1. PICK i \in 1 .. Len(t) : t[i] = rs[j]
      BY <1>2, <2>1
    <3> QED BY <1>3, <1>4, <3>1
  <2>2. CASE k \in 1 .. n
    <3>1. PICK i \in 1 .. Len(s) : s[i] = rs[j]
      BY <2>2 DEF Covers
    <3> QED BY <1>3, <1>4, <3>1
  <2> QED BY <1>5, <2>1, <2>2
<1>8. ASSUME Distinct(rs), NEW i \in 1 .. Len(u), NEW j \in 1 .. Len(u),
             i # j
      PROVE  u[i] # u[j]
  <2>1. ASSUME NEW k \in 1 .. Len(s), NEW l \in 1 .. Len(t)
        PROVE  s[k] # t[l]
    <3>1. PICK m \in 1 .. n : s[k].ecu = EcuOrder[m]
      BY DEF Drawn
    <3>2. t[l].ecu = EcuOrder[n + 1]
      BY <1>2
    <3>3. EcuOrder[m] # EcuOrder[n + 1]
      BY <1>5, OrderIs
    <3> QED BY <3>1, <3>2, <3>3
  <2>2. CASE i \in 1 .. Len(s) /\ j \in 1 .. Len(s)
    BY <1>3, <1>8, <2>2 DEF Distinct
  <2>3. CASE i \notin 1 .. Len(s) /\ j \notin 1 .. Len(s)
    <3>1. PICK k \in 1 .. Len(t) : i = Len(s) + k
      BY <1>3, <2>3
    <3>2. PICK l \in 1 .. Len(t) : j = Len(s) + l
      BY <1>3, <2>3
    <3>3. k # l
      BY <1>8, <3>1, <3>2
    <3>4. t[k] # t[l]
      BY <1>2, <1>8, <3>3 DEF Distinct
    <3> QED BY <1>3, <3>1, <3>2, <3>4
  <2>4. CASE i \in 1 .. Len(s) /\ j \notin 1 .. Len(s)
    <3>1. PICK l \in 1 .. Len(t) : j = Len(s) + l
      BY <1>3, <2>4
    <3> QED BY <1>3, <2>1, <2>4, <3>1
  <2>5. CASE i \notin 1 .. Len(s) /\ j \in 1 .. Len(s)
    <3>1. PICK l \in 1 .. Len(t) : i = Len(s) + l
      BY <1>3, <2>5
    <3>2. s[j] # t[l]
      BY <2>1, <2>5
    <3> QED BY <1>3, <2>5, <3>1, <3>2
  <2> QED BY <2>2, <2>3, <2>4, <2>5
<1>9. Distinct(rs) => Distinct(u)
  BY <1>8 DEF Distinct
<1> QED BY <1>3, <1>6, <1>7, <1>9

\* Nothing is lost, added or doubled by sorting.
LEMMA SortedIs ==
  ASSUME NEW rs, IsSequence(rs), \A i \in 1 .. Len(rs) : rs[i].ecu \in Ecu
  PROVE  /\ IsSequence(SortedByEcu(rs))
         /\ \A i \in 1 .. Len(SortedByEcu(rs)) :
              \E j \in 1 .. Len(rs) : SortedByEcu(rs)[i] = rs[j]
         /\ \A j \in 1 .. Len(rs) :
              \E i \in 1 .. Len(SortedByEcu(rs)) : SortedByEcu(rs)[i] = rs[j]
         /\ Distinct(rs) => Distinct(SortedByEcu(rs))
<1>1. PICK N \in Nat : N = Len(EcuOrder)
  BY OrderIs
<1>2. PICK F : Sorting(rs, N, F) /\ SortedByEcu(rs) = F[N]
  BY <1>1, SortingIs
<1> DEFINE P(n) == /\ IsSequence(F[n]) /\ Drawn(F[n], rs, n)
                   /\ Covers(F[n], rs, n) /\ (Distinct(rs) => Distinct(F[n]))
           T == {n \in Nat : n <= N => P(n)}
<1>3. 0 \in T
  <2>1. F[0] = <<>>
    BY <1>2 DEF Sorting
  <2>2. Drawn(<<>>, rs, 0) /\ Covers(<<>>, rs, 0) /\ Distinct(<<>>)
    BY NoneIsSequence DEF Drawn, Covers, Distinct
  <2> QED BY <2>1, <2>2, NoneIsSequence
<1>4. ASSUME NEW n \in Nat, n \in T PROVE n + 1 \in T
  <2> SUFFICES ASSUME n + 1 <= N PROVE P(n + 1)
    OBVIOUS
  <2>1. n + 1 \in 0 .. N /\ n + 1 # 0 /\ (n + 1) - 1 = n /\ n <= N
    OBVIOUS
  <2>2. F[n + 1] = F[n] \o OfEcu(rs, n + 1)
    BY <1>2, <2>1 DEF Sorting
  <2>3. P(n)
    BY <1>4, <2>1
  <2>4. PICK s, u : s = F[n] /\ u = F[n + 1]
    OBVIOUS
  <2> QED BY <1>1, <2>2, <2>3, <2>4, SortedStep
<1>5. P(N)
  <2>1. N \in T
    <3> HIDE DEF T
    <3> QED BY <1>3, <1>4, Induction
  <2> QED BY <2>1
<1>6. PICK s : s = SortedByEcu(rs) /\ s = F[N]
  BY <1>2
<1>7. \A j \in 1 .. Len(rs) : \E i \in 1 .. Len(s) : s[i] = rs[j]
  BY <1>1, <1>5, <1>6, OrderIs DEF Covers
<1> QED BY <1>5, <1>6, <1>7 DEF Drawn

-----------------------------------------------------------------------------
(* Frames                                                                  *)

\* Messages of more than one frame, and a Receiver that has their first k.
Long(m) == m.len > SFMax
Held(r, m, k) ==
  /\ k \in 1 .. Len(Split(m)) - 1 /\ FFData + CFData * (k - 1) < m.len
  /\ r = [active |-> TRUE, want |-> m.len, got |-> FFData + CFData * (k - 1),
          parts |-> [i \in 1 .. k |-> Split(m)[i]], seq |-> k % SeqNumbers,
          inBlock |-> r.inBlock]

LEMMA Remainder ==
  ASSUME NEW n \in Nat, n > 1, NEW q \in Int, NEW r \in 0 .. n - 1
  PROVE  (n * q + r) % n = r
OBVIOUS

LEMMA NextRemainder ==
  ASSUME NEW n \in Nat, n > 1, NEW k \in Nat
  PROVE  ((k % n) + 1) % n = (k + 1) % n
<1>1. k % n \in 0 .. n - 1 /\ k \div n \in Int
  OBVIOUS
<1>2. k = n * (k \div n) + (k % n)
  OBVIOUS
<1>3. PICK q \in Int, r \in 0 .. n - 1 : k = n * q + r /\ r = k % n
  BY <1>1, <1>2
<1>4. CASE r + 1 < n
  <2>1. (n * q + (r + 1)) % n = r + 1 /\ (n * 0 + (r + 1)) % n = r + 1
    <3>1. r + 1 \in 0 .. n - 1
      BY <1>4
    <3> QED BY <3>1, Remainder
  <2>2. k + 1 = n * q + (r + 1)
    BY <1>3
  <2> QED BY <1>3, <2>1, <2>2
<1>5. CASE r + 1 = n
  <2>1. (n * (q + 1) + 0) % n = 0 /\ n % n = 0
    OBVIOUS
  <2>2. k + 1 = n * (q + 1) + 0
    BY <1>3, <1>5
  <2> QED BY <1>3, <1>5, <2>1, <2>2
<1> QED BY <1>3, <1>4, <1>5

LEMMA Quotient ==
  ASSUME NEW len \in Nat, NEW c \in Nat,
         FFData + CFData * (c - 1) < len, len <= FFData + CFData * c, c > 0
  PROVE  (len - FFData + CFData - 1) \div CFData = c
BY DEF FFData, CFData

LEMMA EnoughParts ==
  ASSUME NEW len \in Nat, NEW c \in Nat, c > 0,
         FFData + CFData * (c - 1) < len
  PROVE  (len - FFData + CFData - 1) \div CFData >= c
BY DEF FFData, CFData

\* The parts of a message of more than one frame.
LEMMA SplitIs ==
  ASSUME NEW m, m.len \in Nat, Long(m)
  PROVE  LET s == Split(m)
         IN /\ Len(s) = 1 + ((m.len - FFData + CFData - 1) \div CFData)
            /\ Len(s) \in Nat /\ Len(s) > 1 /\ DOMAIN s = 1 .. Len(s)
            /\ s = [k \in 1 .. Len(s) |-> s[k]]
            /\ s[1] = Part(m, 0, FFData)
            /\ \A k \in 2 .. Len(s) :
                 LET off == FFData + CFData * (k - 2)
                 IN s[k] = Part(m, off, Lesser(m.len - off, CFData))
<1>1. PICK c \in Nat : c = (m.len - FFData + CFData - 1) \div CFData
                       /\ c > 0
  BY DEF FFData, CFData, SFMax, Long
<1> DEFINE P(k) == LET off == FFData + CFData * (k - 1)
                   IN Part(m, off, Lesser(m.len - off, CFData))
           t == [k \in 1 .. c |-> P(k)]
           x == Part(m, 0, FFData)
<1>2. Split(m) = <<x>> \o t
  <2>1. Split(m) = <<Part(m, 0, FFData)>> \o
          [k \in 1 .. (m.len - FFData + CFData - 1) \div CFData |->
            LET off == FFData + CFData * (k - 1)
            IN Part(m, off, Lesser(m.len - off, CFData))]
    <3>1. ~(m.len <= SFMax)
      BY DEF SFMax, Long
    <3> QED BY <3>1 DEF Split
  <2> QED BY <1>1, <2>1
<1>3. t \in Seq({P(k) : k \in 1 .. c}) /\ Len(t) = c
  <2> HIDE DEF P
  <2>1. t \in [1 .. c -> {P(k) : k \in 1 .. c}]
    OBVIOUS
  <2>2. \A S : \A u \in [1 .. c -> S] : u \in Seq(S) /\ Len(u) = c
    OBVIOUS
  <2> QED BY <2>1, <2>2
<1>4. \A k \in 2 .. 1 + c : t[k - 1] = P(k - 1)
  OBVIOUS
<1> HIDE DEF P, x, t
<1>5. \A S : \A u \in Seq(S) : \A y \in S :
        LET s == <<y>> \o u
        IN /\ Len(s) = 1 + Len(u) /\ s \in Seq(S)
           /\ s[1] = y
           /\ \A k \in 2 .. Len(s) : s[k] = u[k - 1]
  OBVIOUS
<1>6. x \in {P(k) : k \in 1 .. c} \cup {x}
      /\ t \in Seq({P(k) : k \in 1 .. c} \cup {x})
  BY <1>3
<1>7. PICK s : s = <<x>> \o t
  OBVIOUS
<1>8. /\ Len(s) = 1 + c /\ s \in Seq({P(k) : k \in 1 .. c} \cup {x})
      /\ s[1] = x
      /\ \A k \in 2 .. Len(s) : s[k] = t[k - 1]
  BY <1>3, <1>5, <1>6, <1>7
<1>9. DOMAIN s = 1 .. Len(s) /\ Len(s) \in Nat
      /\ s = [k \in 1 .. Len(s) |-> s[k]] /\ Len(s) > 1
  BY <1>1, <1>8
<1>10. s[1] = Part(m, 0, FFData)
  BY <1>8 DEF x
<1>11. ASSUME NEW k \in 2 .. Len(s)
       PROVE  LET off == FFData + CFData * (k - 2)
              IN s[k] = Part(m, off, Lesser(m.len - off, CFData))
  <2>1. s[k] = P(k - 1) /\ (k - 1) - 1 = k - 2
    BY <1>4, <1>8
  <2> QED BY <2>1 DEF P
<1> QED BY <1>1, <1>2, <1>7, <1>8, <1>9, <1>10, <1>11

\* The frames of a message of more than one frame.
LEMMA FramesOfLong ==
  ASSUME NEW a, a.len \in Nat, Long(a)
  PROVE  /\ Len(Frames(a)) = Len(Split(a))
         /\ Frames(a)[1] = FirstFrame(a, a.len, FALSE)
         /\ \A k \in 2 .. Len(Split(a)) :
              Frames(a)[k] = ConsecutiveFrame(a, FFData + CFData * (k - 2),
                                              (k - 1) % SeqNumbers)
<1>1. PICK s : s = Split(a)
  OBVIOUS
<1>2. Len(s) \in Nat /\ Len(s) > 1 /\ DOMAIN s = 1 .. Len(s)
  BY <1>1, SplitIs
<1>3. ASSUME NEW k \in 2 .. Len(s)
      PROVE  s[k].off = FFData + CFData * (k - 2)
  <2>1. PICK off : off = FFData + CFData * (k - 2)
    OBVIOUS
  <2>2. s[k] = Part(a, off, Lesser(a.len - off, CFData))
    BY <1>1, <2>1, SplitIs
  <2> QED BY <2>1, <2>2 DEF Part
<1> DEFINE F(k) == IF k = 1 THEN FirstFrame(a, a.len, FALSE)
                   ELSE ConsecutiveFrame(a, s[k].off, (k - 1) % SeqNumbers)
           fs == [k \in 1 .. Len(s) |-> F(k)]
<1>4. Frames(a) = fs
  <2>1. Len(s) # 1
    BY <1>2
  <2> QED BY <1>1, <1>2, <2>1 DEF Frames
<1>5. F(1) = FirstFrame(a, a.len, FALSE)
  OBVIOUS
<1>6. ASSUME NEW k \in 2 .. Len(s)
      PROVE  F(k) = ConsecutiveFrame(a, FFData + CFData * (k - 2),
                                     (k - 1) % SeqNumbers)
  <2>1. k # 1
    BY <1>2
  <2>2. s[k].off = FFData + CFData * (k - 2)
    BY <1>3
  <2>3. F(k) = ConsecutiveFrame(a, s[k].off, (k - 1) % SeqNumbers)
    BY <2>1
  <2> HIDE DEF F
  <2> QED BY <2>2, <2>3
<1> HIDE DEF F
<1>7. Len(fs) = Len(s) /\ fs[1] = F(1)
      /\ \A k \in 2 .. Len(s) : fs[k] = F(k)
  BY <1>2
<1> QED BY <1>1, <1>4, <1>5, <1>6, <1>7

LEMMA FramesOfShort ==
  ASSUME NEW a, a.len \in Nat \ {0}, ~Long(a)
  PROVE  /\ Split(a) = <<Part(a, 0, a.len)>> /\ a.len \in 1 .. SFMax
         /\ Frames(a)[1] = SingleFrame(a, a.len) /\ Len(Frames(a)) = 1
<1>1. Split(a) = <<Part(a, 0, a.len)>> /\ a.len \in 1 .. SFMax
  BY DEF Long, Split, SFMax
<1>2. \A x : Len(<<x>>) = 1 /\ DOMAIN <<x>> = 1 .. 1
  OBVIOUS
<1>3. Frames(a) = [k \in 1 .. 1 |-> SingleFrame(a, a.len)]
  BY <1>1, <1>2 DEF Frames
<1>4. \A x : Len([k \in 1 .. 1 |-> x]) = 1 /\ [k \in 1 .. 1 |-> x][1] = x
  OBVIOUS
<1> QED BY <1>1, <1>3, <1>4

LEMMA SequenceNumbers == SeqNumbers \in Nat /\ SeqNumbers > 1
                           /\ 1 % SeqNumbers = 1
<1>1. SeqNumbers \in Nat /\ SeqNumbers > 1
  BY SeqNumbersAssumption
<1> QED BY <1>1

LEMMA NewIsIdle == ~NewReceiver.active
BY DEF NewReceiver

LEMMA FeedBegins ==
  ASSUME NEW r, NEW a, a.len \in Nat, Long(a)
  PROVE  LET fed == Feed(r, Frames(a)[1])
         IN /\ fed.err = "nil" /\ fed.msg = NoMessage /\ Held(fed.r, a, 1)
            /\ fed.fc = FlowControl("continue", BlockSize)
<1>1. PICK f : f = Frames(a)[1]
  OBVIOUS
<1>2. f.pci = "FF" /\ f.msg = a /\ f.len = a.len /\ ~f.short
  <2>1. f = FirstFrame(a, a.len, FALSE)
    BY <1>1, FramesOfLong
  <2> QED BY <2>1 DEF FirstFrame
<1>3. PICK b : b = [active |-> TRUE, want |-> f.len, got |-> FFData,
                    parts |-> <<Part(f.msg, 0, FFData)>>, seq |-> 1,
                    inBlock |-> 0]
  OBVIOUS
<1>4. Feed(r, f) = Fed(b, FlowControl("continue", BlockSize), NoMessage,
                       "nil")
  <2>1. ~(f.len = 0) /\ ~(f.len < FrameLen)
    BY <1>2 DEF SFMax, FrameLen, Long
  <2> QED BY <1>2, <1>3, <2>1 DEF Feed, FeedFirst
<1>5. Held(b, a, 1)
  <2>1. /\ 1 \in 1 .. Len(Split(a)) - 1 /\ Split(a)[1] = Part(a, 0, FFData)
        /\ FFData + CFData * (1 - 1) = FFData /\ FFData < a.len
    BY SplitIs DEF FFData, CFData, SFMax, Long
  <2>2. \A x : <<x>> = [i \in 1 .. 1 |-> x]
    OBVIOUS
  <2>3. [i \in 1 .. 1 |-> Split(a)[i]] = [i \in 1 .. 1 |-> Split(a)[1]]
    OBVIOUS
  <2>4. b.parts = [i \in 1 .. 1 |-> Split(a)[i]] /\ b.seq = 1 % SeqNumbers
    BY <1>2, <1>3, <2>1, <2>2, <2>3, SequenceNumbers
  <2> QED BY <1>2, <1>3, <2>1, <2>4 DEF Held
<1> QED BY <1>1, <1>4, <1>5 DEF Fed

\* The next consecutive frame goes on with it, and the last completes it.
LEMMA FeedContinues ==
  ASSUME NEW r, NEW a, a.len \in Nat, Long(a), NEW k \in Nat,
         k + 1 \in 2 .. Len(Split(a)), Held(r, a, k)
  PROVE  LET fed == Feed(r, Frames(a)[k + 1])
         IN /\ fed.err = "nil"
            /\ \/ /\ k + 1 # Len(Split(a)) /\ fed.msg = NoMessage
                  /\ Held(fed.r, a, k + 1)
               \/ /\ k + 1 = Len(Split(a)) /\ fed.r = NewReceiver
                  /\ fed.fc = NoFrame /\ fed.msg # NoMessage
                  /\ fed.msg = [len |-> a.len, parts |-> Split(a)]
<1>1. PICK s : s = Split(a)
  OBVIOUS
<1>2. PICK off \in Nat : off = FFData + CFData * (k - 1) /\ off < a.len
  BY DEF Held, FFData, CFData
<1>3. /\ Len(s) \in Nat /\ s = [i \in 1 .. Len(s) |-> s[i]]
      /\ Len(s) = 1 + ((a.len - FFData + CFData - 1) \div CFData)
      /\ k \in 1 .. Len(s) - 1 /\ k + 1 \in 2 .. Len(s)
  BY <1>1, SplitIs DEF Held
<1>4. PICK take : take = Lesser(a.len - off, CFData)
  OBVIOUS
<1>5. s[k + 1] = Part(a, off, take)
  <2>1. PICK l \in 2 .. Len(s) : l = k + 1 /\ l - 2 = k - 1
    BY <1>3
  <2>2. s[l] = Part(a, off, take)
    BY <1>1, <1>2, <1>4, <2>1, SplitIs
  <2> QED BY <2>1, <2>2
<1>6. PICK f : f = Frames(a)[k + 1]
  OBVIOUS
<1>7. f.pci = "CF" /\ f.msg = a /\ f.off = off /\ f.sn = k % SeqNumbers
  <2>1. PICK l \in 2 .. Len(s) : l = k + 1 /\ l - 2 = k - 1 /\ l - 1 = k
    BY <1>3
  <2>2. f = ConsecutiveFrame(a, off, k % SeqNumbers)
    BY <1>1, <1>2, <1>6, <2>1, FramesOfLong
  <2> QED BY <2>2 DEF ConsecutiveFrame
<1>8. PICK b : b = r.inBlock
  OBVIOUS
<1>9. r = [active |-> TRUE, want |-> a.len, got |-> off,
           parts |-> [i \in 1 .. k |-> s[i]], seq |-> k % SeqNumbers,
           inBlock |-> b]
  BY <1>1, <1>2, <1>8 DEF Held
<1>10. PICK parts : parts = Append(r.parts, Part(a, off, take))
  OBVIOUS
<1>11. parts = [i \in 1 .. k + 1 |-> s[i]]
  <2> DEFINE u == [i \in 1 .. k |-> s[i]]
  <2>1. PICK S : S = {s[i] : i \in 1 .. Len(s)}
    OBVIOUS
  <2>2. s[k + 1] \in S /\ u \in [1 .. k -> S]
    BY <1>3, <2>1
  <2>3. \A v \in [1 .. k -> S] : v \in Seq(S) /\ Len(v) = k
    OBVIOUS
  <2>4. \A i \in 1 .. k : u[i] = s[i]
    OBVIOUS
  <2>5. parts = Append(u, s[k + 1])
    BY <1>5, <1>9, <1>10
  <2> HIDE DEF u
  <2>6. u \in Seq(S) /\ Len(u) = k
    BY <2>2, <2>3
  <2>7. /\ parts \in Seq(S) /\ Len(parts) = k + 1
        /\ parts[k + 1] = s[k + 1]
        /\ \A i \in 1 .. k : parts[i] = u[i]
    BY <2>2, <2>5, <2>6, AppendProperties
  <2>8. \A i \in 1 .. k + 1 : i \in 1 .. k \/ i = k + 1
    BY <1>3
  <2>9. \A i \in 1 .. k + 1 : parts[i] = s[i]
    BY <2>4, <2>7, <2>8
  <2>10. parts = [i \in 1 .. Len(parts) |-> parts[i]]
    BY <2>7
  <2> QED BY <2>7, <2>9, <2>10
<1>12. PICK next : next = [r EXCEPT !.got = off + take, !.parts = parts,
                                    !.seq = (r.seq + 1) % SeqNumbers,
                                    !.inBlock = InBlockAfter(r)]
  OBVIOUS
<1>13. Feed(r, f) = IF off + take >= a.len
            THEN Fed(NewReceiver, NoFrame, [len |-> a.len, parts |-> parts],
                     "nil")
            ELSE IF BlockSize > 0 /\ next.inBlock = 0
            THEN Fed(next, FlowControl("continue", BlockSize), NoMessage,
                     "nil")
            ELSE Ignore(next)
  <2>1. Feed(r, f) = FeedConsecutive(r, f)
    BY <1>7 DEF Feed
  <2>2. r.active /\ InSequence(r, f) /\ r.want = a.len /\ r.got = off
    BY <1>7, <1>9 DEF InSequence
  <2> QED BY <1>4, <1>7, <1>10, <1>12, <2>1, <2>2 DEF FeedConsecutive
<1>14. CASE off + take >= a.len
  <2>1. a.len <= FFData + CFData * k
    BY <1>2, <1>4, <1>14 DEF Lesser, FFData, CFData
  <2>2. Len(s) = k + 1
    BY <1>2, <1>3, <2>1, Quotient
  <2>3. parts = s
    BY <1>3, <1>11, <2>2
  <2>4. a.len # 0 /\ NoMessage.len = 0
    BY DEF Long, SFMax, NoMessage
  <2> QED BY <1>1, <1>6, <1>13, <1>14, <2>2, <2>3, <2>4 DEF Fed
<1>15. CASE ~(off + take >= a.len)
  <2>1. off + take = FFData + CFData * ((k + 1) - 1)
        /\ FFData + CFData * ((k + 1) - 1) < a.len
    BY <1>2, <1>4, <1>15 DEF Lesser, FFData, CFData
  <2>2. k + 1 # Len(s) /\ k + 1 \in 1 .. Len(s) - 1
    <3>1. (a.len - FFData + CFData - 1) \div CFData >= k + 1
      BY <1>3, <2>1, EnoughParts
    <3>2. (a.len - FFData + CFData - 1) \div CFData \in Int
      BY DEF FFData, CFData
    <3> QED BY <1>3, <3>1, <3>2
  <2>3. r.seq = k % SeqNumbers
        /\ (r.seq + 1) % SeqNumbers = (k + 1) % SeqNumbers
    BY <1>9, NextRemainder, SequenceNumbers
  <2>4. next = [active |-> TRUE, want |-> a.len, got |-> off + take,
                parts |-> parts, seq |-> (k + 1) % SeqNumbers,
                inBlock |-> next.inBlock]
    BY <1>9, <1>12, <2>3
  <2>5. Held(next, a, k + 1)
    BY <1>1, <1>11, <2>1, <2>2, <2>4 DEF Held
  <2>6. Feed(r, f).err = "nil" /\ Feed(r, f).msg = NoMessage
        /\ Feed(r, f).r = next
    BY <1>13, <1>15 DEF Fed, Ignore
  <2> QED BY <1>1, <1>6, <2>2, <2>5, <2>6
<1> QED BY <1>14, <1>15

Zero(m) == [m EXCEPT !.body = [i \in DOMAIN @ |-> 0]]

LEMMA ContentIs ==
  ASSUME NEW m, NEW x
  PROVE  /\ x.parts[1].msg = m => Content(x) \in {m, Zero(m)}
         /\ x.parts[1].msg = m /\ x.parts = Split(m) => Content(x) = m
BY DEF Content, Zero

LEMMA FirstPart ==
  ASSUME NEW m, m.len \in Nat \ {0}
  PROVE  Split(m)[1].msg = m
<1>1. CASE Long(m)
  <2>1. Split(m)[1] = Part(m, 0, FFData)
    BY <1>1, SplitIs
  <2> QED BY <2>1 DEF Part
<1>2. CASE ~Long(m)
  <2>1. Split(m) = <<Part(m, 0, m.len)>>
    BY <1>2, FramesOfShort
  <2> QED BY <2>1 DEF Part
<1> QED BY <1>1, <1>2

LEMMA FeedWhole ==
  ASSUME NEW r, NEW m, m.len \in Nat \ {0}, ~Long(m),
         NEW fed, fed = Feed(r, Frames(m)[1])
  PROVE  /\ fed.err = "nil" /\ fed.r = NewReceiver
         /\ fed.msg # NoMessage /\ Content(fed.msg) = m
<1>1. PICK f : f = Frames(m)[1] /\ f = SingleFrame(m, m.len)
  BY FramesOfShort
<1>2. f.pci = "SF" /\ f.msg = m /\ f.len = m.len /\ f.len \in 1 .. SFMax
  BY <1>1, FramesOfShort DEF SingleFrame
<1>3. PICK x : x = [len |-> f.len, parts |-> <<Part(f.msg, 0, f.len)>>]
  OBVIOUS
<1>4. fed = Fed(NewReceiver, NoFrame, x, "nil")
  BY <1>1, <1>2, <1>3 DEF Feed, FeedSingle
<1>5. x.len # 0 /\ NoMessage.len = 0
  BY <1>2, <1>3 DEF NoMessage
<1>6. x.parts = Split(m) /\ x.parts[1].msg = m
  <2>1. x.parts = <<Part(m, 0, m.len)>>
    BY <1>2, <1>3
  <2>2. Split(m) = <<Part(m, 0, m.len)>>
    BY FramesOfShort
  <2> QED BY <2>1, <2>2, FirstPart
<1>7. Content(x) = m
  BY <1>6, ContentIs
<1> QED BY <1>4, <1>5, <1>7 DEF Fed

\* A frame that comes when those before it came.
LEMMA FeedInOrder ==
  ASSUME NEW r, NEW m, m.len \in Nat \ {0}, NEW k \in Nat,
         k < Len(Frames(m)), k > 0 => Held(r, m, k),
         NEW fed, fed = Feed(r, Frames(m)[k + 1])
  PROVE  /\ fed.err = "nil"
         /\ k + 1 < Len(Frames(m)) =>
              fed.msg = NoMessage /\ Held(fed.r, m, k + 1)
         /\ ~(k + 1 < Len(Frames(m))) =>
              fed.msg # NoMessage /\ Content(fed.msg) = m
<1>1. CASE ~Long(m)
  <2>1. Len(Frames(m)) = 1
    BY <1>1, FramesOfShort
  <2>2. k = 0 /\ k + 1 = 1 /\ ~(k + 1 < Len(Frames(m)))
    BY <2>1
  <2>3. fed = Feed(r, Frames(m)[1])
    BY <2>2
  <2> QED BY <1>1, <2>2, <2>3, FeedWhole
<1>2. CASE Long(m)
  <2>1. Len(Frames(m)) = Len(Split(m)) /\ Len(Split(m)) \in Nat
        /\ Len(Split(m)) > 1
    BY <1>2, FramesOfLong, SplitIs
  <2>2. CASE k = 0
    <3>1. fed = Feed(r, Frames(m)[1]) /\ k + 1 = 1 /\ k + 1 < Len(Frames(m))
      BY <2>1, <2>2
    <3> QED BY <1>2, <2>2, <3>1, FeedBegins
  <2>3. CASE k > 0
    <3>1. k + 1 \in 2 .. Len(Split(m))
      BY <2>1, <2>3
    <3>2. /\ fed.err = "nil"
          /\ \/ /\ k + 1 # Len(Split(m)) /\ fed.msg = NoMessage
                /\ Held(fed.r, m, k + 1)
             \/ /\ k + 1 = Len(Split(m)) /\ fed.r = NewReceiver
                /\ fed.fc = NoFrame /\ fed.msg # NoMessage
                /\ fed.msg = [len |-> m.len, parts |-> Split(m)]
      BY <1>2, <2>3, <3>1, FeedContinues
    <3>3. fed.msg = [len |-> m.len, parts |-> Split(m)] =>
            Content(fed.msg) = m
      <4>1. PICK x : x = [len |-> m.len, parts |-> Split(m)]
        OBVIOUS
      <4>2. x.parts = Split(m) /\ x.parts[1].msg = m
        BY <4>1, FirstPart
      <4> QED BY <4>1, <4>2, ContentIs
    <3> QED BY <2>1, <3>1, <3>2, <3>3
  <2> QED BY <2>2, <2>3
<1> QED BY <1>1, <1>2

-----------------------------------------------------------------------------
(* Frames in any order, when some were damaged on the way                  *)

\* A Receiver that has begun with a message of N.  When no sequence number
\* comes twice in a message (z does not hold), it just goes on with it.
BegunBy(r, N, z) ==
  r.active =>
    /\ r = [active |-> TRUE, want |-> r.want, got |-> r.got,
            parts |-> r.parts, seq |-> r.seq, inBlock |-> r.inBlock]
    /\ IsSequence(r.parts) /\ r.parts # <<>>
    /\ \E m \in N : /\ Long(m) /\ r.parts[1].msg = m
                    /\ ~z => \E k \in 1 .. 2 : Held(r, m, k)

\* A message of N, or when z holds one that begins like one of N.
Given(m, N, z) == m \in N \/ (z /\ \E n \in N : m = Zero(n))

Few(N, z) ==
  /\ \A m \in N : m.len \in Nat \ {0}
  /\ ~z => \A m, n \in N : Long(m) /\ Long(n) => m = n /\ Len(Split(m)) = 3

LEMMA NewHasBegun ==
  ASSUME NEW N, NEW z
  PROVE  BegunBy(NewReceiver, N, z)
BY NewIsIdle DEF BegunBy

LEMMA HeldHasBegun ==
  ASSUME NEW N, NEW z, Few(N, z), NEW m \in N, Long(m), NEW k \in Nat,
         NEW r, Held(r, m, k)
  PROVE  BegunBy(r, N, z)
<1>1. m.len \in Nat
  BY DEF Few
<1>2. PICK s : s = Split(m)
  OBVIOUS
<1>3. Len(s) \in Nat /\ s = [i \in 1 .. Len(s) |-> s[i]] /\ s[1].msg = m
  BY <1>1, <1>2, SplitIs, FirstPart DEF Long, SFMax
<1>4. k \in 1 .. Len(s) - 1
  BY <1>2 DEF Held
<1> DEFINE p == [i \in 1 .. k |-> s[i]]
<1>5. /\ r = [active |-> TRUE, want |-> m.len,
              got |-> FFData + CFData * (k - 1), parts |-> p,
              seq |-> k % SeqNumbers, inBlock |-> r.inBlock]
  BY <1>2 DEF Held
<1>6. IsSequence(p) /\ p # <<>> /\ p[1] = s[1]
  <2>1. p \in Seq({s[i] : i \in 1 .. k}) /\ Len(p) = k
    OBVIOUS
  <2>2. Len(<<>>) = 0
    OBVIOUS
  <2>3. p # <<>>
    BY <1>4, <2>1, <2>2
  <2>4. p[1] = s[1]
    BY <1>4
  <2> QED BY <2>1, <2>3, <2>4 DEF IsSequence
<1> HIDE DEF p
<1>7. /\ r.active /\ r.parts = p /\ r.want = m.len /\ r.seq = k % SeqNumbers
      /\ r.got = FFData + CFData * (k - 1)
  BY <1>5
<1>8. ASSUME ~z PROVE k \in 1 .. 2
  <2>1. Len(s) = 3
    BY <1>2, <1>8 DEF Few
  <2> QED BY <1>4, <2>1
<1>9. r = [active |-> TRUE, want |-> r.want, got |-> r.got,
           parts |-> r.parts, seq |-> r.seq, inBlock |-> r.inBlock]
  BY <1>5, <1>7
<1>10. r.parts[1].msg = m
  BY <1>3, <1>6, <1>7
<1> QED BY <1>6, <1>7, <1>8, <1>9, <1>10 DEF BegunBy

LEMMA FeedInAnyOrder ==
  ASSUME NEW N, NEW z \in BOOLEAN, Few(N, z), NEW m \in N, NEW k \in Nat,
         k < Len(Frames(m)), NEW r, BegunBy(r, N, z),
         NEW fed, fed = Feed(r, Frames(m)[k + 1])
  PROVE  /\ BegunBy(fed.r, N, z)
         /\ fed.msg = NoMessage \/ Given(Content(fed.msg), N, z)
<1>1. m.len \in Nat \ {0}
  BY DEF Few
<1>2. CASE k = 0
  <2>1. fed = Feed(r, Frames(m)[1]) /\ ~(k > 0) /\ k + 1 = 1
    BY <1>2
  <2>2. CASE ~Long(m)
    BY <1>1, <2>1, <2>2, FeedWhole, NewHasBegun DEF Given
  <2>3. CASE Long(m)
    <3>1. Held(fed.r, m, 1) /\ fed.msg = NoMessage
      BY <1>1, <2>1, <2>3, FeedBegins
    <3> QED BY <2>3, <3>1, HeldHasBegun
  <2> QED BY <2>2, <2>3
<1>3. CASE k > 0
  <2>1. Long(m)
    <3>1. ~Long(m) => Len(Frames(m)) = 1
      BY <1>1, FramesOfShort
    <3> QED BY <1>3, <3>1
  <2>2. Len(Frames(m)) = Len(Split(m)) /\ Len(Split(m)) \in Nat
    BY <1>1, <2>1, FramesOfLong, SplitIs
  <2>3. k + 1 \in 2 .. Len(Split(m)) /\ (k + 1) - 1 = k
    BY <1>3, <2>2
  <2>4. PICK f : f = Frames(m)[k + 1]
    OBVIOUS
  <2>5. f.pci = "CF" /\ f.sn = k % SeqNumbers
    <3>1. PICK l \in 2 .. Len(Split(m)) : l = k + 1 /\ l - 1 = k
      BY <2>3
    <3>2. f = ConsecutiveFrame(m, FFData + CFData * (l - 2),
                               (l - 1) % SeqNumbers)
      BY <1>1, <2>1, <2>4, <3>1, FramesOfLong
    <3> QED BY <3>1, <3>2 DEF ConsecutiveFrame
  <2>6. fed = FeedConsecutive(r, f)
    BY <2>4, <2>5 DEF Feed
  <2>7. CASE ~r.active
    <3>1. fed = Ignore(r)
      BY <2>6, <2>7 DEF FeedConsecutive
    <3> QED BY <2>7, <3>1 DEF Ignore, Fed, BegunBy
  <2>8. CASE r.active /\ ~InSequence(r, f)
    <3>1. fed = Failed(NoFrame, "sequence")
      BY <2>6, <2>8 DEF FeedConsecutive
    <3>2. fed.r = NewReceiver /\ fed.msg = NoMessage
      BY <3>1 DEF Failed, Fed
    <3> QED BY <3>2, NewHasBegun
  <2>9. CASE r.active /\ InSequence(r, f) /\ z
    <3>1. PICK n \in N : Long(n) /\ r.parts[1].msg = n
      BY <2>9 DEF BegunBy
    <3>2. IsSequence(r.parts) /\ r.parts # <<>>
      BY <2>9 DEF BegunBy
    <3>3. PICK take, old : take = Lesser(r.want - r.got, CFData)
                           /\ old = r.parts
      OBVIOUS
    <3>4. PICK parts : parts = Append(old, Part(f.msg, f.off, take))
      OBVIOUS
    <3>5. IsSequence(parts) /\ parts # <<>> /\ parts[1].msg = n
      <4>1. /\ IsSequence(parts) /\ Len(parts) = Len(old) + 1
            /\ \A i \in 1 .. Len(old) : parts[i] = old[i]
            /\ Len(old) \in Nat
        BY <3>2, <3>3, <3>4, AppendedIs
      <4>2. Len(old) # 0
        <5>1. PICK S : old \in Seq(S)
          BY <3>2, <3>3 DEF IsSequence
        <5> QED BY <3>2, <3>3, <5>1, EmptySeq
      <4>3. 1 \in 1 .. Len(old) /\ Len(parts) # 0
        BY <4>1, <4>2
      <4> QED BY <3>1, <3>3, <4>1, <4>3, NoneIsSequence
    <3>6. PICK next : next =
            [r EXCEPT !.got = r.got + take, !.parts = parts,
                      !.seq = (r.seq + 1) % SeqNumbers,
                      !.inBlock = InBlockAfter(r)]
      OBVIOUS
    <3>7. next = [active |-> TRUE, want |-> next.want, got |-> next.got,
                  parts |-> parts, seq |-> next.seq,
                  inBlock |-> next.inBlock]
      <4>1. PICK w, g, p, q, b :
              r = [active |-> TRUE, want |-> w, got |-> g, parts |-> p,
                   seq |-> q, inBlock |-> b]
        BY <2>9 DEF BegunBy
      <4> QED BY <3>6, <4>1
    <3>8. BegunBy(next, N, z)
      <4>1. next.parts = parts
        BY <3>7
      <4>2. next = [active |-> TRUE, want |-> next.want, got |-> next.got,
                    parts |-> next.parts, seq |-> next.seq,
                    inBlock |-> next.inBlock]
        BY <3>7, <4>1
      <4> QED BY <2>9, <3>1, <3>5, <4>1, <4>2 DEF BegunBy
    <3>9. fed \in {Fed(NewReceiver, NoFrame,
                       [len |-> r.want, parts |-> parts], "nil"),
                   Fed(next, FlowControl("continue", BlockSize), NoMessage,
                       "nil"),
                   Ignore(next)}
      <4>1. fed = IF r.got + take >= r.want
                  THEN Fed(NewReceiver, NoFrame,
                           [len |-> r.want, parts |-> parts], "nil")
                  ELSE IF BlockSize > 0 /\ next.inBlock = 0
                  THEN Fed(next, FlowControl("continue", BlockSize),
                           NoMessage, "nil")
                  ELSE Ignore(next)
        BY <2>6, <2>9, <3>3, <3>4, <3>6 DEF FeedConsecutive
      <4> QED BY <4>1
    <3>10. PICK x : x = [len |-> r.want, parts |-> parts]
      OBVIOUS
    <3>11. Given(Content(x), N, z)
      <4>1. x.parts[1].msg = n
        BY <3>5, <3>10
      <4>2. Content(x) \in {n, Zero(n)}
        BY <4>1, ContentIs
      <4> QED BY <2>9, <4>2 DEF Given
    <3>12. CASE fed = Fed(NewReceiver, NoFrame, x, "nil")
      <4>1. fed.r = NewReceiver /\ fed.msg = x
        BY <3>12 DEF Fed
      <4> QED BY <3>11, <4>1, NewHasBegun
    <3>13. CASE fed.r = next /\ fed.msg = NoMessage
      BY <3>8, <3>13
    <3> QED BY <3>9, <3>10, <3>12, <3>13 DEF Fed, Ignore
  <2>10. CASE r.active /\ InSequence(r, f) /\ ~z
    <3>1. PICK n \in N : /\ Long(n)
                         /\ \E l \in 1 .. 2 : Held(r, n, l)
      BY <2>10 DEF BegunBy
    <3>2. n = m /\ Len(Split(m)) = 3
      BY <2>1, <2>10, <3>1 DEF Few
    <3>3. PICK l \in 1 .. 2 : Held(r, m, l)
      BY <3>1, <3>2
    <3>4. r.seq = l % SeqNumbers
      BY <3>3 DEF Held
    <3>5. k \in 1 .. 2 /\ k % SeqNumbers = l % SeqNumbers
      BY <1>3, <2>3, <2>5, <2>10, <3>2, <3>4 DEF InSequence
    <3>6. k = l
      <4>1. 1 % SeqNumbers # 2 % SeqNumbers
        <5>1. CASE SeqNumbers = 2
          BY <5>1
        <5>2. CASE SeqNumbers > 2
          <6>1. 1 \in 0 .. SeqNumbers - 1 /\ 2 \in 0 .. SeqNumbers - 1
            BY <5>2, SequenceNumbers
          <6>2. (SeqNumbers * 0 + 1) % SeqNumbers = 1
                /\ (SeqNumbers * 0 + 2) % SeqNumbers = 2
            BY <6>1, Remainder, SequenceNumbers
          <6> QED BY <6>2, SequenceNumbers
        <5> QED BY <5>1, <5>2, SequenceNumbers
      <4> QED BY <3>5, <4>1
    <3>7. /\ k + 1 < Len(Frames(m)) =>
               fed.msg = NoMessage /\ Held(fed.r, m, k + 1)
          /\ ~(k + 1 < Len(Frames(m))) =>
               fed.msg # NoMessage /\ Content(fed.msg) = m
      BY <1>1, <3>3, <3>6, FeedInOrder
    <3>8. CASE k + 1 < Len(Frames(m))
      BY <2>1, <3>7, <3>8, HeldHasBegun
    <3>9. CASE ~(k + 1 < Len(Frames(m)))
      <4>1. fed.r = NewReceiver
        <5>1. k + 1 = Len(Split(m)) /\ Held(r, m, k) /\ m.len \in Nat
          BY <1>1, <2>2, <2>3, <3>3, <3>6, <3>9
        <5>2. \/ k + 1 # Len(Split(m))
              \/ Feed(r, Frames(m)[k + 1]).r = NewReceiver
          BY <2>1, <2>3, <5>1, FeedContinues
        <5> QED BY <5>1, <5>2
      <4> QED BY <3>7, <3>9, <4>1, NewHasBegun DEF Given
    <3> QED BY <3>8, <3>9
  <2> QED BY <2>7, <2>8, <2>9, <2>10
<1> QED BY <1>2, <1>3

-----------------------------------------------------------------------------
(* A request and its answers                                               *)

\* What ECU e may send for the request in hand: its answer if it gives one,
\* that with a count that is one more, or what is no answer to the request.
Kept(e) == IF e \in said[Svc] THEN ToSet(Answer(e, Svc, Id)) ELSE {}
ShortsOf(K) == IF Svc \in Lists /\ vehicle = "can"
               THEN {[m EXCEPT !.body[1] = @ + 1] : m \in K} ELSE {}
Shorts(e) == ShortsOf(Kept(e))
Others == {Negative("negative", Svc), Negative("pending", Svc)} \cup
          (IF Svc \in Lists THEN {}
           ELSE {Positive(Svc, Id + 1, [i \in 1 .. 2 |-> 99], 6)})
May(e) == Kept(e) \cup Shorts(e) \cup Others

Useful(m) == Answers(m) /\ m.kind = "positive"

Asking == task \in {"dtc", "vin", "did"}
Passed(n) == {Requests[i][1] : i \in 1 .. n}
Asked == Passed(IF pc = "request" THEN step - 1 ELSE step)

TaskInv ==
  /\ task \in Tasks /\ vehicle \in {"can", "legacy"}
  /\ Asking <=> pc \in {"request", "lines"} \/ (pc = "done" /\ task # "info")
  /\ Asking => /\ step \in 1 .. Len(Requests) /\ ecus \in [Ecu -> Profile]
               /\ DOMAIN said = Asked
               /\ \A s \in Asked :
                    said[s] \subseteq {e \in Ecu : s \in ecus[e].answers}
  /\ DOMAIN codes \subseteq DOMAIN said
  /\ pc = "lines" => Svc \notin DOMAIN codes
  /\ pc # "lines" => /\ queue = [e \in Ecu |-> <<>>]
                     /\ sent = [e \in Ecu |-> 0] /\ lines = <<>>
  /\ pc # "done" => ret = "none"

\* The requests of the commands, one service after the other.
LEMMA RequestsAre ==
  /\ task = "dtc" => Len(Requests) = 4 /\ Requests[1] = <<"01", 1>>
                     /\ Requests[2] = <<"03", 0>> /\ Requests[3] = <<"07", 0>>
                     /\ Requests[4] = <<"0A", 0>>
  /\ task = "vin" => Len(Requests) = 1 /\ Requests[1] = <<"09", 2>>
  /\ task = "did" => Len(Requests) = 1 /\ Requests[1] = <<"22", 1>>
<1>1. task = "dtc" =>
        Requests = <<<<"01", 1>>, <<"03", 0>>, <<"07", 0>>, <<"0A", 0>>>>
  BY DEF Requests
<1>2. task = "vin" => Requests = <<<<"09", 2>>>>
  BY DEF Requests
<1>3. task = "did" => Requests = <<<<"22", 1>>>>
  BY DEF Requests
<1> QED BY <1>1, <1>2, <1>3

Serves(svc, id, n) ==
  \/ task = "dtc" /\ n = 1 /\ svc = "01" /\ id = 1
  \/ task = "dtc" /\ n = 2 /\ svc = "03" /\ id = 0
  \/ task = "dtc" /\ n = 3 /\ svc = "07" /\ id = 0
  \/ task = "dtc" /\ n = 4 /\ svc = "0A" /\ id = 0
  \/ task = "vin" /\ n = 1 /\ svc = "09" /\ id = 2
  \/ task = "did" /\ n = 1 /\ svc = "22" /\ id = 1

LEMMA ServesIs ==
  ASSUME Asking, NEW n \in 1 .. Len(Requests)
  PROVE  Serves(Requests[n][1], Requests[n][2], n)
<1>1. CASE task = "dtc"
  <2>1. n \in 1 .. 4
    BY <1>1, RequestsAre
  <2>2. n = 1 \/ n = 2 \/ n = 3 \/ n = 4
    BY <2>1
  <2> QED BY <1>1, <2>2, RequestsAre DEF Serves
<1>2. CASE task = "vin"
  <2>1. n = 1
    BY <1>2, RequestsAre
  <2> QED BY <1>2, <2>1, RequestsAre DEF Serves
<1>3. CASE task = "did"
  <2>1. n = 1
    BY <1>3, RequestsAre
  <2> QED BY <1>3, <2>1, RequestsAre DEF Serves
<1> QED BY <1>1, <1>2, <1>3 DEF Asking

LEMMA SvcIs ==
  ASSUME Asking, step \in 1 .. Len(Requests)
  PROVE  Serves(Svc, Id, step)
BY ServesIs DEF Svc, Id

LEMMA PassedIs ==
  ASSUME Asking, NEW n \in Nat, n < Len(Requests)
  PROVE  /\ Passed(n + 1) = Passed(n) \cup {Requests[n + 1][1]}
         /\ Requests[n + 1][1] \notin Passed(n)
         /\ n + 1 \in 1 .. Len(Requests)
<1>1. Len(Requests) \in Nat
  BY RequestsAre DEF Asking
<1>2. /\ n + 1 \in 1 .. Len(Requests) /\ n + 1 \notin 1 .. n
      /\ 1 .. n + 1 = (1 .. n) \cup {n + 1}
      /\ 1 .. n \subseteq 1 .. Len(Requests)
  BY <1>1
<1>3. ASSUME NEW i \in 1 .. n PROVE Requests[i][1] # Requests[n + 1][1]
  <2>1. i \in 1 .. Len(Requests) /\ i # n + 1
    BY <1>2
  <2>2. Serves(Requests[i][1], Requests[i][2], i)
        /\ Serves(Requests[n + 1][1], Requests[n + 1][2], n + 1)
    BY <1>2, <2>1, ServesIs
  <2> QED BY <2>1, <2>2 DEF Serves
<1> QED BY <1>2, <1>3 DEF Passed

\* The shapes of the answers.
LEMMA AnswerIs ==
  ASSUME Asking, step \in 1 .. Len(Requests), NEW e \in Ecu,
         Svc \in ecus[e].answers
  PROVE  /\ Svc = "01" =>
              Answer(e, Svc, Id) =
                <<Positive(Svc, Id, <<ecus[e].lamp, ecus[e].count>>, 6)>>
         /\ Svc \in Lists /\ vehicle = "can" =>
              Answer(e, Svc, Id) = CodesOnCAN(Svc, ecus[e].codes[Svc])
         /\ Svc \in Lists /\ vehicle # "can" =>
              Answer(e, Svc, Id) = CodesOnLegacy(Svc, ecus[e].codes[Svc])
         /\ Svc = "09" /\ vehicle = "can" =>
              Answer(e, Svc, Id) = <<Positive(Svc, Id, Vin(e), 20)>>
         /\ Svc = "09" /\ vehicle # "can" =>
              Answer(e, Svc, Id) =
                [k \in 1 .. VinParts |->
                   Positive(Svc, Id, <<k, Vin(e)[k]>>, 7)]
         /\ Svc = "22" =>
              Answer(e, Svc, Id) = <<Positive(Svc, Id, DidData(e), 5)>>
<1>1. "01" \notin Lists /\ "09" \notin Lists /\ "22" \notin Lists
  BY DEF Lists
<1>2. CASE Svc = "01"
  BY <1>1, <1>2 DEF Answer
<1>3. CASE Svc \in Lists
  BY <1>1, <1>3 DEF Answer, Lists
<1>4. CASE Svc = "09"
  BY <1>1, <1>4 DEF Answer
<1>5. CASE Svc = "22"
  BY <1>1, <1>5 DEF Answer
<1>6. Svc = "01" \/ Svc \in Lists \/ Svc = "09" \/ Svc = "22"
  BY SvcIs DEF Serves, Lists
<1> QED BY <1>1, <1>2, <1>3, <1>4, <1>5, <1>6

\* Each is a positive response to the request; but for the lists of codes
\* the VIN on CAN is the only one of more than one frame.
ShapeOf(e, m) ==
  \E body, len :
    /\ m = Positive(Svc, Id, body, len) /\ len \in Nat \ {0}
    /\ Svc \notin Lists =>
         len \in {5, 6, 7} \/ (len = 20 /\ body = Vin(e))

Shaped(e, a) == /\ IsSequence(a) /\ a # <<>>
                /\ \A i \in 1 .. Len(a) : ShapeOf(e, a[i])

LEMMA AnswerShape ==
  ASSUME Asking, step \in 1 .. Len(Requests), ecus \in [Ecu -> Profile],
         NEW e \in Ecu, Svc \in ecus[e].answers
  PROVE  /\ Shaped(e, Answer(e, Svc, Id))
         /\ \A m \in ToSet(Answer(e, Svc, Id)) : ShapeOf(e, m)
<1>1. PICK a : a = Answer(e, Svc, Id)
  OBVIOUS
<1>2. \A x : /\ IsSequence(<<x>>) /\ <<x>> # <<>> /\ Len(<<x>>) = 1
             /\ <<x>>[1] = x
  <2>1. \A x : <<x>> \in Seq({x}) /\ <<x>> # <<>> /\ Len(<<x>>) = 1
               /\ <<x>>[1] = x
    OBVIOUS
  <2> QED BY <2>1 DEF IsSequence
<1>3. ASSUME NEW x, a = <<x>>, ShapeOf(e, x)
      PROVE  Shaped(e, a)
  BY <1>2, <1>3 DEF Shaped
<1>4. ASSUME NEW n \in Nat \ {0}, a = [k \in 1 .. n |-> a[k]],
             \A k \in 1 .. n : ShapeOf(e, a[k])
      PROVE  Shaped(e, a)
  <2>1. a \in Seq({a[k] : k \in 1 .. n}) /\ Len(a) = n
    BY <1>4
  <2>2. a # <<>>
    BY <2>1, NoneIsSequence
  <2> QED BY <1>4, <2>1, <2>2 DEF IsSequence, Shaped
<1>5. ecus[e].lamp \in Nat /\ ecus[e].count \in Nat
      /\ \A s \in Lists : ecus[e].codes[s] \in Seq(Nat \ {0})
  BY DEF Profile
<1>6. ASSUME Svc = "01" PROVE Shaped(e, a)
  <2>1. PICK b : b = <<ecus[e].lamp, ecus[e].count>>
    OBVIOUS
  <2>2. PICK x : x = Positive(Svc, Id, b, 6)
    OBVIOUS
  <2>3. a = <<x>>
    BY <1>1, <1>6, <2>1, <2>2, AnswerIs
  <2>4. ShapeOf(e, x)
    BY <2>2 DEF ShapeOf
  <2> QED BY <1>3, <2>3, <2>4
<1>7. ASSUME Svc = "22" PROVE Shaped(e, a)
  <2>1. PICK b : b = DidData(e)
    OBVIOUS
  <2>2. PICK x : x = Positive(Svc, Id, b, 5)
    OBVIOUS
  <2>3. a = <<x>>
    BY <1>1, <1>7, <2>1, <2>2, AnswerIs
  <2>4. ShapeOf(e, x)
    BY <2>2 DEF ShapeOf
  <2> QED BY <1>3, <2>3, <2>4
<1>8. ASSUME Svc = "09" /\ vehicle = "can" PROVE Shaped(e, a)
  <2>1. PICK x : x = Positive(Svc, Id, Vin(e), 20)
    OBVIOUS
  <2>2. a = <<x>>
    BY <1>1, <1>8, <2>1, AnswerIs
  <2>3. ShapeOf(e, x)
    BY <2>1 DEF ShapeOf
  <2> QED BY <1>3, <2>2, <2>3
<1>9. ASSUME Svc = "09" /\ vehicle # "can" PROVE Shaped(e, a)
  <2>1. a = [k \in 1 .. VinParts |-> Positive(Svc, Id, <<k, Vin(e)[k]>>, 7)]
    BY <1>1, <1>9, AnswerIs
  <2>2. \A k \in 1 .. VinParts : \E b : a[k] = Positive(Svc, Id, b, 7)
    BY <2>1
  <2>3. a = [k \in 1 .. VinParts |-> a[k]]
    BY <2>1
  <2>4. \A k \in 1 .. VinParts : ShapeOf(e, a[k])
    BY <2>2 DEF ShapeOf
  <2>5. VinParts \in Nat \ {0}
    BY CountAssumption
  <2> QED BY <1>4, <2>3, <2>4, <2>5
<1>10. ASSUME Svc \in Lists PROVE Shaped(e, a)
  <2>1. PICK list : list = ecus[e].codes[Svc]
    OBVIOUS
  <2>2. PICK n \in Nat : n = Len(list)
    BY <1>5, <1>10, <2>1
  <2>3. Id = 0
    BY <1>10, SvcIs DEF Serves, Lists
  <2>4. CASE vehicle = "can"
    <3>1. PICK b : b = <<n % CountMod>> \o list
      OBVIOUS
    <3>2. PICK x : x = Positive(Svc, Id, b, 2 + 2 * n)
      OBVIOUS
    <3>3. a = <<x>>
      BY <1>1, <1>10, <2>1, <2>2, <2>3, <2>4, <3>1, <3>2, AnswerIs
         DEF CodesOnCAN
    <3>4. ShapeOf(e, x)
      BY <1>10, <3>2 DEF ShapeOf
    <3> QED BY <1>3, <3>3, <3>4
  <2>5. CASE vehicle # "can"
    <3>1. PICK l \in Nat \ {0} :
            l = IF list = <<>> THEN 1 ELSE (Len(list) + 2) \div 3
      <4>1. list # <<>> => n > 0
        BY <1>5, <1>10, <2>1, <2>2, EmptySeq
      <4>2. n > 0 => (n + 2) \div 3 \in Nat \ {0}
        OBVIOUS
      <4> QED BY <2>2, <4>1, <4>2
    <3>2. a = [k \in 1 .. l |-> Positive(Svc, 0, Slots(list, k - 1), 7)]
      BY <1>1, <1>10, <2>1, <2>5, <3>1, AnswerIs DEF CodesOnLegacy
    <3>3. \A k \in 1 .. l : \E b : a[k] = Positive(Svc, Id, b, 7)
      BY <2>3, <3>2
    <3>4. a = [k \in 1 .. l |-> a[k]]
      BY <3>2
    <3>5. \A k \in 1 .. l : ShapeOf(e, a[k])
      BY <1>10, <3>3 DEF ShapeOf
    <3> QED BY <1>4, <3>1, <3>4, <3>5
  <2> QED BY <2>4, <2>5
<1>11. Svc = "01" \/ Svc \in Lists \/ Svc = "09" \/ Svc = "22"
  BY SvcIs DEF Serves, Lists
<1>12. Shaped(e, a)
  BY <1>6, <1>7, <1>8, <1>9, <1>10, <1>11
<1>13. \A m \in ToSet(a) : ShapeOf(e, m)
  <2>1. DOMAIN a = 1 .. Len(a)
    <3>1. PICK S : a \in Seq(S)
      BY <1>12 DEF IsSequence, Shaped
    <3> QED BY <3>1
  <2> QED BY <1>12, <2>1 DEF ToSet, Shaped
<1> QED BY <1>1, <1>12, <1>13

LEMMA KindsOf ==
  ASSUME NEW svc, NEW id, NEW body, NEW len, NEW kind
  PROVE  /\ Positive(svc, id, body, len) =
              [kind |-> "positive", svc |-> svc, id |-> id, body |-> body,
               len |-> len]
         /\ Positive(svc, id, body, len).kind = "positive"
         /\ Positive(svc, id, body, len).svc = svc
         /\ Positive(svc, id, body, len).id = id
         /\ Positive(svc, id, body, len).body = body
         /\ Positive(svc, id, body, len).len = len
         /\ Negative(kind, svc).kind = kind /\ Negative(kind, svc).svc = svc
         /\ Negative(kind, svc).len = 3
BY DEF Positive, Negative

LEMMA ZeroIs ==
  ASSUME NEW svc, NEW id, NEW body, NEW len
  PROVE  Zero(Positive(svc, id, body, len)) =
           Positive(svc, id, [i \in DOMAIN body |-> 0], len)
BY DEF Zero, Positive

\* The useful ones among the messages an ECU may send are its answer.
LEMMA MayIs ==
  ASSUME Asking, step \in 1 .. Len(Requests), ecus \in [Ecu -> Profile],
         NEW e \in Ecu,
         said[Svc] \subseteq {f \in Ecu : Svc \in ecus[f].answers}
  PROVE  /\ Few(May(e), Svc \in Lists)
         /\ \A m \in Kept(e) \cup Shorts(e) : ShapeOf(e, m)
         /\ \A m \in May(e) : Useful(m) <=> m \in Kept(e) \cup Shorts(e)
         /\ \A m \in May(e) : Useful(Zero(m)) => m \in Kept(e) \cup Shorts(e)
<1>1. \A m \in Kept(e) : ShapeOf(e, m)
  BY AnswerShape DEF Kept
<1>2. \A m \in Shorts(e) : ShapeOf(e, m)
  <2> SUFFICES ASSUME NEW m \in Kept(e), Svc \in Lists
               PROVE  ShapeOf(e, [m EXCEPT !.body[1] = @ + 1])
    BY DEF Shorts, ShortsOf
  <2>1. PICK body, len : m = Positive(Svc, Id, body, len)
                         /\ len \in Nat \ {0}
    BY <1>1 DEF ShapeOf
  <2>2. PICK b : b = [body EXCEPT ![1] = @ + 1]
    OBVIOUS
  <2>3. [m EXCEPT !.body[1] = @ + 1] = Positive(Svc, Id, b, len)
    <3>1. [m EXCEPT !.body[1] = @ + 1] =
            Positive(Svc, Id, [body EXCEPT ![1] = @ + 1], len)
      BY <2>1 DEF Positive
    <3> QED BY <2>2, <3>1
  <2> QED BY <2>1, <2>3 DEF ShapeOf
<1>3. ASSUME NEW m, ShapeOf(e, m)
      PROVE  /\ m.len \in Nat \ {0} /\ Useful(m)
             /\ Svc \notin Lists /\ Long(m) =>
                  m = Positive(Svc, Id, Vin(e), 20)
  <2>1. PICK body, len :
          /\ m = Positive(Svc, Id, body, len) /\ len \in Nat \ {0}
          /\ Svc \notin Lists =>
               len \in {5, 6, 7} \/ (len = 20 /\ body = Vin(e))
    BY <1>3 DEF ShapeOf
  <2>2. m.kind = "positive" /\ m.svc = Svc /\ m.id = Id /\ m.len = len
    BY <2>1, KindsOf
  <2> QED BY <2>1, <2>2 DEF Useful, Answers, Long, SFMax
<1>4. ASSUME NEW m \in Others
      PROVE  /\ m.len \in Nat \ {0} /\ ~Long(m) /\ ~Useful(m)
             /\ ~Useful(Zero(m))
  <2>1. CASE \E k \in {"negative", "pending"} : m = Negative(k, Svc)
    <3>1. PICK k \in {"negative", "pending"} : m = Negative(k, Svc)
      BY <2>1
    <3>2. m = [kind |-> k, svc |-> Svc, id |-> 0, body |-> <<>>, len |-> 3]
      BY <3>1 DEF Negative
    <3>3. m.kind = k /\ m.len = 3 /\ Zero(m).kind = k
      BY <3>2 DEF Zero
    <3> QED BY <3>3 DEF Useful, Long, SFMax
  <2>2. CASE Svc \notin Lists
             /\ m = Positive(Svc, Id + 1, [i \in 1 .. 2 |-> 99], 6)
    <3>1. PICK b, z : b = [i \in 1 .. 2 |-> 99] /\ z = [i \in DOMAIN b |-> 0]
      OBVIOUS
    <3>2. m = Positive(Svc, Id + 1, b, 6)
      BY <2>2, <3>1
    <3>3. Zero(m) = Positive(Svc, Id + 1, z, 6)
      BY <3>1, <3>2, ZeroIs
    <3>4. /\ m.kind = "positive" /\ m.svc = Svc /\ m.id = Id + 1
          /\ Zero(m).kind = "positive" /\ Zero(m).svc = Svc
          /\ Zero(m).id = Id + 1 /\ m.len = 6
      BY <3>2, <3>3, KindsOf
    <3>5. Id + 1 # Id /\ Svc \in {"01", "09", "22"}
      BY <2>2, SvcIs DEF Serves, Lists
    <3> QED BY <3>4, <3>5 DEF Useful, Answers, Long, SFMax
  <2> QED BY <2>1, <2>2 DEF Others
<1>5. Few(May(e), Svc \in Lists)
  <2>1. ASSUME NEW m \in May(e), NEW n \in May(e), Svc \notin Lists,
               Long(m), Long(n)
        PROVE  m = n /\ Len(Split(m)) = 3
    <3>1. m = Positive(Svc, Id, Vin(e), 20)
          /\ n = Positive(Svc, Id, Vin(e), 20)
      BY <1>1, <1>2, <1>3, <1>4, <2>1 DEF May
    <3>2. m.len = 20
      BY <3>1, KindsOf
    <3>3. Len(Split(m)) = 1 + ((20 - 6 + 7 - 1) \div 7)
      <4>1. Len(Split(m)) = 1 + ((m.len - FFData + CFData - 1) \div CFData)
        BY <2>1, <3>2, SplitIs
      <4> QED BY <3>2, <4>1 DEF FFData, CFData
    <3> QED BY <3>1, <3>3
  <2>2. \A m \in May(e) : m.len \in Nat \ {0}
    BY <1>1, <1>2, <1>3, <1>4 DEF May
  <2> QED BY <2>1, <2>2 DEF Few
<1> QED BY <1>1, <1>2, <1>3, <1>4, <1>5 DEF May

-----------------------------------------------------------------------------
(* The lines printed so far                                                *)

DataOf(ls) == Without(ls, {Notice, Damaged})
Parsed(ls) == ParsedCAN(DataOf(ls))
Got(ls) == IF vehicle = "can" THEN Parsed(ls).rs
           ELSE ParseLegacy(DataOf(ls)).rs
Spoilt(ls) == \/ \E i \in 1 .. Len(ls) : ls[i] \in {Unreadable, Trouble}
              \/ vehicle = "can" /\ Parsed(ls).err # "nil"

\* No error so far.
Reading(s) ==
  s = [rx |-> s.rx, rs |-> s.rs, err |-> "nil"] /\ IsSequence(s.rs)

Genuine(x) == /\ x.ecu \in Ecu /\ x = Response(x.ecu, x.msg)
              /\ Given(x.msg, May(x.ecu), Svc \in Lists)

\* What was taken came from an ECU, and a Receiver has begun with something
\* its ECU may send.
AllGenuine(got) == IsSequence(got) /\ \A i \in 1 .. Len(got) : Genuine(got[i])
AllBegun(s) ==
  /\ Reading(s)
  /\ \A e \in Ecu : BegunBy(ReceiverOf(s, e), May(e), Svc \in Lists)
Sound(ls) == AllGenuine(Got(ls)) /\ (vehicle = "can" => AllBegun(Parsed(ls)))

\* An answer was taken or is still to come, whole.
Due(e, m, got, q) == \/ \E i \in 1 .. Len(got) : got[i] = Response(e, m)
                     \/ \E i \in 1 .. Len(q[e]) : q[e][i] = m
Complete(e, got, q) == \/ \A m \in Kept(e) : Due(e, m, got, q)
                       \/ \E m \in Shorts(e) : Due(e, m, got, q)
Synced(e, s, q, k) == k[e] > 0 => Held(ReceiverOf(s, e), q[e][1], k[e])

\* Nothing is there twice.
Once(got, q) ==
  /\ Distinct(got)
  /\ \A e \in Ecu :
       /\ Distinct(q[e])
       /\ \A i \in 1 .. Len(got) : \A j \in 1 .. Len(q[e]) :
            got[i] # Response(e, q[e][j])

Queued(e, q, k) ==
  /\ IsSequence(q[e]) /\ \A i \in 1 .. Len(q[e]) : q[e][i] \in May(e)
  /\ k[e] \in Nat
  /\ k[e] > 0 => /\ vehicle = "can" /\ q[e] # <<>>
                 /\ k[e] < Len(Frames(q[e][1]))
AllQueued(q, k) ==
  /\ q = [e \in Ecu |-> q[e]] /\ k = [e \in Ecu |-> k[e]]
  /\ \A e \in Ecu : Queued(e, q, k)

Single(o) == vehicle # "can" /\ Svc = "09" /\ <<Svc, "same">> \notin o

LinesOK(ls, q, k, o) ==
  /\ IsSequence(ls) /\ \A i \in 1 .. Len(ls) : ls[i] # NoData
  /\ AllQueued(q, k)
  /\ Spoilt(ls) => <<Svc, "damaged">> \in o
  /\ ~Spoilt(ls) => Sound(ls)
  /\ <<Svc, "damaged">> \notin o =>
       /\ \A e \in Ecu : /\ Complete(e, Got(ls), q)
                         /\ Synced(e, Parsed(ls), q, k)
       /\ Single(o) => Once(Got(ls), q)

LinesInv == pc = "lines" => LinesOK(lines, queue, sent, odd)

LEMMA LinesAdd ==
  ASSUME NEW ls, IsSequence(ls), NEW l
  PROVE  /\ IsSequence(DataOf(ls)) /\ DataOf(<<>>) = <<>>
         /\ l \in {Notice, Damaged} => DataOf(Append(ls, l)) = DataOf(ls)
         /\ l \notin {Notice, Damaged} =>
              DataOf(Append(ls, l)) = Append(DataOf(ls), l)
<1>1. PICK S : S = {Notice, Damaged}
  OBVIOUS
<1>2. PICK t : t = Append(ls, l)
  OBVIOUS
<1>3. /\ Without(<<>>, S) = <<>>
      /\ l \in S => Without(t, S) = Without(ls, S)
      /\ l \notin S => Without(t, S) = Append(Without(ls, S), l)
  BY <1>2, WithoutAppend
<1>4. IsSequence(Without(ls, S))
  BY WithoutIs
<1> QED BY <1>1, <1>2, <1>3, <1>4 DEF DataOf

LEMMA LegacyAdds ==
  ASSUME NEW d, IsSequence(d), NEW l, NEW e, NEW m, l = MessageLine(e, m)
  PROVE  /\ IsSequence(ParseLegacy(d).rs)
         /\ ParseLegacy(Append(d, l)).rs =
              Append(ParseLegacy(d).rs, Response(e, m))
<1>1. PICK t : t = Append(d, l)
  OBVIOUS
<1>2. /\ IsSequence(t) /\ Len(t) = Len(d) + 1 /\ Len(d) \in Nat
      /\ \A i \in 1 .. Len(d) : t[i] = d[i]
      /\ t[Len(d) + 1] = l
      /\ \A i \in 1 .. Len(d) + 1 : i \in 1 .. Len(d) \/ i = Len(d) + 1
  BY <1>1, AppendedIs
<1>3. \A s : IsSequence(s) => DOMAIN s = 1 .. Len(s)
  <2> SUFFICES ASSUME NEW s, IsSequence(s) PROVE DOMAIN s = 1 .. Len(s)
    OBVIOUS
  <2>1. PICK S : s \in Seq(S)
    BY DEF IsSequence
  <2> QED BY <2>1
<1>4. PICK a : a = [i \in 1 .. Len(d) |-> Response(d[i].id, d[i].msg)]
  OBVIOUS
<1>5. PICK b : b = [i \in 1 .. Len(d) + 1 |-> Response(t[i].id, t[i].msg)]
  OBVIOUS
<1>6. ParseLegacy(d).rs = a /\ ParseLegacy(t).rs = b
  BY <1>2, <1>3, <1>4, <1>5 DEF ParseLegacy, Result
<1>7. IsSequence(a) /\ Len(a) = Len(d)
  <2>1. a \in Seq({Response(d[i].id, d[i].msg) : i \in 1 .. Len(d)})
        /\ Len(a) = Len(d)
    BY <1>2, <1>4
  <2> QED BY <2>1 DEF IsSequence
<1>8. PICK c : c = Append(a, Response(e, m))
  OBVIOUS
<1>9. /\ IsSequence(c) /\ Len(c) = Len(d) + 1
      /\ \A i \in 1 .. Len(d) : c[i] = a[i]
      /\ c[Len(d) + 1] = Response(e, m)
  BY <1>7, <1>8, AppendedIs
<1>10. \A i \in 1 .. Len(d) + 1 : c[i] = b[i]
  <2>1. l.id = e /\ l.msg = m
    BY DEF MessageLine
  <2>2. c[Len(d) + 1] = b[Len(d) + 1]
    BY <1>2, <1>5, <1>9, <2>1
  <2>3. \A i \in 1 .. Len(d) : c[i] = b[i]
    BY <1>2, <1>4, <1>5, <1>9
  <2> QED BY <1>2, <2>2, <2>3
<1>11. c = b
  <2>1. PICK S : c \in Seq(S)
    BY <1>9 DEF IsSequence
  <2>2. c = [i \in 1 .. Len(d) + 1 |-> c[i]]
    BY <1>9, <2>1
  <2> QED BY <1>5, <1>10, <2>2
<1> QED BY <1>1, <1>6, <1>7, <1>8, <1>11

\* Only the Receiver of e is another one.
Changed(s, t, e, r) ==
  \A c : ReceiverOf(t, c) = IF c = e THEN r ELSE ReceiverOf(s, c)

LEMMA ReceiversAre ==
  ASSUME NEW s, NEW e, NEW r, NEW t, t.rx = With(s.rx, e, r)
  PROVE  Changed(s, t, e, r)
<1>1. PICK f, g : f = s.rx /\ g = With(f, e, r) /\ t.rx = g
  OBVIOUS
<1>2. /\ DOMAIN g = {e} \cup DOMAIN f /\ g[e] = r
      /\ \A d \in DOMAIN f : d # e => g[d] = f[d]
  BY <1>1 DEF With
<1> QED BY <1>1, <1>2 DEF ReceiverOf, Changed

LEMMA CANAdds ==
  ASSUME NEW s, Reading(s), NEW e, NEW f,
         NEW fed, fed = Feed(ReceiverOf(s, e), f),
         NEW t, t = ParseCANLine(s, FrameLine(e, f))
  PROVE  /\ fed.err # "nil" => t.err # "nil"
         /\ fed.err = "nil" =>
              /\ Reading(t)
              /\ Changed(s, t, e, fed.r)
              /\ t.rs = IF fed.msg = NoMessage \/ IsPending(Content(fed.msg))
                        THEN s.rs
                        ELSE Append(s.rs, Response(e, Content(fed.msg)))
<1>1. s.err = "nil" /\ IsSequence(s.rs)
  BY DEF Reading
<1>2. PICK l : l = FrameLine(e, f) /\ l.id = e /\ l.frame = f
  BY DEF FrameLine
<1>3. t = AfterFeed(s, e, fed)
  BY <1>1, <1>2 DEF ParseCANLine
<1>4. CASE fed.err # "nil"
  <2>1. t = [s EXCEPT !.err = "error"]
    BY <1>3, <1>4 DEF AfterFeed
  <2>2. PICK rx, rs : s = [rx |-> rx, rs |-> rs, err |-> "nil"]
    BY DEF Reading
  <2>3. t.err = "error"
    BY <2>1, <2>2
  <2> QED BY <1>4, <2>3
<1>5. CASE fed.err = "nil"
  <2>1. PICK rs : rs = IF fed.msg = NoMessage \/ IsPending(Content(fed.msg))
                       THEN s.rs
                       ELSE Append(s.rs, Response(e, Content(fed.msg)))
    OBVIOUS
  <2>2. PICK r : r = fed.r
    OBVIOUS
  <2>3. t = [rx |-> With(s.rx, e, r), rs |-> rs, err |-> "nil"]
    BY <1>3, <1>5, <2>1, <2>2 DEF AfterFeed
  <2>4. IsSequence(rs)
    BY <1>1, <2>1, AppendedIs
  <2>5. Reading(t) /\ t.rs = rs
    <3>1. PICK g : g = With(s.rx, e, r)
      OBVIOUS
    <3>2. t = [rx |-> g, rs |-> rs, err |-> "nil"]
      BY <2>3, <3>1
    <3> QED BY <2>4, <3>2 DEF Reading
  <2>6. Changed(s, t, e, r)
    <3>1. PICK g : g = With(s.rx, e, r)
      OBVIOUS
    <3>2. t.rx = With(s.rx, e, r)
      BY <2>3, <3>1
    <3> QED BY <3>2, ReceiversAre
  <2> QED BY <1>5, <2>1, <2>2, <2>5, <2>6
<1> QED BY <1>4, <1>5

-----------------------------------------------------------------------------
(* One line more                                                           *)

\* The next line of ECU e is taken off its queue.
Advance(e, q, k, q2, k2) ==
  IF vehicle = "can" /\ k[e] + 1 < Len(Frames(q[e][1]))
  THEN k2 = [k EXCEPT ![e] = @ + 1] /\ q2 = q
  ELSE k2 = [k EXCEPT ![e] = 0] /\ q2 = [q EXCEPT ![e] = Tail(@)]

LEMMA QueueStep ==
  ASSUME NEW q, NEW k, AllQueued(q, k), NEW e \in Ecu, q[e] # <<>>,
         NEW q2, NEW k2, Advance(e, q, k, q2, k2)
  PROVE  /\ AllQueued(q2, k2) /\ q[e][1] \in May(e) /\ k[e] \in Nat
         /\ vehicle = "can" /\ q[e][1].len \in Nat \ {0} =>
              k[e] < Len(Frames(q[e][1]))
<1>1. \A c \in Ecu : Queued(c, q, k)
  BY DEF AllQueued
<1>2. /\ IsSequence(q[e]) /\ k[e] \in Nat
      /\ \A i \in 1 .. Len(q[e]) : q[e][i] \in May(e)
  BY <1>1 DEF Queued
<1>3. PICK t, u : t = q[e] /\ u = Tail(t)
  OBVIOUS
<1>4. /\ IsSequence(u) /\ Len(t) = Len(u) + 1 /\ Len(u) \in Nat
      /\ \A i \in 1 .. Len(u) : u[i] = t[i + 1]
  BY <1>2, <1>3, RestIs
<1>5. q[e][1] \in May(e)
  <2>1. 1 \in 1 .. Len(t)
    BY <1>4
  <2> QED BY <1>2, <1>3, <2>1
<1>6. \A i \in 1 .. Len(u) : u[i] \in May(e)
  <2>1. \A i \in 1 .. Len(u) : i + 1 \in 1 .. Len(t)
    BY <1>4
  <2> QED BY <1>2, <1>3, <1>4, <2>1
<1>7. DOMAIN q = Ecu /\ DOMAIN k = Ecu
  BY DEF AllQueued
<1>8. CASE vehicle = "can" /\ k[e] + 1 < Len(Frames(q[e][1]))
  <2>1. k2 = [k EXCEPT ![e] = @ + 1] /\ q2 = q
    BY <1>8 DEF Advance
  <2>2. /\ k2 = [c \in Ecu |-> k2[c]] /\ k2[e] = k[e] + 1
        /\ \A c \in Ecu : c # e => k2[c] = k[c]
    BY <1>7, <2>1 DEF AllQueued
  <2>3. Queued(e, q2, k2)
    BY <1>2, <1>8, <2>1, <2>2 DEF Queued
  <2>4. \A c \in Ecu : c # e => Queued(c, q2, k2)
    BY <1>1, <2>1, <2>2 DEF Queued
  <2>5. q2 = [c \in Ecu |-> q2[c]]
    BY <2>1 DEF AllQueued
  <2> QED BY <1>2, <1>5, <1>8, <2>2, <2>3, <2>4, <2>5 DEF AllQueued
<1>9. CASE ~(vehicle = "can" /\ k[e] + 1 < Len(Frames(q[e][1])))
  <2>1. k2 = [k EXCEPT ![e] = 0] /\ q2 = [q EXCEPT ![e] = Tail(@)]
    BY <1>9 DEF Advance
  <2>2. /\ k2 = [c \in Ecu |-> k2[c]] /\ k2[e] = 0
        /\ \A c \in Ecu : c # e => k2[c] = k[c]
    BY <1>7, <2>1 DEF AllQueued
  <2>3. /\ q2 = [c \in Ecu |-> q2[c]] /\ q2[e] = u
        /\ \A c \in Ecu : c # e => q2[c] = q[c]
    BY <1>3, <1>7, <2>1 DEF AllQueued
  <2>4. Queued(e, q2, k2)
    BY <1>4, <1>6, <2>2, <2>3 DEF Queued
  <2>5. \A c \in Ecu : c # e => Queued(c, q2, k2)
    BY <1>1, <2>2, <2>3 DEF Queued
  <2>6. vehicle = "can" /\ q[e][1].len \in Nat \ {0} =>
          k[e] < Len(Frames(q[e][1]))
    <3> SUFFICES ASSUME vehicle = "can", q[e][1].len \in Nat \ {0}
                 PROVE  k[e] < Len(Frames(q[e][1]))
      OBVIOUS
    <3>1. CASE k[e] > 0
      BY <1>1, <3>1 DEF Queued
    <3>2. CASE ~(k[e] > 0)
      <4>1. PICK m : m = q[e][1]
        OBVIOUS
      <4>2. Len(Frames(m)) \in Nat /\ Len(Frames(m)) > 0
        <5>1. CASE Long(m)
          <6>1. m.len \in Nat
            BY <4>1
          <6>2. Len(Split(m)) \in Nat /\ Len(Split(m)) > 1
            BY <5>1, <6>1, SplitIs
          <6>3. Len(Frames(m)) = Len(Split(m))
            BY <5>1, <6>1, FramesOfLong
          <6> QED BY <6>2, <6>3
        <5>2. CASE ~Long(m)
          BY <4>1, <5>2, FramesOfShort
        <5> QED BY <5>1, <5>2
      <4> QED BY <1>2, <3>2, <4>1, <4>2
    <3> QED BY <3>1, <3>2
  <2> QED BY <1>2, <1>5, <2>2, <2>3, <2>4, <2>5, <2>6 DEF AllQueued
<1> QED BY <1>8, <1>9

LEMMA GenuineAdds ==
  ASSUME NEW got, AllGenuine(got), NEW e \in Ecu, NEW x,
         Given(x, May(e), Svc \in Lists),
         NEW got2, got2 = Append(got, Response(e, x))
  PROVE  AllGenuine(got2)
<1>1. PICK y : y = Response(e, x)
  OBVIOUS
<1>2. y.ecu = e /\ y.msg = x
  BY <1>1 DEF Response
<1>3. Genuine(y)
  BY <1>1, <1>2 DEF Genuine
<1>4. /\ IsSequence(got2) /\ Len(got2) = Len(got) + 1
      /\ \A i \in 1 .. Len(got) : got2[i] = got[i]
      /\ got2[Len(got) + 1] = y
      /\ \A i \in 1 .. Len(got) + 1 : i \in 1 .. Len(got) \/ i = Len(got) + 1
  BY <1>1, AppendedIs DEF AllGenuine
<1> QED BY <1>3, <1>4 DEF AllGenuine

\* A frame on CAN: what it completes is genuine.
LEMMA SoundOnCAN ==
  ASSUME NEW s, AllGenuine(s.rs), AllBegun(s), NEW e \in Ecu,
         Few(May(e), Svc \in Lists), NEW m \in May(e), NEW k \in Nat,
         k < Len(Frames(m)),
         NEW t, t = ParseCANLine(s, FrameLine(e, Frames(m)[k + 1])),
         t.err = "nil"
  PROVE  AllGenuine(t.rs) /\ AllBegun(t)
<1>1. PICK f : f = Frames(m)[k + 1]
  OBVIOUS
<1>2. PICK r, fed : r = ReceiverOf(s, e) /\ fed = Feed(r, f)
  OBVIOUS
<1>3. Reading(s) /\ BegunBy(r, May(e), Svc \in Lists)
  BY <1>2 DEF AllBegun
<1>4. /\ fed.err # "nil" => t.err # "nil"
      /\ fed.err = "nil" =>
           /\ Reading(t) /\ Changed(s, t, e, fed.r)
           /\ t.rs = IF fed.msg = NoMessage \/ IsPending(Content(fed.msg))
                     THEN s.rs
                     ELSE Append(s.rs, Response(e, Content(fed.msg)))
  BY <1>1, <1>2, <1>3, CANAdds
<1>5. /\ BegunBy(fed.r, May(e), Svc \in Lists)
      /\ fed.msg = NoMessage \/ Given(Content(fed.msg), May(e), Svc \in Lists)
  <2>1. (Svc \in Lists) \in BOOLEAN
    OBVIOUS
  <2> QED BY <1>1, <1>2, <1>3, <2>1, FeedInAnyOrder
<1>6. PICK x : x = Content(fed.msg)
  OBVIOUS
<1>7. AllGenuine(t.rs)
  <2>1. CASE t.rs = s.rs
    BY <2>1
  <2>2. CASE fed.msg # NoMessage /\ t.rs = Append(s.rs, Response(e, x))
    BY <1>5, <1>6, <2>2, GenuineAdds
  <2> QED BY <1>4, <1>6, <2>1, <2>2
<1>8. AllBegun(t)
  <2>1. ASSUME NEW c \in Ecu
        PROVE  BegunBy(ReceiverOf(t, c), May(c), Svc \in Lists)
    <3>1. CASE c = e
      <4>1. ReceiverOf(t, c) = fed.r
        BY <1>4, <3>1 DEF Changed
      <4> QED BY <1>5, <3>1, <4>1
    <3>2. CASE c # e
      <4>1. ReceiverOf(t, c) = ReceiverOf(s, c)
        BY <1>4, <3>2 DEF Changed
      <4> QED BY <4>1 DEF AllBegun
    <3> QED BY <3>1, <3>2
  <2> QED BY <1>4, <2>1 DEF AllBegun
<1> QED BY <1>7, <1>8

LEMMA DueStep ==
  ASSUME NEW q, NEW k, AllQueued(q, k), NEW e \in Ecu, q[e] # <<>>,
         NEW q2, q2 = [q EXCEPT ![e] = Tail(@)],
         NEW got, IsSequence(got), NEW got2,
         NEW c \in Ecu, NEW m, Due(c, m, got, q),
         \/ got2 = Append(got, Response(e, q[e][1]))
         \/ got2 = got /\ q[e][1] # m
  PROVE  Due(c, m, got2, q2)
<1>1. /\ Len(got) \in Nat /\ \A i \in 1 .. Len(got) : got2[i] = got[i]
      /\ \A i \in 1 .. Len(got) : i \in 1 .. Len(got2)
      /\ got2 # got => got2[Len(got) + 1] = Response(e, q[e][1])
                       /\ Len(got) + 1 \in 1 .. Len(got2)
  <2>1. PICK x : x = Response(e, q[e][1])
    OBVIOUS
  <2>2. CASE got2 = got
    BY <2>2, AppendedIs
  <2>3. CASE got2 = Append(got, x)
    <3>1. /\ Len(got2) = Len(got) + 1 /\ Len(got) \in Nat
          /\ \A i \in 1 .. Len(got) : got2[i] = got[i]
          /\ got2[Len(got) + 1] = x
      BY <2>3, AppendedIs
    <3> QED BY <2>1, <3>1
  <2> QED BY <2>1, <2>2, <2>3
<1>2. PICK t, u : t = q[e] /\ u = Tail(t)
  OBVIOUS
<1>3. /\ Len(t) = Len(u) + 1 /\ Len(u) \in Nat
      /\ \A i \in 1 .. Len(u) : u[i] = t[i + 1]
  BY <1>2, RestIs DEF AllQueued, Queued
<1>4. q2[e] = u /\ \A d \in Ecu : d # e => q2[d] = q[d]
  BY <1>2 DEF AllQueued
<1>5. CASE \E i \in 1 .. Len(got) : got[i] = Response(c, m)
  BY <1>1, <1>5 DEF Due
<1>6. CASE \E i \in 1 .. Len(q[c]) : q[c][i] = m
  <2>1. CASE c # e
    BY <1>4, <1>6, <2>1 DEF Due
  <2>2. CASE c = e
    <3>1. PICK i \in 1 .. Len(t) : t[i] = m
      BY <1>2, <1>6, <2>2
    <3>2. CASE i = 1
      <4>1. q[e][1] = m
        BY <1>2, <3>1, <3>2
      <4>2. got2 # got \/ got2 = Append(got, Response(e, m))
        BY <4>1
      <4>3. got2 # got
        <5>1. ASSUME got2 = got PROVE FALSE
          <6>1. got = Append(got, Response(e, q[e][1]))
            BY <4>1, <5>1
          <6>2. PICK x : x = Response(e, q[e][1])
            OBVIOUS
          <6>3. Len(got) = Len(got) + 1 /\ Len(got) \in Nat
            BY <6>1, <6>2, AppendedIs
          <6> QED BY <6>3
        <5> QED BY <5>1
      <4> QED BY <1>1, <2>2, <4>1, <4>3 DEF Due
    <3>3. CASE i # 1
      <4>1. i - 1 \in 1 .. Len(u) /\ (i - 1) + 1 = i
        BY <1>3, <3>3
      <4>2. u[i - 1] = m
        BY <1>3, <3>1, <4>1
      <4> QED BY <1>4, <2>2, <4>1, <4>2 DEF Due
    <3> QED BY <3>2, <3>3
  <2> QED BY <2>1, <2>2
<1> QED BY <1>5, <1>6 DEF Due

LEMMA CompleteStep ==
  ASSUME NEW q, NEW k, AllQueued(q, k), NEW e \in Ecu, q[e] # <<>>,
         NEW q2, q2 = [q EXCEPT ![e] = Tail(@)],
         NEW got, IsSequence(got), NEW got2,
         NEW c \in Ecu, Complete(c, got, q),
         \/ got2 = Append(got, Response(e, q[e][1]))
         \/ got2 = got /\ \A m \in Kept(c) \cup Shorts(c) : q[e][1] # m
  PROVE  Complete(c, got2, q2)
<1>1. \A m \in Kept(c) \cup Shorts(c) : Due(c, m, got, q) =>
                                          Due(c, m, got2, q2)
  BY DueStep
<1> QED BY <1>1 DEF Complete

LEMMA OnceStep ==
  ASSUME NEW q, NEW k, AllQueued(q, k), NEW e \in Ecu, q[e] # <<>>,
         NEW q2, q2 = [q EXCEPT ![e] = Tail(@)],
         NEW got, IsSequence(got), Once(got, q),
         NEW got2, got2 = Append(got, Response(e, q[e][1]))
  PROVE  Once(got2, q2)
<1>1. PICK x : x = Response(e, q[e][1])
  OBVIOUS
<1>2. /\ Len(got2) = Len(got) + 1 /\ Len(got) \in Nat
      /\ \A i \in 1 .. Len(got) : got2[i] = got[i]
      /\ got2[Len(got) + 1] = x
      /\ \A i \in 1 .. Len(got) + 1 : i \in 1 .. Len(got) \/ i = Len(got) + 1
  BY <1>1, AppendedIs
<1>3. PICK t, u : t = q[e] /\ u = Tail(t)
  OBVIOUS
<1>4. /\ Len(t) = Len(u) + 1 /\ Len(u) \in Nat
      /\ \A i \in 1 .. Len(u) : u[i] = t[i + 1]
  BY <1>3, RestIs DEF AllQueued, Queued
<1>5. q2[e] = u /\ \A d \in Ecu : d # e => q2[d] = q[d]
  BY <1>3 DEF AllQueued
<1>6. 1 \in 1 .. Len(t) /\ \A i \in 1 .. Len(u) : i + 1 \in 1 .. Len(t)
                                                   /\ i + 1 # 1
  BY <1>4
<1>7. \A i \in 1 .. Len(got) : got[i] # x
  BY <1>1, <1>3, <1>6 DEF Once
<1>8. Distinct(got2)
  BY <1>2, <1>7 DEF Once, Distinct
<1>9. ASSUME NEW d \in Ecu PROVE Distinct(q2[d])
  <2>1. CASE d # e
    BY <1>5, <2>1 DEF Once
  <2>2. CASE d = e
    <3>1. Distinct(t)
      BY <1>3 DEF Once
    <3>2. ASSUME NEW i \in 1 .. Len(u), NEW j \in 1 .. Len(u), i # j
          PROVE  u[i] # u[j]
      <4>1. i + 1 # j + 1 /\ i + 1 \in 1 .. Len(t) /\ j + 1 \in 1 .. Len(t)
        BY <1>6, <3>2
      <4> QED BY <1>4, <3>1, <4>1 DEF Distinct
    <3>3. Distinct(u)
      BY <3>2 DEF Distinct
    <3> QED BY <1>5, <2>2, <3>3
  <2> QED BY <2>1, <2>2
<1>10. ASSUME NEW d \in Ecu, NEW i \in 1 .. Len(got2),
              NEW j \in 1 .. Len(q2[d])
       PROVE  got2[i] # Response(d, q2[d][j])
  <2>1. PICK l \in 1 .. Len(q[d]) : q2[d][j] = q[d][l] /\ (d = e => l # 1)
    <3>1. CASE d # e
      BY <1>5, <3>1
    <3>2. CASE d = e
      <4>1. q2[d] = u /\ q[d] = t
        BY <1>3, <1>5, <3>2
      <4>2. j \in 1 .. Len(u)
        BY <4>1
      <4>3. j + 1 \in 1 .. Len(t) /\ j + 1 # 1 /\ u[j] = t[j + 1]
        BY <1>4, <1>6, <4>2
      <4> QED BY <4>1, <4>3
    <3> QED BY <3>1, <3>2
  <2>2. CASE i \in 1 .. Len(got)
    BY <1>2, <2>1, <2>2 DEF Once
  <2>3. CASE i = Len(got) + 1
    <3>1. got2[i] = x
      BY <1>2, <2>3
    <3>2. \A a, b, m, n : Response(a, m) = Response(b, n) => a = b /\ m = n
      BY DEF Response
    <3>3. d = e => q[e][1] # q[e][l]
      BY <1>3, <1>6, <2>1 DEF Once, Distinct
    <3> QED BY <1>1, <2>1, <3>1, <3>2, <3>3
  <2> QED BY <1>2, <2>2, <2>3
<1> QED BY <1>8, <1>9, <1>10 DEF Once

-----------------------------------------------------------------------------
(* The steps of a request                                                  *)

\* What is said of the lines does not change with the lines.
LEMMA Stays ==
  ASSUME UNCHANGED <<task, vehicle, ecus, step, said>>,
         LinesOK(lines', queue', sent', odd')
  PROVE  LinesOK(lines, queue, sent, odd)'
<1>1. Svc' = Svc /\ Id' = Id /\ vehicle' = vehicle
  BY DEF Svc, Id, Requests
<1>2. \A e : Answer(e, Svc, Id)' = Answer(e, Svc, Id)
  BY <1>1 DEF Answer
<1>3. \A e : Kept(e)' = Kept(e)
  BY <1>1, <1>2 DEF Kept
<1>4. \A e : Shorts(e)' = Shorts(e)
  BY <1>1, <1>3 DEF Shorts, ShortsOf
<1>5. Others' = Others
  BY <1>1 DEF Others
<1>6. \A e : May(e)' = May(e)
  BY <1>3, <1>4, <1>5 DEF May
<1>7. /\ Got(lines)' = Got(lines') /\ Parsed(lines)' = Parsed(lines')
      /\ Spoilt(lines)' <=> Spoilt(lines')
  BY <1>1 DEF Got, Spoilt, Parsed, DataOf
<1>8. AllQueued(queue', sent') => AllQueued(queue, sent)'
  BY <1>1, <1>6 DEF AllQueued, Queued
<1>9. Sound(lines') => Sound(lines)'
  <2>1. \A x : Genuine(x)' <=> Genuine(x)
    BY <1>1, <1>6 DEF Genuine
  <2>2. AllGenuine(Got(lines')) => AllGenuine(Got(lines))'
    BY <1>7, <2>1 DEF AllGenuine
  <2>3. AllBegun(Parsed(lines')) => AllBegun(Parsed(lines))'
    BY <1>1, <1>6, <1>7 DEF AllBegun
  <2> QED BY <1>1, <2>2, <2>3 DEF Sound
<1>10. \A e : Complete(e, Got(lines'), queue') =>
                Complete(e, Got(lines), queue)'
  BY <1>3, <1>4, <1>7 DEF Complete, Due
<1>11. \A e : Synced(e, Parsed(lines'), queue', sent') =>
                Synced(e, Parsed(lines), queue, sent)'
  BY <1>7 DEF Synced
<1>12. Once(Got(lines'), queue') => Once(Got(lines), queue)'
  BY <1>7 DEF Once
<1>13. Single(odd)' <=> Single(odd')
  BY <1>1 DEF Single
<1> QED BY <1>1, <1>7, <1>8, <1>9, <1>10, <1>11, <1>12, <1>13 DEF LinesOK

\* Nothing but a line that tells of trouble spoils what is read.
LEMMA SpoiltBy ==
  ASSUME NEW ls, IsSequence(ls), NEW l, NEW ls2, ls2 = Append(ls, l)
  PROVE  /\ IsSequence(ls2)
         /\ l # NoData /\ (\A i \in 1 .. Len(ls) : ls[i] # NoData) =>
              \A i \in 1 .. Len(ls2) : ls2[i] # NoData
         /\ l \in {Unreadable, Trouble} => Spoilt(ls2)
         /\ l \notin {Unreadable, Trouble} =>
              (Spoilt(ls2) <=>
                 \/ \E i \in 1 .. Len(ls) : ls[i] \in {Unreadable, Trouble}
                 \/ vehicle = "can" /\ Parsed(ls2).err # "nil")
<1>1. /\ IsSequence(ls2) /\ Len(ls2) = Len(ls) + 1 /\ Len(ls) \in Nat
      /\ \A i \in 1 .. Len(ls) : ls2[i] = ls[i]
      /\ ls2[Len(ls) + 1] = l
      /\ \A i \in 1 .. Len(ls) + 1 : i \in 1 .. Len(ls) \/ i = Len(ls) + 1
  BY AppendedIs
<1>2. Len(ls) + 1 \in 1 .. Len(ls2)
      /\ \A i \in 1 .. Len(ls) : i \in 1 .. Len(ls2)
  BY <1>1
<1> QED BY <1>1, <1>2 DEF Spoilt

\* Once an error was found, no line takes it away.
LEMMA ErrorStays ==
  ASSUME NEW ls, IsSequence(ls), NEW l, NEW ls2, ls2 = Append(ls, l),
         Parsed(ls).err # "nil"
  PROVE  Parsed(ls2).err # "nil"
<1>1. PICK d : d = DataOf(ls) /\ IsSequence(d)
  BY LinesAdd
<1>2. CASE l \in {Notice, Damaged}
  <2>1. DataOf(ls2) = d
    BY <1>1, <1>2, LinesAdd
  <2> QED BY <1>1, <2>1 DEF Parsed
<1>3. CASE l \notin {Notice, Damaged}
  <2>1. DataOf(ls2) = Append(d, l)
    BY <1>1, <1>3, LinesAdd
  <2>2. ParsedCAN(Append(d, l)) = ParseCANLine(ParsedCAN(d), l)
    BY <1>1, ParsedAppend
  <2>3. ParsedCAN(Append(d, l)) = ParsedCAN(d)
    BY <1>1, <2>2 DEF ParseCANLine, Parsed
  <2> QED BY <1>1, <2>1, <2>3 DEF Parsed
<1> QED BY <1>2, <1>3

\* The line of a frame.
LEMMA FrameAdds ==
  ASSUME vehicle = "can", NEW ls, NEW q, NEW k, NEW o, LinesOK(ls, q, k, o),
         NEW e \in Ecu, q[e] # <<>>, Few(May(e), Svc \in Lists),
         \A m \in May(e) : Useful(m) <=> m \in Kept(e) \cup Shorts(e),
         NEW q2, NEW k2, Advance(e, q, k, q2, k2),
         NEW ls2,
         ls2 = Append(ls, FrameLine(e, Frames(q[e][1])[k[e] + 1]))
  PROVE  LinesOK(ls2, q2, k2, o)
<1>1. PICK m, n : m = q[e][1] /\ n = k[e]
  OBVIOUS
<1>2. PICK f, l : f = Frames(m)[n + 1] /\ l = FrameLine(e, f)
  OBVIOUS
<1>3. AllQueued(q, k) /\ IsSequence(ls)
  BY DEF LinesOK
<1>4. /\ AllQueued(q2, k2) /\ m \in May(e) /\ n \in Nat
      /\ m.len \in Nat \ {0} /\ n < Len(Frames(m))
  <2>1. AllQueued(q2, k2) /\ m \in May(e) /\ n \in Nat
    BY <1>1, <1>3, QueueStep
  <2>2. m.len \in Nat \ {0}
    BY <2>1 DEF Few
  <2> QED BY <1>1, <1>3, <2>1, <2>2, QueueStep
<1>5. /\ l # NoData /\ l \notin {Unreadable, Trouble}
      /\ l \notin {Notice, Damaged}
  <2>1. l.what = "data"
    BY <1>2 DEF FrameLine
  <2> QED BY <2>1 DEF NoData, Unreadable, Trouble, Notice, Damaged
<1>6. /\ IsSequence(ls2) /\ \A i \in 1 .. Len(ls2) : ls2[i] # NoData
      /\ Spoilt(ls2) <=>
           \/ \E i \in 1 .. Len(ls) : ls[i] \in {Unreadable, Trouble}
           \/ Parsed(ls2).err # "nil"
  BY <1>1, <1>2, <1>3, <1>5, SpoiltBy DEF LinesOK
<1>7. PICK s, t : /\ s = Parsed(ls) /\ t = Parsed(ls2)
                  /\ Got(ls) = s.rs /\ Got(ls2) = t.rs
  BY DEF Got
<1>8. t = ParseCANLine(s, l)
  <2>1. PICK d : d = DataOf(ls) /\ IsSequence(d)
    BY <1>3, LinesAdd
  <2>2. DataOf(ls2) = Append(d, l)
    BY <1>1, <1>2, <1>3, <1>5, <2>1, LinesAdd
  <2> QED BY <1>7, <2>1, <2>2, ParsedAppend DEF Parsed
<1>9. Spoilt(ls) => Spoilt(ls2)
  <2>1. ls2 = Append(ls, l)
    BY <1>1, <1>2
  <2>2. Parsed(ls).err # "nil" => Parsed(ls2).err # "nil"
    BY <1>3, <2>1, ErrorStays
  <2>3. Spoilt(ls) =>
             \/ \E i \in 1 .. Len(ls) : ls[i] \in {Unreadable, Trouble}
             \/ Parsed(ls).err # "nil"
    BY DEF Spoilt
  <2> QED BY <1>6, <2>2, <2>3
<1>10. ~Spoilt(ls2) => Sound(ls2)
  <2> SUFFICES ASSUME ~Spoilt(ls2) PROVE AllGenuine(t.rs) /\ AllBegun(t)
    BY <1>7 DEF Sound
  <2>1. AllGenuine(s.rs) /\ AllBegun(s) /\ t.err = "nil"
    BY <1>6, <1>7, <1>9 DEF LinesOK, Sound
  <2> QED BY <1>2, <1>4, <1>8, <2>1, SoundOnCAN
<1>11. ASSUME <<Svc, "damaged">> \notin o
       PROVE  /\ ~Spoilt(ls2)
              /\ \A c \in Ecu : Complete(c, t.rs, q2) /\ Synced(c, t, q2, k2)
  <2>1. /\ ~Spoilt(ls) /\ AllGenuine(s.rs) /\ AllBegun(s)
        /\ \A c \in Ecu : Complete(c, s.rs, q) /\ Synced(c, s, q, k)
    BY <1>7, <1>11 DEF LinesOK, Sound
  <2>2. PICK r, fed : r = ReceiverOf(s, e) /\ fed = Feed(r, f)
    OBVIOUS
  <2>3. n > 0 => Held(r, m, n)
    BY <1>1, <2>1, <2>2 DEF Synced
  <2>4. /\ fed.err = "nil"
        /\ n + 1 < Len(Frames(m)) =>
             fed.msg = NoMessage /\ Held(fed.r, m, n + 1)
        /\ ~(n + 1 < Len(Frames(m))) =>
             fed.msg # NoMessage /\ Content(fed.msg) = m
    BY <1>2, <1>4, <2>2, <2>3, FeedInOrder
  <2>5. /\ Reading(t) /\ Changed(s, t, e, fed.r)
        /\ t.rs = IF fed.msg = NoMessage \/ IsPending(Content(fed.msg))
                  THEN s.rs
                  ELSE Append(s.rs, Response(e, Content(fed.msg)))
    <3>1. Reading(s)
      BY <2>1 DEF AllBegun
    <3> QED BY <1>2, <1>8, <2>2, <2>4, <3>1, CANAdds
  <2>6. ~Spoilt(ls2)
    <3>1. t.err = "nil"
      BY <2>5 DEF Reading
    <3> QED BY <1>6, <1>7, <2>1, <3>1 DEF Spoilt
  <2>7. CASE n + 1 < Len(Frames(m))
    <3>1. k2 = [k EXCEPT ![e] = @ + 1] /\ q2 = q
      BY <1>1, <2>7 DEF Advance
    <3>2. k2[e] = n + 1 /\ \A c \in Ecu : c # e => k2[c] = k[c]
      BY <1>1, <1>3, <3>1 DEF AllQueued
    <3>3. t.rs = s.rs
      BY <2>4, <2>5, <2>7
    <3>4. ASSUME NEW c \in Ecu PROVE Synced(c, t, q2, k2)
      <4>1. CASE c = e
        <5>1. ReceiverOf(t, e) = fed.r
          BY <2>5 DEF Changed
        <5> QED BY <1>1, <2>4, <2>7, <3>1, <3>2, <4>1, <5>1 DEF Synced
      <4>2. CASE c # e
        <5>1. ReceiverOf(t, c) = ReceiverOf(s, c)
          BY <2>5, <4>2 DEF Changed
        <5> QED BY <2>1, <3>1, <3>2, <4>2, <5>1 DEF Synced
      <4> QED BY <4>1, <4>2
    <3> QED BY <2>1, <2>6, <3>1, <3>3, <3>4
  <2>8. CASE ~(n + 1 < Len(Frames(m)))
    <3>1. k2 = [k EXCEPT ![e] = 0] /\ q2 = [q EXCEPT ![e] = Tail(@)]
      BY <1>1, <2>8 DEF Advance
    <3>2. /\ k2[e] = 0 /\ \A c \in Ecu : c # e => k2[c] = k[c]
          /\ \A c \in Ecu : c # e => q2[c] = q[c]
      BY <1>3, <3>1 DEF AllQueued
    <3>3. t.rs = IF IsPending(m) THEN s.rs ELSE Append(s.rs, Response(e, m))
      BY <2>4, <2>5, <2>8
    <3>4. IsPending(m) => \A x \in Kept(e) \cup Shorts(e) : m # x
      BY <1>4 DEF IsPending, Useful
    <3>5. IsSequence(s.rs)
      BY <2>1 DEF AllGenuine
    <3>6. ASSUME NEW c \in Ecu PROVE Complete(c, t.rs, q2)
      <4>1. CASE ~IsPending(m)
        <5>1. t.rs = Append(s.rs, Response(e, q[e][1]))
          BY <1>1, <3>3, <4>1
        <5> QED BY <1>3, <2>1, <3>1, <3>5, <5>1, CompleteStep
      <4>2. CASE IsPending(m) /\ c = e
        <5>1. t.rs = s.rs /\ \A x \in Kept(c) \cup Shorts(c) : q[e][1] # x
          BY <1>1, <3>3, <3>4, <4>2
        <5> QED BY <1>3, <2>1, <3>1, <3>5, <5>1, CompleteStep
      <4>3. CASE IsPending(m) /\ c # e
        <5>1. t.rs = s.rs /\ q2[c] = q[c]
          BY <3>2, <3>3, <4>3
        <5> QED BY <2>1, <5>1 DEF Complete, Due
      <4> QED BY <4>1, <4>2, <4>3
    <3>7. ASSUME NEW c \in Ecu PROVE Synced(c, t, q2, k2)
      <4>1. CASE c = e
        BY <3>2, <4>1 DEF Synced
      <4>2. CASE c # e
        <5>1. ReceiverOf(t, c) = ReceiverOf(s, c)
          BY <2>5, <4>2 DEF Changed
        <5> QED BY <2>1, <3>2, <4>2, <5>1 DEF Synced
      <4> QED BY <4>1, <4>2
    <3> QED BY <2>6, <3>6, <3>7
  <2> QED BY <2>7, <2>8
<1>12. ~Single(o)
  BY DEF Single
<1> QED BY <1>4, <1>6, <1>7, <1>10, <1>11, <1>12 DEF LinesOK

\* The line of a message on the older protocols.
LEMMA MessageAdds ==
  ASSUME vehicle # "can", NEW ls, NEW q, NEW k, NEW o, LinesOK(ls, q, k, o),
         NEW e \in Ecu, q[e] # <<>>,
         NEW q2, NEW k2, Advance(e, q, k, q2, k2),
         NEW ls2, ls2 = Append(ls, MessageLine(e, q[e][1]))
  PROVE  LinesOK(ls2, q2, k2, o)
<1>1. PICK m, l : m = q[e][1] /\ l = MessageLine(e, m)
  OBVIOUS
<1>2. AllQueued(q, k) /\ IsSequence(ls)
  BY DEF LinesOK
<1>3. AllQueued(q2, k2) /\ m \in May(e)
  BY <1>1, <1>2, QueueStep
<1>4. /\ l # NoData /\ l \notin {Unreadable, Trouble}
      /\ l \notin {Notice, Damaged}
  <2>1. l.what = "data"
    BY <1>1 DEF MessageLine
  <2> QED BY <2>1 DEF NoData, Unreadable, Trouble, Notice, Damaged
<1>5. /\ IsSequence(ls2) /\ \A i \in 1 .. Len(ls2) : ls2[i] # NoData
      /\ Spoilt(ls2) <=> Spoilt(ls)
  <2>1. \A i \in 1 .. Len(ls) : ls[i] # NoData
    BY DEF LinesOK
  <2>2. ls2 = Append(ls, l)
    BY <1>1
  <2>3. /\ IsSequence(ls2) /\ \A i \in 1 .. Len(ls2) : ls2[i] # NoData
        /\ Spoilt(ls2) <=>
             \/ \E i \in 1 .. Len(ls) : ls[i] \in {Unreadable, Trouble}
             \/ vehicle = "can" /\ Parsed(ls2).err # "nil"
    BY <1>2, <1>4, <2>1, <2>2, SpoiltBy
  <2>4. Spoilt(ls) <=> \E i \in 1 .. Len(ls) : ls[i] \in {Unreadable, Trouble}
    BY DEF Spoilt
  <2> QED BY <2>3, <2>4
<1>6. PICK d, g, g2 : /\ d = DataOf(ls) /\ IsSequence(d)
                      /\ g = Got(ls) /\ g2 = Got(ls2)
                      /\ g = ParseLegacy(d).rs
  BY <1>2, LinesAdd DEF Got
<1>7. IsSequence(g) /\ g2 = Append(g, Response(e, m))
  <2>1. DataOf(ls2) = Append(d, l)
    BY <1>1, <1>2, <1>4, <1>6, LinesAdd
  <2> QED BY <1>1, <1>6, <2>1, LegacyAdds DEF Got
<1>8. ~Spoilt(ls2) => Sound(ls2)
  <2> SUFFICES ASSUME ~Spoilt(ls2) PROVE AllGenuine(g2)
    BY <1>6 DEF Sound
  <2>1. AllGenuine(g)
    BY <1>5, <1>6 DEF LinesOK, Sound
  <2>2. Given(m, May(e), Svc \in Lists)
    BY <1>3 DEF Given
  <2> QED BY <1>7, <2>1, <2>2, GenuineAdds
<1>9. q2 = [q EXCEPT ![e] = Tail(@)] /\ k2 = [k EXCEPT ![e] = 0]
  BY DEF Advance
<1>10. ASSUME <<Svc, "damaged">> \notin o
       PROVE  /\ \A c \in Ecu : Complete(c, g2, q2)
              /\ Single(o) => Once(g2, q2)
  <2>1. /\ \A c \in Ecu : Complete(c, g, q)
        /\ Single(o) => Once(g, q)
    BY <1>6, <1>10 DEF LinesOK
  <2>2. g2 = Append(g, Response(e, q[e][1]))
    BY <1>1, <1>7
  <2>3. ASSUME NEW c \in Ecu PROVE Complete(c, g2, q2)
    BY <1>2, <1>7, <1>9, <2>1, <2>2, CompleteStep
  <2>4. Single(o) => Once(g2, q2)
    BY <1>2, <1>7, <1>9, <2>1, <2>2, OnceStep
  <2> QED BY <2>3, <2>4
<1>11. ASSUME NEW c \in Ecu PROVE Synced(c, Parsed(ls2), q2, k2)
  <2>1. ~(k2[c] > 0)
    <3>1. Queued(c, q2, k2)
      BY <1>3 DEF AllQueued
    <3> QED BY <3>1 DEF Queued
  <2> QED BY <2>1 DEF Synced
<1> QED BY <1>3, <1>5, <1>6, <1>8, <1>10, <1>11 DEF LinesOK

\* A damaged line, of which what it leaves out is not asked for.
LEMMA DamageAdds ==
  ASSUME NEW ls, NEW q, NEW k, NEW o, LinesOK(ls, q, k, o),
         NEW q2, NEW k2, AllQueued(q2, k2),
         NEW l \in {Damaged, Unreadable, Trouble},
         NEW ls2, ls2 = Append(ls, l), NEW o2, <<Svc, "damaged">> \in o2
  PROVE  LinesOK(ls2, q2, k2, o2)
<1>1. IsSequence(ls)
  BY DEF LinesOK
<1>2. l # NoData /\ (l = Damaged => l \notin {Unreadable, Trouble})
  BY DEF NoData, Damaged, Unreadable, Trouble
<1>3. /\ IsSequence(ls2) /\ \A i \in 1 .. Len(ls2) : ls2[i] # NoData
      /\ l \in {Unreadable, Trouble} => Spoilt(ls2)
  BY <1>1, <1>2, SpoiltBy DEF LinesOK
<1>4. ASSUME l = Damaged, ~Spoilt(ls2) PROVE Sound(ls2)
  <2>1. DataOf(ls2) = DataOf(ls)
    BY <1>1, <1>4, LinesAdd
  <2>2. Got(ls2) = Got(ls) /\ Parsed(ls2) = Parsed(ls)
    BY <2>1 DEF Got, Parsed
  <2>3. ~Spoilt(ls)
    BY <1>1, <1>2, <1>4, <2>2, SpoiltBy DEF Spoilt
  <2> QED BY <2>2, <2>3 DEF LinesOK, Sound
<1> QED BY <1>3, <1>4 DEF LinesOK

\* A line of an ECU, whole or damaged.
LEMMA PrintLineStep ==
  ASSUME TaskInv, LinesInv, NEW e \in Ecu, PrintLine(e)
  PROVE  pc' = pc /\ LinesInv'
<1>1. pc = "lines" /\ pc' = "lines"
  <2>1. queue[e] # <<>> /\ pc' = pc
    BY DEF PrintLine, walkVars
  <2> QED BY <2>1 DEF TaskInv
<1>2. /\ Asking /\ step \in 1 .. Len(Requests) /\ ecus \in [Ecu -> Profile]
      /\ said[Svc] \subseteq {f \in Ecu : Svc \in ecus[f].answers}
  <2>1. Asking /\ step \in 1 .. Len(Requests) /\ ecus \in [Ecu -> Profile]
        /\ Asked = Passed(step)
        /\ \A s \in Asked :
             said[s] \subseteq {f \in Ecu : s \in ecus[f].answers}
    BY <1>1 DEF TaskInv, Asked
  <2>2. Svc \in Passed(step)
    BY <2>1 DEF Passed, Svc
  <2> QED BY <2>1, <2>2
<1>3. /\ Few(May(e), Svc \in Lists)
      /\ \A m \in May(e) : Useful(m) <=> m \in Kept(e) \cup Shorts(e)
  BY <1>2, MayIs
<1>4. LinesOK(lines, queue, sent, odd) /\ AllQueued(queue, sent)
  BY <1>1 DEF LinesInv, LinesOK
<1>5. queue[e] # <<>> /\ Head(queue[e]) = queue[e][1]
  <2>1. IsSequence(queue[e])
    BY <1>4 DEF AllQueued, Queued
  <2>2. queue[e] # <<>>
    BY DEF PrintLine
  <2> QED BY <2>1, <2>2, RestIs
<1>6. PICK q2, k2 : q2 = queue' /\ k2 = sent'
  OBVIOUS
<1>7. Advance(e, queue, sent, q2, k2)
  BY <1>5, <1>6 DEF PrintLine, Advance
<1>8. UNCHANGED <<task, vehicle, ecus, step, said>>
  BY DEF PrintLine
<1>9. LinesOK(lines', queue', sent', odd')
  <2>1. CASE lines' = Append(lines, NextLine(e)) /\ odd' = odd
    <3>1. PICK ls2 : ls2 = lines'
      OBVIOUS
    <3>2. CASE vehicle = "can"
      <4>1. ls2 = Append(lines,
                         FrameLine(e, Frames(queue[e][1])[sent[e] + 1]))
        BY <1>5, <2>1, <3>1, <3>2 DEF NextLine
      <4>2. LinesOK(ls2, q2, k2, odd)
        BY <1>3, <1>4, <1>5, <1>7, <3>2, <4>1, FrameAdds
      <4> QED BY <1>6, <2>1, <3>1, <4>2
    <3>3. CASE vehicle # "can"
      <4>1. ls2 = Append(lines, MessageLine(e, queue[e][1]))
        BY <1>5, <2>1, <3>1, <3>3 DEF NextLine
      <4>2. LinesOK(ls2, q2, k2, odd)
        BY <1>4, <1>5, <1>7, <3>3, <4>1, MessageAdds
      <4> QED BY <1>6, <2>1, <3>1, <4>2
    <3> QED BY <3>2, <3>3
  <2>2. CASE /\ odd' = odd \cup {<<Svc, "damaged">>}
             /\ lines' \in {Append(lines, Damaged), Append(lines, Unreadable)}
    <3>1. PICK l \in {Damaged, Unreadable, Trouble} : lines' = Append(lines, l)
      BY <2>2
    <3>2. PICK ls2, o2 : /\ ls2 = lines' /\ ls2 = Append(lines, l)
                         /\ o2 = odd' /\ <<Svc, "damaged">> \in o2
      BY <2>2, <3>1
    <3>3. AllQueued(q2, k2)
      BY <1>4, <1>5, <1>7, QueueStep
    <3>4. LinesOK(ls2, q2, k2, o2)
      BY <1>4, <3>2, <3>3, DamageAdds
    <3> QED BY <1>6, <3>2, <3>4
  <2> QED BY <2>1, <2>2 DEF PrintLine
<1>10. LinesOK(lines, queue, sent, odd)'
  BY <1>8, <1>9, Stays
<1> QED BY <1>1, <1>10 DEF LinesInv

\* The adapter gives up.
LEMMA PrintTroubleStep ==
  ASSUME TaskInv, LinesInv, PrintTrouble
  PROVE  pc' = pc /\ LinesInv'
<1>1. pc = "lines" /\ pc' = "lines"
  BY DEF PrintTrouble, walkVars
<1>2. LinesOK(lines, queue, sent, odd)
  BY <1>1 DEF LinesInv
<1>3. UNCHANGED <<task, vehicle, ecus, step, said>>
  BY DEF PrintTrouble
<1>4. PICK q2, k2, ls2, o2 :
        /\ q2 = queue' /\ k2 = sent' /\ ls2 = lines' /\ o2 = odd'
        /\ q2 = [e \in Ecu |-> <<>>] /\ k2 = [e \in Ecu |-> 0]
        /\ ls2 = Append(lines, Trouble) /\ <<Svc, "damaged">> \in o2
  BY DEF PrintTrouble
<1>5. AllQueued(q2, k2)
  <2>1. \A e \in Ecu : q2[e] = <<>> /\ k2[e] = 0
    BY <1>4
  <2>2. \A e \in Ecu : Queued(e, q2, k2)
    BY <2>1, NoneIsSequence DEF Queued
  <2>3. q2 = [e \in Ecu |-> q2[e]] /\ k2 = [e \in Ecu |-> k2[e]]
    BY <1>4
  <2> QED BY <2>2, <2>3 DEF AllQueued
<1>6. LinesOK(ls2, q2, k2, o2)
  BY <1>2, <1>4, <1>5, DamageAdds
<1>7. LinesOK(lines', queue', sent', odd')
  BY <1>4, <1>6
<1>8. LinesOK(lines, queue, sent, odd)'
  BY <1>3, <1>7, Stays
<1> QED BY <1>1, <1>8 DEF LinesInv

-----------------------------------------------------------------------------
(* A request is sent                                                       *)

\* A sequence of messages an ECU may send, with all of its answer K in it.
GivenBy(a, K, o) ==
  /\ IsSequence(a)
  /\ \A i \in 1 .. Len(a) : a[i] \in K \cup ShortsOf(K) \cup Others
  /\ \/ \A m \in K : \E i \in 1 .. Len(a) : a[i] = m
     \/ \E m \in ShortsOf(K) : \E i \in 1 .. Len(a) : a[i] = m
  /\ Single(o) => Distinct(a)

Started ==
  /\ pc = "lines" /\ lines \in {<<>>, <<Notice>>}
  /\ queue = [e \in Ecu |-> queue[e]] /\ sent = [e \in Ecu |-> 0]
  /\ \A e \in Ecu : GivenBy(queue[e], Kept(e), odd)

\* Before the first line of data.
LEMMA StartedIs == Started => LinesInv
<1> SUFFICES ASSUME Started PROVE LinesOK(lines, queue, sent, odd)
  BY DEF LinesInv
<1>1. IsSequence(lines) /\ \A i \in 1 .. Len(lines) : lines[i] = Notice
  <2>1. CASE lines = <<>>
    BY <2>1, NoneIsSequence
  <2>2. CASE lines = <<Notice>>
    <3>1. lines \in Seq({Notice}) /\ Len(lines) = 1 /\ lines[1] = Notice
      BY <2>2
    <3> QED BY <3>1 DEF IsSequence
  <2> QED BY <2>1, <2>2 DEF Started
<1>2. Notice \notin {NoData, Unreadable, Trouble}
  BY DEF Notice, NoData, Unreadable, Trouble
<1>3. DataOf(lines) = <<>>
  <2>1. DataOf(<<>>) = <<>>
    BY NoneIsSequence, LinesAdd
  <2>2. Append(<<>>, Notice) = <<Notice>>
    OBVIOUS
  <2>3. DataOf(Append(<<>>, Notice)) = DataOf(<<>>)
    BY NoneIsSequence, LinesAdd
  <2> QED BY <2>1, <2>2, <2>3 DEF Started
<1>4. Parsed(lines) = Fresh
  BY <1>3, NoneIsSequence, ParsedAppend DEF Parsed
<1>5. /\ Fresh = [rx |-> <<>>, rs |-> <<>>, err |-> "nil"]
      /\ Fresh.rx = <<>> /\ Fresh.rs = <<>> /\ Fresh.err = "nil"
  BY DEF Fresh
<1>6. Got(lines) = <<>>
  <2>1. ParseLegacy(<<>>).rs = <<>>
    <3>1. ParseLegacy(<<>>).rs =
            [i \in DOMAIN <<>> |-> Response(<<>>[i].id, <<>>[i].msg)]
      BY DEF ParseLegacy, Result
    <3> QED BY <3>1
  <2> QED BY <1>3, <1>4, <1>5, <2>1 DEF Got
<1>7. \A e : ReceiverOf(Fresh, e) = NewReceiver
  BY <1>5 DEF ReceiverOf
<1>8. ~Spoilt(lines)
  BY <1>1, <1>2, <1>4, <1>5 DEF Spoilt
<1>9. Sound(lines)
  <2>1. Reading(Fresh)
    BY <1>5, NoneIsSequence DEF Reading
  <2>2. AllBegun(Fresh)
    BY <1>7, <2>1, NewHasBegun DEF AllBegun
  <2> QED BY <1>4, <1>6, <2>2, NoneIsSequence DEF Sound, AllGenuine
<1>10. \A e \in Ecu : sent[e] = 0
  BY DEF Started
<1>11. AllQueued(queue, sent)
  <2>1. \A e \in Ecu : Queued(e, queue, sent)
    BY <1>10 DEF Queued, Started, GivenBy, May, Shorts
  <2> QED BY <1>10, <2>1 DEF AllQueued, Started
<1>12. ASSUME NEW e \in Ecu
       PROVE  /\ Complete(e, Got(lines), queue)
              /\ Synced(e, Parsed(lines), queue, sent)
  <2>1. GivenBy(queue[e], Kept(e), odd)
    BY DEF Started
  <2>2. Complete(e, Got(lines), queue)
    BY <2>1 DEF GivenBy, Complete, Due, Shorts
  <2> QED BY <1>10, <2>2 DEF Synced
<1>13. Single(odd) => Once(Got(lines), queue)
  BY <1>6, NoneIsSequence DEF Once, Distinct, Started, GivenBy
<1> QED BY <1>1, <1>2, <1>8, <1>9, <1>11, <1>12, <1>13 DEF LinesOK

\* What an ECU has to say, if anything.
Own(e, a) ==
  /\ IsSequence(a) /\ ToSet(a) = {a[i] : i \in 1 .. Len(a)}
  /\ \A i \in 1 .. Len(a) : a[i].kind = "positive" /\ a[i].id = Id
  /\ vehicle # "can" /\ Svc = "09" => Distinct(a)
  /\ e \notin Able => a = <<>>

LEMMA OwnIs ==
  ASSUME Asking, step \in 1 .. Len(Requests), ecus \in [Ecu -> Profile],
         NEW e \in Ecu
  PROVE  Own(e, Answer(e, Svc, Id))
<1>1. PICK a : a = Answer(e, Svc, Id)
  OBVIOUS
<1>2. CASE Svc \in ecus[e].answers
  <2>1. IsSequence(a) /\ \A i \in 1 .. Len(a) : ShapeOf(e, a[i])
    BY <1>1, <1>2, AnswerShape DEF Shaped
  <2>2. \A i \in 1 .. Len(a) : a[i].kind = "positive" /\ a[i].id = Id
    BY <2>1, KindsOf DEF ShapeOf
  <2>3. DOMAIN a = 1 .. Len(a)
    <3>1. PICK S : a \in Seq(S)
      BY <2>1 DEF IsSequence
    <3> QED BY <3>1
  <2>4. ToSet(a) = {a[i] : i \in 1 .. Len(a)}
    BY <2>3 DEF ToSet
  <2>5. ASSUME vehicle # "can" /\ Svc = "09" PROVE Distinct(a)
    <3>1. a = [k \in 1 .. VinParts |->
                 Positive(Svc, Id, <<k, Vin(e)[k]>>, 7)]
      BY <1>1, <1>2, <2>5, AnswerIs
    <3>2. \A k \in 1 .. VinParts : a[k].body = <<k, Vin(e)[k]>>
      BY <3>1, KindsOf
    <3>3. VinParts \in Nat
      BY CountAssumption
    <3>4. Len(a) = VinParts
      BY <3>1, <3>3
    <3>5. \A k \in 1 .. VinParts : a[k].body[1] = k
      BY <3>2
    <3> QED BY <3>4, <3>5 DEF Distinct
  <2> QED BY <1>1, <1>2, <2>1, <2>2, <2>4, <2>5 DEF Own, Able
<1>3. CASE Svc \notin ecus[e].answers
  <2>1. a = <<>>
    BY <1>1, <1>3 DEF Answer
  <2>2. Len(a) = 0 /\ ToSet(a) = {}
    BY <2>1 DEF ToSet
  <2> QED BY <1>1, <2>1, <2>2, NoneIsSequence DEF Own, Distinct
<1> QED BY <1>2, <1>3

\* As it answers of itself, when it counts as one that gave its answer.
LEMMA PlainGives ==
  ASSUME Asking, step \in 1 .. Len(Requests), ecus \in [Ecu -> Profile],
         NEW e \in Ecu, NEW o, NEW a, a = Answer(e, Svc, Id), NEW K,
         K = IF e \in Able THEN ToSet(a) ELSE {}
  PROVE  GivenBy(a, K, o)
<1>1. Own(e, a)
  BY OwnIs
<1>2. Len(a) = 0 => a = <<>>
  <2>1. PICK S : a \in Seq(S)
    BY <1>1 DEF Own, IsSequence
  <2> QED BY <2>1, EmptySeq
<1>3. K = {a[i] : i \in 1 .. Len(a)}
  <2>1. a = <<>> => {a[i] : i \in 1 .. Len(a)} = {}
    BY NoneIsSequence
  <2> QED BY <1>1, <2>1 DEF Own
<1> QED BY <1>1, <1>3 DEF GivenBy, Own, Single

\* Out of the ordinary: it gives its answer unless it is silent or refuses.
LEMMA OddGives ==
  ASSUME Asking, step \in 1 .. Len(Requests), ecus \in [Ecu -> Profile],
         NEW e \in Ecu, NEW what \in Oddities, NEW a \in OddAnswer(e, what),
         NEW o, <<Svc, what>> \in o, NEW K,
         K = IF e \in Able /\ what \notin {"silent", "refused"}
             THEN ToSet(Answer(e, Svc, Id)) ELSE {}
  PROVE  GivenBy(a, K, o)
<1>1. PICK own : own = Answer(e, Svc, Id) /\ Own(e, own)
  BY OwnIs
<1>2. IsSequence(own) /\ (Single(o) => Distinct(own))
  BY <1>1 DEF Own, Single
<1>3. PICK neg, pend, other :
        /\ neg = Negative("negative", Svc) /\ pend = Negative("pending", Svc)
        /\ other = Positive(Svc, Id + 1, [i \in 1 .. 2 |-> 99], 6)
  OBVIOUS
<1>4. /\ neg \in Others /\ pend \in Others
      /\ Svc \notin Lists => other \in Others
  BY <1>3 DEF Others
<1>5. /\ \A i \in 1 .. Len(own) : own[i] # pend
      /\ Svc \notin Lists => \A i \in 1 .. Len(own) : own[i] # other
  <2>1. pend.kind = "pending" /\ other.id = Id + 1
    BY <1>3, KindsOf
  <2>2. Svc \notin Lists => Id + 1 # Id
    BY SvcIs DEF Serves, Lists
  <2> QED BY <1>1, <2>1, <2>2 DEF Own
<1>6. \A x : /\ IsSequence(<<x>>) /\ Len(<<x>>) = 1 /\ <<x>>[1] = x
  <2>1. \A x : <<x>> \in Seq({x}) /\ Len(<<x>>) = 1 /\ <<x>>[1] = x
    OBVIOUS
  <2> QED BY <2>1 DEF IsSequence
<1>7. what \notin {"silent", "refused"} => K = {own[i] : i \in 1 .. Len(own)}
  <2>1. own = <<>> => {own[i] : i \in 1 .. Len(own)} = {}
    BY NoneIsSequence
  <2> QED BY <1>1, <2>1 DEF Own
<1>8. ASSUME NEW x \in Others, NEW s, NEW t, IsSequence(s), IsSequence(t),
             (s = <<x>> /\ t = own) \/ (s = own /\ t = <<x>>), a = s \o t,
             \A i \in 1 .. Len(own) : own[i] # x,
             what \notin {"silent", "refused"}
      PROVE  GivenBy(a, K, o)
  <2>1. /\ IsSequence(a) /\ Len(a) = Len(s) + Len(t)
        /\ Len(s) \in Nat /\ Len(t) \in Nat
        /\ \A i \in 1 .. Len(s) : a[i] = s[i]
        /\ \A i \in 1 .. Len(t) : a[Len(s) + i] = t[i]
        /\ \A i \in 1 .. Len(s) + Len(t) :
             \/ i \in 1 .. Len(s)
             \/ \E j \in 1 .. Len(t) : i = Len(s) + j
    BY <1>8, ConcatIs
  <2>2. \A i \in 1 .. Len(s) : s[i] \in K \cup Others
    <3>1. \A i \in 1 .. Len(own) : own[i] \in K
      BY <1>7, <1>8
    <3>2. CASE s = own
      BY <3>1, <3>2
    <3>3. CASE s = <<x>>
      <4>1. Len(s) = 1 /\ s[1] = x
        BY <1>6, <3>3
      <4> QED BY <1>8, <4>1
    <3> QED BY <1>8, <3>2, <3>3
  <2>3. \A i \in 1 .. Len(t) : t[i] \in K \cup Others
    <3>1. \A i \in 1 .. Len(own) : own[i] \in K
      BY <1>7, <1>8
    <3>2. CASE t = own
      BY <3>1, <3>2
    <3>3. CASE t = <<x>>
      <4>1. Len(t) = 1 /\ t[1] = x
        BY <1>6, <3>3
      <4> QED BY <1>8, <4>1
    <3> QED BY <1>8, <3>2, <3>3
  <2>4. \A i \in 1 .. Len(a) : a[i] \in K \cup Others
    <3> TAKE i \in 1 .. Len(a)
    <3>1. CASE i \in 1 .. Len(s)
      BY <2>1, <2>2, <3>1
    <3>2. CASE \E j \in 1 .. Len(t) : i = Len(s) + j
      <4>1. PICK j \in 1 .. Len(t) : i = Len(s) + j
        BY <3>2
      <4>2. a[i] = t[j]
        BY <2>1, <4>1
      <4> QED BY <2>3, <4>2
    <3> QED BY <2>1, <3>1, <3>2
  <2>5. /\ \A i \in 1 .. Len(s) : i \in 1 .. Len(a)
        /\ \A i \in 1 .. Len(t) : Len(s) + i \in 1 .. Len(a)
    BY <2>1
  <2>6. \A m \in K : \E i \in 1 .. Len(a) : a[i] = m
    BY <1>7, <1>8, <2>1, <2>5
  <2>7. ASSUME Single(o) PROVE Distinct(a)
    <3>1. Distinct(own)
      BY <1>2, <2>7
    <3>2. Distinct(s) /\ Distinct(t)
      BY <1>6, <1>8, <3>1 DEF Distinct
    <3>3. \A i \in 1 .. Len(s) : \A j \in 1 .. Len(t) : s[i] # t[j]
      BY <1>6, <1>8
    <3> SUFFICES ASSUME NEW i \in 1 .. Len(a), NEW j \in 1 .. Len(a), i # j
                 PROVE  a[i] # a[j]
      BY DEF Distinct
    <3>4. /\ i \in 1 .. Len(s) \/ \E n \in 1 .. Len(t) : i = Len(s) + n
          /\ j \in 1 .. Len(s) \/ \E n \in 1 .. Len(t) : j = Len(s) + n
      BY <2>1
    <3>5. CASE i \in 1 .. Len(s) /\ j \in 1 .. Len(s)
      BY <2>1, <3>2, <3>5 DEF Distinct
    <3>6. CASE /\ i \in 1 .. Len(s)
               /\ \E n \in 1 .. Len(t) : j = Len(s) + n
      BY <2>1, <3>3, <3>6
    <3>7. CASE /\ j \in 1 .. Len(s)
               /\ \E n \in 1 .. Len(t) : i = Len(s) + n
      <4>1. PICK n \in 1 .. Len(t) : i = Len(s) + n
        BY <3>7
      <4>2. a[i] = t[n] /\ a[j] = s[j]
        BY <2>1, <3>7, <4>1
      <4> QED BY <3>3, <3>7, <4>2
    <3>8. CASE /\ \E n \in 1 .. Len(t) : i = Len(s) + n
               /\ \E n \in 1 .. Len(t) : j = Len(s) + n
      <4>1. PICK n \in 1 .. Len(t) : i = Len(s) + n
        BY <3>8
      <4>2. PICK p \in 1 .. Len(t) : j = Len(s) + p
        BY <3>8
      <4>3. n # p /\ a[i] = t[n] /\ a[j] = t[p]
        BY <2>1, <4>1, <4>2
      <4> QED BY <3>2, <4>3 DEF Distinct
    <3> QED BY <3>4, <3>5, <3>6, <3>7, <3>8
  <2> QED BY <2>1, <2>4, <2>6, <2>7 DEF GivenBy
<1>9. CASE what = "silent"
  <2>1. a = <<>>
    BY <1>9 DEF OddAnswer
  <2> QED BY <1>9, <2>1, NoneIsSequence DEF GivenBy, Distinct
<1>10. CASE what = "refused"
  <2>1. a = <<neg>>
    BY <1>3, <1>10 DEF OddAnswer
  <2>2. Distinct(a)
    BY <1>6, <2>1 DEF Distinct
  <2> QED BY <1>4, <1>6, <1>10, <2>1, <2>2 DEF GivenBy
<1>11. CASE what = "pending"
  <2>1. a = <<pend>> \o own
    BY <1>1, <1>3, <1>11 DEF OddAnswer
  <2>2. PICK s, t : s = <<pend>> /\ t = own
    OBVIOUS
  <2>3. IsSequence(s) /\ IsSequence(t) /\ a = s \o t
    BY <1>2, <1>6, <2>1, <2>2
  <2>4. what \notin {"silent", "refused"}
    BY <1>11
  <2> QED BY <1>4, <1>5, <1>8, <2>2, <2>3, <2>4
<1>12. CASE what = "same"
  <2>1. a = own \o own
    BY <1>1, <1>12 DEF OddAnswer
  <2>2. /\ IsSequence(a) /\ Len(a) = Len(own) + Len(own) /\ Len(own) \in Nat
        /\ \A i \in 1 .. Len(own) : a[i] = own[i]
        /\ \A i \in 1 .. Len(own) : a[Len(own) + i] = own[i]
        /\ \A i \in 1 .. Len(own) + Len(own) :
             \/ i \in 1 .. Len(own)
             \/ \E j \in 1 .. Len(own) : i = Len(own) + j
    BY <1>2, <2>1, ConcatIs
  <2>3. \A i \in 1 .. Len(a) : a[i] \in K
    <3>1. \A i \in 1 .. Len(own) : own[i] \in K
      BY <1>7, <1>12
    <3> TAKE i \in 1 .. Len(a)
    <3>2. CASE \E j \in 1 .. Len(own) : i = Len(own) + j
      <4>1. PICK j \in 1 .. Len(own) : i = Len(own) + j
        BY <3>2
      <4>2. a[i] = own[j]
        BY <2>2, <4>1
      <4> QED BY <3>1, <4>2
    <3> QED BY <2>2, <3>1, <3>2
  <2>4. \A i \in 1 .. Len(own) : i \in 1 .. Len(a)
    BY <2>2
  <2>5. \A m \in K : \E i \in 1 .. Len(a) : a[i] = m
    BY <1>7, <1>12, <2>2, <2>4
  <2>6. ~Single(o)
    BY <1>12 DEF Single
  <2> QED BY <2>2, <2>3, <2>5, <2>6 DEF GivenBy
<1>13. CASE what = "other"
  <2>1. Svc \notin Lists /\ (a = <<other>> \o own \/ a = own \o <<other>>)
    BY <1>1, <1>3, <1>13 DEF OddAnswer
  <2>2. CASE a = <<other>> \o own
    <3>1. PICK s, t : s = <<other>> /\ t = own
      OBVIOUS
    <3>2. IsSequence(s) /\ IsSequence(t) /\ a = s \o t
      BY <1>2, <1>6, <2>2, <3>1
    <3>3. what \notin {"silent", "refused"}
      BY <1>13
    <3> QED BY <1>4, <1>5, <1>8, <2>1, <3>1, <3>2, <3>3
  <2>3. CASE a = own \o <<other>>
    <3>1. PICK s, t : s = own /\ t = <<other>>
      OBVIOUS
    <3>2. IsSequence(s) /\ IsSequence(t) /\ a = s \o t
      BY <1>2, <1>6, <2>3, <3>1
    <3>3. what \notin {"silent", "refused"}
      BY <1>13
    <3> QED BY <1>4, <1>5, <1>8, <2>1, <3>1, <3>2, <3>3
  <2> QED BY <2>1, <2>2, <2>3
<1>14. CASE what = "mixed"
  <2>1. a = Reverse(own)
    BY <1>1, <1>14 DEF OddAnswer
  <2>2. Len(own) \in Nat
    BY <1>2, ConcatIs
  <2>3. a = [i \in 1 .. Len(own) |-> own[(Len(own) - i) + 1]]
    BY <2>1 DEF Reverse
  <2>4. \A i \in 1 .. Len(own) : (Len(own) - i) + 1 \in 1 .. Len(own)
    BY <2>2
  <2>5. Len(a) = Len(own) /\ IsSequence(a)
    <3>1. a \in Seq({own[i] : i \in 1 .. Len(own)})
      BY <2>2, <2>3, <2>4
    <3>2. Len(a) = Len(own)
      BY <2>2, <2>3
    <3> QED BY <3>1, <3>2 DEF IsSequence
  <2>6. \A i \in 1 .. Len(a) : a[i] \in K
    BY <1>7, <1>14, <2>3, <2>4, <2>5
  <2>7. \A i \in 1 .. Len(own) : own[i] = a[(Len(own) - i) + 1]
    <3> TAKE i \in 1 .. Len(own)
    <3>1. PICK j : j = (Len(own) - i) + 1
      OBVIOUS
    <3>2. j \in 1 .. Len(own) /\ (Len(own) - j) + 1 = i
      BY <2>2, <3>1
    <3> QED BY <2>3, <3>1, <3>2
  <2>8. \A m \in K : \E i \in 1 .. Len(a) : a[i] = m
    BY <1>7, <1>14, <2>4, <2>5, <2>7
  <2>9. ASSUME Single(o) PROVE Distinct(a)
    <3>1. Distinct(own)
      BY <1>2, <2>9
    <3> SUFFICES ASSUME NEW i \in 1 .. Len(a), NEW j \in 1 .. Len(a), i # j
                 PROVE  a[i] # a[j]
      BY DEF Distinct
    <3>2. PICK x, y : x = (Len(own) - i) + 1 /\ y = (Len(own) - j) + 1
      OBVIOUS
    <3>3. x \in 1 .. Len(own) /\ y \in 1 .. Len(own) /\ x # y
      BY <2>2, <2>5, <3>2
    <3> QED BY <2>3, <2>5, <3>1, <3>2, <3>3 DEF Distinct
  <2> QED BY <2>5, <2>6, <2>8, <2>9 DEF GivenBy
<1>15. CASE what = "short"
  <2>1. /\ Svc \in Lists /\ vehicle = "can" /\ own # <<>>
        /\ a = <<[own[1] EXCEPT !.body[1] = @ + 1]>>
    BY <1>1, <1>15 DEF OddAnswer
  <2>2. PICK x : x = [own[1] EXCEPT !.body[1] = @ + 1] /\ a = <<x>>
    BY <2>1
  <2>3. own[1] \in K
    <3>1. 1 \in 1 .. Len(own)
      BY <1>2, <2>1, RestIs
    <3> QED BY <1>7, <1>15, <3>1
  <2>4. x \in ShortsOf(K)
    BY <2>1, <2>2, <2>3 DEF ShortsOf
  <2>5. ~Single(o)
    BY <2>1 DEF Single
  <2> QED BY <1>6, <2>2, <2>4, <2>5 DEF GivenBy
<1> QED BY <1>9, <1>10, <1>11, <1>12, <1>13, <1>14, <1>15 DEF Oddities

\* Of what is sent the lines come.
LEMMA SendGives ==
  ASSUME TaskInv, NEW giving \in SUBSET Able, NEW answer,
         SendRequest(answer, giving), answer = [e \in Ecu |-> answer[e]],
         \A e \in Ecu :
           GivenBy(answer[e], IF e \in giving THEN ToSet(Answer(e, Svc, Id))
                              ELSE {}, odd')
  PROVE  Started'
<1>1. /\ pc' = "lines" /\ lines' \in {<<>>, <<Notice>>} /\ queue' = answer
      /\ said' = With(said, Svc, giving)
      /\ UNCHANGED <<task, vehicle, ecus, step, sent>>
      /\ sent = [e \in Ecu |-> 0]
  BY DEF SendRequest, TaskInv
<1>2. Svc' = Svc /\ Id' = Id /\ vehicle' = vehicle
  BY <1>1 DEF Svc, Id, Requests
<1>3. \A e : Answer(e, Svc, Id)' = Answer(e, Svc, Id)
  BY <1>1, <1>2 DEF Answer
<1>4. said'[Svc] = giving
  BY <1>1 DEF With
<1>5. ASSUME NEW e \in Ecu PROVE GivenBy(queue[e], Kept(e), odd)'
  <2>1. PICK K : K = IF e \in giving THEN ToSet(Answer(e, Svc, Id)) ELSE {}
    OBVIOUS
  <2>2. Kept(e)' = K
    BY <1>2, <1>3, <1>4, <2>1 DEF Kept
  <2>3. ShortsOf(Kept(e))' = ShortsOf(K) /\ Others' = Others
    BY <1>2, <2>2 DEF ShortsOf, Others
  <2>4. Single(odd)' <=> Single(odd')
    BY <1>2 DEF Single
  <2>5. PICK a : a = answer[e] /\ queue'[e] = a
    BY <1>1
  <2>6. GivenBy(a, K, odd')
    BY <2>1, <2>5
  <2> QED BY <2>2, <2>3, <2>4, <2>5, <2>6 DEF GivenBy
<1> QED BY <1>1, <1>5 DEF Started

LEMMA AskPlainlyStep ==
  ASSUME TaskInv, AskPlainly
  PROVE  Started'
<1>1. PICK answer : /\ answer = [e \in Ecu |-> Answer(e, Svc, Id)]
                    /\ SendRequest(answer, Able)
  BY DEF AskPlainly
<1>2. Asking /\ step \in 1 .. Len(Requests) /\ ecus \in [Ecu -> Profile]
  BY <1>1 DEF SendRequest, TaskInv
<1>3. \A e \in Ecu :
        GivenBy(answer[e], IF e \in Able THEN ToSet(Answer(e, Svc, Id))
                           ELSE {}, odd')
  BY <1>1, <1>2, PlainGives
<1>4. answer = [e \in Ecu |-> answer[e]]
  BY <1>1
<1> QED BY <1>1, <1>3, <1>4, SendGives

LEMMA AskOddlyStep ==
  ASSUME TaskInv, NEW e \in Ecu, NEW what \in Oddities, AskOddly(e, what)
  PROVE  Started'
<1>1. PICK giving : giving = IF what \in {"silent", "refused"}
                             THEN Able \ {e} ELSE Able
  OBVIOUS
<1>2. PICK a, answer :
        /\ a \in OddAnswer(e, what)
        /\ answer = [f \in Ecu |-> IF f = e THEN a ELSE Answer(f, Svc, Id)]
        /\ SendRequest(answer, giving)
  BY <1>1 DEF AskOddly
<1>3. Asking /\ step \in 1 .. Len(Requests) /\ ecus \in [Ecu -> Profile]
  BY <1>2 DEF SendRequest, TaskInv
<1>4. PICK o : o = odd' /\ <<Svc, what>> \in o
  BY DEF AskOddly
<1>5. ASSUME NEW f \in Ecu
      PROVE  GivenBy(answer[f], IF f \in giving THEN ToSet(Answer(f, Svc, Id))
                                ELSE {}, o)
  <2>1. PICK K : K = IF f \in giving THEN ToSet(Answer(f, Svc, Id)) ELSE {}
    OBVIOUS
  <2>2. CASE f = e
    <3>1. K = IF e \in Able /\ what \notin {"silent", "refused"}
              THEN ToSet(Answer(e, Svc, Id)) ELSE {}
      BY <1>1, <2>1, <2>2
    <3>2. GivenBy(a, K, o)
      BY <1>2, <1>3, <1>4, <3>1, OddGives
    <3>3. answer[f] = a
      BY <1>2, <2>2
    <3> QED BY <2>1, <3>2, <3>3
  <2>3. CASE f # e
    <3>1. f \in giving <=> f \in Able
      BY <1>1, <2>3
    <3>2. PICK b : b = Answer(f, Svc, Id) /\ answer[f] = b
      BY <1>2, <2>3
    <3>3. K = IF f \in Able THEN ToSet(b) ELSE {}
      BY <2>1, <3>1, <3>2
    <3>4. GivenBy(b, K, o)
      BY <1>3, <3>2, <3>3, PlainGives
    <3> QED BY <2>1, <3>2, <3>4
  <2> QED BY <2>2, <2>3
<1>6. answer = [f \in Ecu |-> answer[f]] /\ giving \in SUBSET Able
  BY <1>1, <1>2
<1> QED BY <1>2, <1>4, <1>5, <1>6, SendGives

-----------------------------------------------------------------------------
(* What is asked, and when                                                 *)

LEMMA TaskInit == ASSUME Init PROVE TaskInv
<1>1. task \in Tasks /\ vehicle \in {"can", "legacy"}
  BY VehiclesAssumption DEF Init
<1>2. /\ step = 1 /\ queue = [e \in Ecu |-> <<>>] /\ lines = <<>>
      /\ sent = [e \in Ecu |-> 0] /\ codes = <<>> /\ ret = "none"
      /\ said = <<>> /\ DOMAIN said = {} /\ DOMAIN codes = {}
  <2>1. DOMAIN <<>> = {}
    OBVIOUS
  <2> QED BY <2>1 DEF Init
<1>3. pc = IF task = "info" THEN "asking"
           ELSE IF task = "open" THEN "opening" ELSE "request"
  BY DEF Init, WalkInit
<1>4. Asking <=> pc = "request"
  BY <1>1, <1>3, TasksAssumption DEF Asking
<1>5. ASSUME Asking
      PROVE  /\ step \in 1 .. Len(Requests) /\ ecus \in [Ecu -> Profile]
             /\ Asked = {}
  <2>1. step \in 1 .. Len(Requests)
    BY <1>2, <1>5, RequestsAre DEF Asking
  <2>2. ecus \in [Ecu -> Profiles[task]]
    BY <1>5 DEF Init, Asking
  <2>3. Profiles[task] \subseteq Profile
    BY <1>1, ProfilesAssumption
  <2>4. Asked = {}
    BY <1>2, <1>4, <1>5 DEF Asked, Passed
  <2> QED BY <2>1, <2>2, <2>3, <2>4
<1>6. pc \in {"asking", "opening", "request"}
  BY <1>3
<1> QED BY <1>1, <1>2, <1>4, <1>5, <1>6 DEF TaskInv

LEMMA TaskStays ==
  ASSUME TaskInv, pc = "lines",
         UNCHANGED <<pc, task, vehicle, ecus, step, codes, ret, said>>
  PROVE  TaskInv'
<1>1. /\ pc' = pc /\ task' = task /\ vehicle' = vehicle /\ ecus' = ecus
      /\ step' = step /\ codes' = codes /\ ret' = ret /\ said' = said
  OBVIOUS
<1>2. Requests' = Requests
  BY <1>1 DEF Requests
<1>3. Svc' = Svc /\ Asked' = Asked
  BY <1>1, <1>2 DEF Svc, Asked, Passed
<1> QED BY <1>1, <1>2, <1>3 DEF TaskInv, Asking

LEMMA TaskSends ==
  ASSUME TaskInv, NEW giving \in SUBSET Able, NEW answer,
         SendRequest(answer, giving)
  PROVE  TaskInv'
<1>1. /\ pc = "request" /\ pc' = "lines"
      /\ said' = With(said, Svc, giving)
      /\ task' = task /\ vehicle' = vehicle /\ ecus' = ecus /\ step' = step
      /\ codes' = codes /\ ret' = ret
  BY DEF SendRequest, resultVars
<1>2. /\ Asking /\ step \in 1 .. Len(Requests)
      /\ DOMAIN said = Passed(step - 1) /\ Asked = Passed(step - 1)
  BY <1>1 DEF TaskInv, Asked
<1>3. Requests' = Requests
  BY <1>1 DEF Requests
<1>4. Svc' = Svc /\ Asked' = Passed(step)
  BY <1>1, <1>3 DEF Svc, Asked, Passed
<1>5. Passed(step) = Passed(step - 1) \cup {Svc} /\ Svc \notin Passed(step - 1)
  <2>1. PICK n \in Nat : n = step - 1 /\ n < Len(Requests) /\ n + 1 = step
    <3>1. Len(Requests) \in Nat
      BY <1>2, RequestsAre DEF Asking
    <3> QED BY <1>2, <3>1
  <2>2. Passed(n + 1) = Passed(n) \cup {Requests[n + 1][1]}
        /\ Requests[n + 1][1] \notin Passed(n)
    BY <1>2, <2>1, PassedIs
  <2> QED BY <2>1, <2>2 DEF Svc
<1>6. DOMAIN said' = Asked'
  BY <1>1, <1>2, <1>4, <1>5 DEF With
<1>7. ASSUME NEW s \in Asked'
      PROVE  said'[s] \subseteq {e \in Ecu : s \in ecus[e].answers}
  <2>1. CASE s = Svc
    <3>1. said'[s] = giving
      BY <1>1, <2>1 DEF With
    <3> QED BY <2>1, <3>1 DEF Able
  <2>2. CASE s # Svc
    <3>1. s \in DOMAIN said /\ said'[s] = said[s]
      BY <1>1, <1>2, <1>4, <1>5, <2>2 DEF With
    <3> QED BY <1>2, <3>1 DEF TaskInv
  <2> QED BY <2>1, <2>2
<1>8. /\ DOMAIN codes' \subseteq DOMAIN said' /\ Svc' \notin DOMAIN codes'
  BY <1>1, <1>2, <1>4, <1>5, <1>6 DEF TaskInv
<1> QED BY <1>1, <1>3, <1>4, <1>6, <1>7, <1>8 DEF TaskInv, Asking

\* The prompt ends the lines of the request.
LEMMA TaskProceeds ==
  ASSUME TaskInv, LinesInv, AtPrompt
  PROVE  /\ TaskInv' /\ pc' \in {"request", "done"}
         /\ pc' = "request" => step' = step + 1 /\ ret' = ret
         /\ pc' = "done" => step' = step
<1>1. /\ pc = "lines" /\ Empty /\ lines' = <<>>
      /\ task' = task /\ vehicle' = vehicle /\ ecus' = ecus /\ queue' = queue
      /\ sent' = sent /\ said' = said
  BY DEF AtPrompt
<1>2. /\ Asking /\ step \in 1 .. Len(Requests) /\ Len(Requests) \in Nat
      /\ Svc \in DOMAIN said /\ Asked = Passed(step) /\ DOMAIN said = Asked
  <2>1. Asking /\ step \in 1 .. Len(Requests) /\ Asked = Passed(step)
        /\ DOMAIN said = Asked
    BY <1>1 DEF TaskInv, Asked
  <2>2. Len(Requests) \in Nat
    BY <2>1, RequestsAre DEF Asking
  <2>3. Svc \in Passed(step)
    BY <2>1 DEF Passed, Svc
  <2> QED BY <2>1, <2>2, <2>3
<1>3. queue' = [e \in Ecu |-> <<>>] /\ sent' = [e \in Ecu |-> 0]
  <2>1. AllQueued(queue, sent)
    BY <1>1 DEF LinesInv, LinesOK
  <2>2. \A e \in Ecu : queue[e] = <<>> /\ sent[e] = 0
    BY <1>1, <2>1 DEF AllQueued, Queued, Empty
  <2> QED BY <1>1, <2>1, <2>2 DEF AllQueued
<1>4. PICK got : \/ Fails(got) \/ ReadLamp(got) \/ ReadCodes(got)
                 \/ ReadVIN(got) \/ ReadDataByIdentifier(got)
  BY DEF AtPrompt
<1>5. /\ Proceed \/ \E how : Finish(how)
      /\ \/ codes' = codes
         \/ \E list : codes' = With(codes, Svc, list)
  BY <1>4 DEF Fails, ReadLamp, ReadCodes, ReadVIN, ReadDataByIdentifier
<1>6. \/ pc' = "request" /\ step < Len(Requests) /\ step' = step + 1
         /\ ret' = ret
      \/ pc' = "done" /\ step' = step
  BY <1>5 DEF Proceed, Finish
<1>7. DOMAIN codes' \subseteq DOMAIN said
  BY <1>2, <1>5 DEF With, TaskInv
<1>8. Requests' = Requests
  BY <1>1 DEF Requests
<1>9. Asked' = Asked /\ step' \in 1 .. Len(Requests)
  <2>1. Asked' = Passed(IF pc' = "request" THEN step' - 1 ELSE step')
    BY <1>8 DEF Asked, Passed
  <2>2. (step + 1) - 1 = step
    BY <1>2
  <2>3. Asked' = Passed(step)
    BY <1>6, <2>1, <2>2
  <2> QED BY <1>2, <1>6, <2>3
<1>10. pc' = "request" => ret' = "none"
  BY <1>1, <1>6 DEF TaskInv
<1>11. TaskInv'
  BY <1>1, <1>2, <1>3, <1>6, <1>7, <1>8, <1>9, <1>10 DEF TaskInv, Asking
<1> QED BY <1>6, <1>11

-----------------------------------------------------------------------------
(* The prompt                                                              *)

\* Sequences without members.
LEMMA EmptyIs ==
  ASSUME NEW s, IsSequence(s)
  PROVE  /\ Len(s) \in Nat /\ DOMAIN s = 1 .. Len(s)
         /\ s = <<>> <=> Len(s) = 0
         /\ s # <<>> => 1 \in 1 .. Len(s)
<1>1. PICK S : s \in Seq(S)
  BY DEF IsSequence
<1>2. Len(s) = 0 => s = <<>>
  BY <1>1, EmptySeq
<1>3. s = <<>> => Len(s) = 0
  BY NoneIsSequence
<1> QED BY <1>1, <1>2, <1>3

\* What the round trip makes of the lines.
Trips(trip) ==
  \/ Spoilt(lines) /\ trip = Result(<<>>, "error")
  \/ ~Spoilt(lines) /\ Got(lines) = <<>> /\ trip = Result(<<>>, "noResponse")
  \/ ~Spoilt(lines) /\ Got(lines) # <<>> /\ trip = Result(Got(lines), "nil")

LEMMA RoundTripIs ==
  ASSUME IsSequence(lines), \A i \in 1 .. Len(lines) : lines[i] # NoData,
         NEW trip, trip = RoundTripLines(Printed, vehicle = "can")
  PROVE  Trips(trip)
<1>1. PICK n \in Nat : n = Len(lines) /\ DOMAIN lines = 1 .. n
  BY EmptyIs
<1>2. PICK d : d = DataOf(lines) /\ IsSequence(d)
  BY LinesAdd
<1>3. PICK S : S = {Notice, Damaged}
  OBVIOUS
<1>4. /\ d = Without(lines, S)
      /\ \A i \in 1 .. Len(d) : d[i] \notin S
      /\ \A i \in 1 .. Len(d) : \E j \in 1 .. Len(lines) : d[i] = lines[j]
      /\ \A j \in 1 .. Len(lines) : lines[j] \notin S =>
           \E i \in 1 .. Len(d) : d[i] = lines[j]
  <2>1. d = Without(lines, S)
    BY <1>2, <1>3 DEF DataOf
  <2> QED BY <2>1, WithoutIs
<1>5. DOMAIN d = 1 .. Len(d) /\ Len(d) \in Nat /\ (d = <<>> <=> Len(d) = 0)
  BY <1>2, EmptyIs
<1>6. /\ Notice.what = "notice" /\ Damaged.what = "damaged"
      /\ NoData.what = "noData" /\ Trouble.what = "trouble"
      /\ Unreadable.what = "unreadable"
  BY DEF Notice, Damaged, NoData, Trouble, Unreadable
<1>7. Notice \in S /\ Unreadable \notin S /\ Trouble \notin S
      /\ NoData # Trouble /\ Notice \notin {NoData, Trouble, Unreadable}
  BY <1>3, <1>6
<1>8. Parsed(lines) = ParsedCAN(d)
  BY <1>2 DEF Parsed
<1>9. ASSUME d = <<>>, \A i \in 1 .. n : lines[i] # Trouble
      PROVE  ~Spoilt(lines) /\ Got(lines) = <<>>
  <2>1. ParsedCAN(d) = Fresh
    BY <1>9, NoneIsSequence, ParsedAppend
  <2>2. Fresh.err = "nil" /\ Fresh.rs = <<>>
    BY DEF Fresh
  <2>3. ParseLegacy(d).rs = <<>>
    <3>1. ParseLegacy(<<>>).rs =
            [i \in DOMAIN <<>> |-> Response(<<>>[i].id, <<>>[i].msg)]
      BY DEF ParseLegacy, Result
    <3> QED BY <1>9, <3>1
  <2>4. \A i \in 1 .. n : lines[i] # Unreadable
    BY <1>1, <1>4, <1>5, <1>7, <1>9
  <2>5. ~Spoilt(lines)
    BY <1>1, <1>8, <1>9, <2>1, <2>2, <2>4 DEF Spoilt
  <2> QED BY <1>2, <1>8, <2>1, <2>2, <2>3, <2>5 DEF Got
<1>10. CASE \A i \in 1 .. n : lines[i] = Notice
  <2>1. PICK p : p = Append(lines, NoData) /\ p = Printed
    BY <1>1, <1>10 DEF Printed
  <2>2. /\ DOMAIN p = 1 .. n + 1 /\ p[n + 1] = NoData
        /\ \A i \in 1 .. n : p[i] = Notice
    <3>1. /\ IsSequence(p) /\ Len(p) = n + 1 /\ p[n + 1] = NoData
          /\ \A i \in 1 .. n : p[i] = lines[i]
      <4>1. PICK x : x = NoData
        OBVIOUS
      <4>2. p = Append(lines, x)
        BY <2>1, <4>1
      <4> QED BY <1>1, <4>1, <4>2, AppendedIs
    <3>2. DOMAIN p = 1 .. Len(p)
      BY <3>1, EmptyIs
    <3> QED BY <1>10, <3>1, <3>2
  <2>3. PICK ends : ends = {i \in DOMAIN p : p[i] \in {NoData, Trouble}}
    OBVIOUS
  <2>4. ends = {n + 1}
    <3>1. n + 1 \in ends
      BY <2>2, <2>3
    <3>2. \A i \in ends : i = n + 1
      BY <1>7, <2>2, <2>3
    <3> QED BY <3>1, <3>2
  <2>5. PICK first : first = CHOOSE i \in ends : \A j \in ends : i <= j
    OBVIOUS
  <2>6. first = n + 1
    <3>1. \E i \in ends : \A j \in ends : i <= j
      BY <2>4
    <3> QED BY <2>4, <2>5, <3>1
  <2>7. trip = Result(<<>>, IF p[first] = NoData THEN "noResponse"
                            ELSE "error")
    BY <2>1, <2>3, <2>4, <2>5 DEF RoundTripLines
  <2>8. trip = Result(<<>>, "noResponse")
    BY <2>2, <2>6, <2>7
  <2>9. d = <<>>
    BY <1>1, <1>4, <1>5, <1>7, <1>10
  <2> QED BY <1>7, <1>9, <1>10, <2>8, <2>9 DEF Trips
<1>11. CASE ~\A i \in 1 .. n : lines[i] = Notice
  <2>1. Printed = lines
    BY <1>1, <1>11 DEF Printed
  <2>2. PICK ends : ends = {i \in DOMAIN lines :
                              lines[i] \in {NoData, Trouble}}
    OBVIOUS
  <2>3. \A i \in ends : lines[i] = Trouble
    BY <1>1, <2>2
  <2>4. CASE ends # {}
    <3>1. PICK first : first = CHOOSE i \in ends : \A j \in ends : i <= j
      OBVIOUS
    <3>2. first \in ends
      <4>1. ends \in SUBSET Nat
        BY <1>1, <2>2
      <4>2. \E i \in ends : \A j \in ends : i <= j
        BY <2>4, <4>1, Least
      <4> QED BY <3>1, <4>2
    <3>3. trip = Result(<<>>, IF lines[first] = NoData THEN "noResponse"
                              ELSE "error")
      BY <2>1, <2>2, <2>4, <3>1 DEF RoundTripLines
    <3>4. trip = Result(<<>>, "error")
      BY <1>7, <2>3, <3>2, <3>3
    <3>5. Spoilt(lines)
      BY <1>1, <2>2, <2>3, <3>2 DEF Spoilt
    <3> QED BY <3>4, <3>5 DEF Trips
  <2>5. CASE ends = {}
    <3>1. \A i \in 1 .. n : lines[i] # Trouble
      BY <1>1, <2>2, <2>5
    <3>2. trip = IF d = <<>> THEN Result(<<>>, "noResponse")
                 ELSE Parse(d, vehicle = "can")
      BY <1>3, <1>4, <2>1, <2>2, <2>5 DEF RoundTripLines
    <3>3. CASE d = <<>>
      BY <1>9, <3>1, <3>2, <3>3 DEF Trips
    <3>4. CASE d # <<>>
      <4>1. trip = Parse(d, vehicle = "can")
        BY <3>2, <3>4
      <4>2. (\E i \in DOMAIN d : d[i] = Unreadable) <=>
              \E i \in 1 .. n : lines[i] \in {Unreadable, Trouble}
        <5>1. ASSUME NEW i \in DOMAIN d, d[i] = Unreadable
              PROVE  \E j \in 1 .. n : lines[j] \in {Unreadable, Trouble}
          BY <1>1, <1>4, <1>5, <5>1
        <5>2. ASSUME NEW j \in 1 .. n, lines[j] \in {Unreadable, Trouble}
              PROVE  \E i \in DOMAIN d : d[i] = Unreadable
          <6>1. lines[j] = Unreadable /\ lines[j] \notin S
            BY <1>7, <3>1, <5>2
          <6> QED BY <1>1, <1>4, <1>5, <6>1
        <5> QED BY <5>1, <5>2
      <4>3. CASE \E i \in DOMAIN d : d[i] = Unreadable
        <5>1. trip = Result(<<>>, "error")
          BY <4>1, <4>3 DEF Parse
        <5>2. Spoilt(lines)
          BY <1>1, <4>2, <4>3 DEF Spoilt
        <5> QED BY <5>1, <5>2 DEF Trips
      <4>4. CASE ~\E i \in DOMAIN d : d[i] = Unreadable
        <5>1. Spoilt(lines) <=> vehicle = "can" /\ ParsedCAN(d).err # "nil"
          BY <1>1, <1>8, <4>2, <4>4 DEF Spoilt
        <5>2. CASE vehicle = "can"
          <6>1. PICK s : s = ParsedCAN(d)
            OBVIOUS
          <6>2. trip = AfterLines(s)
            BY <4>1, <4>4, <5>2, <6>1 DEF Parse, ParseCAN
          <6>3. Got(lines) = s.rs
            BY <1>8, <5>2, <6>1 DEF Got
          <6> QED BY <5>1, <5>2, <6>1, <6>2, <6>3 DEF AfterLines, Trips
        <5>3. CASE vehicle # "can"
          <6>1. PICK g : g = [i \in DOMAIN d |->
                                Response(d[i].id, d[i].msg)]
            OBVIOUS
          <6>2. trip = Result(g, "nil")
            BY <4>1, <4>4, <5>3, <6>1 DEF Parse, ParseLegacy
          <6>3. Got(lines) = g
            BY <1>2, <5>3, <6>1 DEF Got, ParseLegacy, Result
          <6>4. g # <<>>
            <7>1. DOMAIN g # {}
              <8>1. 1 \in DOMAIN d
                BY <1>5, <3>4
              <8> QED BY <6>1, <8>1
            <7> QED BY <7>1
          <6> QED BY <5>1, <5>3, <6>2, <6>3, <6>4 DEF Trips
        <5> QED BY <5>2, <5>3
      <4> QED BY <4>3, <4>4
    <3> QED BY <3>3, <3>4
  <2> QED BY <2>4, <2>5
<1> QED BY <1>10, <1>11

\* The useful ones of the responses taken, if nothing went wrong.
Picked(got) ==
  /\ got.err \in {"nil", "noResponse", "refused", "error"}
  /\ got.err = "error" <=> Spoilt(lines)
  /\ IsSequence(got.rs) /\ (got.err = "nil" <=> got.rs # <<>>)
  /\ ~Spoilt(lines) =>
       /\ \A i \in 1 .. Len(got.rs) :
            /\ Useful(got.rs[i].msg)
            /\ \E j \in 1 .. Len(Got(lines)) : got.rs[i] = Got(lines)[j]
       /\ \A j \in 1 .. Len(Got(lines)) : Useful(Got(lines)[j].msg) =>
            \E i \in 1 .. Len(got.rs) : got.rs[i] = Got(lines)[j]
       /\ Distinct(Got(lines)) => Distinct(got.rs)

LEMMA ResultIs ==
  ASSUME NEW rs, NEW err, NEW r, r = Result(rs, err)
  PROVE  r.rs = rs /\ r.err = err
BY DEF Result

\* The members with some feature.
Left(t, s, T) ==
  /\ IsSequence(t)
  /\ \A i \in 1 .. Len(t) :
       t[i] \in T /\ \E j \in 1 .. Len(s) : t[i] = s[j]
  /\ \A j \in 1 .. Len(s) : s[j] \in T =>
       \E i \in 1 .. Len(t) : t[i] = s[j]
  /\ Distinct(s) => Distinct(t)

LEMMA WithoutThose ==
  ASSUME NEW s, IsSequence(s), NEW S,
         NEW T,
         \A i \in 1 .. Len(s) : s[i] \in S <=> s[i] \notin T,
         NEW t, t = Without(s, S)
  PROVE  Left(t, s, T)
<1>1. /\ IsSequence(t) /\ \A i \in 1 .. Len(t) : t[i] \notin S
      /\ \A i \in 1 .. Len(t) : \E j \in 1 .. Len(s) : t[i] = s[j]
      /\ \A j \in 1 .. Len(s) : s[j] \notin S =>
           \E i \in 1 .. Len(t) : t[i] = s[j]
      /\ Distinct(s) => Distinct(t)
  <2> DEFINE w == Without(s, S)
  <2>1. /\ IsSequence(w) /\ \A i \in 1 .. Len(w) : w[i] \notin S
        /\ \A i \in 1 .. Len(w) : \E j \in 1 .. Len(s) : w[i] = s[j]
        /\ \A j \in 1 .. Len(s) : s[j] \notin S =>
             \E i \in 1 .. Len(w) : w[i] = s[j]
        /\ Distinct(s) => Distinct(w)
    BY WithoutIs
  <2>2. t = w
    OBVIOUS
  <2> HIDE DEF w
  <2> QED BY <2>1, <2>2
<1>2. \A i \in 1 .. Len(t) : t[i] \in T
  BY <1>1
<1> QED BY <1>1, <1>2 DEF Left

LEMMA WantedIs ==
  ASSUME NEW trip, Trips(trip),
         ~Spoilt(lines) => /\ IsSequence(Got(lines))
                           /\ \A i \in 1 .. Len(Got(lines)) :
                                Got(lines)[i].ecu \in Ecu,
         NEW got, got = Wanted(Filtered(trip))
  PROVE  Picked(got)
<1>1. CASE trip.err # "nil"
  <2>1. Filtered(trip) = trip
    BY <1>1 DEF Filtered
  <2>2. got = trip
    BY <1>1, <2>1 DEF Wanted
  <2>3. CASE Spoilt(lines) /\ trip = Result(<<>>, "error")
    <3>1. got.rs = <<>> /\ got.err = "error"
      BY <2>2, <2>3, ResultIs
    <3> QED BY <2>3, <3>1, NoneIsSequence DEF Picked
  <2>4. CASE ~Spoilt(lines) /\ Got(lines) = <<>>
             /\ trip = Result(<<>>, "noResponse")
    <3>1. got.rs = <<>> /\ got.err = "noResponse"
      BY <2>2, <2>4, ResultIs
    <3> QED BY <2>4, <3>1, NoneIsSequence DEF Picked, Distinct
  <2>5. CASE ~Spoilt(lines) /\ trip = Result(Got(lines), "nil")
    BY <1>1, <2>5, ResultIs
  <2> QED BY <2>3, <2>4, <2>5 DEF Trips
<1>2. CASE trip.err = "nil"
  <2>1. ~Spoilt(lines) /\ trip = Result(Got(lines), "nil")
    BY <1>2, ResultIs DEF Trips
  <2>2. PICK g, G : /\ g = Got(lines) /\ trip.rs = g /\ IsSequence(g)
                    /\ G = {g[i] : i \in 1 .. Len(g)}
    BY <2>1, ResultIs
  <2>3. ToSet(g) = G
    <3>1. DOMAIN g = 1 .. Len(g)
      BY <2>2, EmptyIs
    <3> QED BY <2>2, <3>1 DEF ToSet
  <2>4. PICK A, T : /\ A = {r \in ToSet(g) : ~Answers(r.msg)}
                    /\ T = {r \in G : Answers(r.msg)}
    OBVIOUS
  <2>5. PICK rs : rs = Without(g, A)
    OBVIOUS
  <2>6. /\ IsSequence(rs)
        /\ \A i \in 1 .. Len(rs) :
             rs[i] \in T /\ \E j \in 1 .. Len(g) : rs[i] = g[j]
        /\ \A j \in 1 .. Len(g) : g[j] \in T =>
             \E i \in 1 .. Len(rs) : rs[i] = g[j]
        /\ Distinct(g) => Distinct(rs)
    <3>1. \A i \in 1 .. Len(g) : g[i] \in A <=> g[i] \notin T
      BY <2>2, <2>3, <2>4
    <3>2. Left(rs, g, T)
      BY <2>2, <2>5, <3>1, WithoutThose
    <3> QED BY <3>2 DEF Left
  <2>7. PICK s : s = SortedByEcu(rs)
    OBVIOUS
  <2>8. /\ IsSequence(s)
        /\ \A i \in 1 .. Len(s) : \E j \in 1 .. Len(rs) : s[i] = rs[j]
        /\ \A j \in 1 .. Len(rs) : \E i \in 1 .. Len(s) : s[i] = rs[j]
        /\ Distinct(rs) => Distinct(s)
    <3>1. \A i \in 1 .. Len(rs) : rs[i].ecu \in Ecu
      <4>1. \A i \in 1 .. Len(g) : g[i].ecu \in Ecu
        BY <2>1, <2>2
      <4> QED BY <2>6, <4>1
    <3> QED BY <2>6, <2>7, <3>1, SortedIs
  <2>9. PICK f : f = Filtered(trip) /\ f.rs = s
                 /\ f.err = IF rs = <<>> THEN "noResponse" ELSE "nil"
    <3>1. Filtered(trip) = Result(s, IF rs = <<>> THEN "noResponse"
                                     ELSE "nil")
      BY <1>2, <2>2, <2>4, <2>5, <2>7 DEF Filtered
    <3> QED BY <3>1, ResultIs
  <2>10. CASE rs = <<>>
    <3>1. got.rs = s /\ got.err = "noResponse"
      BY <2>9, <2>10 DEF Wanted
    <3>2. s = <<>>
      <4>1. Len(rs) = 0
        BY <2>10, NoneIsSequence
      <4>2. Len(s) = 0
        BY <2>8, <4>1, EmptyIs
      <4> QED BY <2>8, <4>2, EmptyIs
    <3>3. ASSUME NEW j \in 1 .. Len(g), Useful(g[j].msg) PROVE FALSE
      <4>1. g[j] \in T
        BY <2>2, <2>4, <3>3 DEF Useful
      <4>2. Len(rs) = 0
        BY <2>10, NoneIsSequence
      <4> QED BY <2>6, <4>1, <4>2
    <3> QED BY <2>1, <2>2, <3>1, <3>2, <3>3, NoneIsSequence
            DEF Picked, Distinct
  <2>11. CASE rs # <<>>
    <3>1. got = PositiveOf(s)
      BY <2>9, <2>11 DEF Wanted
    <3>2. PICK U, B, P :
            /\ U = {s[i] : i \in 1 .. Len(s)}
            /\ B = {r \in ToSet(s) : r.msg.kind # "positive"}
            /\ P = {r \in U : r.msg.kind = "positive"}
      OBVIOUS
    <3>3. ToSet(s) = U
      <4>1. DOMAIN s = 1 .. Len(s)
        BY <2>8, EmptyIs
      <4> QED BY <3>2, <4>1 DEF ToSet
    <3>4. PICK pos : pos = Without(s, B)
      OBVIOUS
    <3>5. /\ IsSequence(pos)
          /\ \A i \in 1 .. Len(pos) :
               pos[i] \in P /\ \E j \in 1 .. Len(s) : pos[i] = s[j]
          /\ \A j \in 1 .. Len(s) : s[j] \in P =>
               \E i \in 1 .. Len(pos) : pos[i] = s[j]
          /\ Distinct(s) => Distinct(pos)
      <4>1. \A i \in 1 .. Len(s) : s[i] \in B <=> s[i] \notin P
        BY <3>2, <3>3
      <4>2. Left(pos, s, P)
        BY <2>8, <3>4, <4>1, WithoutThose
      <4> QED BY <4>2 DEF Left
    <3>6. got.rs = pos /\ got.err = IF pos = <<>> THEN "refused" ELSE "nil"
      <4>1. Positives(s) = pos
        BY <3>2, <3>4 DEF Positives
      <4>2. got = Result(pos, IF pos = <<>> THEN "refused" ELSE "nil")
        BY <3>1, <4>1 DEF PositiveOf
      <4> QED BY <4>2, ResultIs
    <3>7. ASSUME NEW i \in 1 .. Len(pos)
          PROVE  Useful(pos[i].msg) /\ \E j \in 1 .. Len(g) : pos[i] = g[j]
      <4>1. PICK k \in 1 .. Len(s) : pos[i] = s[k]
        BY <3>5
      <4>2. PICK l \in 1 .. Len(rs) : s[k] = rs[l]
        BY <2>8
      <4>3. rs[l] \in T /\ \E j \in 1 .. Len(g) : rs[l] = g[j]
        BY <2>6
      <4>4. pos[i].msg.kind = "positive"
        BY <3>2, <3>5
      <4> QED BY <2>4, <4>1, <4>2, <4>3, <4>4 DEF Useful
    <3>8. ASSUME NEW j \in 1 .. Len(g), Useful(g[j].msg)
          PROVE  \E i \in 1 .. Len(pos) : pos[i] = g[j]
      <4>1. g[j] \in T /\ g[j].msg.kind = "positive"
        BY <2>2, <2>4, <3>8 DEF Useful
      <4>2. PICK k \in 1 .. Len(rs) : rs[k] = g[j]
        BY <2>6, <4>1
      <4>3. PICK l \in 1 .. Len(s) : s[l] = g[j]
        BY <2>8, <4>2
      <4>4. s[l] \in P
        BY <3>2, <4>1, <4>3
      <4> QED BY <3>5, <4>3, <4>4
    <3>9. Distinct(g) => Distinct(pos)
      BY <2>6, <2>8, <3>5
    <3> QED BY <2>1, <2>2, <3>5, <3>6, <3>7, <3>8, <3>9 DEF Picked
  <2> QED BY <2>10, <2>11
<1> QED BY <1>1, <1>2

\* What a request returns: useful messages of ECUs, and without a damaged
\* line all those of an ECU that gave its answer.
In(x, rs) == \E i \in 1 .. Len(rs) : rs[i] = x
Meant(x) ==
  /\ x.ecu \in Ecu /\ x = Response(x.ecu, x.msg) /\ Useful(x.msg)
  /\ \/ x.msg \in Kept(x.ecu) \cup Shorts(x.ecu)
     \/ /\ Svc \in Lists
        /\ \E m \in Kept(x.ecu) \cup Shorts(x.ecu) : x.msg = Zero(m)
Heard(got) ==
  /\ got.err \in {"nil", "noResponse", "refused", "error"}
  /\ got.err = "error" => Harmed(Svc)
  /\ IsSequence(got.rs) /\ (got.err = "nil" <=> got.rs # <<>>)
  /\ got.err # "error" => \A i \in 1 .. Len(got.rs) : Meant(got.rs[i])
  /\ ~Harmed(Svc) =>
       /\ \A e \in Ecu :
            \/ \A m \in Kept(e) : In(Response(e, m), got.rs)
            \/ \E m \in Shorts(e) : In(Response(e, m), got.rs)
       /\ Single(odd) => Distinct(got.rs)

LEMMA HeardAtPrompt ==
  ASSUME TaskInv, LinesInv, pc = "lines", Empty,
         NEW got, got = Wanted(Request)
  PROVE  Heard(got)
<1>1. /\ Asking /\ step \in 1 .. Len(Requests) /\ ecus \in [Ecu -> Profile]
      /\ said[Svc] \subseteq {f \in Ecu : Svc \in ecus[f].answers}
  <2>1. Asking /\ step \in 1 .. Len(Requests) /\ ecus \in [Ecu -> Profile]
        /\ Asked = Passed(step)
        /\ \A s \in Asked :
             said[s] \subseteq {f \in Ecu : s \in ecus[f].answers}
    BY DEF TaskInv, Asked
  <2>2. Svc \in Passed(step)
    BY <2>1 DEF Passed, Svc
  <2> QED BY <2>1, <2>2
<1>2. LinesOK(lines, queue, sent, odd)
  BY DEF LinesInv
<1>3. PICK g : g = Got(lines)
  OBVIOUS
<1>4. /\ IsSequence(lines) /\ \A i \in 1 .. Len(lines) : lines[i] # NoData
      /\ Spoilt(lines) => Harmed(Svc)
      /\ ~Spoilt(lines) => AllGenuine(g)
      /\ ~Harmed(Svc) => /\ \A e \in Ecu : Complete(e, g, queue)
                         /\ Single(odd) => Once(g, queue)
  BY <1>2, <1>3 DEF LinesOK, Sound, Harmed
<1>5. PICK trip : trip = RoundTripLines(Printed, vehicle = "can")
  OBVIOUS
<1>6. Trips(trip)
  BY <1>4, <1>5, RoundTripIs
<1>7. ~Spoilt(lines) => IsSequence(g) /\ \A i \in 1 .. Len(g) : Genuine(g[i])
  BY <1>4 DEF AllGenuine
<1>8. Picked(got)
  <2>1. got = Wanted(Filtered(trip))
    BY <1>5 DEF Request
  <2>2. ~Spoilt(lines) => /\ IsSequence(Got(lines))
                          /\ \A i \in 1 .. Len(Got(lines)) :
                               Got(lines)[i].ecu \in Ecu
    BY <1>3, <1>7 DEF Genuine
  <2> QED BY <1>6, <2>1, <2>2, WantedIs
<1>9. ASSUME got.err # "error", NEW i \in 1 .. Len(got.rs)
      PROVE  Meant(got.rs[i])
  <2>1. PICK x, j : x = got.rs[i] /\ j \in 1 .. Len(g) /\ x = g[j]
                    /\ Useful(x.msg)
    BY <1>3, <1>8, <1>9 DEF Picked
  <2>2. Genuine(x)
    BY <1>7, <1>8, <1>9, <2>1 DEF Picked
  <2>3. PICK e, y : e = x.ecu /\ y = x.msg /\ e \in Ecu
                    /\ x = Response(e, y) /\ Given(y, May(e), Svc \in Lists)
    BY <2>2 DEF Genuine
  <2>4. /\ \A m \in May(e) : Useful(m) <=> m \in Kept(e) \cup Shorts(e)
        /\ \A m \in May(e) : Useful(Zero(m)) => m \in Kept(e) \cup Shorts(e)
    BY <1>1, <2>3, MayIs
  <2>5. \/ y \in Kept(e) \cup Shorts(e)
        \/ /\ Svc \in Lists
           /\ \E m \in Kept(e) \cup Shorts(e) : y = Zero(m)
    BY <2>1, <2>3, <2>4 DEF Given
  <2> QED BY <2>1, <2>3, <2>5 DEF Meant
<1>10. ASSUME ~Harmed(Svc), NEW e \in Ecu
       PROVE  \/ \A m \in Kept(e) : In(Response(e, m), got.rs)
              \/ \E m \in Shorts(e) : In(Response(e, m), got.rs)
  <2>1. Complete(e, g, queue) /\ queue[e] = <<>> /\ ~Spoilt(lines)
    BY <1>4, <1>10 DEF Empty
  <2>2. \A m : Due(e, m, g, queue) =>
                 \E i \in 1 .. Len(g) : g[i] = Response(e, m)
    BY <2>1, NoneIsSequence DEF Due
  <2>3. \A m : Response(e, m).msg = m
    BY DEF Response
  <2>4. \A m \in May(e) : Useful(m) <=> m \in Kept(e) \cup Shorts(e)
    BY <1>1, MayIs
  <2>5. ASSUME NEW m \in Kept(e) \cup Shorts(e), Due(e, m, g, queue)
        PROVE  In(Response(e, m), got.rs)
    <3>1. PICK i \in 1 .. Len(g) : g[i] = Response(e, m)
      BY <2>2, <2>5
    <3>2. Useful(g[i].msg)
      BY <2>3, <2>4, <2>5, <3>1 DEF May
    <3>3. \E j \in 1 .. Len(got.rs) : got.rs[j] = g[i]
      BY <1>3, <1>8, <2>1, <3>2 DEF Picked
    <3> QED BY <3>1, <3>3 DEF In
  <2> QED BY <2>1, <2>5 DEF Complete
<1>11. ASSUME ~Harmed(Svc), Single(odd) PROVE Distinct(got.rs)
  BY <1>3, <1>4, <1>8, <1>11 DEF Once, Picked
<1> QED BY <1>4, <1>8, <1>9, <1>10, <1>11 DEF Heard, Picked

-----------------------------------------------------------------------------
(* Every step                                                              *)

\* The request in hand.
LEMMA AskedIs ==
  ASSUME TaskInv, pc = "lines"
  PROVE  /\ Asking /\ step \in 1 .. Len(Requests) /\ ecus \in [Ecu -> Profile]
         /\ Serves(Svc, Id, step) /\ Svc \in DOMAIN said
         /\ said[Svc] \subseteq {f \in Ecu : Svc \in ecus[f].answers}
         /\ Svc \notin DOMAIN codes /\ ret = "none"
<1>1. /\ Asking /\ step \in 1 .. Len(Requests) /\ ecus \in [Ecu -> Profile]
      /\ Asked = Passed(step) /\ DOMAIN said = Asked
      /\ \A s \in Asked :
           said[s] \subseteq {f \in Ecu : s \in ecus[f].answers}
      /\ Svc \notin DOMAIN codes /\ ret = "none"
  BY DEF TaskInv, Asked
<1>2. Svc \in Passed(step)
  BY <1>1 DEF Passed, Svc
<1> QED BY <1>1, <1>2, SvcIs

LEMMA PromptGets ==
  ASSUME TaskInv, LinesInv, AtPrompt
  PROVE  /\ pc = "lines" /\ UNCHANGED <<task, vehicle, ecus, said, odd>>
         /\ \E got : /\ Heard(got)
                     /\ \/ Fails(got) \/ ReadLamp(got) \/ ReadCodes(got)
                        \/ ReadVIN(got) \/ ReadDataByIdentifier(got)
<1>1. PICK got : /\ got = Wanted(Request)
                 /\ \/ Fails(got) \/ ReadLamp(got) \/ ReadCodes(got)
                    \/ ReadVIN(got) \/ ReadDataByIdentifier(got)
  BY DEF AtPrompt
<1>2. pc = "lines" /\ Empty /\ UNCHANGED <<task, vehicle, ecus, said, odd>>
  BY DEF AtPrompt
<1> QED BY <1>1, <1>2, HeardAtPrompt

\* The other steps leave what the commands return alone.
Quiet ==
  /\ task' = task /\ vehicle' = vehicle /\ ecus' = ecus /\ step' = step
  /\ lamp' = lamp /\ codes' = codes /\ value' = value /\ ret' = ret
  /\ odd \subseteq odd'
  /\ \/ said' = said /\ (Asking => pc' = pc)
     \/ /\ pc = "request" /\ pc' = "lines"
        /\ \E giving : said' = With(said, Svc, giving)

LEMMA QuietIs ==
  ASSUME TaskInv, [Next]_vars, ~AtPrompt
  PROVE  Quiet
<1>1. CASE UNCHANGED vars
  BY <1>1 DEF vars, taskVars, walkVars, resultVars, Quiet
<1>2. CASE Connect
  BY <1>2 DEF Connect, taskVars, walkVars, resultVars, Quiet
<1>3. CASE Info
  BY <1>3 DEF Info, taskVars, resultVars, Quiet, Asking
<1>4. CASE AskPlainly
  <2>1. PICK giving, answer : SendRequest(answer, giving)
    BY <1>4 DEF AskPlainly
  <2>2. odd' = odd
    BY <1>4 DEF AskPlainly
  <2> QED BY <2>1, <2>2 DEF SendRequest, resultVars, Quiet
<1>5. CASE \E e \in Ecu : \E what \in Oddities : AskOddly(e, what)
  <2>1. PICK giving, answer : SendRequest(answer, giving)
    BY <1>5 DEF AskOddly
  <2>2. odd \subseteq odd'
    BY <1>5 DEF AskOddly
  <2> QED BY <2>1, <2>2 DEF SendRequest, resultVars, Quiet
<1>6. CASE \E e \in Ecu : PrintLine(e)
  BY <1>6 DEF PrintLine, walkVars, resultVars, Quiet
<1>7. CASE PrintTrouble
  BY <1>7 DEF PrintTrouble, walkVars, resultVars, Quiet
<1> QED BY <1>1, <1>2, <1>3, <1>4, <1>5, <1>6, <1>7 DEF Next

LEMMA StartedNext == ASSUME Started' PROVE LinesInv'
<1>1. (Started => LinesInv)'
  BY StartedIs, PTL
<1> QED BY <1>1

LEMMA TaskStep ==
  ASSUME TaskInv, LinesInv, [Next]_vars
  PROVE  TaskInv' /\ LinesInv'
<1>1. ASSUME UNCHANGED <<walkVars, taskVars>> PROVE TaskInv' /\ LinesInv'
  <2>1. /\ pc' = pc /\ task' = task /\ vehicle' = vehicle /\ ecus' = ecus
        /\ step' = step /\ codes' = codes /\ ret' = ret /\ said' = said
        /\ lines' = lines /\ queue' = queue /\ sent' = sent /\ odd' = odd
    BY <1>1 DEF walkVars, taskVars, resultVars
  <2>2. Requests' = Requests
    BY <2>1 DEF Requests
  <2>3. Svc' = Svc /\ Asked' = Asked
    BY <2>1, <2>2 DEF Svc, Asked, Passed
  <2>4. TaskInv'
    BY <2>1, <2>2, <2>3 DEF TaskInv, Asking
  <2>5. LinesInv'
    <3>1. pc = "lines" => LinesOK(lines', queue', sent', odd')
      BY <2>1 DEF LinesInv
    <3>2. UNCHANGED <<task, vehicle, ecus, step, said>>
      BY <2>1
    <3>3. pc = "lines" => LinesOK(lines, queue, sent, odd)'
      BY <3>1, <3>2, Stays
    <3> QED BY <2>1, <3>3 DEF LinesInv
  <2> QED BY <2>4, <2>5
<1>2. CASE UNCHANGED vars
  <2>1. UNCHANGED <<walkVars, taskVars>>
    BY <1>2 DEF vars
  <2> QED BY <1>1, <2>1
<1>3. CASE Connect
  <2>1. UNCHANGED <<walkVars, taskVars>>
    BY <1>3 DEF Connect
  <2> QED BY <1>1, <2>1
<1>4. CASE Info
  <2>1. /\ task = "info" /\ pc = "asking" /\ pc' \in {"asking", "done"}
    BY <1>4 DEF Info, Walk, AskBitmap, AskFails
  <2>2. /\ task' = task /\ vehicle' = vehicle /\ ecus' = ecus
        /\ step' = step /\ codes' = codes /\ ret' = ret /\ said' = said
        /\ lines' = lines /\ queue' = queue /\ sent' = sent
    BY <1>4 DEF Info, taskVars, resultVars
  <2>3. ~Asking
    BY <2>1 DEF Asking
  <2> QED BY <2>1, <2>2, <2>3 DEF TaskInv, LinesInv, Asking
<1>5. CASE AskPlainly
  <2>1. PICK answer : SendRequest(answer, Able)
    BY <1>5 DEF AskPlainly
  <2>2. TaskInv'
    BY <2>1, TaskSends
  <2>3. Started'
    BY <1>5, AskPlainlyStep
  <2> QED BY <2>2, <2>3, StartedNext
<1>6. CASE \E e \in Ecu : \E what \in Oddities : AskOddly(e, what)
  <2>1. PICK e \in Ecu : \E what \in Oddities : AskOddly(e, what)
    BY <1>6
  <2>2. PICK what \in Oddities : AskOddly(e, what)
    BY <2>1
  <2>3. PICK giving, answer : /\ giving \in SUBSET Able
                              /\ SendRequest(answer, giving)
    BY <2>2 DEF AskOddly
  <2>4. TaskInv'
    BY <2>3, TaskSends
  <2>5. Started'
    BY <2>2, AskOddlyStep
  <2> QED BY <2>4, <2>5, StartedNext
<1>7. CASE \E e \in Ecu : PrintLine(e)
  <2>1. PICK e \in Ecu : PrintLine(e)
    BY <1>7
  <2>2. pc' = pc /\ LinesInv'
    BY <2>1, PrintLineStep
  <2>3. UNCHANGED <<task, vehicle, ecus, step, codes, ret, said>>
    BY <2>1 DEF PrintLine, resultVars
  <2>4. pc = "lines"
    <3>1. queue[e] # <<>>
      BY <2>1 DEF PrintLine
    <3> QED BY <3>1 DEF TaskInv
  <2>5. UNCHANGED <<pc, task, vehicle, ecus, step, codes, ret, said>>
    BY <2>2, <2>3
  <2> QED BY <2>2, <2>4, <2>5, TaskStays
<1>8. CASE PrintTrouble
  <2>1. pc' = pc /\ LinesInv' /\ pc = "lines"
    BY <1>8, PrintTroubleStep DEF PrintTrouble
  <2>2. UNCHANGED <<task, vehicle, ecus, step, codes, ret, said>>
    BY <1>8 DEF PrintTrouble, resultVars
  <2>3. UNCHANGED <<pc, task, vehicle, ecus, step, codes, ret, said>>
    BY <2>1, <2>2
  <2> QED BY <2>1, <2>3, TaskStays
<1>9. CASE AtPrompt
  <2>1. TaskInv' /\ pc' \in {"request", "done"}
    BY <1>9, TaskProceeds
  <2> QED BY <2>1 DEF LinesInv
<1> QED BY <1>2, <1>3, <1>4, <1>5, <1>6, <1>7, <1>8, <1>9 DEF Next

-----------------------------------------------------------------------------
(* A refusal                                                               *)

\* An ECU that gave its answer gave at least one message.
LEMMA KeptSome ==
  ASSUME TaskInv, pc = "lines", NEW e \in said[Svc]
  PROVE  /\ e \in Ecu /\ Svc \in ecus[e].answers
         /\ Kept(e) = ToSet(Answer(e, Svc, Id)) /\ Kept(e) # {}
<1>1. /\ Asking /\ step \in 1 .. Len(Requests) /\ ecus \in [Ecu -> Profile]
      /\ e \in Ecu /\ Svc \in ecus[e].answers
  BY AskedIs
<1>2. PICK a : a = Answer(e, Svc, Id) /\ IsSequence(a) /\ a # <<>>
  BY <1>1, AnswerShape DEF Shaped
<1>3. ToSet(a) # {}
  <2>1. 1 \in DOMAIN a
    BY <1>2, EmptyIs
  <2> QED BY <2>1 DEF ToSet
<1> QED BY <1>1, <1>2, <1>3 DEF Kept

LEMMA AnswerWinsStep ==
  ASSUME TaskInv, LinesInv, AnswerWins, [Next]_vars
  PROVE  AnswerWins'
<1> SUFFICES ASSUME ret' = "refused"
             PROVE  said'[Svc'] = {} \/ Harmed(Svc)'
  BY DEF AnswerWins
<1>1. CASE AtPrompt
  <2>1. PICK got : /\ Heard(got)
                   /\ \/ Fails(got) \/ ReadLamp(got) \/ ReadCodes(got)
                      \/ ReadVIN(got) \/ ReadDataByIdentifier(got)
    BY <1>1, PromptGets
  <2>2. pc = "lines" /\ ret = "none" /\ said' = said /\ odd' = odd
        /\ task' = task
    BY <1>1, AskedIs, PromptGets
  <2>3. got.err = "refused"
    BY <2>1, <2>2 DEF Fails, ReadLamp, ReadCodes, ReadVIN,
      ReadDataByIdentifier, Proceed, Finish
  <2>4. Svc' = Svc
    <3>1. step' = step
      BY <1>1, <2>2, TaskProceeds
    <3> QED BY <2>2, <3>1 DEF Svc, Requests
  <2>5. ASSUME ~Harmed(Svc), NEW e \in said[Svc] PROVE FALSE
    <3>1. e \in Ecu /\ Kept(e) # {}
      BY <2>2, <2>5, KeptSome
    <3>2. Len(got.rs) = 0
      BY <2>1, <2>3, NoneIsSequence DEF Heard
    <3>3. \A x : ~In(x, got.rs)
      BY <3>2 DEF In
    <3> QED BY <2>1, <2>5, <3>1, <3>3 DEF Heard
  <2> QED BY <2>2, <2>4, <2>5 DEF Harmed
<1>2. CASE ~AtPrompt
  <2>1. Quiet
    BY <1>2, QuietIs
  <2>2. ret = "refused" /\ pc = "done" /\ Svc' = Svc /\ odd \subseteq odd'
        /\ said' = said
    BY <2>1 DEF Quiet, TaskInv, Svc, Requests
  <2> QED BY <2>2 DEF AnswerWins, Harmed
<1> QED BY <1>1, <1>2

-----------------------------------------------------------------------------
(* The malfunction lamp and the number of codes                            *)

\* The numbers c of those ECUs that are among the first n of x.
Counted(x, c, n) ==
  [k \in 1 .. Len(EcuOrder) |->
     IF \E i \in 1 .. n : x[i] = EcuOrder[k] THEN c[EcuOrder[k]] ELSE 0]
NewAt(x, n) == \A j \in 1 .. n - 1 : x[j] # x[n]

LEMMA CountedIs ==
  ASSUME NEW n \in Nat, NEW x, NEW c, \A e \in Ecu : c[e] \in Nat
  PROVE  /\ Len(Counted(x, c, n)) = Len(EcuOrder)
         /\ \A k \in 1 .. Len(EcuOrder) :
              /\ Counted(x, c, n)[k] =
                   IF \E i \in 1 .. n : x[i] = EcuOrder[k]
                   THEN c[EcuOrder[k]] ELSE 0
              /\ Counted(x, c, n)[k] \in Nat
<1>1. PICK L \in Nat : L = Len(EcuOrder)
  BY OrderIs
<1>2. PICK f : f = Counted(x, c, n)
  OBVIOUS
<1>3. f = [k \in 1 .. L |-> IF \E i \in 1 .. n : x[i] = EcuOrder[k]
                            THEN c[EcuOrder[k]] ELSE 0]
  BY <1>1, <1>2 DEF Counted
<1>4. Len(f) = L
  BY <1>3
<1>5. \A k \in 1 .. L : EcuOrder[k] \in Ecu
  BY <1>1, OrderIs
<1>6. \A k \in 1 .. L : f[k] = IF \E i \in 1 .. n : x[i] = EcuOrder[k]
                               THEN c[EcuOrder[k]] ELSE 0
  BY <1>3
<1>7. \A k \in 1 .. L : f[k] \in Nat
  BY <1>5, <1>6
<1> QED BY <1>1, <1>2, <1>4, <1>6, <1>7

\* One more of x: an ECU that was there before adds nothing.
LEMMA CountedStep ==
  ASSUME NEW n \in Nat, NEW x, \A i \in 1 .. n + 1 : x[i] \in Ecu,
         NEW c, \A e \in Ecu : c[e] \in Nat
  PROVE  SumOf(Counted(x, c, n + 1)) =
           SumOf(Counted(x, c, n))
             + (IF NewAt(x, n + 1) THEN c[x[n + 1]] ELSE 0)
<1>1. PICK L \in Nat : L = Len(EcuOrder)
  BY OrderIs
<1>2. PICK f, g : f = Counted(x, c, n + 1) /\ g = Counted(x, c, n)
  OBVIOUS
<1>3. /\ Len(f) = L /\ Len(g) = L
      /\ \A k \in 1 .. L : f[k] \in Nat /\ g[k] \in Nat
      /\ \A k \in 1 .. L :
           f[k] = IF \E i \in 1 .. n + 1 : x[i] = EcuOrder[k]
                  THEN c[EcuOrder[k]] ELSE 0
      /\ \A k \in 1 .. L :
           g[k] = IF \E i \in 1 .. n : x[i] = EcuOrder[k]
                  THEN c[EcuOrder[k]] ELSE 0
  <2>1. PICK p \in Nat : p = n + 1
    OBVIOUS
  <2>2. /\ Len(f) = L /\ \A k \in 1 .. L : f[k] \in Nat
        /\ \A k \in 1 .. L :
             f[k] = IF \E i \in 1 .. p : x[i] = EcuOrder[k]
                    THEN c[EcuOrder[k]] ELSE 0
    <3>1. f = Counted(x, c, p)
      BY <1>2, <2>1
    <3> QED BY <1>1, <2>1, <3>1, CountedIs
  <2>3. /\ Len(g) = L /\ \A k \in 1 .. L : g[k] \in Nat
        /\ \A k \in 1 .. L :
             g[k] = IF \E i \in 1 .. n : x[i] = EcuOrder[k]
                    THEN c[EcuOrder[k]] ELSE 0
    BY <1>1, <1>2, CountedIs
  <2> QED BY <2>1, <2>2, <2>3
<1>4. PICK k \in 1 .. L : EcuOrder[k] = x[n + 1]
  <2>1. x[n + 1] \in Ecu
    OBVIOUS
  <2> QED BY <1>1, <2>1, OrderIs
<1>5. \A i \in 1 .. n + 1 : i \in 1 .. n \/ i = n + 1
  OBVIOUS
<1>6. \A j \in 1 .. L : j # k => EcuOrder[j] # x[n + 1]
  BY <1>1, <1>4, OrderIs
<1>7. ASSUME NEW j \in 1 .. L, j # k PROVE f[j] = g[j]
  <2>1. (\E i \in 1 .. n + 1 : x[i] = EcuOrder[j]) <=>
          \E i \in 1 .. n : x[i] = EcuOrder[j]
    BY <1>5, <1>6, <1>7
  <2> QED BY <1>3, <2>1
<1>8. /\ SumOf(f) \in Nat /\ SumOf(g) \in Nat
      /\ SumOf(f) + g[k] = SumOf(g) + f[k]
  BY <1>3, <1>7, SumDiffers
<1>9. f[k] = c[x[n + 1]]
  <2>1. n + 1 \in 1 .. n + 1
    OBVIOUS
  <2> QED BY <1>3, <1>4, <2>1
<1>10. NewAt(x, n + 1) <=> ~\E i \in 1 .. n : x[i] = EcuOrder[k]
  <2>1. (n + 1) - 1 = n
    OBVIOUS
  <2> QED BY <1>4, <2>1 DEF NewAt
<1>11. g[k] = IF NewAt(x, n + 1) THEN 0 ELSE c[x[n + 1]]
  BY <1>3, <1>4, <1>10
<1>12. f[k] \in Nat
  BY <1>3
<1>13. CASE NewAt(x, n + 1)
  BY <1>2, <1>8, <1>9, <1>11, <1>12, <1>13
<1>14. CASE ~NewAt(x, n + 1)
  BY <1>2, <1>8, <1>9, <1>11, <1>12, <1>14
<1> QED BY <1>13, <1>14

LEMMA FirstSum ==
  ASSUME NEW N \in Nat, NEW x, \A i \in 1 .. N : x[i] \in Ecu,
         NEW c, \A e \in Ecu : c[e] \in Nat,
         NEW f, Len(f) = N,
         \A i \in 1 .. N : f[i] = IF NewAt(x, i) THEN c[x[i]] ELSE 0
  PROVE  SumOf(f) = SumOf(Counted(x, c, N))
<1>1. PICK F : Summing(f, N, F) /\ SumOf(f) = F[N]
  BY SummingIs
<1>2. \A i \in 1 .. N : f[i] \in Nat
  OBVIOUS
<1>3. /\ F[0] = 0 /\ \A n \in 0 .. N : F[n] \in Nat
      /\ \A n \in Nat : n + 1 <= N => F[n + 1] = F[n] + f[n + 1]
  BY <1>1, <1>2, SumSteps
<1>4. PICK S : S = {n \in Nat : n <= N => F[n] = SumOf(Counted(x, c, n))}
  OBVIOUS
<1>5. 0 \in S
  <2>1. PICK g : g = Counted(x, c, 0)
    OBVIOUS
  <2>2. Len(g) = Len(EcuOrder) /\ Len(EcuOrder) \in Nat
        /\ \A k \in 1 .. Len(EcuOrder) : g[k] = 0
    BY <2>1, CountedIs, OrderIs
  <2>3. SumOf(g) = 0
    BY <2>2, SumOfNothing
  <2> QED BY <1>3, <1>4, <2>1, <2>3
<1>6. ASSUME NEW n \in Nat, n \in S PROVE n + 1 \in S
  <2> SUFFICES ASSUME n + 1 <= N
               PROVE  F[n + 1] = SumOf(Counted(x, c, n + 1))
    BY <1>4
  <2>1. F[n] = SumOf(Counted(x, c, n))
    BY <1>4, <1>6
  <2>2. F[n + 1] = F[n] + f[n + 1]
    BY <1>3
  <2>3. f[n + 1] = IF NewAt(x, n + 1) THEN c[x[n + 1]] ELSE 0
    OBVIOUS
  <2>4. \A i \in 1 .. n + 1 : x[i] \in Ecu
    OBVIOUS
  <2>5. SumOf(Counted(x, c, n + 1)) =
          SumOf(Counted(x, c, n))
            + (IF NewAt(x, n + 1) THEN c[x[n + 1]] ELSE 0)
    BY <2>4, CountedStep
  <2> QED BY <2>1, <2>2, <2>3, <2>5
<1>7. N \in S
  BY <1>5, <1>6, Induction
<1> QED BY <1>1, <1>4, <1>7

\* What service 01 says of an ECU.
LEMMA LampAnswer ==
  ASSUME TaskInv, pc = "lines", Svc = "01", NEW e \in Ecu
  PROVE  /\ Shorts(e) = {}
         /\ e \notin said[Svc] => Kept(e) = {}
         /\ e \in said[Svc] =>
              \E m : /\ Kept(e) = {m}
                     /\ m.body[1] = ecus[e].lamp /\ m.body[2] = ecus[e].count
<1>1. "01" \notin Lists
  BY DEF Lists
<1>2. Shorts(e) = {} /\ (e \notin said[Svc] => Kept(e) = {})
  BY <1>1 DEF Shorts, ShortsOf, Kept
<1>3. ASSUME e \in said[Svc]
      PROVE  \E m : /\ Kept(e) = {m} /\ m.body[1] = ecus[e].lamp
                    /\ m.body[2] = ecus[e].count
  <2>1. /\ Kept(e) = ToSet(Answer(e, Svc, Id)) /\ Svc \in ecus[e].answers
        /\ Asking /\ step \in 1 .. Len(Requests)
    BY <1>3, KeptSome, AskedIs
  <2>2. PICK b : b = <<ecus[e].lamp, ecus[e].count>>
    OBVIOUS
  <2>3. PICK m : m = Positive(Svc, Id, b, 6)
    OBVIOUS
  <2>4. Answer(e, Svc, Id) = <<m>>
    BY <2>1, <2>2, <2>3, AnswerIs
  <2>5. ToSet(<<m>>) = {m}
    BY DEF ToSet
  <2>6. m.body = b /\ b[1] = ecus[e].lamp /\ b[2] = ecus[e].count
    BY <2>2, <2>3, KindsOf
  <2> QED BY <2>1, <2>4, <2>5, <2>6
<1> QED BY <1>2, <1>3

\* What MILStatus makes of what the request returns.
LEMMA LampIs ==
  ASSUME TaskInv, pc = "lines", Svc = "01", ~Harmed(Svc),
         NEW got, Heard(got), got.err = "nil"
  PROVE  /\ MILStatus(got.rs).confirmed =
              SumOf([i \in 1 .. Len(EcuOrder) |->
                       IF EcuOrder[i] \in said["01"]
                       THEN ecus[EcuOrder[i]].count ELSE 0])
         /\ MILStatus(got.rs).mil = 1 <=>
              \E e \in said["01"] : ecus[e].lamp = 1
<1>1. PICK rs, N : /\ rs = got.rs /\ N \in Nat /\ N = Len(rs)
                   /\ IsSequence(rs)
  BY EmptyIs DEF Heard
<1>2. PICK E : E = said["01"] /\ E \subseteq Ecu
  BY AskedIs
<1>3. ecus \in [Ecu -> Profile] /\ "01" \notin Lists
  BY AskedIs DEF Lists
<1>4. PICK x, c : /\ x = [i \in 1 .. N |-> rs[i].ecu]
                  /\ c = [e \in Ecu |-> ecus[e].count]
  OBVIOUS
<1>5. \A e \in Ecu : c[e] = ecus[e].count /\ c[e] \in Nat
  BY <1>3, <1>4 DEF Profile
<1>6. ASSUME NEW i \in 1 .. N
      PROVE  /\ x[i] \in E /\ x[i] \in Ecu
             /\ rs[i].msg.body[1] = ecus[x[i]].lamp
             /\ rs[i].msg.body[2] = c[x[i]]
  <2>1. Meant(rs[i])
    BY <1>1 DEF Heard
  <2>2. PICK e : e = x[i] /\ e = rs[i].ecu
    BY <1>4
  <2>3. e \in Ecu /\ rs[i].msg \in Kept(e) \cup Shorts(e)
    BY <1>3, <2>1, <2>2 DEF Meant
  <2>4. e \in said[Svc] /\ rs[i].msg \in Kept(e)
    BY <2>3, LampAnswer
  <2>5. PICK m : Kept(e) = {m} /\ m.body[1] = ecus[e].lamp
                 /\ m.body[2] = ecus[e].count
    BY <2>3, <2>4, LampAnswer
  <2> QED BY <1>2, <1>5, <2>2, <2>3, <2>4, <2>5
<1>7. ASSUME NEW e \in E PROVE \E i \in 1 .. N : x[i] = e
  <2>1. e \in Ecu /\ e \in said[Svc]
    BY <1>2
  <2>2. PICK m : Kept(e) = {m}
    BY <2>1, LampAnswer
  <2>3. Shorts(e) = {}
    BY <2>1, LampAnswer
  <2>4. In(Response(e, m), rs)
    BY <1>1, <2>1, <2>2, <2>3 DEF Heard
  <2>5. Response(e, m).ecu = e
    BY DEF Response
  <2> QED BY <1>1, <1>4, <2>4, <2>5 DEF In
<1>8. \A i \in 1 .. N : i \in FirstOfEach(rs) <=> NewAt(x, i)
  <2> TAKE i \in 1 .. N
  <2>1. \A j \in 1 .. i - 1 : x[j] = rs[j].ecu /\ x[i] = rs[i].ecu
    BY <1>1, <1>4
  <2> QED BY <1>1, <2>1 DEF FirstOfEach, NewAt
<1>9. FirstOfEach(rs) \subseteq 1 .. N
  BY <1>1 DEF FirstOfEach
<1>10. (\E i \in FirstOfEach(rs) : rs[i].msg.body[1] = 1) <=>
         \E e \in E : ecus[e].lamp = 1
  <2>1. ASSUME NEW i \in FirstOfEach(rs), rs[i].msg.body[1] = 1
        PROVE  \E e \in E : ecus[e].lamp = 1
    BY <1>6, <1>9, <2>1
  <2>2. ASSUME NEW e \in E, ecus[e].lamp = 1
        PROVE  \E i \in FirstOfEach(rs) : rs[i].msg.body[1] = 1
    <3>1. PICK T : T = {i \in 1 .. N : x[i] = e}
      OBVIOUS
    <3>2. PICK i \in T : \A j \in T : i <= j
      <4>1. T \in SUBSET Nat
        BY <3>1
      <4>2. T # {}
        BY <1>7, <3>1
      <4> QED BY <4>1, <4>2, Least
    <3>3. NewAt(x, i)
      <4> SUFFICES ASSUME NEW j \in 1 .. i - 1, x[j] = x[i] PROVE FALSE
        BY DEF NewAt
      <4>1. i \in 1 .. N /\ x[i] = e
        BY <3>1
      <4>2. j \in T
        BY <1>1, <3>1, <4>1
      <4> QED BY <1>1, <3>2, <4>1, <4>2
    <3> QED BY <1>6, <1>8, <2>2, <3>1, <3>3
  <2> QED BY <2>1, <2>2
<1>11. PICK f : f = [i \in 1 .. Len(rs) |-> IF i \in FirstOfEach(rs)
                                            THEN rs[i].msg.body[2] ELSE 0]
  OBVIOUS
<1>12. Len(f) = N /\ \A i \in 1 .. N : f[i] = IF NewAt(x, i) THEN c[x[i]]
                                             ELSE 0
  <2>1. Len(f) = N
    BY <1>1, <1>11
  <2>2. \A i \in 1 .. N : f[i] = IF NewAt(x, i) THEN c[x[i]] ELSE 0
    BY <1>1, <1>6, <1>8, <1>11
  <2> QED BY <2>1, <2>2
<1>13. SumOf(f) = SumOf(Counted(x, c, N))
  BY <1>1, <1>5, <1>6, <1>12, FirstSum
<1>14. Counted(x, c, N) = [i \in 1 .. Len(EcuOrder) |->
                             IF EcuOrder[i] \in said["01"]
                             THEN ecus[EcuOrder[i]].count ELSE 0]
  <2>1. \A e : (\E i \in 1 .. N : x[i] = e) <=> e \in said["01"]
    BY <1>2, <1>6, <1>7
  <2>2. \A k \in 1 .. Len(EcuOrder) :
          c[EcuOrder[k]] = ecus[EcuOrder[k]].count
    BY <1>5, OrderIs
  <2> QED BY <2>1, <2>2 DEF Counted
<1>15. PICK s : s = MILStatus(rs) /\ s.confirmed = SumOf(f)
                /\ s.mil = IF \E i \in FirstOfEach(rs) : rs[i].msg.body[1] = 1
                           THEN 1 ELSE 0
  <2>1. PICK a : a = IF \E i \in FirstOfEach(rs) : rs[i].msg.body[1] = 1
                     THEN 1 ELSE 0
    OBVIOUS
  <2>2. PICK n : n = SumOf(f)
    OBVIOUS
  <2>3. MILStatus(rs) = [mil |-> a, confirmed |-> n]
    BY <1>11, <2>1, <2>2 DEF MILStatus
  <2> QED BY <2>1, <2>2, <2>3
<1> QED BY <1>1, <1>2, <1>10, <1>13, <1>14, <1>15

\* The sum over the ECUs of a set, by the numbers they count.
Total(p, E) ==
  SumOf([i \in 1 .. Len(EcuOrder) |->
           IF EcuOrder[i] \in E THEN p[EcuOrder[i]].count ELSE 0])

LEMMA ConfirmedOnceStep ==
  ASSUME TaskInv, LinesInv, ConfirmedOnce, [Next]_vars
  PROVE  ConfirmedOnce'
<1> SUFFICES ASSUME step' > 1, ~Harmed("01")'
             PROVE  /\ lamp'.confirmed = Total(ecus', said'["01"])
                    /\ lamp'.mil = 1 <=> \E e \in said'["01"] :
                                           ecus'[e].lamp = 1
  BY DEF ConfirmedOnce, Total
<1>1. ASSUME step > 1, ~Harmed("01")
      PROVE  /\ lamp.confirmed = Total(ecus, said["01"])
             /\ lamp.mil = 1 <=> \E e \in said["01"] : ecus[e].lamp = 1
  BY <1>1 DEF ConfirmedOnce, Total
<1>2. CASE AtPrompt
  <2>1. PICK got : /\ Heard(got)
                   /\ \/ Fails(got) \/ ReadLamp(got) \/ ReadCodes(got)
                      \/ ReadVIN(got) \/ ReadDataByIdentifier(got)
    BY <1>2, PromptGets
  <2>2. /\ pc = "lines" /\ said' = said /\ odd' = odd /\ ecus' = ecus
        /\ Serves(Svc, Id, step) /\ step \in Nat /\ ~Harmed("01")
    BY <1>2, AskedIs, PromptGets DEF Harmed, Serves
  <2>3. CASE step > 1
    <3>1. Svc # "01"
      BY <2>2, <2>3 DEF Serves
    <3>2. lamp' = lamp
      BY <2>1, <3>1 DEF Fails, ReadLamp, ReadCodes, ReadVIN,
        ReadDataByIdentifier
    <3> QED BY <1>1, <2>2, <2>3, <3>2
  <2>4. CASE ~(step > 1)
    <3>1. Svc \notin Lists
      BY <2>2, <2>4 DEF Serves, Lists
    <3>2. step' # step
      BY <2>2, <2>4
    <3>3. ReadLamp(got)
      BY <2>1, <3>1, <3>2 DEF Fails, ReadCodes, ReadVIN,
        ReadDataByIdentifier, Finish
    <3>4. Svc = "01" /\ got.err = "nil" /\ lamp' = MILStatus(got.rs)
      BY <3>3 DEF ReadLamp
    <3>5. /\ MILStatus(got.rs).confirmed = Total(ecus, said["01"])
          /\ MILStatus(got.rs).mil = 1 <=>
               \E e \in said["01"] : ecus[e].lamp = 1
      BY <2>1, <2>2, <3>4, LampIs DEF Total
    <3> QED BY <2>2, <3>4, <3>5
  <2> QED BY <2>3, <2>4
<1>3. CASE ~AtPrompt
  <2>1. Quiet
    BY <1>3, QuietIs
  <2>2. /\ step' = step /\ lamp' = lamp /\ ecus' = ecus
        /\ step > 1 /\ ~Harmed("01")
    BY <2>1 DEF Quiet, Harmed
  <2>3. said'["01"] = said["01"]
    <3>1. CASE said' = said
      BY <3>1
    <3>2. CASE pc = "request" /\ \E giving : said' = With(said, Svc, giving)
      <4>1. /\ Asking /\ step \in 1 .. Len(Requests)
            /\ DOMAIN said = Passed(step - 1)
        BY <3>2 DEF TaskInv, Asked
      <4>2. PICK n \in Nat : n = step - 1 /\ n + 1 = step /\ n > 0
                             /\ n < Len(Requests) /\ Len(Requests) # 1
        <5>1. PICK L \in Nat : L = Len(Requests)
          BY <4>1, RequestsAre DEF Asking
        <5>2. step \in 1 .. L /\ step > 1
          BY <2>2, <4>1, <5>1
        <5>3. step - 1 \in Nat /\ step - 1 > 0 /\ step - 1 < L /\ L # 1
              /\ (step - 1) + 1 = step
          BY <5>2
        <5> QED BY <5>1, <5>3
      <4>3. Requests[1][1] = "01"
        <5>1. task = "dtc"
          <6>1. task \in {"vin", "did"} => Len(Requests) = 1
            BY RequestsAre
          <6>2. task \notin {"vin", "did"}
            BY <4>2, <6>1
          <6> QED BY <4>1, <6>2 DEF Asking
        <5>2. Requests[1] = <<"01", 1>>
          BY <5>1, RequestsAre
        <5> QED BY <5>2
      <4>4. "01" \in Passed(n)
        BY <4>2, <4>3 DEF Passed
      <4>5. Svc \notin Passed(n)
        BY <4>1, <4>2, PassedIs DEF Svc
      <4>6. "01" \in DOMAIN said /\ "01" # Svc
        BY <4>1, <4>2, <4>4, <4>5
      <4> QED BY <3>2, <4>6 DEF With
    <3> QED BY <2>1, <3>1, <3>2 DEF Quiet
  <2> QED BY <1>1, <2>2, <2>3
<1> QED BY <1>2, <1>3

-----------------------------------------------------------------------------
(* The lists of codes                                                      *)

\* Finite sets.
LEMMA ValuesFinite ==
  ASSUME NEW n \in Nat, NEW f
  PROVE  IsFiniteSet({f[i] : i \in 1 .. n})
<1>1. PICK T : T = {f[i] : i \in 1 .. n}
  OBVIOUS
<1>2. PICK g : g = [i \in 1 .. n |-> f[i]]
  OBVIOUS
<1>3. g \in [1 .. n -> T] /\ \A t \in T : \E i \in 1 .. n : g[i] = t
  BY <1>1, <1>2
<1>4. g \in Surjection(1 .. n, T)
  BY <1>3 DEF Surjection
<1>5. IsFiniteSet(1 .. n)
  BY FS_Interval
<1> QED BY <1>1, <1>4, <1>5, FS_Surjection

\* A list in ascending order of a finite set.
LEMMA AscendingIs ==
  ASSUME NEW S, IsFiniteSet(S), NEW s \in Ascending(S)
  PROVE  /\ ToSet(s) = S
         /\ \A i \in 1 .. Len(s) - 1 : s[i] < s[i + 1]
<1>1. PICK n \in Nat : n = Cardinality(S)
  BY FS_CardinalityType
<1>2. /\ s \in [1 .. n -> S] /\ ToSet(s) = S
      /\ \A i, j \in 1 .. n : i < j => s[i] < s[j]
  BY <1>1 DEF Ascending
<1>3. Len(s) = n
  BY <1>2
<1>4. \A i \in 1 .. n - 1 : i \in 1 .. n /\ i + 1 \in 1 .. n /\ i < i + 1
  OBVIOUS
<1> QED BY <1>2, <1>3, <1>4

\* What is read of a message on CAN: a count and the list.
LEMMA ReadOnCAN ==
  ASSUME vehicle = "can", NEW list, IsSequence(list),
         \A i \in 1 .. Len(list) : list[i] # 0,
         NEW c \in Nat, NEW m, m.body = <<c>> \o list
  PROVE  /\ TooFew(m) <=> Len(list) < c
         /\ ~TooFew(m) => ParseDTCs(m) \subseteq ToSet(list)
         /\ ~TooFew(m) /\ c = Len(list) => ParseDTCs(m) = ToSet(list)
<1>1. PICK n \in Nat : n = Len(list) /\ DOMAIN list = 1 .. n
  BY EmptyIs
<1>2. PICK h : h = <<c>> /\ IsSequence(h) /\ Len(h) = 1 /\ h[1] = c
  <2>1. <<c>> \in Seq({c}) /\ Len(<<c>>) = 1 /\ <<c>>[1] = c
    OBVIOUS
  <2> QED BY <2>1 DEF IsSequence
<1>3. PICK b : b = m.body /\ b = h \o list
  BY <1>2
<1>4. /\ IsSequence(b) /\ Len(b) = n + 1 /\ b[1] = c
      /\ \A i \in 1 .. n : b[1 + i] = list[i]
  BY <1>1, <1>2, <1>3, ConcatIs
<1>5. PICK t : t = Tail(b)
  OBVIOUS
<1>6. /\ IsSequence(t) /\ Len(t) = n /\ \A i \in 1 .. n : t[i] = list[i]
  <2>1. b # <<>>
    BY <1>4, EmptyIs
  <2>2. /\ IsSequence(t) /\ Len(b) = Len(t) + 1 /\ Len(t) \in Nat
        /\ \A i \in 1 .. Len(t) : t[i] = b[i + 1]
    BY <1>4, <1>5, <2>1, RestIs
  <2>3. Len(t) = n
    BY <1>4, <2>2
  <2>4. \A i \in 1 .. n : i + 1 = 1 + i
    OBVIOUS
  <2> QED BY <1>4, <2>2, <2>3, <2>4
<1>7. Body(m) = t /\ Announced(m) = c
  BY <1>3, <1>4, <1>5 DEF Body, Announced
<1>8. TooFew(m) <=> n < c
  BY <1>6, <1>7 DEF TooFew
<1>9. ParseDTCs(m) = {t[i] : i \in 1 .. c} \ {0}
  BY <1>7 DEF ParseDTCs
<1>10. ToSet(list) = {list[i] : i \in 1 .. n}
  BY <1>1 DEF ToSet
<1>11. ASSUME ~TooFew(m) PROVE ParseDTCs(m) \subseteq ToSet(list)
  <2>1. \A i \in 1 .. c : i \in 1 .. n
    BY <1>8, <1>11
  <2> QED BY <1>6, <1>9, <1>10, <2>1
<1>12. ASSUME c = n PROVE ToSet(list) \subseteq ParseDTCs(m)
  BY <1>1, <1>6, <1>9, <1>10, <1>12
<1> QED BY <1>1, <1>8, <1>11, <1>12

\* Nothing but zeros is no code.
LEMMA ReadZero ==
  ASSUME NEW svc, NEW id, NEW b, IsSequence(b), b # <<>>, NEW len,
         NEW m, m = Zero(Positive(svc, id, b, len))
  PROVE  ParseDTCs(m) = {}
<1>1. PICK n \in Nat : n = Len(b) /\ DOMAIN b = 1 .. n /\ 1 \in 1 .. n
  BY EmptyIs
<1>2. PICK z : z = [i \in 1 .. n |-> 0]
  OBVIOUS
<1>3. m.body = z
  <2>1. m = Positive(svc, id, z, len)
    BY <1>1, <1>2, ZeroIs
  <2> QED BY <2>1, KindsOf
<1>4. z[1] = 0 /\ Len(z) = n /\ \A i \in 1 .. n : z[i] = 0
  BY <1>1, <1>2
<1>5. CASE vehicle = "can"
  <2>1. Announced(m) = 0
    BY <1>3, <1>4, <1>5 DEF Announced
  <2> QED BY <2>1 DEF ParseDTCs
<1>6. CASE vehicle # "can"
  <2>1. Announced(m) = n /\ Body(m) = z
    BY <1>3, <1>4, <1>6 DEF Announced, Body
  <2> QED BY <1>4, <2>1 DEF ParseDTCs
<1> QED BY <1>5, <1>6

\* A message of the older protocols: three of the codes, or fewer.
LEMMA ReadSlots ==
  ASSUME vehicle # "can", NEW list, IsSequence(list),
         \A i \in 1 .. Len(list) : list[i] # 0,
         NEW k \in Nat, NEW m, m.body = Slots(list, k)
  PROVE  ParseDTCs(m) = {list[i] : i \in {j \in 1 .. Len(list) :
                                           3 * k < j /\ j <= 3 * k + 3}}
<1>1. PICK n \in Nat : n = Len(list)
  BY EmptyIs
<1>2. PICK b : b = [i \in 1 .. 3 |-> IF 3 * k + i <= n THEN list[3 * k + i]
                                     ELSE 0]
  OBVIOUS
<1>3. m.body = b /\ Len(b) = 3
  BY <1>1, <1>2 DEF Slots
<1>4. ParseDTCs(m) = {b[i] : i \in 1 .. 3} \ {0}
  BY <1>3 DEF ParseDTCs, Body, Announced
<1>5. PICK J : J = {j \in 1 .. n : 3 * k < j /\ j <= 3 * k + 3}
  OBVIOUS
<1>6. ASSUME NEW i \in 1 .. 3, b[i] # 0
      PROVE  \E j \in J : b[i] = list[j]
  <2>1. PICK j \in Nat : j = 3 * k + i
    OBVIOUS
  <2>2. j <= n /\ b[i] = list[j]
    BY <1>2, <1>6, <2>1
  <2>3. 3 * k \in Nat
    OBVIOUS
  <2>4. j \in J
    BY <1>5, <2>1, <2>2, <2>3
  <2> QED BY <2>2, <2>4
<1>7. ASSUME NEW j \in J
      PROVE  list[j] # 0 /\ \E i \in 1 .. 3 : b[i] = list[j]
  <2>1. PICK i : i = j - 3 * k
    OBVIOUS
  <2>2. PICK l \in Nat : l = 3 * k
    OBVIOUS
  <2>3. i \in 1 .. 3 /\ 3 * k + i = j /\ j <= n /\ j \in 1 .. n
    BY <1>5, <2>1, <2>2
  <2>4. b[i] = list[j]
    BY <1>2, <2>3
  <2> QED BY <1>1, <2>3, <2>4
<1>8. ParseDTCs(m) = {list[j] : j \in J}
  BY <1>4, <1>6, <1>7
<1> QED BY <1>1, <1>5, <1>8

\* What is read of the messages of an ECU are codes it has; and all of them
\* when their number fits the count, unless it announces more.
CodesSaid(e, list) ==
  LET fits == vehicle # "can" \/ Len(list) < CountMod
  IN /\ \A m \in Kept(e) \cup Shorts(e) :
          /\ ParseDTCs(Zero(m)) = {}
          /\ ~TooFew(m) => ParseDTCs(m) \subseteq ToSet(list)
     /\ fits => /\ \A m \in Shorts(e) : TooFew(m)
                /\ \A x \in ToSet(list) : \E m \in Kept(e) : x \in ParseDTCs(m)

LEMMA SaidOnCAN ==
  ASSUME TaskInv, pc = "lines", Svc \in Lists, vehicle = "can",
         NEW e \in said[Svc],
         NEW list, list = ecus[e].codes[Svc], IsSequence(list),
         \A i \in 1 .. Len(list) : list[i] # 0
  PROVE  CodesSaid(e, list)
<1>1. PICK n \in Nat : n = Len(list)
  BY EmptyIs
<1>2. PICK c \in Nat : c = n % CountMod /\ (n < CountMod => c = n)
  BY CountAssumption
<1>3. Id = 0
  BY AskedIs DEF Serves, Lists
<1>4. PICK m : m = Positive(Svc, Id, <<c>> \o list, 2 + 2 * n)
  OBVIOUS
<1>5. Kept(e) = {m}
  <2>1. /\ Kept(e) = ToSet(Answer(e, Svc, Id)) /\ Svc \in ecus[e].answers
        /\ e \in Ecu /\ Asking /\ step \in 1 .. Len(Requests)
    BY KeptSome, AskedIs
  <2>2. Answer(e, Svc, Id) = <<m>>
    BY <1>1, <1>2, <1>3, <1>4, <2>1, AnswerIs DEF CodesOnCAN
  <2> QED BY <2>1, <2>2 DEF ToSet
<1>6. \A d : IsSequence(<<d>>) /\ Len(<<d>>) = 1 /\ <<d>>[1] = d
  <2>1. \A d : <<d>> \in Seq({d}) /\ Len(<<d>>) = 1 /\ <<d>>[1] = d
    OBVIOUS
  <2> QED BY <2>1 DEF IsSequence
<1>7. ASSUME NEW d, NEW b, b = <<d>> \o list
      PROVE  IsSequence(b) /\ b # <<>> /\ b[1] = d /\ [b EXCEPT ![1] = d + 1] =
               <<d + 1>> \o list
  <2>1. PICK h, g : h = <<d>> /\ g = <<d + 1>>
    OBVIOUS
  <2>2. PICK u : u = g \o list
    OBVIOUS
  <2>3. /\ IsSequence(b) /\ Len(b) = n + 1 /\ b[1] = d
        /\ \A i \in 1 .. n : b[1 + i] = list[i]
    BY <1>1, <1>6, <1>7, <2>1, ConcatIs
  <2>4. /\ IsSequence(u) /\ Len(u) = n + 1 /\ u[1] = d + 1
        /\ \A i \in 1 .. n : u[1 + i] = list[i]
    BY <1>1, <1>6, <2>1, <2>2, ConcatIs
  <2>5. DOMAIN b = 1 .. n + 1 /\ DOMAIN u = 1 .. n + 1
    BY <2>3, <2>4, EmptyIs
  <2>6. PICK v : v = [b EXCEPT ![1] = d + 1]
    OBVIOUS
  <2>7. /\ v = [i \in 1 .. n + 1 |-> v[i]] /\ v[1] = d + 1
        /\ \A i \in 1 .. n + 1 : i # 1 => v[i] = b[i]
    <3>1. v = [i \in DOMAIN b |-> IF i = 1 THEN d + 1 ELSE b[i]]
      BY <2>6
    <3>2. v = [i \in 1 .. n + 1 |-> IF i = 1 THEN d + 1 ELSE b[i]]
      BY <2>5, <3>1
    <3> QED BY <3>2
  <2>8. u = [i \in 1 .. n + 1 |-> u[i]]
    <3>1. PICK S : u \in Seq(S)
      BY <2>4 DEF IsSequence
    <3> QED BY <2>5, <3>1
  <2>9. ASSUME NEW i \in 1 .. n + 1 PROVE v[i] = u[i]
    <3>1. CASE i = 1
      BY <2>4, <2>7, <3>1
    <3>2. CASE i # 1
      <4>1. PICK j \in 1 .. n : i = 1 + j
        <5>1. i - 1 \in 1 .. n /\ i = 1 + (i - 1)
          BY <3>2
        <5> QED BY <5>1
      <4> QED BY <2>3, <2>4, <2>7, <3>2, <4>1
    <3> QED BY <3>1, <3>2
  <2>10. v = u
    BY <2>7, <2>8, <2>9
  <2>11. b # <<>>
    BY <2>3, EmptyIs
  <2> QED BY <2>1, <2>2, <2>3, <2>6, <2>10, <2>11
<1>8. PICK s : s = Positive(Svc, Id, <<c + 1>> \o list, 2 + 2 * n)
  OBVIOUS
<1>9. Shorts(e) = {s}
  <2>1. PICK b : b = <<c>> \o list
    OBVIOUS
  <2>2. m = Positive(Svc, Id, b, 2 + 2 * n)
    BY <1>4, <2>1
  <2>3. [m EXCEPT !.body[1] = @ + 1] =
          Positive(Svc, Id, [b EXCEPT ![1] = @ + 1], 2 + 2 * n)
    BY <2>2 DEF Positive
  <2>4. b[1] = c /\ [b EXCEPT ![1] = c + 1] = <<c + 1>> \o list
    BY <1>7, <2>1
  <2>5. [b EXCEPT ![1] = @ + 1] = <<c + 1>> \o list
    BY <2>4
  <2>6. [m EXCEPT !.body[1] = @ + 1] = s
    BY <1>8, <2>3, <2>5
  <2>7. Shorts(e) = {[x EXCEPT !.body[1] = @ + 1] : x \in Kept(e)}
    BY DEF Shorts, ShortsOf
  <2> QED BY <1>5, <2>6, <2>7
<1>10. m.body = <<c>> \o list /\ s.body = <<c + 1>> \o list
  <2>1. PICK x, y : x = <<c>> \o list /\ y = <<c + 1>> \o list
    OBVIOUS
  <2>2. /\ m = Positive(Svc, Id, x, 2 + 2 * n)
        /\ s = Positive(Svc, Id, y, 2 + 2 * n)
    BY <1>4, <1>8, <2>1
  <2>3. m.body = x /\ s.body = y
    BY <2>2, KindsOf
  <2> QED BY <2>1, <2>3
<1>11. ParseDTCs(Zero(m)) = {} /\ ParseDTCs(Zero(s)) = {}
  <2>1. ASSUME NEW d, NEW z,
               z = Zero(Positive(Svc, Id, <<d>> \o list, 2 + 2 * n))
        PROVE  ParseDTCs(z) = {}
    <3>1. PICK b : b = <<d>> \o list /\ IsSequence(b) /\ b # <<>>
      BY <1>7
    <3>2. z = Zero(Positive(Svc, Id, b, 2 + 2 * n))
      BY <2>1, <3>1
    <3> QED BY <3>1, <3>2, ReadZero
  <2> QED BY <1>4, <1>8, <2>1
<1>12. /\ TooFew(m) <=> n < c
       /\ ~TooFew(m) => ParseDTCs(m) \subseteq ToSet(list)
       /\ ~TooFew(m) /\ c = n => ParseDTCs(m) = ToSet(list)
  BY <1>1, <1>10, ReadOnCAN
<1>13. /\ TooFew(s) <=> n < c + 1
       /\ ~TooFew(s) => ParseDTCs(s) \subseteq ToSet(list)
  <2>1. PICK d \in Nat : d = c + 1
    OBVIOUS
  <2>2. s.body = <<d>> \o list
    BY <1>10, <2>1
  <2>3. /\ TooFew(s) <=> n < d
        /\ ~TooFew(s) => ParseDTCs(s) \subseteq ToSet(list)
    BY <1>1, <2>2, ReadOnCAN
  <2> QED BY <2>1, <2>3
<1>14. n < CountMod => TooFew(s) /\ ParseDTCs(m) = ToSet(list)
  BY <1>2, <1>12, <1>13
<1> QED BY <1>1, <1>5, <1>9, <1>11, <1>12, <1>13, <1>14 DEF CodesSaid

LEMMA SaidOnLegacy ==
  ASSUME TaskInv, pc = "lines", Svc \in Lists, vehicle # "can",
         NEW e \in said[Svc],
         NEW list, list = ecus[e].codes[Svc], IsSequence(list),
         \A i \in 1 .. Len(list) : list[i] # 0
  PROVE  CodesSaid(e, list)
<1>1. PICK n \in Nat : n = Len(list) /\ DOMAIN list = 1 .. n
                       /\ (list = <<>> <=> n = 0)
  BY EmptyIs
<1>2. Id = 0
  BY AskedIs DEF Serves, Lists
<1>3. PICK l \in Nat \ {0} :
        l = IF list = <<>> THEN 1 ELSE (Len(list) + 2) \div 3
  <2>1. n > 0 => (n + 2) \div 3 \in Nat \ {0}
    OBVIOUS
  <2>2. list # <<>> => n > 0
    BY <1>1
  <2>3. CASE list = <<>>
    BY <2>3
  <2>4. CASE list # <<>>
    <3>1. (Len(list) + 2) \div 3 \in Nat \ {0}
      BY <1>1, <2>1, <2>2, <2>4
    <3> QED BY <2>4, <3>1
  <2> QED BY <2>3, <2>4
<1>4. PICK a : a = [k \in 1 .. l |-> Positive(Svc, 0, Slots(list, k - 1), 7)]
  OBVIOUS
<1>5. Kept(e) = {a[k] : k \in 1 .. l} /\ Shorts(e) = {}
  <2>1. /\ Kept(e) = ToSet(Answer(e, Svc, Id)) /\ Svc \in ecus[e].answers
        /\ e \in Ecu /\ Asking /\ step \in 1 .. Len(Requests)
    BY KeptSome, AskedIs
  <2>2. Answer(e, Svc, Id) = a
    BY <1>3, <1>4, <2>1, AnswerIs DEF CodesOnLegacy
  <2>3. DOMAIN a = 1 .. l
    BY <1>4
  <2> QED BY <2>1, <2>2, <2>3 DEF ToSet, Shorts, ShortsOf
<1>6. ToSet(list) = {list[j] : j \in 1 .. n}
  BY <1>1 DEF ToSet
<1>7. ASSUME NEW k \in 1 .. l
      PROVE  /\ ParseDTCs(Zero(a[k])) = {}
             /\ ParseDTCs(a[k]) \subseteq ToSet(list)
             /\ \A j \in 1 .. n : 3 * (k - 1) < j /\ j <= 3 * (k - 1) + 3 =>
                  list[j] \in ParseDTCs(a[k])
  <2>1. PICK p, b : p = k - 1 /\ p \in Nat /\ b = Slots(list, p)
    <3>1. k - 1 \in Nat
      OBVIOUS
    <3> QED BY <3>1
  <2>2. a[k] = Positive(Svc, 0, b, 7)
    BY <1>4, <2>1
  <2>3. IsSequence(b) /\ b # <<>>
    <3>1. b = [i \in 1 .. 3 |-> IF 3 * p + i <= Len(list)
                                THEN list[3 * p + i] ELSE 0]
      BY <2>1 DEF Slots
    <3>2. PICK T : T = {b[i] : i \in 1 .. 3}
      OBVIOUS
    <3>3. b \in Seq(T) /\ Len(b) = 3
      BY <3>1, <3>2
    <3>4. IsSequence(b)
      BY <3>3 DEF IsSequence
    <3>5. Len(b) # 0
      BY <3>3
    <3> QED BY <3>4, <3>5, EmptyIs
  <2>4. ParseDTCs(Zero(a[k])) = {}
    <3>1. PICK z : z = Zero(Positive(Svc, 0, b, 7))
      OBVIOUS
    <3>2. ParseDTCs(z) = {}
      BY <2>3, <3>1, ReadZero
    <3> QED BY <2>2, <3>1, <3>2
  <2>5. a[k].body = Slots(list, p)
    BY <2>1, <2>2, KindsOf
  <2>6. ParseDTCs(a[k]) = {list[i] : i \in {j \in 1 .. Len(list) :
                                        3 * p < j /\ j <= 3 * p + 3}}
    <3>1. PICK m : m = a[k]
      OBVIOUS
    <3>2. m.body = Slots(list, p)
      BY <2>5, <3>1
    <3>3. ParseDTCs(m) = {list[i] : i \in {j \in 1 .. Len(list) :
                                       3 * p < j /\ j <= 3 * p + 3}}
      BY <2>1, <3>2, ReadSlots
    <3> QED BY <3>1, <3>3
  <2> QED BY <1>1, <1>6, <2>1, <2>4, <2>6
<1>8. ASSUME NEW j \in 1 .. n
      PROVE  \E k \in 1 .. l : list[j] \in ParseDTCs(a[k])
  <2>1. l = (n + 2) \div 3
    <3>1. n # 0
      OBVIOUS
    <3> QED BY <1>1, <1>3, <3>1
  <2>2. PICK k : k = (j + 2) \div 3
    OBVIOUS
  <2>3. k \in 1 .. l /\ 3 * (k - 1) < j /\ j <= 3 * (k - 1) + 3
    BY <2>1, <2>2
  <2> QED BY <1>7, <2>3
<1>9. ASSUME NEW m \in Kept(e) \cup Shorts(e)
      PROVE  /\ ParseDTCs(Zero(m)) = {}
             /\ ParseDTCs(m) \subseteq ToSet(list)
  <2>1. PICK k \in 1 .. l : m = a[k]
    BY <1>5
  <2> QED BY <1>7, <2>1
<1>10. \A x \in ToSet(list) : \E m \in Kept(e) : x \in ParseDTCs(m)
  <2> TAKE x \in ToSet(list)
  <2>1. PICK j \in 1 .. n : x = list[j]
    BY <1>6
  <2>2. PICK k \in 1 .. l : x \in ParseDTCs(a[k])
    BY <1>8, <2>1
  <2> QED BY <1>5, <2>2
<1> QED BY <1>5, <1>9, <1>10 DEF CodesSaid

LEMMA ListIs ==
  ASSUME TaskInv, pc = "lines", Svc \in Lists, NEW e \in Ecu,
         NEW list, list = ecus[e].codes[Svc]
  PROVE  /\ IsFiniteSet(ToSet(list))
         /\ e \in said[Svc] => CodesSaid(e, list)
         /\ e \notin said[Svc] => Kept(e) = {} /\ Shorts(e) = {}
<1>1. list \in Seq(Nat \ {0})
  BY AskedIs DEF Profile
<1>2. IsSequence(list) /\ \A i \in 1 .. Len(list) : list[i] # 0
  BY <1>1 DEF IsSequence
<1>3. IsFiniteSet(ToSet(list))
  <2>1. PICK n \in Nat : n = Len(list) /\ DOMAIN list = 1 .. n
    BY <1>2, EmptyIs
  <2>2. ToSet(list) = {list[i] : i \in 1 .. n}
    BY <2>1 DEF ToSet
  <2> QED BY <2>2, ValuesFinite
<1>4. ASSUME e \in said[Svc] PROVE CodesSaid(e, list)
  BY <1>2, <1>4, SaidOnCAN, SaidOnLegacy
<1>5. e \notin said[Svc] => Kept(e) = {} /\ Shorts(e) = {}
  BY DEF Kept, Shorts, ShortsOf
<1> QED BY <1>3, <1>4, <1>5

\* The codes in what a request returns.
CodesIn(rs) == UNION {ParseDTCs(rs[i].msg) : i \in 1 .. Len(rs)}
Fits(svc, from) ==
  vehicle = "legacy" \/ \A e \in from : Len(ecus[e].codes[svc]) < CountMod

LEMMA CodesRead ==
  ASSUME TaskInv, pc = "lines", Svc \in Lists,
         NEW got, Heard(got), got.err = "nil",
         \A i \in 1 .. Len(got.rs) : ~TooFew(got.rs[i].msg)
  PROVE  /\ IsFiniteSet(CodesIn(got.rs))
         /\ CodesIn(got.rs) \subseteq Truth(Svc, said[Svc])
         /\ said[Svc] # {}
         /\ ~Harmed(Svc) /\ Fits(Svc, said[Svc]) =>
              CodesIn(got.rs) = Truth(Svc, said[Svc])
<1>1. PICK rs, N : /\ rs = got.rs /\ N = Len(rs) /\ N \in Nat
                   /\ IsSequence(rs) /\ 1 \in 1 .. N
  BY EmptyIs DEF Heard
<1>2. PICK E : E = said[Svc] /\ E \subseteq Ecu
  BY AskedIs
<1>3. PICK f : f = [i \in 1 .. N |-> ParseDTCs(rs[i].msg)]
  OBVIOUS
<1>4. PICK U : U = CodesIn(rs) /\ U = UNION {f[i] : i \in 1 .. N}
  BY <1>1, <1>3 DEF CodesIn
<1>5. ASSUME NEW i \in 1 .. N
      PROVE  /\ rs[i].ecu \in E
             /\ f[i] \subseteq ToSet(ecus[rs[i].ecu].codes[Svc])
             /\ IsFiniteSet(f[i])
  <2>1. Meant(rs[i]) /\ ~TooFew(rs[i].msg)
    BY <1>1 DEF Heard
  <2>2. PICK e, m : e = rs[i].ecu /\ m = rs[i].msg /\ e \in Ecu
                    /\ f[i] = ParseDTCs(m)
    BY <1>3, <2>1 DEF Meant
  <2>3. PICK list : list = ecus[e].codes[Svc]
    OBVIOUS
  <2>4. PICK n \in Kept(e) \cup Shorts(e) : m = n \/ m = Zero(n)
    BY <2>1, <2>2 DEF Meant
  <2>5. e \in E
    BY <1>2, <2>2, <2>3, <2>4, ListIs
  <2>6. CodesSaid(e, list) /\ IsFiniteSet(ToSet(list))
    BY <1>2, <2>2, <2>3, <2>5, ListIs
  <2>7. f[i] \subseteq ToSet(list)
    BY <2>1, <2>2, <2>4, <2>6 DEF CodesSaid
  <2>8. IsFiniteSet(f[i])
    BY <2>6, <2>7, FS_Subset
  <2> QED BY <2>2, <2>3, <2>5, <2>7, <2>8
<1>6. IsFiniteSet(U)
  <2>1. PICK V : V = {f[i] : i \in 1 .. N}
    OBVIOUS
  <2>2. IsFiniteSet(V)
    BY <1>1, <2>1, ValuesFinite
  <2>3. \A T \in V : IsFiniteSet(T)
    BY <1>5, <2>1
  <2> QED BY <1>4, <2>1, <2>2, <2>3, FS_UNION
<1>7. U \subseteq Truth(Svc, E)
  <2> SUFFICES ASSUME NEW x \in U PROVE x \in Truth(Svc, E)
    OBVIOUS
  <2>1. PICK i \in 1 .. N : x \in f[i]
    BY <1>4
  <2>2. PICK e \in E : x \in ToSet(ecus[e].codes[Svc])
    BY <1>5, <2>1
  <2> QED BY <2>2 DEF Truth
<1>8. E # {}
  BY <1>1, <1>5
<1>9. ASSUME ~Harmed(Svc), Fits(Svc, E) PROVE Truth(Svc, E) \subseteq U
  <2> SUFFICES ASSUME NEW x \in Truth(Svc, E) PROVE x \in U
    OBVIOUS
  <2>1. PICK e \in E : x \in ToSet(ecus[e].codes[Svc])
    BY DEF Truth
  <2>2. PICK list : list = ecus[e].codes[Svc]
    OBVIOUS
  <2>3. CodesSaid(e, list)
    BY <1>2, <2>2, ListIs
  <2>4. vehicle # "can" \/ Len(list) < CountMod
    BY <1>9, <2>2 DEF Fits
  <2>5. /\ \A m \in Shorts(e) : TooFew(m)
        /\ \E m \in Kept(e) : x \in ParseDTCs(m)
    BY <2>1, <2>2, <2>3, <2>4 DEF CodesSaid
  <2>6. \A m : In(Response(e, m), rs) =>
                 \E i \in 1 .. N : rs[i].msg = m
    BY <1>1 DEF In, Response
  <2>7. \A m \in Shorts(e) : ~In(Response(e, m), rs)
    BY <1>1, <2>5, <2>6
  <2>8. \A m \in Kept(e) : In(Response(e, m), rs)
    BY <1>1, <1>2, <1>9, <2>7 DEF Heard
  <2>9. PICK m \in Kept(e) : x \in ParseDTCs(m)
    BY <2>5
  <2>10. PICK i \in 1 .. N : rs[i].msg = m
    BY <2>6, <2>8
  <2>11. x \in f[i]
    BY <1>3, <2>9, <2>10
  <2> QED BY <1>4, <2>11
<1> QED BY <1>1, <1>2, <1>4, <1>6, <1>7, <1>8, <1>9

\* What CodesReported says of a service.
Reported(svc) ==
  LET list == IF svc \in DOMAIN codes THEN codes[svc] ELSE <<>>
      from == said[svc]
  IN /\ \A i \in 1 .. Len(list) - 1 : list[i] < list[i + 1]
     /\ ToSet(list) \subseteq Truth(svc, Ecu)
     /\ ~Harmed(svc) => (svc \in DOMAIN codes <=> from # {})
     /\ ~Harmed(svc) /\ Fits(svc, from) => ToSet(list) = Truth(svc, from)

LEMMA ReportedIs ==
  CodesReported <=> (ret \in {"none", "ok"} =>
    \A svc \in Lists \cap DOMAIN said : ~(svc = Svc /\ pc = "lines") =>
      Reported(svc))
BY DEF CodesReported, Reported, Fits

\* It does not change but with the lists, or when the service is asked for.
LEMMA ReportedStays ==
  ASSUME NEW svc, Reported(svc), vehicle' = vehicle, ecus' = ecus,
         odd \subseteq odd', said'[svc] = said[svc],
         svc \in DOMAIN codes' <=> svc \in DOMAIN codes,
         svc \in DOMAIN codes => codes'[svc] = codes[svc]
  PROVE  Reported(svc)'
<1>1. PICK list : list = IF svc \in DOMAIN codes THEN codes[svc] ELSE <<>>
  OBVIOUS
<1>2. list = IF svc \in DOMAIN codes' THEN codes'[svc] ELSE <<>>
  BY <1>1
<1>3. \A from : Truth(svc, from)' = Truth(svc, from)
  BY DEF Truth
<1>4. \A from : Fits(svc, from)' <=> Fits(svc, from)
  BY DEF Fits
<1>5. Harmed(svc) => Harmed(svc)'
  BY DEF Harmed
<1>6. /\ \A i \in 1 .. Len(list) - 1 : list[i] < list[i + 1]
      /\ ToSet(list) \subseteq Truth(svc, Ecu)
      /\ ~Harmed(svc) => (svc \in DOMAIN codes <=> said[svc] # {})
      /\ ~Harmed(svc) /\ Fits(svc, said[svc]) =>
           ToSet(list) = Truth(svc, said[svc])
  BY <1>1 DEF Reported
<1>7. ToSet(list)' = ToSet(list)
  OBVIOUS
<1> QED BY <1>2, <1>3, <1>4, <1>5, <1>6, <1>7 DEF Reported

\* At the prompt of the service itself.
LEMMA ReportedAtPrompt ==
  ASSUME TaskInv, LinesInv, AtPrompt, Svc \in Lists, ret' \in {"none", "ok"},
         NEW s, s = Svc
  PROVE  Reported(s)'
<1>1. PICK got : /\ Heard(got)
                 /\ \/ Fails(got) \/ ReadLamp(got) \/ ReadCodes(got)
                    \/ ReadVIN(got) \/ ReadDataByIdentifier(got)
  BY PromptGets
<1>2. /\ pc = "lines" /\ said' = said /\ odd' = odd /\ ecus' = ecus
      /\ vehicle' = vehicle /\ Svc \notin DOMAIN codes /\ ret = "none"
      /\ said[Svc] \subseteq Ecu
  BY AskedIs, PromptGets
<1>3. s = Svc
  OBVIOUS
<1>4. s \in {"03", "07", "0A"}
  BY <1>3 DEF Lists
<1>5. PICK from : from = said[s]
  OBVIOUS
<1>6. \A S : Truth(s, S)' = Truth(s, S)
  BY <1>2 DEF Truth
<1>7. (Fits(s, from)' <=> Fits(s, from)) /\ (Harmed(s)' <=> Harmed(s))
  BY <1>2 DEF Fits, Harmed
<1>8. Truth(s, from) \subseteq Truth(s, Ecu)
  BY <1>2, <1>3, <1>5 DEF Truth
<1>9. PICK list : list = IF s \in DOMAIN codes' THEN codes'[s] ELSE <<>>
  OBVIOUS
<1>10. /\ \A i \in 1 .. Len(list) - 1 : list[i] < list[i + 1]
       /\ ToSet(list) \subseteq Truth(s, from)
       /\ ~Harmed(s) => (s \in DOMAIN codes' <=> from # {})
       /\ ~Harmed(s) /\ Fits(s, from) => ToSet(list) = Truth(s, from)
  <2>1. CASE Fails(got)
    <3>1. got.err = "noResponse" /\ codes' = codes
      BY <1>1, <1>2, <2>1 DEF Fails, Finish, Heard
    <3>2. list = <<>> /\ s \notin DOMAIN codes'
      BY <1>2, <1>3, <1>9, <3>1
    <3>3. Len(list) = 0 /\ ToSet(list) = {}
      BY <3>2 DEF ToSet
    <3>4. ASSUME ~Harmed(s), NEW e \in from PROVE FALSE
      <4>1. e \in Ecu /\ Kept(e) # {}
        BY <1>2, <1>3, <1>5, KeptSome
      <4>2. \A x : ~In(x, got.rs)
        BY <1>1, <3>1, NoneIsSequence DEF Heard, In
      <4> QED BY <1>1, <1>3, <3>4, <4>1, <4>2 DEF Heard
    <3>5. ~Harmed(s) => from = {} /\ Truth(s, from) = {}
      BY <3>4 DEF Truth
    <3>6. \A i \in 1 .. Len(list) - 1 : list[i] < list[i + 1]
      <4>1. 1 .. Len(list) - 1 = {}
        BY <3>3
      <4> QED BY <4>1
    <3>7. ToSet(list) \subseteq Truth(s, from)
      BY <3>3
    <3>8. ~Harmed(s) => (s \in DOMAIN codes' <=> from # {})
      BY <3>2, <3>5
    <3>9. ~Harmed(s) /\ Fits(s, from) => ToSet(list) = Truth(s, from)
      BY <3>3, <3>5
    <3> QED BY <3>6, <3>7, <3>8, <3>9
  <2>2. CASE ReadCodes(got)
    <3>1. PICK rs : rs = got.rs /\ got.err = "nil" /\ DOMAIN rs = 1 .. Len(rs)
      BY <1>1, <2>2, EmptyIs DEF ReadCodes, Heard
    <3>2. /\ \A i \in DOMAIN rs : ~TooFew(rs[i].msg)
          /\ \E l \in CodesOf(rs) : codes' = With(codes, Svc, l)
      BY <1>2, <2>2, <3>1 DEF ReadCodes, Finish
    <3>3. PICK l \in CodesOf(rs) : codes' = With(codes, s, l)
      BY <1>3, <3>2
    <3>4. list = l /\ s \in DOMAIN codes'
      BY <1>9, <3>3 DEF With
    <3>5. /\ IsFiniteSet(CodesIn(rs))
          /\ CodesIn(rs) \subseteq Truth(s, from)
          /\ from # {}
          /\ ~Harmed(s) /\ Fits(s, from) => CodesIn(rs) = Truth(s, from)
      <4>1. \A i \in 1 .. Len(got.rs) : ~TooFew(got.rs[i].msg)
        BY <3>1, <3>2
      <4> QED BY <1>1, <1>2, <1>3, <1>5, <3>1, <4>1, CodesRead
    <3>6. PICK U : U = CodesIn(rs) /\ l \in Ascending(U)
      BY <3>3 DEF CodesOf, CodesIn
    <3>7. ToSet(l) = U /\ \A i \in 1 .. Len(l) - 1 : l[i] < l[i + 1]
      BY <3>5, <3>6, AscendingIs
    <3> QED BY <3>4, <3>5, <3>6, <3>7
  <2>3. ~ReadLamp(got) /\ ~ReadVIN(got) /\ ~ReadDataByIdentifier(got)
    BY <1>3, <1>4 DEF ReadLamp, ReadVIN, ReadDataByIdentifier
  <2> QED BY <1>1, <2>1, <2>2, <2>3
<1>11. Reported(s)'
  <2>1. said'[s] = from
    BY <1>2, <1>5
  <2>2. list = IF s \in DOMAIN codes' THEN codes'[s] ELSE <<>>
    BY <1>9
  <2>3. ToSet(list) \subseteq Truth(s, Ecu)'
    BY <1>6, <1>8, <1>10
  <2>4. ~Harmed(s)' => (s \in DOMAIN codes' <=> said'[s] # {})
    BY <1>7, <1>10, <2>1
  <2>5. ~Harmed(s)' /\ Fits(s, from)' => ToSet(list) = Truth(s, from)'
    BY <1>6, <1>7, <1>10
  <2> QED BY <1>10, <2>1, <2>2, <2>3, <2>4, <2>5 DEF Reported
<1> QED BY <1>3, <1>11

LEMMA CodesReportedStep ==
  ASSUME TaskInv, LinesInv, CodesReported, [Next]_vars
  PROVE  CodesReported'
<1> SUFFICES ASSUME ret' \in {"none", "ok"},
                    NEW svc, svc \in Lists, svc \in DOMAIN said',
                    ~(svc = Svc' /\ pc' = "lines")
             PROVE  Reported(svc)'
  <2>1. (CodesReported <=> (ret \in {"none", "ok"} =>
           \A svc \in Lists \cap DOMAIN said : ~(svc = Svc /\ pc = "lines") =>
             Reported(svc)))'
    BY ReportedIs, PTL
  <2> QED BY <2>1
<1>1. CASE AtPrompt
  <2>1. /\ pc = "lines" /\ said' = said /\ odd' = odd /\ ecus' = ecus
        /\ vehicle' = vehicle /\ Svc \notin DOMAIN codes /\ ret = "none"
    BY <1>1, AskedIs, PromptGets
  <2>2. CASE svc = Svc
    <3> QED BY <1>1, <2>2, ReportedAtPrompt
  <2>3. CASE svc # Svc
    <3>1. Reported(svc)
      BY <2>1, <2>3, ReportedIs
    <3>2. codes' = codes \/ \E l : codes' = With(codes, Svc, l)
      BY <1>1 DEF AtPrompt, Fails, ReadLamp, ReadCodes, ReadVIN,
        ReadDataByIdentifier
    <3>3. /\ svc \in DOMAIN codes' <=> svc \in DOMAIN codes
          /\ svc \in DOMAIN codes => codes'[svc] = codes[svc]
      BY <2>3, <3>2 DEF With
    <3> QED BY <2>1, <3>1, <3>3, ReportedStays
  <2> QED BY <2>2, <2>3
<1>2. CASE ~AtPrompt
  <2>1. Quiet
    BY <1>2, QuietIs
  <2>2. /\ vehicle' = vehicle /\ ecus' = ecus /\ odd \subseteq odd'
        /\ codes' = codes /\ ret' = ret /\ Svc' = Svc
    BY <2>1 DEF Quiet, Svc, Requests
  <2>3. svc \in DOMAIN said /\ said'[svc] = said[svc]
        /\ ~(svc = Svc /\ pc = "lines")
    <3>1. CASE said' = said /\ (Asking => pc' = pc)
      <4>1. pc = "lines" => pc' = pc
        BY <3>1 DEF TaskInv
      <4> QED BY <2>2, <3>1, <4>1
    <3>2. CASE /\ pc = "request" /\ pc' = "lines"
               /\ \E giving : said' = With(said, Svc, giving)
      <4>1. svc # Svc
        BY <2>2, <3>2
      <4> QED BY <3>2, <4>1 DEF With
    <3> QED BY <2>1, <3>1, <3>2 DEF Quiet
  <2>4. Reported(svc)
    BY <2>2, <2>3, ReportedIs
  <2> QED BY <2>2, <2>3, <2>4, ReportedStays
<1> QED BY <1>1, <1>2

-----------------------------------------------------------------------------
(* The VIN and the data of an identifier                                   *)

\* Numbers that grow and leave none out.
Grows(f, N, n) ==
  /\ \A i \in 1 .. N : f[i] \in 1 .. n
  /\ \A i, j \in 1 .. N : i < j => f[i] < f[j]
  /\ \A k \in 1 .. n : \E i \in 1 .. N : f[i] = k

LEMMA NoneLeftOut ==
  ASSUME NEW N \in Nat, NEW n \in Nat, NEW f, Grows(f, N, n)
  PROVE  N = n /\ \A i \in 1 .. N : f[i] = i
<1>0. /\ \A i \in 1 .. N : f[i] \in 1 .. n
      /\ \A i, j \in 1 .. N : i < j => f[i] < f[j]
      /\ \A k \in 1 .. n : \E i \in 1 .. N : f[i] = k
  BY DEF Grows
<1> DEFINE T == {m \in Nat : m <= N => \A i \in 1 .. m : f[i] = i}
<1>1. 0 \in T
  OBVIOUS
<1>2. ASSUME NEW m \in Nat, m \in T PROVE m + 1 \in T
  <2> SUFFICES ASSUME m + 1 <= N PROVE \A i \in 1 .. m + 1 : f[i] = i
    OBVIOUS
  <2>1. /\ \A i \in 1 .. m : f[i] = i
        /\ m + 1 \in 1 .. N /\ \A i \in 1 .. m : i \in 1 .. N /\ i < m + 1
    BY <1>2
  <2>2. PICK x \in 1 .. n : x = f[m + 1]
    BY <1>0, <2>1
  <2>3. x >= m + 1
    <3>1. CASE m = 0
      BY <3>1
    <3>2. CASE m # 0
      <4>1. m \in 1 .. m
        BY <3>2
      <4>2. f[m] = m /\ f[m] < f[m + 1]
        BY <1>0, <2>1, <4>1
      <4> QED BY <2>2, <4>2
    <3> QED BY <3>1, <3>2
  <2>4. ASSUME x > m + 1 PROVE FALSE
    <3>1. m + 1 \in 1 .. n
      BY <2>4
    <3>2. PICK i \in 1 .. N : f[i] = m + 1
      BY <1>0, <3>1
    <3>3. CASE i <= m
      <4>1. i \in 1 .. m
        BY <3>3
      <4>2. f[i] = i
        BY <2>1, <4>1
      <4> QED BY <3>2, <3>3, <4>2
    <3>4. CASE i = m + 1
      BY <2>2, <2>4, <3>2, <3>4
    <3>5. CASE i > m + 1
      <4>1. f[m + 1] < f[i]
        BY <1>0, <2>1, <3>5
      <4> QED BY <2>2, <2>4, <3>2, <4>1
    <3> QED BY <3>3, <3>4, <3>5
  <2>5. f[m + 1] = m + 1
    BY <2>2, <2>3, <2>4
  <2>6. \A i \in 1 .. m + 1 : i \in 1 .. m \/ i = m + 1
    OBVIOUS
  <2> QED BY <2>1, <2>5, <2>6
<1>3. N \in T
  <2> HIDE DEF T
  <2> QED BY <1>1, <1>2, Induction
<1>4. \A i \in 1 .. N : f[i] = i
  BY <1>3
<1>5. N <= n
  <2>1. CASE N = 0
    BY <2>1
  <2>2. CASE N # 0
    <3>1. N \in 1 .. N
      BY <2>2
    <3>2. f[N] = N /\ f[N] \in 1 .. n
      BY <1>0, <1>4, <3>1
    <3> QED BY <3>2
  <2> QED BY <2>1, <2>2
<1>6. ~(N < n)
  <2> SUFFICES ASSUME N < n PROVE FALSE
    OBVIOUS
  <2>1. n \in 1 .. n
    OBVIOUS
  <2>2. PICK i \in 1 .. N : f[i] = n
    BY <1>0, <2>1
  <2>3. f[i] = i
    BY <1>4
  <2> QED BY <2>2, <2>3
<1> QED BY <1>4, <1>5, <1>6

\* The messages of a VIN that are each there once, in the order of their
\* numbers.
Holds(own, r, v, n) ==
  /\ \A i \in 1 .. Len(own) : \E k \in 1 .. n : own[i] = r[k]
  /\ \A k \in 1 .. n : \E i \in 1 .. Len(own) : own[i] = r[k]
  /\ \A k \in 1 .. n : r[k].msg.body = <<k, v[k]>>

LEMMA InOrderIs ==
  ASSUME NEW own, IsSequence(own), Distinct(own), NEW n \in Nat, NEW r, NEW v,
         Holds(own, r, v, n), NEW p \in InOrder(own), NEW val,
         val = [i \in 1 .. Len(own) |-> own[p[i]].msg.body[2]]
  PROVE  val = [k \in 1 .. n |-> v[k]]
<1>1. PICK N \in Nat : N = Len(own)
  BY EmptyIs
<1>2. /\ p \in [1 .. N -> 1 .. N]
      /\ \A i, j \in 1 .. N : i # j => p[i] # p[j]
      /\ \A j \in 1 .. N : \E i \in 1 .. N : p[i] = j
      /\ \A i, j \in 1 .. N :
           i < j => own[p[i]].msg.body[1] <= own[p[j]].msg.body[1]
  <2>1. p \in Bijection(1 .. N, 1 .. N)
    BY <1>1 DEF InOrder
  <2>2. /\ p \in [1 .. N -> 1 .. N]
        /\ \A i, j \in 1 .. N : i # j => p[i] # p[j]
        /\ \A j \in 1 .. N : \E i \in 1 .. N : p[i] = j
    BY <2>1 DEF Bijection, Injection, Surjection, IsInjective
  <2>3. \A i, j \in 1 .. N :
          i < j => own[p[i]].msg.body[1] <= own[p[j]].msg.body[1]
    BY <1>1 DEF InOrder
  <2> QED BY <2>2, <2>3
<1>3. PICK f : f = [i \in 1 .. N |-> own[p[i]].msg.body[1]]
  OBVIOUS
<1>4. ASSUME NEW k \in 1 .. n
      PROVE  r[k].msg.body[1] = k /\ r[k].msg.body[2] = v[k]
  <2>1. r[k].msg.body = <<k, v[k]>>
    BY DEF Holds
  <2> QED BY <2>1
<1>5. ASSUME NEW i \in 1 .. N
      PROVE  /\ f[i] \in 1 .. n /\ own[p[i]] = r[f[i]]
             /\ own[p[i]].msg.body[2] = v[f[i]]
  <2>1. p[i] \in 1 .. N
    BY <1>2
  <2>2. PICK k \in 1 .. n : own[p[i]] = r[k]
    BY <1>1, <2>1 DEF Holds
  <2>3. f[i] = k
    BY <1>3, <1>4, <2>2
  <2> QED BY <1>4, <2>2, <2>3
<1>6. ASSUME NEW i \in 1 .. N, NEW j \in 1 .. N, i < j
      PROVE  f[i] < f[j]
  <2>1. f[i] <= f[j]
    BY <1>2, <1>3, <1>6
  <2>2. f[i] # f[j]
    <3>1. p[i] \in 1 .. N /\ p[j] \in 1 .. N /\ p[i] # p[j]
      BY <1>2, <1>6
    <3>2. own[p[i]] # own[p[j]]
      BY <1>1, <3>1 DEF Distinct
    <3>3. own[p[i]] = r[f[i]] /\ own[p[j]] = r[f[j]]
      BY <1>5
    <3> QED BY <3>2, <3>3
  <2>3. \A x \in 1 .. N : f[x] \in 1 .. n
    BY <1>5
  <2>4. \A x \in 1 .. n, y \in 1 .. n : x <= y /\ x # y => x < y
    OBVIOUS
  <2> QED BY <2>1, <2>2, <2>3, <2>4
<1>7. ASSUME NEW k \in 1 .. n PROVE \E i \in 1 .. N : f[i] = k
  <2>1. PICK j \in 1 .. N : own[j] = r[k]
    BY <1>1 DEF Holds
  <2>2. PICK i \in 1 .. N : p[i] = j
    BY <1>2
  <2>3. f[i] = k
    BY <1>3, <1>4, <2>1, <2>2
  <2> QED BY <2>3
<1>8. N = n /\ \A i \in 1 .. N : f[i] = i
  <2>1. \A i \in 1 .. N : f[i] \in 1 .. n
    BY <1>5
  <2>2. \A i, j \in 1 .. N : i < j => f[i] < f[j]
    BY <1>6
  <2>3. \A k \in 1 .. n : \E i \in 1 .. N : f[i] = k
    BY <1>7
  <2>4. Grows(f, N, n)
    BY <2>1, <2>2, <2>3 DEF Grows
  <2> QED BY <2>4, NoneLeftOut
<1>9. ASSUME NEW i \in 1 .. N PROVE own[p[i]].msg.body[2] = v[i]
  <2>1. f[i] = i
    BY <1>8
  <2>2. own[p[i]].msg.body[2] = v[f[i]]
    BY <1>5
  <2> QED BY <2>1, <2>2
<1> QED BY <1>1, <1>8, <1>9

\* The value a command returns is that of an ECU that gave its answer.
LEMMA ValueRead ==
  ASSUME TaskInv, pc = "lines", Svc \in {"09", "22"},
         NEW got, Heard(got), got.err = "nil",
         NEW val, \/ Svc = "09" /\ val \in VINsOf(got.rs)
                  \/ Svc = "22" /\ val = got.rs[1].msg.body
  PROVE  \/ \E e \in said[Svc] : val = IF Svc = "09" THEN Vin(e)
                                       ELSE DidData(e)
         \/ vehicle = "legacy" /\ (Harmed("09") \/ <<"09", "same">> \in odd)
<1>1. PICK rs, N : /\ rs = got.rs /\ N = Len(rs) /\ N \in Nat
                   /\ IsSequence(rs) /\ 1 \in 1 .. N /\ DOMAIN rs = 1 .. N
  BY EmptyIs DEF Heard
<1>2. Svc \notin Lists /\ vehicle \in {"can", "legacy"}
  BY DEF Lists, TaskInv
<1>3. /\ Asking /\ step \in 1 .. Len(Requests) /\ ecus \in [Ecu -> Profile]
      /\ said[Svc] \subseteq {f \in Ecu : Svc \in ecus[f].answers}
  BY AskedIs
<1>4. \A f : Shorts(f) = {}
  BY <1>2 DEF Shorts, ShortsOf
<1>5. ASSUME NEW i \in 1 .. N
      PROVE  /\ rs[i].ecu \in Ecu /\ rs[i] = Response(rs[i].ecu, rs[i].msg)
             /\ rs[i].ecu \in said[Svc] /\ rs[i].msg \in Kept(rs[i].ecu)
  <2>1. Meant(rs[i])
    BY <1>1 DEF Heard
  <2>2. rs[i].msg \in Kept(rs[i].ecu)
    BY <1>2, <1>4, <2>1 DEF Meant
  <2> QED BY <2>1, <2>2 DEF Meant, Kept
<1>6. PICK e, m : /\ e = rs[1].ecu /\ m = rs[1].msg /\ e \in said[Svc]
                  /\ m \in Kept(e) /\ e \in Ecu /\ Svc \in ecus[e].answers
  BY <1>1, <1>3, <1>5
<1>7. PICK a : a = Answer(e, Svc, Id) /\ Kept(e) = ToSet(a)
  BY <1>6 DEF Kept
<1>8. \A x : ToSet(<<x>>) = {x}
  BY DEF ToSet
<1>9. CASE Svc = "22"
  <2>1. PICK b : b = DidData(e)
    OBVIOUS
  <2>2. PICK x : x = Positive(Svc, Id, b, 5) /\ x.body = b
    BY KindsOf
  <2>3. a = <<x>>
    BY <1>3, <1>6, <1>7, <1>9, <2>1, <2>2, AnswerIs
  <2>4. m.body = b
    BY <1>6, <1>7, <1>8, <2>2, <2>3
  <2> QED BY <1>1, <1>6, <1>9, <2>1, <2>4
<1>10. CASE Svc = "09" /\ vehicle = "can"
  <2>1. PICK b : b = Vin(e)
    OBVIOUS
  <2>2. PICK x : x = Positive(Svc, Id, b, 20) /\ x.body = b
    BY KindsOf
  <2>3. a = <<x>>
    BY <1>3, <1>6, <1>7, <1>10, <2>1, <2>2, AnswerIs
  <2>4. m.body = b
    BY <1>6, <1>7, <1>8, <2>2, <2>3
  <2>5. val = m.body
    BY <1>1, <1>6, <1>10 DEF VINsOf
  <2> QED BY <1>6, <1>10, <2>1, <2>4, <2>5
<1>11. CASE Svc = "09" /\ vehicle # "can"
  <2> SUFFICES ASSUME ~Harmed("09"), <<"09", "same">> \notin odd
               PROVE  val = Vin(e)
    BY <1>2, <1>6, <1>11
  <2>1. PICK n \in Nat : n = VinParts
    BY CountAssumption
  <2>2. PICK v : v = Vin(e) /\ v = [k \in 1 .. n |-> v[k]]
    BY <2>1 DEF Vin
  <2>3. a = [k \in 1 .. n |-> Positive(Svc, Id, <<k, v[k]>>, 7)]
    BY <1>3, <1>6, <1>7, <1>11, <2>1, <2>2, AnswerIs
  <2>4. Kept(e) = {a[k] : k \in 1 .. n}
    BY <1>7, <2>3 DEF ToSet
  <2>5. PICK r : r = [k \in 1 .. n |-> Response(e, a[k])]
    OBVIOUS
  <2>6. ASSUME NEW k \in 1 .. n PROVE r[k].msg.body = <<k, v[k]>>
    <3>1. a[k] = Positive(Svc, Id, <<k, v[k]>>, 7)
      BY <2>3
    <3>2. a[k].body = <<k, v[k]>>
      BY <3>1, KindsOf
    <3>3. r[k].msg = a[k]
      BY <2>5 DEF Response
    <3> QED BY <3>2, <3>3
  <2>7. PICK S, T : /\ S = {x \in ToSet(rs) : x.ecu # rs[1].ecu}
                    /\ T = {x \in ToSet(rs) : x.ecu = e}
    OBVIOUS
  <2>8. ToSet(rs) = {rs[i] : i \in 1 .. N}
    BY <1>1 DEF ToSet
  <2>9. \A i \in 1 .. Len(rs) : rs[i] \in S <=> rs[i] \notin T
    BY <1>1, <1>6, <2>7, <2>8
  <2>10. PICK own : own = Without(rs, S)
    OBVIOUS
  <2>11. Left(own, rs, T)
    BY <1>1, <2>9, <2>10, WithoutThose
  <2>12. Distinct(own) /\ IsSequence(own)
    <3>1. Single(odd)
      BY <1>11 DEF Single
    <3>2. Distinct(rs)
      BY <1>1, <1>11, <3>1 DEF Heard
    <3> QED BY <2>11, <3>2 DEF Left
  <2>13. ASSUME NEW i \in 1 .. Len(own)
         PROVE  \E k \in 1 .. n : own[i] = r[k]
    <3>1. PICK j \in 1 .. N : own[i] = rs[j] /\ own[i] \in T
      BY <1>1, <2>11 DEF Left
    <3>2. own[i].ecu = e
      BY <2>7, <3>1
    <3>3. own[i] = Response(e, own[i].msg) /\ own[i].msg \in Kept(e)
      BY <1>5, <3>1, <3>2
    <3>4. PICK k \in 1 .. n : own[i].msg = a[k]
      BY <2>4, <3>3
    <3> QED BY <2>5, <3>3, <3>4
  <2>14. ASSUME NEW k \in 1 .. n
         PROVE  \E i \in 1 .. Len(own) : own[i] = r[k]
    <3>1. PICK y : y = a[k] /\ y \in Kept(e)
      BY <2>4
    <3>2. In(Response(e, y), got.rs)
      BY <1>4, <1>6, <1>11, <3>1 DEF Heard
    <3>3. PICK j \in 1 .. N : rs[j] = Response(e, y)
      BY <1>1, <3>2 DEF In
    <3>4. rs[j].ecu = e /\ rs[j] = r[k]
      BY <2>5, <3>1, <3>3 DEF Response
    <3>5. rs[j] \in T
      BY <2>7, <2>8, <3>4
    <3> QED BY <1>1, <2>11, <3>4, <3>5 DEF Left
  <2>15. PICK p : /\ p \in InOrder(own)
                  /\ val = [i \in 1 .. Len(own) |-> own[p[i]].msg.body[2]]
    <3>1. val \in VINsOf(rs)
      BY <1>1, <1>11
    <3>2. VINsOf(rs) = {[i \in 1 .. Len(own) |-> own[p[i]].msg.body[2]] :
                          p \in InOrder(own)}
      BY <1>11, <2>7, <2>10 DEF VINsOf
    <3> QED BY <3>1, <3>2
  <2>16. val = [k \in 1 .. n |-> v[k]]
    <3>1. \A i \in 1 .. Len(own) : \E k \in 1 .. n : own[i] = r[k]
      BY <2>13
    <3>2. \A k \in 1 .. n : \E i \in 1 .. Len(own) : own[i] = r[k]
      BY <2>14
    <3>3. \A k \in 1 .. n : r[k].msg.body = <<k, v[k]>>
      BY <2>6
    <3>4. Holds(own, r, v, n)
      BY <3>1, <3>2, <3>3 DEF Holds
    <3> QED BY <2>12, <2>15, <3>4, InOrderIs
  <2> QED BY <2>2, <2>16
<1> QED BY <1>9, <1>10, <1>11

LEMMA ValueWholeStep ==
  ASSUME TaskInv, LinesInv, ValueWhole, [Next]_vars
  PROVE  ValueWhole'
<1> SUFFICES ASSUME ret' = "ok", task' \in {"vin", "did"}
             PROVE  \/ \E e \in said'[Svc'] :
                         value' = IF task' = "vin" THEN Vin(e) ELSE DidData(e)
                    \/ /\ vehicle' = "legacy"
                       /\ Harmed("09")' \/ <<"09", "same">> \in odd'
  BY DEF ValueWhole, Vin, DidData
<1>1. CASE AtPrompt
  <2>1. PICK got : /\ Heard(got)
                   /\ \/ Fails(got) \/ ReadLamp(got) \/ ReadCodes(got)
                      \/ ReadVIN(got) \/ ReadDataByIdentifier(got)
    BY <1>1, PromptGets
  <2>2. /\ pc = "lines" /\ ret = "none" /\ said' = said /\ odd' = odd
        /\ task' = task /\ vehicle' = vehicle
        /\ Serves(Svc, Id, step)
    BY <1>1, AskedIs, PromptGets
  <2>3. /\ Svc = (IF task = "vin" THEN "09" ELSE "22")
        /\ Svc \in {"09", "22"} /\ Svc \notin Lists
    BY <2>2 DEF Serves, Lists
  <2>4. Svc' = Svc
    <3>1. step' = step
      BY <1>1, <2>2, TaskProceeds
    <3> QED BY <2>2, <3>1 DEF Svc, Requests
  <2>5. ~Fails(got)
    BY <2>1, <2>3 DEF Fails, Finish, Heard
  <2>6. /\ got.err = "nil"
        /\ \/ Svc = "09" /\ value' \in VINsOf(got.rs)
           \/ Svc = "22" /\ value' = got.rs[1].msg.body
    BY <2>1, <2>3, <2>5 DEF ReadLamp, ReadCodes, ReadVIN,
      ReadDataByIdentifier
  <2>7. \/ \E e \in said[Svc] : value' = IF Svc = "09" THEN Vin(e)
                                         ELSE DidData(e)
        \/ vehicle = "legacy" /\ (Harmed("09") \/ <<"09", "same">> \in odd)
    BY <2>1, <2>2, <2>3, <2>6, ValueRead
  <2> QED BY <2>2, <2>3, <2>4, <2>7 DEF Harmed
<1>2. CASE ~AtPrompt
  <2>1. Quiet
    BY <1>2, QuietIs
  <2>2. /\ ret = "ok" /\ pc = "done" /\ Svc' = Svc /\ odd \subseteq odd'
        /\ said' = said /\ task' = task /\ vehicle' = vehicle
        /\ value' = value
    BY <2>1 DEF Quiet, TaskInv, Svc, Requests
  <2> QED BY <2>2 DEF ValueWhole, Harmed
<1> QED BY <1>1, <1>2

-----------------------------------------------------------------------------
(* The theorems                                                            *)

\* The inductive invariant of the commands that ask for answers: what the
\* requests before this one left, and what the lines printed so far say of
\* the messages the ECUs have sent.
THEOREM LinesInductive == Spec => [](TaskInv /\ LinesInv)
<1>1. Init => TaskInv /\ LinesInv
  <2> SUFFICES ASSUME Init PROVE TaskInv /\ LinesInv
    OBVIOUS
  <2>1. TaskInv
    BY TaskInit
  <2>2. pc # "lines"
    BY DEF Init, WalkInit
  <2> QED BY <2>1, <2>2 DEF LinesInv
<1>2. TaskInv /\ LinesInv /\ [Next]_vars => (TaskInv /\ LinesInv)'
  BY TaskStep
<1> QED BY <1>1, <1>2, PTL DEF Spec

\* positive of client.go: however the ECUs' lines are mixed, one ECU that
\* refuses a broadcast request does not hide the answers of the others.
THEOREM AnAnswerWins == Spec => []AnswerWins
<1>1. Init => AnswerWins
  BY DEF Init, AnswerWins
<1>2. TaskInv /\ LinesInv /\ AnswerWins /\ [Next]_vars => AnswerWins'
  BY AnswerWinsStep
<1> QED BY <1>1, <1>2, LinesInductive, PTL DEF Spec

\* MILStatus of client.go: the count is that of the ECUs that answered, each
\* once, and the lamp is lit if one of theirs is.
THEOREM EachIsCountedOnce == Spec => []ConfirmedOnce
<1>1. Init => ConfirmedOnce
  <2>1. Init => step = 1
    BY DEF Init
  <2> QED BY <2>1 DEF ConfirmedOnce
<1>2. TaskInv /\ LinesInv /\ ConfirmedOnce /\ [Next]_vars => ConfirmedOnce'
  BY ConfirmedOnceStep
<1> QED BY <1>1, <1>2, LinesInductive, PTL DEF Spec

\* dtcs of client.go: a list is in ascending order and has the codes of the
\* ECUs that answered, all of them unless a line was damaged or a list does
\* not fit its count, and never another; it is nil when no ECU answered.
THEOREM ListsAreTheECUs == Spec => []CodesReported
<1>1. Init => CodesReported
  <2> SUFFICES ASSUME Init PROVE CodesReported
    OBVIOUS
  <2>1. said = <<>>
    BY DEF Init
  <2>2. DOMAIN said = {}
    BY <2>1
  <2> QED BY <2>2 DEF CodesReported
<1>2. TaskInv /\ LinesInv /\ CodesReported /\ [Next]_vars => CodesReported'
  BY CodesReportedStep
<1> QED BY <1>1, <1>2, LinesInductive, PTL DEF Spec

\* VIN and ReadDataByIdentifier of client.go: what is returned is what one
\* ECU said, whole and in order, for VINs of any number of messages.
THEOREM OneECUsValue == Spec => []ValueWhole
<1>1. Init => ValueWhole
  BY DEF Init, ValueWhole
<1>2. TaskInv /\ LinesInv /\ ValueWhole /\ [Next]_vars => ValueWhole'
  BY ValueWholeStep
<1> QED BY <1>1, <1>2, LinesInductive, PTL DEF Spec
=============================================================================
