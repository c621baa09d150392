--------------------------- MODULE MessageChannel ---------------------------
(***************************************************************************)
(* What a pair of ISO-TP endpoints promises: a message that is received is *)
(* a message that was sent, unchanged, in the order of sending and at most *)
(* once.  Any message may be lost.                                         *)
(***************************************************************************)
EXTENDS Naturals, Sequences

CONSTANTS End,        \* the two ends
          Msg,        \* the messages, each with its number as m.id
          Other(_)    \* the end that faces an end

VARIABLES submitted,  \* the messages each end has begun to send
          delivered   \* the messages each end has received

Init == /\ submitted = [e \in End |-> <<>>]
        /\ delivered = [e \in End |-> <<>>]

Submit(e, m) == /\ submitted' = [submitted EXCEPT ![e] = Append(@, m)]
                /\ UNCHANGED delivered

\* The number of the last message received.
LastSeen(e) == IF delivered[e] = <<>> THEN 0
               ELSE delivered[e][Len(delivered[e])].id

Deliver(e) ==
  /\ \E k \in LastSeen(e) + 1 .. Len(submitted[Other(e)]) :
       LET m == submitted[Other(e)][k]
       IN delivered' = [delivered EXCEPT ![e] = Append(@, m)]
  /\ UNCHANGED submitted

Next == \E e \in End : Deliver(e) \/ \E m \in Msg : Submit(e, m)

Spec == Init /\ [][Next]_<<submitted, delivered>>
=============================================================================
