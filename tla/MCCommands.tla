----------------------------- MODULE MCCommands -----------------------------
(***************************************************************************)
(* Commands with two ECUs.  A count byte has four values, so that a list   *)
(* of four codes overflows it.                                             *)
(***************************************************************************)
EXTENDS Commands

MCEcuOrder == <<1, 2>>

Holding(stored, pending, answers, on) ==
  [codes |-> [s \in Lists |-> CASE s = "03" -> stored
                                [] s = "07" -> pending
                                [] OTHER -> <<>>],
   answers |-> answers, lamp |-> on, count |-> Len(stored)]

\* A reader of codes meets lists of one and two frames, of one and two
\* messages of the older protocols, empty ones, one that is too long, and
\* ECUs without a service; the others ECUs with and without theirs.
MCProfiles ==
  [t \in {"open", "info", "dtc", "vin", "did"} |->
     IF t = "dtc"
     THEN {Holding(<<3, 1, 2>>, <<4, 2>>, {"01", "03", "07"}, 1),
           Holding(<<2>>, <<1, 2, 3, 4>>, {"01", "03", "07", "0A"}, 1),
           Holding(<<>>, <<5>>, {"03", "07"}, 0)}
     ELSE {Holding(<<>>, <<>>, {"09", "22"}, 0), Holding(<<>>, <<>>, {}, 0)}]
=============================================================================
