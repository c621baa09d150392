--------------------------- MODULE MCCANTransport ---------------------------
(***************************************************************************)
(* CANTransport with two ECUs, in worlds that differ in what the transport *)
(* was told and in what happens around it.                                 *)
(***************************************************************************)
EXTENDS CANTransport

CONSTANTS e1, e2

MCEcu == {e1, e2}

OnePid == [sid |-> 1, pids |-> {1}]
Clear == [sid |-> 4, pids |-> {}]
OtherPid == [sid |-> 1, pid |-> 2]

\* A broadcast to two 11-bit ECUs that the other worlds vary.
Plain == [addressing |-> 11, target |-> Everyone,
          speaks |-> [e \in MCEcu |-> 11], requests |-> {OnePid},
          foreign |-> {}, orderly |-> TRUE,
          trips |-> 2, pending |-> FALSE, others |-> 0]

\* The addressing is to be found out; ECUs may ask for time.
Searching == [Plain EXCEPT !.addressing = 0, !.requests = {OnePid, Clear},
                           !.speaks = [e \in MCEcu |-> 29], !.pending = TRUE]

\* Another tester asks for a different PID.
Crosstalk == [Plain EXCEPT !.foreign = {OtherPid}, !.others = 2]
Directed == [Crosstalk EXCEPT !.target = e1, !.requests = {OnePid, Clear}]

\* Late answers, malformed frames, contexts that end.
Disorderly == [Plain EXCEPT !.addressing = 0, !.orderly = FALSE,
                            !.trips = 1, !.pending = TRUE, !.others = 1]

MCWorlds == {Searching, Crosstalk, Directed, Disorderly}
=============================================================================
