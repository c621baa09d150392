------------------------------ MODULE MCEcuSim ------------------------------
(***************************************************************************)
(* EcuSim with one tester of two ECUs, and with two testers of one ECU.    *)
(***************************************************************************)
EXTENDS EcuSim, TLC

CONSTANTS e1, e2, t1, t2

Asking(svc, id, to, len) == [svc |-> svc, id |-> id, to |-> to, len |-> len]

\* Lists of one, two and three frames; data that both ECUs, one or none has; a
\* request of two frames; a service nobody has.
Calm == [calm |-> TRUE, stops |-> {}, calls |-> (t1 :> 3 @@ t2 :> 0),
         pendings |-> 1, codes |-> (e1 :> 6 @@ e2 :> 3),
         holds |-> (e1 :> {<<"01", 12>>, <<"09", 2>>, <<"22", 1>>}
                    @@ e2 :> {<<"01", 12>>}),
         asks |-> {Asking("03", 0, Everyone, 1), Asking("0A", 0, e1, 1),
                   Asking("07", 0, e2, 1), Asking("04", 0, Everyone, 1),
                   Asking("01", 12, Everyone, 2), Asking("01", 13, e2, 2),
                   Asking("09", 2, Everyone, 2), Asking("09", 2, e2, 2),
                   Asking("22", 1, Everyone, 3), Asking("22", 2, e2, 3),
                   Asking("22", 1, e1, 8), Asking("22", 1, Everyone, 8),
                   Asking("10", 0, Everyone, 1), Asking("10", 0, e1, 1)}]

\* Both testers ask the same ECU, whose answers end in the middle.
Busy == [Calm EXCEPT !.calm = FALSE, !.stops = {e1},
                     !.calls = (t1 :> 2 @@ t2 :> 1), !.pendings = 0,
                     !.asks = {Asking("03", 0, e1, 1),
                               Asking("22", 2, e1, 8)},
                     !.codes = (e1 :> 6 @@ e2 :> 0)]
MCWorlds == {Calm, Busy}
=============================================================================
