---------------------------- MODULE MCIsoTpConn -----------------------------
(***************************************************************************)
(* IsoTpConn on small instances, with the frames of a foreign peer.        *)
(***************************************************************************)
EXTENDS IsoTpConn, TLC

CONSTANTS a, b

MCNode == {a, b}

Symmetry == Permutations(MCNode)

\* Frames of a foreign peer that carry no consecutive data: every flow status
\* (with a block size of its own) and the malformed first and single frames.
MCStrays ==
  {FlowControl(status, bs) : status \in {"continue", "wait", "overflow",
                                         "reserved"}, bs \in {1}}
  \cup {FirstFrame(NoMessage, 20, TRUE), FirstFrame(NoMessage, 0, FALSE),
        FirstFrame(NoMessage, 7, FALSE), SingleFrame(NoMessage, 0)}
=============================================================================
