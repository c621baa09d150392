------------------------------- MODULE ElmOpen ------------------------------
(***************************************************************************)
(* elm327.Open of elm327/elm327.go: an adapter of which nothing is known   *)
(* is reset and set up.  It may be at work for a program that is gone, or  *)
(* what it printed for that one may be on its way.  Each command waits for *)
(* a prompt, and takes the first for its own.                              *)
(***************************************************************************)
EXTENDS Naturals, Sequences

VARIABLES opc,      \* write, wait, opened, failed
          cmd,      \* the command under way or next
          resets,   \* answers to ATZ that were none
          doing,    \* what the adapter works on, or none
          set,      \* the commands it has carried out since its reset
          air,      \* answers it has printed
          arrived   \* those that readLoop has got

openVars == <<opc, cmd, resets, doing, set, air, arrived>>

\* Echo, line feeds, spaces, headers and the protocol, in this order.
Setup == <<"ATE0", "ATL0", "ATS0", "ATH1", "ATTPA6">>

OpenInit ==
  /\ opc = "write" /\ cmd = "ATZ" /\ resets = 0 /\ set = {} /\ arrived = <<>>
  /\ \/ doing = "old" /\ air = <<>>
     \/ doing = "none" /\ air \in {<<>>, <<"data">>, <<"OK">>, <<"ELM">>}

-----------------------------------------------------------------------------
(* The adapter (external).  Something sent to it while it works interrupts *)
(* the work and is lost; a reset is not interrupted.                       *)

Write ==
  /\ opc = "write"
  /\ arrived' = <<>>
  /\ \/ doing = "none" /\ doing' = cmd /\ UNCHANGED air
     \/ doing = "ATZ" /\ UNCHANGED <<doing, air>>
     \/ /\ doing \notin {"none", "ATZ"}
        /\ doing' = "none" /\ air' = Append(air, "STOPPED")
  /\ opc' = "wait"
  /\ UNCHANGED <<cmd, resets, set>>

Respond ==
  /\ doing # "none"
  /\ \/ doing = "old" /\ air' = Append(air, "data") /\ UNCHANGED set
     \/ doing = "ATZ" /\ air' = Append(air, "ELM") /\ set' = {}
     \/ /\ doing \notin {"old", "ATZ"}
        /\ air' = Append(air, "OK") /\ set' = set \cup {doing}
     \/ doing # "old" /\ air' = Append(air, "?") /\ UNCHANGED set
  /\ doing' = "none"
  /\ UNCHANGED <<opc, cmd, resets, arrived>>

Arrive ==
  /\ air # <<>>
  /\ arrived' = Append(arrived, Head(air)) /\ air' = Tail(air)
  /\ UNCHANGED <<opc, cmd, resets, doing, set>>

-----------------------------------------------------------------------------
(* Open                                                                    *)

MutExpectOK(x) == x # "?"       \* mutant: anything but a refusal will do
ExpectOK(x) == x = "OK"

After(c) == Setup[1 + (CHOOSE k \in DOMAIN Setup : Setup[k] = c)]

Answered(x) ==
  \/ /\ cmd = "ATZ" /\ x = "ELM"
     /\ cmd' = Setup[1] /\ opc' = "write" /\ UNCHANGED resets
  \/ /\ cmd = "ATZ" /\ x # "ELM"
     /\ resets' = resets + 1
     /\ opc' = IF resets = 0 THEN "write" ELSE "failed"
     /\ UNCHANGED cmd
  \/ /\ cmd # "ATZ" /\ ExpectOK(x)
     /\ IF cmd \in {"ATTPA6", "ATSP0"} THEN opc' = "opened" /\ UNCHANGED cmd
        ELSE opc' = "write" /\ cmd' = After(cmd)
     /\ UNCHANGED resets
  \/ /\ cmd # "ATZ" /\ ~ExpectOK(x)      \* a clone may not know TP A
     /\ IF cmd = "ATTPA6" THEN opc' = "write" /\ cmd' = "ATSP0"
        ELSE opc' = "failed" /\ UNCHANGED cmd
     /\ UNCHANGED resets

ReadPrompt ==
  /\ opc = "wait" /\ arrived # <<>>
  /\ arrived' = Tail(arrived)
  /\ Answered(Head(arrived))
  /\ UNCHANGED <<doing, set, air>>

ContextEnds ==
  /\ opc = "wait"
  /\ opc' = "failed"
  /\ UNCHANGED <<cmd, resets, doing, set, air, arrived>>

Open == Write \/ Respond \/ Arrive \/ ReadPrompt \/ ContextEnds

-----------------------------------------------------------------------------
\* Open returns an adapter that is set up as parse takes it to be, and that
\* owes no answer which the first request could take for its own, whatever
\* the adapter was doing before: an answer that is out of step never passes
\* for the OK that is expected.
OpenedAsConfigured ==
  opc = "opened" => /\ {"ATE0", "ATL0", "ATS0", "ATH1"} \subseteq set
                    /\ {"ATTPA6", "ATSP0"} \cap set # {}
                    /\ doing = "none" /\ air = <<>> /\ arrived = <<>>
=============================================================================
