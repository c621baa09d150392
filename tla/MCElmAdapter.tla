---------------------------- MODULE MCElmAdapter ----------------------------
(***************************************************************************)
(* ElmAdapter with two vehicle protocols and a short channel.              *)
(***************************************************************************)
EXTENDS ElmAdapter

MCProtocols == {1, 2}
OneProtocol == {1}
=============================================================================
