---------------------------- MODULE MCVirtualBus ----------------------------
(***************************************************************************)
(* VirtualBus on small instances.                                          *)
(***************************************************************************)
EXTENDS VirtualBus, TLC

Symmetry == Permutations(Port)
=============================================================================
