-------------------------- MODULE MCContextMemory ---------------------------
(***************************************************************************)
(* A small instance of ContextMemory for TLC: two addresses, sizes of      *)
(* three bits and a header of two bytes.                                   *)
(***************************************************************************)
EXTENDS ContextMemory, TLC

Symmetry == Permutations(Blocks)
=============================================================================
