-------------------------- MODULE MCBackCacheMemory --------------------------
(***************************************************************************)
(* Model checking of BackCacheMemory: the slots are interchangeable, since *)
(* every choice among them is by what they hold or by chance.              *)
(***************************************************************************)
EXTENDS BackCacheMemory, TLC

Symmetry == Permutations(Slot)
=============================================================================
