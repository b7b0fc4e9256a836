----------------------------- MODULE MCFluidLSM -----------------------------
(***************************************************************************)
(* FluidLSM on small instances: see the .cfg files for the constants.      *)
(***************************************************************************)
EXTENDS FluidLSM, TLC

\* Threads of one pool are interchangeable.
Symmetry == Permutations(FlushThreads) \cup Permutations(Workers)
=============================================================================
