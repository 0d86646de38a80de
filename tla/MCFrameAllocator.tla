-------------------------- MODULE MCFrameAllocator --------------------------
(***************************************************************************)
(* Instances of FrameAllocator for TLC.                                    *)
(***************************************************************************)
EXTENDS FrameAllocator, TLC

CONSTANTS thread, isr

\* Contexts differ in nothing but their names.
ContextSymmetry == Permutations(Contexts)
=============================================================================
