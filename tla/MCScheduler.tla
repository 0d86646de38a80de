---------------------------- MODULE MCScheduler ----------------------------
(***************************************************************************)
(* Instances of Scheduler for TLC.                                         *)
(***************************************************************************)
EXTENDS Scheduler, TLC

\* cfs_weight with its order and roughly its ratios, small enough to divide.
MCCfsWeight == (Idle :> 1) @@ (Low :> 1) @@ (Normal :> 2) @@ (High :> 4)
=============================================================================
