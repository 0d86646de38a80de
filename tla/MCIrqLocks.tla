----------------------------- MODULE MCIrqLocks -----------------------------
(***************************************************************************)
(* Instances of IrqLocks for TLC.                                          *)
(***************************************************************************)
EXTENDS IrqLocks

CONSTANTS t1, t2, t3
=============================================================================
