---------------------------- MODULE MCAtomicFifo ----------------------------
(***************************************************************************)
(* AtomicFifo on a small instance.                                         *)
(***************************************************************************)
EXTENDS AtomicFifo
=============================================================================
