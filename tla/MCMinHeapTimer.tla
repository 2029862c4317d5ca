---------------------------- MODULE MCMinHeapTimer ----------------------------
(***************************************************************************)
(* MinHeapTimer on small instances.  The descriptors are interchangeable:  *)
(* the heap compares times only.                                           *)
(***************************************************************************)
EXTENDS MinHeapTimer, TLC

Symmetry == Permutations(Fds)
=============================================================================
