------------------------------ MODULE MCRWLock ------------------------------
(***************************************************************************)
(* Small instances of RWLock for TLC.                                      *)
(***************************************************************************)
EXTENDS RWLock, TLC

\* The threads are interchangeable.
Symmetry == Permutations(Threads)

=============================================================================
