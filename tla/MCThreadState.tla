--------------------------- MODULE MCThreadState ---------------------------
(***************************************************************************)
(* Small instances of ThreadState for TLC.                                 *)
(***************************************************************************)
EXTENDS ThreadState, TLC

\* The threads are interchangeable.
Symmetry == Permutations(Threads)

=============================================================================
