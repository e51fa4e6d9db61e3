--------------------------- MODULE MCMessageQueue ---------------------------
(***************************************************************************)
(* Small instances of MessageQueue for TLC.                                *)
(***************************************************************************)
EXTENDS MessageQueue

\* Threads with the same role are interchangeable (the roles are disjoint, or
\* every thread has both), and so are the ports and the sets.
Symmetry == Permutations(Senders) \cup Permutations(Receivers)
                \cup Permutations(Ports) \cup Permutations(Psets)

=============================================================================
