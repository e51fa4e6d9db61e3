--------------------------- MODULE MCPortTransit ---------------------------
(***************************************************************************)
(* Small instances of PortTransit for TLC.                                 *)
(***************************************************************************)
EXTENDS PortTransit, TLC

Symmetry == Permutations(Threads) \cup Permutations(Ports)

=============================================================================
