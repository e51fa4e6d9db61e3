---------------------------- MODULE MCVmObject ----------------------------
(***************************************************************************)
(* A small instance of VmObject for TLC.                                   *)
(***************************************************************************)
EXTENDS VmObject, TLC

CONSTANTS m1, m2, x1, x2, S, MaxCall, MaxWrite, MaxEvict, MaxAbort

Bounds == [call |-> MaxCall, write |-> MaxWrite, evict |-> MaxEvict,
           abort |-> MaxAbort]

Symmetry == Permutations(Map) \cup Permutations(Page)

=============================================================================
