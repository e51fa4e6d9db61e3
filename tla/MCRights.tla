------------------------------ MODULE MCRights ------------------------------
(***************************************************************************)
(* Small instances of Rights for TLC.                                      *)
(***************************************************************************)
EXTENDS Rights

\* Two ports named by one task, or one named by two.
Few == [make |-> 1, send |-> 1, once |-> 1, names |-> 2, parts |-> 3]
UpDown == {-1, 1}

\* Ports, spaces and names are interchangeable.
Symmetry == Permutations(Ports) \cup Permutations(Spaces) \cup Permutations(Names)

=============================================================================
