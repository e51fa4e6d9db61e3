----------------------------- MODULE MCNetIPC -----------------------------
(***************************************************************************)
(* A small instance of NetIPC for TLC.                                     *)
(***************************************************************************)
EXTENDS NetIPC, TLC

CONSTANTS n1, n2

\* One node sends two messages while the other sends one.
Nodes == {n1, n2}
Traffic == n1 :> 1 @@ n2 :> 2

\* With a page of out-of-line data or without, and without.
Payloads == n1 :> {<<TRUE>>} @@ n2 :> {<<>>}

=============================================================================
