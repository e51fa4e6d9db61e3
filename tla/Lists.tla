------------------------------- MODULE Lists -------------------------------
(***************************************************************************)
(* What the models do to lists, by recursive functions, which can be       *)
(* reasoned about.                                                         *)
(***************************************************************************)
EXTENDS Integers, Sequences

\* The members of list that are in S, in their order.
Sublist(list, S) ==
    LET upto[i \in 0 .. Len(list)] ==
            IF i = 0 THEN <<>>
            ELSE IF list[i] \in S THEN Append(upto[i - 1], list[i]) ELSE upto[i - 1]
    IN  upto[Len(list)]

=============================================================================
