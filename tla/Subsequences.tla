---------------------------- MODULE Subsequences ----------------------------
(***************************************************************************)
(* The elements of a queue that belong to a set, in their order: SelectSeq *)
(* of the Sequences module with a set in place of the predicate and a      *)
(* recursive function in place of a recursive operator, which proofs can   *)
(* expand.                                                                 *)
(***************************************************************************)
EXTENDS Naturals, Sequences

Only(q, S) ==
    LET first[n \in 0 .. Len(q)] ==    \* of the first n
          IF n = 0 THEN <<>>
          ELSE IF q[n] \in S THEN Append(first[n - 1], q[n]) ELSE first[n - 1]
    IN  first[Len(q)]

=============================================================================
