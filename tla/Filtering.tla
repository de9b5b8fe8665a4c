------------------------------ MODULE Filtering ------------------------------
(***************************************************************************)
(* The selection of elements of a sequence by what they are: what the code *)
(* writes as a filter, or as a removal of one element after the other.     *)
(***************************************************************************)
EXTENDS Naturals, Sequences

\* The elements of s that are in T, in their order.
Kept(s, T) ==
  LET upTo[k \in 0..Len(s)] ==
        IF k = 0 THEN <<>>
        ELSE IF s[k] \in T THEN Append(upTo[k - 1], s[k]) ELSE upTo[k - 1]
  IN  upTo[Len(s)]
=============================================================================
