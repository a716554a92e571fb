-------------------------------- MODULE Picking --------------------------------
(***************************************************************************)
(* A list comprehension with a condition: the elements of a sequence whose *)
(* places are picked, in order.  (SelectSeq takes its test as an operator, *)
(* of which no prover here can make anything.)                             *)
(***************************************************************************)
EXTENDS Naturals, Sequences

Picked(s, places) ==
  LET upTo[i \in 0..Len(s)] ==
        IF i = 0 THEN <<>> ELSE IF i \in places THEN Append(upTo[i - 1], s[i]) ELSE upTo[i - 1]
  IN upTo[Len(s)]
=============================================================================
