--------------------------------- MODULE Lists ---------------------------------
(***************************************************************************)
(* Choosing from lists, and adding up sizes, as the memory components do   *)
(* both.  A sum is the number of the bytes summed and a choice is by rank, *)
(* so that neither needs a recursion.                                      *)
(***************************************************************************)
EXTENDS Integers, Sequences, FiniteSets

\* The bytes of some of the records of a sequence or function.
Bytes(bufs, set) == Cardinality(UNION {{i} \X (1 .. bufs[i].size) : i \in set})

\* Numbers in their order, and the elements of a list that are at certain places, or
\* that are in a set.
InOrder(numbers) ==
  [r \in 1 .. Cardinality(numbers) |->
     CHOOSE i \in numbers : Cardinality({k \in numbers : k <= i}) = r]
Selected(list, places) == [r \in 1 .. Cardinality(places) |-> list[InOrder(places)[r]]]
Among(list, set) == Selected(list, {j \in DOMAIN list : list[j] \in set})
================================================================================
