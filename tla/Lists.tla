-------------------------------- MODULE Lists --------------------------------
(* What the code does with lists, said by places so that it can be reasoned about:
   what stands at some places of a list, in its order (comprehensions and filters),
   a list sorted, and the sum of numbers. *)
EXTENDS Naturals, FiniteSets, Sequences, FiniteSetsExt

(* The n-th smallest of a set of numbers. *)
Nth(places, n) == CHOOSE i \in places : Cardinality({j \in places : j < i}) = n - 1
Chosen(list, places) == [n \in 1..Cardinality(places) |-> list[Nth(places, n)]]
First(n, list) == SubSeq(list, 1, Min({n, Len(list)}))

(* sorted(..., reverse=True) keeps the order of equals.  "greater" holds the pairs
   of places of which the first has the greater key. *)
PlacePairs(list) == (DOMAIN list) \X (DOMAIN list)
Precedes(greater, i, j) == <<i, j>> \in greater \/ (<<j, i>> \notin greater /\ i < j)
PlaceOf(places, greater, n) ==
    CHOOSE i \in places : Cardinality({j \in places : Precedes(greater, j, i)}) = n - 1
Sorted(list, greater) == [n \in DOMAIN list |-> list[PlaceOf(DOMAIN list, greater, n)]]

(* A sum of numbers, counted one by one. *)
Units(numbers, places) == UNION {{i} \X (1..numbers[i]) : i \in places}
Total(numbers) == Cardinality(Units(numbers, DOMAIN numbers))
=============================================================================
