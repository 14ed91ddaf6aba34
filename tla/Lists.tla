-------------------------------- MODULE Lists --------------------------------
(***************************************************************************)
(* Lists in order of a set's numbers, and lists with entries taken out.     *)
(* Each is given entry by entry, by rank, so that what an entry is and      *)
(* where it goes can be proved (ListLemmas): SortSeq and SelectSeq, which   *)
(* say the same, are closed to the provers.                                 *)
(***************************************************************************)
EXTENDS Integers, Sequences, FiniteSets

\* The place of a number in a finite set of them, and the number at a place.
Rank(S, i) == Cardinality({j \in S : j <= i})
Nth(S, n) == CHOOSE i \in S : Rank(S, i) = n

Ascending(S) == [n \in 1..Cardinality(S) |-> Nth(S, n)]
Descending(S) == [n \in 1..Cardinality(S) |-> Nth(S, Cardinality(S) + 1 - n)]

\* The list without the entries that are in S; the others keep their order.
Places(list, S) == {i \in DOMAIN list : list[i] \notin S}
Without(list, S) ==
    LET kept == Ascending(Places(list, S)) IN [n \in DOMAIN kept |-> list[kept[n]]]
=============================================================================
