------------------------------ MODULE MCTreeStore ------------------------------
(* TreeStore on small instances.                                              *)
EXTENDS TreeStore

Small == <<>>                   \* an entry of size 1
Large == <<1, 2, 3, 4>>         \* inline, an entry of size 5
Huge  == <<1, 2, 3, 4, 5>>      \* an overflow chain of two pages

(* Three levels: five leaves under two internal nodes, then a leaf shrunk.    *)
DeepSeed == [k \in 1 .. 6 |-> <<k, Huge>>] \o <<<<5, Small>>>>
DeepSeeds == {DeepSeed}
DeepValues == {Huge}

(* A new store, and one leaf filled to the limit with entries of all sizes.   *)
FlatSeed == <<<<1, Small>>, <<2, Small>>, <<3, Large>>, <<4, Huge>>>>
FlatSeeds == {<<>>, FlatSeed}
FlatValues == {Small, Huge}

===============================================================================
