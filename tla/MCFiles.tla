-------------------------------- MODULE MCFiles --------------------------------
(* Files on small instances.                                                  *)
EXTENDS FilesInvariant

(* The empty record key, and one that ends a file of id bytes <<0, 0>>.       *)
ByteKeys == {<<>>, <<1, 1>>}
Fixed == {<<"A", "B">>}

(* The hypothesis of FilesProofs about the orders holds of this instance.     *)
ASSUME FixedOrder == SameOrder
===============================================================================
