---------------------------- MODULE FilesInvariant -----------------------------
(******************************************************************************)
(* The inductive invariant of a region's files over its openings.  The proofs *)
(* are in FilesProofs, and TLC checks it as an invariant.                     *)
(******************************************************************************)
EXTENDS Files

(* What a program has to keep to, opening after opening, for its files to     *)
(* stay apart: the same name comes at the same place of every order, and the  *)
(* same place has the same name.                                              *)
SameOrder ==
    \A d, e \in Definitions : \A i \in DOMAIN d : \A j \in DOMAIN e :
        d[i] = e[j] <=> i = j

-------------------------------------------------------------------------------
(* The table gives the i-th name defined the id i - 1.                        *)
TableOK ==
    /\ defined \in Seq(Names)
    /\ defined = <<>> \/ \E d \in Definitions : IsPrefix(defined, d)
    /\ fct.next_id = Len(defined)
    /\ DOMAIN fct.files = {defined[i] : i \in DOMAIN defined}
    /\ \A i \in DOMAIN defined : fct.files[defined[i]] = i - 1

(* Every record is stored under a file id and a record key.                   *)
StoredKey(k) == \E id \in 0 .. FILE_IDS - 1 : \E r \in Keys : k = storage_key(id, r)
RecordsOK == IsFiniteSet(DOMAIN records) /\ \A k \in DOMAIN records : StoredKey(k)

FilesInv == TableOK /\ RecordsOK

===============================================================================
