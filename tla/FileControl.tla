------------------------------ MODULE FileControl ------------------------------
(******************************************************************************)
(* File Control (runtime/file_control.rs) and the conditions of error.rs, as  *)
(* operators on the File Control Table and on the map a WriteTxn shows.       *)
(*                                                                            *)
(*   fct     [files, next_id]: name -> file id, and the next id to hand out   *)
(*   w       the records: storage key -> value, a function on the keys present*)
(*                                                                            *)
(* Keys are sequences of bytes.  Commands answer [cond, value] and, when they *)
(* may change the records, come as [resp, w].                                 *)
(******************************************************************************)
EXTENDS Integers, Sequences, SequencesExt, FiniteSets

CONSTANTS
    BYTE,       \* number of byte values (256)
    ID_BYTES    \* bytes of a FileId (4)

ASSUME FileControlAssumption == BYTE \in Nat \ {0, 1} /\ ID_BYTES \in Nat \ {0}

(* The value of a byte that i bytes follow: BYTE to the power of i.           *)
Place[i \in Nat] == IF i = 0 THEN 1 ELSE BYTE * Place[i - 1]

FILE_IDS == Place[ID_BYTES]    \* FileId is an unsigned integer of ID_BYTES bytes

(* Result<_>: "NORMAL" or the CicsError variant.                              *)
Normal(value) == [cond |-> "NORMAL", value |-> value]
Condition(c) == [cond |-> c, value |-> <<>>]

Assign(w, k, v) == [x \in DOMAIN w \cup {k} |-> IF x = k THEN v ELSE w[x]]
Erase(w, k) == [x \in DOMAIN w \ {k} |-> w[x]]
NoRecords == [x \in {} |-> <<>>]

(* The order of byte strings: at the first byte where they differ a ends or   *)
(* has the smaller one.                                                       *)
Less(a, b) ==
    \E i \in 1 .. Len(b) :
        /\ Len(a) >= i - 1 /\ \A j \in 1 .. i - 1 : a[j] = b[j]
        /\ Len(a) = i - 1 \/ a[i] < b[i]
AtMost(a, b) == a = b \/ Less(a, b)

-------------------------------------------------------------------------------
EmptyTable == [files |-> NoRecords, next_id |-> 0]

(* Ids are handed out in the order of definition; u32 arithmetic wraps (in a  *)
(* build with overflow checks it panics instead).                             *)
define(fct, name) ==
    [files   |-> Assign(fct.files, name, fct.next_id),
     next_id |-> (fct.next_id + 1) % FILE_IDS]

resolves(fct, name) == name \in DOMAIN fct.files

to_be_bytes(id) ==
    [i \in 1 .. ID_BYTES |-> (id \div Place[ID_BYTES - i]) % BYTE]

storage_key(file, record_key) == to_be_bytes(file) \o record_key

-------------------------------------------------------------------------------
Failed(w, c) == [resp |-> Condition(c), w |-> w]
Stored(w, skey, data) == [resp |-> Normal(<<>>), w |-> Assign(w, skey, data)]
Erased(w, skey) == [resp |-> Normal(<<>>), w |-> Erase(w, skey)]

exec_read(w, fct, file, key) ==
    IF ~resolves(fct, file) THEN Condition("FileNotFound")
    ELSE LET skey == storage_key(fct.files[file], key)
         IN  IF skey \in DOMAIN w THEN Normal(w[skey])
             ELSE Condition("RecordNotFound")

(* Mutant of exec_write: a record under the key is replaced.                  *)
exec_write_over(w, fct, file, key, data) ==
    IF ~resolves(fct, file) THEN Failed(w, "FileNotFound")
    ELSE Stored(w, storage_key(fct.files[file], key), data)

(* Insert only.                                                               *)
exec_write(w, fct, file, key, data) ==
    IF ~resolves(fct, file) THEN Failed(w, "FileNotFound")
    ELSE LET skey == storage_key(fct.files[file], key)
         IN  IF skey \in DOMAIN w THEN Failed(w, "DuplicateKey")
             ELSE Stored(w, skey, data)

(* Update only.                                                               *)
exec_rewrite(w, fct, file, key, data) ==
    IF ~resolves(fct, file) THEN Failed(w, "FileNotFound")
    ELSE LET skey == storage_key(fct.files[file], key)
         IN  IF skey \in DOMAIN w THEN Stored(w, skey, data)
             ELSE Failed(w, "RecordNotFound")

exec_delete(w, fct, file, key) ==
    IF ~resolves(fct, file) THEN Failed(w, "FileNotFound")
    ELSE LET skey == storage_key(fct.files[file], key)
         IN  IF skey \in DOMAIN w THEN Erased(w, skey)
             ELSE Failed(w, "RecordNotFound")

(* The keys of a finite set, smallest first: the i-th has i - 1 before it.    *)
Rank(S, k) == Cardinality({x \in S : Less(x, k)}) + 1
InOrder(S) == [i \in 1 .. Cardinality(S) |-> CHOOSE k \in S : Rank(S, k) = i]

(* WriteTxn::range as File Control uses it: the keys with lo <= k < hi, in    *)
(* order.                                                                     *)
RangeKeys(w, lo, hi) ==
    InOrder({k \in DOMAIN w : AtMost(lo, k) /\ Less(k, hi)})

(* Rows without their file prefix, at most limit of them.                     *)
Rows(w, keys, limit) ==
    [i \in 1 .. (IF Len(keys) < limit THEN Len(keys) ELSE limit) |->
        <<SubSeq(keys[i], ID_BYTES + 1, Len(keys[i])), w[keys[i]]>>]

(* Mutant of exec_browse: the upper bound is the file's prefix and a last byte.*)
exec_browse_last_byte(w, fct, file, start_key, limit) ==
    IF ~resolves(fct, file) THEN Condition("FileNotFound")
    ELSE LET id == fct.files[file]
         IN  Normal(Rows(w, RangeKeys(w, storage_key(id, start_key),
                                      storage_key(id, <<BYTE - 1>>)), limit))

(* start_key = <<>> stands for None too: both give the bare prefix.           *)
exec_browse(w, fct, file, start_key, limit) ==
    IF ~resolves(fct, file) THEN Condition("FileNotFound")
    ELSE LET id == fct.files[file]
         IN  Normal(Rows(w, RangeKeys(w, storage_key(id, start_key),
                                      storage_key((id + 1) % FILE_IDS, <<>>)),
                         limit))

===============================================================================
