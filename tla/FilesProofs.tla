------------------------------ MODULE FilesProofs ------------------------------
(******************************************************************************)
(* File Control keeps its files apart: proofs about Files, for every set of   *)
(* names, record keys and orders of definition that keeps to SameOrder.       *)
(******************************************************************************)
EXTENDS FilesInvariant, FileControlProofs

-------------------------------------------------------------------------------
(* The File Control Table.                                                    *)

(* A prefix agrees with the sequence element by element.                      *)
LEMMA PrefixElements ==
    ASSUME NEW s \in Seq(Names), NEW t \in Seq(Names), IsPrefix(s, t)
    PROVE  /\ Len(s) \in Nat /\ Len(t) \in Nat /\ Len(s) <= Len(t)
           /\ DOMAIN s = 1 .. Len(s) /\ DOMAIN t = 1 .. Len(t)
           /\ \A i \in 1 .. Len(s) : i \in DOMAIN t /\ s[i] = t[i]
<1>1. PICK m, n : m = Len(s) /\ n = Len(t)
  OBVIOUS
<1>2. /\ m \in Nat /\ n \in Nat /\ m <= n /\ DOMAIN s = 1 .. m /\ DOMAIN t = 1 .. n
      /\ SubSeq(s, 1, m) = SubSeq(t, 1, m)
  BY <1>1, LenProperties DEF IsPrefix
<1>3. SubSeq(s, 1, m) = s
  BY <1>1, SubSeqFull
<1>4. ASSUME NEW i \in 1 .. m PROVE i \in DOMAIN t /\ s[i] = t[i]
  <2>1. \A j \in 1 .. m : t[j] \in Names
    BY <1>1, <1>2, ElementOfSeq
  <2>2. \A j \in 1 .. (m - 1) + 1 : SubSeq(t, 1, m)[j] = t[1 + (j - 1)]
    BY <1>2, <2>1, SubSeqProperties
  <2>3. i \in 1 .. (m - 1) + 1 /\ 1 + (i - 1) = i
    BY <1>2
  <2> QED
    BY <1>2, <1>3, <2>2, <2>3
<1> QED
  BY <1>1, <1>2, <1>4

(* The names defined are the first ones of some order.                        *)
LEMMA DefinedIn ==
    ASSUME TableOK, NEW i \in DOMAIN defined
    PROVE  \E d \in Definitions : i \in DOMAIN d /\ d[i] = defined[i]
<1>1. defined \in Seq(Names) /\ Definitions \subseteq Seq(Names)
  BY FilesAssumption DEF TableOK
<1>2. defined # <<>> /\ i \in 1 .. Len(defined)
  BY <1>1
<1>3. PICK d \in Definitions : IsPrefix(defined, d)
  BY <1>2 DEF TableOK
<1>4. d \in Seq(Names)
  BY <1>1
<1>5. i \in DOMAIN d /\ defined[i] = d[i]
  BY <1>1, <1>2, <1>3, <1>4, PrefixElements
<1> QED
  BY <1>5

(* The id of a defined file is the one its place in every order gives it, and *)
(* there is another one after it.                                             *)
LEMMA TableIds ==
    ASSUME SameOrder, TableOK, NEW n \in DOMAIN fct.files
    PROVE  /\ fct.files[n] \in 0 .. FILE_IDS - 1 /\ fct.files[n] + 1 < FILE_IDS
           /\ IdsOf(n) = {fct.files[n]}
<1>1. PICK i \in DOMAIN defined : n = defined[i]
  BY DEF TableOK
<1>2. PICK d \in Definitions : i \in DOMAIN d /\ d[i] = n
  BY <1>1, DefinedIn
<1>3. PICK m : m = Len(d)
  OBVIOUS
<1>4. m \in Nat /\ m < FILE_IDS /\ i \in 1 .. m
  BY <1>2, <1>3, FilesAssumption, LenProperties
<1>5. PICK id : id = fct.files[n] /\ id = i - 1
  BY <1>1 DEF TableOK
<1>6. id \in 0 .. FILE_IDS - 1 /\ id + 1 < FILE_IDS
  BY <1>4, <1>5, FileIds
<1>7. id \in IdsOf(n)
  BY <1>2, <1>5 DEF IdsOf
<1>8. ASSUME NEW x \in IdsOf(n) PROVE x = id
  <2>1. PICK e \in Definitions : \E j \in DOMAIN e : e[j] = n /\ x = j - 1
    BY DEF IdsOf
  <2>2. PICK j \in DOMAIN e : e[j] = n /\ x = j - 1
    BY <2>1
  <2>3. j = i
    BY <1>2, <2>2 DEF SameOrder
  <2> QED
    BY <1>5, <2>2, <2>3
<1> QED
  BY <1>5, <1>6, <1>7, <1>8

(* Names with an id in common are the same name.                              *)
LEMMA IdsApart ==
    ASSUME SameOrder, NEW m, NEW n, NEW id \in IdsOf(m), id \in IdsOf(n)
    PROVE  m = n
<1>1. PICK d \in Definitions : \E i \in DOMAIN d : d[i] = m /\ id = i - 1
  BY DEF IdsOf
<1>2. PICK i \in DOMAIN d : d[i] = m /\ id = i - 1
  BY <1>1
<1>3. PICK e \in Definitions : \E j \in DOMAIN e : e[j] = n /\ id = j - 1
  BY DEF IdsOf
<1>4. PICK j \in DOMAIN e : e[j] = n /\ id = j - 1
  BY <1>3
<1>5. d \in Seq(Names) /\ e \in Seq(Names)
  BY FilesAssumption
<1>6. i \in Nat /\ j \in Nat
  BY <1>5, LenProperties
<1>7. i = j
  BY <1>2, <1>4, <1>6
<1> QED
  BY <1>2, <1>4, <1>7 DEF SameOrder

(* Every id that an order gives is one of the FILE_IDS.                       *)
LEMMA IdsInRange ==
    ASSUME NEW n
    PROVE  IdsOf(n) \subseteq 0 .. FILE_IDS - 1
<1> SUFFICES ASSUME NEW id \in IdsOf(n) PROVE id \in 0 .. FILE_IDS - 1
  OBVIOUS
<1>1. PICK d \in Definitions : \E i \in DOMAIN d : d[i] = n /\ id = i - 1
  BY DEF IdsOf
<1>2. PICK i \in DOMAIN d : id = i - 1
  BY <1>1
<1>3. PICK m : m = Len(d)
  OBVIOUS
<1>4. m \in Nat /\ m < FILE_IDS /\ i \in 1 .. m
  BY <1>3, FilesAssumption, LenProperties
<1> QED
  BY <1>2, <1>4, FileIds

-------------------------------------------------------------------------------
(* The invariant.                                                             *)

(* A region opens with no file and no record.                                 *)
LEMMA InitFiles ==
    ASSUME Init
    PROVE  FilesInv
<1>1. TableOK
  BY DEF Init, TableOK, EmptyTable, NoRecords
<1>2. DOMAIN records = {}
  BY DEF Init, NoRecords
<1>3. RecordsOK
  BY <1>2, FS_EmptySet DEF RecordsOK
<1> QED
  BY <1>1, <1>3 DEF FilesInv

(* define_file appends to the table.                                          *)
LEMMA DefineTable ==
    ASSUME SameOrder, TableOK, NEW n \in Names, define_file(n)
    PROVE  TableOK'
<1>1. PICK s, t, m, F : s = defined /\ t = defined' /\ m = Len(s) /\ F = fct.files
  OBVIOUS
<1>2. /\ s \in Seq(Names) /\ t = Append(s, n) /\ m \in Nat /\ DOMAIN s = 1 .. m
      /\ DOMAIN F = {s[i] : i \in 1 .. m}
      /\ \A i \in 1 .. m : F[s[i]] = i - 1
  BY <1>1, LenProperties DEF TableOK, define_file
<1>3. /\ t \in Seq(Names) /\ Len(t) = m + 1 /\ DOMAIN t = 1 .. m + 1
      /\ t[m + 1] = n /\ \A i \in 1 .. m : t[i] = s[i]
  BY <1>1, <1>2
<1>4. PICK d \in Definitions : IsPrefix(t, d)
  BY <1>1, <1>2 DEF define_file
<1>5. d \in Seq(Names) /\ Len(d) < FILE_IDS
  BY FilesAssumption
<1>6. /\ m + 1 <= Len(d) /\ Len(d) \in Nat
      /\ \A i \in 1 .. m + 1 : i \in DOMAIN d /\ t[i] = d[i]
  BY <1>3, <1>4, <1>5, PrefixElements
<1>7. \A i \in 1 .. m : s[i] # n
  <2> SUFFICES ASSUME NEW i \in 1 .. m, s[i] = n PROVE FALSE
    OBVIOUS
  <2>1. i \in 1 .. m + 1 /\ m + 1 \in 1 .. m + 1 /\ i # m + 1
    BY <1>2
  <2>2. d[i] = d[m + 1]
    BY <1>3, <1>6, <2>1
  <2> QED
    BY <1>6, <2>1, <2>2 DEF SameOrder
<1>8. PICK G : G = Assign(F, n, m)
  OBVIOUS
<1>9. DOMAIN G = DOMAIN F \cup {n} /\ G[n] = m /\ \A x \in DOMAIN F : x # n => G[x] = F[x]
  BY <1>8 DEF Assign
<1>10. fct'.files = G /\ fct'.next_id = m + 1
  <2>1. fct' = define(fct, n) /\ fct.next_id = m
    BY <1>1 DEF define_file, TableOK
  <2>2. (m + 1) % FILE_IDS = m + 1
    <3>1. PICK a, f : a = m + 1 /\ f = FILE_IDS
      OBVIOUS
    <3>2. a \in Nat /\ f \in Nat \ {0} /\ a < f
      BY <1>2, <1>5, <1>6, <3>1, FileIds
    <3> QED
      BY <3>1, <3>2, SmallRemainder
  <2> QED
    BY <1>1, <1>8, <2>1, <2>2 DEF define
<1>11. DOMAIN G = {t[i] : i \in 1 .. m + 1}
  <2>1. \A i \in 1 .. m : i \in 1 .. m + 1
    BY <1>2
  <2>2. \A i \in 1 .. m + 1 : i \in 1 .. m \/ i = m + 1
    BY <1>2
  <2>3. m + 1 \in 1 .. m + 1
    BY <1>2
  <2> QED
    <3>1. ASSUME NEW x \in DOMAIN G PROVE \E i \in 1 .. m + 1 : x = t[i]
      BY <1>2, <1>3, <1>9, <2>1, <2>3
    <3>2. ASSUME NEW i \in 1 .. m + 1 PROVE t[i] \in DOMAIN G
      BY <1>2, <1>3, <1>9, <2>2
    <3> QED
      BY <3>1, <3>2
<1>12. ASSUME NEW i \in 1 .. m + 1 PROVE G[t[i]] = i - 1
  <2>1. CASE i = m + 1
    BY <1>2, <1>3, <1>9, <2>1
  <2>2. CASE i \in 1 .. m
    <3>1. t[i] = s[i] /\ s[i] \in DOMAIN F /\ s[i] # n /\ F[s[i]] = i - 1
      BY <1>2, <1>3, <1>7, <2>2
    <3>2. G[s[i]] = F[s[i]]
      BY <1>9, <3>1
    <3> QED
      BY <3>1, <3>2
  <2> QED
    BY <1>2, <2>1, <2>2
<1> QED
  BY <1>1, <1>3, <1>4, <1>10, <1>11, <1>12 DEF TableOK

(* A command keeps records under storage keys.                                *)
LEMMA ChangeRecords ==
    ASSUME SameOrder, TableOK, RecordsOK, NEW c \in Commands, Change(c)
    PROVE  RecordsOK'
<1>1. c.key \in Keys
  BY DEF Commands
<1>2. CASE records' = records
  BY <1>2 DEF RecordsOK
<1>3. CASE /\ resolves(fct, c.file)
           /\ \/ records' = Assign(records, storage_key(fct.files[c.file], c.key), c.data)
              \/ records' = Erase(records, storage_key(fct.files[c.file], c.key))
  <2>1. PICK id, k, D : id = fct.files[c.file] /\ k = storage_key(id, c.key) /\ D = DOMAIN records
    OBVIOUS
  <2>2. id \in 0 .. FILE_IDS - 1
    BY <1>3, <2>1, TableIds DEF resolves
  <2>3. StoredKey(k)
    BY <1>1, <2>1, <2>2 DEF StoredKey
  <2>4. DOMAIN records' \in {D \cup {k}, D \ {k}}
    BY <1>3, <2>1 DEF Assign, Erase
  <2>5. IsFiniteSet(DOMAIN records')
    BY <2>1, <2>4, FS_AddElement, FS_RemoveElement DEF RecordsOK
  <2>6. \A x \in DOMAIN records' : StoredKey(x)
    BY <2>1, <2>3, <2>4 DEF RecordsOK
  <2> QED
    BY <2>5, <2>6 DEF RecordsOK, StoredKey
<1> QED
  BY <1>2, <1>3 DEF Change, Changed, exec_write, exec_rewrite, exec_delete,
                    Failed, Stored, Erased

(* Every step keeps the invariant.                                            *)
LEMMA NextFiles ==
    ASSUME SameOrder, FilesInv, [Next]_vars
    PROVE  FilesInv'
<1>0. TableOK /\ RecordsOK
  BY DEF FilesInv
<1>1. CASE Reopen
  <2>1. TableOK'
    BY <1>1 DEF Reopen, TableOK, EmptyTable, NoRecords
  <2>2. RecordsOK'
    BY <1>0, <1>1 DEF Reopen, RecordsOK, StoredKey
  <2> QED
    BY <2>1, <2>2 DEF FilesInv
<1>2. ASSUME NEW n \in Names, define_file(n) PROVE FilesInv'
  <2>1. TableOK'
    BY <1>0, <1>2, DefineTable
  <2>2. RecordsOK'
    BY <1>0, <1>2 DEF define_file, RecordsOK, StoredKey
  <2> QED
    BY <2>1, <2>2 DEF FilesInv
<1>3. ASSUME NEW c \in Commands, Inquire(c) PROVE FilesInv'
  BY <1>0, <1>3 DEF Inquire, FilesInv, TableOK, RecordsOK, StoredKey
<1>4. ASSUME NEW c \in Commands, Change(c) PROVE FilesInv'
  <2>1. TableOK'
    BY <1>0, <1>4 DEF Change, TableOK
  <2>2. RecordsOK'
    BY <1>0, <1>4, ChangeRecords
  <2> QED
    BY <2>1, <2>2 DEF FilesInv
<1>5. CASE UNCHANGED vars
  BY <1>0, <1>5 DEF vars, FilesInv, TableOK, RecordsOK, StoredKey
<1> QED
  BY <1>1, <1>2, <1>3, <1>4, <1>5 DEF Next

(* The File Control Table and the records keep the invariant in every         *)
(* behaviour of a region whose openings define their files in one order:      *)
(* define hands out the ids of that order, and exec_write, exec_rewrite and   *)
(* exec_delete store under storage keys only.                                 *)
THEOREM FilesInvariance ==
    ASSUME SameOrder
    PROVE  Spec => []FilesInv
<1>1. Init => FilesInv
  BY InitFiles
<1>2. FilesInv /\ [Next]_vars => FilesInv'
  BY NextFiles
<1> QED
  BY <1>1, <1>2, PTL DEF Spec

-------------------------------------------------------------------------------
(* The records of one file.                                                   *)

FileOf(w, id) == [r \in OwnKeys(w, id, Keys) |-> w[storage_key(id, r)]]
OwnRecords(w, id) ==
    [r \in {SubSeq(k, ID_BYTES + 1, Len(k)) :
                k \in {x \in DOMAIN w : SubSeq(x, 1, ID_BYTES) = to_be_bytes(id)}} |->
        w[to_be_bytes(id) \o r]]

(* Record keys are strings of numbers.                                        *)
LEMMA KeysAreNumbers ==
    Keys \in SUBSET Seq(Nat)
<1>1. PICK b : b = 0 .. BYTE - 1
  OBVIOUS
<1>2. b \subseteq Nat
  BY <1>1, FileControlAssumption
<1>3. Keys \subseteq Seq(b)
  BY <1>1, FilesAssumption
<1> QED
  BY <1>2, <1>3, SeqMonotonic

(* RecordsOf gives the record keys stored under the id, with their values.    *)
LEMMA OwnRecordsOf ==
    ASSUME NEW w, Tidy(w, Keys), NEW id \in 0 .. FILE_IDS - 1
    PROVE  OwnRecords(w, id) = FileOf(w, id)
<1>1. PICK own, R, O : /\ own = {x \in DOMAIN w : SubSeq(x, 1, ID_BYTES) = to_be_bytes(id)}
                       /\ R = {SubSeq(k, ID_BYTES + 1, Len(k)) : k \in own}
                       /\ O = OwnKeys(w, id, Keys)
  OBVIOUS
<1>2. ASSUME NEW r \in R PROVE r \in O
  <2>1. PICK k \in own : r = SubSeq(k, ID_BYTES + 1, Len(k))
    BY <1>1
  <2>2. k \in DOMAIN w /\ SubSeq(k, 1, ID_BYTES) = to_be_bytes(id)
    BY <1>1
  <2>3. PICK j \in 0 .. FILE_IDS - 1, q \in Keys : k = storage_key(j, q)
    BY <2>2 DEF Tidy
  <2>4. q \in Seq(Nat)
    BY KeysAreNumbers
  <2>5. SubSeq(k, 1, ID_BYTES) = to_be_bytes(j) /\ SubSeq(k, ID_BYTES + 1, Len(k)) = q
    BY <2>3, <2>4, StorageKeyParts
  <2>6. j = id
    BY <2>2, <2>5, BytesInjective
  <2> QED
    BY <1>1, <2>1, <2>2, <2>3, <2>5, <2>6 DEF OwnKeys
<1>3. ASSUME NEW r \in O PROVE r \in R
  <2>1. PICK k : k = storage_key(id, r)
    OBVIOUS
  <2>2. k \in DOMAIN w /\ r \in Seq(Nat)
    BY <1>1, <2>1, KeysAreNumbers DEF OwnKeys
  <2>3. SubSeq(k, 1, ID_BYTES) = to_be_bytes(id) /\ SubSeq(k, ID_BYTES + 1, Len(k)) = r
    BY <2>1, <2>2, StorageKeyParts
  <2> QED
    BY <1>1, <2>2, <2>3
<1>4. R = O
  BY <1>2, <1>3
<1>5. OwnRecords(w, id) = [r \in R |-> w[storage_key(id, r)]]
  BY <1>1 DEF OwnRecords, storage_key
<1> QED
  BY <1>1, <1>4, <1>5 DEF FileOf

(* What a file shows, in terms of the records w.                              *)
FileContent(w, n) ==
    IF IdsOf(n) = {} THEN NoRecords ELSE FileOf(w, CHOOSE id \in IdsOf(n) : TRUE)
Shown(w) == [n \in Names |-> FileContent(w, n)]

(* The refinement mapping shows the records file by file.                     *)
LEMMA ContentShown ==
    ASSUME RecordsOK
    PROVE  Contents = Shown(records)
<1>1. Tidy(records, Keys)
  BY DEF RecordsOK, StoredKey, Tidy
<1>2. \A id \in 0 .. FILE_IDS - 1 : RecordsOf(id) = FileOf(records, id)
  BY <1>1, OwnRecordsOf DEF RecordsOf, OwnRecords
<1>3. \A n : IdsOf(n) # {} => (CHOOSE id \in IdsOf(n) : TRUE) \in 0 .. FILE_IDS - 1
  BY IdsInRange
<1> QED
  BY <1>2, <1>3 DEF Contents, Shown, FileContent

(* The same in the next state.                                                *)
LEMMA ContentShownNext ==
    ASSUME RecordsOK'
    PROVE  Contents' = Shown(records')
<1>1. Tidy(records', Keys)
  BY DEF RecordsOK, StoredKey, Tidy
<1>2. \A id \in 0 .. FILE_IDS - 1 : RecordsOf(id)' = FileOf(records', id)
  BY <1>1, OwnRecordsOf DEF RecordsOf, OwnRecords
<1>3. \A n : IdsOf(n) # {} => (CHOOSE id \in IdsOf(n) : TRUE) \in 0 .. FILE_IDS - 1
  BY IdsInRange
<1> QED
  BY <1>2, <1>3 DEF Contents, Shown, FileContent

(* A defined file shows the records under its id.                             *)
LEMMA KnownContent ==
    ASSUME SameOrder, TableOK, NEW n \in DOMAIN fct.files, NEW w
    PROVE  FileContent(w, n) = FileOf(w, fct.files[n])
<1>1. IdsOf(n) = {fct.files[n]}
  BY TableIds
<1>2. (CHOOSE id \in IdsOf(n) : TRUE) = fct.files[n]
  BY <1>1
<1> QED
  BY <1>1, <1>2 DEF FileContent

(* Storing or erasing a record of one file leaves every other file as it is.  *)
LEMMA OthersKept ==
    ASSUME SameOrder, TableOK, NEW n \in DOMAIN fct.files, NEW key \in Keys, NEW w, NEW v,
           NEW m, m # n,
           \/ v = Erase(w, storage_key(fct.files[n], key))
           \/ \E data : v = Assign(w, storage_key(fct.files[n], key), data)
    PROVE  FileContent(v, m) = FileContent(w, m)
<1>1. CASE IdsOf(m) = {}
  BY <1>1 DEF FileContent
<1>2. CASE IdsOf(m) # {}
  <2>1. PICK id, j, k : /\ id = fct.files[n] /\ j = (CHOOSE x \in IdsOf(m) : TRUE)
                        /\ k = storage_key(id, key)
    OBVIOUS
  <2>2. j \in IdsOf(m) /\ IdsOf(n) = {id} /\ id \in 0 .. FILE_IDS - 1
    BY <1>2, <2>1, TableIds
  <2>3. j # id
    BY <2>2, IdsApart
  <2>4. j \in 0 .. FILE_IDS - 1
    BY <2>2, IdsInRange
  <2>5. ASSUME NEW r \in Keys PROVE storage_key(j, r) # k
    BY <2>1, <2>2, <2>3, <2>4, KeysAreNumbers, StorageKeyInjective
  <2>6. \A x : x # k => (x \in DOMAIN v <=> x \in DOMAIN w) /\ (x \in DOMAIN w => v[x] = w[x])
    BY <2>1 DEF Assign, Erase
  <2>7. OwnKeys(v, j, Keys) = OwnKeys(w, j, Keys)
    BY <2>5, <2>6 DEF OwnKeys
  <2>8. \A r \in OwnKeys(w, j, Keys) : v[storage_key(j, r)] = w[storage_key(j, r)]
    BY <2>5, <2>6 DEF OwnKeys
  <2>9. FileOf(v, j) = FileOf(w, j)
    BY <2>7, <2>8 DEF FileOf
  <2> QED
    BY <1>2, <2>1, <2>9 DEF FileContent
<1> QED
  BY <1>1, <1>2

(* Storing a record changes the file as storing in a map does.                *)
LEMMA StoreShown ==
    ASSUME SameOrder, TableOK, NEW n \in DOMAIN fct.files, n \in Names, NEW key \in Keys,
           NEW w, NEW data
    PROVE  Shown(Assign(w, storage_key(fct.files[n], key), data)) =
               [Shown(w) EXCEPT ![n] =
                   [k \in DOMAIN @ \cup {key} |-> IF k = key THEN data ELSE @[k]]]
<1>1. PICK id, s, v : /\ id = fct.files[n] /\ s = storage_key(id, key)
                      /\ v = Assign(w, s, data)
  OBVIOUS
<1>2. id \in 0 .. FILE_IDS - 1
  BY <1>1, TableIds
<1>3. \A r \in Keys : storage_key(id, r) = s <=> r = key
  BY <1>1, <1>2, KeysAreNumbers, StorageKeyInjective
<1>4. DOMAIN v = DOMAIN w \cup {s} /\ v[s] = data /\ \A x \in DOMAIN w : x # s => v[x] = w[x]
  BY <1>1 DEF Assign
<1>5. PICK A, B : A = OwnKeys(w, id, Keys) /\ B = OwnKeys(v, id, Keys)
  OBVIOUS
<1>6. B = A \cup {key}
  BY <1>3, <1>4, <1>5 DEF OwnKeys
<1>7. \A r \in B : v[storage_key(id, r)] = IF r = key THEN data ELSE w[storage_key(id, r)]
  BY <1>3, <1>4, <1>5, <1>6 DEF OwnKeys
<1>8. PICK f : f = FileOf(w, id)
  OBVIOUS
<1>9. FileOf(v, id) = [k \in DOMAIN f \cup {key} |-> IF k = key THEN data ELSE f[k]]
  BY <1>5, <1>6, <1>7, <1>8 DEF FileOf
<1>10. Shown(w)[n] = f /\ Shown(v)[n] = FileOf(v, id)
  BY <1>1, <1>8, KnownContent DEF Shown
<1>11. ASSUME NEW m \in Names, m # n PROVE Shown(v)[m] = Shown(w)[m]
  <2>1. \E x : v = Assign(w, storage_key(fct.files[n], key), x)
    BY <1>1
  <2>2. FileContent(v, m) = FileContent(w, m)
    BY <1>11, <2>1, OthersKept
  <2> QED
    BY <2>2 DEF Shown
<1>12. PICK g, h : g = Shown(w) /\ h = Shown(v)
  OBVIOUS
<1>13. g = [m \in Names |-> g[m]] /\ h = [m \in Names |-> h[m]]
  BY <1>12 DEF Shown
<1>14. h = [g EXCEPT ![n] = [k \in DOMAIN @ \cup {key} |-> IF k = key THEN data ELSE @[k]]]
  BY <1>9, <1>10, <1>11, <1>12, <1>13
<1> QED
  BY <1>1, <1>12, <1>14

(* Erasing one changes it as erasing from a map does.                         *)
LEMMA EraseShown ==
    ASSUME SameOrder, TableOK, NEW n \in DOMAIN fct.files, n \in Names, NEW key \in Keys,
           NEW w
    PROVE  Shown(Erase(w, storage_key(fct.files[n], key))) =
               [Shown(w) EXCEPT ![n] = [k \in DOMAIN @ \ {key} |-> @[k]]]
<1>1. PICK id, s, v : /\ id = fct.files[n] /\ s = storage_key(id, key)
                      /\ v = Erase(w, s)
  OBVIOUS
<1>2. id \in 0 .. FILE_IDS - 1
  BY <1>1, TableIds
<1>3. \A r \in Keys : storage_key(id, r) = s <=> r = key
  BY <1>1, <1>2, KeysAreNumbers, StorageKeyInjective
<1>4. DOMAIN v = DOMAIN w \ {s} /\ \A x \in DOMAIN v : v[x] = w[x]
  BY <1>1 DEF Erase
<1>5. PICK A, B : A = OwnKeys(w, id, Keys) /\ B = OwnKeys(v, id, Keys)
  OBVIOUS
<1>6. B = A \ {key}
  BY <1>3, <1>4, <1>5 DEF OwnKeys
<1>7. \A r \in B : v[storage_key(id, r)] = w[storage_key(id, r)]
  BY <1>4, <1>5 DEF OwnKeys
<1>8. PICK f : f = FileOf(w, id)
  OBVIOUS
<1>9. FileOf(v, id) = [k \in DOMAIN f \ {key} |-> f[k]]
  BY <1>5, <1>6, <1>7, <1>8 DEF FileOf
<1>10. Shown(w)[n] = f /\ Shown(v)[n] = FileOf(v, id)
  BY <1>1, <1>8, KnownContent DEF Shown
<1>11. \A m \in Names : m # n => Shown(v)[m] = Shown(w)[m]
  BY <1>1, OthersKept DEF Shown
<1>12. PICK g, h : g = Shown(w) /\ h = Shown(v)
  OBVIOUS
<1>13. g = [m \in Names |-> g[m]] /\ h = [m \in Names |-> h[m]]
  BY <1>12 DEF Shown
<1>14. h = [g EXCEPT ![n] = [k \in DOMAIN @ \ {key} |-> @[k]]]
  BY <1>9, <1>10, <1>11, <1>12, <1>13
<1> QED
  BY <1>1, <1>12, <1>14

-------------------------------------------------------------------------------
(* The refinement.                                                            *)

(* FileSet counts as FiniteSets does.                                         *)
LEMMA SameCount ==
    ASSUME NEW S
    PROVE  OwnMaps!Cardinality(S) = Cardinality(S)
BY DEF Cardinality, OwnMaps!Cardinality

(* The key that FileSet finds at a place of a page is the one with that rank. *)
LEMMA NthInOrder ==
    ASSUME NEW R \in SUBSET Seq(Nat), IsFiniteSet(R), NEW i \in 1 .. Cardinality(R)
    PROVE  OwnMaps!Nth(R, i) = InOrder(R)[i]
<1>1. PICK k : k = InOrder(R)[i] /\ k \in R /\ Rank(R, k) = i
  BY InOrderRanks
<1>2. \A x \in R : Cardinality({y \in R : Less(y, x)}) \in Nat
  <2> SUFFICES ASSUME NEW x \in R PROVE Cardinality({y \in R : Less(y, x)}) \in Nat
    OBVIOUS
  <2>1. PICK A : A = {y \in R : Less(y, x)}
    OBVIOUS
  <2>2. A \in SUBSET R
    BY <2>1
  <2>3. Cardinality(A) \in Nat
    BY <2>2, FS_Subset, FS_CardinalityType
  <2> QED
    BY <2>1, <2>3
<1>3. i \in Int
  <2>1. Cardinality(R) \in Nat
    BY FS_CardinalityType
  <2> QED
    BY <2>1
<1>4. \A x \in R : Cardinality({y \in R : Less(y, x)}) = i - 1 <=> Rank(R, x) = i
  BY <1>2, <1>3 DEF Rank
<1>5. PICK h : h = OwnMaps!Nth(R, i)
  OBVIOUS
<1>6. h = CHOOSE x \in R : OwnMaps!Cardinality({y \in R : Less(y, x)}) = i - 1
  BY <1>5 DEF OwnMaps!Nth
<1>7. \E x \in R : OwnMaps!Cardinality({y \in R : Less(y, x)}) = i - 1
  BY <1>1, <1>4, SameCount
<1>8. h \in R /\ Cardinality({y \in R : Less(y, h)}) = i - 1
  BY <1>6, <1>7, SameCount
<1>9. Rank(R, h) = Rank(R, k)
  BY <1>1, <1>4, <1>8
<1>10. h = k
  BY <1>1, <1>8, <1>9, RankOnce
<1> QED
  BY <1>1, <1>5, <1>10

(* A browse of a defined file answers a page of that file's records.          *)
LEMMA BrowsePage ==
    ASSUME SameOrder, TableOK, RecordsOK, NEW n \in DOMAIN fct.files, n \in Names,
           NEW key \in Keys, NEW limit \in Nat
    PROVE  exec_browse(records, fct, n, key, limit) =
               Normal(OwnMaps!Page(Contents[n], OwnMaps!KeysFrom(Contents[n], key), limit))
<1>1. PICK w, id, f : w = records /\ id = fct.files[n] /\ f = Contents[n]
  OBVIOUS
<1>2. id \in 0 .. FILE_IDS - 1 /\ id + 1 < FILE_IDS
  BY <1>1, TableIds
<1>3. Tidy(w, Keys)
  BY <1>1 DEF RecordsOK, StoredKey, Tidy
<1>4. f = FileOf(w, id)
  BY <1>1, ContentShown, KnownContent DEF Shown
<1>5. PICK R : R = KeysAt(w, id, Keys, key)
  OBVIOUS
<1>6. R \in SUBSET OwnKeys(w, id, Keys)
  BY <1>5 DEF KeysAt
<1>7. R \in SUBSET Seq(Nat) /\ IsFiniteSet(R)
  BY <1>2, <1>3, <1>6, KeysAreNumbers, OwnKeysFinite
<1>8. OwnMaps!KeysFrom(f, key) = R
  BY <1>4, <1>5 DEF OwnMaps!KeysFrom, FileOf, KeysAt
<1>9. PICK I : I = {i \in 1 .. Cardinality(R) : i <= limit}
  OBVIOUS
<1>10. ASSUME NEW i \in I
       PROVE  /\ OwnMaps!Nth(R, i) = InOrder(R)[i]
              /\ f[InOrder(R)[i]] = w[storage_key(id, InOrder(R)[i])]
  <2>1. i \in 1 .. Cardinality(R)
    BY <1>9
  <2>2. InOrder(R)[i] \in R
    BY <1>7, <2>1, InOrderRanks
  <2>3. f[InOrder(R)[i]] = w[storage_key(id, InOrder(R)[i])]
    BY <1>4, <1>6, <2>2 DEF FileOf
  <2> QED
    BY <1>7, <2>1, <2>3, NthInOrder
<1>11. OwnMaps!Page(f, R, limit) =
           [i \in I |-> <<InOrder(R)[i], w[storage_key(id, InOrder(R)[i])]>>]
  BY <1>9, <1>10, SameCount DEF OwnMaps!Page
<1>12. PICK K : K = RangeKeys(w, storage_key(id, key), storage_key(id + 1, <<>>))
  OBVIOUS
<1>13. K = InOrder(Prefixed(id, R))
  BY <1>2, <1>3, <1>5, <1>12, KeysAreNumbers, BrowseRange
<1>14. Rows(w, K, limit) = OwnMaps!Page(f, R, limit)
  <2>1. PICK q : q = Rows(w, InOrder(Prefixed(id, R)), limit)
    OBVIOUS
  <2>2. /\ q = [i \in DOMAIN q |-> q[i]]
        /\ \A i : i \in DOMAIN q <=> i \in 1 .. Cardinality(R) /\ i <= limit
        /\ \A i \in DOMAIN q :
               q[i] = <<InOrder(R)[i], w[storage_key(id, InOrder(R)[i])]>>
    BY <1>2, <1>7, <2>1, BrowseRows
  <2>3. DOMAIN q = I
    BY <1>9, <2>2
  <2>4. q = [i \in I |-> <<InOrder(R)[i], w[storage_key(id, InOrder(R)[i])]>>]
    BY <2>2, <2>3
  <2> QED
    BY <1>11, <1>13, <2>1, <2>4
<1>15. (id + 1) % FILE_IDS = id + 1
  <2>1. PICK a, c : a = id + 1 /\ c = FILE_IDS
    OBVIOUS
  <2>2. a \in Nat /\ c \in Nat \ {0} /\ a < c
    BY <1>2, <2>1, FileIds
  <2> QED
    BY <2>1, <2>2, SmallRemainder
<1>16. exec_browse(records, fct, n, key, limit) = Normal(Rows(w, K, limit))
  BY <1>1, <1>12, <1>15 DEF exec_browse, resolves
<1> QED
  BY <1>1, <1>8, <1>14, <1>16

(* What a defined file has.                                                   *)
LEMMA HasRecord ==
    ASSUME SameOrder, TableOK, RecordsOK, NEW n \in DOMAIN fct.files, n \in Names,
           NEW key \in Keys
    PROVE  LET k == storage_key(fct.files[n], key)
           IN  /\ k \in DOMAIN records <=> key \in DOMAIN Contents[n]
               /\ k \in DOMAIN records => records[k] = Contents[n][key]
<1>1. Contents[n] = FileOf(records, fct.files[n])
  BY ContentShown, KnownContent DEF Shown
<1> QED
  BY <1>1 DEF FileOf, OwnKeys

(* Fields of a command.                                                       *)
LEMMA CommandFields ==
    ASSUME NEW c \in Commands
    PROVE  /\ c.file \in Names /\ c.key \in Keys
           /\ c.op \in {"READ", "BROWSE", "WRITE", "REWRITE", "DELETE"}
           /\ c.op = "BROWSE" => c.limit \in Nat
BY FilesAssumption DEF Commands

(* READ and BROWSE.                                                           *)
LEMMA InquireRefines ==
    ASSUME SameOrder, FilesInv, FilesInv', NEW c \in Commands, Inquire(c)
    PROVE  OwnMaps!Next
<1>1. TableOK /\ RecordsOK /\ RecordsOK'
  BY DEF FilesInv
<1>2. PICK n, key, known : n = c.file /\ key = c.key /\ known = DOMAIN fct.files
  OBVIOUS
<1>3. n \in Names /\ key \in Keys
  BY <1>2, CommandFields
<1>4. DOMAIN fct'.files = known /\ records' = records
  BY <1>2 DEF Inquire
<1>5. Contents' = Contents
  BY <1>1, <1>4, ContentShown, ContentShownNext
<1>6. CASE n \notin known
  <2>1. answer' = [command |-> c, cond |-> "FileNotFound", value |-> <<>>]
    BY <1>2, <1>6 DEF Inquire, Answered, exec_read, exec_browse, resolves, Condition
  <2>2. OwnMaps!Unknown(c)
    BY <1>2, <1>5, <1>6, <2>1 DEF OwnMaps!Unknown, OwnMaps!Answer
  <2> QED
    BY <1>2, <1>4, <2>1, <2>2 DEF OwnMaps!Next
<1>7. CASE n \in known /\ c.op = "READ"
  <2>1. PICK k : k = storage_key(fct.files[n], key)
    OBVIOUS
  <2>2. CASE k \in DOMAIN records
    <3>1. key \in DOMAIN Contents[n] /\ records[k] = Contents[n][key]
      BY <1>1, <1>2, <1>3, <1>7, <2>1, <2>2, HasRecord
    <3>2. answer' = [command |-> c, cond |-> "NORMAL", value |-> records[k]]
      BY <1>2, <1>7, <2>1, <2>2 DEF Inquire, Answered, exec_read, resolves, Normal
    <3>3. OwnMaps!Read(c)
      BY <1>2, <1>5, <1>7, <3>1, <3>2 DEF OwnMaps!Read, OwnMaps!Has, OwnMaps!Answer
    <3> QED
      BY <1>2, <1>4, <3>2, <3>3 DEF OwnMaps!Next
  <2>3. CASE k \notin DOMAIN records
    <3>1. key \notin DOMAIN Contents[n]
      BY <1>1, <1>2, <1>3, <1>7, <2>1, <2>3, HasRecord
    <3>2. answer' = [command |-> c, cond |-> "RecordNotFound", value |-> <<>>]
      BY <1>2, <1>7, <2>1, <2>3 DEF Inquire, Answered, exec_read, resolves, Condition
    <3>3. OwnMaps!NotFound(c)
      BY <1>2, <1>5, <1>7, <3>1, <3>2 DEF OwnMaps!NotFound, OwnMaps!Lacks, OwnMaps!Answer
    <3> QED
      BY <1>2, <1>4, <3>2, <3>3 DEF OwnMaps!Next
  <2> QED
    BY <2>2, <2>3
<1>8. CASE n \in known /\ c.op = "BROWSE"
  <2>1. PICK v : v = OwnMaps!Page(Contents[n], OwnMaps!KeysFrom(Contents[n], key), c.limit)
    OBVIOUS
  <2>2. c.limit \in Nat
    BY <1>8, CommandFields
  <2>3. exec_browse(records, fct, n, key, c.limit) = Normal(v)
    BY <1>1, <1>2, <1>3, <1>8, <2>1, <2>2, BrowsePage
  <2>4. answer' = [command |-> c, cond |-> "NORMAL", value |-> v]
    BY <1>2, <1>8, <2>3 DEF Inquire, Answered, Normal
  <2>5. OwnMaps!Browse(c)
    BY <1>2, <1>5, <1>8, <2>1, <2>4 DEF OwnMaps!Browse, OwnMaps!Answer
  <2> QED
    BY <1>2, <1>4, <2>4, <2>5 DEF OwnMaps!Next
<1> QED
  BY <1>6, <1>7, <1>8 DEF Inquire

(* A command that fails changes nothing.                                      *)
LEMMA FailureRefines ==
    ASSUME FilesInv, FilesInv', NEW c \in Commands, NEW x,
           records' = records, UNCHANGED fct,
           answer' = [command |-> c, cond |-> x, value |-> <<>>],
           \/ c.file \notin DOMAIN fct.files /\ x = "FileNotFound"
           \/ /\ c.file \in DOMAIN fct.files
              /\ \/ /\ c.op = "WRITE" /\ c.key \in DOMAIN Contents[c.file]
                    /\ x = "DuplicateKey"
                 \/ /\ c.op \in {"REWRITE", "DELETE"} /\ c.key \notin DOMAIN Contents[c.file]
                    /\ x = "RecordNotFound"
    PROVE  OwnMaps!Next
<1>1. Contents' = Contents
  BY ContentShown, ContentShownNext DEF FilesInv
<1>2. OwnMaps!Unknown(c) \/ OwnMaps!Duplicate(c) \/ OwnMaps!NotFound(c)
  BY <1>1 DEF OwnMaps!Unknown, OwnMaps!Duplicate, OwnMaps!NotFound, OwnMaps!Has,
              OwnMaps!Lacks, OwnMaps!Answer
<1> QED
  BY <1>2 DEF OwnMaps!Next

(* WRITE, REWRITE and DELETE.                                                 *)
LEMMA ChangeRefines ==
    ASSUME SameOrder, FilesInv, FilesInv', NEW c \in Commands, Change(c)
    PROVE  OwnMaps!Next
<1>1. TableOK /\ RecordsOK /\ RecordsOK'
  BY DEF FilesInv
<1>2. PICK n, key, known, k : /\ n = c.file /\ key = c.key /\ known = DOMAIN fct.files
                              /\ k = storage_key(fct.files[n], key)
  OBVIOUS
<1>3. n \in Names /\ key \in Keys
  BY <1>2, CommandFields
<1>4. UNCHANGED fct
  BY DEF Change
<1>5. Contents = Shown(records) /\ Contents' = Shown(records')
  BY <1>1, ContentShown, ContentShownNext
<1>6. CASE n \notin known
  <2>1. records' = records /\ answer' = [command |-> c, cond |-> "FileNotFound", value |-> <<>>]
    BY <1>2, <1>6 DEF Change, Changed, Answered, exec_write, exec_rewrite, exec_delete,
                      resolves, Failed, Condition
  <2> QED
    BY <1>2, <1>4, <1>6, <2>1, FailureRefines
<1>7. ASSUME n \in known PROVE k \in DOMAIN records <=> key \in DOMAIN Contents[n]
  BY <1>1, <1>2, <1>3, <1>7, HasRecord
<1>8. CASE n \in known /\ c.op = "WRITE" /\ k \in DOMAIN records
  <2>1. records' = records /\ answer' = [command |-> c, cond |-> "DuplicateKey", value |-> <<>>]
    BY <1>2, <1>8 DEF Change, Changed, Answered, exec_write, resolves, Failed, Condition
  <2> QED
    BY <1>2, <1>4, <1>7, <1>8, <2>1, FailureRefines
<1>9. CASE n \in known /\ c.op \in {"REWRITE", "DELETE"} /\ k \notin DOMAIN records
  <2>1. records' = records /\ answer' = [command |-> c, cond |-> "RecordNotFound", value |-> <<>>]
    BY <1>2, <1>9 DEF Change, Changed, Answered, exec_rewrite, exec_delete, resolves,
                      Failed, Condition
  <2> QED
    BY <1>2, <1>4, <1>7, <1>9, <2>1, FailureRefines
<1>10. CASE /\ n \in known
            /\ \/ c.op = "WRITE" /\ k \notin DOMAIN records
               \/ c.op = "REWRITE" /\ k \in DOMAIN records
  <2>1. /\ records' = Assign(records, k, c.data)
        /\ answer' = [command |-> c, cond |-> "NORMAL", value |-> <<>>]
    BY <1>2, <1>10 DEF Change, Changed, Answered, exec_write, exec_rewrite, resolves,
                       Stored, Normal
  <2>2. Contents' = [Contents EXCEPT ![n] =
            [x \in DOMAIN @ \cup {key} |-> IF x = key THEN c.data ELSE @[x]]]
    <3>1. /\ n \in DOMAIN fct.files
          /\ records' = Assign(records, storage_key(fct.files[n], key), c.data)
      BY <1>2, <1>10, <2>1
    <3>2. Shown(Assign(records, storage_key(fct.files[n], key), c.data)) =
              [Shown(records) EXCEPT ![n] =
                  [x \in DOMAIN @ \cup {key} |-> IF x = key THEN c.data ELSE @[x]]]
      BY <1>1, <1>3, <3>1, StoreShown
    <3> QED
      BY <1>5, <3>1, <3>2
  <2>3. OwnMaps!Store(c)
    BY <1>2, <1>7, <1>10, <2>1, <2>2 DEF OwnMaps!Store, OwnMaps!Has, OwnMaps!Lacks,
                                         OwnMaps!Answer
  <2> QED
    BY <1>4, <2>1, <2>3 DEF OwnMaps!Next
<1>11. CASE n \in known /\ c.op = "DELETE" /\ k \in DOMAIN records
  <2>1. /\ records' = Erase(records, k)
        /\ answer' = [command |-> c, cond |-> "NORMAL", value |-> <<>>]
    BY <1>2, <1>11 DEF Change, Changed, Answered, exec_delete, resolves, Erased, Normal
  <2>2. Contents' = [Contents EXCEPT ![n] = [x \in DOMAIN @ \ {key} |-> @[x]]]
    <3>1. /\ n \in DOMAIN fct.files
          /\ records' = Erase(records, storage_key(fct.files[n], key))
      BY <1>2, <1>11, <2>1
    <3>2. Shown(Erase(records, storage_key(fct.files[n], key))) =
              [Shown(records) EXCEPT ![n] = [x \in DOMAIN @ \ {key} |-> @[x]]]
      BY <1>1, <1>3, <3>1, EraseShown
    <3> QED
      BY <1>5, <3>1, <3>2
  <2>3. OwnMaps!Delete(c)
    BY <1>2, <1>7, <1>11, <2>1, <2>2 DEF OwnMaps!Delete, OwnMaps!Has, OwnMaps!Answer
  <2> QED
    BY <1>4, <2>1, <2>3 DEF OwnMaps!Next
<1> QED
  BY <1>6, <1>8, <1>9, <1>10, <1>11 DEF Change

(* A region opens as a set of empty files.                                    *)
LEMMA InitRefines ==
    ASSUME Init
    PROVE  OwnMaps!Init
<1>1. RecordsOK /\ Contents = Shown(records)
  BY InitFiles, ContentShown DEF FilesInv
<1>2. DOMAIN records = {} /\ DOMAIN fct.files = {}
  BY DEF Init, EmptyTable, NoRecords
<1>3. \A id : FileOf(records, id) = NoRecords
  BY <1>2 DEF FileOf, OwnKeys, NoRecords
<1>4. \A n : FileContent(records, n) = NoRecords
  BY <1>3 DEF FileContent
<1>5. Contents = [n \in Names |-> [k \in {} |-> <<>>]]
  BY <1>1, <1>4 DEF Shown, NoRecords
<1>6. answer = OwnMaps!NoAnswer
  BY DEF Init, NoAnswer, OwnMaps!NoAnswer
<1> QED
  BY <1>2, <1>5, <1>6 DEF OwnMaps!Init

(* Every step is a step of FileSet or leaves it as it is.                     *)
LEMMA NextRefines ==
    ASSUME SameOrder, FilesInv, FilesInv', [Next]_vars
    PROVE  [OwnMaps!Next]_(OwnMaps!vars)
<1>0. records' = records => Contents' = Contents
  BY ContentShown, ContentShownNext DEF FilesInv
<1>1. CASE Reopen
  <2>1. DOMAIN fct'.files = {} /\ answer' = OwnMaps!NoAnswer /\ records' = records
    BY <1>1 DEF Reopen, EmptyTable, NoRecords, NoAnswer, OwnMaps!NoAnswer
  <2>2. OwnMaps!Reopen
    BY <1>0, <2>1 DEF OwnMaps!Reopen
  <2> QED
    BY <2>2 DEF OwnMaps!Next
<1>2. ASSUME NEW n \in Names, define_file(n) PROVE OwnMaps!Next
  <2>1. answer' = OwnMaps!NoAnswer /\ records' = records
    BY <1>2 DEF define_file, NoAnswer, OwnMaps!NoAnswer
  <2>2. DOMAIN fct'.files = DOMAIN fct.files \cup {n}
    BY <1>2 DEF define_file, define, Assign
  <2>3. OwnMaps!Define(n)
    BY <1>0, <2>1, <2>2 DEF OwnMaps!Define
  <2> QED
    BY <2>3 DEF OwnMaps!Next
<1>3. ASSUME NEW c \in Commands, Inquire(c) PROVE OwnMaps!Next
  BY <1>3, InquireRefines
<1>4. ASSUME NEW c \in Commands, Change(c) PROVE OwnMaps!Next
  BY <1>4, ChangeRefines
<1>5. CASE UNCHANGED vars
  <2>1. records' = records /\ UNCHANGED <<fct, answer>>
    BY <1>5 DEF vars
  <2> QED
    BY <1>0, <2>1 DEF OwnMaps!vars
<1> QED
  BY <1>1, <1>2, <1>3, <1>4, <1>5 DEF Next

(* File Control implements separate durable files, for any names, record keys *)
(* and id width, as long as every opening defines its files in one order:     *)
(* exec_read, exec_write, exec_rewrite and exec_delete answer and change what *)
(* they would on a map of the file's own, and exec_browse, with its bounds    *)
(* from the id's bytes to the next id's, returns that file's records from the *)
(* start key on, in order, up to the limit.                                   *)
THEOREM FilesRefined ==
    ASSUME SameOrder
    PROVE  Spec => ImplementsFileSet
<1>1. Init => OwnMaps!Init
  BY InitRefines
<1>2. FilesInv /\ FilesInv' /\ [Next]_vars => [OwnMaps!Next]_(OwnMaps!vars)
  BY NextRefines
<1> QED
  BY <1>1, <1>2, FilesInvariance, PTL DEF Spec, ImplementsFileSet, OwnMaps!Spec

===============================================================================
