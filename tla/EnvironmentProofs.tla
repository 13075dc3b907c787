--------------------------- MODULE EnvironmentProofs ---------------------------
(* Proofs about Environment, for every value of its constants.                *)
EXTENDS EnvironmentInvariant, FiniteSetTheorems, TLAPS

-------------------------------------------------------------------------------
(* Lemmas about the operators the model is built from.                        *)

(* Division of naturals, as freelist::store's page count uses it.             *)
LEMMA DivNat ==
    ASSUME NEW a \in Nat, NEW b \in Nat \ {0}
    PROVE  a \div b \in Nat
OBVIOUS

(* The persisted free list is finite, so its chain has a length.              *)
LEMMA FreeListFinite ==
    ASSUME NEW free \in FreeLists
    PROVE  IsFiniteSet(free) /\ Cardinality(free) \in Nat
<1>1. IsFiniteSet(TxnIds) /\ IsFiniteSet(Pages)
  BY FS_Interval, EnvironmentAssumption DEF TxnIds, Pages, META_PAGE_COUNT
<1>2. IsFiniteSet(TxnIds \X Pages)
  BY <1>1, FS_Product
<1>3. IsFiniteSet(free)
  BY <1>2, FS_Subset DEF FreeLists
<1> QED
  BY <1>3, FS_CardinalityType

(* The free-list chain is never shorter than nothing.                         *)
LEMMA ChainLengthNat ==
    ASSUME NEW n \in Nat
    PROVE  ChainLength(n) \in Nat
<1>1. n + CHUNK - 1 \in Nat /\ CHUNK \in Nat \ {0}
  BY EnvironmentAssumption
<1> QED
  BY <1>1, DivNat DEF ChainLength

-------------------------------------------------------------------------------
(* The type invariant.                                                        *)

(* NoMeta, InitMeta and a discarded WriteTxn are typed.                       *)
LEMMA InitialMetasTyped == NoMeta \in Metas /\ InitMeta \in Metas
<1>1. {} \in PageSets /\ {} \in FreeLists
  BY DEF PageSets, FreeLists
<1>2. 0 \in TxnIds
  BY EnvironmentAssumption DEF TxnIds
<1> QED
  BY <1>1, <1>2 DEF Metas, NoMeta, InitMeta, META_PAGE_COUNT

(* Init establishes the type invariant.                                       *)
LEMMA InitTypeOK == Init => TypeOK
<1> SUFFICES ASSUME Init PROVE TypeOK
  OBVIOUS
<1>1. Torn \in Stamps /\ 0 \in TxnIds /\ {} \in PageSets /\ {} \in FreeLists
  BY EnvironmentAssumption DEF Torn, Stamps, TxnIds, Kinds, PageSets, FreeLists
<1>2. NoRead \in [pc : {"idle", "cloned", "open"}, txn_id : TxnIds,
                  root : PageSets, late : BOOLEAN]
  BY <1>1 DEF NoRead
<1>3. risky \in BOOLEAN
  BY DEF Init
<1>4. rtx \in [Readers -> [pc : {"idle", "cloned", "open"}, txn_id : TxnIds,
                           root : PageSets, late : BOOLEAN]]
  BY <1>2 DEF Init
<1>5. /\ file \in [Pages -> Stamps] /\ slots \in [Slots -> Metas]
      /\ durable \in [Slots -> Metas] /\ readers \in [TxnIds -> Nat]
  BY <1>1, InitialMetasTyped DEF Init
<1> QED
  BY <1>1, <1>3, <1>4, <1>5, InitialMetasTyped, EnvironmentAssumption
  DEF Init, TypeOK, Slots

(* DropWrite leaves the fields of WriteTxn typed.                             *)
LEMMA DropWriteTyped ==
    ASSUME DropWrite
    PROVE  /\ wpc' = "none" /\ base_txn_id' \in TxnIds /\ root' \in PageSets
           /\ next_page' \in Nat /\ overlay' \in SUBSET Pages
           /\ free_list' \in FreeLists /\ obsolete' \in SUBSET Pages
           /\ scratch_pool' \in SUBSET Pages
           /\ reclaim_watermark' \in TxnIds \cup {NoLimit} /\ new_meta' \in Metas
<1>1. 0 \in TxnIds /\ {} \in PageSets /\ {} \in FreeLists
  BY EnvironmentAssumption DEF TxnIds, PageSets, FreeLists
<1> QED
  BY <1>1, InitialMetasTyped DEF DropWrite

(* Ctx::alloc hands out a page and keeps the allocator typed.                 *)
LEMMA AllocTyped ==
    ASSUME TypeOK, NEW q \in Pages, Alloc(q)
    PROVE  /\ next_page' \in Nat /\ free_list' \in FreeLists
           /\ scratch_pool' \in SUBSET Pages
BY DEF TypeOK, Alloc, FreeLists

(* The free list commit() stores and the meta page it builds are typed.       *)
LEMMA AdvancedMetaTyped ==
    ASSUME TypeOK, IWrite, ILife, wpc # "none", FreeChain \subseteq Pages
    PROVE  AdvancedMeta \in Metas
<1>0. /\ committed.txn_id \in Int /\ committed.txn_id >= 0
      /\ committed.txn_id < attempt /\ attempt \in 0 .. MaxAttempts
  BY EnvironmentAssumption DEF TypeOK, IWrite, ILife, Metas, TxnIds
<1>1. committed.txn_id \in TxnIds /\ committed.txn_id + 1 \in TxnIds
  BY <1>0, EnvironmentAssumption DEF TxnIds
<1>2. FreedList \in FreeLists
  BY <1>1 DEF FreedList, FreeLists, TypeOK, IWrite
<1>3. ChainLength(Cardinality(FreedList)) \in Nat
  BY <1>2, FreeListFinite, ChainLengthNat
<1>4. Own("free") \in Stamps
  BY DEF Own, Stamps, Kinds, TypeOK
<1>5. {<<p, Own("free")>> : p \in FreeChain} \in PageSets
  BY <1>4 DEF PageSets
<1>6. committed.chains \subseteq Pages
  BY DEF TypeOK, Metas
<1> QED
  BY <1>1, <1>2, <1>3, <1>5, <1>6 DEF AdvancedMeta, Metas, TypeOK

(* Flushing pages leaves the file typed.                                      *)
LEMMA WrittenTyped ==
    ASSUME TypeOK, NEW nodes, NEW chain
    PROVE  Written(nodes, chain) \in [Pages -> Stamps]
<1>1. Own("free") \in Stamps /\ Own("node") \in Stamps
  BY DEF Own, Stamps, Kinds, TypeOK
<1> QED
  BY <1>1 DEF Written, TypeOK

(* Every step preserves the type invariant.                                   *)
LEMMA NextTypeOK == IInv /\ [Next]_vars => TypeOK'
<1> SUFFICES ASSUME IInv, [Next]_vars PROVE TypeOK'
  OBVIOUS
<1> USE DEF diskVars, envVars, readVars, allocVars, treeVars, fixedVars,
            writeVars, ghostVars
<1>t. TypeOK /\ IMetas /\ ILife /\ IBag /\ IWrite /\ IStage
  BY DEF IInv
<1>a. /\ attempt \in 0 .. MaxAttempts /\ MaxAttempts \in Nat
      /\ \A k \in Kinds : Own(k) \in Stamps
  BY <1>t, EnvironmentAssumption DEF TypeOK, Own, Stamps
<1>1. CASE UNCHANGED vars
  BY <1>t, <1>1 DEF TypeOK, vars
<1>2. CASE CreateFile
  BY <1>t, <1>2 DEF TypeOK, CreateFile
<1>3. ASSUME NEW i \in Slots, CreateWriteSlot(i) PROVE TypeOK'
  BY <1>t, <1>3, InitialMetasTyped DEF TypeOK, CreateWriteSlot
<1>4. CASE CreateSyncSlot0
  BY <1>t, <1>4 DEF TypeOK, CreateSyncSlot0
<1>5. CASE CreateSyncSlot1
  BY <1>t, <1>5, InitialMetasTyped DEF TypeOK, CreateSyncSlot1, Slots
<1>6. CASE Open
  BY <1>t, <1>6 DEF TypeOK, Open, Slots, Newest, NewestSlot
<1>7. CASE OpenFails
  BY <1>t, <1>7 DEF TypeOK, OpenFails, vars
<1>8. ASSUME NEW r \in Readers, BeginReadClone(r) PROVE TypeOK'
  <2>1. committed.txn_id \in TxnIds /\ committed.root \in PageSets
    BY <1>t, <1>8 DEF TypeOK, Metas, ILife, BeginReadClone, TxnIds
  <2> QED
    BY <1>t, <1>8, <2>1 DEF TypeOK, BeginReadClone
<1>9. ASSUME NEW r \in Readers, BeginReadRegister(r) PROVE TypeOK'
  BY <1>t, <1>9 DEF TypeOK, BeginReadRegister
<1>10. ASSUME NEW r \in Readers, DropRead(r) PROVE TypeOK'
  <2>1. rtx[r].txn_id \in TxnIds
    BY <1>t DEF TypeOK
  <2>2. r \in OpenAt(rtx[r].txn_id)
    BY <1>10 DEF DropRead, OpenAt
  <2>3. IsFiniteSet(OpenAt(rtx[r].txn_id))
    BY FS_Subset, EnvironmentAssumption DEF OpenAt
  <2>4. readers[rtx[r].txn_id] # 0
    BY <1>t, <2>1, <2>2, <2>3, FS_EmptySet DEF IBag
  <2>5. readers[rtx[r].txn_id] - 1 \in Nat
    BY <1>t, <2>1, <2>4 DEF TypeOK
  <2>6. NoRead \in [pc : {"idle", "cloned", "open"}, txn_id : TxnIds,
                    root : PageSets, late : BOOLEAN]
    BY EnvironmentAssumption DEF NoRead, TxnIds, PageSets
  <2> QED
    BY <1>t, <1>10, <2>1, <2>5, <2>6 DEF TypeOK, DropRead
<1>11. CASE BeginWrite
  <2>1. committed.txn_id \in TxnIds /\ committed.root \in PageSets
    BY <1>t, <1>11 DEF TypeOK, Metas, ILife, BeginWrite, TxnIds
  <2>2. rtx' \in [Readers -> [pc : {"idle", "cloned", "open"}, txn_id : TxnIds,
                           root : PageSets, late : BOOLEAN]]
    BY <1>t, <1>11 DEF TypeOK, BeginWrite
  <2>3. risky' \in BOOLEAN
    BY <1>t, <1>11 DEF TypeOK, BeginWrite
  <2>4. {} \in SUBSET Pages /\ NoMeta \in Metas /\ attempt' \in 0 .. MaxAttempts
    BY <1>a, <1>11, InitialMetasTyped DEF BeginWrite
  <2> QED
    BY <1>t, <1>11, <2>1, <2>2, <2>3, <2>4 DEF TypeOK, BeginWrite, Metas
<1>12. ASSUME NEW e \in root, CowNode(e) PROVE TypeOK'
  <2>1. PICK q \in Pages : /\ Alloc(q) /\ overlay' = overlay \cup {q}
                           /\ root' = (root \ {e}) \cup {<<q, Own("node")>>}
    BY <1>12 DEF CowNode
  <2>2. e[1] \in Pages /\ root' \in PageSets
    BY <1>t, <1>a, <2>1 DEF TypeOK, PageSets, Kinds
  <2> QED
    BY <1>t, <1>12, <2>1, <2>2, AllocTyped DEF TypeOK, CowNode, EditUnchanged
<1>13. CASE NewNode
  <2>1. PICK q \in Pages : /\ Alloc(q) /\ overlay' = overlay \cup {q}
                           /\ root' = root \cup {<<q, Own("node")>>}
    BY <1>13 DEF NewNode
  <2>2. root' \in PageSets
    BY <1>t, <1>a, <2>1 DEF TypeOK, PageSets, Kinds
  <2> QED
    BY <1>t, <1>13, <2>1, <2>2, AllocTyped DEF TypeOK, NewNode, EditUnchanged
<1>14. ASSUME NEW e \in root, RetireNode(e) PROVE TypeOK'
  <2>1. e[1] \in Pages /\ root' \in PageSets
    BY <1>t, <1>14 DEF TypeOK, PageSets, RetireNode
  <2> QED
    BY <1>t, <1>14, <2>1 DEF TypeOK, RetireNode, EditUnchanged
<1>15. CASE StoreOverflow
  <2>1. PICK q \in Pages : /\ Alloc(q)
                           /\ file' = [file EXCEPT ![q] = Own("overflow")]
                           /\ unsynced' = unsynced \cup {q}
                           /\ root' = root \cup {<<q, Own("overflow")>>}
    BY <1>15 DEF StoreOverflow
  <2>2. root' \in PageSets /\ file' \in [Pages -> Stamps]
    BY <1>t, <1>a, <2>1 DEF TypeOK, PageSets, Kinds
  <2> QED
    BY <1>t, <1>15, <2>1, <2>2, AllocTyped DEF TypeOK, StoreOverflow, EditUnchanged
<1>16. ASSUME NEW e \in root, RetireOverflow(e) PROVE TypeOK'
  <2>1. e[1] \in Pages /\ root' \in PageSets
    BY <1>t, <1>16 DEF TypeOK, PageSets, RetireOverflow
  <2> QED
    BY <1>t, <1>16, <2>1 DEF TypeOK, RetireOverflow, EditUnchanged
<1>17. CASE Rollback
  BY <1>t, <1>17, DropWriteTyped DEF TypeOK, Rollback
<1>18. CASE CommitWrite
  <2>1. AdvancedMeta \in Metas
    BY <1>t, <1>18, AdvancedMetaTyped DEF CommitWrite
  <2>2. file' \in [Pages -> Stamps]
    BY <1>t, <1>18, WrittenTyped DEF CommitWrite
  <2> QED
    BY <1>t, <1>18, <2>1, <2>2 DEF TypeOK, CommitWrite
<1>19. CASE CommitSync
  BY <1>t, <1>19 DEF TypeOK, CommitSync
<1>20. CASE CommitWriteMeta
  BY <1>t, <1>20 DEF TypeOK, CommitWriteMeta
<1>21. CASE CommitSyncMeta
  BY <1>t, <1>21 DEF TypeOK, CommitSyncMeta, Slots
<1>22. CASE CommitPublish
  BY <1>t, <1>22, DropWriteTyped DEF TypeOK, CommitPublish
<1>23. CASE CommitWriteFails
  <2>1. PICK nodes \in SUBSET overlay, chain \in SUBSET (FreeChain \cap Pages) :
             /\ file' = Written(nodes, chain)
             /\ unsynced' = unsynced \cup nodes \cup chain
    BY <1>23 DEF CommitWriteFails
  <2>2. file' \in [Pages -> Stamps]
    BY <1>t, <2>1, WrittenTyped
  <2>3. unsynced' \in SUBSET Pages
    BY <1>t, <2>1 DEF TypeOK
  <2> QED
    BY <1>t, <1>23, <2>2, <2>3, DropWriteTyped DEF TypeOK, CommitWriteFails
<1>24. CASE CommitSyncFails
  BY <1>t, <1>24, DropWriteTyped DEF TypeOK, CommitSyncFails
<1>25. CASE CommitWriteMetaFails
  <2>1. slots' \in [Slots -> Metas]
    BY <1>t, <1>25, InitialMetasTyped DEF TypeOK, CommitWriteMetaFails
  <2> QED
    BY <1>t, <1>25, <2>1, DropWriteTyped DEF TypeOK, CommitWriteMetaFails
<1>26. CASE CommitSyncMetaFails
  BY <1>t, <1>26, DropWriteTyped DEF TypeOK, CommitSyncMetaFails
<1>27. ASSUME Forget, crashes' \in 0 .. MaxCrashes
       PROVE  /\ TypeOK' <=> /\ file' \in [Pages -> Stamps]
                             /\ unsynced' \in SUBSET Pages
                             /\ slots' \in [Slots -> Metas]
                             /\ durable' \in [Slots -> Metas]
  <2>1. /\ 0 \in TxnIds /\ 0 \in Slots
        /\ NoRead \in [pc : {"idle", "cloned", "open"}, txn_id : TxnIds,
                       root : PageSets, late : BOOLEAN]
    BY EnvironmentAssumption DEF TxnIds, PageSets, NoRead, Slots
  <2>2. /\ rtx' \in [Readers -> [pc : {"idle", "cloned", "open"}, txn_id : TxnIds,
                              root : PageSets, late : BOOLEAN]]
        /\ readers' \in [TxnIds -> Nat]
    BY <1>27, <2>1 DEF Forget
  <2>3. DropWrite
    BY <1>27 DEF Forget
  <2> QED
    BY <1>t, <1>27, <2>1, <2>2, <2>3, InitialMetasTyped, DropWriteTyped
    DEF TypeOK, Forget
<1>c. LoseMemory => Forget /\ crashes' \in 0 .. MaxCrashes
  BY <1>t, EnvironmentAssumption DEF LoseMemory, TypeOK
<1>28. CASE Kill
  BY <1>t, <1>c, <1>27, <1>28 DEF TypeOK, Kill
<1>30. CASE CreateFails
  <2>1. Forget /\ crashes' \in 0 .. MaxCrashes
    BY <1>t, <1>30 DEF TypeOK, CreateFails
  <2> QED
    BY <1>t, <1>27, <1>30, <2>1 DEF TypeOK, CreateFails
<1>29. CASE PowerLoss
  <2>1. PICK lost \in SUBSET unsynced :
             file' = [p \in Pages |-> IF p \in lost THEN Torn ELSE file[p]]
    BY <1>29 DEF PowerLoss
  <2>2. file' \in [Pages -> Stamps]
    BY <1>t, <2>1, EnvironmentAssumption DEF TypeOK, Torn, Stamps, Kinds
  <2>3. PICK m0 \in SlotOutcomes(0), m1 \in SlotOutcomes(1) :
             slots' = [i \in Slots |-> IF i = 0 THEN m0 ELSE m1]
    BY <1>29 DEF PowerLoss
  <2>4. m0 \in Metas /\ m1 \in Metas
    BY <1>t, InitialMetasTyped DEF TypeOK, SlotOutcomes, Slots
  <2>5. slots' \in [Slots -> Metas] /\ durable' = slots' /\ unsynced' = {}
    BY <1>29, <2>3, <2>4 DEF PowerLoss
  <2> QED
    BY <1>c, <1>27, <1>29, <2>2, <2>5 DEF PowerLoss
<1> QED
  BY <1>1, <1>2, <1>3, <1>4, <1>5, <1>6, <1>7, <1>8, <1>9, <1>10, <1>11, <1>12,
     <1>13, <1>14, <1>15, <1>16, <1>17, <1>18, <1>19, <1>20, <1>21, <1>22, <1>23,
     <1>24, <1>25, <1>26, <1>28, <1>29, <1>30
  DEF Next, Create, Read, Edit, Commit, CommitFails

-------------------------------------------------------------------------------
(* The life of the environment, and the registered snapshots.                 *)

(* What is open, and what creating the file has written so far.               *)
LEMMA NextLife == IInv /\ [Next]_vars => ILife'
<1> SUFFICES ASSUME IInv, [Next]_vars PROVE ILife'
  OBVIOUS
<1> USE DEF diskVars, envVars, readVars, allocVars, treeVars, fixedVars,
            writeVars, ghostVars
<1>t. TypeOK /\ IMetas /\ ILife /\ IStage /\ IWrite
  BY DEF IInv
<1>1. CASE UNCHANGED vars
  BY <1>t, <1>1 DEF ILife, vars
<1>2. CASE CreateFile
  BY <1>t, <1>2 DEF ILife, CreateFile
<1>3. ASSUME NEW i \in Slots, CreateWriteSlot(i) PROVE ILife'
  BY <1>t, <1>3 DEF TypeOK, ILife, CreateWriteSlot, Slots
<1>4. CASE CreateSyncSlot0
  BY <1>t, <1>4 DEF ILife, CreateSyncSlot0
<1>5. CASE CreateSyncSlot1
  BY <1>t, <1>5 DEF ILife, CreateSyncSlot1, InitMeta
<1>6. CASE Open
  <2>1. committed' \in Metas /\ committed' # NoMeta /\ MetaOK(committed')
    BY <1>t, <1>6 DEF TypeOK, IMetas, Open, Newest, Slots
  <2>2. committed'.txn_id >= 0
    BY <2>1 DEF MetaOK, Metas, TxnIds
  <2> QED
    BY <1>t, <1>6, <2>2 DEF ILife, Open
<1>7. CASE OpenFails
  BY <1>t, <1>7 DEF ILife, OpenFails, vars
<1>8. ASSUME NEW r \in Readers, Read(r) PROVE ILife'
  BY <1>t, <1>8 DEF ILife, Read, BeginReadClone, BeginReadRegister, DropRead, TypeOK
<1>9. CASE BeginWrite
  BY <1>t, <1>9 DEF ILife, BeginWrite, TypeOK
<1>10. CASE Edit
  BY <1>t, <1>10
  DEF ILife, Edit, CowNode, RetireNode, RetireOverflow, NewNode, StoreOverflow,
      EditUnchanged
<1>11. CASE Rollback
  BY <1>t, <1>11 DEF ILife, Rollback, DropWrite
<1>12. CASE CommitWrite \/ CommitSync \/ CommitWriteMeta \/ CommitSyncMeta
  BY <1>t, <1>12
  DEF ILife, CommitWrite, CommitSync, CommitWriteMeta, CommitSyncMeta, TypeOK
<1>13. CASE CommitPublish
  <2>1. new_meta.txn_id = committed.txn_id + 1 /\ committed.txn_id >= 0
        /\ committed.txn_id \in Int
    BY <1>t, <1>13
    DEF CommitPublish, IStage, AdvancedMeta, ILife, TypeOK, Metas, TxnIds
  <2> QED
    BY <1>t, <1>13, <2>1 DEF ILife, CommitPublish, DropWrite
<1>14. CASE CommitFails
  BY <1>t, <1>14
  DEF ILife, CommitFails, CommitWriteFails, CommitSyncFails,
      CommitWriteMetaFails, CommitSyncMetaFails, DropWrite, TypeOK
<1>15. CASE CreateFails \/ Kill \/ PowerLoss
  BY <1>15 DEF ILife, CreateFails, Kill, PowerLoss, LoseMemory, Forget, DropWrite, NoRead
<1> QED
  BY <1>1, <1>2, <1>3, <1>4, <1>5, <1>6, <1>7, <1>8, <1>9, <1>10, <1>11, <1>12,
     <1>13, <1>14, <1>15
  DEF Next, Create, Commit

(* begin_read's registration and Drop's keep the readers list exact.          *)
LEMMA NextBag == IInv /\ [Next]_vars => IBag'
<1> SUFFICES ASSUME IInv, [Next]_vars PROVE IBag'
  OBVIOUS
<1> USE DEF diskVars, envVars, readVars, allocVars, treeVars, fixedVars,
            writeVars, ghostVars
<1>t. TypeOK /\ IBag
  BY DEF IInv
<1>f. \A t \in TxnIds : IsFiniteSet(OpenAt(t))
  BY FS_Subset, EnvironmentAssumption DEF OpenAt
<1>1. CASE UNCHANGED readVars
  BY <1>t, <1>1 DEF IBag, OpenAt
<1>2. ASSUME NEW r \in Readers, BeginReadClone(r) PROVE IBag'
  <2>1. \A t \in TxnIds : OpenAt(t)' = OpenAt(t)
    BY <1>t, <1>2 DEF OpenAt, BeginReadClone, TypeOK
  <2> QED
    BY <1>t, <1>2, <2>1 DEF IBag, BeginReadClone
<1>3. ASSUME NEW r \in Readers, BeginReadRegister(r) PROVE IBag'
  <2>1. rtx[r].txn_id \in TxnIds /\ r \notin OpenAt(rtx[r].txn_id)
    BY <1>t, <1>3 DEF OpenAt, BeginReadRegister, TypeOK
  <2>2. \A t \in TxnIds :
            OpenAt(t)' = IF t = rtx[r].txn_id THEN OpenAt(t) \cup {r} ELSE OpenAt(t)
    BY <1>t, <1>3 DEF OpenAt, BeginReadRegister, TypeOK
  <2>3. Cardinality(OpenAt(rtx[r].txn_id) \cup {r})
            = Cardinality(OpenAt(rtx[r].txn_id)) + 1
    BY <1>f, <2>1, FS_AddElement
  <2> QED
    BY <1>t, <1>3, <2>1, <2>2, <2>3 DEF IBag, BeginReadRegister, TypeOK
<1>4. ASSUME NEW r \in Readers, DropRead(r) PROVE IBag'
  <2>1. rtx[r].txn_id \in TxnIds /\ r \in OpenAt(rtx[r].txn_id)
    BY <1>t, <1>4 DEF OpenAt, DropRead, TypeOK
  <2>2. \A t \in TxnIds :
            OpenAt(t)' = IF t = rtx[r].txn_id THEN OpenAt(t) \ {r} ELSE OpenAt(t)
    BY <1>t, <1>4 DEF OpenAt, DropRead, TypeOK, NoRead
  <2>3. Cardinality(OpenAt(rtx[r].txn_id) \ {r})
            = Cardinality(OpenAt(rtx[r].txn_id)) - 1
    BY <1>f, <2>1, FS_RemoveElement
  <2> QED
    BY <1>t, <1>4, <2>1, <2>2, <2>3 DEF IBag, DropRead, TypeOK
<1>5. CASE BeginWrite
  <2>1. \A t \in TxnIds : OpenAt(t)' = OpenAt(t)
    BY <1>t, <1>5 DEF OpenAt, BeginWrite, TypeOK
  <2> QED
    BY <1>t, <1>5, <2>1 DEF IBag, BeginWrite
<1>6. CASE CreateFails \/ Kill \/ PowerLoss
  <2>1. \A t \in TxnIds : OpenAt(t)' = {} /\ readers'[t] = 0
    BY <1>6 DEF OpenAt, CreateFails, Kill, PowerLoss, LoseMemory, Forget, NoRead
  <2> QED
    BY <2>1, FS_EmptySet DEF IBag
<1>7. CASE Create \/ Open \/ OpenFails \/ Edit \/ Rollback \/ Commit \/ CommitFails
  <2>1. UNCHANGED readVars
    BY <1>7
    DEF Create, CreateFile, CreateWriteSlot, CreateSyncSlot0, CreateSyncSlot1,
        Open, OpenFails, vars, Edit, CowNode, RetireNode, RetireOverflow, NewNode,
        StoreOverflow, EditUnchanged, Rollback, Commit, CommitWrite, CommitSync,
        CommitWriteMeta, CommitSyncMeta, CommitPublish, CommitFails,
        CommitWriteFails, CommitSyncFails, CommitWriteMetaFails,
        CommitSyncMetaFails
  <2> QED
    BY <1>1, <2>1
<1> QED
  BY <1>1, <1>2, <1>3, <1>4, <1>5, <1>6, <1>7 DEF Next, Read, vars

-------------------------------------------------------------------------------
(* The write transaction.                                                     *)

(* Adding an entry to a tree adds its page.                                   *)
LEMMA PagesOfAdd ==
    ASSUME NEW tree, NEW p, NEW c
    PROVE  PagesOf(tree \cup {<<p, c>>}) = PagesOf(tree) \cup {p}
<1> DEFINE n == <<p, c>>
<1>1. n[1] = p
  OBVIOUS
<1> HIDE DEF n
<1>2. PagesOf(tree \cup {n}) = PagesOf(tree) \cup {n[1]}
  BY DEF PagesOf
<1> QED
  BY <1>1, <1>2 DEF n

(* Removing an entry removes its page, when no other entry has that page.     *)
LEMMA PagesOfRemove ==
    ASSUME NEW tree, OnePerPage(tree), NEW e \in tree
    PROVE  PagesOf(tree \ {e}) = PagesOf(tree) \ {e[1]}
<1>1. \A f \in tree : f # e => f[1] # e[1]
  BY DEF OnePerPage
<1>2. ASSUME NEW p \in PagesOf(tree \ {e}) PROVE p \in PagesOf(tree) \ {e[1]}
  BY <1>1 DEF PagesOf
<1>3. ASSUME NEW p \in PagesOf(tree), p # e[1] PROVE p \in PagesOf(tree \ {e})
  BY <1>3 DEF PagesOf
<1> QED
  BY <1>2, <1>3

(* The pages the running writer may write: those it has taken, those past     *)
(* its end and those alloc may still take from the free list.                 *)
Writable(p) ==
    p \in Taken \/ p >= next_page \/ p \in FreePages(Reclaimable)

(* None of them is reachable from the committed meta.                         *)
LEMMA WritableFresh ==
    ASSUME TypeOK, IMetas, IWrite, wpc # "none", NEW p \in Int, Writable(p)
    PROVE  /\ p \notin PagesOf(committed.root)
           /\ p \notin PagesOf(committed.free_list_head)
           /\ p \notin committed.chains
<1>1. /\ committed.next_page \in Nat /\ next_page \in Nat
      /\ committed.next_page <= next_page
  BY DEF TypeOK, Metas, IWrite
<1>2. p \in FreePages(committed.free) \/ p >= committed.next_page
  BY <1>1 DEF Writable, Taken, FreePages, Reclaimable, IWrite
<1>3. Accounted(committed) /\ PagesOf(committed.free_list_head) \subseteq committed.chains
  BY DEF IMetas, MetaOK
<1>4. ASSUME p >= committed.next_page
      PROVE  p \notin PagesOf(committed.root) /\ p \notin committed.chains
  <2>1. p \notin META_PAGE_COUNT .. (committed.next_page - 1)
    BY <1>1, <1>4
  <2> QED
    BY <1>3, <2>1 DEF Accounted
<1>5. ASSUME p \in FreePages(committed.free)
      PROVE  p \notin PagesOf(committed.root) /\ p \notin committed.chains
  BY <1>3, <1>5 DEF Accounted
<1> QED
  BY <1>2, <1>3, <1>4, <1>5

(* What the writer has taken lies below its next_page.                        *)
LEMMA TakenBelow ==
    ASSUME TypeOK, IMetas, IWrite, wpc # "none", NEW p \in Taken
    PROVE  p \in Int /\ p < next_page
<1>1. /\ committed.next_page \in Nat /\ next_page \in Nat
      /\ committed.next_page <= next_page /\ Accounted(committed)
  BY DEF TypeOK, Metas, IWrite, IMetas, MetaOK
<1>2. FreePages(committed.free) \subseteq META_PAGE_COUNT .. (committed.next_page - 1)
  BY <1>1 DEF Accounted
<1>3. \A x \in META_PAGE_COUNT .. (committed.next_page - 1) : x \in Int /\ x < next_page
  BY <1>1 DEF META_PAGE_COUNT
<1>4. \A x \in committed.next_page .. (next_page - 1) : x \in Int /\ x < next_page
  BY <1>1
<1> QED
  BY <1>2, <1>3, <1>4 DEF Taken

(* Ctx::alloc hands out a page that the transaction did not hold, and         *)
(* accounts for it.                                                           *)
LEMMA AllocTaken ==
    ASSUME TypeOK, IMetas, IWrite, wpc # "none", NEW q \in Pages, Alloc(q),
           UNCHANGED <<committed, reclaim_watermark>>
    PROVE  /\ q \notin PagesOf(root) /\ q \notin obsolete /\ q \notin overlay
           /\ scratch_pool' = scratch_pool \ {q}
           /\ Taken' = Taken \cup {q}
           /\ free_list' \subseteq committed.free
           /\ committed.next_page <= next_page'
           /\ \A f \in committed.free \ free_list' : f[1] <= reclaim_watermark
<1>1. /\ committed.next_page \in Nat /\ next_page \in Nat
      /\ committed.next_page <= next_page /\ free_list \subseteq committed.free
      /\ q \in Int
  BY EnvironmentAssumption DEF TypeOK, Metas, IWrite, Pages, META_PAGE_COUNT
<1>2. Accounted(committed) /\ \A e, f \in committed.free : e[2] = f[2] => e = f
  BY DEF IMetas, MetaOK
<1>3. ASSUME q \notin Taken, q \notin PagesOf(committed.root)
      PROVE  /\ q \notin PagesOf(root) /\ q \notin obsolete /\ q \notin overlay
             /\ q \notin scratch_pool
  BY <1>3 DEF IWrite
<1>4. CASE /\ q \in scratch_pool
           /\ scratch_pool' = scratch_pool \ {q}
           /\ UNCHANGED <<free_list, next_page>>
  BY <1>4 DEF IWrite, Taken
<1>5. CASE /\ scratch_pool = {}
           /\ \E f \in Reclaimable : f[2] = q /\ free_list' = free_list \ {f}
           /\ UNCHANGED <<scratch_pool, next_page>>
  <2>1. PICK f \in Reclaimable : f[2] = q /\ free_list' = free_list \ {f}
    BY <1>5
  <2>2. f \in free_list /\ f \in committed.free /\ f[1] <= reclaim_watermark
    BY <1>1, <2>1 DEF Reclaimable
  <2>3. q \in FreePages(committed.free) /\ q \in FreePages(free_list)
    BY <2>1, <2>2 DEF FreePages
  <2>4. FreePages(free_list') = FreePages(free_list) \ {q}
    BY <1>1, <1>2, <2>1, <2>2 DEF FreePages
  <2>5. q < committed.next_page /\ q \notin PagesOf(committed.root)
    BY <1>1, <1>2, <2>3 DEF Accounted, META_PAGE_COUNT
  <2>6. q \notin Taken
    BY <1>1, <2>3, <2>5 DEF Taken
  <2>8. Taken' = (FreePages(committed.free) \ FreePages(free_list'))
                     \cup (committed.next_page .. (next_page - 1))
    BY <1>5 DEF Taken
  <2>9. Taken' = Taken \cup {q}
    BY <2>3, <2>4, <2>8 DEF Taken
  <2>7. \A g \in committed.free \ free_list' : g[1] <= reclaim_watermark
    BY <2>1, <2>2 DEF IWrite
  <2> QED
    BY <1>1, <1>3, <1>5, <2>1, <2>2, <2>5, <2>6, <2>7, <2>9
<1>6. CASE /\ scratch_pool = {} /\ q = next_page /\ next_page' = next_page + 1
           /\ UNCHANGED <<scratch_pool, free_list>>
  <2>1. q \notin PagesOf(committed.root)
    BY <1>1, <1>6, WritableFresh, q >= next_page DEF Writable
  <2>2. q \notin FreePages(committed.free)
    BY <1>1, <1>2, <1>6 DEF Accounted, META_PAGE_COUNT
  <2>3. q \notin Taken /\ Taken' = Taken \cup {q}
    BY <1>1, <1>6, <2>2 DEF Taken
  <2> QED
    BY <1>1, <1>3, <1>6, <2>1, <2>3 DEF IWrite
<1> QED
  BY <1>4, <1>5, <1>6 DEF Alloc

(* Putting a fresh page under the root: the sets of pages IWrite balances.    *)
LEMMA AddPage ==
    ASSUME TypeOK, IMetas, IWrite, wpc # "none", NEW q \in Pages, Alloc(q),
           UNCHANGED <<committed, reclaim_watermark, obsolete>>,
           NEW c, root' = root \cup {<<q, c>>}
    PROVE  /\ OnePerPage(root')
           /\ PagesOf(root') \cup obsolete' \cup scratch_pool'
                  = PagesOf(committed'.root) \cup Taken'
           /\ PagesOf(root') \cap obsolete' = {}
           /\ PagesOf(root') \cap scratch_pool' = {}
           /\ obsolete' \cap scratch_pool' = {}
           /\ scratch_pool' \subseteq Taken'
<1> DEFINE n == <<q, c>>
<1>1. n[1] = q /\ root' = root \cup {n}
  OBVIOUS
<1>2. PagesOf(root') = PagesOf(root) \cup {q}
  BY PagesOfAdd
<1>3. /\ q \notin PagesOf(root) /\ q \notin obsolete /\ Taken' = Taken \cup {q}
      /\ scratch_pool' = scratch_pool \ {q}
  BY AllocTaken
<1> HIDE DEF n
<1>4. OnePerPage(root')
  BY <1>1, <1>3 DEF OnePerPage, PagesOf, IWrite
<1> QED
  BY <1>2, <1>3, <1>4 DEF IWrite

(* Replacing a page by a fresh one, the old one becoming obsolete.            *)
LEMMA ReplacePage ==
    ASSUME TypeOK, IMetas, IWrite, wpc # "none", NEW q \in Pages, Alloc(q),
           UNCHANGED <<committed, reclaim_watermark>>, NEW e \in root,
           obsolete' = obsolete \cup {e[1]},
           NEW c, root' = (root \ {e}) \cup {<<q, c>>}
    PROVE  /\ OnePerPage(root')
           /\ PagesOf(root') \cup obsolete' \cup scratch_pool'
                  = PagesOf(committed'.root) \cup Taken'
           /\ PagesOf(root') \cap obsolete' = {}
           /\ PagesOf(root') \cap scratch_pool' = {}
           /\ obsolete' \cap scratch_pool' = {}
           /\ scratch_pool' \subseteq Taken'
<1> DEFINE n == <<q, c>>
<1>1. n[1] = q /\ root' = (root \ {e}) \cup {n}
  OBVIOUS
<1>2. PagesOf(root') = (PagesOf(root) \ {e[1]}) \cup {q}
  <2>1. PagesOf(root \ {e}) = PagesOf(root) \ {e[1]}
    BY PagesOfRemove DEF IWrite
  <2>2. PagesOf((root \ {e}) \cup {<<q, c>>}) = PagesOf(root \ {e}) \cup {q}
    BY PagesOfAdd
  <2> QED
    BY <2>1, <2>2
<1>3. /\ q \notin PagesOf(root) /\ q \notin obsolete /\ Taken' = Taken \cup {q}
      /\ scratch_pool' = scratch_pool \ {q} /\ e[1] \in PagesOf(root)
  BY AllocTaken DEF PagesOf
<1> HIDE DEF n
<1>4. OnePerPage(root')
  BY <1>1, <1>3 DEF OnePerPage, PagesOf, IWrite
<1>5. e[1] \notin scratch_pool /\ e[1] \notin obsolete
  BY <1>3 DEF IWrite
<1>7. /\ PagesOf(root) \cup obsolete \cup scratch_pool
             = PagesOf(committed.root) \cup Taken
      /\ PagesOf(root) \cap obsolete = {} /\ PagesOf(root) \cap scratch_pool = {}
      /\ obsolete \cap scratch_pool = {} /\ scratch_pool \subseteq Taken
  BY DEF IWrite
<1>6. PagesOf(root') \cup obsolete' \cup scratch_pool'
          = PagesOf(committed.root) \cup Taken'
  BY <1>2, <1>3, <1>7
<1>8. PagesOf(root') \cap obsolete' = {}
  BY <1>2, <1>3, <1>7
<1>9. /\ PagesOf(root') \cap scratch_pool' = {} /\ scratch_pool' \subseteq Taken'
      /\ obsolete' \cap scratch_pool' = {}
  BY <1>2, <1>3, <1>5, <1>7
<1> QED
  BY <1>4, <1>6, <1>8, <1>9

(* An entry that was the writer's own stays so when a page is added.          *)
LEMMA OwnEntryStays ==
    ASSUME TypeOK, IMetas, IWrite, wpc # "none", NEW q \in Pages, Alloc(q),
           UNCHANGED <<committed, reclaim_watermark, attempt>>,
           overlay' = overlay \/ overlay' = overlay \cup {q},
           \A p \in Pages \ {q} : file'[p] = file[p],
           NEW e \in root, OwnEntry(e)
    PROVE  OwnEntry(e)'
<1>1. q \notin PagesOf(root) /\ Taken' = Taken \cup {q}
  BY AllocTaken
<1>2. e[1] # q /\ e[1] \in Pages
  BY <1>1 DEF PagesOf, TypeOK, PageSets
<1> QED
  BY <1>1, <1>2 DEF OwnEntry, Own

(* Every step keeps the balance of the write transaction's pages.             *)
LEMMA NextWrite == IInv /\ [Next]_vars => IWrite'
<1> SUFFICES ASSUME IInv, [Next]_vars PROVE IWrite'
  OBVIOUS
<1> USE DEF diskVars, envVars, readVars, allocVars, treeVars, fixedVars,
            writeVars, ghostVars
<1>t. TypeOK /\ IMetas /\ ILife /\ IWrite
  BY DEF IInv
<1>1. CASE wpc' = "none"
  BY <1>1 DEF IWrite
<1>2. CASE BeginWrite
  <2>1. /\ committed.next_page \in Nat /\ committed.txn_id \in Int
        /\ committed.txn_id <= attempt /\ attempt \in Nat
        /\ OnePerPage(committed.root)
    BY <1>t DEF TypeOK, Metas, IMetas, MetaOK, TxnIds
  <2>2. Taken' = {}
    BY <1>2, <2>1 DEF BeginWrite, Taken
  <2> QED
    BY <1>t, <1>2, <2>1, <2>2 DEF BeginWrite, IWrite
<1>3. ASSUME NEW e \in root, CowNode(e) PROVE IWrite'
  <2>0. UNCHANGED <<committed, base_txn_id, attempt, reclaim_watermark, wpc, file>>
        /\ wpc # "none" /\ obsolete' = obsolete \cup {e[1]}
    BY <1>3 DEF CowNode, EditUnchanged
  <2>1. PICK q \in Pages : /\ Alloc(q) /\ overlay' = overlay \cup {q}
                           /\ root' = (root \ {e}) \cup {<<q, Own("node")>>}
    BY <1>3 DEF CowNode
  <2>2. /\ q \notin PagesOf(root) /\ q \notin obsolete /\ q \notin overlay
        /\ scratch_pool' = scratch_pool \ {q} /\ Taken' = Taken \cup {q}
        /\ free_list' \subseteq committed.free /\ committed.next_page <= next_page'
        /\ \A f \in committed.free \ free_list' : f[1] <= reclaim_watermark
    BY <1>t, <2>0, <2>1, AllocTaken
  <2>3. ASSUME NEW g \in root' PROVE g \in committed.root \/ OwnEntry(g)'
    <3>1. CASE g = <<q, Own("node")>>
      BY <2>0, <2>1, <2>2, <3>1 DEF OwnEntry, Own
    <3>2. CASE g \in root
      BY <1>t, <2>0, <2>1, <3>2, OwnEntryStays DEF IWrite
    <3> QED
      BY <2>1, <3>1, <3>2
  <2>4. /\ OnePerPage(root')
        /\ PagesOf(root') \cup obsolete' \cup scratch_pool'
               = PagesOf(committed'.root) \cup Taken'
        /\ PagesOf(root') \cap obsolete' = {}
        /\ PagesOf(root') \cap scratch_pool' = {}
        /\ obsolete' \cap scratch_pool' = {}
        /\ scratch_pool' \subseteq Taken'
    BY <1>t, <2>0, <2>1, ReplacePage
  <2>5. overlay' \subseteq Taken' /\ overlay' \cap scratch_pool' = {}
    BY <1>t, <2>0, <2>1, <2>2 DEF IWrite
  <2> QED
    BY <1>t, <2>0, <2>2, <2>3, <2>4, <2>5 DEF IWrite
<1>4. CASE NewNode
  <2>0. UNCHANGED <<committed, base_txn_id, attempt, reclaim_watermark, wpc, file,
                    obsolete>> /\ wpc # "none"
    BY <1>4 DEF NewNode, EditUnchanged
  <2>1. PICK q \in Pages : /\ Alloc(q) /\ overlay' = overlay \cup {q}
                           /\ root' = root \cup {<<q, Own("node")>>}
    BY <1>4 DEF NewNode
  <2>2. /\ q \notin PagesOf(root) /\ q \notin obsolete /\ q \notin overlay
        /\ scratch_pool' = scratch_pool \ {q} /\ Taken' = Taken \cup {q}
        /\ free_list' \subseteq committed.free /\ committed.next_page <= next_page'
        /\ \A f \in committed.free \ free_list' : f[1] <= reclaim_watermark
    BY <1>t, <2>0, <2>1, AllocTaken
  <2>3. ASSUME NEW g \in root' PROVE g \in committed.root \/ OwnEntry(g)'
    <3>1. CASE g = <<q, Own("node")>>
      BY <2>0, <2>1, <2>2, <3>1 DEF OwnEntry, Own
    <3>2. CASE g \in root
      BY <1>t, <2>0, <2>1, <3>2, OwnEntryStays DEF IWrite
    <3> QED
      BY <2>1, <3>1, <3>2
  <2>4. /\ OnePerPage(root')
        /\ PagesOf(root') \cup obsolete' \cup scratch_pool'
               = PagesOf(committed'.root) \cup Taken'
        /\ PagesOf(root') \cap obsolete' = {}
        /\ PagesOf(root') \cap scratch_pool' = {}
        /\ obsolete' \cap scratch_pool' = {}
        /\ scratch_pool' \subseteq Taken'
    BY <1>t, <2>0, <2>1, AddPage
  <2>5. overlay' \subseteq Taken' /\ overlay' \cap scratch_pool' = {}
    BY <1>t, <2>0, <2>1, <2>2 DEF IWrite
  <2> QED
    BY <1>t, <2>0, <2>2, <2>3, <2>4, <2>5 DEF IWrite
<1>5. CASE StoreOverflow
  <2>0. UNCHANGED <<committed, base_txn_id, attempt, reclaim_watermark, wpc,
                    obsolete, overlay>> /\ wpc # "none"
    BY <1>5 DEF StoreOverflow, EditUnchanged
  <2>1. PICK q \in Pages : /\ Alloc(q)
                           /\ file' = [file EXCEPT ![q] = Own("overflow")]
                           /\ root' = root \cup {<<q, Own("overflow")>>}
    BY <1>5 DEF StoreOverflow
  <2>f. file'[q] = Own("overflow") /\ \A p \in Pages \ {q} : file'[p] = file[p]
    BY <1>t, <2>1 DEF TypeOK
  <2>2. /\ q \notin PagesOf(root) /\ q \notin obsolete /\ q \notin overlay
        /\ scratch_pool' = scratch_pool \ {q} /\ Taken' = Taken \cup {q}
        /\ free_list' \subseteq committed.free /\ committed.next_page <= next_page'
        /\ \A f \in committed.free \ free_list' : f[1] <= reclaim_watermark
    BY <1>t, <2>0, <2>1, AllocTaken
  <2>3. ASSUME NEW g \in root' PROVE g \in committed.root \/ OwnEntry(g)'
    <3>1. CASE g = <<q, Own("overflow")>>
      BY <2>0, <2>2, <2>f, <3>1 DEF OwnEntry, Own
    <3>2. CASE g \in root
      BY <1>t, <2>0, <2>1, <2>f, <3>2, OwnEntryStays DEF IWrite
    <3> QED
      BY <2>1, <3>1, <3>2
  <2>4. /\ OnePerPage(root')
        /\ PagesOf(root') \cup obsolete' \cup scratch_pool'
               = PagesOf(committed'.root) \cup Taken'
        /\ PagesOf(root') \cap obsolete' = {}
        /\ PagesOf(root') \cap scratch_pool' = {}
        /\ obsolete' \cap scratch_pool' = {}
        /\ scratch_pool' \subseteq Taken'
    BY <1>t, <2>0, <2>1, AddPage
  <2>5. overlay' \subseteq Taken' /\ overlay' \cap scratch_pool' = {}
    BY <1>t, <2>0, <2>2 DEF IWrite
  <2> QED
    BY <1>t, <2>0, <2>2, <2>3, <2>4, <2>5 DEF IWrite
<1>6. ASSUME NEW e \in root, RetireNode(e) \/ RetireOverflow(e) PROVE IWrite'
  <2>0. UNCHANGED <<committed, base_txn_id, attempt, reclaim_watermark, wpc, file,
                    free_list, next_page>> /\ wpc # "none" /\ root' = root \ {e}
    BY <1>6 DEF RetireNode, RetireOverflow, EditUnchanged
  <2>1. PagesOf(root') = PagesOf(root) \ {e[1]} /\ OnePerPage(root')
        /\ e[1] \in PagesOf(root) /\ Taken' = Taken
    BY <1>t, <2>0, PagesOfRemove DEF IWrite, OnePerPage, PagesOf, Taken
  <2>2. \/ e[1] \in overlay /\ overlay' = overlay \ {e[1]}
               /\ scratch_pool' = scratch_pool \cup {e[1]} /\ obsolete' = obsolete
        \/ /\ obsolete' = obsolete \cup {e[1]}
           /\ UNCHANGED <<overlay, scratch_pool>>
    BY <1>6 DEF RetireNode, RetireOverflow
  <2>3. ASSUME NEW g \in root' PROVE g \in committed.root \/ OwnEntry(g)'
    <3>1. g \in root /\ g[1] # e[1]
      BY <1>t, <2>0 DEF IWrite, OnePerPage
    <3> QED
      BY <1>t, <2>0, <2>1, <2>2, <3>1 DEF IWrite, OwnEntry, Own
  <2>4. /\ PagesOf(root') \cup obsolete' \cup scratch_pool'
               = PagesOf(committed'.root) \cup Taken'
        /\ PagesOf(root') \cap obsolete' = {}
        /\ PagesOf(root') \cap scratch_pool' = {}
        /\ obsolete' \cap scratch_pool' = {}
        /\ scratch_pool' \subseteq Taken'
        /\ overlay' \subseteq Taken' /\ overlay' \cap scratch_pool' = {}
    <3>1. /\ PagesOf(root) \cup obsolete \cup scratch_pool
                 = PagesOf(committed.root) \cup Taken
          /\ PagesOf(root) \cap obsolete = {} /\ PagesOf(root) \cap scratch_pool = {}
          /\ obsolete \cap scratch_pool = {} /\ scratch_pool \subseteq Taken
          /\ overlay \subseteq Taken /\ overlay \cap scratch_pool = {}
      BY <1>t, <2>0 DEF IWrite
    <3> QED
      BY <2>0, <2>1, <2>2, <3>1
  <2> QED
    BY <1>t, <2>0, <2>1, <2>3, <2>4 DEF IWrite
<1>7. CASE CommitWrite \/ CommitSync \/ CommitWriteMeta \/ CommitSyncMeta
  <2>1. UNCHANGED <<committed, fixedVars, allocVars, treeVars, attempt>>
        /\ wpc # "none"
    BY <1>7 DEF CommitWrite, CommitSync, CommitWriteMeta, CommitSyncMeta
  <2>2. Taken' = Taken
    BY <2>1 DEF Taken
  <2>3. \A p \in Pages : p \notin overlay /\ p < next_page => file'[p] = file[p]
    <3>1. CASE file' = Written(overlay, FreeChain)
      <4>1. \A p \in FreeChain : p >= next_page
        BY <1>t DEF FreeChain, TypeOK
      <4>2. next_page \in Nat /\ Pages \subseteq Nat
        BY <1>t DEF TypeOK, Pages, META_PAGE_COUNT
      <4> QED
        BY <3>1, <4>1, <4>2 DEF Written
    <3> QED
      BY <1>7, <3>1 DEF CommitWrite, CommitSync, CommitWriteMeta, CommitSyncMeta
  <2>4. ASSUME NEW g \in root' PROVE g \in committed.root \/ OwnEntry(g)'
    <3>1. g \in root /\ g[1] \in Pages /\ (g \in committed.root \/ OwnEntry(g))
      BY <1>t, <2>1 DEF IWrite, TypeOK, PageSets
    <3>2. g[1] \in Taken => g[1] < next_page
      BY <1>t, <2>1, TakenBelow
    <3> QED
      BY <2>1, <2>2, <2>3, <3>1, <3>2 DEF OwnEntry, Own
  <2> QED
    BY <1>t, <2>1, <2>2, <2>4 DEF IWrite
<1>8. CASE UNCHANGED <<writeVars, committed, attempt, file>>
  BY <1>t, <1>8 DEF IWrite, Taken, OwnEntry, Own
<1>9. ASSUME NEW r \in Readers, Read(r) PROVE IWrite'
  BY <1>8, <1>9 DEF Read, BeginReadClone, BeginReadRegister, DropRead
<1>10. CASE Create \/ Open \/ OpenFails
  BY <1>1, <1>10, <1>t
  DEF Create, CreateFile, CreateWriteSlot, CreateSyncSlot0, CreateSyncSlot1,
      Open, OpenFails, vars, ILife
<1>11. CASE Rollback \/ CommitPublish \/ CommitFails \/ CreateFails \/ Kill \/ PowerLoss
  BY <1>1, <1>11
  DEF Rollback, CommitPublish, CommitFails, CommitWriteFails, CommitSyncFails,
      CommitWriteMetaFails, CommitSyncMetaFails, CreateFails, Kill, PowerLoss,
      LoseMemory, Forget, DropWrite
<1> QED
  BY <1>2, <1>3, <1>4, <1>5, <1>6, <1>7, <1>8, <1>9, <1>10, <1>11
  DEF Next, Edit, Commit, vars

-------------------------------------------------------------------------------
(* The meta pages.                                                            *)

(* The free list that commit() stores holds what it did not reclaim and what  *)
(* it discarded, page by page.                                                *)
LEMMA FreedPages ==
    FreePages(FreedList) = FreePages(free_list) \cup obsolete \cup scratch_pool
<1> DEFINE new == {<<base_txn_id + 1, p>> : p \in obsolete \cup scratch_pool}
<1>1. FreePages(new) = obsolete \cup scratch_pool
  <2>1. \A p \in obsolete \cup scratch_pool : <<base_txn_id + 1, p>>[2] = p
    OBVIOUS
  <2>2. ASSUME NEW x \in FreePages(new) PROVE x \in obsolete \cup scratch_pool
    BY <2>1 DEF FreePages
  <2>3. ASSUME NEW x \in obsolete \cup scratch_pool PROVE x \in FreePages(new)
    BY <2>1 DEF FreePages
  <2> QED
    BY <2>2, <2>3
<1> HIDE DEF new
<1>2. FreePages(free_list \cup new) = FreePages(free_list) \cup FreePages(new)
  BY DEF FreePages
<1> QED
  BY <1>1, <1>2 DEF FreedList, new

(* The pages still on the free list are neither taken nor committed ones.     *)
LEMMA UntakenFree ==
    ASSUME TypeOK, IMetas, IWrite, wpc # "none", NEW p \in FreePages(free_list)
    PROVE  /\ p \notin Taken /\ p \notin PagesOf(committed.root)
           /\ p \notin committed.chains
           /\ p \in META_PAGE_COUNT .. (committed.next_page - 1)
<1>1. p \in FreePages(committed.free)
  BY DEF FreePages, IWrite
<1>2. Accounted(committed) /\ committed.next_page \in Nat /\ next_page \in Nat
  BY DEF IMetas, MetaOK, TypeOK, Metas
<1>3. /\ p \notin PagesOf(committed.root) /\ p \notin committed.chains
      /\ p \in META_PAGE_COUNT .. (committed.next_page - 1)
  BY <1>1, <1>2 DEF Accounted
<1> QED
  BY <1>2, <1>3 DEF Taken

(* The meta page that commit() builds is well formed: no page leaks and none  *)
(* is in two places.                                                          *)
LEMMA AdvancedMetaOK ==
    ASSUME TypeOK, IMetas, ILife, IWrite, wpc # "none", FreeChain \subseteq Pages
    PROVE  MetaOK(AdvancedMeta)
<1> DEFINE tree == PagesOf(root)
           free == FreePages(free_list)
           len  == ChainLength(Cardinality(FreedList))
           last == next_page + len
<1>1. /\ committed.txn_id \in TxnIds /\ committed.txn_id + 1 \in TxnIds
      /\ committed.txn_id >= 0 /\ committed.txn_id + 1 <= attempt
      /\ committed.next_page \in Nat /\ next_page \in Nat
      /\ META_PAGE_COUNT <= committed.next_page /\ committed.next_page <= next_page
      /\ base_txn_id = committed.txn_id
  <2>1. /\ committed.txn_id \in {-1} \cup TxnIds /\ committed.next_page \in Nat
        /\ next_page \in Nat /\ attempt \in 0 .. MaxAttempts
    BY DEF TypeOK, Metas
  <2>2. META_PAGE_COUNT <= committed.next_page
    BY <2>1 DEF IMetas, MetaOK, META_PAGE_COUNT
  <2>3. committed.txn_id >= 0 /\ committed.txn_id < attempt
        /\ committed.next_page <= next_page /\ base_txn_id = committed.txn_id
    BY DEF ILife, IWrite
  <2> QED
    BY <2>1, <2>2, <2>3, EnvironmentAssumption DEF TxnIds
<1>2. len \in Nat /\ FreedList \in FreeLists
  <2>1. FreedList \in FreeLists
    BY <1>1 DEF FreedList, FreeLists, TypeOK
  <2> QED
    BY <2>1, FreeListFinite, ChainLengthNat
<1>3. /\ tree \cup obsolete \cup scratch_pool = PagesOf(committed.root) \cup Taken
      /\ tree \cap obsolete = {} /\ tree \cap scratch_pool = {}
  BY DEF IWrite
<1>4. Accounted(committed)
  BY DEF IMetas, MetaOK
<1>5. FreeChain = next_page .. (last - 1)
  BY <1>1, <1>2 DEF FreeChain
<1> HIDE DEF len
<1>6. /\ tree \subseteq Int /\ obsolete \subseteq Int /\ scratch_pool \subseteq Int
  <2>1. Pages \subseteq Int
    BY DEF Pages
  <2>2. \A e \in root : e[1] \in Pages
    BY DEF TypeOK, PageSets
  <2> QED
    BY <2>1, <2>2 DEF TypeOK, PagesOf
<1>7. ASSUME NEW p \in PagesOf(committed.root) \cup Taken
      PROVE  p \notin free /\ p \notin committed.chains /\ p \notin FreeChain
  <2>1. p \notin free
    BY UntakenFree
  <2>2. p \in Int /\ p < next_page
    <3>1. CASE p \in committed.next_page .. (next_page - 1)
      BY <1>1, <3>1
    <3>2. CASE p \in META_PAGE_COUNT .. (committed.next_page - 1)
      BY <1>1, <3>2 DEF META_PAGE_COUNT
    <3> QED
      BY <1>4, <3>1, <3>2 DEF Accounted, Taken
  <2>3. p \notin committed.chains
    BY <1>4, <2>2, WritableFresh DEF Accounted, Writable
  <2> QED
    BY <1>1, <1>2, <1>5, <2>1, <2>2, <2>3
<1>8. ASSUME NEW p \in free
      PROVE  p \notin committed.chains /\ p \notin FreeChain
  <2>1. p \notin committed.chains /\ p \in META_PAGE_COUNT .. (committed.next_page - 1)
    BY UntakenFree
  <2> QED
    BY <1>1, <1>2, <1>5, <2>1 DEF META_PAGE_COUNT
<1>9. META_PAGE_COUNT .. (last - 1)
          = tree \cup FreePages(FreedList) \cup (committed.chains \cup FreeChain)
  <2>1. META_PAGE_COUNT .. (last - 1)
            = (META_PAGE_COUNT .. (committed.next_page - 1))
                \cup (committed.next_page .. (next_page - 1)) \cup FreeChain
    BY <1>1, <1>2, <1>5 DEF META_PAGE_COUNT
  <2>2. free \subseteq FreePages(committed.free)
    BY DEF FreePages, IWrite
  <2>3. META_PAGE_COUNT .. (committed.next_page - 1)
            = PagesOf(committed.root) \cup FreePages(committed.free)
                \cup committed.chains
    BY <1>4 DEF Accounted
  <2>4. Taken \cup free = FreePages(committed.free)
            \cup (committed.next_page .. (next_page - 1))
    BY <2>2 DEF Taken
  <2> QED
    BY <1>3, <2>1, <2>3, <2>4, FreedPages
<1>10. /\ tree \cap FreePages(FreedList) = {}
       /\ tree \cap (committed.chains \cup FreeChain) = {}
       /\ FreePages(FreedList) \cap (committed.chains \cup FreeChain) = {}
  BY <1>3, <1>7, <1>8, FreedPages
<1>11. Accounted(AdvancedMeta)
  BY <1>9, <1>10 DEF Accounted, AdvancedMeta, len
<1>12. ASSUME NEW e \in FreedList, NEW f \in FreedList, e[2] = f[2] PROVE e = f
  <2>1. \A g \in FreedList : \/ g \in free_list
                             \/ \E p \in obsolete \cup scratch_pool :
                                    g = <<base_txn_id + 1, p>>
    BY DEF FreedList
  <2>2. \A g \in free_list : g \in committed.free /\ g[2] \in free
    BY DEF IWrite, FreePages
  <2>3. \A p \in obsolete \cup scratch_pool : p \notin free
    BY <1>3, <1>7
  <2>4. \A g, h \in committed.free : g[2] = h[2] => g = h
    BY DEF IMetas, MetaOK
  <2> QED
    BY <1>12, <2>1, <2>2, <2>3, <2>4
<1>13. ASSUME NEW f \in FreedList PROVE f[1] <= committed.txn_id + 1
  <2>1. CASE f \in free_list
    <3>1. f \in committed.free /\ f[1] <= committed.txn_id
      BY <2>1 DEF IWrite, IMetas, MetaOK
    <3>2. f[1] \in Int
      BY <2>1 DEF TypeOK, FreeLists, TxnIds
    <3> QED
      BY <1>1, <3>1, <3>2 DEF TxnIds
  <2>2. CASE f \in {<<base_txn_id + 1, p>> : p \in obsolete \cup scratch_pool}
    BY <1>1, <2>2 DEF TxnIds
  <2> QED
    BY <2>1, <2>2 DEF FreedList
<1>14. PagesOf(AdvancedMeta.free_list_head) \subseteq AdvancedMeta.chains
  BY DEF AdvancedMeta, PagesOf
<1>15. OnePerPage(AdvancedMeta.root)
  BY DEF AdvancedMeta, IWrite
<1>16. AdvancedMeta.txn_id <= attempt /\ AdvancedMeta.txn_id # -1
       /\ AdvancedMeta.next_page >= META_PAGE_COUNT
  BY <1>1, <1>2 DEF AdvancedMeta, TxnIds, len, META_PAGE_COUNT
<1> QED
  BY <1>11, <1>12, <1>13, <1>14, <1>15, <1>16 DEF MetaOK, AdvancedMeta

(* The meta pages of an empty store are well formed.                          *)
LEMMA InitialMetasOK ==
    ASSUME attempt \in Nat
    PROVE  MetaOK(NoMeta) /\ MetaOK(InitMeta)
<1>1. META_PAGE_COUNT .. (META_PAGE_COUNT - 1) = {}
  BY DEF META_PAGE_COUNT
<1>2. PagesOf({}) = {} /\ FreePages({}) = {}
  BY DEF PagesOf, FreePages
<1>3. Accounted(NoMeta) /\ Accounted(InitMeta)
  BY <1>1, <1>2 DEF Accounted, NoMeta, InitMeta
<1> QED
  BY <1>2, <1>3 DEF MetaOK, NoMeta, InitMeta, OnePerPage, META_PAGE_COUNT

(* Beginning another write transaction keeps meta pages well formed.          *)
LEMMA MetaOKMonotonic ==
    ASSUME NEW m \in Metas, MetaOK(m), attempt \in Nat, attempt' \in Nat,
           attempt <= attempt'
    PROVE  MetaOK(m)'
<1>1. m.txn_id \in Int /\ m.txn_id <= attempt
  BY DEF Metas, TxnIds, MetaOK
<1>2. m.txn_id <= attempt'
  BY <1>1
<1> QED
  BY <1>2 DEF MetaOK

(* No step writes an ill-formed meta page.                                    *)
LEMMA NextMetas == IInv /\ [Next]_vars => IMetas'
<1> SUFFICES ASSUME IInv, [Next]_vars PROVE IMetas'
  OBVIOUS
<1> USE DEF diskVars, envVars, readVars, allocVars, treeVars, fixedVars,
            writeVars, ghostVars
<1>t. TypeOK /\ IMetas /\ ILife /\ IWrite /\ IStage
  BY DEF IInv
<1> DEFINE Old == {committed, new_meta, NoMeta, InitMeta}
                    \cup {slots[i] : i \in Slots} \cup {durable[i] : i \in Slots}
           Kept == /\ committed' \in Old
                   /\ \A i \in Slots : slots'[i] \in Old /\ durable'[i] \in Old
<1>a. attempt \in Nat /\ attempt' \in Nat /\ attempt <= attempt'
  <2>1. attempt \in 0 .. MaxAttempts
    BY <1>t DEF TypeOK
  <2>2. attempt' = attempt \/ attempt' = attempt + 1
    BY DEF vars, Next, Create, CreateFile, CreateWriteSlot, CreateSyncSlot0,
        CreateSyncSlot1, Open, OpenFails, Read, BeginReadClone, BeginReadRegister,
        DropRead, BeginWrite, Edit, CowNode, RetireNode, RetireOverflow, NewNode,
        StoreOverflow, EditUnchanged, Rollback, Commit, CommitWrite, CommitSync,
        CommitWriteMeta, CommitSyncMeta, CommitPublish, CommitFails,
        CommitWriteFails, CommitSyncFails, CommitWriteMetaFails,
        CommitSyncMetaFails, CreateFails, Kill, PowerLoss, LoseMemory, Forget
  <2> QED
    BY <2>1, <2>2, EnvironmentAssumption
<1>o. ASSUME NEW m \in Old PROVE MetaOK(m)'
  <2>1. m \in Metas
    BY <1>t, InitialMetasTyped DEF TypeOK
  <2>2. MetaOK(m)
    BY <1>t, <1>a, InitialMetasOK DEF IMetas
  <2> QED
    BY <1>a, <2>1, <2>2, MetaOKMonotonic
<1> HIDE DEF Old
<1>k. ASSUME Kept, new_meta' \in Old PROVE IMetas'
  BY <1>o, <1>k DEF IMetas
<1>1. CASE UNCHANGED <<committed, new_meta, slots, durable>>
  BY <1>1, <1>k DEF Old
<1>2. CASE Create
  BY <1>t, <1>2, <1>k
  DEF Create, CreateFile, CreateWriteSlot, CreateSyncSlot0, CreateSyncSlot1, Old,
      TypeOK, Slots
<1>3. CASE Open
  <2>1. committed' \in Old
    BY <1>3 DEF Open, Newest, Old, Slots
  <2> QED
    BY <1>3, <1>k, <2>1 DEF Open, Old
<1>4. CASE BeginWrite
  BY <1>4, <1>k DEF BeginWrite, Old
<1>5. CASE CommitWrite
  <2>1. MetaOK(AdvancedMeta) /\ AdvancedMeta \in Metas
    BY <1>t, <1>5, AdvancedMetaOK, AdvancedMetaTyped DEF CommitWrite
  <2>3. new_meta' = AdvancedMeta
    BY <1>5 DEF CommitWrite
  <2>4. MetaOK(new_meta)'
    BY <1>5, <2>1, <2>3 DEF CommitWrite, MetaOK
  <2>5. Kept
    BY <1>5 DEF CommitWrite, Old
  <2> QED
    BY <1>o, <2>4, <2>5 DEF IMetas
<1>6. CASE CommitSync \/ CommitWriteMeta \/ CommitSyncMeta
  BY <1>t, <1>6, <1>k DEF CommitSync, CommitWriteMeta, CommitSyncMeta, Old, TypeOK
<1>7. CASE CommitPublish \/ Rollback
  BY <1>7, <1>k DEF CommitPublish, Rollback, DropWrite, Old
<1>8. CASE CommitFails
  BY <1>t, <1>8, <1>k
  DEF CommitFails, CommitWriteFails, CommitSyncFails, CommitWriteMetaFails,
      CommitSyncMetaFails, DropWrite, Old, TypeOK
<1>9. CASE CreateFails \/ Kill
  BY <1>9, <1>k DEF CreateFails, Kill, LoseMemory, Forget, DropWrite, Old
<1>10. CASE PowerLoss
  <2>1. PICK m0 \in SlotOutcomes(0), m1 \in SlotOutcomes(1) :
             slots' = [i \in Slots |-> IF i = 0 THEN m0 ELSE m1]
    BY <1>10 DEF PowerLoss
  <2>2. m0 \in Old /\ m1 \in Old
    BY DEF SlotOutcomes, Old, Slots
  <2> QED
    BY <1>10, <1>k, <2>1, <2>2 DEF PowerLoss, LoseMemory, Forget, DropWrite, Old
<1>11. ASSUME NEW r \in Readers, Read(r) PROVE IMetas'
  BY <1>1, <1>11 DEF Read, BeginReadClone, BeginReadRegister, DropRead
<1>12. CASE Edit \/ OpenFails \/ UNCHANGED vars
  BY <1>1, <1>12
  DEF Edit, CowNode, RetireNode, RetireOverflow, NewNode, StoreOverflow,
      EditUnchanged, OpenFails, vars
<1> QED
  BY <1>2, <1>3, <1>4, <1>5, <1>6, <1>7, <1>8, <1>9, <1>10, <1>11, <1>12
  DEF Next, Commit

-------------------------------------------------------------------------------
(* The stages of commit().                                                    *)

(* AdvancedMeta is a function of the writer's fields.                         *)
LEMMA AdvancedMetaStable ==
    ASSUME UNCHANGED <<committed, base_txn_id, root, next_page, free_list, obsolete,
                       scratch_pool, attempt>>
    PROVE  AdvancedMeta' = AdvancedMeta /\ FreeChain' = FreeChain
BY DEF AdvancedMeta, FreeChain, FreedList, Own

(* Each step of commit() leaves what the next one relies on.                  *)
LEMMA NextStage == IInv /\ [Next]_vars => IStage'
<1> SUFFICES ASSUME IInv, [Next]_vars PROVE IStage'
  OBVIOUS
<1> USE DEF diskVars, envVars, readVars, allocVars, treeVars, fixedVars,
            writeVars, ghostVars
<1>t. TypeOK /\ IMetas /\ ILife /\ IWrite /\ IStage
  BY DEF IInv
<1>1. CASE UNCHANGED <<diskVars, envVars, writeVars, attempt>>
  <2>1. AdvancedMeta' = AdvancedMeta /\ FreeChain' = FreeChain
    BY <1>1, AdvancedMetaStable
  <2> QED
    BY <1>t, <1>1, <2>1 DEF IStage, Own
<1>2. CASE CreateFile \/ (\E i \in Slots : CreateWriteSlot(i)) \/ CreateSyncSlot0
  <2>1. wpc = "none" /\ wpc' = "none" /\ new_meta' = new_meta /\ env' # "open"
    BY <1>t, <1>2 DEF CreateFile, CreateWriteSlot, CreateSyncSlot0, ILife
  <2> QED
    BY <1>t, <2>1 DEF IStage
<1>3. CASE CreateSyncSlot1
  BY <1>t, <1>3 DEF IStage, ILife, CreateSyncSlot1
<1>4. CASE Open
  BY <1>t, <1>4 DEF IStage, ILife, Open, Newest, NewestSlot
<1>5. CASE BeginWrite
  BY <1>t, <1>5 DEF IStage, BeginWrite
<1>6. CASE Edit
  <2>1. wpc = "work" /\ UNCHANGED <<wpc, new_meta, env, active, committed, slots>>
    BY <1>6
    DEF Edit, CowNode, RetireNode, RetireOverflow, NewNode, StoreOverflow,
        EditUnchanged
  <2> QED
    BY <1>t, <2>1 DEF IStage
<1>7. CASE CommitWrite
  <2>1. AdvancedMeta' = AdvancedMeta /\ FreeChain' = FreeChain
    BY <1>7, AdvancedMetaStable DEF CommitWrite
  <2>2. /\ wpc = "work" /\ wpc' = "written" /\ FreeChain \subseteq Pages
        /\ file' = Written(overlay, FreeChain) /\ new_meta' = AdvancedMeta
        /\ UNCHANGED <<overlay, attempt, env, active, committed, slots>>
    BY <1>7 DEF CommitWrite
  <2>3. \A p \in FreeChain : p >= next_page /\ p \in Int
    BY <1>t DEF FreeChain, TypeOK
  <2>4. \A p \in overlay : p \in Int /\ p < next_page /\ p \in Pages
    BY <1>t, <2>2, TakenBelow DEF IWrite, TypeOK
  <2>5. next_page \in Int
    BY <1>t DEF TypeOK
  <2>6. \A p \in overlay : p \notin FreeChain
    BY <2>3, <2>4, <2>5
  <2>7. \A p \in overlay : file'[p] = Own("node")'
    BY <2>2, <2>4, <2>6 DEF Written, Own
  <2>8. \A p \in FreeChain : file'[p] = Own("free")'
    BY <2>2 DEF Written, Own
  <2> QED
    BY <1>t, <2>1, <2>2, <2>7, <2>8 DEF IStage
<1>8. CASE CommitSync \/ CommitWriteMeta \/ CommitSyncMeta
  <2>1. AdvancedMeta' = AdvancedMeta /\ FreeChain' = FreeChain
    BY <1>8, AdvancedMetaStable DEF CommitSync, CommitWriteMeta, CommitSyncMeta
  <2>2. UNCHANGED <<new_meta, overlay, file, attempt, env, committed>>
    BY <1>8 DEF CommitSync, CommitWriteMeta, CommitSyncMeta
  <2>3. Own("node")' = Own("node") /\ Own("free")' = Own("free")
    BY <2>2 DEF Own
  <2>4. env = "open" /\ active \in {0, 1}
    BY <1>t, <1>8 DEF CommitSync, CommitWriteMeta, CommitSyncMeta, ILife, TypeOK, Slots
  <2>5. CASE CommitSync
    BY <1>t, <2>1, <2>2, <2>3, <2>5 DEF CommitSync, IStage
  <2>6. CASE CommitWriteMeta
    BY <1>t, <2>1, <2>2, <2>3, <2>4, <2>6 DEF CommitWriteMeta, IStage, TypeOK, Slots
  <2>7. CASE CommitSyncMeta
    BY <1>t, <2>1, <2>2, <2>3, <2>4, <2>7 DEF CommitSyncMeta, IStage
  <2> QED
    BY <1>8, <2>5, <2>6, <2>7
<1>9. CASE CommitPublish \/ Rollback
  BY <1>t, <1>9 DEF CommitPublish, Rollback, DropWrite, IStage
<1>10. CASE CommitFails
  BY <1>t, <1>10
  DEF CommitFails, CommitWriteFails, CommitSyncFails, CommitWriteMetaFails,
      CommitSyncMetaFails, DropWrite, IStage, TypeOK, Slots
<1>11. CASE CreateFails \/ Kill \/ PowerLoss
  BY <1>11 DEF CreateFails, Kill, PowerLoss, LoseMemory, Forget, DropWrite, IStage
<1>12. ASSUME NEW r \in Readers, Read(r) PROVE IStage'
  BY <1>1, <1>12 DEF Read, BeginReadClone, BeginReadRegister, DropRead
<1> QED
  BY <1>1, <1>2, <1>3, <1>4, <1>5, <1>6, <1>7, <1>8, <1>9, <1>10, <1>11, <1>12
  DEF Next, Create, Commit, OpenFails, vars

-------------------------------------------------------------------------------
(* Which meta a crash can bring back.                                         *)

(* Only the slots decide it.                                                  *)
LEMMA RecoverableStable ==
    ASSUME UNCHANGED <<slots, durable>>
    PROVE  Recoverable' = Recoverable
BY DEF Recoverable, SlotOutcomes

(* A sync, and a power failure itself, only narrow the outcomes.              *)
LEMMA RecoverableSynced ==
    ASSUME TypeOK,
           \A i \in Slots : slots'[i] \in SlotOutcomes(i) /\ durable'[i] = slots'[i]
    PROVE  /\ Recoverable' = {Newest(slots'[0], slots'[1])}
           /\ Recoverable' \subseteq Recoverable
<1>1. \A i \in Slots : SlotOutcomes(i)' = {slots'[i]}
  BY DEF SlotOutcomes
<1>2. Recoverable' = {Newest(slots'[0], slots'[1])}
  BY <1>1 DEF Recoverable, Slots, Newest
<1> QED
  BY <1>2 DEF Recoverable, Slots

(* In a settled store, opening the file can only give the committed meta.     *)
LEMMA SettledRecoverable ==
    ASSUME TypeOK, Settled, committed.txn_id >= 0
    PROVE  Recoverable = {committed}
<1>1. active \in {0, 1} /\ committed.txn_id \in Int /\ NoMeta.txn_id = -1
      /\ \A i \in Slots : slots[i].txn_id \in Int /\ durable[i].txn_id \in Int
  <2>1. \A m \in Metas : m.txn_id \in Int
    BY DEF Metas, TxnIds
  <2> QED
    BY <2>1 DEF TypeOK, Slots, NoMeta
<1>2. SlotOutcomes(active) = {committed}
  BY DEF SlotOutcomes, Settled
<1>3. \A m \in SlotOutcomes(1 - active) :
          m.txn_id \in Int /\ (m = committed \/ m.txn_id < committed.txn_id)
  BY <1>1 DEF SlotOutcomes, Settled, Slots
<1>4. SlotOutcomes(1 - active) # {}
  BY DEF SlotOutcomes
<1>5. \A m \in SlotOutcomes(1 - active) :
          Newest(m, committed) = committed /\ Newest(committed, m) = committed
  BY <1>1, <1>3 DEF Newest
<1>6. CASE active = 0
  BY <1>2, <1>4, <1>5, <1>6 DEF Recoverable
<1>7. CASE active = 1
  BY <1>2, <1>4, <1>5, <1>7 DEF Recoverable
<1> QED
  BY <1>1, <1>6, <1>7

(* Overwriting the slot that is not active leaves the committed meta, the new *)
(* content of that slot, or what could be chosen before.                      *)
LEMMA RecoverableOverwritten ==
    ASSUME TypeOK, durable = slots, slots[active] = committed, NEW m \in Metas,
           slots' = [slots EXCEPT ![1 - active] = m],
           UNCHANGED <<durable, active>>, committed.txn_id >= 0
    PROVE  Recoverable' \subseteq Recoverable \cup {committed, m}
<1>1. active \in {0, 1} /\ 1 - active \in Slots /\ 1 - active # active
      /\ active \in Slots
  BY DEF TypeOK, Slots
<1>2. slots'[active] = committed /\ slots'[1 - active] = m
  BY <1>1 DEF TypeOK
<1>3. SlotOutcomes(active)' = {committed} /\ SlotOutcomes(active) = {committed}
  BY <1>1, <1>2 DEF SlotOutcomes
<1>4. SlotOutcomes(1 - active) = {slots[1 - active]}
  BY DEF SlotOutcomes
<1>5. \A b \in SlotOutcomes(1 - active)' : b \in {slots[1 - active], m, NoMeta}
  BY <1>2 DEF SlotOutcomes
<1>6. NoMeta.txn_id = -1 /\ committed.txn_id \in Int
  BY DEF NoMeta, TypeOK, Metas, TxnIds
<1>7. Newest(NoMeta, committed) = committed /\ Newest(committed, NoMeta) = committed
  BY <1>6 DEF Newest
<1>8. Newest(m, committed) \in {committed, m} /\ Newest(committed, m) \in {committed, m}
  BY DEF Newest
<1>9. CASE active = 0
  <2>1. Recoverable' = {Newest(committed, b) : b \in SlotOutcomes(1 - active)'}
    BY <1>3, <1>9 DEF Recoverable
  <2>2. Recoverable = {Newest(committed, slots[1 - active])}
    BY <1>3, <1>4, <1>9 DEF Recoverable
  <2> QED
    BY <1>5, <1>7, <1>8, <2>1, <2>2
<1>10. CASE active = 1
  <2>1. Recoverable' = {Newest(b, committed) : b \in SlotOutcomes(1 - active)'}
    BY <1>3, <1>10 DEF Recoverable
  <2>2. Recoverable = {Newest(slots[1 - active], committed)}
    BY <1>3, <1>4, <1>10 DEF Recoverable
  <2> QED
    BY <1>5, <1>7, <1>8, <2>1, <2>2
<1> QED
  BY <1>1, <1>9, <1>10

(* While the file is being created, only an empty store can come back.        *)
LEMMA RecoverableEmpty ==
    ASSUME \A i \in Slots : {slots'[i], durable'[i]} \subseteq {NoMeta, InitMeta}
    PROVE  Recoverable' \subseteq {NoMeta, InitMeta}
<1>1. \A i \in Slots : SlotOutcomes(i)' \subseteq {NoMeta, InitMeta}
  BY DEF SlotOutcomes
<1> QED
  BY <1>1 DEF Recoverable, Newest, Slots

(* No crash, at any point, takes back a commit that returned Ok.              *)
LEMMA NextAck == IInv /\ [Next]_vars => IAck'
<1> SUFFICES ASSUME IInv, [Next]_vars PROVE IAck'
  OBVIOUS
<1> USE DEF diskVars, envVars, readVars, allocVars, treeVars, fixedVars,
            writeVars, ghostVars
<1>t. TypeOK /\ IMetas /\ ILife /\ IWrite /\ IStage /\ IAck
  BY DEF IInv
<1>i. /\ \A m \in Metas : m.txn_id \in Int
      /\ committed \in Metas /\ acked \in Metas /\ new_meta \in Metas
      /\ NoMeta.txn_id = -1 /\ InitMeta.txn_id = 0
  BY <1>t DEF TypeOK, Metas, TxnIds, NoMeta, InitMeta
<1>1. CASE UNCHANGED <<slots, durable, env, committed, acked>>
  <2>1. Recoverable' = Recoverable
    BY <1>1, RecoverableStable
  <2> QED
    BY <1>t, <1>1, <2>1 DEF IAck, AckedDurable
<1>2. CASE CreateFile \/ (\E i \in Slots : CreateWriteSlot(i)) \/ CreateSyncSlot0
  <2>1. env' \notin {"open", "down"} /\ acked' = NoMeta
    BY <1>t, <1>2 DEF CreateFile, CreateWriteSlot, CreateSyncSlot0, IAck
  <2>2. ILife'
    BY NextLife
  <2>3. \A i \in Slots : {slots'[i], durable'[i]} \subseteq {NoMeta, InitMeta}
    BY <2>1, <2>2 DEF ILife
  <2>4. Recoverable' \subseteq {NoMeta, InitMeta}
    BY <2>3, RecoverableEmpty
  <2> QED
    BY <1>i, <2>1, <2>4 DEF IAck, AckedDurable
<1>3. CASE CreateSyncSlot1
  <2>1. slots' = slots /\ durable' = slots /\ slots[0] = InitMeta /\ slots[1] = InitMeta
    BY <1>t, <1>3 DEF CreateSyncSlot1, ILife
  <2>2. Recoverable' = {Newest(slots'[0], slots'[1])}
    BY <1>t, <2>1, RecoverableSynced DEF SlotOutcomes
  <2>3. Recoverable' = {InitMeta}
    BY <2>1, <2>2 DEF Newest
  <2> QED
    BY <1>3, <2>3 DEF IAck, AckedDurable, CreateSyncSlot1
<1>4. CASE Open
  <2>1. committed' \in Recoverable
    BY <1>4 DEF Open, Recoverable, SlotOutcomes
  <2>2. Recoverable' = Recoverable
    BY <1>4, RecoverableStable DEF Open
  <2> QED
    BY <1>t, <1>4, <2>1, <2>2 DEF IAck, AckedDurable, Open
<1>5. CASE CommitSync \/ CommitSyncMeta
  <2>1. slots' = slots /\ durable' = slots /\ UNCHANGED <<env, committed, acked>>
    BY <1>5 DEF CommitSync, CommitSyncMeta
  <2>2. Recoverable' \subseteq Recoverable
    BY <1>t, <2>1, RecoverableSynced DEF SlotOutcomes
  <2> QED
    BY <1>t, <2>1, <2>2 DEF IAck, AckedDurable
<1>6. ASSUME NEW m \in Metas, m = NoMeta \/ m = new_meta, wpc = "synced",
             slots' = [slots EXCEPT ![1 - active] = m],
             UNCHANGED <<durable, active, env, committed, acked>>
      PROVE  IAck'
  <2>1. env = "open" /\ committed.txn_id >= 0 /\ slots[active] = committed
        /\ durable = slots
    BY <1>t, <1>6 DEF ILife, IStage
  <2>2. committed = acked \/ committed.txn_id > acked.txn_id
    BY <1>t, <2>1 DEF IAck
  <2>3. new_meta.txn_id = committed.txn_id + 1
    BY <1>t, <1>6 DEF IStage, AdvancedMeta
  <2>4. m = new_meta => m.txn_id > acked.txn_id
    BY <1>i, <2>2, <2>3
  <2>5. Recoverable' \subseteq Recoverable \cup {committed, m}
    BY <1>t, <1>6, <2>1, RecoverableOverwritten
  <2>6. NoMeta \notin Recoverable'
    <3>1. active \in {0, 1} /\ 1 - active \in Slots /\ active # 1 - active /\ active \in Slots
      BY <1>t DEF TypeOK, Slots
    <3>2. slots'[active] = committed /\ durable'[active] = committed
      BY <1>t, <1>6, <2>1, <3>1 DEF TypeOK
    <3>3. SlotOutcomes(active)' = {committed}
      BY <1>6, <3>2 DEF SlotOutcomes
    <3>4. committed # NoMeta
      BY <1>i, <2>1
    <3>5. \A b : Newest(b, committed) = NoMeta => b = NoMeta
      BY <3>4 DEF Newest
    <3>6. \A b : Newest(committed, b) = NoMeta => b = NoMeta
      BY <3>4 DEF Newest
    <3>7. Newest(NoMeta, committed) = committed /\ Newest(committed, NoMeta) = committed
      BY <1>i, <2>1 DEF Newest
    <3>8. CASE active = 0
      BY <1>6, <3>3, <3>4, <3>6, <3>7, <3>8 DEF Recoverable
    <3>9. CASE active = 1
      BY <1>6, <3>3, <3>4, <3>5, <3>7, <3>9 DEF Recoverable
    <3> QED
      BY <3>1, <3>8, <3>9
  <2> QED
    BY <1>t, <1>6, <2>1, <2>2, <2>4, <2>5, <2>6 DEF IAck, AckedDurable
<1>7. CASE CommitWriteMeta
  BY <1>6, <1>7, <1>i DEF CommitWriteMeta
<1>8. CASE CommitWriteMetaFails
  <2>1. CASE slots' = slots
    BY <1>1, <1>8, <2>1 DEF CommitWriteMetaFails
  <2>2. CASE slots' = [slots EXCEPT ![1 - active] = NoMeta]
    BY <1>6, <1>8, <2>2, InitialMetasTyped DEF CommitWriteMetaFails
  <2> QED
    BY <1>8, <2>1, <2>2 DEF CommitWriteMetaFails
<1>9. CASE CommitPublish
  <2>1. /\ slots' = slots /\ durable' = slots /\ slots[active] = new_meta
        /\ slots[1 - active] = committed /\ env = "open"
        /\ new_meta.txn_id = committed.txn_id + 1 /\ active \in {0, 1}
    BY <1>t, <1>9 DEF CommitPublish, IStage, AdvancedMeta, TypeOK, Slots, ILife
  <2>2. Recoverable' = {Newest(slots'[0], slots'[1])}
    BY <1>t, <2>1, RecoverableSynced DEF SlotOutcomes
  <2>3. Newest(slots[0], slots[1]) = new_meta
    <3>1. CASE active = 0
      BY <1>i, <2>1, <3>1 DEF Newest
    <3>2. CASE active = 1
      BY <1>i, <2>1, <3>2 DEF Newest
    <3> QED
      BY <2>1, <3>1, <3>2
  <2> QED
    BY <1>9, <2>1, <2>2, <2>3 DEF IAck, AckedDurable, CommitPublish
<1>10. CASE CreateFails \/ Kill
  <2>1. Recoverable' = Recoverable
    BY <1>10, RecoverableStable DEF CreateFails, Kill
  <2> QED
    BY <1>t, <1>10, <2>1 DEF IAck, AckedDurable, CreateFails, Kill, LoseMemory, Forget
<1>11. CASE PowerLoss
  <2>1. PICK m0 \in SlotOutcomes(0), m1 \in SlotOutcomes(1) :
             slots' = [i \in Slots |-> IF i = 0 THEN m0 ELSE m1]
    BY <1>11 DEF PowerLoss
  <2>2. \A i \in Slots : slots'[i] \in SlotOutcomes(i) /\ durable'[i] = slots'[i]
    BY <1>11, <2>1 DEF PowerLoss, Slots
  <2>3. Recoverable' \subseteq Recoverable
    BY <1>t, <2>2, RecoverableSynced
  <2> QED
    BY <1>t, <1>11, <2>3 DEF IAck, AckedDurable, PowerLoss, LoseMemory, Forget
<1>12. ASSUME NEW r \in Readers, Read(r) PROVE IAck'
  BY <1>1, <1>12 DEF Read, BeginReadClone, BeginReadRegister, DropRead
<1>13. CASE \/ Edit \/ OpenFails \/ UNCHANGED vars \/ BeginWrite \/ Rollback
            \/ CommitWrite \/ CommitWriteFails \/ CommitSyncFails
            \/ CommitSyncMetaFails
  BY <1>1, <1>13
  DEF Edit, CowNode, RetireNode, RetireOverflow, NewNode, StoreOverflow,
      EditUnchanged, OpenFails, vars, BeginWrite, Rollback, CommitWrite,
      CommitWriteFails, CommitSyncFails, CommitSyncMetaFails
<1> QED
  BY <1>2, <1>3, <1>4, <1>5, <1>7, <1>8, <1>9, <1>10, <1>11, <1>12, <1>13
  DEF Next, Create, Commit, CommitFails

-------------------------------------------------------------------------------
(* Pages in use are not written.                                              *)

(* Copy on write and the watermark: what the running writer may write is in   *)
(* no snapshot that was not overtaken.                                        *)
LEMMA WritableUnread ==
    ASSUME TypeOK, IMetas, IWrite, IReaders, wpc # "none", NEW p \in Int,
           Writable(p), NEW r \in Readers, rtx[r].pc # "idle", ~rtx[r].late
    PROVE  p \notin PagesOf(rtx[r].root)
<1>1. /\ committed.next_page \in Nat /\ next_page \in Nat
      /\ committed.next_page <= next_page /\ committed.txn_id = base_txn_id
      /\ rtx[r].txn_id \in Int /\ committed.txn_id \in Int
      /\ reclaim_watermark \in Int
  BY EnvironmentAssumption DEF TypeOK, Metas, IWrite, TxnIds, NoLimit
<1>2. /\ PagesOf(rtx[r].root) \subseteq META_PAGE_COUNT .. (committed.next_page - 1)
      /\ \A f \in committed.free :
             f[2] \in PagesOf(rtx[r].root) => f[1] > rtx[r].txn_id
      /\ rtx[r].txn_id = base_txn_id \/ reclaim_watermark <= rtx[r].txn_id
  BY DEF IReaders
<1>3. CASE p >= committed.next_page
  <2>1. p \notin META_PAGE_COUNT .. (committed.next_page - 1)
    BY <1>1, <1>3
  <2> QED
    BY <1>2, <2>1
<1>4. ASSUME NEW f \in committed.free, f[2] = p, f[1] <= reclaim_watermark
      PROVE  p \notin PagesOf(rtx[r].root)
  <2>1. f[1] <= committed.txn_id /\ f[1] \in Int
    BY DEF IMetas, MetaOK, TypeOK, Metas, FreeLists, TxnIds
  <2> QED
    BY <1>1, <1>2, <1>4, <2>1
<1>5. CASE p \in FreePages(committed.free) \ FreePages(free_list)
  <2>1. PICK f \in committed.free : f[2] = p
    BY <1>5 DEF FreePages
  <2>2. f \notin free_list
    BY <1>5, <2>1 DEF FreePages
  <2> QED
    BY <1>4, <2>1, <2>2 DEF IWrite
<1>6. CASE p \in FreePages(Reclaimable)
  BY <1>4, <1>6 DEF FreePages, Reclaimable, IWrite
<1> QED
  BY <1>1, <1>3, <1>5, <1>6 DEF Writable, Taken

(* The steps of a writer that write data pages write none that the committed  *)
(* meta or such a snapshot reaches.                                           *)
LEMMA FreshWrites ==
    ASSUME IInv, Edit \/ CommitWrite \/ CommitWriteFails
    PROVE  \E W \in SUBSET Pages :
             /\ W \cap PagesOf(committed.root) = {}
             /\ W \cap PagesOf(committed.free_list_head) = {}
             /\ \A r \in Readers : rtx[r].pc # "idle" /\ ~rtx[r].late
                                   => W \cap PagesOf(rtx[r].root) = {}
             /\ \A p \in Pages \ W : file'[p] = file[p]
             /\ unsynced' \subseteq unsynced \cup W
<1> USE DEF diskVars, envVars, readVars, allocVars, treeVars, fixedVars,
            writeVars, ghostVars
<1>t. TypeOK /\ IMetas /\ IWrite /\ IReaders /\ wpc # "none"
  BY DEF IInv, Edit, CowNode, RetireNode, RetireOverflow, NewNode, StoreOverflow,
         CommitWrite, CommitWriteFails
<1>p. Pages \subseteq Int /\ next_page \in Int
  BY <1>t DEF Pages, TypeOK
<1>1. ASSUME NEW W \in SUBSET Pages, \A p \in W : Writable(p)
      PROVE  /\ W \cap PagesOf(committed.root) = {}
             /\ W \cap PagesOf(committed.free_list_head) = {}
             /\ \A r \in Readers : rtx[r].pc # "idle" /\ ~rtx[r].late
                                   => W \cap PagesOf(rtx[r].root) = {}
  BY <1>t, <1>p, <1>1, WritableFresh, WritableUnread
<1>2. SUFFICES \E W \in SUBSET Pages :
                  /\ \A p \in W : Writable(p)
                  /\ \A p \in Pages \ W : file'[p] = file[p]
                  /\ unsynced' \subseteq unsynced \cup W
  BY <1>1
<1>3. CASE UNCHANGED <<file, unsynced>>
  <2>1. {} \in SUBSET Pages
    OBVIOUS
  <2> QED
    BY <1>3, <2>1
<1>4. CASE CommitWrite \/ CommitWriteFails
  <2>1. PICK nodes \in SUBSET overlay, chain \in SUBSET (FreeChain \cap Pages) :
             /\ file' = Written(nodes, chain)
             /\ unsynced' = unsynced \cup nodes \cup chain
    <3>1. CASE CommitWrite
      BY <3>1 DEF CommitWrite
    <3>2. CASE CommitWriteFails
      BY <3>2 DEF CommitWriteFails
    <3> QED
      BY <1>4, <3>1, <3>2
  <2>2. nodes \cup chain \in SUBSET Pages
    BY <1>t DEF TypeOK
  <2>3. \A p \in nodes \cup chain : Writable(p)
    <3>1. \A p \in FreeChain : p >= next_page
      BY <1>p DEF FreeChain
    <3> QED
      BY <1>t, <3>1 DEF IWrite, Writable
  <2>4. \A p \in Pages \ (nodes \cup chain) : file'[p] = file[p]
    BY <2>1 DEF Written
  <2> QED
    BY <2>1, <2>2, <2>3, <2>4
<1>5. CASE StoreOverflow
  <2>1. PICK q \in Pages : /\ Alloc(q)
                           /\ file' = [file EXCEPT ![q] = Own("overflow")]
                           /\ unsynced' = unsynced \cup {q}
    BY <1>5 DEF StoreOverflow
  <2>2. Writable(q)
    BY <1>t, <1>p, <2>1 DEF Alloc, Writable, FreePages, IWrite
  <2>3. \A p \in Pages \ {q} : file'[p] = file[p]
    BY <1>t, <2>1 DEF TypeOK
  <2>4. {q} \in SUBSET Pages
    OBVIOUS
  <2> QED
    BY <2>1, <2>2, <2>3, <2>4
<1> QED
  BY <1>3, <1>4, <1>5
  DEF Edit, CowNode, RetireNode, RetireOverflow, NewNode, StoreOverflow

-------------------------------------------------------------------------------
(* Crash safety.                                                              *)

(* Once commit() has written its pages, all that the new meta reaches is in   *)
(* the file.                                                                  *)
LEMMA NewMetaIntact ==
    ASSUME TypeOK, IWrite, IStage, Intact(committed.root),
           wpc \in {"written", "synced", "meta", "publish"}
    PROVE  Intact(new_meta.root \cup new_meta.free_list_head)
<1>1. new_meta.root = root
      /\ new_meta.free_list_head = {<<p, Own("free")>> : p \in FreeChain}
  BY DEF IStage, AdvancedMeta
<1>2. Intact(root)
  BY DEF IWrite, IStage, OwnEntry, Intact
<1>3. \A e \in {<<p, Own("free")>> : p \in FreeChain} : file[e[1]] = e[2]
  BY DEF IStage
<1> QED
  BY <1>1, <1>2, <1>3 DEF Intact

(* No step of a store whose writers began settled endangers a meta that a     *)
(* crash may bring back.                                                      *)
LEMMA NextDisk == IInv /\ [Next]_vars => IDisk'
<1> SUFFICES ASSUME IInv, [Next]_vars, ~risky' PROVE IDisk'
  BY DEF IDisk
<1> USE DEF diskVars, envVars, readVars, allocVars, treeVars, fixedVars,
            writeVars, ghostVars
<1>t. TypeOK /\ IMetas /\ ILife /\ IWrite /\ IStage /\ IDisk
  BY DEF IInv
<1>r. ~risky
  BY DEF vars, Next, Create, CreateFile, CreateWriteSlot, CreateSyncSlot0,
      CreateSyncSlot1, Open, OpenFails, Read, BeginReadClone, BeginReadRegister,
      DropRead, BeginWrite, Edit, CowNode, RetireNode, RetireOverflow, NewNode,
      StoreOverflow, EditUnchanged, Rollback, Commit, CommitWrite, CommitSync,
      CommitWriteMeta, CommitSyncMeta, CommitPublish, CommitFails,
      CommitWriteFails, CommitSyncFails, CommitWriteMetaFails,
      CommitSyncMetaFails, CreateFails, Kill, PowerLoss, LoseMemory, Forget
<1>i. /\ \A m \in Recoverable : SurvivesPowerLoss(m)
      /\ env = "open" => Intact(committed.root)
      /\ wpc \in {"work", "written", "synced"} => Settled
      /\ wpc = "meta" => Recoverable \subseteq {committed, new_meta}
      /\ wpc = "publish" => Recoverable = {new_meta}
  BY <1>t, <1>r DEF IDisk
<1>m. /\ \A m \in Metas : m.txn_id \in Int
      /\ committed \in Metas /\ new_meta \in Metas
      /\ NoMeta.txn_id = -1 /\ active \in {0, 1}
  BY <1>t DEF TypeOK, Metas, TxnIds, NoMeta, Slots
<1>s. wpc \in {"work", "written", "synced"} =>
        /\ Recoverable = {committed} /\ env = "open" /\ committed.txn_id >= 0
        /\ SurvivesPowerLoss(committed) /\ Intact(committed.root)
  <2>1. wpc \in {"work", "written", "synced"} => env = "open" /\ committed.txn_id >= 0
    BY <1>t DEF ILife
  <2> QED
    BY <1>t, <1>i, <2>1, SettledRecoverable
<1>1. CASE UNCHANGED <<diskVars, envVars, wpc, new_meta>>
  <2>1. Recoverable' = Recoverable
    BY <1>1, RecoverableStable
  <2> QED
    BY <1>i, <1>1, <2>1 DEF IDisk, SurvivesPowerLoss, Intact, Settled
<1>2. CASE wpc' = "none" /\ UNCHANGED diskVars
           /\ (env' = "open" => Intact(committed'.root))
  <2>1. Recoverable' = Recoverable
    BY <1>2, RecoverableStable
  <2> QED
    BY <1>i, <1>2, <2>1 DEF IDisk, SurvivesPowerLoss, Intact
<1>3. CASE Create
  <2>1. env # "open" /\ env # "down" /\ wpc = "none" /\ wpc' = "none"
    BY <1>t, <1>3
    DEF Create, CreateFile, CreateWriteSlot, CreateSyncSlot0, CreateSyncSlot1, ILife
  <2>2. \A i \in Slots : {slots'[i], durable'[i]} \subseteq {NoMeta, InitMeta}
    BY <1>t, <1>3, <2>1
    DEF Create, CreateFile, CreateWriteSlot, CreateSyncSlot0, CreateSyncSlot1, ILife,
        TypeOK, Slots
  <2>3. Recoverable' \subseteq {NoMeta, InitMeta}
    BY <2>2, RecoverableEmpty
  <2>4. \A m \in {NoMeta, InitMeta} : m.root = {} /\ m.free_list_head = {}
    BY DEF NoMeta, InitMeta
  <2>5. env' = "open" => committed' = InitMeta
    BY <1>3, <2>1
    DEF Create, CreateFile, CreateWriteSlot, CreateSyncSlot0, CreateSyncSlot1
  <2> QED
    BY <2>1, <2>3, <2>4, <2>5 DEF IDisk, SurvivesPowerLoss, Intact, PagesOf
<1>4. CASE Open
  <2>1. committed' \in Recoverable
    BY <1>4 DEF Open, Recoverable, SlotOutcomes
  <2>2. Intact(committed'.root)
    BY <1>i, <2>1 DEF SurvivesPowerLoss, Intact
  <2> QED
    BY <1>2, <1>4, <1>t, <2>2 DEF Open, ILife, Intact
<1>5. CASE BeginWrite
  <2>1. Settled /\ UNCHANGED <<diskVars, envVars>> /\ wpc' = "work" /\ env = "open"
    BY <1>5 DEF BeginWrite
  <2>2. Recoverable' = Recoverable
    BY <2>1, RecoverableStable
  <2> QED
    BY <1>i, <2>1, <2>2 DEF IDisk, SurvivesPowerLoss, Intact, Settled
<1>6. CASE Edit \/ CommitWrite \/ CommitWriteFails
  <2>1. PICK W \in SUBSET Pages :
             /\ W \cap PagesOf(committed.root) = {}
             /\ W \cap PagesOf(committed.free_list_head) = {}
             /\ \A p \in Pages \ W : file'[p] = file[p]
             /\ unsynced' \subseteq unsynced \cup W
    BY <1>6, FreshWrites
  <2>2. /\ wpc = "work" /\ UNCHANGED <<slots, durable, envVars>>
        /\ wpc' \in {"none", "work", "written"}
    BY <1>6
    DEF Edit, CowNode, RetireNode, RetireOverflow, NewNode, StoreOverflow,
        EditUnchanged, CommitWrite, CommitWriteFails, DropWrite
  <2>3. Recoverable' = {committed}
    BY <1>s, <2>2, RecoverableStable
  <2>4. \A e \in committed.root \cup committed.free_list_head :
            /\ e[1] \in Pages
            /\ e[1] \in PagesOf(committed.root \cup committed.free_list_head)
            /\ e[1] \notin W
    <3>1. \A e \in committed.root : e[1] \in Pages /\ e[1] \in PagesOf(committed.root)
      BY <1>m DEF Metas, PageSets, PagesOf
    <3>2. \A e \in committed.free_list_head :
              e[1] \in Pages /\ e[1] \in PagesOf(committed.free_list_head)
      BY <1>m DEF Metas, PageSets, PagesOf
    <3> QED
      BY <2>1, <3>1, <3>2 DEF PagesOf
  <2>5. Intact(committed.root \cup committed.free_list_head)
        /\ PagesOf(committed.root \cup committed.free_list_head) \cap unsynced = {}
    BY <1>s, <2>2 DEF SurvivesPowerLoss
  <2>6. \A e \in committed.root \cup committed.free_list_head :
            file'[e[1]] = e[2] /\ e[1] \notin unsynced'
    BY <2>1, <2>4, <2>5 DEF Intact
  <2>7. SurvivesPowerLoss(committed)' /\ Intact(committed.root)'
    BY <2>2, <2>6 DEF SurvivesPowerLoss, Intact, PagesOf
  <2>8. Settled'
    BY <1>i, <2>2 DEF Settled
  <2> QED
    BY <2>2, <2>3, <2>7, <2>8 DEF IDisk
<1>7. CASE CommitSync
  <2>1. /\ wpc = "written" /\ wpc' = "synced" /\ unsynced' = {}
        /\ slots' = slots /\ durable' = slots /\ UNCHANGED <<file, envVars>>
    BY <1>7 DEF CommitSync
  <2>2. Recoverable' \subseteq Recoverable
    BY <1>t, <2>1, RecoverableSynced DEF SlotOutcomes
  <2>3. Settled'
    BY <1>i, <2>1 DEF Settled
  <2>4. SurvivesPowerLoss(committed)' /\ Intact(committed.root)'
    BY <1>s, <2>1 DEF SurvivesPowerLoss, Intact
  <2> QED
    BY <1>s, <2>1, <2>2, <2>3, <2>4 DEF IDisk
<1>8. CASE CommitWriteMeta
  <2>1. /\ wpc = "synced" /\ wpc' = "meta" /\ unsynced = {}
        /\ slots' = [slots EXCEPT ![1 - active] = new_meta]
        /\ UNCHANGED <<file, unsynced, durable, envVars, new_meta>>
    BY <1>t, <1>8 DEF CommitWriteMeta, IStage
  <2>2. Recoverable' \subseteq {committed, new_meta}
    BY <1>t, <1>m, <1>s, <2>1, RecoverableOverwritten DEF IStage
  <2>3. Intact(new_meta.root \cup new_meta.free_list_head)
    BY <1>t, <1>s, <2>1, NewMetaIntact
  <2>4. SurvivesPowerLoss(new_meta)' /\ SurvivesPowerLoss(committed)'
        /\ Intact(committed.root)'
    BY <1>s, <2>1, <2>3 DEF SurvivesPowerLoss, Intact
  <2> QED
    BY <2>1, <2>2, <2>4 DEF IDisk
<1>9. CASE CommitWriteMetaFails
  <2>1. /\ wpc = "synced" /\ wpc' = "none"
        /\ slots' = slots \/ slots' = [slots EXCEPT ![1 - active] = NoMeta]
        /\ UNCHANGED <<file, unsynced, durable, envVars>>
    BY <1>9 DEF CommitWriteMetaFails, DropWrite
  <2>2. CASE slots' = slots
    BY <1>2, <1>s, <2>1, <2>2 DEF Intact
  <2>3. CASE slots' = [slots EXCEPT ![1 - active] = NoMeta]
    <3>1. slots[active] = committed /\ durable = slots /\ active \in {0, 1}
      BY <1>t, <1>m, <1>s, <2>1 DEF IStage
    <3>4. Recoverable' \subseteq {committed, NoMeta}
      BY <1>t, <1>s, <2>1, <2>3, <3>1, RecoverableOverwritten, InitialMetasTyped
    <3>5. SurvivesPowerLoss(committed)' /\ Intact(committed.root)'
      BY <1>s, <2>1 DEF SurvivesPowerLoss, Intact
    <3>6. SurvivesPowerLoss(NoMeta)'
      BY DEF SurvivesPowerLoss, Intact, NoMeta, PagesOf
    <3> QED
      BY <2>1, <3>4, <3>5, <3>6 DEF IDisk
  <2> QED
    BY <2>1, <2>2, <2>3
<1>10. CASE CommitSyncMeta
  <2>1. /\ wpc = "meta" /\ wpc' = "publish" /\ unsynced' = {}
        /\ slots' = slots /\ durable' = slots
        /\ UNCHANGED <<file, env, committed, new_meta>>
        /\ slots[1 - active] = new_meta /\ slots[active] = committed /\ env = "open"
        /\ new_meta.txn_id = committed.txn_id + 1
    BY <1>t, <1>10 DEF CommitSyncMeta, IStage, ILife, AdvancedMeta
  <2>2. Recoverable' = {Newest(slots'[0], slots'[1])}
    BY <1>t, <2>1, RecoverableSynced DEF SlotOutcomes
  <2>3. Newest(slots[0], slots[1]) = new_meta
    <3>1. CASE active = 0
      BY <1>m, <2>1, <3>1 DEF Newest
    <3>2. CASE active = 1
      BY <1>m, <2>1, <3>2 DEF Newest
    <3> QED
      BY <1>m, <3>1, <3>2
  <2>4. Intact(new_meta.root \cup new_meta.free_list_head) /\ Intact(committed.root)
    BY <1>t, <1>i, <2>1, NewMetaIntact
  <2>5. SurvivesPowerLoss(new_meta)' /\ Intact(committed.root)'
    BY <2>1, <2>4 DEF SurvivesPowerLoss, Intact
  <2> QED
    BY <2>1, <2>2, <2>3, <2>5 DEF IDisk
<1>11. CASE CommitPublish
  <2>1. SurvivesPowerLoss(new_meta) /\ wpc' = "none" /\ UNCHANGED diskVars
        /\ committed' = new_meta
    BY <1>i, <1>11 DEF CommitPublish, DropWrite
  <2>2. Intact(committed'.root)
    BY <2>1 DEF SurvivesPowerLoss, Intact
  <2> QED
    BY <1>2, <2>1, <2>2 DEF Intact
<1>12. CASE Rollback \/ CommitSyncFails \/ CommitSyncMetaFails
  <2>1. wpc' = "none" /\ UNCHANGED <<diskVars, envVars>>
    BY <1>12 DEF Rollback, CommitSyncFails, CommitSyncMetaFails, DropWrite
  <2> QED
    BY <1>2, <1>i, <2>1 DEF Intact
<1>13. CASE CreateFails \/ Kill
  BY <1>2, <1>13 DEF CreateFails, Kill, LoseMemory, Forget, DropWrite
<1>14. CASE PowerLoss
  <2>1. PICK m0 \in SlotOutcomes(0), m1 \in SlotOutcomes(1) :
             slots' = [i \in Slots |-> IF i = 0 THEN m0 ELSE m1]
    BY <1>14 DEF PowerLoss
  <2>2. \A i \in Slots : slots'[i] \in SlotOutcomes(i) /\ durable'[i] = slots'[i]
    BY <1>14, <2>1 DEF PowerLoss, Slots
  <2>3. Recoverable' \subseteq Recoverable
    BY <1>t, <2>2, RecoverableSynced
  <2>4. /\ unsynced' = {} /\ wpc' = "none" /\ env' = "down"
        /\ \A p \in Pages \ unsynced : file'[p] = file[p]
    BY <1>14 DEF PowerLoss, LoseMemory, Forget, DropWrite
  <2>5. ASSUME NEW m \in Recoverable PROVE SurvivesPowerLoss(m)'
    <3>1. m \in Metas
      <4>1. \A i \in Slots : SlotOutcomes(i) \subseteq Metas
        BY <1>t, InitialMetasTyped DEF SlotOutcomes, TypeOK
      <4> QED
        BY <4>1 DEF Recoverable, Newest, Slots
    <3>2. \A e \in m.root \cup m.free_list_head :
              e[1] \in Pages /\ e[1] \in PagesOf(m.root \cup m.free_list_head)
      BY <3>1 DEF Metas, PageSets, PagesOf
    <3> QED
      BY <1>i, <2>4, <3>2 DEF SurvivesPowerLoss, Intact
  <2> QED
    BY <2>3, <2>4, <2>5 DEF IDisk
<1>15. ASSUME NEW r \in Readers, Read(r) PROVE IDisk'
  BY <1>1, <1>15 DEF Read, BeginReadClone, BeginReadRegister, DropRead
<1>16. CASE OpenFails \/ UNCHANGED vars
  BY <1>1, <1>16 DEF OpenFails, vars
<1> QED
  BY <1>3, <1>4, <1>5, <1>6, <1>7, <1>8, <1>9, <1>10, <1>11, <1>12, <1>13, <1>14,
     <1>15, <1>16
  DEF Next, Commit, CommitFails

-------------------------------------------------------------------------------
(* Snapshots.                                                                 *)

(* No step takes a page from a snapshot that was not overtaken.               *)
LEMMA NextReaders == IInv /\ [Next]_vars => IReaders'
<1> SUFFICES ASSUME IInv, [Next]_vars PROVE IReaders'
  OBVIOUS
<1> USE DEF diskVars, envVars, readVars, allocVars, treeVars, fixedVars,
            writeVars, ghostVars
<1>t. TypeOK /\ IMetas /\ ILife /\ IBag /\ IWrite /\ IStage /\ IDisk /\ IReaders
  BY DEF IInv
<1>i. /\ \A r \in Readers : rtx[r].txn_id \in TxnIds /\ rtx[r].root \in PageSets
      /\ committed.txn_id \in Int /\ TxnIds \subseteq Int
      /\ committed.next_page \in Nat
  BY <1>t DEF TypeOK, Metas, TxnIds
<1>1. CASE /\ rtx' = rtx /\ UNCHANGED <<committed, base_txn_id, reclaim_watermark>>
           /\ wpc' = wpc \/ wpc' = "none" \/ wpc # "none"
           /\ risky' = risky
           /\ file' = file
  BY <1>t, <1>1 DEF IReaders, Intact
<1>2. CASE /\ rtx' = rtx /\ wpc' = "none"
           /\ UNCHANGED <<committed, risky, file>>
  BY <1>t, <1>2 DEF IReaders, Intact
<1>3. CASE \A r \in Readers : rtx'[r].pc = "idle"
  BY <1>3 DEF IReaders
<1>4. CASE Create \/ Open
  <2>1. env # "open" /\ rtx' = rtx
    BY <1>4
    DEF Create, CreateFile, CreateWriteSlot, CreateSyncSlot0, CreateSyncSlot1, Open
  <2> QED
    BY <1>3, <1>t, <2>1 DEF ILife
<1>5. CASE CreateFails \/ Kill \/ PowerLoss
  BY <1>3, <1>5 DEF CreateFails, Kill, PowerLoss, LoseMemory, Forget, NoRead
<1>6. ASSUME NEW r \in Readers, BeginReadClone(r) PROVE IReaders'
  <2>1. /\ env = "open" /\ UNCHANGED <<committed, base_txn_id, reclaim_watermark, wpc,
                                        risky, file>>
        /\ \A s \in Readers \ {r} : rtx'[s] = rtx[s]
        /\ rtx'[r].txn_id = committed.txn_id /\ rtx'[r].root = committed.root
    BY <1>t, <1>6 DEF BeginReadClone, TypeOK
  <2>2. Accounted(committed) /\ \A f \in committed.free : f[2] \in FreePages(committed.free)
    BY <1>t DEF IMetas, MetaOK, FreePages
  <2>3. PagesOf(committed.root) \subseteq META_PAGE_COUNT .. (committed.next_page - 1)
    BY <2>2 DEF Accounted
  <2>4. \A f \in committed.free : f[2] \notin PagesOf(committed.root)
    BY <2>2 DEF Accounted
  <2>5. wpc # "none" => base_txn_id = committed.txn_id
    BY <1>t DEF IWrite
  <2>6. ~risky => Intact(committed.root)
    BY <1>t, <2>1 DEF IDisk
  <2>7. committed.txn_id <= committed.txn_id
    BY <1>i
  <2>8. ASSUME NEW s \in Readers, rtx'[s].pc # "idle"
        PROVE  /\ rtx'[s].txn_id <= committed'.txn_id
               /\ ~rtx'[s].late =>
                     /\ PagesOf(rtx'[s].root)
                            \subseteq META_PAGE_COUNT .. (committed'.next_page - 1)
                     /\ \A f \in committed'.free :
                            f[2] \in PagesOf(rtx'[s].root) => f[1] > rtx'[s].txn_id
                     /\ wpc' # "none" => \/ rtx'[s].txn_id = base_txn_id'
                                         \/ reclaim_watermark' <= rtx'[s].txn_id
                     /\ ~risky' => Intact(rtx[s].root)'
    <3>1. CASE s = r
      BY <2>1, <2>3, <2>4, <2>5, <2>6, <2>7, <3>1 DEF Intact
    <3>2. CASE s # r
      BY <1>t, <2>1, <2>8, <3>2 DEF IReaders, Intact
    <3> QED
      BY <3>1, <3>2
  <2> QED
    BY <2>8 DEF IReaders
<1>7. ASSUME NEW r \in Readers, BeginReadRegister(r) \/ DropRead(r) PROVE IReaders'
  <2>1. /\ UNCHANGED <<committed, base_txn_id, reclaim_watermark, wpc, risky, file>>
        /\ \A s \in Readers :
               \/ rtx'[s].pc = "idle"
               \/ /\ rtx[s].pc # "idle" /\ rtx'[s].txn_id = rtx[s].txn_id
                  /\ rtx'[s].root = rtx[s].root /\ rtx'[s].late = rtx[s].late
    BY <1>t, <1>7 DEF BeginReadRegister, DropRead, TypeOK, NoRead
  <2> QED
    BY <1>t, <2>1 DEF IReaders, Intact
<1>8. CASE BeginWrite
  <2>1. /\ UNCHANGED <<committed, file, readers>> /\ (~risky' => ~risky)
        /\ base_txn_id' = committed.txn_id
        /\ IsOldestReader(reclaim_watermark')
    BY <1>8 DEF BeginWrite
  <2>2. \A s \in Readers :
            /\ rtx'[s].pc = rtx[s].pc /\ rtx'[s].txn_id = rtx[s].txn_id
            /\ rtx'[s].root = rtx[s].root
            /\ ~rtx'[s].late => /\ ~rtx[s].late
                                /\ rtx[s].pc = "cloned" => ~(rtx[s].txn_id < committed.txn_id)
    BY <1>t, <1>8 DEF BeginWrite, TypeOK
  <2>3. ASSUME NEW s \in Readers, rtx[s].pc = "open"
        PROVE  reclaim_watermark' <= rtx[s].txn_id
    <3>1. s \in OpenAt(rtx[s].txn_id) /\ IsFiniteSet(OpenAt(rtx[s].txn_id))
      BY <2>3, FS_Subset, EnvironmentAssumption DEF OpenAt
    <3>2. readers[rtx[s].txn_id] > 0
      <4>1. Cardinality(OpenAt(rtx[s].txn_id)) # 0
        BY <3>1, FS_EmptySet
      <4>2. rtx[s].txn_id \in TxnIds /\ readers[rtx[s].txn_id] \in Nat
        BY <1>t, <1>i DEF TypeOK
      <4> QED
        BY <1>t, <4>1, <4>2 DEF IBag
    <3>3. rtx[s].txn_id \in TxnIds /\ readers[rtx[s].txn_id] \in Nat
      BY <1>t, <1>i DEF TypeOK
    <3>4. readers[rtx[s].txn_id] # 0
      BY <3>2, <3>3
    <3> QED
      BY <2>1, <3>2, <3>3, <3>4 DEF IsOldestReader
  <2>4. ASSUME NEW s \in Readers, rtx[s].pc # "idle", ~rtx'[s].late
        PROVE  rtx[s].txn_id = committed.txn_id \/ reclaim_watermark' <= rtx[s].txn_id
    <3>1. rtx[s].pc \in {"cloned", "open"} /\ rtx[s].txn_id <= committed.txn_id
      BY <1>t, <2>4 DEF TypeOK, IReaders
    <3>2. rtx[s].pc = "cloned" => ~(rtx[s].txn_id < committed.txn_id)
      BY <2>2, <2>4, Zenon
    <3>3. rtx[s].txn_id \in Int /\ committed.txn_id \in Int
      BY <1>i
    <3>4. CASE rtx[s].pc = "cloned"
      BY <3>1, <3>2, <3>3, <3>4
    <3>5. CASE rtx[s].pc = "open"
      BY <2>3, <3>5
    <3> QED
      BY <3>1, <3>4, <3>5
  <2> QED
    BY <1>t, <2>1, <2>2, <2>4 DEF IReaders, Intact
<1>9. CASE Edit \/ CommitWrite \/ CommitWriteFails
  <2>1. PICK W \in SUBSET Pages :
             /\ \A r \in Readers : rtx[r].pc # "idle" /\ ~rtx[r].late
                                   => W \cap PagesOf(rtx[r].root) = {}
             /\ \A p \in Pages \ W : file'[p] = file[p]
    BY <1>9, FreshWrites
  <2>2. /\ UNCHANGED <<rtx, committed, risky>>
        /\ \/ wpc' = "none"
           \/ UNCHANGED <<base_txn_id, reclaim_watermark>> /\ wpc # "none"
    BY <1>9
    DEF Edit, CowNode, RetireNode, RetireOverflow, NewNode, StoreOverflow,
        EditUnchanged, CommitWrite, CommitWriteFails, DropWrite
  <2>3. ASSUME NEW r \in Readers, rtx[r].pc # "idle", ~rtx[r].late, Intact(rtx[r].root)
        PROVE  Intact(rtx[r].root)'
    <3>1. \A e \in rtx[r].root : e[1] \in Pages /\ e[1] \in PagesOf(rtx[r].root)
      BY <1>i DEF PageSets, PagesOf
    <3> QED
      BY <2>1, <2>2, <2>3, <3>1 DEF Intact
  <2> QED
    BY <1>t, <2>2, <2>3 DEF IReaders
<1>10. CASE CommitPublish
  <2>1. /\ rtx' = rtx /\ wpc' = "none" /\ UNCHANGED <<risky, file>>
        /\ committed' = AdvancedMeta /\ wpc # "none"
    BY <1>t, <1>10 DEF CommitPublish, DropWrite, IStage
  <2>2. /\ base_txn_id = committed.txn_id /\ next_page \in Nat
        /\ committed.next_page <= next_page /\ free_list \subseteq committed.free
    BY <1>t, <2>1 DEF IWrite, TypeOK
  <2>3. AdvancedMeta.txn_id = committed.txn_id + 1 /\ AdvancedMeta.free = FreedList
    BY DEF AdvancedMeta
  <2>4. AdvancedMeta.next_page \in Nat /\ committed.next_page <= AdvancedMeta.next_page
    <3>1. FreedList \in FreeLists
      <4>1. committed' \in Metas
        BY NextTypeOK DEF TypeOK
      <4> QED
        BY <2>1, <2>3, <4>1 DEF Metas
    <3>2. ChainLength(Cardinality(FreedList)) \in Nat
      BY <3>1, FreeListFinite, ChainLengthNat
    <3> QED
      BY <1>i, <2>2, <3>2 DEF AdvancedMeta
  <2>5. \A f \in FreedList : f \in committed.free \/ f[1] = committed.txn_id + 1
    BY <2>2 DEF FreedList
  <2>6. ASSUME NEW r \in Readers, rtx[r].pc # "idle"
        PROVE  /\ rtx[r].txn_id <= AdvancedMeta.txn_id
               /\ ~rtx[r].late =>
                     /\ PagesOf(rtx[r].root)
                            \subseteq META_PAGE_COUNT .. (AdvancedMeta.next_page - 1)
                     /\ \A f \in AdvancedMeta.free :
                            f[2] \in PagesOf(rtx[r].root) => f[1] > rtx[r].txn_id
    <3>1. rtx[r].txn_id <= committed.txn_id /\ rtx[r].txn_id \in Int
      BY <1>t, <1>i, <2>6 DEF IReaders
    <3>2. rtx[r].txn_id <= AdvancedMeta.txn_id /\ committed.txn_id + 1 > rtx[r].txn_id
      BY <1>i, <2>3, <3>1
    <3>3. META_PAGE_COUNT .. (committed.next_page - 1)
              \subseteq META_PAGE_COUNT .. (AdvancedMeta.next_page - 1)
      BY <1>i, <2>4 DEF META_PAGE_COUNT
    <3> QED
      BY <1>t, <2>3, <2>5, <2>6, <3>2, <3>3 DEF IReaders
  <2> QED
    BY <1>t, <2>1, <2>6 DEF IReaders, Intact
<1>11. CASE \/ Rollback \/ CommitSyncFails \/ CommitWriteMetaFails
            \/ CommitSyncMetaFails
  BY <1>2, <1>11
  DEF Rollback, CommitSyncFails, CommitWriteMetaFails, CommitSyncMetaFails, DropWrite
<1>12. CASE CommitSync \/ CommitWriteMeta \/ CommitSyncMeta
  BY <1>1, <1>12 DEF CommitSync, CommitWriteMeta, CommitSyncMeta
<1>13. CASE OpenFails \/ UNCHANGED vars
  BY <1>1, <1>13 DEF OpenFails, vars
<1> QED
  BY <1>4, <1>5, <1>6, <1>7, <1>8, <1>9, <1>10, <1>11, <1>12, <1>13
  DEF Next, Read, Commit, CommitFails

-------------------------------------------------------------------------------
(* The inductive invariant and its consequences.                              *)

(* Init establishes the inductive invariant.                                  *)
LEMMA InitInvariant == Init => IInv
<1> SUFFICES ASSUME Init PROVE IInv
  OBVIOUS
<1>1. TypeOK
  BY InitTypeOK
<1>2. IMetas
  BY InitialMetasOK DEF Init, IMetas
<1>3. ILife
  BY DEF Init, ILife, NoRead
<1>4. IBag
  <2>1. \A t \in TxnIds : OpenAt(t) = {} /\ readers[t] = 0
    BY DEF Init, OpenAt, NoRead
  <2> QED
    BY <2>1, FS_EmptySet DEF IBag
<1>5. IWrite /\ IStage
  BY DEF Init, IWrite, IStage
<1>6. Recoverable = {NoMeta}
  BY DEF Init, Recoverable, SlotOutcomes, Newest, Slots
<1>7. IDisk
  BY <1>6 DEF Init, IDisk, SurvivesPowerLoss, Intact, PagesOf, NoMeta
<1>8. IAck
  BY <1>6 DEF Init, IAck, AckedDurable
<1>9. IReaders
  BY DEF Init, IReaders, NoRead
<1> QED
  BY <1>1, <1>2, <1>3, <1>4, <1>5, <1>7, <1>8, <1>9 DEF IInv

(* IInv is an invariant of the storage engine's transaction protocol.         *)
THEOREM Invariance == Spec => []IInv
<1>1. Init => IInv
  BY InitInvariant
<1>2. IInv /\ [Next]_vars => IInv'
  BY NextTypeOK, NextMetas, NextLife, NextBag, NextWrite, NextStage, NextDisk,
     NextAck, NextReaders
  DEF IInv
<1> QED
  BY <1>1, <1>2, PTL DEF Spec

(* Every variable keeps its type; with it, the bag of registered readers      *)
(* never underflows and no txn id passes its bound.                           *)
THEOREM TypeCorrectness == Spec => []TypeOK
<1>1. IInv => TypeOK
  BY DEF IInv
<1> QED
  BY <1>1, Invariance, PTL

(* storage/txn.rs's snapshot promise, for every reader that begin_read        *)
(* registered before a writer with a newer base began, in every store whose   *)
(* writers began settled.                                                     *)
THEOREM SnapshotIsolation == Spec => []TimelySnapshotIntact
<1>1. IInv => TimelySnapshotIntact
  BY DEF IInv, IReaders, TimelySnapshotIntact
<1> QED
  BY <1>1, Invariance, PTL

(* Whatever commit() or a crash left behind, the meta that Pager::open        *)
(* chooses reaches only complete pages, in every store whose writers began    *)
(* settled.                                                                   *)
THEOREM CrashSafety == Spec => []RecoveryIntact
<1>1. IInv => RecoveryIntact
  BY DEF IInv, IDisk, RecoveryIntact
<1> QED
  BY <1>1, Invariance, PTL

(* A commit() that returned Ok survives every kill, power failure and I/O     *)
(* error, also those after which the store is not settled.                    *)
THEOREM Durability == Spec => []AckedDurable
<1>1. IInv => AckedDurable
  BY DEF IInv, IAck
<1> QED
  BY <1>1, Invariance, PTL

(* No page leaks from, and none is in two of, the tree, the free list and     *)
(* the free-list chains, for the committed meta and for the one in progress.  *)
THEOREM NoPageLeak == Spec => []PageAccounting
<1>1. IInv => PageAccounting
  BY DEF IInv, IMetas, MetaOK, PageAccounting
<1> QED
  BY <1>1, Invariance, PTL

(* Copy on write: btree.rs's "nodes reachable from an already-committed root  *)
(* are never mutated in place", for every step of an open store and whatever  *)
(* went wrong before it.                                                      *)
THEOREM CopyOnWrite == Spec => CommittedPagesImmutable
<1> DEFINE Kept == env = "open" /\ env' = "open" =>
                      \A e \in committed.root \cup committed.free_list_head :
                          file'[e[1]] = file[e[1]]
<1>1. IInv /\ [Next]_vars => [Kept]_vars
  <2> SUFFICES ASSUME IInv, Next, env = "open", env' = "open",
                      NEW e \in committed.root \cup committed.free_list_head
               PROVE  file'[e[1]] = file[e[1]]
    OBVIOUS
  <2>1. e[1] \in Pages /\ (\/ e[1] \in PagesOf(committed.root)
                           \/ e[1] \in PagesOf(committed.free_list_head))
    BY DEF IInv, TypeOK, Metas, PageSets, PagesOf
  <2>2. CASE Edit \/ CommitWrite \/ CommitWriteFails
    BY <2>1, <2>2, FreshWrites
  <2>3. CASE file' = file
    BY <2>3
  <2>4. CASE CreateFails \/ Kill \/ PowerLoss
    BY <2>4 DEF CreateFails, Kill, PowerLoss, LoseMemory, Forget
  <2>5. ASSUME NEW r \in Readers, Read(r) PROVE file' = file
    BY <2>5 DEF Read, BeginReadClone, BeginReadRegister, DropRead, diskVars
  <2> QED
    BY <2>2, <2>3, <2>4, <2>5
    DEF Next, Create, CreateFile, CreateWriteSlot, CreateSyncSlot0, CreateSyncSlot1,
        Open, OpenFails, vars, BeginWrite, Rollback, Commit, CommitSync,
        CommitWriteMeta, CommitSyncMeta, CommitPublish, CommitFails,
        CommitSyncFails, CommitWriteMetaFails, CommitSyncMetaFails, diskVars
<1> QED
  BY <1>1, Invariance, PTL DEF Spec, CommittedPagesImmutable

-------------------------------------------------------------------------------
(* Crash safety without a condition, when the machine may stop at any moment  *)
(* and nothing else goes wrong: the store is settled whenever a writer        *)
(* begins, because every open after a power failure finds both slots synced.  *)

(* Slot content m does not compete with the committed meta.                   *)
Behind(m) == m.txn_id < committed.txn_id \/ m = committed

(* What IInv lacks: no writer has begun unsettled, the store is settled       *)
(* between transactions, and after a power failure the slots are durable and  *)
(* two metas with one txn id are one meta.                                    *)
ISettled ==
    /\ ~risky
    /\ env = "open" /\ wpc = "none" => Settled
    /\ wpc = "meta" => Behind(durable[1 - active])
    /\ env = "down" => /\ durable = slots
                       /\ slots[0].txn_id = slots[1].txn_id => slots[0] = slots[1]

(* The txn ids that Pager::open compares are integers.                        *)
LEMMA TxnIdsInt ==
    ASSUME TypeOK
    PROVE  /\ committed.txn_id \in Int /\ new_meta.txn_id \in Int
           /\ \A i \in Slots : slots[i].txn_id \in Int /\ durable[i].txn_id \in Int
           /\ NoMeta.txn_id = -1 /\ InitMeta.txn_id = 0
<1>1. \A m \in Metas : m.txn_id \in Int
  BY DEF Metas, TxnIds
<1> QED
  BY <1>1 DEF TypeOK, NoMeta, InitMeta

(* Whatever a power failure leaves in the two slots, two slots with one txn   *)
(* id hold one meta: Pager::open's choice by txn id alone is no guess.        *)
LEMMA OutcomesDistinct ==
    ASSUME IInv, ISettled, env # "absent",
           NEW m0 \in SlotOutcomes(0), NEW m1 \in SlotOutcomes(1),
           m0.txn_id = m1.txn_id
    PROVE  m0 = m1
<1>t. TypeOK /\ ILife /\ IStage /\ IDisk
  BY DEF IInv
<1>i. /\ committed.txn_id \in Int /\ new_meta.txn_id \in Int
      /\ \A i \in Slots : slots[i].txn_id \in Int /\ durable[i].txn_id \in Int
      /\ NoMeta.txn_id = -1 /\ InitMeta.txn_id = 0
  BY <1>t, TxnIdsInt
<1>s. active \in {0, 1} /\ Slots = {0, 1}
  BY <1>t DEF TypeOK, Slots
<1>1. CASE env \notin {"open", "down"}
  <2>1. m0 \in {NoMeta, InitMeta} /\ m1 \in {NoMeta, InitMeta}
    BY <1>t, <1>s, <1>1 DEF ILife, SlotOutcomes
  <2> QED
    BY <2>1, <1>i
<1>2. CASE env = "down"
  BY <1>2, <1>s DEF ISettled, SlotOutcomes
<1>3. CASE env = "open" /\ wpc \in {"none", "work", "written", "synced"}
  <2>1. Settled /\ committed.txn_id >= 0
    BY <1>t, <1>3 DEF ISettled, IDisk, ILife
  <2>2. SlotOutcomes(active) = {committed}
    BY <2>1 DEF Settled, SlotOutcomes
  <2>3. \A m \in SlotOutcomes(1 - active) : m.txn_id = committed.txn_id => m = committed
    BY <2>1, <1>i DEF Settled, SlotOutcomes
  <2> QED
    BY <2>2, <2>3, <1>s
<1>4. CASE env = "open" /\ wpc = "meta"
  <2>1. /\ slots[1 - active] = new_meta /\ durable[active] = committed
        /\ slots[active] = committed /\ Behind(durable[1 - active])
        /\ committed.txn_id >= 0 /\ new_meta.txn_id = committed.txn_id + 1
    BY <1>t, <1>4 DEF IStage, ISettled, ILife, AdvancedMeta
  <2>2. SlotOutcomes(active) = {committed}
    BY <2>1 DEF SlotOutcomes
  <2>3. \A m \in SlotOutcomes(1 - active) : m.txn_id = committed.txn_id => m = committed
    BY <2>1, <1>i DEF SlotOutcomes, Behind
  <2> QED
    BY <2>2, <2>3, <1>s
<1>5. CASE env = "open" /\ wpc = "publish"
  <2>1. /\ durable = slots /\ slots[active] = new_meta /\ slots[1 - active] = committed
        /\ new_meta.txn_id = committed.txn_id + 1
    BY <1>t, <1>5 DEF IStage, AdvancedMeta
  <2>2. SlotOutcomes(active) = {new_meta} /\ SlotOutcomes(1 - active) = {committed}
    BY <2>1 DEF SlotOutcomes
  <2> QED
    BY <2>1, <2>2, <1>s, <1>i
<1> QED
  BY <1>t, <1>1, <1>2, <1>3, <1>4, <1>5 DEF TypeOK

(* The slot a store was opened from is settled.                               *)
LEMMA OpenSettles ==
    ASSUME IInv, ISettled, Open
    PROVE  Settled'
<1>1. TypeOK /\ durable = slots
      /\ (slots[0].txn_id = slots[1].txn_id => slots[0] = slots[1])
  BY DEF IInv, ISettled, Open
<1>2. slots[0].txn_id \in Int /\ slots[1].txn_id \in Int
  BY <1>1, TxnIdsInt DEF Slots
<1>3. UNCHANGED <<slots, durable>>
  BY DEF Open, diskVars
<1>4. CASE slots[0].txn_id >= slots[1].txn_id
  BY <1>1, <1>2, <1>3, <1>4 DEF Open, Newest, NewestSlot, Settled
<1>5. CASE ~(slots[0].txn_id >= slots[1].txn_id)
  BY <1>1, <1>2, <1>3, <1>5 DEF Open, Newest, NewestSlot, Settled
<1> QED
  BY <1>4, <1>5

(* Every step keeps the store settled, if no call fails and nobody kills the  *)
(* process.                                                                   *)
LEMMA NextSettled ==
    ASSUME Faults \subseteq {"power"}, IInv, ISettled, [Next]_vars
    PROVE  ISettled'
<1>t. TypeOK /\ ILife /\ IStage /\ IDisk
  BY DEF IInv
<1>i. /\ committed.txn_id \in Int /\ new_meta.txn_id \in Int
      /\ \A i \in Slots : slots[i].txn_id \in Int /\ durable[i].txn_id \in Int
  BY <1>t, TxnIdsInt
<1>s. active \in {0, 1} /\ Slots = {0, 1}
  BY <1>t DEF TypeOK, Slots
<1> USE DEF diskVars, envVars, readVars, allocVars, treeVars, fixedVars, writeVars,
            ghostVars
<1>1. CASE UNCHANGED <<slots, durable, env, active, committed, wpc, risky>>
  BY <1>1 DEF ISettled, Settled, Behind
<1>2. CASE Create
  <2>1. CASE CreateSyncSlot1
    BY <2>1, <1>t DEF CreateSyncSlot1, ILife, ISettled, Settled
  <2>2. wpc = "none"
    BY <1>t, <1>2 DEF Create, CreateFile, CreateWriteSlot, CreateSyncSlot0,
                      CreateSyncSlot1, ILife, TypeOK
  <2> QED
    BY <1>2, <2>1, <2>2
    DEF Create, CreateFile, CreateWriteSlot, CreateSyncSlot0, ISettled
<1>3. CASE Open
  <2>1. wpc = "none" /\ env' = "open" /\ UNCHANGED <<wpc, risky>>
    BY <1>t, <1>3 DEF Open, ILife
  <2> QED
    BY <1>3, <2>1, OpenSettles DEF ISettled
<1>4. CASE BeginWrite
  BY <1>4, <1>t DEF BeginWrite, ISettled, TypeOK
<1>5. CASE Rollback
  <2>1. Settled /\ wpc' = "none" /\ UNCHANGED <<slots, durable, env, active, committed, risky>>
    BY <1>5, <1>t DEF Rollback, DropWrite, IDisk, ISettled
  <2> QED
    BY <1>5, <1>t, <2>1 DEF Rollback, ISettled, Settled, ILife
<1>6. CASE Commit
  <2>1. env = "open" /\ env' = "open" /\ ~risky'
    BY <1>6, <1>t DEF Commit, CommitWrite, CommitSync, CommitWriteMeta,
                      CommitSyncMeta, CommitPublish, ILife, ISettled
  <2>2. CASE CommitWriteMeta
    BY <2>1, <2>2, <1>t, <1>s DEF CommitWriteMeta, IDisk, Settled, ISettled, Behind
  <2>3. CASE CommitPublish
    <3>1. /\ durable = slots /\ slots[active] = new_meta /\ slots[1 - active] = committed
          /\ new_meta.txn_id = committed.txn_id + 1
      BY <1>t, <2>3 DEF IStage, AdvancedMeta, CommitPublish
    <3> QED
      BY <2>1, <2>3, <3>1, <1>i DEF CommitPublish, DropWrite, ISettled, Settled
  <2> QED
    BY <1>6, <2>1, <2>2, <2>3
    DEF Commit, CommitWrite, CommitSync, CommitSyncMeta, ISettled
<1>7. CASE PowerLoss
  <2>1. env' = "down" /\ wpc' = "none" /\ ~risky' /\ durable' = slots' /\ env # "absent"
    BY <1>7 DEF PowerLoss, LoseMemory, Forget, DropWrite, ISettled
  <2>2. PICK m0 \in SlotOutcomes(0), m1 \in SlotOutcomes(1) :
            slots' = [i \in Slots |-> IF i = 0 THEN m0 ELSE m1]
    BY <1>7 DEF PowerLoss
  <2>3. slots'[0] = m0 /\ slots'[1] = m1
    BY <2>2, <1>s
  <2>4. slots'[0].txn_id = slots'[1].txn_id => slots'[0] = slots'[1]
    BY <2>1, <2>3, OutcomesDistinct
  <2> QED
    BY <2>1, <2>4 DEF ISettled
<1>8. ~CommitFails /\ ~CreateFails /\ ~Kill
  BY DEF CommitFails, CommitWriteFails, CommitSyncFails, CommitWriteMetaFails,
         CommitSyncMetaFails, CreateFails, Kill
<1>9. CASE Edit
  BY <1>9, <1>1 DEF Edit, CowNode, RetireNode, RetireOverflow, NewNode,
                    StoreOverflow, EditUnchanged
<1>10. ASSUME NEW r \in Readers, Read(r) PROVE ISettled'
  BY <1>10, <1>1 DEF Read, BeginReadClone, BeginReadRegister, DropRead
<1> QED
  BY <1>1, <1>2, <1>3, <1>4, <1>5, <1>6, <1>7, <1>8, <1>9, <1>10
  DEF Next, OpenFails, vars

(* README's crash safety outright: if the machine may stop at any point of    *)
(* any commit, of creating the store or of reopening it, as often as it       *)
(* likes, and no call returns an I/O error, then the meta that Pager::open    *)
(* chooses has all its pages.                                                 *)
THEOREM PowerSafety ==
    ASSUME Faults \subseteq {"power"}
    PROVE  Spec => []RecoverySafe
<1>1. Init => ISettled
  BY DEF Init, ISettled
<1>2. IInv /\ ISettled /\ [Next]_vars => ISettled'
  BY NextSettled
<1>3. IInv /\ ISettled => RecoverySafe
  BY DEF IInv, IDisk, ISettled, RecoverySafe
<1> QED
  BY <1>1, <1>2, <1>3, Invariance, PTL DEF Spec

===============================================================================
