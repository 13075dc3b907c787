------------------------------ MODULE Environment ------------------------------
(******************************************************************************)
(* The transaction protocol of the storage engine: Environment, ReadTxn and   *)
(* WriteTxn (storage/txn.rs), the two meta slots of the Pager                 *)
(* (storage/pager.rs), the persisted free list (storage/freelist.rs) and the  *)
(* page allocator of btree::Ctx (storage/btree.rs).                           *)
(*                                                                            *)
(* The tree is kept at page granularity.  A root is the set of the pages      *)
(* reachable from it, each with the content its writer gave it: a set of      *)
(* pairs <<page, stamp>>, where the stamp <<attempt, kind>> names the write   *)
(* transaction that wrote the page and what it wrote there (a node, a chunk   *)
(* of an overflow chain, a chunk of the free list).  A snapshot is intact iff *)
(* the file still holds that stamp in each of its pages.  put and delete are  *)
(* the sequences of page operations they are made of: every sequence of       *)
(* Ctx::alloc / mark_obsolete / retire / store_value / retire_value steps is  *)
(* a behaviour, the ones insert_rec and delete_rec perform included.          *)
(*                                                                            *)
(* The file is what reads return (the page cache); unsynced and durable say   *)
(* which part of it a power failure may take away.                            *)
(******************************************************************************)
EXTENDS Integers, FiniteSets

CONSTANTS
    Readers,      \* threads that open read transactions
    MaxPage,      \* the last page number of the file (bound)
    MaxAttempts,  \* number of write transactions begun (bound)
    MaxCrashes,   \* number of kills and power failures (bound)
    CHUNK,        \* free-list entries per free-list page
    Faults        \* subset of {"io", "kill", "power"}

(* Threads are finitely many; the file has at least the page after the two    *)
(* meta slots; freelist::CHUNK is positive.                                   *)
ASSUME EnvironmentAssumption ==
    /\ IsFiniteSet(Readers)
    /\ MaxPage \in Nat /\ MaxPage >= 2
    /\ MaxAttempts \in Nat
    /\ MaxCrashes \in Nat
    /\ CHUNK \in Nat \ {0}
    /\ Faults \subseteq {"io", "kill", "power"}

META_PAGE_COUNT == 2
Pages    == META_PAGE_COUNT .. MaxPage
Slots    == {0, 1}
TxnIds   == 0 .. MaxAttempts
NoLimit  == MaxAttempts + 1            \* u64::MAX, above every txn id
Kinds    == {"node", "overflow", "free", "torn"}
Stamps   == (0 .. MaxAttempts) \X Kinds
Torn     == <<0, "torn">>              \* bytes no decode_page accepts
PageSets == SUBSET (Pages \X Stamps)   \* pages with the content expected there
FreeLists == SUBSET (TxnIds \X Pages)  \* entries (freed_at, page)

(* pager::Meta.  root and free_list_head stand for all the pages reachable    *)
(* from them; free is the list that loading that chain yields, and chains     *)
(* remembers every page any free list up to this one was stored in.           *)
Metas == [txn_id : {-1} \cup TxnIds, root : PageSets, next_page : Nat,
          free_list_head : PageSets, free : FreeLists, chains : SUBSET Pages]

(* A slot that Meta::decode rejects: zeroes, or a torn write.                 *)
NoMeta == [txn_id |-> -1, root |-> {}, next_page |-> META_PAGE_COUNT,
           free_list_head |-> {}, free |-> {}, chains |-> {}]

InitMeta == [txn_id |-> 0, root |-> {}, next_page |-> META_PAGE_COUNT,
             free_list_head |-> {}, free |-> {}, chains |-> {}]

VARIABLES
    file,         \* content of each data page, as read_page returns it
    unsynced,     \* data pages written since the last sync_data
    slots,        \* the two meta slots, as read_meta_slot decodes them
    durable,      \* the meta slots on stable storage
    env,          \* "absent", the steps of creating the file, "open", "down"
    active,       \* Pager::active_meta_slot
    committed,    \* Environment::committed
    readers,      \* Environment::readers: how often each txn id is registered
    rtx,          \* the ReadTxn of each reader thread
    wpc,          \* where the write transaction is; "none": lock is free
    base_txn_id, root, next_page, overlay, free_list, obsolete, scratch_pool,
    reclaim_watermark,   \* the fields of WriteTxn
    new_meta,     \* the meta page commit() is about to publish
    attempt,      \* number of write transactions begun so far
    crashes,      \* number of crashes so far
    acked,        \* history: the last meta whose commit returned Ok
    risky         \* history: see Settled

diskVars   == <<file, unsynced, slots, durable>>
envVars    == <<env, active, committed>>
readVars   == <<readers, rtx>>
allocVars  == <<next_page, free_list, scratch_pool>>
treeVars   == <<root, overlay, obsolete>>
fixedVars  == <<base_txn_id, reclaim_watermark>>
writeVars  == <<wpc, fixedVars, allocVars, treeVars, new_meta>>
ghostVars  == <<attempt, crashes, acked, risky>>
vars == <<diskVars, envVars, readVars, writeVars, ghostVars>>

NoRead == [pc |-> "idle", txn_id |-> 0, root |-> {}, late |-> FALSE]

-------------------------------------------------------------------------------
(* Derived state.                                                             *)

PagesOf(tree)   == {e[1] : e \in tree}
FreePages(free) == {e[2] : e \in free}

(* Every page of the tree still holds what was written there for it.          *)
Intact(tree) == \A e \in tree : file[e[1]] = e[2]

(* Pager::open's choice between the slots; one that does not decode counts    *)
(* as txn_id -1, below every real one.                                        *)
Newest(m0, m1) == IF m0.txn_id >= m1.txn_id THEN m0 ELSE m1
NewestSlot(m0, m1) == IF m0.txn_id >= m1.txn_id THEN 0 ELSE 1

(* What a power failure may leave in slot i: an unsynced write may have       *)
(* reached the disk, not reached it, or be torn.                              *)
SlotOutcomes(i) ==
    {slots[i], durable[i]} \cup (IF slots[i] = durable[i] THEN {} ELSE {NoMeta})

(* The metas that opening the file after a power failure could choose.        *)
Recoverable ==
    {Newest(m0, m1) : m0 \in SlotOutcomes(0), m1 \in SlotOutcomes(1)}

(* The active slot holds the committed meta durably, and no other meta that   *)
(* a later open could prefer to it.                                           *)
Settled ==
    /\ slots[active] = committed /\ durable[active] = committed
    /\ \A m \in {slots[1 - active], durable[1 - active]} :
           m.txn_id < committed.txn_id \/ m = committed

-------------------------------------------------------------------------------
Init ==
    /\ file = [p \in Pages |-> Torn] /\ unsynced = {}
    /\ slots = [i \in Slots |-> NoMeta] /\ durable = [i \in Slots |-> NoMeta]
    /\ env = "absent" /\ active = 0 /\ committed = NoMeta
    /\ readers = [t \in TxnIds |-> 0]
    /\ rtx = [r \in Readers |-> NoRead]
    /\ wpc = "none" /\ base_txn_id = 0 /\ root = {} /\ next_page = 0
    /\ overlay = {} /\ free_list = {} /\ obsolete = {} /\ scratch_pool = {}
    /\ reclaim_watermark = 0 /\ new_meta = NoMeta
    /\ attempt = 0 /\ crashes = 0 /\ acked = NoMeta /\ risky = FALSE

(* Pager::open on a path that does not exist: create the file, then write     *)
(* and sync slot 0, then slot 1.                                              *)
CreateFile ==
    /\ env = "absent"
    /\ env' = "write0"
    /\ UNCHANGED <<diskVars, active, committed, readVars, writeVars, ghostVars>>

CreateWriteSlot(i) ==
    /\ env = IF i = 0 THEN "write0" ELSE "write1"
    /\ slots' = [slots EXCEPT ![i] = InitMeta]
    /\ env' = IF i = 0 THEN "sync0" ELSE "sync1"
    /\ UNCHANGED <<file, unsynced, durable, active, committed, readVars,
                   writeVars, ghostVars>>

CreateSyncSlot0 ==
    /\ env = "sync0"
    /\ durable' = slots
    /\ env' = "write1"
    /\ UNCHANGED <<file, unsynced, slots, active, committed, readVars,
                   writeVars, ghostVars>>

CreateSyncSlot1 ==
    /\ env = "sync1"
    /\ durable' = slots
    /\ env' = "open" /\ active' = 0 /\ committed' = InitMeta
    /\ acked' = InitMeta
    /\ UNCHANGED <<file, unsynced, slots, readVars, writeVars, attempt, crashes,
                   risky>>

(* Pager::open on an existing file: the valid slot with the higher txn id.    *)
Open ==
    /\ env = "down"
    /\ Newest(slots[0], slots[1]) # NoMeta
    /\ committed' = Newest(slots[0], slots[1])
    /\ active' = NewestSlot(slots[0], slots[1])
    /\ env' = "open"
    /\ UNCHANGED <<diskVars, readVars, writeVars, ghostVars>>

(* ... and its error return when no slot decodes.                             *)
OpenFails ==
    /\ env = "down"
    /\ Newest(slots[0], slots[1]) = NoMeta
    /\ UNCHANGED vars

-------------------------------------------------------------------------------
(* Readers.                                                                   *)

(* begin_read, first half: clone the committed meta under its read lock.      *)
BeginReadClone(r) ==
    /\ env = "open" /\ rtx[r].pc = "idle"
    /\ rtx' = [rtx EXCEPT ![r] = [pc |-> "cloned", txn_id |-> committed.txn_id,
                                  root |-> committed.root, late |-> FALSE]]
    /\ UNCHANGED <<diskVars, envVars, readers, writeVars, ghostVars>>

(* begin_read, second half: register the snapshot under the readers lock.     *)
BeginReadRegister(r) ==
    /\ rtx[r].pc = "cloned"
    /\ readers' = [readers EXCEPT ![rtx[r].txn_id] = @ + 1]
    /\ rtx' = [rtx EXCEPT ![r].pc = "open"]
    /\ UNCHANGED <<diskVars, envVars, writeVars, ghostVars>>

(* Mutant of DropRead: a snapshot that was never registered is deregistered.  *)
DropReadUnregistered(r) ==
    /\ rtx[r].pc # "idle"
    /\ readers' = [readers EXCEPT ![rtx[r].txn_id] = @ - 1]
    /\ rtx' = [rtx EXCEPT ![r] = NoRead]
    /\ UNCHANGED <<diskVars, envVars, writeVars, ghostVars>>

(* Drop for ReadTxn: one registration of this txn id is removed.              *)
DropRead(r) ==
    /\ rtx[r].pc = "open"
    /\ readers' = [readers EXCEPT ![rtx[r].txn_id] = @ - 1]
    /\ rtx' = [rtx EXCEPT ![r] = NoRead]
    /\ UNCHANGED <<diskVars, envVars, writeVars, ghostVars>>

-------------------------------------------------------------------------------
(* The write transaction.                                                     *)

(* Mutant of IsOldestReader: max() for min().                                 *)
IsNewestReader(t) ==
    \/ /\ t = NoLimit
       /\ \A u \in TxnIds : readers[u] = 0
    \/ /\ t \in TxnIds /\ readers[t] > 0
       /\ \A u \in TxnIds : readers[u] > 0 => t >= u

(* oldest_reader_txn_id().unwrap_or(u64::MAX)                                 *)
IsOldestReader(t) ==
    \/ /\ t = NoLimit
       /\ \A u \in TxnIds : readers[u] = 0
    \/ /\ t \in TxnIds /\ readers[t] > 0
       /\ \A u \in TxnIds : readers[u] > 0 => t <= u

(* begin_write: take the writer lock, snapshot the committed meta, fix the    *)
(* watermark, load the free list.  History: a reader that has cloned an       *)
(* older meta and not registered it yet is overtaken (late).                  *)
BeginWrite ==
    /\ env = "open" /\ wpc = "none"
    /\ attempt < MaxAttempts
    /\ wpc' = "work"
    /\ base_txn_id' = committed.txn_id
    /\ root' = committed.root /\ next_page' = committed.next_page
    /\ free_list' = committed.free
    /\ overlay' = {} /\ obsolete' = {} /\ scratch_pool' = {}
    /\ \E t \in TxnIds \cup {NoLimit} :
           IsOldestReader(t) /\ reclaim_watermark' = t
    /\ new_meta' = NoMeta
    /\ attempt' = attempt + 1
    /\ rtx' = [r \in Readers |->
                 [rtx[r] EXCEPT !.late = @ \/ /\ rtx[r].pc = "cloned"
                                              /\ rtx[r].txn_id < committed.txn_id]]
    /\ risky' = (risky \/ ~Settled)
    /\ UNCHANGED <<diskVars, envVars, readers, crashes, acked>>

Reclaimable == {f \in free_list : f[1] <= reclaim_watermark}

(* Ctx::alloc hands out q: a page this transaction retired, else a free page  *)
(* at or under the watermark, else a page past the end of the file.           *)
Alloc(q) ==
    \/ /\ q \in scratch_pool
       /\ scratch_pool' = scratch_pool \ {q}
       /\ UNCHANGED <<free_list, next_page>>
    \/ /\ scratch_pool = {}
       /\ \E f \in Reclaimable : f[2] = q /\ free_list' = free_list \ {f}
       /\ UNCHANGED <<scratch_pool, next_page>>
    \/ /\ scratch_pool = {} /\ Reclaimable = {}
       /\ q = next_page /\ next_page <= MaxPage
       /\ next_page' = next_page + 1
       /\ UNCHANGED <<scratch_pool, free_list>>

Own(kind) == <<attempt, kind>>

EditUnchanged == UNCHANGED <<envVars, readVars, wpc, fixedVars, new_meta, ghostVars>>

(* insert_rec, delete_rec: a committed node on the path is replaced by a      *)
(* copy.  (A node already in the overlay is edited in place: no step.)        *)
CowNode(e) ==
    /\ wpc = "work"
    /\ e \in root /\ e[2][2] = "node" /\ e[1] \notin overlay
    /\ \E q \in Pages :
           /\ Alloc(q)
           /\ overlay' = overlay \cup {q}
           /\ root' = (root \ {e}) \cup {<<q, Own("node")>>}
    /\ obsolete' = obsolete \cup {e[1]}
    /\ UNCHANGED diskVars /\ EditUnchanged

(* put, insert_rec, delete_rec: a first leaf, the right half of a split, a    *)
(* new root over a split, the node a merge makes.                             *)
NewNode ==
    /\ wpc = "work"
    /\ \E q \in Pages :
           /\ Alloc(q)
           /\ overlay' = overlay \cup {q}
           /\ root' = root \cup {<<q, Own("node")>>}
    /\ UNCHANGED <<obsolete, diskVars>> /\ EditUnchanged

(* Ctx::retire: a node discarded by a merge or by finalize_root.              *)
RetireNode(e) ==
    /\ wpc = "work"
    /\ e \in root /\ e[2][2] = "node"
    /\ root' = root \ {e}
    /\ \/ /\ e[1] \in overlay
          /\ overlay' = overlay \ {e[1]}
          /\ scratch_pool' = scratch_pool \cup {e[1]}
          /\ UNCHANGED obsolete
       \/ /\ e[1] \notin overlay
          /\ obsolete' = obsolete \cup {e[1]}
          /\ UNCHANGED <<overlay, scratch_pool>>
    /\ UNCHANGED <<free_list, next_page, diskVars>> /\ EditUnchanged

(* Ctx::store_value: one chunk of an overflow chain, written at once.         *)
StoreOverflow ==
    /\ wpc = "work"
    /\ \E q \in Pages :
           /\ Alloc(q)
           /\ file' = [file EXCEPT ![q] = Own("overflow")]
           /\ unsynced' = unsynced \cup {q}
           /\ root' = root \cup {<<q, Own("overflow")>>}
    /\ UNCHANGED <<overlay, obsolete, slots, durable>> /\ EditUnchanged

(* Mutant of RetireOverflow: the page is handed out again at once.            *)
RetireOverflowToPool(e) ==
    /\ wpc = "work"
    /\ e \in root /\ e[2][2] = "overflow"
    /\ root' = root \ {e}
    /\ scratch_pool' = scratch_pool \cup {e[1]}
    /\ UNCHANGED <<obsolete, overlay, free_list, next_page, diskVars>>
    /\ EditUnchanged

(* Ctx::retire_value: one chunk of a discarded overflow chain.                *)
RetireOverflow(e) ==
    /\ wpc = "work"
    /\ e \in root /\ e[2][2] = "overflow"
    /\ root' = root \ {e}
    /\ obsolete' = obsolete \cup {e[1]}
    /\ UNCHANGED <<overlay, allocVars, diskVars>> /\ EditUnchanged

(* WriteTxn dropped: in-memory bookkeeping is gone, the lock is free.         *)
DropWrite ==
    /\ wpc' = "none" /\ base_txn_id' = 0 /\ root' = {} /\ next_page' = 0
    /\ overlay' = {} /\ free_list' = {} /\ obsolete' = {} /\ scratch_pool' = {}
    /\ reclaim_watermark' = 0 /\ new_meta' = NoMeta

(* rollback(), an early return or a panic in the caller.                      *)
Rollback ==
    /\ wpc = "work"
    /\ DropWrite
    /\ UNCHANGED <<diskVars, envVars, readVars, ghostVars>>

(* Mutant of FreedList: what is left in the scratch pool is dropped.          *)
FreedListWithoutPool ==
    free_list \cup {<<base_txn_id + 1, p>> : p \in obsolete}

(* The free list commit() stores: what was not reclaimed, and everything      *)
(* this transaction discarded, tagged with the txn id it commits as.          *)
FreedList ==
    free_list \cup {<<base_txn_id + 1, p>> : p \in obsolete \cup scratch_pool}

(* freelist::store allocates ceil(entries / CHUNK) pages, always at the end.  *)
ChainLength(n) == (n + CHUNK - 1) \div CHUNK
FreeChain == next_page .. (next_page + ChainLength(Cardinality(FreedList)) - 1)

(* Meta::advance                                                              *)
AdvancedMeta ==
    [txn_id |-> committed.txn_id + 1, root |-> root,
     next_page |-> next_page + ChainLength(Cardinality(FreedList)),
     free_list_head |-> {<<p, Own("free")>> : p \in FreeChain},
     free |-> FreedList, chains |-> committed.chains \cup FreeChain]

Written(nodes, chain) ==
    [p \in Pages |-> IF p \in chain THEN Own("free")
                     ELSE IF p \in nodes THEN Own("node") ELSE file[p]]

(* commit(), up to sync_data: flush the overlay, store the free list.         *)
CommitWrite ==
    /\ wpc = "work"
    /\ FreeChain \subseteq Pages
    /\ file' = Written(overlay, FreeChain)
    /\ unsynced' = unsynced \cup overlay \cup FreeChain
    /\ new_meta' = AdvancedMeta
    /\ wpc' = "written"
    /\ UNCHANGED <<slots, durable, envVars, readVars, fixedVars, allocVars,
                   treeVars, ghostVars>>

(* Mutant of CommitSync: the data pages are not synced before the meta swap.  *)
CommitNoSync ==
    /\ wpc = "written"
    /\ wpc' = "synced"
    /\ UNCHANGED <<diskVars, envVars, readVars, fixedVars, allocVars, treeVars,
                   new_meta, ghostVars>>

(* Pager::sync_data: everything written so far is on stable storage.  Assumed *)
(* of the operating system: that includes what an earlier sync_data failed to *)
(* write.  (One that marks such pages clean breaks this; README, section 6.)  *)
CommitSync ==
    /\ wpc = "written"
    /\ unsynced' = {} /\ durable' = slots
    /\ wpc' = "synced"
    /\ UNCHANGED <<file, slots, envVars, readVars, fixedVars, allocVars,
                   treeVars, new_meta, ghostVars>>

(* Mutant of CommitWriteMeta: the active slot is overwritten.                 *)
CommitWriteActiveMeta ==
    /\ wpc = "synced"
    /\ slots' = [slots EXCEPT ![active] = new_meta]
    /\ wpc' = "meta"
    /\ UNCHANGED <<file, unsynced, durable, envVars, readVars, fixedVars,
                   allocVars, treeVars, new_meta, ghostVars>>

(* Pager::commit_meta: write the slot that is not active ...                  *)
CommitWriteMeta ==
    /\ wpc = "synced"
    /\ slots' = [slots EXCEPT ![1 - active] = new_meta]
    /\ wpc' = "meta"
    /\ UNCHANGED <<file, unsynced, durable, envVars, readVars, fixedVars,
                   allocVars, treeVars, new_meta, ghostVars>>

(* Mutant of CommitSyncMeta: the swap is not synced.                          *)
CommitNoSyncMeta ==
    /\ wpc = "meta"
    /\ active' = 1 - active
    /\ wpc' = "publish"
    /\ UNCHANGED <<diskVars, env, committed, readVars, fixedVars, allocVars,
                   treeVars, new_meta, ghostVars>>

(* ... sync it, with CommitSync's assumption, and make it the active one.     *)
CommitSyncMeta ==
    /\ wpc = "meta"
    /\ unsynced' = {} /\ durable' = slots
    /\ active' = 1 - active
    /\ wpc' = "publish"
    /\ UNCHANGED <<file, slots, env, committed, readVars, fixedVars, allocVars,
                   treeVars, new_meta, ghostVars>>

(* The end of commit(): publish the meta to readers, return Ok, unlock.       *)
CommitPublish ==
    /\ wpc = "publish"
    /\ committed' = new_meta
    /\ acked' = new_meta
    /\ DropWrite
    /\ UNCHANGED <<diskVars, env, active, readVars, attempt, crashes, risky>>

(* commit() returns Err from write_page or from freelist::store, with some    *)
(* of the pages written ...                                                   *)
CommitWriteFails ==
    /\ "io" \in Faults /\ wpc = "work"
    /\ \E nodes \in SUBSET overlay, chain \in SUBSET (FreeChain \cap Pages) :
           /\ file' = Written(nodes, chain)
           /\ unsynced' = unsynced \cup nodes \cup chain
    /\ DropWrite
    /\ UNCHANGED <<slots, durable, envVars, readVars, ghostVars>>

(* ... from sync_data ...                                                     *)
CommitSyncFails ==
    /\ "io" \in Faults /\ wpc = "written"
    /\ DropWrite
    /\ UNCHANGED <<diskVars, envVars, readVars, ghostVars>>

(* ... from writing the meta slot, which may be left torn ...                 *)
CommitWriteMetaFails ==
    /\ "io" \in Faults /\ wpc = "synced"
    /\ slots' \in {slots, [slots EXCEPT ![1 - active] = NoMeta]}
    /\ DropWrite
    /\ UNCHANGED <<file, unsynced, durable, envVars, readVars, ghostVars>>

(* ... or from syncing it: the slot keeps the new meta, active does not move. *)
CommitSyncMetaFails ==
    /\ "io" \in Faults /\ wpc = "meta"
    /\ DropWrite
    /\ UNCHANGED <<diskVars, envVars, readVars, ghostVars>>

-------------------------------------------------------------------------------
(* All in-memory state is gone.                                               *)
Forget ==
    /\ env' = "down" /\ active' = 0 /\ committed' = NoMeta
    /\ readers' = [t \in TxnIds |-> 0]
    /\ rtx' = [r \in Readers |-> NoRead]
    /\ DropWrite
    /\ UNCHANGED <<attempt, acked, risky>>

(* Pager::open returns Err from creating the file: from set_len, or from      *)
(* writing or syncing a slot.  The file stays as it is; a slot that could not *)
(* be written had nothing in it that decodes.                                 *)
CreateFails ==
    /\ "io" \in Faults /\ env \in {"write0", "sync0", "write1", "sync1"}
    /\ Forget
    /\ UNCHANGED <<diskVars, crashes>>

(* Crashes.                                                                   *)
LoseMemory ==
    /\ env # "absent" /\ crashes < MaxCrashes
    /\ crashes' = crashes + 1
    /\ Forget

(* The process ends; the operating system keeps every write made so far.      *)
Kill ==
    /\ "kill" \in Faults
    /\ LoseMemory
    /\ UNCHANGED diskVars

(* The machine stops: each unsynced page and slot write may be lost or torn.  *)
PowerLoss ==
    /\ "power" \in Faults
    /\ LoseMemory
    /\ \E lost \in SUBSET unsynced :
           file' = [p \in Pages |-> IF p \in lost THEN Torn ELSE file[p]]
    /\ unsynced' = {}
    /\ \E m0 \in SlotOutcomes(0), m1 \in SlotOutcomes(1) :
           slots' = [i \in Slots |-> IF i = 0 THEN m0 ELSE m1]
    /\ durable' = slots'

-------------------------------------------------------------------------------
Create == CreateFile \/ (\E i \in Slots : CreateWriteSlot(i))
              \/ CreateSyncSlot0 \/ CreateSyncSlot1
Read(r) == BeginReadClone(r) \/ BeginReadRegister(r) \/ DropRead(r)
Edit == \/ \E e \in root : CowNode(e) \/ RetireNode(e) \/ RetireOverflow(e)
        \/ NewNode \/ StoreOverflow
Commit == CommitWrite \/ CommitSync \/ CommitWriteMeta \/ CommitSyncMeta
              \/ CommitPublish
CommitFails == CommitWriteFails \/ CommitSyncFails \/ CommitWriteMetaFails
              \/ CommitSyncMetaFails

Next ==
    \/ Create \/ Open \/ OpenFails
    \/ \E r \in Readers : Read(r)
    \/ BeginWrite \/ Edit \/ Rollback \/ Commit \/ CommitFails
    \/ CreateFails \/ Kill \/ PowerLoss

Spec == Init /\ [][Next]_vars

-------------------------------------------------------------------------------
(* Properties.                                                                *)

(* The type of every variable.                                                *)
TypeOK ==
    /\ file \in [Pages -> Stamps] /\ unsynced \in SUBSET Pages
    /\ slots \in [Slots -> Metas] /\ durable \in [Slots -> Metas]
    /\ env \in {"absent", "write0", "sync0", "write1", "sync1", "open", "down"}
    /\ active \in Slots /\ committed \in Metas
    /\ readers \in [TxnIds -> Nat]
    /\ rtx \in [Readers -> [pc : {"idle", "cloned", "open"}, txn_id : TxnIds,
                            root : PageSets, late : BOOLEAN]]
    /\ wpc \in {"none", "work", "written", "synced", "meta", "publish"}
    /\ base_txn_id \in TxnIds /\ root \in PageSets /\ next_page \in Nat
    /\ overlay \in SUBSET Pages /\ free_list \in FreeLists
    /\ obsolete \in SUBSET Pages /\ scratch_pool \in SUBSET Pages
    /\ reclaim_watermark \in TxnIds \cup {NoLimit} /\ new_meta \in Metas
    /\ attempt \in 0 .. MaxAttempts /\ crashes \in 0 .. MaxCrashes
    /\ acked \in Metas /\ risky \in BOOLEAN

(* Readers of storage/txn.rs's promise: a snapshot that was registered before *)
(* a writer that started from a newer meta began is never overwritten, in     *)
(* memory or by page reuse, however long the reader stays open - as long as   *)
(* every write transaction began in a settled store.                          *)
TimelySnapshotIntact ==
    ~risky => \A r \in Readers :
        rtx[r].pc = "open" /\ ~rtx[r].late => Intact(rtx[r].root)

(* The promise as txn.rs states it, for every open reader: "the snapshot      *)
(* stays consistent no matter what a concurrent writer does".                 *)
SnapshotIntact ==
    \A r \in Readers : rtx[r].pc = "open" => Intact(rtx[r].root)

(* A power failure here would lose or tear no page of m.                      *)
SurvivesPowerLoss(m) ==
    LET pages == m.root \cup m.free_list_head
    IN  Intact(pages) /\ PagesOf(pages) \cap unsynced = {}

(* Crash safety of the meta swap: whatever meta a power failure at this       *)
(* point leaves for Pager::open to choose, its tree and its free list are     *)
(* complete - as long as every write transaction began in a settled store.    *)
RecoveryIntact ==
    ~risky => \A m \in Recoverable : SurvivesPowerLoss(m)

(* Crash safety as the README states it, with no condition.                   *)
RecoverySafe == \A m \in Recoverable : SurvivesPowerLoss(m)

(* Durability: once commit() has returned Ok (or creating the store has), no  *)
(* crash makes Pager::open fail or choose an older or a different meta.       *)
AckedDurable ==
    \A m \in Recoverable : m = acked \/ m.txn_id > acked.txn_id

(* No page leaks and none is owned twice: every page below next_page of a     *)
(* meta is in its tree, in its free list or in some free-list chain, and in   *)
(* only one of them.  (README: only free-list pages themselves are leaked.)   *)
Accounted(m) ==
    LET tree == PagesOf(m.root)  free == FreePages(m.free)
    IN  /\ META_PAGE_COUNT .. (m.next_page - 1) = tree \cup free \cup m.chains
        /\ tree \cap free = {} /\ tree \cap m.chains = {}
        /\ free \cap m.chains = {}

PageAccounting == Accounted(committed) /\ Accounted(new_meta)

(* Copy on write: no step of a running store changes a page that the          *)
(* committed root or the committed free list reaches.                         *)
CommittedPagesImmutable ==
    [][env = "open" /\ env' = "open" =>
         \A e \in committed.root \cup committed.free_list_head :
             file'[e[1]] = file[e[1]]]_vars

===============================================================================
