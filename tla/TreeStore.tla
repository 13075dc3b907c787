------------------------------- MODULE TreeStore -------------------------------
(******************************************************************************)
(* Read and write transactions (storage/txn.rs) over the B-tree of module     *)
(* BTree: the pages, the page ids and the order in which they are handed out  *)
(* are the ones the code computes.  Crashes and I/O errors are the business   *)
(* of module Environment; here commit() and begin_read() are one step.        *)
(*                                                                            *)
(* A behaviour starts from a store that some earlier process filled: one      *)
(* committed transaction that put the pairs of a seed in order.               *)
(******************************************************************************)
EXTENDS BTree

CONSTANTS
    Readers,    \* threads that open read transactions
    Keys,       \* record keys, in byte order
    Values,     \* values that put is given
    Seeds,      \* sequences of <<key, value>> that fill the store
    PAGE_SIZE,  \* the largest node encode_page accepts
    MaxTxns,    \* number of write transactions (bound)
    MaxOps      \* puts and deletes in all (bound)

ASSUME TreeStoreAssumption ==
    /\ Keys \subseteq Int /\ Keys # {} /\ IsFiniteSet(Keys)
    /\ Values \subseteq Seq(Int) /\ Seeds \subseteq Seq(Keys \X Seq(Int))
    /\ IsFiniteSet(Readers)
    /\ MaxTxns \in Nat /\ MaxOps \in Nat /\ PAGE_SIZE \in Nat

VARIABLES
    pages,    \* the file
    meta,     \* Environment::committed
    wtx,      \* WriteTxn: open, root and the fields of Ctx
    rtx,      \* the ReadTxn of each reader
    existed,  \* delete()'s last answer
    chains,   \* history: pages a free list was ever stored in
    ops       \* puts and deletes so far

vars == <<pages, meta, wtx, rtx, existed, chains, ops>>

META_PAGE_COUNT == 2
NoLimit == MaxTxns + 2            \* u64::MAX, above every txn id
NoPages == [p \in {} |-> {}]

NoWrite == [open |-> FALSE, root |-> None, overlay |-> NoPages, next_page |-> 0,
            free_list |-> <<>>, obsolete |-> <<>>, scratch_pool |-> <<>>,
            reclaim_watermark |-> 0]
NoRead == [open |-> FALSE, txn_id |-> 0, root |-> None]

(* WriteTxn::ctx                                                              *)
Ctx(w, file) ==
    [pages |-> file, overlay |-> w.overlay, next_page |-> w.next_page,
     free_list |-> w.free_list, obsolete |-> w.obsolete,
     scratch_pool |-> w.scratch_pool, reclaim_watermark |-> w.reclaim_watermark]

WithCtx(w, ctx, root) ==
    [open |-> TRUE, root |-> root, overlay |-> ctx.overlay,
     next_page |-> ctx.next_page, free_list |-> ctx.free_list,
     obsolete |-> ctx.obsolete, scratch_pool |-> ctx.scratch_pool,
     reclaim_watermark |-> w.reclaim_watermark]

(* begin_write, from meta m                                                   *)
Begun(m, file, watermark) ==
    [NoWrite EXCEPT !.open = TRUE, !.root = m.root, !.next_page = m.next_page,
                    !.free_list = load(file, m.free_list_head, m.next_page),
                    !.reclaim_watermark = watermark]

(* The free list commit() stores.                                             *)
FreedEntries(m, w) ==
    LET obsolete == w.obsolete \o w.scratch_pool
    IN  w.free_list \o [i \in DOMAIN obsolete |-> <<m.txn_id + 1, obsolete[i]>>]

(* commit() of w over meta m: the overlay is flushed, the free list stored;   *)
(* the new file and the new meta.                                             *)
Flushed(w, file) ==
    [p \in DOMAIN file \cup DOMAIN w.overlay |->
        IF p \in DOMAIN w.overlay THEN w.overlay[p] ELSE file[p]]

Advance(m, w, stored) ==
    [pages |-> stored.pages,
     meta  |-> [txn_id |-> m.txn_id + 1, root |-> w.root,
                next_page |-> stored.next_page, free_list_head |-> stored.head]]

Committed(m, w, file) ==
    Advance(m, w, store(Flushed(w, file), w.next_page, FreedEntries(m, w)))

-------------------------------------------------------------------------------
InitMeta == [txn_id |-> 0, root |-> None, next_page |-> META_PAGE_COUNT,
             free_list_head |-> None]

(* The store after one transaction that puts the pairs of seed.               *)
EmptyStore == [ctx |-> Ctx(Begun(InitMeta, NoPages, NoLimit), NoPages), id |-> None]
PutPair(full, kv) == put(full.ctx, full.id, kv[1], kv[2])
Filled(seed) ==
    LET full[i \in Nat] ==
            IF i = 0 THEN EmptyStore ELSE PutPair(full[i - 1], seed[i])
    IN  full[Len(seed)]
Seeded(full) ==
    Committed(InitMeta, WithCtx(NoWrite, full.ctx, full.id), full.ctx.pages)

Init ==
    /\ \E full \in {Filled(seed) : seed \in Seeds} :
           \E store0 \in {Seeded(full)} :
               /\ pages = store0.pages /\ meta = store0.meta
               /\ chains = full.ctx.next_page .. store0.meta.next_page - 1
    /\ wtx = NoWrite
    /\ rtx = [r \in Readers |-> NoRead]
    /\ existed = FALSE
    /\ ops = 0

BeginRead(r) ==
    /\ ~rtx[r].open
    /\ rtx' = [rtx EXCEPT ![r] = [open |-> TRUE, txn_id |-> meta.txn_id,
                                  root |-> meta.root]]
    /\ UNCHANGED <<pages, meta, wtx, existed, chains, ops>>

DropRead(r) ==
    /\ rtx[r].open
    /\ rtx' = [rtx EXCEPT ![r] = NoRead]
    /\ UNCHANGED <<pages, meta, wtx, existed, chains, ops>>

(* oldest_reader_txn_id().unwrap_or(u64::MAX)                                 *)
Watermark ==
    LET ids == {rtx[r].txn_id : r \in {r \in Readers : rtx[r].open}}
    IN  IF ids = {} THEN NoLimit ELSE Min(ids)

BeginWrite ==
    /\ ~wtx.open /\ meta.txn_id <= MaxTxns
    /\ wtx' = Begun(meta, pages, Watermark)
    /\ UNCHANGED <<pages, meta, rtx, existed, chains, ops>>

Put(k, v) ==
    /\ wtx.open /\ ops < MaxOps
    /\ \E r \in {put(Ctx(wtx, pages), wtx.root, k, v)} :
           pages' = r.ctx.pages /\ wtx' = WithCtx(wtx, r.ctx, r.id)
    /\ ops' = ops + 1
    /\ UNCHANGED <<meta, rtx, existed, chains>>

Delete(k) ==
    /\ wtx.open /\ ops < MaxOps
    /\ \E r \in {delete(Ctx(wtx, pages), wtx.root, k)} :
           /\ pages' = r.ctx.pages /\ wtx' = WithCtx(wtx, r.ctx, r.id)
           /\ existed' = r.removed
    /\ ops' = ops + 1
    /\ UNCHANGED <<meta, rtx, chains>>

Commit ==
    /\ wtx.open
    /\ \E c \in {Committed(meta, wtx, pages)} :
           /\ pages' = c.pages /\ meta' = c.meta
           /\ chains' = chains \cup (wtx.next_page .. c.meta.next_page - 1)
    /\ wtx' = NoWrite /\ existed' = FALSE
    /\ UNCHANGED <<rtx, ops>>

Rollback ==
    /\ wtx.open
    /\ wtx' = NoWrite /\ existed' = FALSE
    /\ UNCHANGED <<pages, meta, rtx, chains, ops>>

Next ==
    \/ \E r \in Readers : BeginRead(r) \/ DropRead(r)
    \/ BeginWrite \/ Commit \/ Rollback
    \/ \E k \in Keys : Delete(k) \/ \E v \in Values : Put(k, v)

Spec == Init /\ [][Next]_vars

-------------------------------------------------------------------------------
(* Properties.                                                                *)

(* The rows of a tree as a map, read with range(None, None).                  *)
Contents(overlay, root, n) ==
    UNION {ToSet(rows) : rows \in {range(pages, overlay, root, <<>>, <<>>, n)}}

(* The engine implements the abstract store: put, delete, commit, rollback    *)
(* and the snapshots of readers have the effect of KVStore's actions on what  *)
(* range() returns, and none beside it - whatever pages are split, merged,    *)
(* copied, retired and handed out again on the way.                           *)
Store == INSTANCE KVStore WITH
    Values    <- Values \cup UNION {{kv[2] : kv \in ToSet(seed)} : seed \in Seeds},
    committed <- Contents(NoPages, meta.root, meta.next_page),
    writing   <- wtx.open,
    working   <- Contents(wtx.overlay, wtx.root, wtx.next_page),
    reading   <- {r \in Readers : rtx[r].open},
    snapshot  <- [r \in Readers |-> Contents(NoPages, rtx[r].root, meta.next_page)]

ImplementsKVStore == Store!Spec

(* keys[i], and the bounds at both ends.                                      *)
Bound(keys, lo, hi, i) ==
    IF i = 0 THEN lo ELSE IF i > Len(keys) THEN hi ELSE keys[i]

(* The keys of a node ascend within [lo, hi).                                 *)
KeysOrdered(keys, lo, hi) ==
    /\ \A i \in DOMAIN keys : lo <= keys[i] /\ keys[i] < hi
    /\ \A i, j \in DOMAIN keys : i < j => keys[i] < keys[j]

LeafOrdered(node, lo, hi) ==
    /\ KeysOrdered(node.keys, lo, hi) /\ node.leaf
    /\ Len(node.values) = Len(node.keys)
InnerOrdered(node, lo, hi, below) ==
    /\ KeysOrdered(node.keys, lo, hi) /\ ~node.leaf
    /\ Len(node.children) = Len(node.keys) + 1
    /\ \A i \in DOMAIN node.children :
           below[<<node.children[i], Bound(node.keys, lo, hi, i - 1),
                   Bound(node.keys, lo, hi, i)>>]

(* Of <<id, lo, hi>>: the subtree at id has n levels below it, all its leaves *)
(* at the lowest, and every key lies between the separators above it.         *)
Ordered(file, overlay) ==
    LET ordered[n \in Nat] ==
          IF n = 0
          THEN [t \in Nat \X Int \X Int |->
                   LeafOrdered(read_node(file, overlay, t[1]), t[2], t[3])]
          ELSE [t \in Nat \X Int \X Int |->
                   InnerOrdered(read_node(file, overlay, t[1]), t[2], t[3],
                                ordered[n - 1])]
    IN  ordered

WellFormed(overlay, root, next_page) ==
    root # None =>
        \E n \in 0 .. next_page :
            Ordered(pages, overlay)[n][<<root, Min(Keys), Max(Keys) + 1>>]

(* The tree of the open transaction, and the committed one, stay search trees *)
(* of uniform depth through every split, merge and root collapse.             *)
TreeOrdered ==
    /\ WellFormed(NoPages, meta.root, meta.next_page)
    /\ WellFormed(wtx.overlay, wtx.root, wtx.next_page)

(* The pages of a value's chain, of the chains of a leaf, and of the subtree  *)
(* at a page id with at most n levels below it.                               *)
ValuePages(file, v) ==
    IF v.inline THEN {} ELSE ToSet(ChainIds(file, v.head, v.len))
LeafPages(file, node) ==
    UNION {ValuePages(file, node.values[i]) : i \in DOMAIN node.values}
NodePages(file, id, node, owned) ==
    {id} \cup IF node.leaf THEN LeafPages(file, node)
              ELSE UNION {owned[node.children[i]] : i \in DOMAIN node.children}
TreePages(file, overlay) ==
    LET owned[n \in Nat] ==
          IF n = 0
          THEN [id \in Nat |-> {id} \cup LeafPages(file, read_node(file, overlay, id))]
          ELSE [id \in Nat |-> NodePages(file, id, read_node(file, overlay, id),
                                         owned[n - 1])]
    IN  owned

(* No page occurs twice in the subtree at id: its values, or its children,    *)
(* have pages of their own.                                                   *)
LeafApart(file, id, node) ==
    /\ id \notin LeafPages(file, node)
    /\ \A i, j \in DOMAIN node.values :
           i # j => ValuePages(file, node.values[i])
                        \cap ValuePages(file, node.values[j]) = {}
ChildrenApart(id, node, owned, apart) ==
    \A i \in DOMAIN node.children :
        /\ apart[node.children[i]]
        /\ id \notin owned[node.children[i]]
        /\ \A j \in DOMAIN node.children :
               i # j => owned[node.children[i]] \cap owned[node.children[j]] = {}
NodeApart(file, id, node, owned, apart) ==
    IF node.leaf THEN LeafApart(file, id, node)
    ELSE ChildrenApart(id, node, owned, apart)
Apart(file, overlay) ==
    LET apart[n \in Nat] ==
          IF n = 0
          THEN [id \in Nat |-> LeafApart(file, id, read_node(file, overlay, id))]
          ELSE [id \in Nat |-> NodeApart(file, id, read_node(file, overlay, id),
                                         TreePages(file, overlay)[n - 1],
                                         apart[n - 1])]
    IN  apart

(* In the open write transaction every page below next_page has exactly one   *)
(* owner: the tree, the free list, obsolete, scratch_pool, or a free-list     *)
(* chain.  No put or delete leaks a page or hands one out that is in use.     *)
PagesOwnedOnce ==
    wtx.open =>
        LET tree  == IF wtx.root = None THEN {}
                     ELSE TreePages(pages, wtx.overlay)[wtx.next_page][wtx.root]
            free  == [i \in DOMAIN wtx.free_list |-> wtx.free_list[i][2]]
            other == free \o wtx.obsolete \o wtx.scratch_pool
        IN  /\ wtx.root # None => Apart(pages, wtx.overlay)[wtx.next_page][wtx.root]
            /\ IsInjective(other)
            /\ tree \cap ToSet(other) = {}
            /\ (tree \cup ToSet(other)) \cap chains = {}
            /\ tree \cup ToSet(other) \cup chains
                   = META_PAGE_COUNT .. wtx.next_page - 1

(* No node the transaction has built trips encode_page's assertion at commit. *)
NodesFitPage ==
    \A id \in DOMAIN wtx.overlay : encoded_len(wtx.overlay[id]) <= PAGE_SIZE

(* get and bounded range answer what the full listing says, for the open      *)
(* write transaction.                                                         *)
Agrees(overlay, root, n) ==
    \A rows \in {range(pages, overlay, root, <<>>, <<>>, n)} :
        /\ \A k \in Keys : ToSet(get(pages, overlay, root, k, n)) =
                               {row[2] : row \in {e \in ToSet(rows) : e[1] = k}}
        /\ \A s, e \in {<<>>} \cup {<<k>> : k \in Keys} :
               range(pages, overlay, root, s, e, n) =
                   SelectSeq(rows, LAMBDA row : /\ s # <<>> => s[1] <= row[1]
                                                /\ e # <<>> => row[1] < e[1])

ReadsAgree == Agrees(wtx.overlay, wtx.root, wtx.next_page)

===============================================================================
