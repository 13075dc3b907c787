--------------------------------- MODULE BTree ---------------------------------
(******************************************************************************)
(* The copy-on-write B-tree (storage/btree.rs) with its overflow chains       *)
(* (storage/overflow.rs) and the persisted free list (storage/freelist.rs),   *)
(* as operators.  What the code mutates through `&mut Ctx` is threaded        *)
(* through as a record:                                                       *)
(*                                                                            *)
(*   pages               the file: page id -> what decode_page reads there    *)
(*   overlay             the dirty nodes: page id -> node                     *)
(*   next_page           the bump allocator                                   *)
(*   free_list           sequence of <<freed_at, page>>                       *)
(*   obsolete, scratch_pool   sequences of page ids                           *)
(*   reclaim_watermark                                                        *)
(*                                                                            *)
(* A key is an integer (its place in the byte order), a value a sequence of   *)
(* bytes.  Sizes are counted in units of the constants below, which stand for *)
(* the encoded sizes of codec.rs: a page id, a key with its share of the      *)
(* entry, a reference to an overflow chain.  Positions are 1-based.           *)
(*                                                                            *)
(* What the code does by recursion or in a loop is a recursive function of    *)
(* the number of levels or pages that are left: no tree has more levels, and  *)
(* no chain more pages, than the file has pages.                              *)
(******************************************************************************)
EXTENDS Integers, Sequences, SequencesExt, FiniteSets

CONSTANTS
    SPLIT_THRESHOLD,     \* a node larger than this is split
    INLINE_VALUE_LIMIT,  \* a longer value goes to an overflow chain
    OVERFLOW_CHUNK,      \* bytes per overflow page (overflow::CHUNK)
    FREE_CHUNK,          \* entries per free-list page (freelist::CHUNK)
    KEY_SIZE, POINTER_SIZE, REFERENCE_SIZE

ASSUME BTreeAssumption ==
    /\ {SPLIT_THRESHOLD, INLINE_VALUE_LIMIT} \subseteq Nat
    /\ {OVERFLOW_CHUNK, FREE_CHUNK, KEY_SIZE, POINTER_SIZE, REFERENCE_SIZE}
           \subseteq Nat \ {0}

(* A node with one entry, or one child, need never be split.  Keys are small  *)
(* by design (btree.rs:36): with 3072 bytes to a node and 512 to an inline    *)
(* value this holds of keys up to 2.5 KB.                                     *)
ASSUME EntriesFit ==
    /\ KEY_SIZE + INLINE_VALUE_LIMIT <= SPLIT_THRESHOLD
    /\ KEY_SIZE + REFERENCE_SIZE <= SPLIT_THRESHOLD
    /\ POINTER_SIZE <= SPLIT_THRESHOLD

MERGE_THRESHOLD == SPLIT_THRESHOLD \div 4

None == 0        \* Option<PageId>: page 0 is a meta slot, never a node

Leaf(keys, values) == [leaf |-> TRUE, keys |-> keys, values |-> values]
Internal(keys, children) ==
    [leaf |-> FALSE, keys |-> keys, children |-> children]

Inline(bytes) == [inline |-> TRUE, bytes |-> bytes]
Overflow(head, len) == [inline |-> FALSE, head |-> head, len |-> len]

(* slice::chunks                                                              *)
Chunks(s, n) ==
    [i \in 1 .. (Len(s) + n - 1) \div n |->
        SubSeq(s, (i - 1) * n + 1, IF i * n < Len(s) THEN i * n ELSE Len(s))]

-------------------------------------------------------------------------------
(* codec::encoded_len of a node.                                              *)
ValueSize(v) == IF v.inline THEN Len(v.bytes) ELSE REFERENCE_SIZE

ValuesSize(values) ==
    LET size[i \in Nat] == IF i = 0 THEN 0 ELSE size[i - 1] + ValueSize(values[i])
    IN  size[Len(values)]

encoded_len(node) ==
    Len(node.keys) * KEY_SIZE
      + IF node.leaf THEN ValuesSize(node.values)
        ELSE Len(node.children) * POINTER_SIZE

(* An overlay entry shadows the page on disk.                                 *)
read_node(pages, overlay, id) ==
    IF id \in DOMAIN overlay THEN overlay[id] ELSE pages[id]

(* Mutant of child_index: a key equal to the separator goes left.             *)
child_index_left(keys, key) == Cardinality({i \in DOMAIN keys : keys[i] < key}) + 1

(* partition_point: the first position whose key is above the given one.      *)
child_index(keys, key) == Cardinality({i \in DOMAIN keys : keys[i] <= key}) + 1

(* binary_search: where the key is, or where it would be inserted.            *)
SearchIndex(keys, key) == Cardinality({i \in DOMAIN keys : keys[i] < key}) + 1
Found(keys, key) == \E i \in DOMAIN keys : keys[i] = key

-------------------------------------------------------------------------------
(* A page of a chain (OverflowPage, FreeListPage): the next one, and bytes or *)
(* free-list entries.                                                         *)
ChainPage(next, data) == [next |-> next, data |-> data]

(* The pages of a chain of at most n, in order, from its head.                *)
NextIds(pages, id, rest) == IF id = None THEN <<>> ELSE <<id>> \o rest[pages[id].next]
ChainIds(pages, head, n) ==
    LET ids[i \in Nat] ==
            IF i = 0 THEN [id \in Nat |-> <<>>]
            ELSE [id \in Nat |-> NextIds(pages, id, ids[i - 1])]
    IN  ids[n][head]

(* read_chain joins the data.                                                 *)
NextData(pages, id, rest) ==
    IF id = None THEN <<>> ELSE pages[id].data \o rest[pages[id].next]
read_chain(pages, head, n) ==
    LET out[i \in Nat] ==
            IF i = 0 THEN [id \in Nat |-> <<>>]
            ELSE [id \in Nat |-> NextData(pages, id, out[i - 1])]
    IN  out[n][head]

(* A chain of len bytes has at most len pages.                                *)
resolve_value(pages, v) ==
    IF v.inline THEN v.bytes ELSE read_chain(pages, v.head, v.len)

(* btree::get in a tree of at most n levels: a sequence with the value, or    *)
(* empty.                                                                     *)
ChildFor(node, id, key) ==
    IF node.leaf THEN id ELSE node.children[child_index(node.keys, key)]
Descend(pages, overlay, id, key) ==
    ChildFor(read_node(pages, overlay, id), id, key)
LeafFor(pages, overlay, root, key, n) ==
    LET cur[i \in Nat] ==
            IF i = 0 THEN root ELSE Descend(pages, overlay, cur[i - 1], key)
    IN  read_node(pages, overlay, cur[n])

Lookup(pages, node, key) ==
    IF Found(node.keys, key)
    THEN <<resolve_value(pages, node.values[SearchIndex(node.keys, key)])>>
    ELSE <<>>

get(pages, overlay, root, key, n) ==
    IF root = None THEN <<>>
    ELSE Lookup(pages, LeafFor(pages, overlay, root, key, n), key)

(* Mutant of InRange: the upper bound is taken as inclusive.                  *)
InClosedRange(k, start, end) ==
    (start = <<>> \/ k >= Head(start)) /\ (end = <<>> \/ k <= Head(end))

(* start and end are optional bounds: <<>> or a single key.                   *)
InRange(k, start, end) ==
    (start = <<>> \/ k >= Head(start)) /\ (end = <<>> \/ k < Head(end))

(* What collect adds for a leaf, and for an internal node whose children are  *)
(* listed by below.                                                           *)
RowIn(pages, node, i, start, end) ==
    IF InRange(node.keys[i], start, end)
    THEN <<<<node.keys[i], resolve_value(pages, node.values[i])>>>> ELSE <<>>
LeafRows(pages, node, start, end) ==
    LET out[i \in Nat] ==
            IF i = 0 THEN <<>>
            ELSE out[i - 1] \o RowIn(pages, node, i, start, end)
    IN  out[Len(node.keys)]
RowsBelow(node, below) ==
    LET out[i \in Nat] ==
            IF i = 0 THEN <<>> ELSE out[i - 1] \o below[node.children[i]]
    IN  out[Len(node.children)]

collect(pages, overlay, start, end) ==
    LET rows[n \in Nat] ==
            IF n = 0
            THEN [id \in Nat |-> LeafRows(pages, read_node(pages, overlay, id),
                                         start, end)]
            ELSE [id \in Nat |->
                     LET node == read_node(pages, overlay, id)
                     IN  IF node.leaf THEN LeafRows(pages, node, start, end)
                         ELSE RowsBelow(node, rows[n - 1])]
    IN  rows

(* btree::range: the pairs with start <= key < end, in key order.             *)
range(pages, overlay, root, start, end, n) ==
    IF root = None THEN <<>> ELSE collect(pages, overlay, start, end)[n][root]

-------------------------------------------------------------------------------
(* Ctx.  Operators that return a page id as well return [ctx, id].            *)

is_scratch(ctx, id) == id \in DOMAIN ctx.overlay

SwapRemove(s, i) == Front(ReplaceAt(s, i, Last(s)))

(* alloc when pos is the first reclaimable entry of the free list, or 0.      *)
AllocFrom(ctx, pos) ==
    IF ctx.scratch_pool # <<>>
    THEN [ctx |-> [ctx EXCEPT !.scratch_pool = Front(@)],
          id  |-> Last(ctx.scratch_pool)]
    ELSE IF pos # 0
    THEN [ctx |-> [ctx EXCEPT !.free_list = SwapRemove(@, pos)],
          id  |-> ctx.free_list[pos][2]]
    ELSE [ctx |-> [ctx EXCEPT !.next_page = @ + 1], id |-> ctx.next_page]

alloc(ctx) ==
    AllocFrom(ctx, SelectInSeq(ctx.free_list,
                               LAMBDA f : f[1] <= ctx.reclaim_watermark))

mark_obsolete(ctx, id) ==
    IF is_scratch(ctx, id) THEN ctx ELSE [ctx EXCEPT !.obsolete = Append(@, id)]

retire(ctx, id) ==
    IF is_scratch(ctx, id)
    THEN [ctx EXCEPT !.overlay = [p \in DOMAIN @ \ {id} |-> @[p]],
                     !.scratch_pool = Append(@, id)]
    ELSE [ctx EXCEPT !.obsolete = Append(@, id)]

put_node(ctx, id, node) ==
    [ctx EXCEPT !.overlay =
        [p \in DOMAIN @ \cup {id} |-> IF p = id THEN node ELSE @[p]]]

write_page(pages, id, page) ==
    [p \in DOMAIN pages \cup {id} |-> IF p = id THEN page ELSE pages[p]]

read(ctx, id) == read_node(ctx.pages, ctx.overlay, id)

(* The chunks, each on a fresh page that points to the one stored before it;  *)
(* written to the file at once.  a is [ctx, id] of the fresh page.            *)
WriteChunk(a, next, chunk) ==
    [a EXCEPT !.ctx.pages = write_page(@, a.id, ChainPage(next, chunk))]

LinkChunk(chain, chunk) == WriteChunk(alloc(chain.ctx), chain.id, chunk)
StoreChain(ctx, chunks) ==
    LET chain[i \in Nat] ==
            IF i = 0 THEN [ctx |-> ctx, id |-> None]
            ELSE LinkChunk(chain[i - 1], chunks[i])
    IN  chain[Len(chunks)]

OverflowValue(chain, len) ==
    [ctx |-> chain.ctx, value |-> Overflow(chain.id, len)]

(* Mutant of store_value: the chunks are linked first to last (no `.rev()`).  *)
store_value_forward(ctx, value) ==
    IF Len(value) <= INLINE_VALUE_LIMIT
    THEN [ctx |-> ctx, value |-> Inline(value)]
    ELSE OverflowValue(StoreChain(ctx, Chunks(value, OVERFLOW_CHUNK)), Len(value))

(* store_value: the chain is built from its last chunk to its first.          *)
store_value(ctx, value) ==
    IF Len(value) <= INLINE_VALUE_LIMIT
    THEN [ctx |-> ctx, value |-> Inline(value)]
    ELSE OverflowValue(StoreChain(ctx, Reverse(Chunks(value, OVERFLOW_CHUNK))),
                       Len(value))

(* Mutant of retire_value: only the head of the chain is given back.          *)
retire_value_head(ctx, v) ==
    IF v.inline THEN ctx ELSE [ctx EXCEPT !.obsolete = Append(@, v.head)]

retire_value(ctx, v) ==
    IF v.inline THEN ctx
    ELSE [ctx EXCEPT !.obsolete = @ \o ChainIds(ctx.pages, v.head, v.len)]

(* put_node at a freshly chosen page a = [ctx, id].                           *)
PutAt(a, node) == [ctx |-> put_node(a.ctx, a.id, node), id |-> a.id]

(* The tail every change of a node shares: a scratch page is rewritten in     *)
(* place, a committed one is obsoleted and replaced by a new page.            *)
ReplaceNode(ctx, id, node) ==
    PutAt(IF is_scratch(ctx, id) THEN [ctx |-> ctx, id |-> id]
          ELSE alloc(mark_obsolete(ctx, id)), node)

-------------------------------------------------------------------------------
(* insert_rec returns [ctx, id, sep, sibling]; sibling = None: no split.      *)
(* Here and below, node is what ctx.read(id) returns.                         *)

NoSplit(r) == [ctx |-> r.ctx, id |-> r.id, sep |-> 0, sibling |-> None]

(* The two allocations of a split: the left half's page l, then the right's.  *)
Siblings(l, sep, r) ==
    [ctx |-> r.ctx, id |-> l.id, sep |-> sep, sibling |-> r.id]
PutRight(l, sep, right) == Siblings(l, sep, PutAt(alloc(l.ctx), right))
SplitInto(ctx, id, left, sep, right) ==
    PutRight(ReplaceNode(ctx, id, left), sep, right)

From(s, i) == SubSeq(s, i, Len(s))
Until(s, i) == SubSeq(s, 1, i)

(* A leaf keeps its first half; the separator is the right half's first key.  *)
LeafSplit(ctx, id, node) ==
    LET mid == Len(node.keys) \div 2
    IN  SplitInto(ctx, id,
                  Leaf(Until(node.keys, mid), Until(node.values, mid)),
                  node.keys[mid + 1],
                  Leaf(From(node.keys, mid + 1), From(node.values, mid + 1)))

(* An internal node gives its middle key away to its parent.                  *)
InternalSplit(ctx, id, node) ==
    LET mid == Len(node.keys) \div 2
    IN  SplitInto(ctx, id,
                  Internal(Until(node.keys, mid), Until(node.children, mid + 1)),
                  node.keys[mid + 1],
                  Internal(From(node.keys, mid + 2), From(node.children, mid + 2)))

(* What insert_rec does with the node it has changed.                         *)
SplitOrReplace(ctx, id, node) ==
    IF encoded_len(node) <= SPLIT_THRESHOLD THEN NoSplit(ReplaceNode(ctx, id, node))
    ELSE IF node.leaf THEN LeafSplit(ctx, id, node)
    ELSE InternalSplit(ctx, id, node)

(* st is what store_value returned for the new value.                         *)
OverwriteEntry(id, node, idx, st) ==
    SplitOrReplace(st.ctx, id,
                   Leaf(node.keys, ReplaceAt(node.values, idx, st.value)))
InsertEntry(id, node, idx, key, st) ==
    SplitOrReplace(st.ctx, id, Leaf(InsertAt(node.keys, idx, key),
                                    InsertAt(node.values, idx, st.value)))

InsertIntoLeaf(ctx, id, node, idx, key, value) ==
    IF Found(node.keys, key)
    THEN OverwriteEntry(id, node, idx,
                        store_value(retire_value(ctx, node.values[idx]), value))
    ELSE InsertEntry(id, node, idx, key, store_value(ctx, value))

(* An internal node after child idx returned down from insert_rec.            *)
AfterInsert(id, node, idx, down) ==
    LET children == ReplaceAt(node.children, idx, down.id)
    IN  SplitOrReplace(down.ctx, id,
            IF down.sibling = None THEN Internal(node.keys, children)
            ELSE Internal(InsertAt(node.keys, idx, down.sep),
                          InsertAt(children, idx + 1, down.sibling)))

(* insert_rec on every page id, with at most n levels below it; down is the   *)
(* same for n - 1 levels.  Nothing changes on the way down.                   *)
InsertAtLeaf(ctx, id, node, key, value) ==
    InsertIntoLeaf(ctx, id, node, SearchIndex(node.keys, key), key, value)
InsertAtNode(ctx, id, node, key, value, down) ==
    IF node.leaf THEN InsertAtLeaf(ctx, id, node, key, value)
    ELSE LET idx == child_index(node.keys, key)
         IN  AfterInsert(id, node, idx, down[node.children[idx]])

insert_rec(ctx, key, value) ==
    LET down[n \in Nat] ==
            IF n = 0
            THEN [id \in Nat |-> InsertAtLeaf(ctx, id, read(ctx, id), key, value)]
            ELSE [id \in Nat |-> InsertAtNode(ctx, id, read(ctx, id), key, value,
                                             down[n - 1])]
    IN  down[ctx.next_page]

(* btree::put returns [ctx, id]: the new root.                                *)
FirstLeaf(key, st) == PutAt(alloc(st.ctx), Leaf(<<key>>, <<st.value>>))
GrowRoot(r) ==
    IF r.sibling = None THEN [ctx |-> r.ctx, id |-> r.id]
    ELSE PutAt(alloc(r.ctx), Internal(<<r.sep>>, <<r.id, r.sibling>>))

put(ctx, root, key, value) ==
    IF root = None THEN FirstLeaf(key, store_value(ctx, value))
    ELSE GrowRoot(insert_rec(ctx, key, value)[root])

-------------------------------------------------------------------------------
is_underfull(node) == encoded_len(node) < MERGE_THRESHOLD

(* Mutant of MergedNode: keys and values are joined in different orders.      *)
MergedNodeSwapped(left, right, separator) ==
    IF left.leaf THEN Leaf(left.keys \o right.keys, right.values \o left.values)
    ELSE Internal(left.keys \o <<separator>> \o right.keys,
                  left.children \o right.children)

(* The node try_merge builds.                                                 *)
MergedNode(left, right, separator) ==
    IF left.leaf THEN Leaf(left.keys \o right.keys, left.values \o right.values)
    ELSE Internal(left.keys \o <<separator>> \o right.keys,
                  left.children \o right.children)

(* Mutant of Mergeable: the size of the result is not looked at.              *)
MergeableAlways(left, right, separator) == left.leaf = right.leaf

(* try_merge answers Some: same variant, and the result is within the limit.  *)
Mergeable(left, right, separator) ==
    /\ left.leaf = right.leaf
    /\ encoded_len(MergedNode(left, right, separator)) <= SPLIT_THRESHOLD

(* Children i and i + 1 of an internal node become one fresh page.            *)
Merged(node, i, r) ==
    [ctx  |-> r.ctx,
     node |-> Internal(RemoveAt(node.keys, i),
                       RemoveAt(ReplaceAt(node.children, i, r.id), i + 1))]

MergeChildren(ctx, node, i) ==
    Merged(node, i,
           PutAt(alloc(retire(retire(ctx, node.children[i]), node.children[i + 1])),
                 MergedNode(read(ctx, node.children[i]),
                            read(ctx, node.children[i + 1]), node.keys[i])))

CanMerge(ctx, node, i) ==
    /\ i >= 1 /\ i + 1 <= Len(node.children)
    /\ Mergeable(read(ctx, node.children[i]), read(ctx, node.children[i + 1]),
                 node.keys[i])

(* After child idx shrank: merge it with its right sibling, else its left.    *)
MergeAt(ctx, node, i) ==
    IF i = 0 THEN [ctx |-> ctx, node |-> node] ELSE MergeChildren(ctx, node, i)

Rebalance(ctx, node, idx) ==
    IF is_underfull(read(ctx, node.children[idx]))
    THEN MergeAt(ctx, node,
                 Max({0} \cup {i \in {idx, idx - 1} : CanMerge(ctx, node, i)}))
    ELSE [ctx |-> ctx, node |-> node]

(* delete_rec returns [ctx, id, removed].                                     *)
Removed(r) == [ctx |-> r.ctx, id |-> r.id, removed |-> TRUE]
NotRemoved(ctx, id) == [ctx |-> ctx, id |-> id, removed |-> FALSE]

DeleteFromLeaf(ctx, id, node, at, key) ==
    IF Found(node.keys, key)
    THEN Removed(ReplaceNode(retire_value(ctx, node.values[at]), id,
                     Leaf(RemoveAt(node.keys, at), RemoveAt(node.values, at))))
    ELSE NotRemoved(ctx, id)

(* An internal node after child idx returned down from delete_rec.            *)
StoreRebalanced(id, r) == Removed(ReplaceNode(r.ctx, id, r.node))
AfterDelete(ctx, id, node, idx, down) ==
    IF down.removed
    THEN StoreRebalanced(id, Rebalance(down.ctx,
             Internal(node.keys, ReplaceAt(node.children, idx, down.id)), idx))
    ELSE NotRemoved(ctx, id)

(* delete_rec, like insert_rec.                                               *)
DeleteAtLeaf(ctx, id, node, key) ==
    DeleteFromLeaf(ctx, id, node, SearchIndex(node.keys, key), key)
DeleteAtNode(ctx, id, node, key, down) ==
    IF node.leaf THEN DeleteAtLeaf(ctx, id, node, key)
    ELSE LET idx == child_index(node.keys, key)
         IN  AfterDelete(ctx, id, node, idx, down[node.children[idx]])

delete_rec(ctx, key) ==
    LET down[n \in Nat] ==
            IF n = 0 THEN [id \in Nat |-> DeleteAtLeaf(ctx, id, read(ctx, id), key)]
            ELSE [id \in Nat |-> DeleteAtNode(ctx, id, read(ctx, id), key, down[n - 1])]
    IN  down[ctx.next_page]

(* Empty leaves and single-child roots are unwound.  Returns [ctx, id].       *)
CollapseRoot(r, node) ==
    IF node.keys # <<>> THEN r
    ELSE IF node.leaf THEN [ctx |-> retire(r.ctx, r.id), id |-> None]
    ELSE IF Len(node.children) = 1
    THEN [ctx |-> retire(r.ctx, r.id), id |-> node.children[1]]
    ELSE r
Unwind(r) == IF r.id = None THEN r ELSE CollapseRoot(r, read(r.ctx, r.id))

finalize_root(ctx, id) ==
    LET root[n \in Nat] ==
            IF n = 0 THEN [ctx |-> ctx, id |-> id] ELSE Unwind(root[n - 1])
    IN  root[ctx.next_page]

(* btree::delete returns [ctx, id, removed].                                  *)
Finalized(r, f) == [ctx |-> f.ctx, id |-> f.id, removed |-> r.removed]
FinalizeAfter(r) == Finalized(r, finalize_root(r.ctx, r.id))

delete(ctx, root, key) ==
    IF root = None THEN NotRemoved(ctx, None)
    ELSE FinalizeAfter(delete_rec(ctx, key)[root])

-------------------------------------------------------------------------------
(* freelist.rs.  store links each chunk in front of the previous one, so the  *)
(* last chunk is the head and load returns the chunks in reverse order.       *)

load(pages, head, n) == read_chain(pages, head, n)

(* Returns [pages, next_page, head]; pages are always taken at the end.       *)
StoreChunk(acc, chunk) ==
    [pages |-> write_page(acc.pages, acc.next_page, ChainPage(acc.head, chunk)),
     next_page |-> acc.next_page + 1, head |-> acc.next_page]
StoreChunks(pages, next_page, chunks) ==
    LET stored[i \in Nat] ==
            IF i = 0 THEN [pages |-> pages, next_page |-> next_page, head |-> None]
            ELSE StoreChunk(stored[i - 1], chunks[i])
    IN  stored[Len(chunks)]
store(pages, next_page, entries) ==
    StoreChunks(pages, next_page, Chunks(entries, FREE_CHUNK))

===============================================================================
