---------------------------- MODULE TreeStoreProofs ----------------------------
(******************************************************************************)
(* put, delete and commit of module TreeStore keep the trees and the books:   *)
(* insert_rec, delete_rec and finalize_root of storage/btree.rs on trees of   *)
(* any height, free lists of any length (storage/freelist.rs), the inductive  *)
(* invariant StoreInv, and the theorems StoreInvariance, TreesOrdered and     *)
(* PagesOwned.                                                                *)
(******************************************************************************)
EXTENDS BTreeProofs

-------------------------------------------------------------------------------
(* A changed node is stored.                                                  *)

(* A node's body tells a leaf from an internal node.                          *)
LEMMA BodyIsNode ==
    ASSUME NEW V, NEW n \in Nat, NEW node, NEW lo, NEW hi, Body(V, n, node, lo, hi)
    PROVE  IsNode(node) /\ (node.leaf <=> n = 0)
<1>1. CASE n = 0
  <2>1. PICK ks, vs : node = Leaf(ks, vs)
    BY <1>1 DEF Body, LeafBody
  <2> QED
    BY <1>1, <2>1 DEF IsNode, Leaf
<1>2. CASE n # 0
  <2>1. PICK ks, cs : node = Internal(ks, cs)
    BY <1>2 DEF Body, InnerBody
  <2> QED
    BY <1>2, <2>1 DEF IsNode, Internal
<1> QED
  BY <1>1, <1>2

(* The node, which has the pages P below it, got a page of its own.           *)
PlacedOk(e, A, r, n, lo, hi) ==
    /\ Tree(View(r.ctx), n, r.id, lo, hi)
    /\ Eff(e, A, r.ctx, Pages(View(r.ctx), n, r.id))
    /\ r.id \in Nat \ {None}

(* A node above the pages P, on a page that was not one of them.              *)
LEMMA PlacedFrom ==
    ASSUME NEW e, Books(e), NEW V, V = View(e), NEW n \in Nat, NEW node,
           NEW lo \in Int, NEW hi \in Int, Body(V, n, node, lo, hi),
           NEW P, P = BodyPages(V, n, node), Disjoint(P, Spare(e)),
           NEW S, Disjoint(P, S), NEW A, IsUnion(A, P, S), NEW r, r.id \in Nat \ {None},
           Eff(e, S, r.ctx, {r.id}), Holds(r.ctx, r.id, node)
    PROVE  PlacedOk(e, A, r, n, lo, hi)
<1>1. PICK d, W, q, B : d = r.ctx /\ W = View(r.ctx) /\ q = r.id /\ B = P \cup {r.id}
  OBVIOUS
<1>2. Eff(e, S, d, {q}) /\ IsUnion(B, P, {q})
  BY <1>1 DEF IsUnion
<1>3. Eff(e, A, d, B) /\ Disjoint(P, {q}) /\ Agree(View(e), View(d), P)
  BY <1>2, EffWiden
<1>4. Agree(V, W, BodyPages(V, n, node))
  BY <1>1, <1>3
<1>5. Body(W, n, node, lo, hi) /\ BodyPages(W, n, node) = P
  BY <1>4, BodyFrame DEF BodyKept
<1>6. q \in DOMAIN W /\ W[q] = node /\ q \in Nat \ {None} /\ q \notin P
  BY <1>1, <1>3 DEF Holds, Disjoint
<1>7. Tree(W, n, q, lo, hi)
  BY <1>5, <1>6, TreeDef
<1>8. Pages(W, n, q) = {q} \cup BodyPages(W, n, W[q])
  BY <1>6, PagesDef
<1>9. Pages(W, n, q) = B
  BY <1>1, <1>5, <1>6, <1>8
<1> QED
  BY <1>1, <1>3, <1>6, <1>7, <1>9 DEF PlacedOk

(* ReplaceNode stores the node, in place or on a fresh page.                  *)
LEMMA NodeReplaced ==
    ASSUME NEW e, Books(e), NEW V, V = View(e), NEW n \in Nat, NEW node,
           NEW lo \in Int, NEW hi \in Int, Body(V, n, node, lo, hi),
           NEW P, P = BodyPages(V, n, node), Disjoint(P, Spare(e)),
           NEW id \in Nat \ {None}, id \notin Spare(e), id \notin P,
           NEW A, IsUnion(A, P, {id}), NEW r, r = ReplaceNode(e, id, node)
    PROVE  PlacedOk(e, A, r, n, lo, hi)
<1>1. IsNode(node)
  BY BodyIsNode
<1>2. Eff(e, {id}, r.ctx, {r.id}) /\ Holds(r.ctx, r.id, node) /\ r.id \in Nat \ {None}
  BY <1>1, ReplaceNodeEff
<1>3. Disjoint(P, {id})
  BY DEF Disjoint
<1> QED
  BY <1>2, <1>3, PlacedFrom

(* The node is stored on a fresh page.                                        *)
LEMMA NodeAdded ==
    ASSUME NEW e, Books(e), NEW V, V = View(e), NEW n \in Nat, NEW node,
           NEW lo \in Int, NEW hi \in Int, Body(V, n, node, lo, hi),
           NEW P, P = BodyPages(V, n, node), Disjoint(P, Spare(e)),
           NEW r, r = PutAt(alloc(e), node)
    PROVE  PlacedOk(e, P, r, n, lo, hi)
<1>1. IsNode(node)
  BY BodyIsNode
<1>2. Eff(e, {}, r.ctx, {r.id}) /\ Holds(r.ctx, r.id, node) /\ r.id \in Nat \ {None}
  BY <1>1, AllocPut
<1>3. Disjoint(P, {}) /\ IsUnion(P, P, {})
  BY DEF Disjoint, IsUnion
<1> QED
  BY <1>2, <1>3, PlacedFrom

(* What insert_rec leaves in place of a subtree with the pages S.             *)
InsOne(c, S, r, n, lo, hi) == r.sibling = None /\ PlacedOk(c, S, r, n, lo, hi)
InsTwo(c, S, r, n, lo, hi) ==
    /\ r.sibling \in Nat \ {None} /\ r.id \in Nat \ {None}
    /\ r.sep \in Int /\ lo < r.sep /\ r.sep < hi
    /\ Tree(View(r.ctx), n, r.id, lo, r.sep)
    /\ Tree(View(r.ctx), n, r.sibling, r.sep, hi)
    /\ Disjoint(Pages(View(r.ctx), n, r.id), Pages(View(r.ctx), n, r.sibling))
    /\ \E T : /\ IsUnion(T, Pages(View(r.ctx), n, r.id), Pages(View(r.ctx), n, r.sibling))
              /\ Eff(c, S, r.ctx, T)
InsOk(c, S, r, n, lo, hi) == InsOne(c, S, r, n, lo, hi) \/ InsTwo(c, S, r, n, lo, hi)

(* A node has become two.                                                     *)
LEMMA SplitOk ==
    ASSUME NEW e, Books(e), NEW V, V = View(e), NEW n \in Nat, NEW left, NEW right,
           NEW lo \in Int, NEW hi \in Int, NEW sep \in Int, lo < sep, sep < hi,
           Body(V, n, left, lo, sep), Body(V, n, right, sep, hi),
           NEW P1, P1 = BodyPages(V, n, left), NEW P2, P2 = BodyPages(V, n, right),
           Disjoint(P1, P2), NEW P, IsUnion(P, P1, P2), Disjoint(P, Spare(e)),
           NEW id \in Nat \ {None}, id \notin Spare(e), id \notin P,
           NEW A, IsUnion(A, P, {id}), NEW r, r = SplitInto(e, id, left, sep, right)
    PROVE  InsTwo(e, A, r, n, lo, hi)
<1>1. PICK l, A1 : l = ReplaceNode(e, id, left) /\ A1 = P1 \cup {id}
  OBVIOUS
<1>2. /\ Disjoint(P1, Spare(e)) /\ Disjoint(P2, Spare(e)) /\ id \notin P1 /\ id \notin P2
      /\ IsUnion(A1, P1, {id}) /\ Disjoint(P2, A1) /\ IsUnion(A, P2, A1)
  BY <1>1 DEF Disjoint, IsUnion
<1>3. PlacedOk(e, A1, l, n, lo, sep)
  BY <1>1, <1>2, NodeReplaced
<1>4. PICK d, W, p, T : d = l.ctx /\ W = View(l.ctx) /\ p = l.id /\ T = Pages(View(l.ctx), n, l.id)
  OBVIOUS
<1>5. /\ Tree(W, n, p, lo, sep) /\ Eff(e, A1, d, T) /\ p \in Nat \ {None}
      /\ W = View(d) /\ T = Pages(W, n, p)
  BY <1>3, <1>4 DEF PlacedOk
<1>6. PICK B : B = P2 \cup T
  OBVIOUS
<1>7. IsUnion(B, P2, T) /\ IsUnion(B, T, P2)
  BY <1>6 DEF IsUnion
<1>8. /\ Eff(e, A, d, B) /\ Disjoint(P2, T) /\ Disjoint(P2, Spare(d))
      /\ Agree(View(e), View(d), P2)
  BY <1>2, <1>5, <1>7, EffWiden
<1>9. Agree(V, W, BodyPages(V, n, right))
  BY <1>5, <1>8
<1>10. Body(W, n, right, sep, hi) /\ BodyPages(W, n, right) = P2
  BY <1>9, BodyFrame DEF BodyKept
<1>11. Books(d) /\ Disjoint(T, Spare(d))
  BY <1>5, EffDisjoint
<1>12. PICK a : a = PutAt(alloc(d), right)
  OBVIOUS
<1>13. PlacedOk(d, P2, a, n, sep, hi)
  BY <1>5, <1>8, <1>10, <1>11, <1>12, NodeAdded
<1>14. PICK f, X, q, R : f = a.ctx /\ X = View(a.ctx) /\ q = a.id /\ R = Pages(View(a.ctx), n, a.id)
  OBVIOUS
<1>15. /\ Tree(X, n, q, sep, hi) /\ Eff(d, P2, f, R) /\ q \in Nat \ {None}
       /\ X = View(f) /\ R = Pages(X, n, q)
  BY <1>13, <1>14 DEF PlacedOk
<1>16. PICK C : C = T \cup R
  OBVIOUS
<1>17. IsUnion(C, T, R) /\ Disjoint(T, P2)
  BY <1>8, <1>16 DEF IsUnion, Disjoint
<1>18. Eff(d, B, f, C) /\ Disjoint(T, R) /\ Agree(View(d), View(f), T)
  BY <1>7, <1>11, <1>15, <1>17, EffWiden
<1>19. Agree(W, X, Pages(W, n, p))
  BY <1>5, <1>15, <1>18
<1>20. Tree(X, n, p, lo, sep) /\ Pages(X, n, p) = T
  BY <1>5, <1>19, TreeFrame DEF TreeKept
<1>21. Eff(e, A, f, C)
  BY <1>8, <1>18, EffTrans
<1>22. r = [ctx |-> f, id |-> p, sep |-> sep, sibling |-> q]
  BY <1>1, <1>4, <1>12, <1>14 DEF SplitInto, PutRight, Siblings
<1>23. r.ctx = f /\ r.id = p /\ r.sep = sep /\ r.sibling = q
  BY <1>22
<1>24. View(r.ctx) = X
  BY <1>15, <1>23
<1> QED
  BY <1>5, <1>15, <1>17, <1>18, <1>20, <1>21, <1>23, <1>24 DEF InsTwo

(* A leaf that is split leaves two trees with a separator.                    *)
LEMMA LeafSplitOk ==
    ASSUME NEW e, Books(e), NEW V, V = View(e), NEW n, n = 0, NEW node,
           NEW lo \in Int, NEW hi \in Int, Body(V, n, node, lo, hi),
           ~(encoded_len(node) <= SPLIT_THRESHOLD),
           NEW P, P = BodyPages(V, n, node), Disjoint(P, Spare(e)),
           NEW id \in Nat \ {None}, id \notin Spare(e), id \notin P,
           NEW A, IsUnion(A, P, {id}), NEW r, r = LeafSplit(e, id, node)
    PROVE  InsTwo(e, A, r, n, lo, hi)
<1>1. PICK ks, vs : ks = node.keys /\ vs = node.values
  OBVIOUS
<1>2. Body(V, 0, node, lo, hi)
  OBVIOUS
<1>3. node = Leaf(ks, vs) /\ LeafIs(V, ks, vs, lo, hi) /\ P = AllValues(V, vs)
  BY <1>1, <1>2, LeafParts
<1>4. PICK m, mid, i : m = Len(ks) /\ mid = Len(ks) \div 2 /\ i = (Len(ks) \div 2) + 1
  OBVIOUS
<1>5. m \in Nat /\ m \div 2 \in 1 .. m - 1
  BY <1>3, <1>4, LeafLarge
<1>6. mid \in 1 .. m - 1 /\ i = mid + 1
  BY <1>4, <1>5
<1>7. PICK k1, v1 : k1 = Until(ks, mid) /\ v1 = Until(vs, mid)
  OBVIOUS
<1>8. PICK k2, v2, sep : k2 = From(ks, i) /\ v2 = From(vs, i) /\ sep = ks[i]
  OBVIOUS
<1>9. /\ LeafIs(V, k1, v1, lo, sep) /\ LeafIs(V, k2, v2, sep, hi)
      /\ sep \in Int /\ lo < sep /\ sep < hi
      /\ IsUnion(AllValues(V, vs), AllValues(V, v1), AllValues(V, v2))
      /\ Disjoint(AllValues(V, v1), AllValues(V, v2))
  BY <1>3, <1>4, <1>6, <1>7, <1>8, LeafHalves
<1>10. PICK left, right : left = Leaf(k1, v1) /\ right = Leaf(k2, v2)
  OBVIOUS
<1>11. Body(V, 0, left, lo, sep) /\ BodyPages(V, 0, left) = AllValues(V, v1)
  BY <1>9, <1>10, LeafBuilt
<1>12. Body(V, 0, right, sep, hi) /\ BodyPages(V, 0, right) = AllValues(V, v2)
  BY <1>9, <1>10, LeafBuilt
<1>13. r = SplitInto(e, id, left, sep, right)
  BY <1>1, <1>4, <1>6, <1>7, <1>8, <1>10, Zenon DEF LeafSplit
<1>14. PICK P1, P2 : P1 = AllValues(V, v1) /\ P2 = AllValues(V, v2)
  OBVIOUS
<1>15. /\ Body(V, n, left, lo, sep) /\ Body(V, n, right, sep, hi) /\ n \in Nat
       /\ P1 = BodyPages(V, n, left) /\ P2 = BodyPages(V, n, right)
       /\ Disjoint(P1, P2) /\ IsUnion(P, P1, P2)
  BY <1>3, <1>9, <1>11, <1>12, <1>14
<1> QED
  BY <1>9, <1>13, <1>15, SplitOk

(* An internal node that is split leaves two trees with a separator.          *)
LEMMA InternalSplitOk ==
    ASSUME NEW e, Books(e), NEW V, V = View(e), NEW j \in Nat, NEW n, n = j + 1, NEW node,
           NEW lo \in Int, NEW hi \in Int, lo < hi, Body(V, n, node, lo, hi),
           ~(encoded_len(node) <= SPLIT_THRESHOLD),
           NEW P, P = BodyPages(V, n, node), Disjoint(P, Spare(e)),
           NEW id \in Nat \ {None}, id \notin Spare(e), id \notin P,
           NEW A, IsUnion(A, P, {id}), NEW r, r = InternalSplit(e, id, node)
    PROVE  InsTwo(e, A, r, n, lo, hi)
<1>1. PICK ks, cs : ks = node.keys /\ cs = node.children
  OBVIOUS
<1>3. node = Internal(ks, cs) /\ InnerIs(V, j, ks, cs, lo, hi) /\ P = KidPages(V, j, cs)
  BY <1>1, InnerParts
<1>4. PICK k, mid, i, t : /\ k = Len(ks) /\ mid = Len(ks) \div 2
                          /\ i = (Len(ks) \div 2) + 1 /\ t = (Len(ks) \div 2) + 2
  OBVIOUS
<1>5. k \in Nat /\ k \div 2 \in 0 .. k - 1
  BY <1>3, <1>4, InnerLarge
<1>6. mid \in 0 .. k - 1 /\ i = mid + 1 /\ t = mid + 2
  BY <1>4, <1>5
<1>60. k = Len(ks) /\ InnerIs(V, j, ks, cs, lo, hi)
  BY <1>3, <1>4
<1>7. PICK k1, c1 : k1 = Until(ks, mid) /\ c1 = Until(cs, i)
  OBVIOUS
<1>8. PICK k2, c2, sep : k2 = From(ks, t) /\ c2 = From(cs, t) /\ sep = ks[i]
  OBVIOUS
<1>9. /\ InnerIs(V, j, k1, c1, lo, sep) /\ InnerIs(V, j, k2, c2, sep, hi)
      /\ sep \in Int /\ lo < sep /\ sep < hi
      /\ IsUnion(KidPages(V, j, cs), KidPages(V, j, c1), KidPages(V, j, c2))
      /\ Disjoint(KidPages(V, j, c1), KidPages(V, j, c2))
  <2>1. Cut(ks, cs, k, mid, i, t, sep, k1, c1, k2, c2)
    BY <1>60, <1>6, <1>7, <1>8 DEF Cut
  <2>2. CutOk(V, j, cs, k1, c1, k2, c2, lo, sep, hi)
    BY <2>1, <1>60, InnerHalves
  <2> QED
    BY <2>2 DEF CutOk
<1>10. PICK left, right : left = Internal(k1, c1) /\ right = Internal(k2, c2)
  OBVIOUS
<1>11. Body(V, n, left, lo, sep) /\ BodyPages(V, n, left) = KidPages(V, j, c1)
  BY <1>9, <1>10, InnerBuilt
<1>12. Body(V, n, right, sep, hi) /\ BodyPages(V, n, right) = KidPages(V, j, c2)
  BY <1>9, <1>10, InnerBuilt
<1>13. r = SplitInto(e, id, left, sep, right)
  <2>1. r = SplitInto(e, id,
                Internal(Until(ks, mid), Until(cs, mid + 1)), ks[mid + 1],
                Internal(From(ks, mid + 2), From(cs, mid + 2)))
    BY <1>1, <1>4, Zenon DEF InternalSplit
  <2> QED
    BY <1>6, <1>7, <1>8, <1>10, <2>1, Zenon
<1>14. PICK P1, P2 : P1 = KidPages(V, j, c1) /\ P2 = KidPages(V, j, c2)
  OBVIOUS
<1>15. /\ Body(V, n, left, lo, sep) /\ Body(V, n, right, sep, hi) /\ n \in Nat
       /\ P1 = BodyPages(V, n, left) /\ P2 = BodyPages(V, n, right)
       /\ Disjoint(P1, P2) /\ IsUnion(P, P1, P2)
  BY <1>3, <1>9, <1>11, <1>12, <1>14
<1> QED
  BY <1>9, <1>13, <1>15, SplitOk

(* What insert_rec ends with: the node fits, or is split.                     *)
LEMMA SplitOrReplaceOk ==
    ASSUME NEW e, Books(e), NEW V, V = View(e), NEW n \in Nat, NEW node,
           NEW lo \in Int, NEW hi \in Int, lo < hi, Body(V, n, node, lo, hi),
           NEW P, P = BodyPages(V, n, node), Disjoint(P, Spare(e)),
           NEW id \in Nat \ {None}, id \notin Spare(e), id \notin P,
           NEW A, IsUnion(A, P, {id}), NEW r, r = SplitOrReplace(e, id, node)
    PROVE  InsOk(e, A, r, n, lo, hi)
<1>0. node.leaf <=> n = 0
  BY BodyIsNode
<1>1. CASE encoded_len(node) <= SPLIT_THRESHOLD
  <2>1. PICK p : p = ReplaceNode(e, id, node)
    OBVIOUS
  <2>2. PlacedOk(e, A, p, n, lo, hi)
    BY <2>1, NodeReplaced
  <2>3. r = [ctx |-> p.ctx, id |-> p.id, sep |-> 0, sibling |-> None]
    BY <1>1, <2>1 DEF SplitOrReplace, NoSplit
  <2>4. r.ctx = p.ctx /\ r.id = p.id /\ r.sibling = None
    BY <2>3
  <2> QED
    BY <2>2, <2>4 DEF InsOk, InsOne, PlacedOk
<1>2. CASE ~(encoded_len(node) <= SPLIT_THRESHOLD) /\ n = 0
  <2>1. r = LeafSplit(e, id, node)
    BY <1>0, <1>2, Zenon DEF SplitOrReplace
  <2> QED
    BY <1>2, <2>1, LeafSplitOk DEF InsOk
<1>3. CASE ~(encoded_len(node) <= SPLIT_THRESHOLD) /\ n # 0
  <2>1. r = InternalSplit(e, id, node)
    BY <1>0, <1>3, Zenon DEF SplitOrReplace
  <2>2. PICK j : j = n - 1
    OBVIOUS
  <2>3. j \in Nat /\ n = j + 1
    BY <1>3, <2>2
  <2> QED
    BY <1>3, <2>1, <2>3, InternalSplitOk DEF InsOk
<1> QED
  BY <1>1, <1>2, <1>3

-------------------------------------------------------------------------------
(* insert_rec.                                                                *)

(* Files that agree with a third one.                                         *)
LEMMA AgreeTrans ==
    ASSUME NEW U, NEW V, NEW W, NEW S, Agree(U, V, S), Agree(V, W, S)
    PROVE  Agree(U, W, S)
  BY DEF Agree

(* An insert into what an earlier operation left.                             *)
LEMMA InsAfter ==
    ASSUME NEW c, Books(c), NEW S, NEW e, NEW T, Eff(c, S, e, T), NEW r, NEW n,
           NEW lo, NEW hi, InsOk(e, T, r, n, lo, hi)
    PROVE  InsOk(c, S, r, n, lo, hi)
<1>1. CASE InsOne(e, T, r, n, lo, hi)
  <2>1. PICK P : P = Pages(View(r.ctx), n, r.id) /\ Eff(e, T, r.ctx, P)
    BY <1>1 DEF InsOne, PlacedOk
  <2>2. Eff(c, S, r.ctx, P)
    BY <2>1, EffTrans
  <2> QED
    BY <1>1, <2>1, <2>2 DEF InsOk, InsOne, PlacedOk
<1>2. CASE InsTwo(e, T, r, n, lo, hi)
  <2>1. PICK P, f : /\ IsUnion(P, Pages(View(r.ctx), n, r.id), Pages(View(r.ctx), n, r.sibling))
                    /\ Eff(e, T, f, P) /\ f = r.ctx
    BY <1>2 DEF InsTwo
  <2>2. Eff(c, S, r.ctx, P)
    BY <2>1, EffTrans
  <2> QED
    BY <1>2, <2>1, <2>2 DEF InsOk, InsTwo
<1> QED
  BY <1>1, <1>2 DEF InsOk

(* The subtree at id, with its page: P below it, and A in all.                *)
Rooted(c, id, P, A) ==
    /\ id \in Nat \ {None} /\ id \notin P /\ IsUnion(A, P, {id}) /\ Disjoint(A, Spare(c))

(* A node is built in a context with what is left of A and new pages R.       *)
LEMMA InsStored ==
    ASSUME NEW c, Books(c), NEW A, NEW e, NEW U, NEW O, NEW id \in Nat \ {None},
           id \notin O, IsUnion(U, O, {id}), NEW R, Disjoint(U, R), NEW B, IsUnion(B, U, R),
           Eff(c, A, e, B), NEW W, W = View(e), NEW n \in Nat, NEW node,
           NEW lo \in Int, NEW hi \in Int, lo < hi, Body(W, n, node, lo, hi),
           NEW P, P = BodyPages(W, n, node), IsUnion(P, O, R),
           NEW r, r = SplitOrReplace(e, id, node)
    PROVE  InsOk(c, A, r, n, lo, hi)
<1>1. Books(e) /\ Disjoint(B, Spare(e))
  BY EffDisjoint
<1>2. id \notin P /\ id \notin Spare(e) /\ Disjoint(P, Spare(e)) /\ IsUnion(B, P, {id})
  BY <1>1 DEF IsUnion, Disjoint
<1>3. InsOk(e, B, r, n, lo, hi)
  BY <1>1, <1>2, SplitOrReplaceOk
<1> QED
  BY <1>3, InsAfter

(* The value of a key that is there is replaced: the old chain goes.          *)
LEMMA OverwriteOk ==
    ASSUME NEW c, Books(c), NEW V, V = View(c), NEW node, NEW lo \in Int, NEW hi \in Int,
           lo < hi, Body(V, 0, node, lo, hi), NEW P, P = BodyPages(V, 0, node),
           NEW id, NEW A, Rooted(c, id, P, A), NEW value \in Seq(Int),
           NEW idx \in 1 .. Len(node.keys),
           NEW r, r = OverwriteEntry(id, node, idx,
                          store_value(retire_value(c, node.values[idx]), value))
    PROVE  InsOk(c, A, r, 0, lo, hi)
<1>1. PICK ks, vs : ks = node.keys /\ vs = node.values
  OBVIOUS
<1>2. node = Leaf(ks, vs) /\ LeafIs(V, ks, vs, lo, hi) /\ P = AllValues(V, vs)
  BY <1>1, LeafParts
<1>3. vs \in Seq(ValueSet) /\ Len(vs) = Len(ks) /\ ValuesApart(V, vs)
  BY <1>2 DEF LeafIs
<1>4. idx \in 1 .. Len(vs)
  BY <1>1, <1>3
<1>5. PICK v, O, Q : v = vs[idx] /\ O = ValuesAmong(V, vs, Others(vs, idx)) /\ Q = ValuePages(V, vs[idx])
  OBVIOUS
<1>6. IsUnion(P, O, Q) /\ Disjoint(O, Q)
  BY <1>2, <1>3, <1>4, <1>5, LeafOthers
<1>7. ValueOk(V, v) /\ Q = ValuePages(V, v)
  BY <1>3, <1>4, <1>5 DEF ValuesApart
<1>8. PICK U : U = O \cup {id}
  OBVIOUS
<1>9. /\ id \in Nat \ {None} /\ id \notin O /\ IsUnion(U, O, {id}) /\ Disjoint(U, Q)
      /\ IsUnion(A, U, Q) /\ Disjoint(U, Spare(c)) /\ Disjoint(Q, Spare(c))
      /\ IsUnion(U, U, {})
  BY <1>6, <1>8 DEF Rooted, IsUnion, Disjoint
<1>10. PICK d : d = retire_value(c, v)
  OBVIOUS
<1>11. Eff(c, Q, d, {})
  BY <1>7, <1>9, <1>10, RetireValueEff
<1>12. Eff(c, A, d, U) /\ Disjoint(U, Spare(d)) /\ Agree(View(c), View(d), U)
  BY <1>9, <1>11, EffWiden
<1>13. PICK s : s = store_value(d, value)
  OBVIOUS
<1>14. Books(d)
  BY <1>11, EffDisjoint
<1>15. StoredOk(d, s)
  BY <1>13, <1>14, StoreValueOk
<1>16. PICK e, W, x, R, B : /\ e = s.ctx /\ W = View(s.ctx) /\ x = s.value
                            /\ R = ValuePages(View(s.ctx), s.value) /\ B = U \cup R
  OBVIOUS
<1>17. /\ Eff(d, {}, e, R) /\ ValueOk(W, x) /\ x \in ValueSet /\ R = ValuePages(W, x)
       /\ W = View(e)
  BY <1>15, <1>16 DEF StoredOk
<1>18. Disjoint(U, {}) /\ IsUnion(B, U, R)
  BY <1>16 DEF IsUnion, Disjoint
<1>19. Eff(d, U, e, B) /\ Disjoint(U, R) /\ Agree(View(d), View(e), U)
  BY <1>9, <1>12, <1>17, <1>18, EffWiden
<1>20. Eff(c, A, e, B)
  BY <1>12, <1>19, EffTrans
<1>21. Agree(View(c), View(e), U)
  BY <1>12, <1>19, AgreeTrans
<1>22. Agree(V, W, O) /\ Disjoint(R, O)
  BY <1>8, <1>17, <1>19, <1>21 DEF Agree, Disjoint
<1>23. PICK ds : ds = ReplaceAt(vs, idx, x)
  OBVIOUS
<1>24. LeafIs(W, ks, ds, lo, hi) /\ IsUnion(AllValues(W, ds), O, R)
  <2>1. /\ Agree(V, W, ValuesAmong(V, vs, Others(vs, idx)))
        /\ Disjoint(ValuePages(W, x), ValuesAmong(V, vs, Others(vs, idx)))
    BY <1>5, <1>17, <1>22
  <2>2. /\ LeafIs(W, ks, ds, lo, hi)
        /\ IsUnion(AllValues(W, ds), ValuesAmong(V, vs, Others(vs, idx)), ValuePages(W, x))
    BY <1>2, <1>4, <1>17, <1>23, <2>1, LeafReplace
  <2> QED
    BY <1>5, <1>17, <2>2
<1>25. PICK new : new = Leaf(ks, ds)
  OBVIOUS
<1>26. Body(W, 0, new, lo, hi) /\ BodyPages(W, 0, new) = AllValues(W, ds)
  BY <1>24, <1>25, LeafBuilt
<1>27. r = SplitOrReplace(e, id, new)
  BY <1>1, <1>5, <1>10, <1>13, <1>16, <1>23, <1>25, Zenon DEF OverwriteEntry
<1>28. PICK P2 : P2 = BodyPages(W, 0, new)
  OBVIOUS
<1>29. IsUnion(P2, O, R)
  BY <1>24, <1>26, <1>28
<1>30. PICK n \in Nat : n = 0
  OBVIOUS
<1>31. Body(W, n, new, lo, hi) /\ P2 = BodyPages(W, n, new)
  BY <1>26, <1>28, <1>30
<1>32. InsOk(c, A, r, n, lo, hi)
  BY <1>9, <1>17, <1>18, <1>19, <1>20, <1>27, <1>29, <1>31, InsStored
<1> QED
  BY <1>30, <1>32

(* A new key is put into the leaf.                                            *)
LEMMA InsertEntryOk ==
    ASSUME NEW c, Books(c), NEW V, V = View(c), NEW node, NEW lo \in Int, NEW hi \in Int,
           Body(V, 0, node, lo, hi), NEW P, P = BodyPages(V, 0, node),
           NEW id, NEW A, Rooted(c, id, P, A), NEW value \in Seq(Int),
           NEW key \in Int, lo <= key, key < hi, ~Found(node.keys, key),
           NEW idx, idx = SearchIndex(node.keys, key),
           NEW r, r = InsertEntry(id, node, idx, key, store_value(c, value))
    PROVE  InsOk(c, A, r, 0, lo, hi)
<1>1. PICK ks, vs : ks = node.keys /\ vs = node.values
  OBVIOUS
<1>2. node = Leaf(ks, vs) /\ LeafIs(V, ks, vs, lo, hi) /\ P = AllValues(V, vs)
  BY <1>1, LeafParts
<1>9. /\ id \in Nat \ {None} /\ id \notin P /\ IsUnion(A, P, {id})
      /\ Disjoint(A, Spare(c)) /\ Disjoint(A, {}) /\ IsUnion(A, A, {})
  BY DEF Rooted, IsUnion, Disjoint
<1>13. PICK s : s = store_value(c, value)
  OBVIOUS
<1>15. StoredOk(c, s)
  BY <1>13, StoreValueOk
<1>16. PICK e, W, x, R, B : /\ e = s.ctx /\ W = View(s.ctx) /\ x = s.value
                            /\ R = ValuePages(View(s.ctx), s.value) /\ B = A \cup R
  OBVIOUS
<1>17. /\ Eff(c, {}, e, R) /\ ValueOk(W, x) /\ x \in ValueSet /\ R = ValuePages(W, x)
       /\ W = View(e)
  BY <1>15, <1>16 DEF StoredOk
<1>18. IsUnion(B, A, R)
  BY <1>16 DEF IsUnion
<1>19. Eff(c, A, e, B) /\ Disjoint(A, R) /\ Agree(View(c), View(e), A)
  BY <1>9, <1>17, <1>18, EffWiden
<1>20. Agree(V, W, BodyPages(V, 0, node)) /\ Disjoint(R, P)
  BY <1>9, <1>17, <1>19 DEF Agree, Disjoint, IsUnion
<1>21. PICK n \in Nat : n = 0
  OBVIOUS
<1>22. Body(W, n, node, lo, hi) /\ BodyPages(W, n, node) = P
  <2>1. Body(V, n, node, lo, hi) /\ Agree(V, W, BodyPages(V, n, node)) /\ P = BodyPages(V, n, node)
    BY <1>20, <1>21
  <2> QED
    BY <2>1, BodyFrame DEF BodyKept
<1>23. Body(W, 0, node, lo, hi) /\ BodyPages(W, 0, node) = P
  BY <1>21, <1>22
<1>24. LeafIs(W, ks, vs, lo, hi) /\ P = AllValues(W, vs)
  BY <1>1, <1>23, LeafParts
<1>25. PICK qs, ds : qs = InsertAt(ks, idx, key) /\ ds = InsertAt(vs, idx, x)
  OBVIOUS
<1>26. LeafIs(W, qs, ds, lo, hi) /\ IsUnion(AllValues(W, ds), P, R)
  <2>1. ~Found(ks, key) /\ idx = SearchIndex(ks, key) /\ Disjoint(ValuePages(W, x), AllValues(W, vs))
    BY <1>1, <1>17, <1>20, <1>24
  <2>2. /\ LeafIs(W, qs, ds, lo, hi)
        /\ IsUnion(AllValues(W, ds), AllValues(W, vs), ValuePages(W, x))
    BY <1>17, <1>24, <1>25, <2>1, LeafInsert
  <2> QED
    BY <1>17, <1>24, <2>2
<1>27. PICK new : new = Leaf(qs, ds)
  OBVIOUS
<1>28. Body(W, 0, new, lo, hi) /\ BodyPages(W, 0, new) = AllValues(W, ds)
  BY <1>26, <1>27, LeafBuilt
<1>29. r = SplitOrReplace(e, id, new)
  BY <1>1, <1>13, <1>16, <1>25, <1>27, Zenon DEF InsertEntry
<1>30. PICK P2 : P2 = BodyPages(W, n, new)
  OBVIOUS
<1>31. /\ IsUnion(P2, P, R) /\ Body(W, n, new, lo, hi) /\ lo < hi
  BY <1>21, <1>26, <1>28, <1>30
<1>32. InsOk(c, A, r, n, lo, hi)
  BY <1>9, <1>17, <1>18, <1>19, <1>29, <1>30, <1>31, InsStored
<1> QED
  BY <1>21, <1>32

(* insert_rec at a leaf.                                                      *)
LEMMA InsertLeafOk ==
    ASSUME NEW c, Books(c), NEW V, V = View(c), NEW node, NEW lo \in Int, NEW hi \in Int,
           Body(V, 0, node, lo, hi), NEW P, P = BodyPages(V, 0, node),
           NEW id, NEW A, Rooted(c, id, P, A), NEW value \in Seq(Int),
           NEW key \in Int, lo <= key, key < hi,
           NEW r, r = InsertAtLeaf(c, id, node, key, value)
    PROVE  InsOk(c, A, r, 0, lo, hi)
<1>1. PICK idx, ks : idx = SearchIndex(node.keys, key) /\ ks = node.keys
  OBVIOUS
<1>2. r = InsertIntoLeaf(c, id, node, idx, key, value)
  BY <1>1 DEF InsertAtLeaf
<1>3. CASE Found(ks, key)
  <2>1. r = OverwriteEntry(id, node, idx,
                          store_value(retire_value(c, node.values[idx]), value))
    BY <1>1, <1>2, <1>3, Zenon DEF InsertIntoLeaf
  <2>2. LeafIs(V, ks, node.values, lo, hi)
    BY <1>1, LeafParts
  <2>3. ks \in Seq(Int) /\ Ascending(ks)
    <3>1. ks \in Seq(Int) /\ KeysOrdered(ks, lo, hi)
      BY <2>2 DEF LeafIs
    <3>2. PICK m : m = Len(ks)
      OBVIOUS
    <3>3. m \in Nat
      BY <3>1, <3>2, LenProperties
    <3> QED
      BY <3>1, <3>2, <3>3, KeysOrderedDef DEF Ascending
  <2>4. SearchIndex(ks, key) \in 1 .. Len(ks)
    BY <1>3, <2>3, SearchFacts
  <2>5. idx \in 1 .. Len(node.keys) /\ lo < hi
    BY <1>1, <2>4
  <2> QED
    BY <2>1, <2>5, OverwriteOk
<1>4. CASE ~Found(ks, key)
  <2>1. r = InsertEntry(id, node, idx, key, store_value(c, value))
    BY <1>1, <1>2, <1>4, Zenon DEF InsertIntoLeaf
  <2>2. ~Found(node.keys, key)
    BY <1>1, <1>4
  <2> QED
    BY <1>1, <2>1, <2>2, InsertEntryOk
<1> QED
  BY <1>3, <1>4

-------------------------------------------------------------------------------

(* A subtree below an internal node was changed: what is beside it remains.   *)
BesideOk(c, A, e, B, U, R, V, W, O, id) ==
    /\ Eff(c, A, e, B) /\ Disjoint(U, R) /\ Agree(V, W, O) /\ Disjoint(R, O)
    /\ id \notin O /\ id \in Nat \ {None}

(* The trees beside the child keep their pages and what these hold.           *)
LEMMA KidBeside ==
    ASSUME NEW c, Books(c), NEW V, V = View(c), NEW n \in Nat, NEW ks, NEW cs,
           NEW lo, NEW hi, InnerIs(V, n, ks, cs, lo, hi), NEW idx \in 1 .. Len(cs),
           NEW id, NEW A, NEW P, P = KidPages(V, n, cs), Rooted(c, id, P, A),
           NEW O, O = Among(V, n, cs, Others(cs, idx)), NEW Q, Q = Pages(V, n, cs[idx]),
           NEW e, NEW R, Eff(c, Q, e, R), NEW W, W = View(e),
           NEW U, IsUnion(U, O, {id}), NEW B, IsUnion(B, U, R)
    PROVE  BesideOk(c, A, e, B, U, R, V, W, O, id)
<1>1. Kids(V, n, ks, cs, lo, hi)
  BY DEF InnerIs
<1>2. IsUnion(P, O, Q) /\ Disjoint(O, Q)
  BY <1>1, KidOthers
<1>3. /\ id \in Nat \ {None} /\ id \notin O /\ Disjoint(U, Q)
      /\ IsUnion(A, U, Q) /\ Disjoint(U, Spare(c))
  BY <1>2 DEF Rooted, IsUnion, Disjoint
<1>4. Eff(c, A, e, B) /\ Disjoint(U, R) /\ Agree(View(c), View(e), U)
  BY <1>3, EffWiden
<1>5. Agree(V, W, O) /\ Disjoint(R, O)
  BY <1>4 DEF Agree, Disjoint, IsUnion
<1> QED
  BY <1>3, <1>4, <1>5 DEF BesideOk

(* The child was not split: its new page takes the place of the old.          *)
LEMMA AfterOneOk ==
    ASSUME NEW c, Books(c), NEW V, V = View(c), NEW n \in Nat, NEW m, m = n + 1,
           NEW node, NEW lo \in Int, NEW hi \in Int, lo < hi, Body(V, m, node, lo, hi),
           NEW P, P = BodyPages(V, m, node), NEW id, NEW A, Rooted(c, id, P, A),
           NEW ks, NEW cs, ks = node.keys, cs = node.children, NEW idx \in 1 .. Len(cs),
           NEW down, InsOne(c, Pages(V, n, cs[idx]), down, n,
                            Bound(ks, lo, hi, idx - 1), Bound(ks, lo, hi, idx)),
           NEW r, r = AfterInsert(id, node, idx, down)
    PROVE  InsOk(c, A, r, m, lo, hi)
<1>1. node = Internal(ks, cs) /\ InnerIs(V, n, ks, cs, lo, hi) /\ P = KidPages(V, n, cs)
  BY InnerParts
<1>2. PICK O, Q, a, b : /\ O = Among(V, n, cs, Others(cs, idx)) /\ Q = Pages(V, n, cs[idx])
                        /\ a = Bound(ks, lo, hi, idx - 1) /\ b = Bound(ks, lo, hi, idx)
  OBVIOUS
<1>3. InsOne(c, Q, down, n, a, b)
  BY <1>2
<1>4. PICK e, W, q, R : /\ e = down.ctx /\ W = View(down.ctx) /\ q = down.id
                        /\ R = Pages(View(down.ctx), n, down.id)
  OBVIOUS
<1>5. /\ down.sibling = None /\ Tree(W, n, q, a, b) /\ Eff(c, Q, e, R)
      /\ q \in Nat \ {None} /\ W = View(e) /\ R = Pages(W, n, q)
  BY <1>3, <1>4 DEF InsOne, PlacedOk
<1>6. PICK U, B : U = O \cup {id} /\ B = O \cup {id} \cup R
  OBVIOUS
<1>7. IsUnion(U, O, {id}) /\ IsUnion(B, U, R)
  BY <1>6 DEF IsUnion
<1>8. /\ Eff(c, A, e, B) /\ Disjoint(U, R) /\ Agree(V, W, O) /\ Disjoint(R, O)
      /\ id \notin O /\ id \in Nat \ {None}
  <2>1. BesideOk(c, A, e, B, U, R, V, W, O, id)
    BY <1>1, <1>2, <1>5, <1>7, KidBeside
  <2> QED
    BY <2>1 DEF BesideOk
<1>9. PICK ds : ds = ReplaceAt(cs, idx, q)
  OBVIOUS
<1>10. InnerIs(W, n, ks, ds, lo, hi) /\ IsUnion(KidPages(W, n, ds), O, R)
  <2>1. /\ Agree(V, W, Among(V, n, cs, Others(cs, idx)))
        /\ Tree(W, n, q, Bound(ks, lo, hi, idx - 1), Bound(ks, lo, hi, idx))
        /\ Disjoint(Pages(W, n, q), Among(V, n, cs, Others(cs, idx)))
    BY <1>2, <1>5, <1>8
  <2>2. /\ InnerIs(W, n, ks, ds, lo, hi)
        /\ IsUnion(KidPages(W, n, ds), Among(V, n, cs, Others(cs, idx)), Pages(W, n, q))
    BY <1>1, <1>5, <1>9, <2>1, InnerReplace
  <2> QED
    BY <1>2, <1>5, <2>2
<1>11. PICK new : new = Internal(ks, ds)
  OBVIOUS
<1>12. Body(W, m, new, lo, hi) /\ BodyPages(W, m, new) = KidPages(W, n, ds)
  BY <1>10, <1>11, InnerBuilt
<1>13. r = SplitOrReplace(e, id, new)
  BY <1>4, <1>5, <1>9, <1>11, Zenon DEF AfterInsert
<1>14. PICK P2 : P2 = BodyPages(W, m, new)
  OBVIOUS
<1>15. IsUnion(P2, O, R) /\ m \in Nat
  BY <1>10, <1>12, <1>14
<1> QED
  BY <1>5, <1>7, <1>8, <1>12, <1>13, <1>14, <1>15, InsStored

(* The child was split: the separator and the right half are put in.          *)
LEMMA AfterTwoOk ==
    ASSUME NEW c, Books(c), NEW V, V = View(c), NEW n \in Nat, NEW m, m = n + 1,
           NEW node, NEW lo \in Int, NEW hi \in Int, lo < hi, Body(V, m, node, lo, hi),
           NEW P, P = BodyPages(V, m, node), NEW id, NEW A, Rooted(c, id, P, A),
           NEW ks, NEW cs, ks = node.keys, cs = node.children, NEW idx \in 1 .. Len(cs),
           NEW down, InsTwo(c, Pages(V, n, cs[idx]), down, n,
                            Bound(ks, lo, hi, idx - 1), Bound(ks, lo, hi, idx)),
           NEW r, r = AfterInsert(id, node, idx, down)
    PROVE  InsOk(c, A, r, m, lo, hi)
<1>1. node = Internal(ks, cs) /\ InnerIs(V, n, ks, cs, lo, hi) /\ P = KidPages(V, n, cs)
  BY InnerParts
<1>2. PICK O, Q, a, b : /\ O = Among(V, n, cs, Others(cs, idx)) /\ Q = Pages(V, n, cs[idx])
                        /\ a = Bound(ks, lo, hi, idx - 1) /\ b = Bound(ks, lo, hi, idx)
  OBVIOUS
<1>3. InsTwo(c, Q, down, n, a, b)
  BY <1>2
<1>4. PICK e, W, q, s, sep : /\ e = down.ctx /\ W = View(down.ctx) /\ q = down.id
                             /\ s = down.sibling /\ sep = down.sep
  OBVIOUS
<1>5. /\ Tree(W, n, q, a, sep) /\ Tree(W, n, s, sep, b)
      /\ q \in Nat \ {None} /\ s \in Nat \ {None} /\ W = View(e)
      /\ sep \in Int /\ a < sep /\ sep < b /\ down.sibling # None
      /\ Disjoint(Pages(W, n, q), Pages(W, n, s))
  BY <1>3, <1>4 DEF InsTwo
<1>50. PICK R : IsUnion(R, Pages(W, n, q), Pages(W, n, s)) /\ Eff(c, Q, e, R)
  BY <1>3, <1>4 DEF InsTwo
<1>6. PICK U, B : U = O \cup {id} /\ B = O \cup {id} \cup R
  OBVIOUS
<1>7. IsUnion(U, O, {id}) /\ IsUnion(B, U, R)
  BY <1>6 DEF IsUnion
<1>8. /\ Eff(c, A, e, B) /\ Disjoint(U, R) /\ Agree(V, W, O) /\ Disjoint(R, O)
      /\ id \notin O /\ id \in Nat \ {None}
  <2>1. BesideOk(c, A, e, B, U, R, V, W, O, id)
    BY <1>1, <1>2, <1>5, <1>50, <1>7, KidBeside
  <2> QED
    BY <2>1 DEF BesideOk
<1>9. PICK t, nx, qs, ds : /\ t = ReplaceAt(cs, idx, q) /\ nx = idx + 1
                           /\ qs = InsertAt(ks, idx, sep)
                           /\ ds = InsertAt(ReplaceAt(cs, idx, q), idx + 1, s)
  OBVIOUS
<1>90. t = ReplaceAt(cs, idx, q) /\ ds = InsertAt(t, nx, s)
  BY <1>9
<1>10. InnerIs(W, n, qs, ds, lo, hi) /\ IsUnion(KidPages(W, n, ds), O, R)
  <2>1. /\ Agree(V, W, Among(V, n, cs, Others(cs, idx)))
        /\ Tree(W, n, q, Bound(ks, lo, hi, idx - 1), sep)
        /\ Tree(W, n, s, sep, Bound(ks, lo, hi, idx))
        /\ Bound(ks, lo, hi, idx - 1) < sep /\ sep < Bound(ks, lo, hi, idx)
    BY <1>2, <1>5, <1>8
  <2>2. /\ Disjoint(Pages(W, n, q), Among(V, n, cs, Others(cs, idx)))
        /\ Disjoint(Pages(W, n, s), Among(V, n, cs, Others(cs, idx)))
    BY <1>2, <1>50, <1>8 DEF Disjoint, IsUnion
  <2>3. /\ InnerIs(W, n, qs, ds, lo, hi)
        /\ \E X : /\ IsUnion(X, Pages(W, n, q), Pages(W, n, s))
                  /\ IsUnion(KidPages(W, n, ds), Among(V, n, cs, Others(cs, idx)), X)
    BY <1>1, <1>5, <1>9, <1>90, <2>1, <2>2, InnerInsert
  <2>4. PICK X : /\ IsUnion(X, Pages(W, n, q), Pages(W, n, s))
                 /\ IsUnion(KidPages(W, n, ds), Among(V, n, cs, Others(cs, idx)), X)
    BY <2>3
  <2>5. X = R
    BY <1>50, <2>4 DEF IsUnion
  <2> QED
    BY <1>2, <2>3, <2>4, <2>5
<1>11. PICK new : new = Internal(qs, ds)
  OBVIOUS
<1>12. Body(W, m, new, lo, hi) /\ BodyPages(W, m, new) = KidPages(W, n, ds)
  BY <1>10, <1>11, InnerBuilt
<1>13. r = SplitOrReplace(e, id, new)
  BY <1>4, <1>5, <1>9, <1>11, Zenon DEF AfterInsert
<1>14. PICK P2 : P2 = BodyPages(W, m, new)
  OBVIOUS
<1>15. IsUnion(P2, O, R) /\ m \in Nat
  BY <1>10, <1>12, <1>14
<1> QED
  BY <1>5, <1>7, <1>8, <1>12, <1>13, <1>14, <1>15, InsStored

(* child_index leads to the child whose bounds are around the key.            *)
LEMMA ChildBounds ==
    ASSUME NEW ks \in Seq(Int), NEW lo \in Int, NEW hi \in Int, KeysOrdered(ks, lo, hi),
           NEW key \in Int, lo <= key, key < hi, NEW idx, idx = child_index(ks, key)
    PROVE  /\ idx \in 1 .. Len(ks) + 1
           /\ Bound(ks, lo, hi, idx - 1) \in Int /\ Bound(ks, lo, hi, idx) \in Int
           /\ Bound(ks, lo, hi, idx - 1) <= key /\ key < Bound(ks, lo, hi, idx)
<1>1. PICK m : m = Len(ks)
  OBVIOUS
<1>2. m \in Nat
  BY <1>1, LenProperties
<1>3. Ascending(ks)
  BY <1>1, <1>2, KeysOrderedDef DEF Ascending
<1>4. idx \in 1 .. m + 1 /\ \A i \in 1 .. m : i < idx <=> ks[i] <= key
  BY <1>1, <1>3, ChildIndexFacts
<1>5. BoundsOf(ks, lo, hi, m)
  BY <1>1, <1>2, BoundAt
<1>6. \A i \in 1 .. m : ks[i] \in Int
  BY <1>1, ElementOfSeq
<1>7. Bound(ks, lo, hi, idx - 1) \in Int /\ Bound(ks, lo, hi, idx - 1) <= key
  <2>1. CASE idx = 1
    <3>1. idx - 1 = 0
      BY <2>1
    <3> QED
      BY <1>5, <3>1 DEF BoundsOf
  <2>2. CASE idx # 1
    <3>1. PICK i : i = idx - 1
      OBVIOUS
    <3>2. i \in 1 .. m /\ i < idx
      BY <1>2, <1>4, <2>2, <3>1
    <3> QED
      BY <1>4, <1>5, <1>6, <3>1, <3>2 DEF BoundsOf
  <2> QED
    BY <2>1, <2>2
<1>8. Bound(ks, lo, hi, idx) \in Int /\ key < Bound(ks, lo, hi, idx)
  <2>1. CASE idx = m + 1
    <3>1. idx \in Int /\ idx > m
      BY <1>2, <2>1
    <3> QED
      BY <1>5, <3>1 DEF BoundsOf
  <2>2. CASE idx # m + 1
    <3>1. idx \in 1 .. m /\ ~(idx < idx)
      BY <1>2, <1>4, <2>2
    <3> QED
      BY <1>4, <1>5, <1>6, <3>1 DEF BoundsOf
  <2> QED
    BY <2>1, <2>2
<1> QED
  BY <1>1, <1>4, <1>7, <1>8

(* insert_rec as a recursion: p is <<ctx, key, value>>.                       *)
InsBase(p) == [id \in Nat |-> InsertAtLeaf(p[1], id, read(p[1], id), p[2], p[3])]
InsStep(p, n, down) ==
    [id \in Nat |-> InsertAtNode(p[1], id, read(p[1], id), p[2], p[3], down)]
Ins == INSTANCE Recursion WITH Base <- InsBase, Step <- InsStep

(* read_node reads the overlay first, and then the file.                      *)
LEMMA ReadView ==
    ASSUME NEW c, NEW id, id \in DOMAIN View(c)
    PROVE  read(c, id) = View(c)[id]
  BY DEF read, read_node, View

InsEquations(c, key, value, g) ==
    /\ \A id \in Nat : g[0][id] = InsertAtLeaf(c, id, read(c, id), key, value)
    /\ \A n \in Nat, id \in Nat :
           g[n + 1][id] = InsertAtNode(c, id, read(c, id), key, value, g[n])

(* insert_rec is the recursion Ins.                                           *)
LEMMA InsertValues ==
    ASSUME NEW c, NEW key, NEW value, NEW g, g = Ins!Rec(<<c, key, value>>)
    PROVE  InsEquations(c, key, value, g)
<1>1. PICK p : p = <<c, key, value>>
  OBVIOUS
<1>2. p[1] = c /\ p[2] = key /\ p[3] = value
  BY <1>1
<1>3. g[0] = InsBase(p) /\ \A n \in Nat : g[n + 1] = InsStep(p, n + 1, g[n])
  BY <1>1, Ins!RecValues
<1>4. ASSUME NEW id \in Nat PROVE g[0][id] = InsertAtLeaf(c, id, read(c, id), key, value)
  BY <1>2, <1>3 DEF InsBase
<1>5. ASSUME NEW n \in Nat, NEW id \in Nat
      PROVE  g[n + 1][id] = InsertAtNode(c, id, read(c, id), key, value, g[n])
  <2>1. g[n + 1] = InsStep(p, n + 1, g[n])
    BY <1>3
  <2>2. InsStep(p, n + 1, g[n])
            = [i \in Nat |-> InsertAtNode(c, i, read(c, i), key, value, g[n])]
    BY <1>2, Zenon DEF InsStep
  <2> QED
    BY <2>1, <2>2
<1> QED
  BY <1>4, <1>5 DEF InsEquations

InsAt(c, V, g, key, n) ==
    \A f \in Nat : \A id, lo, hi :
        /\ n <= f /\ Tree(V, n, id, lo, hi) /\ Disjoint(Pages(V, n, id), Spare(c))
        /\ lo <= key /\ key < hi
        => InsOk(c, Pages(V, n, id), g[f][id], n, lo, hi)

(* The tree at id, taken apart.                                               *)
LEMMA TreeRooted ==
    ASSUME NEW c, NEW V, V = View(c), NEW n \in Nat, NEW id, NEW lo, NEW hi,
           Tree(V, n, id, lo, hi), Disjoint(Pages(V, n, id), Spare(c)),
           NEW node, node = read(c, id)
    PROVE  /\ Body(V, n, node, lo, hi) /\ id \in Nat \ {None} /\ lo \in Int /\ hi \in Int
           /\ Rooted(c, id, BodyPages(V, n, node), Pages(V, n, id))
<1>1. /\ id \in Nat \ {None} /\ lo \in Int /\ hi \in Int /\ id \in DOMAIN V
      /\ Body(V, n, V[id], lo, hi) /\ id \notin BodyPages(V, n, V[id])
  BY TreeDef
<1>2. node = V[id]
  BY <1>1, ReadView
<1>3. Pages(V, n, id) = {id} \cup BodyPages(V, n, node)
  BY <1>1, <1>2, PagesDef
<1> QED
  BY <1>1, <1>2, <1>3 DEF Rooted, IsUnion

(* insert_rec on a tree with n levels below its root, by induction on n.      *)
LEMMA InsertInduction ==
    ASSUME NEW c, Books(c), NEW V, V = View(c), NEW key \in Int, NEW value \in Seq(Int),
           NEW g, g = Ins!Rec(<<c, key, value>>)
    PROVE  \A n \in Nat : InsAt(c, V, g, key, n)
<1>0. /\ \A id \in Nat : g[0][id] = InsertAtLeaf(c, id, read(c, id), key, value)
      /\ \A n \in Nat, id \in Nat :
             g[n + 1][id] = InsertAtNode(c, id, read(c, id), key, value, g[n])
  BY InsertValues DEF InsEquations
<1> DEFINE T == {n \in Nat : InsAt(c, V, g, key, n)}
<1>1. 0 \in T
  <2> SUFFICES ASSUME NEW f \in Nat, NEW id, NEW lo, NEW hi,
                      Tree(V, 0, id, lo, hi), Disjoint(Pages(V, 0, id), Spare(c)),
                      lo <= key, key < hi
               PROVE  InsOk(c, Pages(V, 0, id), g[f][id], 0, lo, hi)
    BY DEF InsAt
  <2>1. PICK node, P, A, z : /\ node = read(c, id) /\ P = BodyPages(V, 0, read(c, id))
                             /\ A = Pages(V, 0, id) /\ z = 0
    OBVIOUS
  <2>2. z \in Nat /\ Tree(V, z, id, lo, hi) /\ Disjoint(Pages(V, z, id), Spare(c))
    BY <2>1
  <2>3. /\ Body(V, z, node, lo, hi) /\ id \in Nat \ {None} /\ lo \in Int /\ hi \in Int
        /\ Rooted(c, id, BodyPages(V, z, node), Pages(V, z, id))
    BY <2>1, <2>2, TreeRooted
  <2>4. Body(V, 0, node, lo, hi) /\ Rooted(c, id, P, A)
    BY <2>1, <2>3
  <2>5. node.leaf
    BY <2>1, <2>2, <2>3, BodyIsNode
  <2>6. g[f][id] = InsertAtLeaf(c, id, node, key, value)
    <3>1. CASE f = 0
      BY <1>0, <2>1, <2>3, <3>1
    <3>2. CASE f # 0
      <4>1. PICK k \in Nat : f = k + 1
        <5>1. f - 1 \in Nat /\ f = (f - 1) + 1
          BY <3>2
        <5> QED
          BY <5>1
      <4>2. g[f][id] = InsertAtNode(c, id, node, key, value, g[k])
        BY <1>0, <2>1, <2>3, <4>1
      <4> QED
        BY <2>5, <4>2 DEF InsertAtNode
    <3> QED
      BY <3>1, <3>2
  <2>7. InsOk(c, A, g[f][id], 0, lo, hi)
    BY <2>1, <2>3, <2>4, <2>6, InsertLeafOk
  <2> QED
    BY <2>1, <2>7
<1>2. ASSUME NEW n \in Nat, n \in T PROVE n + 1 \in T
  <2>0. PICK m : m = n + 1
    OBVIOUS
  <2>00. m \in Nat /\ InsAt(c, V, g, key, n)
    BY <1>2, <2>0
  <2>10. ASSUME NEW f \in Nat, NEW id, NEW lo, NEW hi, m <= f,
                Tree(V, m, id, lo, hi), Disjoint(Pages(V, m, id), Spare(c)),
                lo <= key, key < hi
         PROVE  InsOk(c, Pages(V, m, id), g[f][id], m, lo, hi)
    <3>1. PICK node, P, A : /\ node = read(c, id) /\ P = BodyPages(V, m, read(c, id))
                            /\ A = Pages(V, m, id)
      OBVIOUS
    <3>3. /\ Body(V, m, node, lo, hi) /\ id \in Nat \ {None} /\ lo \in Int /\ hi \in Int
          /\ Rooted(c, id, BodyPages(V, m, node), Pages(V, m, id))
      BY <2>00, <2>10, <3>1, TreeRooted
    <3>4. Rooted(c, id, P, A) /\ lo < hi
      BY <2>10, <3>1, <3>3
    <3>5. ~node.leaf
      <4>1. m # 0
        BY <2>0
      <4> QED
        BY <2>00, <3>3, <4>1, BodyIsNode
    <3>6. PICK k \in Nat : f = k + 1 /\ n <= k
      <4>1. f - 1 \in Nat /\ f = (f - 1) + 1 /\ n <= f - 1
        BY <2>0, <2>10
      <4> QED
        BY <4>1
    <3>7. PICK ks, cs, idx, x : /\ ks = node.keys /\ cs = node.children
                                /\ idx = child_index(node.keys, key)
                                /\ x = node.children[child_index(node.keys, key)]
      OBVIOUS
    <3>8. PICK down : down = g[k][x]
      OBVIOUS
    <3>9. g[f][id] = AfterInsert(id, node, idx, down)
      <4>1. g[f][id] = InsertAtNode(c, id, node, key, value, g[k])
        BY <1>0, <3>1, <3>3, <3>6
      <4> QED
        BY <3>5, <3>7, <3>8, <4>1, Zenon DEF InsertAtNode
    <3>10. InnerIs(V, n, ks, cs, lo, hi) /\ P = KidPages(V, n, cs)
      BY <2>0, <3>1, <3>3, <3>7, InnerParts
    <3>11. /\ ks \in Seq(Int) /\ Len(cs) = Len(ks) + 1 /\ KeysOrdered(ks, lo, hi)
           /\ Kids(V, n, ks, cs, lo, hi)
      BY <3>10 DEF InnerIs
    <3>12. PICK a, b : a = Bound(ks, lo, hi, idx - 1) /\ b = Bound(ks, lo, hi, idx)
      OBVIOUS
    <3>13. idx \in 1 .. Len(cs) /\ a <= key /\ key < b
      BY <2>10, <3>3, <3>7, <3>11, <3>12, ChildBounds
    <3>14. Tree(V, n, x, a, b) /\ IsUnion(P, Among(V, n, cs, Others(cs, idx)), Pages(V, n, x))
      BY <3>7, <3>10, <3>11, <3>12, <3>13, KidOthers
    <3>15. Disjoint(Pages(V, n, x), Spare(c))
      BY <3>4, <3>14 DEF Rooted, Disjoint, IsUnion
    <3>16. InsOk(c, Pages(V, n, x), down, n, a, b)
      BY <2>00, <3>6, <3>8, <3>13, <3>14, <3>15 DEF InsAt
    <3>17. x = cs[idx] /\ P = BodyPages(V, m, node)
      BY <3>1, <3>7
    <3>18. CASE InsOne(c, Pages(V, n, x), down, n, a, b)
      <4>1. InsOne(c, Pages(V, n, cs[idx]), down, n,
                   Bound(ks, lo, hi, idx - 1), Bound(ks, lo, hi, idx))
        BY <3>12, <3>17, <3>18
      <4>2. InsOk(c, A, g[f][id], m, lo, hi)
        BY <2>0, <3>3, <3>4, <3>7, <3>9, <3>13, <3>17, <4>1, AfterOneOk
      <4> QED
        BY <3>1, <4>2
    <3>19. CASE InsTwo(c, Pages(V, n, x), down, n, a, b)
      <4>1. InsTwo(c, Pages(V, n, cs[idx]), down, n,
                   Bound(ks, lo, hi, idx - 1), Bound(ks, lo, hi, idx))
        BY <3>12, <3>17, <3>19
      <4>2. InsOk(c, A, g[f][id], m, lo, hi)
        BY <2>0, <3>3, <3>4, <3>7, <3>9, <3>13, <3>17, <4>1, AfterTwoOk
      <4> QED
        BY <3>1, <4>2
    <3> QED
      BY <3>16, <3>18, <3>19 DEF InsOk
  <2>11. InsAt(c, V, g, key, m)
    BY <2>10 DEF InsAt
  <2> QED
    BY <2>0, <2>00, <2>11
<1> HIDE DEF T
<1>3. Nat \subseteq T
  BY <1>1, <1>2, Ins!SetInduction
<1> QED
  BY <1>3 DEF T

(* insert_rec puts one tree or two in place of the tree at id.                *)
LEMMA InsertRecOk ==
    ASSUME NEW c, Books(c), NEW V, V = View(c), NEW key \in Int, NEW value \in Seq(Int),
           NEW n \in Nat, NEW id, NEW lo, NEW hi, n <= c.next_page, Tree(V, n, id, lo, hi),
           Disjoint(Pages(V, n, id), Spare(c)), lo <= key, key < hi,
           NEW r, r = insert_rec(c, key, value)[id]
    PROVE  InsOk(c, Pages(V, n, id), r, n, lo, hi)
<1>1. PICK p, g, f : p = <<c, key, value>> /\ g = Ins!Rec(<<c, key, value>>) /\ f = c.next_page
  OBVIOUS
<1>2. p[1] = c /\ p[2] = key /\ p[3] = value
  BY <1>1
<1>3. g = Ins!Rec(p)
  BY <1>1
<1>4. r = g[f][id]
  BY <1>1, <1>2, <1>3 DEF insert_rec, Ins!Rec, InsBase, InsStep
<1>5. InsAt(c, V, g, key, n) /\ f \in Nat
  BY <1>1, InsertInduction DEF Books, BookSets
<1> QED
  BY <1>1, <1>4, <1>5 DEF InsAt

-------------------------------------------------------------------------------
(* delete_rec.                                                                *)

DelOk(c, S, r, id, n, lo, hi) ==
    \/ r.removed = FALSE /\ r.ctx = c /\ r.id = id
    \/ r.removed = TRUE /\ PlacedOk(c, S, r, n, lo, hi)

(* A node placed into what an earlier operation left.                         *)
LEMMA PlacedAfter ==
    ASSUME NEW c, Books(c), NEW S, NEW e, NEW T, Eff(c, S, e, T), NEW r, NEW n,
           NEW lo, NEW hi, PlacedOk(e, T, r, n, lo, hi)
    PROVE  PlacedOk(c, S, r, n, lo, hi)
<1>1. PICK P, f : P = Pages(View(r.ctx), n, r.id) /\ f = r.ctx /\ Eff(e, T, f, P)
  BY DEF PlacedOk
<1>2. Eff(c, S, f, P)
  BY <1>1, EffTrans
<1> QED
  BY <1>1, <1>2 DEF PlacedOk

(* An entry and the chain of its value are taken out of a leaf.               *)
LEMMA RemoveEntryOk ==
    ASSUME NEW c, Books(c), NEW V, V = View(c), NEW node, NEW lo \in Int, NEW hi \in Int,
           Body(V, 0, node, lo, hi), NEW P, P = BodyPages(V, 0, node),
           NEW id, NEW A, Rooted(c, id, P, A),
           NEW idx \in 1 .. Len(node.keys),
           NEW r, r = ReplaceNode(retire_value(c, node.values[idx]), id,
                          Leaf(RemoveAt(node.keys, idx), RemoveAt(node.values, idx)))
    PROVE  PlacedOk(c, A, r, 0, lo, hi)
<1>1. PICK ks, vs : ks = node.keys /\ vs = node.values
  OBVIOUS
<1>2. node = Leaf(ks, vs) /\ LeafIs(V, ks, vs, lo, hi) /\ P = AllValues(V, vs)
  BY <1>1, LeafParts
<1>3. vs \in Seq(ValueSet) /\ Len(vs) = Len(ks) /\ ValuesApart(V, vs)
  BY <1>2 DEF LeafIs
<1>4. idx \in 1 .. Len(vs)
  BY <1>1, <1>3
<1>5. PICK v, O, Q : v = vs[idx] /\ O = ValuesAmong(V, vs, Others(vs, idx)) /\ Q = ValuePages(V, vs[idx])
  OBVIOUS
<1>6. IsUnion(P, O, Q) /\ Disjoint(O, Q)
  BY <1>2, <1>3, <1>4, <1>5, LeafOthers
<1>7. ValueOk(V, v) /\ Q = ValuePages(V, v)
  BY <1>3, <1>4, <1>5 DEF ValuesApart
<1>8. PICK U : U = O \cup {id}
  OBVIOUS
<1>9. /\ id \in Nat \ {None} /\ id \notin O /\ IsUnion(U, O, {id}) /\ Disjoint(U, Q)
      /\ IsUnion(A, U, Q) /\ Disjoint(U, Spare(c)) /\ Disjoint(Q, Spare(c))
      /\ IsUnion(U, U, {})
  BY <1>6, <1>8 DEF Rooted, IsUnion, Disjoint
<1>10. PICK d, W : d = retire_value(c, v) /\ W = View(d)
  OBVIOUS
<1>11. Eff(c, Q, d, {})
  BY <1>7, <1>9, <1>10, RetireValueEff
<1>12. Eff(c, A, d, U) /\ Disjoint(U, Spare(d)) /\ Agree(View(c), View(d), U)
  BY <1>9, <1>11, EffWiden
<1>14. Books(d)
  BY <1>11, EffDisjoint
<1>22. Agree(V, W, O) /\ Disjoint(O, Spare(d)) /\ id \notin Spare(d)
  BY <1>8, <1>10, <1>12 DEF Agree, Disjoint
<1>23. PICK qs, ds : qs = RemoveAt(ks, idx) /\ ds = RemoveAt(vs, idx)
  OBVIOUS
<1>24. LeafIs(W, qs, ds, lo, hi) /\ AllValues(W, ds) = O
  <2>1. Agree(V, W, ValuesAmong(V, vs, Others(vs, idx)))
    BY <1>5, <1>22
  <2>2. /\ LeafIs(W, qs, ds, lo, hi)
        /\ SameSet(AllValues(W, ds), ValuesAmong(V, vs, Others(vs, idx)))
    BY <1>2, <1>4, <1>23, <2>1, LeafRemove
  <2> QED
    BY <1>5, <2>2 DEF SameSet
<1>25. PICK new : new = Leaf(qs, ds)
  OBVIOUS
<1>26. Body(W, 0, new, lo, hi) /\ BodyPages(W, 0, new) = O
  BY <1>24, <1>25, LeafBuilt
<1>27. r = ReplaceNode(d, id, new)
  BY <1>1, <1>5, <1>10, <1>23, <1>25, Zenon
<1>30. PICK n \in Nat : n = 0
  OBVIOUS
<1>31. Body(W, n, new, lo, hi) /\ O = BodyPages(W, n, new)
  BY <1>26, <1>30
<1>32. PlacedOk(d, U, r, n, lo, hi)
  BY <1>9, <1>10, <1>14, <1>22, <1>27, <1>31, NodeReplaced
<1>33. PlacedOk(c, A, r, n, lo, hi)
  BY <1>12, <1>32, PlacedAfter
<1> QED
  BY <1>30, <1>33

(* delete_rec at a leaf.                                                      *)
LEMMA DeleteLeafOk ==
    ASSUME NEW c, Books(c), NEW V, V = View(c), NEW node, NEW lo \in Int, NEW hi \in Int,
           Body(V, 0, node, lo, hi), NEW P, P = BodyPages(V, 0, node),
           NEW id, NEW A, Rooted(c, id, P, A), NEW key \in Int,
           NEW r, r = DeleteAtLeaf(c, id, node, key)
    PROVE  DelOk(c, A, r, id, 0, lo, hi)
<1>1. PICK idx, ks : idx = SearchIndex(node.keys, key) /\ ks = node.keys
  OBVIOUS
<1>2. r = DeleteFromLeaf(c, id, node, idx, key)
  BY <1>1 DEF DeleteAtLeaf
<1>3. CASE Found(ks, key)
  <2>0. PICK p : p = ReplaceNode(retire_value(c, node.values[idx]), id,
                          Leaf(RemoveAt(node.keys, idx), RemoveAt(node.values, idx)))
    OBVIOUS
  <2>1. r = Removed(p)
    BY <1>1, <1>2, <1>3, <2>0, Zenon DEF DeleteFromLeaf
  <2>2. LeafIs(V, ks, node.values, lo, hi)
    BY <1>1, LeafParts
  <2>3. ks \in Seq(Int) /\ Ascending(ks)
    <3>1. ks \in Seq(Int) /\ KeysOrdered(ks, lo, hi)
      BY <2>2 DEF LeafIs
    <3>2. PICK m : m = Len(ks)
      OBVIOUS
    <3>3. m \in Nat
      BY <3>1, <3>2, LenProperties
    <3> QED
      BY <3>1, <3>2, <3>3, KeysOrderedDef DEF Ascending
  <2>4. SearchIndex(ks, key) \in 1 .. Len(ks)
    BY <1>3, <2>3, SearchFacts
  <2>5. idx \in 1 .. Len(node.keys)
    BY <1>1, <2>4
  <2>6. PlacedOk(c, A, p, 0, lo, hi)
    BY <2>0, <2>5, RemoveEntryOk
  <2>7. r.removed = TRUE /\ r.ctx = p.ctx /\ r.id = p.id
    BY <2>1 DEF Removed
  <2> QED
    BY <2>6, <2>7 DEF DelOk, PlacedOk
<1>4. CASE ~Found(ks, key)
  <2>1. r = NotRemoved(c, id)
    BY <1>1, <1>2, <1>4, Zenon DEF DeleteFromLeaf
  <2>2. r.removed = FALSE /\ r.ctx = c /\ r.id = id
    BY <2>1 DEF NotRemoved
  <2> QED
    BY <2>2 DEF DelOk
<1> QED
  BY <1>3, <1>4

(* try_merge's node, from two siblings.                                       *)
LEMMA MergedBody ==
    ASSUME NEW V, NEW n \in Nat, NEW left, NEW right, NEW lo \in Int, NEW sep \in Int,
           NEW hi \in Int, lo < sep, sep < hi, Body(V, n, left, lo, sep),
           Body(V, n, right, sep, hi), NEW P1, P1 = BodyPages(V, n, left),
           NEW P2, P2 = BodyPages(V, n, right), Disjoint(P1, P2),
           NEW node, node = MergedNode(left, right, sep)
    PROVE  Body(V, n, node, lo, hi) /\ IsUnion(BodyPages(V, n, node), P1, P2)
<1>0. left.leaf <=> n = 0
  BY BodyIsNode
<1>1. CASE n = 0
  <2>1. PICK k1, v1, k2, v2 : /\ k1 = left.keys /\ v1 = left.values
                              /\ k2 = right.keys /\ v2 = right.values
    OBVIOUS
  <2>2. LeafIs(V, k1, v1, lo, sep) /\ P1 = AllValues(V, v1)
    BY <1>1, <2>1, LeafParts
  <2>3. LeafIs(V, k2, v2, sep, hi) /\ P2 = AllValues(V, v2)
    BY <1>1, <2>1, LeafParts
  <2>4. PICK qs, ds : qs = k1 \o k2 /\ ds = v1 \o v2
    OBVIOUS
  <2>5. lo <= sep /\ sep <= hi /\ Disjoint(AllValues(V, v1), AllValues(V, v2))
    BY <2>2, <2>3
  <2>6. /\ LeafIs(V, qs, ds, lo, hi)
        /\ IsUnion(AllValues(V, ds), AllValues(V, v1), AllValues(V, v2))
    BY <2>2, <2>3, <2>4, <2>5, LeafJoin
  <2>7. node = Leaf(qs, ds)
    BY <1>0, <1>1, <2>1, <2>4, Zenon DEF MergedNode
  <2>8. Body(V, 0, node, lo, hi) /\ BodyPages(V, 0, node) = AllValues(V, ds)
    BY <2>6, <2>7, LeafBuilt
  <2> QED
    BY <1>1, <2>2, <2>3, <2>6, <2>8
<1>2. CASE n # 0
  <2>0. PICK j \in Nat : n = j + 1
    <3>1. n - 1 \in Nat /\ n = (n - 1) + 1
      BY <1>2
    <3> QED
      BY <3>1
  <2>1. PICK k1, c1, k2, c2 : /\ k1 = left.keys /\ c1 = left.children
                              /\ k2 = right.keys /\ c2 = right.children
    OBVIOUS
  <2>2. InnerIs(V, j, k1, c1, lo, sep) /\ P1 = KidPages(V, j, c1)
    BY <2>0, <2>1, InnerParts
  <2>3. InnerIs(V, j, k2, c2, sep, hi) /\ P2 = KidPages(V, j, c2)
    BY <2>0, <2>1, InnerParts
  <2>4. PICK qs, ds : qs = k1 \o <<sep>> \o k2 /\ ds = c1 \o c2
    OBVIOUS
  <2>5. Disjoint(KidPages(V, j, c1), KidPages(V, j, c2))
    BY <2>2, <2>3
  <2>6. /\ InnerIs(V, j, qs, ds, lo, hi)
        /\ IsUnion(KidPages(V, j, ds), KidPages(V, j, c1), KidPages(V, j, c2))
    <3>1. JoinOk(V, j, qs, ds, c1, c2, lo, hi)
      BY <2>2, <2>3, <2>4, <2>5, InnerJoin
    <3> QED
      BY <3>1 DEF JoinOk
  <2>7. node = Internal(qs, ds)
    BY <1>0, <1>2, <2>1, <2>4, Zenon DEF MergedNode
  <2>8. Body(V, n, node, lo, hi) /\ BodyPages(V, n, node) = KidPages(V, j, ds)
    BY <2>0, <2>6, <2>7, InnerBuilt
  <2> QED
    BY <2>2, <2>3, <2>6, <2>8
<1> QED
  BY <1>1, <1>2

(* The node an internal node has become.                                      *)
NodeOk(e, P, r, m, lo, hi) ==
    /\ Body(View(r.ctx), m, r.node, lo, hi)
    /\ Eff(e, P, r.ctx, BodyPages(View(r.ctx), m, r.node))

(* Two trees side by side give way to one.                                    *)
LEMMA PairMerged ==
    ASSUME NEW e, Books(e), NEW W, W = View(e), NEW n \in Nat, NEW x, NEW y,
           NEW a \in Int, NEW sep \in Int, NEW b \in Int, a < sep, sep < b,
           Tree(W, n, x, a, sep), Tree(W, n, y, sep, b),
           Disjoint(Pages(W, n, x), Pages(W, n, y)), NEW P,
           IsUnion(P, Pages(W, n, x), Pages(W, n, y)), Disjoint(P, Spare(e)),
           NEW r, r = PutAt(alloc(retire(retire(e, x), y)),
                            MergedNode(read(e, x), read(e, y), sep))
    PROVE  PlacedOk(e, P, r, n, a, b)
<1>1. PICK left, right, X, Y : /\ left = read(e, x) /\ right = read(e, y)
                               /\ X = Pages(W, n, x) /\ Y = Pages(W, n, y)
  OBVIOUS
<1>2. Disjoint(X, Spare(e)) /\ Disjoint(Y, Spare(e)) /\ Disjoint(X, Y) /\ IsUnion(P, X, Y)
  BY <1>1 DEF Disjoint, IsUnion
<1>3. /\ Body(W, n, left, a, sep) /\ x \in Nat \ {None}
      /\ Rooted(e, x, BodyPages(W, n, left), Pages(W, n, x))
  BY <1>1, <1>2, TreeRooted
<1>4. /\ Body(W, n, right, sep, b) /\ y \in Nat \ {None}
      /\ Rooted(e, y, BodyPages(W, n, right), Pages(W, n, y))
  BY <1>1, <1>2, TreeRooted
<1>5. PICK P1, P2 : P1 = BodyPages(W, n, left) /\ P2 = BodyPages(W, n, right)
  OBVIOUS
<1>6. x \notin P1 /\ IsUnion(X, P1, {x}) /\ y \notin P2 /\ IsUnion(Y, P2, {y})
  BY <1>1, <1>3, <1>4, <1>5 DEF Rooted
<1>7. PICK node : node = MergedNode(left, right, sep)
  OBVIOUS
<1>8. Disjoint(P1, P2)
  BY <1>2, <1>6 DEF Disjoint, IsUnion
<1>9. Body(W, n, node, a, b) /\ IsUnion(BodyPages(W, n, node), P1, P2)
  BY <1>3, <1>4, <1>5, <1>7, <1>8, MergedBody
<1>10. PICK U, T : T = P1 \cup P2 /\ U = P1 \cup P2 \cup {y}
  OBVIOUS
<1>11. /\ Disjoint(U, {x}) /\ Disjoint(U, Spare(e)) /\ IsUnion(P, U, {x}) /\ IsUnion(U, U, {})
       /\ x \notin Spare(e) /\ Disjoint(T, {y}) /\ IsUnion(U, T, {y}) /\ IsUnion(T, T, {})
  BY <1>2, <1>6, <1>10 DEF Disjoint, IsUnion
<1>12. PICK d : d = retire(e, x)
  OBVIOUS
<1>13. Eff(e, {x}, d, {})
  BY <1>3, <1>11, <1>12, RetireOne
<1>14. /\ Eff(e, P, d, U) /\ Disjoint(U, Spare(d)) /\ Agree(View(e), View(d), U)
  BY <1>11, <1>13, EffWiden
<1>15. Books(d) /\ y \notin Spare(d) /\ Disjoint(T, Spare(d))
  <2>1. Books(d)
    BY <1>13, EffDisjoint
  <2> QED
    BY <1>10, <1>14, <2>1 DEF Disjoint
<1>16. PICK f : f = retire(d, y)
  OBVIOUS
<1>17. Eff(d, {y}, f, {})
  BY <1>4, <1>15, <1>16, RetireOne
<1>18. Eff(d, U, f, T) /\ Disjoint(T, Spare(f)) /\ Agree(View(d), View(f), T)
  BY <1>11, <1>15, <1>17, EffWiden
<1>19. Eff(e, P, f, T) /\ Books(f)
  BY <1>14, <1>17, <1>18, EffTrans, EffDisjoint
<1>20. PICK Z : Z = View(f)
  OBVIOUS
<1>21. Agree(W, Z, T) /\ BodyPages(W, n, node) = T
  BY <1>9, <1>10, <1>14, <1>18, <1>20 DEF Agree, IsUnion
<1>22. Agree(W, Z, BodyPages(W, n, node))
  BY <1>21
<1>23. Body(Z, n, node, a, b) /\ T = BodyPages(Z, n, node)
  BY <1>9, <1>21, <1>22, BodyFrame DEF BodyKept
<1>24. r = PutAt(alloc(f), node)
  BY <1>1, <1>7, <1>12, <1>16, Zenon
<1>25. PlacedOk(f, T, r, n, a, b)
  BY <1>18, <1>19, <1>20, <1>23, <1>24, NodeAdded
<1> QED
  BY <1>19, <1>25, PlacedAfter

(* MergeChildren makes one child of two: the separator goes.                  *)
LEMMA MergeOk ==
    ASSUME NEW e, Books(e), NEW W, W = View(e), NEW n \in Nat, NEW m, m = n + 1,
           NEW node, NEW lo \in Int, NEW hi \in Int, lo < hi, Body(W, m, node, lo, hi),
           NEW P, P = BodyPages(W, m, node), Disjoint(P, Spare(e)),
           NEW i \in 1 .. Len(node.children) - 1, NEW r, r = MergeChildren(e, node, i)
    PROVE  NodeOk(e, P, r, m, lo, hi)
<1>1. PICK ks, cs, nx, k, p, x : /\ ks = node.keys /\ cs = node.children /\ nx = i + 1
                                 /\ k = Len(node.children) /\ p = i - 1 /\ x = 2
  OBVIOUS
<1>2. InnerIs(W, n, ks, cs, lo, hi) /\ P = KidPages(W, n, cs)
  BY <1>1, InnerParts
<1>3. /\ ks \in Seq(Int) /\ cs \in Seq(Nat \ {None}) /\ Len(cs) = Len(ks) + 1
      /\ KeysOrdered(ks, lo, hi) /\ KeysAbove(ks, lo) /\ Kids(W, n, ks, cs, lo, hi)
  BY <1>2 DEF InnerIs
<1>4. k \in Nat /\ k = Len(cs) /\ i \in 1 .. k - 1
  BY <1>1, <1>3, LenProperties
<1>5. PICK a, sep, b, u, v, G : /\ a = Bound(ks, lo, hi, i - 1) /\ sep = Bound(ks, lo, hi, i)
                                /\ b = Bound(ks, lo, hi, i + 1) /\ u = cs[i] /\ v = cs[nx]
                                /\ G = Among(W, n, cs, Gap(p, x, k))
  OBVIOUS
<1>6. /\ \E Q : /\ IsUnion(Q, Pages(W, n, u), Pages(W, n, v))
                /\ IsUnion(P, G, Q) /\ Disjoint(G, Q)
      /\ Disjoint(Pages(W, n, u), Pages(W, n, v))
      /\ Tree(W, n, u, a, sep) /\ Tree(W, n, v, sep, b)
  <2>1. PairOk(W, n, cs, i, nx, Among(W, n, cs, Gap(p, x, k)),
               Bound(ks, lo, hi, i - 1), Bound(ks, lo, hi, i), Bound(ks, lo, hi, i + 1))
    BY <1>1, <1>3, <1>4, KidPair
  <2> QED
    BY <1>2, <1>5, <2>1 DEF PairOk
<1>7. PICK Q : /\ IsUnion(Q, Pages(W, n, u), Pages(W, n, v))
               /\ IsUnion(P, G, Q) /\ Disjoint(G, Q)
  BY <1>6
<1>8. /\ a \in Int /\ sep \in Int /\ b \in Int /\ a < sep /\ sep < b /\ sep = ks[i]
  <2>1. PICK j : j = Len(ks)
    OBVIOUS
  <2>2. j \in Nat /\ i \in 1 .. j
    BY <1>3, <1>4, <2>1, LenProperties
  <2>3. BoundsAscend(ks, lo, hi, j)
    BY <1>3, <2>1, <2>2, BoundsOrdered
  <2>4. i - 1 \in 0 .. j + 1 /\ i \in 0 .. j + 1 /\ i + 1 \in 0 .. j + 1 /\ i - 1 < i /\ i < i + 1
    BY <2>2
  <2> QED
    BY <1>5, <2>2, <2>3, <2>4 DEF BoundsAscend
<1>9. Disjoint(Q, Spare(e)) /\ Disjoint(G, Spare(e))
  BY <1>7 DEF Disjoint, IsUnion
<1>10. PICK y : y = PutAt(alloc(retire(retire(e, u), v)),
                          MergedNode(read(e, u), read(e, v), sep))
  OBVIOUS
<1>11. PlacedOk(e, Q, y, n, a, b)
  BY <1>6, <1>7, <1>8, <1>9, <1>10, PairMerged
<1>12. PICK f, Z, q, R : f = y.ctx /\ Z = View(y.ctx) /\ q = y.id /\ R = Pages(View(y.ctx), n, y.id)
  OBVIOUS
<1>13. /\ Tree(Z, n, q, a, b) /\ Eff(e, Q, f, R) /\ q \in Nat \ {None} /\ Z = View(f)
       /\ R = Pages(Z, n, q)
  BY <1>11, <1>12 DEF PlacedOk
<1>14. PICK B : B = G \cup R
  OBVIOUS
<1>15. IsUnion(B, G, R)
  BY <1>14 DEF IsUnion
<1>16. Eff(e, P, f, B) /\ Disjoint(G, R) /\ Agree(View(e), View(f), G)
  BY <1>7, <1>9, <1>13, <1>15, EffWiden
<1>17. PICK qs, t, ds : qs = RemoveAt(ks, i) /\ t = ReplaceAt(cs, i, q) /\ ds = RemoveAt(t, nx)
  OBVIOUS
<1>18. InnerIs(Z, n, qs, ds, lo, hi) /\ IsUnion(KidPages(Z, n, ds), G, R)
  <2>1. /\ Agree(W, Z, Among(W, n, cs, Gap(p, x, k)))
        /\ Tree(Z, n, q, Bound(ks, lo, hi, i - 1), Bound(ks, lo, hi, i + 1))
        /\ Disjoint(Pages(Z, n, q), Among(W, n, cs, Gap(p, x, k)))
    BY <1>5, <1>13, <1>16 DEF Disjoint
  <2>2. /\ InnerIs(Z, n, qs, ds, lo, hi)
        /\ IsUnion(KidPages(Z, n, ds), Among(W, n, cs, Gap(p, x, k)), Pages(Z, n, q))
    BY <1>1, <1>2, <1>4, <1>13, <1>17, <2>1, InnerMerge
  <2> QED
    BY <1>5, <1>13, <2>2
<1>19. PICK new : new = Internal(qs, ds)
  OBVIOUS
<1>20. Body(Z, m, new, lo, hi) /\ BodyPages(Z, m, new) = KidPages(Z, n, ds)
  BY <1>18, <1>19, InnerBuilt
<1>21. r = Merged(node, i, y)
  BY <1>1, <1>5, <1>8, <1>10, Zenon DEF MergeChildren
<1>22. r.ctx = f /\ r.node = new
  <2>1. r = [ctx |-> f, node |-> new]
    BY <1>1, <1>12, <1>17, <1>19, <1>21, Zenon DEF Merged
  <2> QED
    BY <2>1
<1>23. BodyPages(Z, m, new) = B
  BY <1>15, <1>18, <1>20 DEF IsUnion
<1> QED
  BY <1>13, <1>16, <1>20, <1>22, <1>23 DEF NodeOk

-------------------------------------------------------------------------------
(* The pair of children that is merged, or 0.                                 *)
Candidates(ctx, node, idx) == {0} \cup {i \in {idx, idx - 1} : CanMerge(ctx, node, i)}

(* The pair is one of two children side by side.                              *)
LEMMA ChosenPair ==
    ASSUME NEW e, NEW node, NEW idx \in Nat, NEW k, k = Max(Candidates(e, node, idx))
    PROVE  k = 0 \/ k \in 1 .. Len(node.children) - 1
<1>1. PICK S : S = Candidates(e, node, idx)
  OBVIOUS
<1>2. \A i \in S : i = 0 \/ ((i = idx \/ i = idx - 1) /\ CanMerge(e, node, i))
  BY <1>1 DEF Candidates
<1>3. 0 \in S
  BY <1>1 DEF Candidates
<1>4. \E x \in S : \A y \in S : x >= y
  <2>1. CASE idx \in S
    <3>1. \A y \in S : idx >= y
      BY <1>2
    <3> QED
      BY <2>1, <3>1
  <2>2. CASE idx \notin S /\ idx - 1 \in S
    <3>1. \A y \in S : y = 0 \/ y = idx - 1
      BY <1>2, <2>2
    <3>2. CASE idx = 0
      <4>1. \A y \in S : 0 >= y
        BY <3>1, <3>2
      <4> QED
        BY <1>3, <4>1
    <3>3. CASE idx # 0
      <4>1. \A y \in S : idx - 1 >= y
        BY <3>1, <3>3
      <4> QED
        BY <2>2, <4>1
    <3> QED
      BY <3>2, <3>3
  <2>3. CASE idx \notin S /\ idx - 1 \notin S
    <3>1. \A y \in S : y = 0
      BY <1>2, <2>3
    <3>2. \A y \in S : 0 >= y
      BY <3>1
    <3> QED
      BY <1>3, <3>2
  <2> QED
    BY <2>1, <2>2, <2>3
<1>5. k = CHOOSE x \in S : \A y \in S : x >= y
  BY <1>1 DEF Max
<1>6. k \in S
  BY <1>4, <1>5
<1>7. CASE k = 0
  BY <1>7
<1>8. CASE k # 0
  <2>1. CanMerge(e, node, k) /\ k \in Int
    BY <1>2, <1>6, <1>8
  <2>2. k >= 1 /\ k + 1 <= Len(node.children)
    BY <2>1 DEF CanMerge
  <2>3. CASE Len(node.children) \in Int
    BY <2>1, <2>2, <2>3
  <2> QED
    BY <2>1, <2>2, <2>3
<1> QED
  BY <1>7, <1>8

(* Rebalance merges a pair of children or none.                               *)
LEMMA RebalanceOk ==
    ASSUME NEW e, Books(e), NEW W, W = View(e), NEW n \in Nat, NEW m, m = n + 1,
           NEW node, NEW lo \in Int, NEW hi \in Int, lo < hi, Body(W, m, node, lo, hi),
           NEW P, P = BodyPages(W, m, node), Disjoint(P, Spare(e)),
           NEW idx \in Nat, NEW r, r = Rebalance(e, node, idx)
    PROVE  NodeOk(e, P, r, m, lo, hi)
<1>1. PICK i : i = Max(Candidates(e, node, idx))
  OBVIOUS
<1>2. i = 0 \/ i \in 1 .. Len(node.children) - 1
  BY <1>1, ChosenPair
<1>3. CASE r = [ctx |-> e, node |-> node]
  <2>1. r.ctx = e /\ r.node = node
    BY <1>3
  <2>2. Eff(e, P, e, P)
    BY EffNone
  <2> QED
    BY <2>1, <2>2 DEF NodeOk
<1>4. CASE r # [ctx |-> e, node |-> node]
  <2>1. r = MergeAt(e, node, i)
    BY <1>1, <1>4, Zenon DEF Rebalance, Candidates
  <2>2. i # 0 /\ r = MergeChildren(e, node, i)
    BY <1>4, <2>1, Zenon DEF MergeAt
  <2>3. i \in 1 .. Len(node.children) - 1
    BY <1>2, <2>2
  <2> QED
    BY <2>2, <2>3, MergeOk
<1> QED
  BY <1>3, <1>4

(* The child changed: its new page is put in, and a pair may be merged.       *)
LEMMA AfterRemovedOk ==
    ASSUME NEW c, Books(c), NEW V, V = View(c), NEW n \in Nat, NEW m, m = n + 1,
           NEW node, NEW lo \in Int, NEW hi \in Int, lo < hi, Body(V, m, node, lo, hi),
           NEW P, P = BodyPages(V, m, node), NEW id, NEW A, Rooted(c, id, P, A),
           NEW ks, NEW cs, ks = node.keys, cs = node.children, NEW idx \in 1 .. Len(cs),
           NEW down, down.removed = TRUE,
           PlacedOk(c, Pages(V, n, cs[idx]), down, n,
                    Bound(ks, lo, hi, idx - 1), Bound(ks, lo, hi, idx)),
           NEW r, r = AfterDelete(c, id, node, idx, down)
    PROVE  DelOk(c, A, r, id, m, lo, hi)
<1>1. node = Internal(ks, cs) /\ InnerIs(V, n, ks, cs, lo, hi) /\ P = KidPages(V, n, cs)
  BY InnerParts
<1>2. PICK O, Q, a, b : /\ O = Among(V, n, cs, Others(cs, idx)) /\ Q = Pages(V, n, cs[idx])
                        /\ a = Bound(ks, lo, hi, idx - 1) /\ b = Bound(ks, lo, hi, idx)
  OBVIOUS
<1>3. PlacedOk(c, Q, down, n, a, b)
  BY <1>2
<1>4. PICK e, W, q, R : /\ e = down.ctx /\ W = View(down.ctx) /\ q = down.id
                        /\ R = Pages(View(down.ctx), n, down.id)
  OBVIOUS
<1>5. /\ Tree(W, n, q, a, b) /\ Eff(c, Q, e, R)
      /\ q \in Nat \ {None} /\ W = View(e) /\ R = Pages(W, n, q)
  BY <1>3, <1>4 DEF PlacedOk
<1>6. PICK U, B : U = O \cup {id} /\ B = O \cup {id} \cup R
  OBVIOUS
<1>7. IsUnion(U, O, {id}) /\ IsUnion(B, U, R)
  BY <1>6 DEF IsUnion
<1>8. /\ Eff(c, A, e, B) /\ Disjoint(U, R) /\ Agree(V, W, O) /\ Disjoint(R, O)
      /\ id \notin O /\ id \in Nat \ {None}
  <2>1. BesideOk(c, A, e, B, U, R, V, W, O, id)
    BY <1>1, <1>2, <1>5, <1>7, KidBeside
  <2> QED
    BY <2>1 DEF BesideOk
<1>9. PICK ds : ds = ReplaceAt(cs, idx, q)
  OBVIOUS
<1>10. InnerIs(W, n, ks, ds, lo, hi) /\ IsUnion(KidPages(W, n, ds), O, R)
  <2>1. /\ Agree(V, W, Among(V, n, cs, Others(cs, idx)))
        /\ Tree(W, n, q, Bound(ks, lo, hi, idx - 1), Bound(ks, lo, hi, idx))
        /\ Disjoint(Pages(W, n, q), Among(V, n, cs, Others(cs, idx)))
    BY <1>2, <1>5, <1>8
  <2>2. /\ InnerIs(W, n, ks, ds, lo, hi)
        /\ IsUnion(KidPages(W, n, ds), Among(V, n, cs, Others(cs, idx)), Pages(W, n, q))
    BY <1>1, <1>5, <1>9, <2>1, InnerReplace
  <2> QED
    BY <1>2, <1>5, <2>2
<1>11. PICK new : new = Internal(ks, ds)
  OBVIOUS
<1>12. Body(W, m, new, lo, hi) /\ BodyPages(W, m, new) = KidPages(W, n, ds)
  BY <1>10, <1>11, InnerBuilt
<1>13. PICK s, P2 : s = Rebalance(e, new, idx) /\ P2 = BodyPages(W, m, new)
  OBVIOUS
<1>14. r = Removed(ReplaceNode(s.ctx, id, s.node))
  BY <1>4, <1>9, <1>11, <1>13, Zenon DEF AfterDelete, StoreRebalanced
<1>15. Books(e) /\ Disjoint(B, Spare(e))
  BY <1>8, EffDisjoint
<1>16. /\ Disjoint(P2, Spare(e)) /\ id \notin P2 /\ IsUnion(B, {id}, P2)
       /\ Disjoint({id}, P2) /\ Disjoint({id}, Spare(e))
  BY <1>6, <1>8, <1>10, <1>12, <1>13, <1>15 DEF Disjoint, IsUnion
<1>17. idx \in Nat
  OBVIOUS
<1>18. NodeOk(e, P2, s, m, lo, hi)
  BY <1>5, <1>12, <1>13, <1>15, <1>16, <1>17, RebalanceOk
<1>19. PICK f, X, nd, P3 : /\ f = s.ctx /\ X = View(s.ctx) /\ nd = s.node
                           /\ P3 = BodyPages(View(s.ctx), m, s.node)
  OBVIOUS
<1>20. Body(X, m, nd, lo, hi) /\ Eff(e, P2, f, P3) /\ P3 = BodyPages(X, m, nd) /\ X = View(f)
  BY <1>18, <1>19 DEF NodeOk
<1>21. PICK C : C = P3 \cup {id}
  OBVIOUS
<1>22. IsUnion(C, {id}, P3) /\ IsUnion(C, P3, {id})
  BY <1>21 DEF IsUnion
<1>23. Eff(e, B, f, C) /\ Disjoint({id}, P3) /\ Disjoint({id}, Spare(f))
  BY <1>16, <1>20, <1>22, EffWiden
<1>24. Books(f) /\ Disjoint(P3, Spare(f))
  BY <1>20, EffDisjoint
<1>25. PICK p : p = ReplaceNode(f, id, nd)
  OBVIOUS
<1>26. id \notin P3 /\ id \notin Spare(f) /\ m \in Nat
  BY <1>23 DEF Disjoint
<1>27. PlacedOk(f, C, p, m, lo, hi)
  BY <1>8, <1>20, <1>22, <1>24, <1>25, <1>26, NodeReplaced
<1>28. Eff(c, A, f, C)
  BY <1>8, <1>23, EffTrans
<1>29. PlacedOk(c, A, p, m, lo, hi)
  BY <1>27, <1>28, PlacedAfter
<1>30. r = Removed(p)
  BY <1>14, <1>19, <1>25, Zenon
<1>31. r.removed = TRUE /\ r.ctx = p.ctx /\ r.id = p.id
  BY <1>30 DEF Removed
<1> QED
  BY <1>29, <1>31 DEF DelOk, PlacedOk

(* The child changed or it did not.                                           *)
LEMMA AfterDeleteOk ==
    ASSUME NEW c, Books(c), NEW V, V = View(c), NEW n \in Nat, NEW m, m = n + 1,
           NEW node, NEW lo \in Int, NEW hi \in Int, lo < hi, Body(V, m, node, lo, hi),
           NEW P, P = BodyPages(V, m, node), NEW id, NEW A, Rooted(c, id, P, A),
           NEW ks, NEW cs, ks = node.keys, cs = node.children, NEW idx \in 1 .. Len(cs),
           NEW down, DelOk(c, Pages(V, n, cs[idx]), down, cs[idx], n,
                           Bound(ks, lo, hi, idx - 1), Bound(ks, lo, hi, idx)),
           NEW r, r = AfterDelete(c, id, node, idx, down)
    PROVE  DelOk(c, A, r, id, m, lo, hi)
<1>1. CASE down.removed = FALSE
  <2>1. r = NotRemoved(c, id)
    BY <1>1, Zenon DEF AfterDelete
  <2>2. r.removed = FALSE /\ r.ctx = c /\ r.id = id
    BY <2>1 DEF NotRemoved
  <2> QED
    BY <2>2 DEF DelOk
<1>2. CASE down.removed = TRUE
  <2>1. PlacedOk(c, Pages(V, n, cs[idx]), down, n,
                 Bound(ks, lo, hi, idx - 1), Bound(ks, lo, hi, idx))
    BY <1>2 DEF DelOk
  <2> QED
    BY <1>2, <2>1, AfterRemovedOk
<1> QED
  BY <1>1, <1>2 DEF DelOk

(* delete_rec as a recursion: p is <<ctx, key>>.                              *)
RmBase(p) == [id \in Nat |-> DeleteAtLeaf(p[1], id, read(p[1], id), p[2])]
RmStep(p, n, down) ==
    [id \in Nat |-> DeleteAtNode(p[1], id, read(p[1], id), p[2], down)]
Rm == INSTANCE Recursion WITH Base <- RmBase, Step <- RmStep

RmEquations(c, key, g) ==
    /\ \A id \in Nat : g[0][id] = DeleteAtLeaf(c, id, read(c, id), key)
    /\ \A n \in Nat, id \in Nat :
           g[n + 1][id] = DeleteAtNode(c, id, read(c, id), key, g[n])

(* delete_rec is the recursion Rm.                                            *)
LEMMA DeleteValues ==
    ASSUME NEW c, NEW key, NEW g, g = Rm!Rec(<<c, key>>)
    PROVE  RmEquations(c, key, g)
<1>1. PICK p : p = <<c, key>>
  OBVIOUS
<1>2. p[1] = c /\ p[2] = key
  BY <1>1
<1>3. g[0] = RmBase(p) /\ \A n \in Nat : g[n + 1] = RmStep(p, n + 1, g[n])
  BY <1>1, Rm!RecValues
<1>4. ASSUME NEW id \in Nat PROVE g[0][id] = DeleteAtLeaf(c, id, read(c, id), key)
  BY <1>2, <1>3 DEF RmBase
<1>5. ASSUME NEW n \in Nat, NEW id \in Nat
      PROVE  g[n + 1][id] = DeleteAtNode(c, id, read(c, id), key, g[n])
  <2>1. g[n + 1] = RmStep(p, n + 1, g[n])
    BY <1>3
  <2>2. RmStep(p, n + 1, g[n])
            = [i \in Nat |-> DeleteAtNode(c, i, read(c, i), key, g[n])]
    BY <1>2, Zenon DEF RmStep
  <2> QED
    BY <2>1, <2>2
<1> QED
  BY <1>4, <1>5 DEF RmEquations

RmAt(c, V, g, key, n) ==
    \A f \in Nat : \A id, lo, hi :
        /\ n <= f /\ Tree(V, n, id, lo, hi) /\ Disjoint(Pages(V, n, id), Spare(c))
        /\ lo <= key /\ key < hi
        => DelOk(c, Pages(V, n, id), g[f][id], id, n, lo, hi)

(* delete_rec on a tree with n levels below its root, by induction on n.      *)
LEMMA DeleteInduction ==
    ASSUME NEW c, Books(c), NEW V, V = View(c), NEW key \in Int,
           NEW g, g = Rm!Rec(<<c, key>>)
    PROVE  \A n \in Nat : RmAt(c, V, g, key, n)
<1>0. /\ \A id \in Nat : g[0][id] = DeleteAtLeaf(c, id, read(c, id), key)
      /\ \A n \in Nat, id \in Nat :
             g[n + 1][id] = DeleteAtNode(c, id, read(c, id), key, g[n])
  BY DeleteValues DEF RmEquations
<1> DEFINE T == {n \in Nat : RmAt(c, V, g, key, n)}
<1>1. 0 \in T
  <2> SUFFICES ASSUME NEW f \in Nat, NEW id, NEW lo, NEW hi,
                      Tree(V, 0, id, lo, hi), Disjoint(Pages(V, 0, id), Spare(c)),
                      lo <= key, key < hi
               PROVE  DelOk(c, Pages(V, 0, id), g[f][id], id, 0, lo, hi)
    BY DEF RmAt
  <2>1. PICK node, P, A, z : /\ node = read(c, id) /\ P = BodyPages(V, 0, read(c, id))
                             /\ A = Pages(V, 0, id) /\ z = 0
    OBVIOUS
  <2>2. z \in Nat /\ Tree(V, z, id, lo, hi) /\ Disjoint(Pages(V, z, id), Spare(c))
    BY <2>1
  <2>3. /\ Body(V, z, node, lo, hi) /\ id \in Nat \ {None} /\ lo \in Int /\ hi \in Int
        /\ Rooted(c, id, BodyPages(V, z, node), Pages(V, z, id))
    BY <2>1, <2>2, TreeRooted
  <2>4. Body(V, 0, node, lo, hi) /\ Rooted(c, id, P, A)
    BY <2>1, <2>3
  <2>5. node.leaf
    BY <2>1, <2>2, <2>3, BodyIsNode
  <2>6. g[f][id] = DeleteAtLeaf(c, id, node, key)
    <3>1. CASE f = 0
      BY <1>0, <2>1, <2>3, <3>1
    <3>2. CASE f # 0
      <4>1. PICK k \in Nat : f = k + 1
        <5>1. f - 1 \in Nat /\ f = (f - 1) + 1
          BY <3>2
        <5> QED
          BY <5>1
      <4>2. g[f][id] = DeleteAtNode(c, id, node, key, g[k])
        BY <1>0, <2>1, <2>3, <4>1
      <4> QED
        BY <2>5, <4>2 DEF DeleteAtNode
    <3> QED
      BY <3>1, <3>2
  <2>7. DelOk(c, A, g[f][id], id, 0, lo, hi)
    BY <2>1, <2>3, <2>4, <2>6, DeleteLeafOk
  <2> QED
    BY <2>1, <2>7
<1>2. ASSUME NEW n \in Nat, n \in T PROVE n + 1 \in T
  <2>0. PICK m : m = n + 1
    OBVIOUS
  <2>00. m \in Nat /\ RmAt(c, V, g, key, n)
    BY <1>2, <2>0
  <2>10. ASSUME NEW f \in Nat, NEW id, NEW lo, NEW hi, m <= f,
                Tree(V, m, id, lo, hi), Disjoint(Pages(V, m, id), Spare(c)),
                lo <= key, key < hi
         PROVE  DelOk(c, Pages(V, m, id), g[f][id], id, m, lo, hi)
    <3>1. PICK node, P, A : /\ node = read(c, id) /\ P = BodyPages(V, m, read(c, id))
                            /\ A = Pages(V, m, id)
      OBVIOUS
    <3>3. /\ Body(V, m, node, lo, hi) /\ id \in Nat \ {None} /\ lo \in Int /\ hi \in Int
          /\ Rooted(c, id, BodyPages(V, m, node), Pages(V, m, id))
      BY <2>00, <2>10, <3>1, TreeRooted
    <3>4. Rooted(c, id, P, A) /\ lo < hi
      BY <2>10, <3>1, <3>3
    <3>5. ~node.leaf
      <4>1. m # 0
        BY <2>0
      <4> QED
        BY <2>00, <3>3, <4>1, BodyIsNode
    <3>6. PICK k \in Nat : f = k + 1 /\ n <= k
      <4>1. f - 1 \in Nat /\ f = (f - 1) + 1 /\ n <= f - 1
        BY <2>0, <2>10
      <4> QED
        BY <4>1
    <3>7. PICK ks, cs, idx, x : /\ ks = node.keys /\ cs = node.children
                                /\ idx = child_index(node.keys, key)
                                /\ x = node.children[child_index(node.keys, key)]
      OBVIOUS
    <3>8. PICK down : down = g[k][x]
      OBVIOUS
    <3>9. g[f][id] = AfterDelete(c, id, node, idx, down)
      <4>1. g[f][id] = DeleteAtNode(c, id, node, key, g[k])
        BY <1>0, <3>1, <3>3, <3>6
      <4> QED
        BY <3>5, <3>7, <3>8, <4>1, Zenon DEF DeleteAtNode
    <3>10. InnerIs(V, n, ks, cs, lo, hi) /\ P = KidPages(V, n, cs)
      BY <2>0, <3>1, <3>3, <3>7, InnerParts
    <3>11. /\ ks \in Seq(Int) /\ Len(cs) = Len(ks) + 1 /\ KeysOrdered(ks, lo, hi)
           /\ Kids(V, n, ks, cs, lo, hi)
      BY <3>10 DEF InnerIs
    <3>12. PICK a, b : a = Bound(ks, lo, hi, idx - 1) /\ b = Bound(ks, lo, hi, idx)
      OBVIOUS
    <3>13. idx \in 1 .. Len(cs) /\ a <= key /\ key < b
      BY <2>10, <3>3, <3>7, <3>11, <3>12, ChildBounds
    <3>14. Tree(V, n, x, a, b) /\ IsUnion(P, Among(V, n, cs, Others(cs, idx)), Pages(V, n, x))
      BY <3>7, <3>10, <3>11, <3>12, <3>13, KidOthers
    <3>15. Disjoint(Pages(V, n, x), Spare(c))
      BY <3>4, <3>14 DEF Rooted, Disjoint, IsUnion
    <3>16. DelOk(c, Pages(V, n, x), down, x, n, a, b)
      BY <2>00, <3>6, <3>8, <3>13, <3>14, <3>15 DEF RmAt
    <3>17. x = cs[idx] /\ P = BodyPages(V, m, node)
      BY <3>1, <3>7
    <3>18. DelOk(c, Pages(V, n, cs[idx]), down, cs[idx], n,
                 Bound(ks, lo, hi, idx - 1), Bound(ks, lo, hi, idx))
      BY <3>12, <3>16, <3>17
    <3>19. DelOk(c, A, g[f][id], id, m, lo, hi)
      BY <2>0, <3>3, <3>4, <3>7, <3>9, <3>13, <3>17, <3>18, AfterDeleteOk
    <3> QED
      BY <3>1, <3>19
  <2>11. RmAt(c, V, g, key, m)
    BY <2>10 DEF RmAt
  <2> QED
    BY <2>0, <2>00, <2>11
<1> HIDE DEF T
<1>3. Nat \subseteq T
  BY <1>1, <1>2, Rm!SetInduction
<1> QED
  BY <1>3 DEF T

(* delete_rec puts a tree in place of the tree at id.                         *)
LEMMA DeleteRecOk ==
    ASSUME NEW c, Books(c), NEW V, V = View(c), NEW key \in Int,
           NEW n \in Nat, NEW id, NEW lo, NEW hi, n <= c.next_page, Tree(V, n, id, lo, hi),
           Disjoint(Pages(V, n, id), Spare(c)), lo <= key, key < hi,
           NEW r, r = delete_rec(c, key)[id]
    PROVE  DelOk(c, Pages(V, n, id), r, id, n, lo, hi)
<1>1. PICK p, g, f : p = <<c, key>> /\ g = Rm!Rec(<<c, key>>) /\ f = c.next_page
  OBVIOUS
<1>2. p[1] = c /\ p[2] = key
  BY <1>1
<1>3. g = Rm!Rec(p)
  BY <1>1
<1>4. r = g[f][id]
  BY <1>1, <1>2, <1>3 DEF delete_rec, Rm!Rec, RmBase, RmStep
<1>5. RmAt(c, V, g, key, n) /\ f \in Nat
  BY <1>1, DeleteInduction DEF Books, BookSets
<1> QED
  BY <1>1, <1>4, <1>5 DEF RmAt

-------------------------------------------------------------------------------
(* put and delete.                                                            *)

(* A root: none, or that of a tree, with its pages T.                         *)
Rooting(V, root, lo, hi, T) ==
    \/ root = None /\ T = {}
    \/ root # None /\ \E n \in Nat : Tree(V, n, root, lo, hi) /\ T = Pages(V, n, root)
(* The operation leaves the root r.id in place of the pages S.                *)
RootOk(c, S, r, lo, hi) ==
    \E T : Rooting(View(r.ctx), r.id, lo, hi, T) /\ Eff(c, S, r.ctx, T)

(* A tree that was placed is the tree of a root.                              *)
LEMMA PlacedRoot ==
    ASSUME NEW c, NEW S, NEW r, NEW n \in Nat, NEW lo, NEW hi, PlacedOk(c, S, r, n, lo, hi)
    PROVE  RootOk(c, S, r, lo, hi)
<1>1. /\ Tree(View(r.ctx), n, r.id, lo, hi)
      /\ Eff(c, S, r.ctx, Pages(View(r.ctx), n, r.id)) /\ r.id # None
  BY DEF PlacedOk
<1>2. Rooting(View(r.ctx), r.id, lo, hi, Pages(View(r.ctx), n, r.id))
  BY <1>1 DEF Rooting
<1> QED
  BY <1>1, <1>2 DEF RootOk

(* A root left by a second operation, after a first one.                      *)
LEMMA RootAfter ==
    ASSUME NEW c, Books(c), NEW S, NEW e, NEW T, Eff(c, S, e, T), NEW r,
           NEW lo, NEW hi, RootOk(e, T, r, lo, hi)
    PROVE  RootOk(c, S, r, lo, hi)
<1>1. PICK R : Rooting(View(r.ctx), r.id, lo, hi, R) /\ Eff(e, T, r.ctx, R)
  BY DEF RootOk
<1>2. PICK d : d = r.ctx
  OBVIOUS
<1>3. Eff(e, T, d, R)
  BY <1>1, <1>2
<1>4. Eff(c, S, d, R)
  BY <1>3, EffTrans
<1> QED
  BY <1>1, <1>2, <1>4 DEF RootOk

(* A leaf with one entry.                                                     *)
LEMMA OneEntry ==
    ASSUME NEW W, NEW lo \in Int, NEW hi \in Int, NEW key \in Int, lo <= key, key < hi,
           NEW v \in ValueSet, ValueOk(W, v), NEW node, node = Leaf(<<key>>, <<v>>)
    PROVE  Body(W, 0, node, lo, hi) /\ BodyPages(W, 0, node) = ValuePages(W, v)
<1>1. PICK ks, vs : ks = <<key>> /\ vs = <<v>>
  OBVIOUS
<1>2. /\ ks \in Seq(Int) /\ vs \in Seq(ValueSet) /\ Len(ks) = 1 /\ Len(vs) = 1
      /\ ks[1] = key /\ vs[1] = v
  BY <1>1
<1>3. PICK m \in Nat : m = 1
  OBVIOUS
<1>4. Len(ks) = m
  BY <1>2, <1>3
<1>5. KeysOrdered(ks, lo, hi)
  <2>1. \A i \in 1 .. m : lo <= ks[i] /\ ks[i] < hi
    BY <1>2, <1>3
  <2>2. \A i, j \in 1 .. m : i < j => ks[i] < ks[j]
    BY <1>3
  <2> QED
    BY <1>2, <1>4, <2>1, <2>2, KeysOrderedDef
<1>6. ValuesApart(W, vs)
  BY <1>2 DEF ValuesApart
<1>7. LeafIs(W, ks, vs, lo, hi)
  BY <1>2, <1>5, <1>6 DEF LeafIs
<1>8. Body(W, 0, Leaf(ks, vs), lo, hi) /\ BodyPages(W, 0, Leaf(ks, vs)) = AllValues(W, vs)
  BY <1>7, LeafBuilt
<1>9. AllValues(W, vs) = ValuePages(W, v)
  <2>1. 1 .. Len(vs) = {1}
    BY <1>2
  <2> QED
    BY <1>2, <2>1, Zenon DEF AllValues, ValuesAmong
<1> QED
  BY <1>1, <1>8, <1>9

(* put() into an empty tree: a root that is a leaf.                           *)
LEMMA FirstLeafOk ==
    ASSUME NEW c, Books(c), NEW lo \in Int, NEW hi \in Int, NEW key \in Int,
           lo <= key, key < hi, NEW value \in Seq(Int), NEW S, S = {},
           NEW r, r = FirstLeaf(key, store_value(c, value))
    PROVE  RootOk(c, S, r, lo, hi)
<1>1. PICK s, e, v : s = store_value(c, value) /\ e = s.ctx /\ v = s.value
  OBVIOUS
<1>2. StoredOk(c, s)
  BY <1>1, StoreValueOk
<1>3. PICK W, P : W = View(e) /\ P = ValuePages(W, v)
  OBVIOUS
<1>4. Eff(c, S, e, P) /\ ValueOk(W, v) /\ v \in ValueSet
  BY <1>1, <1>2, <1>3 DEF StoredOk
<1>5. PICK node : node = Leaf(<<key>>, <<v>>)
  OBVIOUS
<1>6. Body(W, 0, node, lo, hi) /\ BodyPages(W, 0, node) = P
  BY <1>3, <1>4, <1>5, OneEntry
<1>7. r = PutAt(alloc(e), node)
  BY <1>1, <1>5, Zenon DEF FirstLeaf
<1>8. Books(e) /\ Disjoint(P, Spare(e))
  BY <1>4, EffDisjoint
<1>9. PICK z \in Nat : z = 0
  OBVIOUS
<1>10. PlacedOk(e, P, r, z, lo, hi)
  BY <1>3, <1>6, <1>7, <1>8, <1>9, NodeAdded
<1>11. RootOk(e, P, r, lo, hi)
  BY <1>10, PlacedRoot
<1> QED
  BY <1>4, <1>11, RootAfter

(* A root above two trees.                                                    *)
LEMMA TwoKids ==
    ASSUME NEW W, NEW n \in Nat, NEW m, m = n + 1, NEW lo \in Int, NEW hi \in Int,
           NEW sep \in Int, lo < sep, sep < hi, NEW p, NEW q,
           Tree(W, n, p, lo, sep), Tree(W, n, q, sep, hi),
           Disjoint(Pages(W, n, p), Pages(W, n, q)),
           NEW node, node = Internal(<<sep>>, <<p, q>>)
    PROVE  /\ Body(W, m, node, lo, hi)
           /\ IsUnion(BodyPages(W, m, node), Pages(W, n, p), Pages(W, n, q))
<1>1. PICK ks, cs : ks = <<sep>> /\ cs = <<p, q>>
  OBVIOUS
<1>2. p \in Nat \ {None} /\ q \in Nat \ {None}
  BY TreeDef
<1>3. /\ ks \in Seq(Int) /\ cs \in Seq(Nat \ {None}) /\ Len(ks) = 1 /\ Len(cs) = 2
      /\ ks[1] = sep /\ cs[1] = p /\ cs[2] = q
  BY <1>1, <1>2
<1>4. PICK k \in Nat : k = 1
  OBVIOUS
<1>5. Len(ks) = k
  BY <1>3, <1>4
<1>6. KeysOrdered(ks, lo, hi)
  <2>1. \A i \in 1 .. k : lo <= ks[i] /\ ks[i] < hi
    BY <1>3, <1>4
  <2>2. \A i, j \in 1 .. k : i < j => ks[i] < ks[j]
    BY <1>4
  <2> QED
    BY <1>3, <1>5, <2>1, <2>2, KeysOrderedDef
<1>7. KeysAbove(ks, lo)
  BY <1>3 DEF KeysAbove
<1>8. Bound(ks, lo, hi, 0) = lo /\ Bound(ks, lo, hi, 1) = sep /\ Bound(ks, lo, hi, 2) = hi
  BY <1>3 DEF Bound
<1>9. ASSUME NEW i \in 1 .. Len(cs)
      PROVE  Tree(W, n, cs[i], Bound(ks, lo, hi, i - 1), Bound(ks, lo, hi, i))
  <2>1. CASE i = 1
    <3>1. i - 1 = 0
      BY <2>1
    <3> QED
      BY <1>3, <1>8, <2>1, <3>1
  <2>2. CASE i = 2
    <3>1. i - 1 = 1
      BY <2>2
    <3> QED
      BY <1>3, <1>8, <2>2, <3>1
  <2> QED
    BY <1>3, <2>1, <2>2
<1>10. ASSUME NEW i \in 1 .. Len(cs), NEW j \in 1 .. Len(cs), i # j
       PROVE  Pages(W, n, cs[i]) \cap Pages(W, n, cs[j]) = {}
  <2>0. i \in 1 .. 2 /\ j \in 1 .. 2
    BY <1>3
  <2>1. (i = 1 /\ j = 2) \/ (i = 2 /\ j = 1)
    BY <2>0, <1>10
  <2>2. /\ Pages(W, n, p) \cap Pages(W, n, q) = {}
        /\ Pages(W, n, q) \cap Pages(W, n, p) = {}
    BY DEF Disjoint
  <2>3. CASE i = 1 /\ j = 2
    BY <1>3, <2>2, <2>3
  <2>4. CASE i = 2 /\ j = 1
    BY <1>3, <2>2, <2>4
  <2> QED
    BY <2>1, <2>3, <2>4
<1>11. Kids(W, n, ks, cs, lo, hi)
  BY <1>9, <1>10, Zenon DEF Kids
<1>12. InnerIs(W, n, ks, cs, lo, hi)
  BY <1>3, <1>6, <1>7, <1>11 DEF InnerIs
<1>13. Body(W, m, Internal(ks, cs), lo, hi)
       /\ BodyPages(W, m, Internal(ks, cs)) = KidPages(W, n, cs)
  BY <1>12, InnerBuilt
<1>14. KidPages(W, n, cs) = Pages(W, n, p) \cup Pages(W, n, q)
  <2>1. 1 .. Len(cs) = {1, 2}
    BY <1>3
  <2> QED
    BY <1>3, <2>1, Zenon DEF KidPages
<1> QED
  BY <1>1, <1>13, <1>14 DEF IsUnion

(* put() above a root that was split or was not.                              *)
LEMMA GrowRootOk ==
    ASSUME NEW c, Books(c), NEW S, NEW n \in Nat, NEW lo \in Int, NEW hi \in Int,
           NEW x, InsOk(c, S, x, n, lo, hi), NEW r, r = GrowRoot(x)
    PROVE  RootOk(c, S, r, lo, hi)
<1>1. CASE InsOne(c, S, x, n, lo, hi)
  <2>1. x.sibling = None /\ PlacedOk(c, S, x, n, lo, hi)
    BY <1>1 DEF InsOne
  <2>2. r = [ctx |-> x.ctx, id |-> x.id]
    BY <2>1, Zenon DEF GrowRoot
  <2>3. r.ctx = x.ctx /\ r.id = x.id
    BY <2>2
  <2>4. PlacedOk(c, S, r, n, lo, hi)
    BY <2>1, <2>3, Zenon DEF PlacedOk
  <2> QED
    BY <2>4, PlacedRoot
<1>2. CASE InsTwo(c, S, x, n, lo, hi)
  <2>1. PICK e, W, p, q, sep : /\ e = x.ctx /\ W = View(x.ctx) /\ p = x.id
                               /\ q = x.sibling /\ sep = x.sep
    OBVIOUS
  <2>2. /\ x.sibling # None /\ sep \in Int /\ lo < sep /\ sep < hi /\ W = View(e)
        /\ Tree(W, n, p, lo, sep) /\ Tree(W, n, q, sep, hi)
        /\ Disjoint(Pages(W, n, p), Pages(W, n, q))
    BY <1>2, <2>1 DEF InsTwo
  <2>3. PICK T : IsUnion(T, Pages(W, n, p), Pages(W, n, q)) /\ Eff(c, S, e, T)
    BY <1>2, <2>1 DEF InsTwo
  <2>4. PICK node, m : node = Internal(<<sep>>, <<p, q>>) /\ m = n + 1
    OBVIOUS
  <2>5. /\ Body(W, m, node, lo, hi)
        /\ IsUnion(BodyPages(W, m, node), Pages(W, n, p), Pages(W, n, q))
    BY <2>2, <2>4, TwoKids
  <2>6. T = BodyPages(W, m, node)
    BY <2>3, <2>5 DEF IsUnion
  <2>7. r = PutAt(alloc(e), node)
    BY <2>1, <2>2, <2>4, Zenon DEF GrowRoot
  <2>8. Books(e) /\ Disjoint(T, Spare(e))
    BY <2>3, EffDisjoint
  <2>9. m \in Nat
    BY <2>4
  <2>10. PlacedOk(e, T, r, m, lo, hi)
    BY <2>2, <2>5, <2>6, <2>7, <2>8, <2>9, NodeAdded
  <2>11. RootOk(e, T, r, lo, hi)
    BY <2>9, <2>10, PlacedRoot
  <2> QED
    BY <2>3, <2>11, RootAfter
<1> QED
  BY <1>1, <1>2 DEF InsOk

-------------------------------------------------------------------------------
(* The height of a tree.                                                      *)

(* The pages of a value are page ids.                                         *)
LEMMA ValuePagesNat ==
    ASSUME NEW V, NEW v, ValueOk(V, v)
    PROVE  ValuePages(V, v) \subseteq Nat \ {None}
<1>1. CASE InlineOk(v)
  <2>1. v = Inline(v.bytes)
    BY <1>1 DEF InlineOk
  <2>2. v.inline
    BY <2>1 DEF Inline
  <2> QED
    BY <2>2 DEF ValuePages
<1>2. CASE ChainedOk(V, v)
  <2>1. /\ v = Overflow(v.head, v.len) /\ v.len \in Nat
        /\ \E m \in Nat : \E page, data :
               m <= v.len /\ v.head = ChainHead(m, page) /\ Chain(V, m, page, data)
    BY <1>2 DEF ChainedOk
  <2>2. PICK m \in Nat : \E page, data :
               m <= v.len /\ v.head = ChainHead(m, page) /\ Chain(V, m, page, data)
    BY <2>1
  <2>3. PICK page, data :
               m <= v.len /\ v.head = ChainHead(m, page) /\ Chain(V, m, page, data)
    BY <2>2
  <2>4. ValuePages(V, v) = ChainPages(m, page)
    BY <2>1, <2>3, ValueFacts
  <2>5. \A i \in 1 .. m : page[i] \in Nat \ {None}
    BY <2>3 DEF Chain, ChainLink
  <2> QED
    BY <2>4, <2>5 DEF ChainPages
<1> QED
  BY <1>1, <1>2 DEF ValueOk

(* So are those below a leaf.                                                 *)
LEMMA LeafPagesNat ==
    ASSUME NEW V, NEW node, NEW lo, NEW hi, Body(V, 0, node, lo, hi)
    PROVE  BodyPages(V, 0, node) \subseteq Nat \ {None}
<1>1. PICK ks, vs : ks = node.keys /\ vs = node.values
  OBVIOUS
<1>2. LeafIs(V, ks, vs, lo, hi) /\ BodyPages(V, 0, node) = AllValues(V, vs)
  BY <1>1, LeafParts
<1>3. \A i \in 1 .. Len(vs) : ValueOk(V, vs[i])
  BY <1>2 DEF LeafIs, ValuesApart
<1>4. \A i \in 1 .. Len(vs) : ValuePages(V, vs[i]) \subseteq Nat \ {None}
  BY <1>3, ValuePagesNat
<1> QED
  BY <1>2, <1>4, Zenon DEF AllValues, ValuesAmong

(* Pages are page ids, and there are more of them than levels.                *)
Tall(V, n) ==
    \A id, lo, hi : Tree(V, n, id, lo, hi)
        => /\ Pages(V, n, id) \subseteq Nat \ {None}
           /\ \A F : IsFiniteSet(F) /\ Pages(V, n, id) \subseteq F => n < Cardinality(F)

(* A leaf has a page.                                                         *)
LEMMA TallBase ==
    ASSUME NEW V, NEW n \in Nat, n = 0
    PROVE  Tall(V, n)
<1> SUFFICES ASSUME NEW id, NEW lo, NEW hi, Tree(V, n, id, lo, hi)
             PROVE  /\ Pages(V, n, id) \subseteq Nat \ {None}
                    /\ \A F : IsFiniteSet(F) /\ Pages(V, n, id) \subseteq F
                                  => n < Cardinality(F)
  BY DEF Tall
<1>1. /\ id \in Nat \ {None} /\ Body(V, n, V[id], lo, hi)
  BY TreeDef
<1>2. Pages(V, n, id) = {id} \cup BodyPages(V, n, V[id])
  BY <1>1, PagesDef
<1>3. PICK node : node = V[id]
  OBVIOUS
<1>4. Body(V, 0, node, lo, hi)
  BY <1>1, <1>3
<1>5. BodyPages(V, n, V[id]) \subseteq Nat \ {None}
  BY <1>3, <1>4, LeafPagesNat
<1>6. ASSUME NEW F, IsFiniteSet(F), Pages(V, n, id) \subseteq F PROVE n < Cardinality(F)
  <2>1. F # {}
    BY <1>2, <1>6
  <2>2. Cardinality(F) \in Nat /\ Cardinality(F) # 0
    BY <1>6, <2>1, FS_CardinalityType, FS_EmptySet
  <2> QED
    BY <2>2
<1> QED
  BY <1>1, <1>2, <1>5, <1>6

(* Each level has a page of its own.                                          *)
LEMMA TallStep ==
    ASSUME NEW V, NEW n \in Nat, Tall(V, n), NEW m, m = n + 1
    PROVE  Tall(V, m)
<1> SUFFICES ASSUME NEW id, NEW lo, NEW hi, Tree(V, m, id, lo, hi)
             PROVE  /\ Pages(V, m, id) \subseteq Nat \ {None}
                    /\ \A F : IsFiniteSet(F) /\ Pages(V, m, id) \subseteq F
                                  => m < Cardinality(F)
  BY DEF Tall
<1>0. m \in Nat
  OBVIOUS
<1>1. /\ id \in Nat \ {None} /\ Body(V, m, V[id], lo, hi) /\ id \notin BodyPages(V, m, V[id])
  BY <1>0, TreeDef
<1>2. Pages(V, m, id) = {id} \cup BodyPages(V, m, V[id])
  BY <1>0, <1>1, PagesDef
<1>3. PICK node, ks, cs : node = V[id] /\ ks = node.keys /\ cs = node.children
  OBVIOUS
<1>4. Body(V, m, node, lo, hi)
  BY <1>1, <1>3
<1>5. InnerIs(V, n, ks, cs, lo, hi) /\ BodyPages(V, m, node) = KidPages(V, n, cs)
  BY <1>3, <1>4, InnerParts
<1>6. /\ ks \in Seq(Int) /\ Len(cs) = Len(ks) + 1
      /\ \A i \in 1 .. Len(cs) : Tree(V, n, cs[i], Bound(ks, lo, hi, i - 1), Bound(ks, lo, hi, i))
  BY <1>5 DEF InnerIs, Kids
<1>7. \A i \in 1 .. Len(cs) : Pages(V, n, cs[i]) \subseteq Nat \ {None}
  BY <1>6 DEF Tall
<1>8. KidPages(V, n, cs) \subseteq Nat \ {None}
  BY <1>7, Zenon DEF KidPages
<1>9. ASSUME NEW F, IsFiniteSet(F), Pages(V, m, id) \subseteq F PROVE m < Cardinality(F)
  <2>1. PICK G, x : G = F \ {id} /\ x = cs[1]
    OBVIOUS
  <2>2. id \in F
    BY <1>2, <1>9
  <2>3. IsFiniteSet(G) /\ Cardinality(G) = Cardinality(F) - 1 /\ Cardinality(F) \in Nat
    BY <1>9, <2>1, <2>2, FS_RemoveElement, FS_CardinalityType
  <2>4. 1 \in 1 .. Len(cs)
    BY <1>6, LenProperties
  <2>5. Pages(V, n, x) \subseteq KidPages(V, n, cs)
    BY <2>1, <2>4, Zenon DEF KidPages
  <2>6. Pages(V, n, x) \subseteq G
    BY <1>1, <1>2, <1>3, <1>5, <1>9, <2>1, <2>5
  <2>7. \E a, b : Tree(V, n, x, a, b)
    BY <1>6, <2>1, <2>4
  <2>8. n < Cardinality(G)
    BY <2>3, <2>6, <2>7 DEF Tall
  <2> QED
    BY <2>3, <2>8
<1> QED
  BY <1>1, <1>2, <1>3, <1>5, <1>8, <1>9

(* All trees.                                                                 *)
LEMMA TallAll ==
    ASSUME NEW V
    PROVE  \A n \in Nat : Tall(V, n)
<1> DEFINE T == {n \in Nat : Tall(V, n)}
<1>1. 0 \in T
  BY TallBase
<1>2. ASSUME NEW n \in Nat, n \in T PROVE n + 1 \in T
  <2>1. PICK m \in Nat : m = n + 1
    OBVIOUS
  <2>2. Tall(V, n)
    BY <1>2
  <2>3. Tall(V, m)
    BY <2>1, <2>2, TallStep
  <2> QED
    BY <2>1, <2>3
<1>3. ASSUME NEW n \in Nat, n \in T PROVE Tall(V, n)
  BY <1>3
<1> HIDE DEF T
<1>4. Nat \subseteq T
  BY <1>1, <1>2, Ins!SetInduction
<1> QED
  BY <1>3, <1>4

(* A tree that is in use has no more levels than the file has pages.          *)
LEMMA TreeFits ==
    ASSUME NEW c, Books(c), NEW V, NEW n \in Nat, NEW id, NEW lo, NEW hi,
           Tree(V, n, id, lo, hi), Disjoint(Pages(V, n, id), Spare(c))
    PROVE  n <= c.next_page /\ Pages(V, n, id) \subseteq 1 .. c.next_page - 1
<1>1. Tall(V, n)
  BY TallAll
<1>2. PICK k, S : k = c.next_page /\ S = Pages(V, n, id)
  OBVIOUS
<1>3. S \subseteq Nat \ {None} /\ \A F : IsFiniteSet(F) /\ S \subseteq F => n < Cardinality(F)
  BY <1>1, <1>2 DEF Tall
<1>4. k \in Nat \ {0}
  BY <1>2 DEF Books, BookSets
<1>5. S \subseteq 1 .. k - 1
  <2>1. ASSUME NEW p \in S PROVE p \in 1 .. k - 1
    <3>1. p \in Nat \ {None}
      BY <1>3
    <3>2. p \notin Beyond(k)
      BY <1>2 DEF Disjoint, Spare, SpareSet
    <3> QED
      BY <1>4, <3>1, <3>2 DEF Beyond, None
  <2> QED
    BY <2>1
<1>6. IsFiniteSet(1 .. k - 1) /\ Cardinality(1 .. k - 1) = k - 1
  <2>1. PICK a, b : a = 1 /\ b = k - 1
    OBVIOUS
  <2>2. a \in Int /\ b \in Int /\ b >= 0
    BY <1>4, <2>1
  <2>3. IsFiniteSet(a .. b) /\ Cardinality(a .. b) = IF a > b THEN 0 ELSE b - a + 1
    BY <2>2, FS_Interval
  <2>4. (IF a > b THEN 0 ELSE b - a + 1) = k - 1
    BY <1>4, <2>1, <2>2
  <2> QED
    BY <2>1, <2>3, <2>4
<1>7. n < k - 1
  BY <1>3, <1>5, <1>6
<1> QED
  BY <1>2, <1>4, <1>5, <1>7

-------------------------------------------------------------------------------
(* put.                                                                       *)

(* put() leaves a tree, for a key within the bounds.                          *)
LEMMA PutOk ==
    ASSUME NEW c, Books(c), NEW V, V = View(c), NEW root, NEW lo \in Int, NEW hi \in Int,
           NEW S, Rooting(V, root, lo, hi, S), Disjoint(S, Spare(c)),
           NEW key \in Int, lo <= key, key < hi, NEW value \in Seq(Int),
           NEW r, r = put(c, root, key, value)
    PROVE  RootOk(c, S, r, lo, hi)
<1>1. CASE root = None
  <2>1. S = {}
    BY <1>1 DEF Rooting
  <2>2. r = FirstLeaf(key, store_value(c, value))
    BY <1>1, Zenon DEF put
  <2> QED
    BY <2>1, <2>2, FirstLeafOk
<1>2. CASE root # None
  <2>1. PICK n \in Nat : Tree(V, n, root, lo, hi) /\ S = Pages(V, n, root)
    BY <1>2 DEF Rooting
  <2>2. PICK x : x = insert_rec(c, key, value)[root]
    OBVIOUS
  <2>3. Disjoint(Pages(V, n, root), Spare(c))
    BY <2>1
  <2>4. n <= c.next_page
    BY <2>1, <2>3, TreeFits
  <2>5. InsOk(c, S, x, n, lo, hi)
    BY <2>1, <2>2, <2>3, <2>4, InsertRecOk
  <2>6. r = GrowRoot(x)
    BY <1>2, <2>2, Zenon DEF put
  <2> QED
    BY <2>5, <2>6, GrowRootOk
<1> QED
  BY <1>1, <1>2

-------------------------------------------------------------------------------
(* delete.                                                                    *)

(* One turn of finalize_root's loop.                                          *)
LEMMA CollapseOk ==
    ASSUME NEW c, Books(c), NEW S, NEW lo, NEW hi, NEW x, RootOk(c, S, x, lo, hi),
           NEW r, r = Unwind(x)
    PROVE  RootOk(c, S, r, lo, hi)
<1>1. PICK d, W, root : d = x.ctx /\ W = View(x.ctx) /\ root = x.id
  OBVIOUS
<1>2. PICK T : Rooting(W, root, lo, hi, T) /\ Eff(c, S, d, T)
  BY <1>1 DEF RootOk
<1>3. Books(d) /\ Disjoint(T, Spare(d))
  BY <1>2, EffDisjoint
<1>4. CASE r = x
  BY <1>4
<1>5. CASE r # x
  <2>1. root # None
    BY <1>1, <1>5, Zenon DEF Unwind
  <2>2. PICK node : node = read(d, root)
    OBVIOUS
  <2>3. r = CollapseRoot(x, node)
    BY <1>1, <2>1, <2>2, Zenon DEF Unwind
  <2>4. PICK n \in Nat : Tree(W, n, root, lo, hi) /\ T = Pages(W, n, root)
    BY <1>2, <2>1 DEF Rooting
  <2>5. PICK P : P = BodyPages(W, n, node)
    OBVIOUS
  <2>6. /\ Body(W, n, node, lo, hi) /\ root \in Nat \ {None} /\ lo \in Int /\ hi \in Int
        /\ Rooted(d, root, P, T)
    <3>1. Disjoint(Pages(W, n, root), Spare(d)) /\ W = View(d)
      BY <1>1, <1>3, <2>4
    <3>2. /\ Body(W, n, node, lo, hi) /\ root \in Nat \ {None} /\ lo \in Int /\ hi \in Int
          /\ Rooted(d, root, BodyPages(W, n, node), Pages(W, n, root))
      BY <2>2, <2>4, <3>1, TreeRooted
    <3> QED
      BY <2>4, <2>5, <3>2
  <2>7. /\ root \notin P /\ IsUnion(T, P, {root}) /\ root \notin Spare(d)
        /\ Disjoint(P, {root}) /\ Disjoint(P, Spare(d))
    BY <2>6 DEF Rooted, IsUnion, Disjoint
  <2>8. PICK e : e = retire(d, root)
    OBVIOUS
  <2>9. Eff(d, {root}, e, {})
    BY <1>3, <2>6, <2>7, <2>8, RetireOne
  <2>10. IsUnion(P, P, {})
    BY DEF IsUnion
  <2>11. Eff(d, T, e, P) /\ Agree(View(d), View(e), P)
    BY <2>7, <2>9, <2>10, EffWiden
  <2>12. Eff(c, S, e, P)
    BY <1>2, <2>11, EffTrans
  <2>13. node.keys = <<>>
    BY <1>5, <2>3, Zenon DEF CollapseRoot
  <2>14. CASE node.leaf
    <3>1. r = [ctx |-> retire(x.ctx, x.id), id |-> None]
      BY <2>3, <2>13, <2>14, Zenon DEF CollapseRoot
    <3>2. r.ctx = e /\ r.id = None
      BY <1>1, <2>8, <3>1
    <3>3. n = 0
      BY <2>6, <2>14, BodyIsNode
    <3>4. PICK ks, vs : ks = node.keys /\ vs = node.values
      OBVIOUS
    <3>5. LeafIs(W, ks, vs, lo, hi) /\ P = AllValues(W, vs)
      <4>1. Body(W, 0, node, lo, hi) /\ P = BodyPages(W, 0, node)
        BY <2>5, <2>6, <3>3
      <4> QED
        BY <3>4, <4>1, LeafParts
    <3>6. Len(vs) = 0
      BY <2>13, <3>4, <3>5 DEF LeafIs
    <3>7. P = {}
      BY <3>5, <3>6 DEF AllValues, ValuesAmong
    <3>8. Rooting(View(r.ctx), r.id, lo, hi, P) /\ Eff(c, S, r.ctx, P)
      BY <2>12, <3>2, <3>7 DEF Rooting
    <3> QED
      BY <3>8 DEF RootOk
  <2>15. CASE ~node.leaf
    <3>1. Len(node.children) = 1
      BY <1>5, <2>3, <2>13, <2>15, Zenon DEF CollapseRoot
    <3>2. r = [ctx |-> retire(x.ctx, x.id), id |-> node.children[1]]
      BY <2>3, <2>13, <2>15, <3>1, Zenon DEF CollapseRoot
    <3>3. PICK ks, cs, q : ks = node.keys /\ cs = node.children /\ q = node.children[1]
      OBVIOUS
    <3>4. r.ctx = e /\ r.id = q
      BY <1>1, <2>8, <3>2, <3>3
    <3>5. n # 0
      BY <2>6, <2>15, BodyIsNode
    <3>6. PICK k \in Nat : n = k + 1
      <4>1. n - 1 \in Nat /\ n = (n - 1) + 1
        BY <3>5
      <4> QED
        BY <4>1
    <3>7. InnerIs(W, k, ks, cs, lo, hi) /\ P = KidPages(W, k, cs)
      BY <2>5, <2>6, <3>3, <3>6, InnerParts
    <3>8. /\ cs \in Seq(Nat \ {None}) /\ Len(ks) = 0 /\ Len(cs) = 1 /\ q = cs[1]
          /\ \A i \in 1 .. Len(cs) : Tree(W, k, cs[i], Bound(ks, lo, hi, i - 1), Bound(ks, lo, hi, i))
      BY <2>13, <3>1, <3>3, <3>7 DEF InnerIs, Kids
    <3>9. Tree(W, k, q, lo, hi) /\ q # None
      <4>1. 1 \in 1 .. Len(cs)
        BY <3>8
      <4>2. Bound(ks, lo, hi, 1 - 1) = lo /\ Bound(ks, lo, hi, 1) = hi
        BY <3>8 DEF Bound
      <4>3. Tree(W, k, q, lo, hi)
        BY <3>8, <4>1, <4>2
      <4> QED
        BY <4>3, TreeDef
    <3>10. P = Pages(W, k, q)
      <4>1. 1 .. Len(cs) = {1}
        BY <3>8
      <4> QED
        BY <3>7, <3>8, <4>1, Zenon DEF KidPages
    <3>11. PICK X : X = View(e)
      OBVIOUS
    <3>12. Agree(W, X, Pages(W, k, q))
      BY <1>1, <2>11, <3>10, <3>11
    <3>13. Tree(X, k, q, lo, hi) /\ P = Pages(X, k, q)
      BY <3>9, <3>10, <3>12, TreeFrame DEF TreeKept
    <3>14. Rooting(View(r.ctx), r.id, lo, hi, P) /\ Eff(c, S, r.ctx, P)
      BY <2>12, <3>4, <3>9, <3>11, <3>13 DEF Rooting
    <3> QED
      BY <3>14 DEF RootOk
  <2> QED
    BY <2>14, <2>15
<1> QED
  BY <1>4, <1>5

(* finalize_root as a recursion: p is <<ctx, id>>.                            *)
UnwindBase(p) == [ctx |-> p[1], id |-> p[2]]
UnwindStep(p, n, root) == Unwind(root)
Unw == INSTANCE Recursion WITH Base <- UnwindBase, Step <- UnwindStep

(* finalize_root leaves a tree, whatever it unwinds.                          *)
LEMMA FinalizeOk ==
    ASSUME NEW c, Books(c), NEW S, NEW lo, NEW hi, NEW x, RootOk(c, S, x, lo, hi),
           NEW m \in Nat, m = x.ctx.next_page,
           NEW r, r = finalize_root(x.ctx, x.id)
    PROVE  RootOk(c, S, r, lo, hi)
<1>1. PICK p : p = <<x.ctx, x.id>>
  OBVIOUS
<1>2. p[1] = x.ctx /\ p[2] = x.id
  BY <1>1
<1>3. PICK g : g = Unw!Rec(p)
  OBVIOUS
<1>4. r = g[m]
  BY <1>2, <1>3, Zenon DEF finalize_root, Unw!Rec, UnwindBase, UnwindStep
<1>5. g[0] = UnwindBase(p) /\ \A n \in Nat : g[n + 1] = UnwindStep(p, n + 1, g[n])
  BY <1>3, Unw!RecValues
<1>6. g[0] = [ctx |-> x.ctx, id |-> x.id] /\ \A n \in Nat : g[n + 1] = Unwind(g[n])
  BY <1>2, <1>5 DEF UnwindBase, UnwindStep
<1> DEFINE T == {n \in Nat : RootOk(c, S, g[n], lo, hi)}
<1>7. 0 \in T
  <2>1. g[0].ctx = x.ctx /\ g[0].id = x.id
    BY <1>6
  <2>2. RootOk(c, S, g[0], lo, hi)
    BY <2>1 DEF RootOk
  <2> QED
    BY <2>2
<1>8. ASSUME NEW n \in Nat, n \in T PROVE n + 1 \in T
  <2>1. PICK y, z : y = g[n] /\ z = g[n + 1]
    OBVIOUS
  <2>2. RootOk(c, S, y, lo, hi) /\ z = Unwind(y)
    BY <1>6, <1>8, <2>1
  <2>3. RootOk(c, S, z, lo, hi)
    BY <2>2, CollapseOk
  <2> QED
    BY <2>1, <2>3
<1>9. ASSUME NEW n \in Nat, n \in T PROVE RootOk(c, S, g[n], lo, hi)
  BY <1>9
<1> HIDE DEF T
<1>10. Nat \subseteq T
  BY <1>7, <1>8, Unw!SetInduction
<1> QED
  BY <1>4, <1>9, <1>10

(* delete() leaves a tree or none.                                            *)
LEMMA DeleteOk ==
    ASSUME NEW c, Books(c), NEW V, V = View(c), NEW root, NEW lo \in Int, NEW hi \in Int,
           NEW S, Rooting(V, root, lo, hi, S), Disjoint(S, Spare(c)),
           NEW key \in Int, lo <= key, key < hi,
           NEW r, r = delete(c, root, key)
    PROVE  RootOk(c, S, r, lo, hi)
<1>1. Eff(c, S, c, S)
  BY EffNone
<1>2. CASE root = None
  <2>1. r = NotRemoved(c, None)
    BY <1>2, Zenon DEF delete
  <2>2. r.ctx = c /\ r.id = root
    BY <1>2, <2>1 DEF NotRemoved
  <2> QED
    BY <1>1, <2>2 DEF RootOk
<1>3. CASE root # None
  <2>1. PICK n \in Nat : Tree(V, n, root, lo, hi) /\ S = Pages(V, n, root)
    BY <1>3 DEF Rooting
  <2>2. PICK x : x = delete_rec(c, key)[root]
    OBVIOUS
  <2>3. Disjoint(Pages(V, n, root), Spare(c))
    BY <2>1
  <2>4. n <= c.next_page
    BY <2>1, <2>3, TreeFits
  <2>5. DelOk(c, S, x, root, n, lo, hi)
    BY <2>1, <2>2, <2>3, <2>4, DeleteRecOk
  <2>6. RootOk(c, S, x, lo, hi)
    <3>1. CASE x.removed = FALSE /\ x.ctx = c /\ x.id = root
      BY <1>1, <3>1 DEF RootOk
    <3>2. CASE PlacedOk(c, S, x, n, lo, hi)
      BY <3>2, PlacedRoot
    <3> QED
      BY <2>5, <3>1, <3>2 DEF DelOk
  <2>7. PICK f, m : f = finalize_root(x.ctx, x.id) /\ m = x.ctx.next_page
    OBVIOUS
  <2>8. m \in Nat
    <3>1. PICK T : Eff(c, S, x.ctx, T)
      BY <2>6 DEF RootOk
    <3>2. Books(x.ctx)
      BY <3>1 DEF Eff
    <3> QED
      BY <2>7, <3>2 DEF Books, BookSets
  <2>9. RootOk(c, S, f, lo, hi)
    BY <2>6, <2>7, <2>8, FinalizeOk
  <2>10. r = Finalized(x, f)
    BY <1>3, <2>2, <2>7, Zenon DEF delete, FinalizeAfter
  <2>11. r.ctx = f.ctx /\ r.id = f.id
    BY <2>10 DEF Finalized
  <2> QED
    BY <2>9, <2>11, Zenon DEF RootOk
<1> QED
  BY <1>2, <1>3

-------------------------------------------------------------------------------
(* The free list on disk.                                                     *)

(* A free list with the pages X, each once.                                   *)
FreeIs(f, X) == f \in Seq(FreeSet) /\ Distinct(Second(f)) /\ SameSet(Elems(Second(f)), X)

SecondIs(g, s, m) ==
    g \in Seq(Nat \ {None}) /\ Len(g) = m /\ \A i \in 1 .. m : g[i] = s[i][2]

(* The pages of the entries, one by one.                                      *)
LEMMA SecondAt ==
    ASSUME NEW s \in Seq(FreeSet), NEW m, Len(s) = m, NEW g, g = Second(s)
    PROVE  SecondIs(g, s, m)
<1>1. m = Len(s)
  OBVIOUS
<1> QED
  BY <1>1, SecondFacts DEF SecondIs

(* The pages of two lists of entries end to end.                              *)
LEMMA SecondJoin ==
    ASSUME NEW s \in Seq(FreeSet), NEW t \in Seq(FreeSet), NEW d, d = s \o t
    PROVE  d \in Seq(FreeSet) /\ Second(d) = Second(s) \o Second(t)
<1>1. PICK m, n : m = Len(s) /\ n = Len(t)
  OBVIOUS
<1>2. m \in Nat /\ n \in Nat
  BY <1>1, LenProperties
<1>3. d \in Seq(FreeSet) /\ Joined(d, s, t, m, n)
  BY <1>1, JoinedAt
<1>4. PICK b : b = m + n
  OBVIOUS
<1>5. /\ Len(d) = b
      /\ \A j \in 1 .. m : d[j] = s[j]
      /\ \A j \in 1 .. n : d[m + j] = t[j]
  BY <1>3, <1>4 DEF Joined
<1>6. PICK g, h, e : g = Second(s) /\ h = Second(t) /\ e = Second(d)
  OBVIOUS
<1>7. g \in Seq(Nat \ {None}) /\ Len(g) = m /\ \A i \in 1 .. m : g[i] = s[i][2]
  <2>1. SecondIs(g, s, m)
    BY <1>1, <1>6, SecondAt
  <2> QED
    BY <2>1 DEF SecondIs
<1>8. h \in Seq(Nat \ {None}) /\ Len(h) = n /\ \A i \in 1 .. n : h[i] = t[i][2]
  <2>1. SecondIs(h, t, n)
    BY <1>1, <1>6, SecondAt
  <2> QED
    BY <2>1 DEF SecondIs
<1>9. e \in Seq(Nat \ {None}) /\ Len(e) = b /\ \A i \in 1 .. b : e[i] = d[i][2]
  <2>1. SecondIs(e, d, b)
    BY <1>3, <1>5, <1>6, SecondAt
  <2> QED
    BY <2>1 DEF SecondIs
<1>10. PICK u : u = g \o h
  OBVIOUS
<1>11. u \in Seq(Nat \ {None}) /\ Joined(u, g, h, m, n)
  BY <1>7, <1>8, <1>10, JoinedAt
<1>12. /\ Len(u) = b
       /\ \A j \in 1 .. m : u[j] = g[j]
       /\ \A j \in 1 .. n : u[m + j] = h[j]
  BY <1>4, <1>11 DEF Joined
<1>13. ASSUME NEW i \in 1 .. b PROVE e[i] = u[i]
  <2>0. e[i] = d[i][2]
    BY <1>9
  <2>1. CASE i \in 1 .. m
    <3>1. d[i] = s[i] /\ u[i] = g[i] /\ g[i] = s[i][2]
      BY <1>5, <1>7, <1>12, <2>1
    <3> QED
      BY <2>0, <3>1
  <2>2. CASE ~(i \in 1 .. m)
    <3>1. PICK j : j = i - m
      OBVIOUS
    <3>2. j \in 1 .. n /\ m + j = i
      BY <1>2, <1>4, <2>2, <3>1
    <3>3. d[m + j] = t[j] /\ u[m + j] = h[j] /\ h[j] = t[j][2]
      BY <1>5, <1>8, <1>12, <3>2
    <3> QED
      BY <2>0, <3>2, <3>3
  <2> QED
    BY <2>1, <2>2
<1>14. e = u
  BY <1>9, <1>11, <1>12, <1>13, SeqEqual
<1> QED
  BY <1>3, <1>6, <1>10, <1>14

(* Two free lists without a page in common.                                   *)
LEMMA JoinFree ==
    ASSUME NEW s, NEW A, FreeIs(s, A), NEW t, NEW B, FreeIs(t, B), Disjoint(A, B),
           NEW d, d = s \o t, NEW C, IsUnion(C, A, B)
    PROVE  FreeIs(d, C)
<1>1. PICK g, h, e : g = Second(s) /\ h = Second(t) /\ e = Second(d)
  OBVIOUS
<1>2. /\ s \in Seq(FreeSet) /\ Distinct(g) /\ Elems(g) = A
      /\ t \in Seq(FreeSet) /\ Distinct(h) /\ Elems(h) = B
  BY <1>1 DEF FreeIs, SameSet
<1>3. d \in Seq(FreeSet) /\ e = g \o h
  BY <1>1, <1>2, SecondJoin
<1>4. g \in Seq(Nat \ {None}) /\ h \in Seq(Nat \ {None})
  <2>1. PICK m, n : m = Len(s) /\ n = Len(t)
    OBVIOUS
  <2> QED
    BY <1>1, <1>2, <2>1, SecondFacts
<1>5. Disjoint(Elems(g), Elems(h))
  BY <1>2
<1>6. Distinct(e) /\ IsUnion(Elems(e), Elems(g), Elems(h))
  BY <1>2, <1>3, <1>4, <1>5, JoinIds
<1>7. SameSet(Elems(e), C)
  BY <1>2, <1>6 DEF IsUnion, SameSet
<1> QED
  BY <1>1, <1>3, <1>6, <1>7 DEF FreeIs

(* The empty free list.                                                       *)
LEMMA EmptyFree ==
    ASSUME NEW f, f = <<>>, NEW X, X = {}
    PROVE  FreeIs(f, X)
<1>1. f \in Seq(FreeSet) /\ Len(f) = 0
  OBVIOUS
<1>2. Len(Second(f)) = 0
  BY <1>1, SecondFacts
<1>3. Distinct(Second(f)) /\ Elems(Second(f)) = {}
  BY <1>2 DEF Distinct, Elems
<1> QED
  BY <1>1, <1>3 DEF FreeIs, SameSet

(* A part of a free list.                                                     *)
PagesAt(e, a, b) == {e[j][2] : j \in a + 1 .. b}

(* A part of a free list is a free list.                                      *)
LEMMA PartFree ==
    ASSUME NEW e \in Seq(FreeSet), Distinct(Second(e)), NEW m, m = Len(e),
           NEW a \in Nat, NEW b \in Nat, a <= b, b <= m,
           NEW d, d = SubSeq(e, a + 1, b)
    PROVE  FreeIs(d, PagesAt(e, a, b))
<1>1. m \in Nat
  BY LenProperties
<1>2. PICK k \in Nat : b = a + k
  <2>1. b - a \in Nat /\ b = a + (b - a)
    OBVIOUS
  <2> QED
    BY <2>1
<1>3. d \in Seq(FreeSet) /\ Len(d) = k /\ \A j \in 1 .. k : d[j] = e[a + j]
  <2>1. PICK i : i = a + 1
    OBVIOUS
  <2>2. i \in Int /\ i >= 1 /\ (i <= b => b <= m) /\ (b + 1) - i = k
    BY <1>2, <2>1
  <2>3. d = SubSeq(e, i, b)
    BY <2>1
  <2>4. \A j \in i .. b : j \in 1 .. m
    BY <1>1, <1>2, <2>1
  <2>5. \A j \in i .. b : e[j] \in FreeSet
    BY <2>4, ElementOfSeq
  <2>6. /\ SubSeq(e, i, b) \in Seq(FreeSet)
        /\ Len(SubSeq(e, i, b)) = IF i <= b THEN b - i + 1 ELSE 0
        /\ \A j \in 1 .. b - i + 1 : SubSeq(e, i, b)[j] = e[i + j - 1]
    BY <2>2, <2>5, SubSeqProperties
  <2>7. (IF i <= b THEN b - i + 1 ELSE 0) = k /\ 1 .. b - i + 1 = 1 .. k
    BY <1>2, <2>1
  <2>8. \A j \in 1 .. k : i + j - 1 = a + j
    BY <2>1
  <2>9. d \in Seq(FreeSet) /\ Len(d) = k /\ \A j \in 1 .. k : d[j] = e[i + j - 1]
    BY <2>3, <2>6, <2>7
  <2> QED
    BY <2>8, <2>9
<1>4. PICK g, h : g = Second(e) /\ h = Second(d)
  OBVIOUS
<1>5. Len(g) = m /\ \A j \in 1 .. m : g[j] = e[j][2]
  BY <1>4, SecondFacts
<1>6. Len(h) = k /\ \A j \in 1 .. k : h[j] = d[j][2]
  BY <1>3, <1>4, SecondFacts
<1>7. \A j \in 1 .. k : a + j \in 1 .. m
  BY <1>1, <1>2
<1>8. \A j \in 1 .. k : h[j] = g[a + j] /\ h[j] = e[a + j][2]
  BY <1>3, <1>5, <1>6, <1>7
<1>9. \A i, j \in 1 .. m : g[i] = g[j] => i = j
  BY <1>4, <1>5 DEF Distinct
<1>10. ASSUME NEW i \in 1 .. k, NEW j \in 1 .. k, h[i] = h[j] PROVE i = j
  <2>1. g[a + i] = g[a + j]
    BY <1>8, <1>10
  <2>2. a + i = a + j
    BY <1>7, <1>9, <2>1
  <2> QED
    BY <2>2
<1>11. Distinct(h)
  BY <1>6, <1>10 DEF Distinct
<1>12. PICK A, B : A = Elems(h) /\ B = PagesAt(e, a, b)
  OBVIOUS
<1>13. ASSUME NEW q \in A PROVE q \in B
  <2>1. PICK j \in 1 .. k : q = h[j]
    BY <1>6, <1>12 DEF Elems
  <2>2. a + j \in a + 1 .. b
    BY <1>2
  <2> QED
    BY <1>8, <1>12, <2>1, <2>2 DEF PagesAt
<1>14. ASSUME NEW q \in B PROVE q \in A
  <2>1. PICK i \in a + 1 .. b : q = e[i][2]
    BY <1>12 DEF PagesAt
  <2>2. PICK j : j = i - a
    OBVIOUS
  <2>3. j \in 1 .. k /\ i = a + j
    BY <1>2, <2>2
  <2> QED
    BY <1>6, <1>8, <1>12, <2>1, <2>3 DEF Elems
<1>15. SameSet(A, B)
  BY <1>13, <1>14 DEF SameSet
<1> QED
  BY <1>3, <1>4, <1>11, <1>12, <1>15 DEF FreeIs

-------------------------------------------------------------------------------
(* How much of a list of m entries the first i chunks of n have.              *)
Upto(i, n, m) == IF i * n < m THEN i * n ELSE m

(* One more chunk has no fewer entries.                                       *)
LEMMA UptoFacts ==
    ASSUME NEW n \in Nat \ {0}, NEW m \in Nat, NEW i \in Nat, NEW j, j = i + 1
    PROVE  /\ Upto(i, n, m) \in 0 .. m /\ Upto(j, n, m) \in 0 .. m
           /\ Upto(i, n, m) <= Upto(j, n, m)
<1>1. PICK x, y : x = i * n /\ y = j * n
  OBVIOUS
<1>2. x \in Nat /\ y = x + n
  <2>1. x \in Int /\ x >= 0
    BY <1>1
  <2>2. y = i * n + n
    BY <1>1
  <2> QED
    BY <1>1, <2>1, <2>2
<1>3. Upto(i, n, m) = IF x < m THEN x ELSE m
  BY <1>1, Zenon DEF Upto
<1>4. Upto(j, n, m) = IF y < m THEN y ELSE m
  BY <1>1, Zenon DEF Upto
<1> QED
  BY <1>2, <1>3, <1>4

(* There are enough chunks.                                                   *)
AllIn(k, n, m) ==
    /\ k \in Nat /\ Upto(k, n, m) = m
    /\ \A i \in Nat : i < k => Upto(i, n, m) = i * n

(* The number of chunks that slice::chunks makes.                             *)
LEMMA ChunksEnd ==
    ASSUME NEW n \in Nat \ {0}, NEW m \in Nat, NEW k, k = ((m + n) - 1) \div n
    PROVE  AllIn(k, n, m)
<1>1. (m + n) - 1 \in Nat
  OBVIOUS
<1>2. k \in Int /\ n * k <= (m + n) - 1 /\ (m + n) - 1 < n * k + n /\ k >= 0
  BY <1>1
<1>3. PICK x : x = k * n
  OBVIOUS
<1>4. x \in Int /\ x <= (m + n) - 1 /\ (m + n) - 1 < x + n
  BY <1>2, <1>3
<1>5. ~(x < m) \/ x = m
  BY <1>4
<1>6. Upto(k, n, m) = m
  BY <1>3, <1>4, <1>5 DEF Upto
<1>7. ASSUME NEW i \in Nat, i < k PROVE Upto(i, n, m) = i * n
  <2>1. PICK j \in Nat : k = i + 1 + j
    <3>1. k - (i + 1) \in Nat /\ k = i + 1 + (k - (i + 1))
      BY <1>2, <1>7
    <3> QED
      BY <3>1
  <2>2. k * n = i * n + n + j * n
    BY <2>1
  <2>3. PICK y, z : y = i * n /\ z = j * n
    OBVIOUS
  <2>4. y \in Int /\ z \in Int /\ z >= 0
    BY <2>1, <2>3
  <2>5. x = y + n + z
    BY <1>3, <2>2, <2>3
  <2>6. y < m
    BY <1>4, <2>4, <2>5
  <2> QED
    BY <2>3, <2>6, Zenon DEF Upto
<1> QED
  BY <1>2, <1>6, <1>7 DEF AllIn

ChunkOk(e, n, m, cs, i, j) == FreeIs(cs[j], PagesAt(e, Upto(i, n, m), Upto(j, n, m)))

(* Chunk i + 1 has the entries from where chunk i ended.                      *)
LEMMA ChunkAt ==
    ASSUME NEW e \in Seq(FreeSet), Distinct(Second(e)), NEW m, m = Len(e),
           NEW n \in Nat \ {0}, NEW cs, cs = Chunks(e, n), NEW k, k = Len(cs)
    PROVE  /\ k \in Nat /\ Upto(k, n, m) = m
           /\ \A i \in Nat : \A j : i < k /\ j = i + 1 => ChunkOk(e, n, m, cs, i, j)
<1>1. m \in Nat /\ m = Len(e)
  BY LenProperties
<1>2. PICK l : l = ((m + n) - 1) \div n
  OBVIOUS
<1>3. l \in Nat /\ Upto(l, n, m) = m /\ \A i \in Nat : i < l => Upto(i, n, m) = i * n
  <2>1. AllIn(l, n, m)
    BY <1>1, <1>2, ChunksEnd
  <2> QED
    BY <2>1 DEF AllIn
<1>4. cs = [i \in 1 .. (Len(e) + n - 1) \div n |->
              SubSeq(e, (i - 1) * n + 1, IF i * n < Len(e) THEN i * n ELSE Len(e))]
  BY Zenon DEF Chunks
<1>5. (Len(e) + n - 1) \div n = l
  BY <1>1, <1>2
<1>6. cs = [i \in 1 .. l |->
              SubSeq(e, (i - 1) * n + 1, IF i * n < Len(e) THEN i * n ELSE Len(e))]
  BY <1>4, <1>5, Zenon
<1>7. k = l
  <2>1. DOMAIN cs = 1 .. l
    BY <1>6, Zenon
  <2> QED
    BY <1>3, <2>1, LenDomain
<1>8. ASSUME NEW i \in Nat, NEW j, i < k, j = i + 1 PROVE ChunkOk(e, n, m, cs, i, j)
  <2>1. PICK a, b : a = Upto(i, n, m) /\ b = Upto(j, n, m)
    OBVIOUS
  <2>2. a \in 0 .. m /\ b \in 0 .. m /\ a <= b
    BY <1>1, <1>8, <2>1, UptoFacts
  <2>3. a = i * n
    BY <1>3, <1>7, <1>8, <2>1
  <2>4. j \in 1 .. l /\ j - 1 = i
    BY <1>3, <1>7, <1>8
  <2>5. cs[j] = SubSeq(e, (j - 1) * n + 1, Upto(j, n, m))
    <3>1. cs[j] = SubSeq(e, (j - 1) * n + 1, IF j * n < Len(e) THEN j * n ELSE Len(e))
      BY <1>6, <2>4, Zenon
    <3>2. Upto(j, n, m) = IF j * n < Len(e) THEN j * n ELSE Len(e)
      BY <1>1, Zenon DEF Upto
    <3> QED
      BY <3>1, <3>2, Zenon
  <2>6. cs[j] = SubSeq(e, a + 1, b)
    BY <2>1, <2>3, <2>4, <2>5
  <2>7. a \in Nat /\ b \in Nat /\ b <= m
    BY <1>1, <2>2
  <2>8. FreeIs(cs[j], PagesAt(e, a, b))
    BY <1>1, <2>2, <2>6, <2>7, PartFree
  <2> QED
    BY <2>1, <2>8 DEF ChunkOk
<1> QED
  BY <1>3, <1>7, <1>8

-------------------------------------------------------------------------------
(* The entries up to a and those from a to b.                                 *)
LEMMA PagesAtJoin ==
    ASSUME NEW e \in Seq(FreeSet), Distinct(Second(e)), NEW m, m = Len(e),
           NEW a \in 0 .. m, NEW b \in 0 .. m, a <= b, NEW z, z = 0
    PROVE  /\ IsUnion(PagesAt(e, z, b), PagesAt(e, a, b), PagesAt(e, z, a))
           /\ Disjoint(PagesAt(e, a, b), PagesAt(e, z, a))
<1>1. m \in Nat
  BY LenProperties
<1>2. z + 1 .. b = (a + 1 .. b) \cup (z + 1 .. a)
  BY <1>1
<1>3. IsUnion(PagesAt(e, z, b), PagesAt(e, a, b), PagesAt(e, z, a))
  BY <1>2, Zenon DEF PagesAt, IsUnion
<1>4. PICK g : g = Second(e)
  OBVIOUS
<1>5. SecondIs(g, e, m)
  BY <1>4, SecondAt
<1>6. Len(g) = m /\ \A i \in 1 .. m : g[i] = e[i][2]
  BY <1>5 DEF SecondIs
<1>7. \A i, j \in 1 .. m : g[i] = g[j] => i = j
  BY <1>4, <1>6 DEF Distinct
<1>8. ASSUME NEW q, q \in PagesAt(e, a, b), q \in PagesAt(e, z, a) PROVE FALSE
  <2>1. PICK i \in a + 1 .. b : q = e[i][2]
    BY <1>8 DEF PagesAt
  <2>2. PICK j \in z + 1 .. a : q = e[j][2]
    BY <1>8 DEF PagesAt
  <2>3. i \in 1 .. m /\ j \in 1 .. m /\ i # j
    BY <1>1
  <2> QED
    BY <1>6, <1>7, <2>1, <2>2, <2>3
<1>9. Disjoint(PagesAt(e, a, b), PagesAt(e, z, a))
  BY <1>8 DEF Disjoint
<1> QED
  BY <1>3, <1>9

Under(n) == {p \in Nat : p < n}
Added(n, i) == n .. (n + i) - 1

(* After i chunks of the m entries e.                                         *)
ListMade(V, np, e, n, m, i, acc) ==
    /\ acc.next_page = np + i /\ Agree(V, acc.pages, Under(np))
    /\ \E page, data : /\ Chain(acc.pages, i, page, data) /\ acc.head = ChainHead(i, page)
                       /\ SameSet(ChainPages(i, page), Added(np, i))
                       /\ FreeIs(data[i], PagesAt(e, 0, Upto(i, n, m)))

(* Before the first chunk.                                                    *)
LEMMA ListStarted ==
    ASSUME NEW V, NEW np \in Nat \ {0}, NEW e, NEW n \in Nat \ {0}, NEW m \in Nat,
           NEW acc, acc = [pages |-> V, next_page |-> np, head |-> None]
    PROVE  ListMade(V, np, e, n, m, 0, acc)
<1>1. acc.pages = V /\ acc.next_page = np /\ acc.head = None
  OBVIOUS
<1>2. PICK page, data : page = <<>> /\ data = [j \in {0} |-> <<>>]
  OBVIOUS
<1>3. data[0] = <<>>
  BY <1>2
<1>4. Chain(V, 0, page, data)
  BY <1>3 DEF Chain
<1>5. ChainHead(0, page) = None
  BY DEF ChainHead
<1>6. SameSet(ChainPages(0, page), Added(np, 0))
  <2>1. ChainPages(0, page) = {}
    BY DEF ChainPages
  <2>2. Added(np, 0) = {}
    BY DEF Added
  <2> QED
    BY <2>1, <2>2 DEF SameSet
<1>7. PagesAt(e, 0, Upto(0, n, m)) = {}
  <2>1. Upto(0, n, m) = 0
    BY DEF Upto
  <2>2. 0 + 1 .. 0 = {}
    OBVIOUS
  <2> QED
    BY <2>1, <2>2, Zenon DEF PagesAt
<1>8. FreeIs(data[0], PagesAt(e, 0, Upto(0, n, m)))
  BY <1>3, <1>7, EmptyFree
<1>9. Agree(V, acc.pages, Under(np))
  BY <1>1 DEF Agree
<1>10. acc.next_page = np + 0
  BY <1>1
<1> QED
  BY <1>1, <1>4, <1>5, <1>6, <1>8, <1>9, <1>10 DEF ListMade

(* One more chunk is stored, on the page at next_page.                        *)
LEMMA ListLinked ==
    ASSUME NEW V, NEW np \in Nat \ {0}, NEW e \in Seq(FreeSet), Distinct(Second(e)),
           NEW n \in Nat \ {0}, NEW m, m = Len(e), NEW i \in Nat, NEW j, j = i + 1,
           NEW cs, ChunkOk(e, n, m, cs, i, j), NEW acc, ListMade(V, np, e, n, m, i, acc),
           NEW r, r = StoreChunk(acc, cs[j])
    PROVE  ListMade(V, np, e, n, m, j, r)
<1>1. PICK W, id, next, chunk : /\ W = acc.pages /\ id = acc.next_page /\ next = acc.head
                                /\ chunk = cs[j]
  OBVIOUS
<1>2. id = np + i /\ Agree(V, W, Under(np))
  BY <1>1 DEF ListMade
<1>3. PICK page, data : /\ Chain(W, i, page, data) /\ next = ChainHead(i, page)
                        /\ SameSet(ChainPages(i, page), Added(np, i))
                        /\ FreeIs(data[i], PagesAt(e, 0, Upto(i, n, m)))
  BY <1>1 DEF ListMade
<1>4. PICK X : X = write_page(W, id, ChainPage(next, chunk))
  OBVIOUS
<1>5. r.pages = X /\ r.next_page = id + 1 /\ r.head = id
  BY <1>1, <1>4 DEF StoreChunk
<1>6. /\ id \in DOMAIN X /\ X[id] = ChainPage(next, chunk)
      /\ \A p \in DOMAIN W : p # id => p \in DOMAIN X /\ X[p] = W[p]
  BY <1>4 DEF write_page
<1>7. id \in Nat \ {None} /\ id \notin ChainPages(i, page)
  <2>1. id \in Nat \ {0} /\ id \notin Added(np, i)
    BY <1>2 DEF Added
  <2> QED
    BY <1>3, <2>1 DEF SameSet, None
<1>8. Agree(W, X, ChainPages(i, page))
  BY <1>6, <1>7 DEF Agree
<1>9. Agree(V, X, Under(np))
  <2>1. id \notin Under(np)
    BY <1>2 DEF Under
  <2> QED
    BY <1>2, <1>6, <2>1 DEF Agree
<1>10. X[id] = ChainPage(ChainHead(i, page), chunk)
  BY <1>3, <1>6
<1>11. ChainGrown(X, j, id, chunk, i, page, data)
  BY <1>3, <1>6, <1>7, <1>8, <1>10, ChainGrows
<1>12. PICK ps, ts : /\ Chain(X, j, ps, ts) /\ ChainHead(j, ps) = id
                     /\ IsUnion(ChainPages(j, ps), ChainPages(i, page), {id})
                     /\ ts[j] = chunk \o data[i]
  BY <1>11 DEF ChainGrown
<1>13. SameSet(ChainPages(j, ps), Added(np, j))
  <2>1. Added(np, j) = Added(np, i) \cup {id}
    BY <1>2 DEF Added
  <2> QED
    BY <1>3, <1>12, <2>1 DEF SameSet, IsUnion
<1>14. PICK a, b, z : a = Upto(i, n, m) /\ b = Upto(j, n, m) /\ z = 0
  OBVIOUS
<1>15. m \in Nat /\ m = Len(e)
  BY LenProperties
<1>16. a \in 0 .. m /\ b \in 0 .. m /\ a <= b
  BY <1>14, <1>15, UptoFacts
<1>17. /\ IsUnion(PagesAt(e, z, b), PagesAt(e, a, b), PagesAt(e, z, a))
       /\ Disjoint(PagesAt(e, a, b), PagesAt(e, z, a))
  BY <1>14, <1>15, <1>16, PagesAtJoin
<1>18. FreeIs(chunk, PagesAt(e, a, b)) /\ FreeIs(data[i], PagesAt(e, z, a))
  BY <1>1, <1>3, <1>14 DEF ChunkOk
<1>19. FreeIs(ts[j], PagesAt(e, z, b))
  BY <1>12, <1>17, <1>18, JoinFree
<1>20. FreeIs(ts[j], PagesAt(e, 0, Upto(j, n, m)))
  BY <1>14, <1>19
<1>21. r.next_page = np + j
  BY <1>2, <1>5
<1> QED
  BY <1>5, <1>9, <1>12, <1>13, <1>20, <1>21 DEF ListMade

(* freelist::store as a recursion: p is <<pages, next_page, chunks>>.         *)
StoBase(p) == [pages |-> p[1], next_page |-> p[2], head |-> None]
StoStep(p, n, acc) == StoreChunk(acc, p[3][n])
Sto == INSTANCE Recursion WITH Base <- StoBase, Step <- StoStep

StoresBy(g, V, np, cs) ==
    /\ g[0] = [pages |-> V, next_page |-> np, head |-> None]
    /\ \A n \in Nat : g[n + 1] = StoreChunk(g[n], cs[n + 1])

(* freelist::store is the recursion Sto.                                      *)
LEMMA StoreValues ==
    ASSUME NEW V, NEW np, NEW cs, NEW k, k = Len(cs), NEW r, r = StoreChunks(V, np, cs)
    PROVE  \E g : StoresBy(g, V, np, cs) /\ r = g[k]
<1>0. PICK g : g = Sto!Rec(<<V, np, cs>>)
  OBVIOUS
<1>1. PICK p : p = <<V, np, cs>>
  OBVIOUS
<1>2. p[1] = V /\ p[2] = np /\ p[3] = cs
  BY <1>1
<1>3. g[0] = StoBase(p) /\ \A n \in Nat : g[n + 1] = StoStep(p, n + 1, g[n])
  BY <1>0, <1>1, Sto!RecValues
<1>4. g[0] = [pages |-> V, next_page |-> np, head |-> None]
  BY <1>2, <1>3 DEF StoBase
<1>5. ASSUME NEW n \in Nat PROVE g[n + 1] = StoreChunk(g[n], cs[n + 1])
  <2>1. g[n + 1] = StoStep(p, n + 1, g[n])
    BY <1>3
  <2> QED
    BY <1>2, <2>1, Zenon DEF StoStep
<1>6. g = Sto!Rec(p)
  BY <1>0, <1>1
<1>7. r = g[k]
  BY <1>2, <1>6 DEF StoreChunks, Sto!Rec, StoBase, StoStep
<1> QED
  BY <1>4, <1>5, <1>7 DEF StoresBy

(* A free list is stored: the file V has the list F at head, in the pages Y.  *)
ListAt(V, head, np, F, Y) ==
    \E k \in Nat : \E page, data :
        /\ k <= np /\ head = ChainHead(k, page) /\ Chain(V, k, page, data)
        /\ FreeIs(data[k], F) /\ SameSet(ChainPages(k, page), Y)

StoreOk(V, np, F, s) ==
    /\ s.next_page \in Nat /\ np <= s.next_page /\ Agree(V, s.pages, Under(np))
    /\ ListAt(s.pages, s.head, s.next_page, F, np .. s.next_page - 1)

(* freelist::store writes the list on new pages at the end of the file.       *)
LEMMA StoreListOk ==
    ASSUME NEW V, NEW np \in Nat \ {0}, NEW e, NEW F, FreeIs(e, F),
           NEW s, s = store(V, np, e)
    PROVE  StoreOk(V, np, F, s)
<1>1. e \in Seq(FreeSet) /\ Distinct(Second(e)) /\ Elems(Second(e)) = F
  BY DEF FreeIs, SameSet
<1>2. PICK n, m, cs, k : /\ n = FREE_CHUNK /\ m = Len(e) /\ cs = Chunks(e, FREE_CHUNK)
                         /\ k = Len(cs)
  OBVIOUS
<1>3. n \in Nat \ {0} /\ m \in Nat
  BY <1>1, <1>2, BTreeAssumption, LenProperties
<1>4. /\ k \in Nat /\ Upto(k, n, m) = m
      /\ \A i \in Nat : \A j : i < k /\ j = i + 1 => ChunkOk(e, n, m, cs, i, j)
  BY <1>1, <1>2, <1>3, ChunkAt
<1>50. s = StoreChunks(V, np, cs)
  BY <1>2, Zenon DEF store
<1>5. PICK g : StoresBy(g, V, np, cs) /\ s = g[k]
  BY <1>2, <1>50, StoreValues
<1>6. /\ g[0] = [pages |-> V, next_page |-> np, head |-> None]
      /\ \A i \in Nat : g[i + 1] = StoreChunk(g[i], cs[i + 1])
  BY <1>5 DEF StoresBy
<1>7. s = g[k]
  BY <1>5
<1> DEFINE T == {i \in Nat : i <= k => ListMade(V, np, e, n, m, i, g[i])}
<1>8. 0 \in T
  <2>1. ListMade(V, np, e, n, m, 0, g[0])
    BY <1>3, <1>6, ListStarted
  <2> QED
    BY <2>1
<1>9. ASSUME NEW i \in Nat, i \in T PROVE i + 1 \in T
  <2>1. PICK j \in Nat : j = i + 1
    OBVIOUS
  <2>2. CASE j <= k
    <3>1. i < k /\ i <= k
      BY <1>4, <2>1, <2>2
    <3>2. PICK acc, r : acc = g[i] /\ r = g[j]
      OBVIOUS
    <3>3. ListMade(V, np, e, n, m, i, acc)
      BY <1>9, <3>1, <3>2
    <3>4. r = StoreChunk(acc, cs[j])
      BY <1>6, <2>1, <3>2
    <3>5. ChunkOk(e, n, m, cs, i, j)
      BY <1>4, <2>1, <3>1
    <3>6. ListMade(V, np, e, n, m, j, r)
      BY <1>1, <1>2, <1>3, <2>1, <3>3, <3>4, <3>5, ListLinked
    <3> QED
      BY <2>1, <3>2, <3>6
  <2>3. CASE ~(j <= k)
    BY <2>1, <2>3
  <2> QED
    BY <2>2, <2>3
<1>10. ASSUME k \in T PROVE ListMade(V, np, e, n, m, k, g[k])
  BY <1>4, <1>10
<1> HIDE DEF T
<1>11. Nat \subseteq T
  BY <1>8, <1>9, Sto!SetInduction
<1>12. ListMade(V, np, e, n, m, k, s)
  BY <1>4, <1>7, <1>10, <1>11
<1>13. s.next_page = np + k /\ Agree(V, s.pages, Under(np))
  BY <1>12 DEF ListMade
<1>14. PICK page, data : /\ Chain(s.pages, k, page, data) /\ s.head = ChainHead(k, page)
                         /\ SameSet(ChainPages(k, page), Added(np, k))
                         /\ FreeIs(data[k], PagesAt(e, 0, m))
  BY <1>4, <1>12 DEF ListMade
<1>15. PagesAt(e, 0, m) = F
  <2>1. PICK h : h = Second(e)
    OBVIOUS
  <2>2. SecondIs(h, e, m)
    BY <1>1, <1>2, <2>1, SecondAt
  <2>3. Len(h) = m /\ \A i \in 1 .. m : h[i] = e[i][2]
    BY <2>2 DEF SecondIs
  <2>4. F = {h[i] : i \in 1 .. m}
    BY <1>1, <2>1, <2>3 DEF Elems
  <2>5. 0 + 1 .. m = 1 .. m
    BY <1>3
  <2> QED
    BY <2>3, <2>4, <2>5 DEF PagesAt
<1>16. Added(np, k) = np .. s.next_page - 1
  BY <1>13 DEF Added
<1>17. k <= s.next_page /\ s.next_page \in Nat /\ np <= s.next_page
  BY <1>4, <1>13
<1>18. FreeIs(data[k], F)
  BY <1>14, <1>15
<1>19. SameSet(ChainPages(k, page), np .. s.next_page - 1)
  BY <1>14, <1>16
<1>20. ListAt(s.pages, s.head, s.next_page, F, np .. s.next_page - 1)
  BY <1>4, <1>14, <1>17, <1>18, <1>19 DEF ListAt
<1> QED
  BY <1>13, <1>17, <1>20 DEF StoreOk

-------------------------------------------------------------------------------
(* The state of the store.                                                    *)

(* What is committed: a tree with the pages R, a free list with the pages F   *)
(* and the chains X of this free list and of earlier ones are all the file.   *)
Stored(file, m, X, lo, hi, R, F) ==
    /\ m.txn_id \in Nat /\ m.next_page \in Nat /\ META_PAGE_COUNT <= m.next_page
    /\ Rooting(file, m.root, lo, hi, R)
    /\ \E Y \in SUBSET X : ListAt(file, m.free_list_head, m.next_page, F, Y)
    /\ Disjoint(R, F) /\ Disjoint(R, X) /\ Disjoint(F, X)
    /\ SameSet(R \cup F \cup X, META_PAGE_COUNT .. m.next_page - 1)

(* What a write transaction has: a tree with the pages T, spare pages, and    *)
(* the chains.                                                                *)
Working(c, root, X, lo, hi, T) ==
    /\ Books(c) /\ Rooting(View(c), root, lo, hi, T)
    /\ Disjoint(T, Spare(c)) /\ Disjoint(X, T) /\ Disjoint(X, Spare(c))
    /\ SameSet(T \cup Spare(c) \cup X, Beyond(META_PAGE_COUNT))

(* The transaction writes no page of the committed tree and of the chains.    *)
KeepsOff(c, R, X) == Disjoint(Mine(c), R \cup X)

(* The context that a handle of the write transaction works with.             *)
LEMMA CtxFields ==
    ASSUME NEW w, NEW file, NEW c, c = Ctx(w, file)
    PROVE  /\ c.pages = file /\ c.overlay = w.overlay /\ c.next_page = w.next_page
           /\ c.free_list = w.free_list /\ c.obsolete = w.obsolete
           /\ c.scratch_pool = w.scratch_pool /\ IsCtx(c)
  BY DEF Ctx, IsCtx, CtxRec

(* Contexts with the same books.                                              *)
SameBooks(c, d) ==
    /\ c.pages = d.pages /\ c.overlay = d.overlay /\ c.next_page = d.next_page
    /\ c.free_list = d.free_list /\ c.obsolete = d.obsolete
    /\ c.scratch_pool = d.scratch_pool

(* What is said of a context depends on its books alone.                      *)
LEMMA BooksSame ==
    ASSUME NEW c, NEW d, SameBooks(c, d), IsCtx(d)
    PROVE  /\ Books(c) => Books(d)
           /\ View(d) = View(c) /\ Spare(d) = Spare(c) /\ Mine(d) = Mine(c)
<1> USE DEF SameBooks
<1>1. Nodes(d) = Nodes(c) /\ Free(d) = Free(c) /\ Old(d) = Old(c) /\ Pool(d) = Pool(c)
  BY Zenon DEF Nodes, Free, Old, Pool
<1>2. View(d) = View(c)
  BY Zenon DEF View
<1>3. Spare(d) = Spare(c) /\ Mine(d) = Mine(c)
  BY <1>1, Zenon DEF Spare, Mine
<1>4. Books(c) => Books(d)
  BY <1>1, Zenon DEF Books
<1> QED
  BY <1>2, <1>3, <1>4

-------------------------------------------------------------------------------
(* commit().                                                                  *)

(* The pages o are freed by transaction t.                                    *)
LEMMA FreedFrom ==
    ASSUME NEW o \in Seq(Nat \ {None}), Distinct(o), NEW t \in Nat,
           NEW d, d = [i \in DOMAIN o |-> <<t, o[i]>>], NEW X, X = Elems(o)
    PROVE  FreeIs(d, X)
<1>1. PICK m : m = Len(o)
  OBVIOUS
<1>2. m \in Nat /\ DOMAIN o = 1 .. m /\ \A i \in 1 .. m : o[i] \in Nat \ {None}
  BY <1>1, LenProperties, ElementOfSeq
<1>3. d = [i \in 1 .. m |-> <<t, o[i]>>]
  BY <1>2
<1>4. \A i \in 1 .. m : <<t, o[i]>> \in FreeSet
  BY <1>2 DEF FreeSet
<1>5. d \in [1 .. m -> FreeSet]
  BY <1>3, <1>4
<1>6. d \in Seq(FreeSet) /\ Len(d) = m
  BY <1>2, <1>5
<1>7. \A i \in 1 .. m : d[i][2] = o[i]
  BY <1>3
<1>8. PICK g : g = Second(d)
  OBVIOUS
<1>9. SecondIs(g, d, m)
  BY <1>6, <1>8, SecondAt
<1>10. Len(g) = m /\ \A i \in 1 .. m : g[i] = o[i]
  BY <1>7, <1>9 DEF SecondIs
<1>11. Distinct(g)
  BY <1>1, <1>10 DEF Distinct
<1>12. Elems(g) = Elems(o)
  BY <1>1, <1>10 DEF Elems
<1> QED
  BY <1>6, <1>8, <1>11, <1>12 DEF FreeIs, SameSet

(* commit() puts into the free list what was free, obsolete or in the pool.   *)
LEMMA FreedOk ==
    ASSUME NEW c, Books(c), NEW m, m.txn_id \in Nat, NEW w, NEW file, c = Ctx(w, file),
           NEW e, e = FreedEntries(m, w), NEW F, F = Free(c) \cup Old(c) \cup Pool(c)
    PROVE  FreeIs(e, F)
<1>1. w.free_list = c.free_list /\ w.obsolete = c.obsolete /\ w.scratch_pool = c.scratch_pool
  BY CtxFields
<1>2. PICK f, b, s, o, t : /\ f = c.free_list /\ b = c.obsolete /\ s = c.scratch_pool
                           /\ o = b \o s /\ t = m.txn_id + 1
  OBVIOUS
<1>3. /\ f \in Seq(FreeSet) /\ b \in Seq(Nat \ {None}) /\ s \in Seq(Nat \ {None})
      /\ Distinct(Second(f)) /\ Distinct(b) /\ Distinct(s)
  BY <1>2 DEF Books, BookSeqs
<1>4. /\ Free(c) = Elems(Second(f)) /\ Old(c) = Elems(b) /\ Pool(c) = Elems(s)
      /\ Disjoint(Elems(b), Elems(s))
      /\ Disjoint(Free(c), Old(c) \cup Pool(c))
  BY <1>2 DEF Books, BookSets, Free, Old, Pool, Disjoint
<1>5. o \in Seq(Nat \ {None}) /\ Distinct(o) /\ IsUnion(Elems(o), Elems(b), Elems(s))
  BY <1>2, <1>3, <1>4, JoinIds
<1>6. PICK d, X : d = [i \in DOMAIN o |-> <<t, o[i]>>] /\ X = Elems(o)
  OBVIOUS
<1>7. t \in Nat
  BY <1>2
<1>8. FreeIs(d, X)
  BY <1>5, <1>6, <1>7, FreedFrom
<1>9. X = Old(c) \cup Pool(c)
  BY <1>4, <1>5, <1>6 DEF IsUnion
<1>10. PICK A : A = Free(c)
  OBVIOUS
<1>11. FreeIs(f, A) /\ Disjoint(A, X) /\ IsUnion(F, A, X)
  BY <1>3, <1>4, <1>9, <1>10 DEF FreeIs, SameSet, IsUnion
<1>12. e = f \o d
  BY <1>1, <1>2, <1>6, Zenon DEF FreedEntries
<1> QED
  BY <1>8, <1>11, <1>12, JoinFree

(* A tree whose pages stay as they are.                                       *)
LEMMA RootingFrame ==
    ASSUME NEW V, NEW W, NEW root, NEW lo, NEW hi, NEW T, Rooting(V, root, lo, hi, T),
           Agree(V, W, T)
    PROVE  Rooting(W, root, lo, hi, T)
<1>1. CASE root = None
  BY <1>1 DEF Rooting
<1>2. CASE root # None
  <2>1. PICK n \in Nat : Tree(V, n, root, lo, hi) /\ T = Pages(V, n, root)
    BY <1>2 DEF Rooting
  <2>2. Agree(V, W, Pages(V, n, root))
    BY <2>1
  <2>3. Tree(W, n, root, lo, hi) /\ Pages(W, n, root) = Pages(V, n, root)
    BY <2>1, <2>2, TreeFrame DEF TreeKept
  <2> QED
    BY <1>2, <2>1, <2>3 DEF Rooting
<1> QED
  BY <1>1, <1>2

(* The pages of a tree are page ids.                                          *)
LEMMA RootingNat ==
    ASSUME NEW V, NEW root, NEW lo, NEW hi, NEW T, Rooting(V, root, lo, hi, T)
    PROVE  T \subseteq Nat \ {None}
<1>1. CASE root = None
  BY <1>1 DEF Rooting
<1>2. CASE root # None
  <2>1. PICK n \in Nat : Tree(V, n, root, lo, hi) /\ T = Pages(V, n, root)
    BY <1>2 DEF Rooting
  <2>2. Tall(V, n)
    BY TallAll
  <2> QED
    BY <2>1, <2>2 DEF Tall
<1> QED
  BY <1>1, <1>2

-------------------------------------------------------------------------------
OwnedBy(T, F, X, k) ==
    /\ Disjoint(T, F) /\ Disjoint(T, X) /\ Disjoint(F, X)
    /\ SameSet(T \cup F \cup X, META_PAGE_COUNT .. k - 1)

(* The pages from n to k are new chains, what was spare is the free list.     *)
LEMMA CommitSets ==
    ASSUME NEW n \in Nat, NEW k \in Nat, n <= k, NEW T, T \subseteq Nat, NEW F,
           F \subseteq 1 .. n - 1, NEW S, S = F \cup Beyond(n), NEW X,
           Disjoint(T, S), Disjoint(X, T), Disjoint(X, S),
           SameSet(T \cup S \cup X, Beyond(META_PAGE_COUNT)),
           NEW X2, X2 = X \cup (n .. k - 1)
    PROVE  OwnedBy(T, F, X2, k) /\ T \subseteq Under(n)
<1>1. PICK N : N = n .. k - 1
  OBVIOUS
<1>2. X2 = X \cup N
  BY <1>1
<1>3. \A p : p \in N => p \in Nat /\ p >= n /\ p < k
  BY <1>1
<1>4. N \subseteq Beyond(n)
  BY <1>3 DEF Beyond
<1>5. Disjoint(F, N)
  BY <1>1 DEF Disjoint
<1>6. Disjoint(T, F) /\ Disjoint(T, X2) /\ Disjoint(F, X2)
  BY <1>2, <1>4, <1>5 DEF Disjoint
<1>7. T \subseteq Under(n)
  <2>1. ASSUME NEW p \in T PROVE p < n
    <3>1. p \in Nat /\ p \notin Beyond(n)
      BY DEF Disjoint
    <3> QED
      BY <3>1 DEF Beyond
  <2> QED
    BY <2>1 DEF Under
<1>8. ASSUME NEW p, p \in T \cup F \cup X2 PROVE p \in META_PAGE_COUNT .. k - 1
  <2>1. p \in Beyond(META_PAGE_COUNT)
    BY <1>2, <1>4, <1>8 DEF SameSet
  <2>2. p \in Nat /\ p >= META_PAGE_COUNT
    BY <2>1 DEF Beyond
  <2>3. p < k
    <3>1. CASE p \in N
      BY <1>3, <3>1
    <3>2. CASE p \in T
      BY <1>7, <3>2 DEF Under
    <3>3. CASE p \in F
      BY <3>3
    <3>4. CASE p \in X
      <4>1. p \notin Beyond(n)
        BY <3>4 DEF Disjoint
      <4> QED
        BY <2>2, <4>1 DEF Beyond
    <3> QED
      BY <1>2, <1>8, <3>1, <3>2, <3>3, <3>4
  <2> QED
    BY <2>2, <2>3 DEF META_PAGE_COUNT
<1>9. ASSUME NEW p, p \in META_PAGE_COUNT .. k - 1 PROVE p \in T \cup F \cup X2
  <2>1. p \in Nat /\ p < k /\ p >= META_PAGE_COUNT
    BY <1>9 DEF META_PAGE_COUNT
  <2>2. p \in T \cup S \cup X
    <3>1. p \in Beyond(META_PAGE_COUNT)
      BY <2>1 DEF Beyond
    <3> QED
      BY <3>1 DEF SameSet
  <2>3. CASE p \in Beyond(n)
    <3>1. p \in N
      BY <1>1, <2>1, <2>3 DEF Beyond
    <3> QED
      BY <1>2, <3>1
  <2>4. CASE p \notin Beyond(n)
    BY <1>2, <2>2, <2>4
  <2> QED
    BY <2>3, <2>4
<1>10. SameSet(T \cup F \cup X2, META_PAGE_COUNT .. k - 1)
  BY <1>8, <1>9 DEF SameSet
<1> QED
  BY <1>6, <1>7, <1>10 DEF OwnedBy

CommitResult(r, X2, lo, hi, T) == \E F : Stored(r.pages, r.meta, X2, lo, hi, T, F)

(* commit() publishes the transaction's tree and a free list with all that    *)
(* was spare.                                                                 *)
LEMMA CommitOk ==
    ASSUME NEW c, NEW root, NEW X, NEW lo, NEW hi, NEW T, Working(c, root, X, lo, hi, T),
           NEW m, m.txn_id \in Nat, NEW w, NEW file, c = Ctx(w, file), w.root = root,
           NEW r, r = Committed(m, w, file),
           NEW X2, X2 = X \cup (w.next_page .. r.meta.next_page - 1)
    PROVE  CommitResult(r, X2, lo, hi, T)
<1>1. /\ Books(c) /\ Rooting(View(c), root, lo, hi, T)
      /\ Disjoint(T, Spare(c)) /\ Disjoint(X, T) /\ Disjoint(X, Spare(c))
      /\ SameSet(T \cup Spare(c) \cup X, Beyond(META_PAGE_COUNT))
  BY DEF Working
<1>2. c.pages = file /\ c.overlay = w.overlay /\ c.next_page = w.next_page
  BY CtxFields
<1>3. PICK V, n, e, F, s, k : /\ V = View(c) /\ n = c.next_page /\ e = FreedEntries(m, w)
                              /\ F = Free(c) \cup Old(c) \cup Pool(c)
                              /\ s = store(V, n, e) /\ k = s.next_page
  OBVIOUS
<1>4. V = Flushed(w, file)
  BY <1>2, <1>3, Zenon DEF View, Flushed
<1>5. r = Advance(m, w, s)
  BY <1>2, <1>3, <1>4, Zenon DEF Committed
<1>6. /\ r.pages = s.pages /\ r.meta.txn_id = m.txn_id + 1 /\ r.meta.root = root
      /\ r.meta.next_page = k /\ r.meta.free_list_head = s.head
  BY <1>3, <1>5 DEF Advance
<1>7. n \in Nat \ {0} /\ F \subseteq 1 .. n - 1
  BY <1>1, <1>3 DEF Books, BookSets
<1>8. FreeIs(e, F)
  BY <1>1, <1>3, FreedOk
<1>9. StoreOk(V, n, F, s)
  BY <1>3, <1>7, <1>8, StoreListOk
<1>10. PICK W, Y : W = s.pages /\ Y = n .. k - 1
  OBVIOUS
<1>11. k \in Nat /\ n <= k /\ Agree(V, W, Under(n)) /\ ListAt(W, s.head, k, F, Y)
  BY <1>3, <1>9, <1>10 DEF StoreOk
<1>12. Spare(c) = F \cup Beyond(n)
  BY <1>3 DEF Spare, SpareSet
<1>13. T \subseteq Nat
  <2>1. T \subseteq Nat \ {None}
    BY <1>1, RootingNat
  <2> QED
    BY <2>1
<1>14. PICK S : S = Spare(c)
  OBVIOUS
<1>15. X2 = X \cup (n .. k - 1)
  BY <1>2, <1>3, <1>6
<1>16. /\ S = F \cup Beyond(n) /\ Disjoint(T, S) /\ Disjoint(X, S)
       /\ SameSet(T \cup S \cup X, Beyond(META_PAGE_COUNT)) /\ n \in Nat
  BY <1>1, <1>7, <1>12, <1>14
<1>17. OwnedBy(T, F, X2, k) /\ T \subseteq Under(n)
  BY <1>1, <1>7, <1>11, <1>13, <1>15, <1>16, CommitSets
<1>18. Agree(V, W, T)
  BY <1>11, <1>17 DEF Agree
<1>19. Rooting(W, root, lo, hi, T)
  BY <1>1, <1>3, <1>18, RootingFrame
<1>20. Y \in SUBSET X2
  BY <1>10, <1>15
<1>21. k \in Nat /\ META_PAGE_COUNT <= k
  <2>1. n \in Beyond(META_PAGE_COUNT)
    BY <1>16 DEF SameSet, Beyond
  <2>2. META_PAGE_COUNT <= n
    BY <2>1 DEF Beyond
  <2> QED
    BY <1>7, <1>11, <2>2 DEF META_PAGE_COUNT
<1>22. m.txn_id + 1 \in Nat
  OBVIOUS
<1>23. /\ Disjoint(T, F) /\ Disjoint(T, X2) /\ Disjoint(F, X2)
       /\ SameSet(T \cup F \cup X2, META_PAGE_COUNT .. k - 1)
  BY <1>17 DEF OwnedBy
<1>24. Stored(r.pages, r.meta, X2, lo, hi, T, F)
  BY <1>6, <1>10, <1>11, <1>19, <1>20, <1>21, <1>22, <1>23 DEF Stored
<1> QED
  BY <1>24 DEF CommitResult

-------------------------------------------------------------------------------
(* put and delete in a transaction.                                           *)
OpResult(c, d, root, X, lo, hi, R) ==
    /\ \E T : Working(d, root, X, lo, hi, T)
    /\ KeepsOff(d, R, X) /\ Agree(c.pages, d.pages, R \cup X)

(* An operation on the transaction's tree leaves the committed pages alone.   *)
LEMMA OpOk ==
    ASSUME NEW c, NEW root, NEW X, NEW lo, NEW hi, NEW T, Working(c, root, X, lo, hi, T),
           NEW R, KeepsOff(c, R, X), NEW r, RootOk(c, T, r, lo, hi),
           NEW d, d = r.ctx, NEW q, q = r.id
    PROVE  OpResult(c, d, q, X, lo, hi, R)
<1>1. /\ Disjoint(T, Spare(c)) /\ Disjoint(X, T) /\ Disjoint(X, Spare(c))
      /\ SameSet(T \cup Spare(c) \cup X, Beyond(META_PAGE_COUNT))
  BY DEF Working
<1>2. PICK U : Rooting(View(d), q, lo, hi, U) /\ Eff(c, T, d, U)
  BY DEF RootOk
<1>3. /\ Books(d) /\ U \cup Spare(d) = T \cup Spare(c) /\ U \cap Spare(d) = {}
      /\ Mine(d) \subseteq Mine(c) /\ SameFile(c, d)
  BY <1>2 DEF Eff, Traded
<1>4. Disjoint(U, Spare(d)) /\ Disjoint(X, U) /\ Disjoint(X, Spare(d))
  BY <1>1, <1>3 DEF Disjoint
<1>5. SameSet(U \cup Spare(d) \cup X, Beyond(META_PAGE_COUNT))
  BY <1>1, <1>3 DEF SameSet
<1>6. Working(d, q, X, lo, hi, U)
  BY <1>2, <1>3, <1>4, <1>5 DEF Working
<1>7. KeepsOff(d, R, X)
  BY <1>3 DEF KeepsOff, Disjoint
<1>8. Agree(c.pages, d.pages, R \cup X)
  BY <1>3 DEF KeepsOff, Disjoint, SameFile, Agree
<1> QED
  BY <1>6, <1>7, <1>8 DEF OpResult

(* The state after the operation.                                             *)
LEMMA OpState ==
    ASSUME NEW c, NEW d, NEW q, NEW X, NEW lo, NEW hi, NEW R,
           OpResult(c, d, q, X, lo, hi, R), NEW w, NEW u, u = WithCtx(w, d, q),
           NEW file, file = d.pages, NEW e, e = Ctx(u, file)
    PROVE  OpResult(c, e, u.root, X, lo, hi, R) /\ u.open
<1>1. /\ u.open /\ u.root = q /\ u.overlay = d.overlay /\ u.next_page = d.next_page
      /\ u.free_list = d.free_list /\ u.obsolete = d.obsolete
      /\ u.scratch_pool = d.scratch_pool
  BY DEF WithCtx
<1>2. /\ e.pages = file /\ e.overlay = u.overlay /\ e.next_page = u.next_page
      /\ e.free_list = u.free_list /\ e.obsolete = u.obsolete
      /\ e.scratch_pool = u.scratch_pool /\ IsCtx(e)
  BY CtxFields
<1>3. SameBooks(d, e)
  BY <1>1, <1>2 DEF SameBooks
<1>4. /\ Books(d) => Books(e)
      /\ View(e) = View(d) /\ Spare(e) = Spare(d) /\ Mine(e) = Mine(d)
  BY <1>2, <1>3, BooksSame
<1>5. PICK T : Working(d, q, X, lo, hi, T)
  BY DEF OpResult
<1>6. Working(e, u.root, X, lo, hi, T)
  BY <1>1, <1>4, <1>5 DEF Working
<1>7. KeepsOff(e, R, X) /\ Agree(c.pages, e.pages, R \cup X)
  BY <1>2, <1>4 DEF OpResult, KeepsOff
<1> QED
  BY <1>1, <1>6, <1>7 DEF OpResult

-------------------------------------------------------------------------------
(* What is committed stays as it is while a transaction writes other pages.   *)
LEMMA ChainKept ==
    ASSUME NEW V, NEW W, NEW m \in Nat, NEW page, NEW data, Chain(V, m, page, data),
           Agree(V, W, ChainPages(m, page))
    PROVE  Chain(W, m, page, data)
<1>1. ASSUME NEW j \in 1 .. m PROVE ChainLink(W, j, page, data)
  <2>1. ChainLink(V, j, page, data)
    BY DEF Chain
  <2>2. page[j] \in ChainPages(m, page)
    BY DEF ChainPages
  <2>3. page[j] \in DOMAIN W /\ W[page[j]] = V[page[j]]
    BY <2>1, <2>2 DEF Agree, ChainLink
  <2> QED
    BY <2>1, <2>3 DEF ChainLink
<1> QED
  BY <1>1 DEF Chain

(* The free list stays.                                                       *)
LEMMA ListKept ==
    ASSUME NEW V, NEW W, NEW head, NEW np, NEW F, NEW Y, ListAt(V, head, np, F, Y),
           Agree(V, W, Y)
    PROVE  ListAt(W, head, np, F, Y)
<1>1. PICK k \in Nat : \E page, data :
        /\ k <= np /\ head = ChainHead(k, page) /\ Chain(V, k, page, data)
        /\ FreeIs(data[k], F) /\ SameSet(ChainPages(k, page), Y)
  BY DEF ListAt
<1>2. PICK page, data :
        /\ k <= np /\ head = ChainHead(k, page) /\ Chain(V, k, page, data)
        /\ FreeIs(data[k], F) /\ SameSet(ChainPages(k, page), Y)
  BY <1>1
<1>3. Agree(V, W, ChainPages(k, page))
  BY <1>2 DEF SameSet
<1>4. Chain(W, k, page, data)
  BY <1>2, <1>3, ChainKept
<1> QED
  BY <1>2, <1>4 DEF ListAt

(* The tree and the free list stay.                                           *)
LEMMA StoredKept ==
    ASSUME NEW V, NEW W, NEW m, NEW X, NEW lo, NEW hi, NEW R, NEW F,
           Stored(V, m, X, lo, hi, R, F), Agree(V, W, R \cup X)
    PROVE  Stored(W, m, X, lo, hi, R, F)
<1>1. PICK Y \in SUBSET X : ListAt(V, m.free_list_head, m.next_page, F, Y)
  BY DEF Stored
<1>2. Rooting(V, m.root, lo, hi, R)
  BY DEF Stored
<1>3. Agree(V, W, R) /\ Agree(V, W, Y)
  BY DEF Agree
<1>4. PICK head, np, root : head = m.free_list_head /\ np = m.next_page /\ root = m.root
  OBVIOUS
<1>5. ListAt(V, head, np, F, Y) /\ Rooting(V, root, lo, hi, R)
  BY <1>1, <1>2, <1>4
<1>6. ListAt(W, head, np, F, Y) /\ Rooting(W, root, lo, hi, R)
  BY <1>3, <1>5, ListKept, RootingFrame
<1> QED
  BY <1>4, <1>6 DEF Stored

-------------------------------------------------------------------------------
(* begin_write.                                                               *)
LEMMA LoadOk ==
    ASSUME NEW V, NEW head, NEW np \in Nat, NEW F, NEW Y, ListAt(V, head, np, F, Y),
           NEW f, f = load(V, head, np)
    PROVE  FreeIs(f, F)
<1>1. PICK k \in Nat : \E page, data :
        /\ k <= np /\ head = ChainHead(k, page) /\ Chain(V, k, page, data)
        /\ FreeIs(data[k], F) /\ SameSet(ChainPages(k, page), Y)
  BY DEF ListAt
<1>2. PICK page, data :
        /\ k <= np /\ head = ChainHead(k, page) /\ Chain(V, k, page, data)
        /\ FreeIs(data[k], F) /\ SameSet(ChainPages(k, page), Y)
  BY <1>1
<1>3. read_chain(V, ChainHead(k, page), np) = data[k]
  BY <1>2, ChainRead
<1>4. f = data[k]
  BY <1>2, <1>3 DEF load
<1> QED
  BY <1>2, <1>4

(* A context without nodes.                                                   *)
LEMMA EmptyBooks ==
    ASSUME NEW c, IsCtx(c), NEW n \in Nat \ {0}, c.next_page = n, NEW F,
           FreeIs(c.free_list, F), F \subseteq 1 .. n - 1,
           c.overlay = NoPages, c.obsolete = <<>>, c.scratch_pool = <<>>
    PROVE  /\ Books(c) /\ IsUnion(Spare(c), F, Beyond(n)) /\ IsUnion(Mine(c), F, Beyond(n))
           /\ \A S : Agree(c.pages, View(c), S)
<1>1. Nodes(c) = {}
  BY DEF Nodes, NoPages
<1>2. PICK x : x = <<>>
  OBVIOUS
<1>3. x \in Seq(Nat \ {None}) /\ Len(x) = 0
  BY <1>2
<1>4. Distinct(x) /\ Elems(x) = {}
  BY <1>3 DEF Distinct, Elems
<1>5. Old(c) = {} /\ Pool(c) = {}
  BY <1>2, <1>4 DEF Old, Pool
<1>6. Free(c) = F /\ c.free_list \in Seq(FreeSet) /\ Distinct(Second(c.free_list))
  BY DEF FreeIs, SameSet, Free
<1>7. BookSeqs(c.free_list, c.obsolete, c.scratch_pool)
  BY <1>2, <1>3, <1>4, <1>6 DEF BookSeqs
<1>8. BookSets(c.next_page, Free(c), Old(c), Pool(c), Nodes(c))
  BY <1>1, <1>5, <1>6 DEF BookSets
<1>9. Books(c)
  BY <1>1, <1>7, <1>8 DEF Books
<1>10. IsUnion(Spare(c), F, Beyond(n)) /\ IsUnion(Mine(c), F, Beyond(n))
  BY <1>1, <1>5, <1>6 DEF Spare, Mine, SpareSet, MineSet, IsUnion
<1>11. \A S : Agree(c.pages, View(c), S)
  <2>1. DOMAIN c.overlay = {}
    BY <1>1 DEF Nodes
  <2> QED
    BY <2>1 DEF Agree, View
<1> QED
  BY <1>9, <1>10, <1>11

(* What is not in use is spare.                                               *)
LEMMA BeginSets ==
    ASSUME NEW n \in Nat, META_PAGE_COUNT <= n, NEW R, NEW F, NEW X,
           OwnedBy(R, F, X, n), NEW S, IsUnion(S, F, Beyond(n))
    PROVE  /\ Disjoint(R, S) /\ Disjoint(X, R) /\ Disjoint(X, S) /\ Disjoint(S, R \cup X)
           /\ SameSet(R \cup S \cup X, Beyond(META_PAGE_COUNT)) /\ F \subseteq 1 .. n - 1
<1>1. /\ Disjoint(R, F) /\ Disjoint(R, X) /\ Disjoint(F, X)
      /\ R \cup F \cup X = META_PAGE_COUNT .. n - 1
  BY DEF OwnedBy, SameSet
<1>2. ASSUME NEW p, p \in META_PAGE_COUNT .. n - 1
      PROVE  p \notin Beyond(n) /\ p \in Beyond(META_PAGE_COUNT) /\ p \in 1 .. n - 1
  BY <1>2 DEF Beyond, META_PAGE_COUNT
<1>3. ASSUME NEW p \in Beyond(n) PROVE p \in Beyond(META_PAGE_COUNT)
  BY DEF Beyond, META_PAGE_COUNT
<1>4. ASSUME NEW p \in Beyond(META_PAGE_COUNT), p \notin Beyond(n)
      PROVE  p \in META_PAGE_COUNT .. n - 1
  BY <1>4 DEF Beyond, META_PAGE_COUNT
<1>5. S = F \cup Beyond(n)
  BY DEF IsUnion
<1>6. Disjoint(R, S) /\ Disjoint(X, R) /\ Disjoint(X, S) /\ Disjoint(S, R \cup X)
  <2>1. ASSUME NEW p, p \in R \cup F \cup X PROVE p \notin Beyond(n)
    BY <1>1, <1>2, <2>1
  <2> QED
    BY <1>1, <1>5, <2>1 DEF Disjoint
<1>7. ASSUME NEW p, p \in R \cup S \cup X PROVE p \in Beyond(META_PAGE_COUNT)
  <2>1. CASE p \in Beyond(n)
    BY <1>3, <2>1
  <2>2. CASE p \notin Beyond(n)
    <3>1. p \in META_PAGE_COUNT .. n - 1
      BY <1>1, <1>5, <1>7, <2>2
    <3> QED
      BY <1>2, <3>1
  <2> QED
    BY <2>1, <2>2
<1>8. ASSUME NEW p \in Beyond(META_PAGE_COUNT) PROVE p \in R \cup S \cup X
  BY <1>1, <1>4, <1>5
<1>9. SameSet(R \cup S \cup X, Beyond(META_PAGE_COUNT))
  BY <1>7, <1>8 DEF SameSet
<1>10. F \subseteq 1 .. n - 1
  BY <1>1, <1>2
<1> QED
  BY <1>6, <1>9, <1>10

Begins(c, root, X, lo, hi, R) == Working(c, root, X, lo, hi, R) /\ KeepsOff(c, R, X)

(* begin_write opens a transaction on the committed tree.                     *)
LEMMA BeginOk ==
    ASSUME NEW file, NEW m, NEW X, NEW lo, NEW hi, NEW R, NEW F,
           Stored(file, m, X, lo, hi, R, F), NEW k, NEW w, w = Begun(m, file, k),
           NEW c, c = Ctx(w, file)
    PROVE  Begins(c, w.root, X, lo, hi, R) /\ w.open
<1>1. PICK n, root, f : /\ n = m.next_page /\ root = m.root
                        /\ f = load(file, m.free_list_head, m.next_page)
  OBVIOUS
<1>2. /\ n \in Nat /\ META_PAGE_COUNT <= n /\ Rooting(file, root, lo, hi, R)
      /\ OwnedBy(R, F, X, n)
  BY <1>1 DEF Stored, OwnedBy
<1>3. FreeIs(f, F)
  <2>1. PICK Y \in SUBSET X : ListAt(file, m.free_list_head, m.next_page, F, Y)
    BY DEF Stored
  <2>2. PICK head : head = m.free_list_head
    OBVIOUS
  <2>3. ListAt(file, head, n, F, Y) /\ f = load(file, head, n)
    BY <1>1, <2>1, <2>2
  <2> QED
    BY <1>2, <2>3, LoadOk
<1>4. /\ w.open /\ w.root = root /\ w.next_page = n /\ w.free_list = f
      /\ w.overlay = NoPages /\ w.obsolete = <<>> /\ w.scratch_pool = <<>>
  BY <1>1 DEF Begun, NoWrite
<1>5. /\ c.pages = file /\ c.overlay = NoPages /\ c.next_page = n
      /\ c.free_list = f /\ c.obsolete = <<>> /\ c.scratch_pool = <<>> /\ IsCtx(c)
  BY <1>4, CtxFields
<1>6. n \in Nat \ {0}
  BY <1>2 DEF META_PAGE_COUNT
<1>7. PICK S, M : S = Spare(c) /\ M = Mine(c)
  OBVIOUS
<1>8. F \subseteq 1 .. n - 1
  <2>1. IsUnion(F \cup Beyond(n), F, Beyond(n))
    BY DEF IsUnion
  <2> QED
    BY <1>2, <2>1, BeginSets
<1>9. /\ Books(c) /\ IsUnion(S, F, Beyond(n)) /\ IsUnion(M, F, Beyond(n))
      /\ \A Z : Agree(c.pages, View(c), Z)
  BY <1>3, <1>5, <1>6, <1>7, <1>8, EmptyBooks
<1>10. /\ Disjoint(R, S) /\ Disjoint(X, R) /\ Disjoint(X, S)
       /\ SameSet(R \cup S \cup X, Beyond(META_PAGE_COUNT))
  BY <1>2, <1>9, BeginSets
<1>11. Disjoint(M, R \cup X)
  BY <1>2, <1>9, BeginSets
<1>12. PICK V : V = View(c)
  OBVIOUS
<1>13. Agree(file, V, R)
  BY <1>5, <1>9, <1>12
<1>14. Rooting(V, root, lo, hi, R)
  BY <1>2, <1>13, RootingFrame
<1>15. Working(c, w.root, X, lo, hi, R)
  BY <1>4, <1>7, <1>9, <1>10, <1>12, <1>14 DEF Working
<1>16. KeepsOff(c, R, X)
  BY <1>7, <1>11 DEF KeepsOff
<1> QED
  BY <1>4, <1>15, <1>16 DEF Begins

-------------------------------------------------------------------------------
(* The bounds of the keys.                                                    *)

(* The first n values of f have a least and a greatest one.                   *)
Bounded(S) == (\E x \in S : \A y \in S : x <= y) /\ (\E x \in S : \A y \in S : x >= y)

(* One more value.                                                            *)
LEMMA BoundedStep ==
    ASSUME NEW S, S \subseteq Int, S # {} => Bounded(S), NEW e \in Int,
           NEW T, T = S \cup {e}
    PROVE  Bounded(T)
<1>1. CASE S = {}
  BY <1>1 DEF Bounded
<1>2. CASE S # {}
  <2>1. PICK a \in S : \A y \in S : a <= y
    BY <1>2 DEF Bounded
  <2>2. PICK b \in S : \A y \in S : b >= y
    BY <1>2 DEF Bounded
  <2>3. \E x \in T : \A y \in T : x <= y
    <3>1. CASE a <= e
      <4>1. a \in T /\ \A y \in T : a <= y
        BY <2>1, <3>1
      <4> QED
        BY <4>1
    <3>2. CASE e <= a
      <4>1. e \in T /\ \A y \in T : e <= y
        BY <2>1, <3>2
      <4> QED
        BY <4>1
    <3>3. a \in Int
      BY <2>1
    <3> QED
      BY <3>1, <3>2, <3>3
  <2>4. \E x \in T : \A y \in T : x >= y
    <3>1. CASE b >= e
      <4>1. b \in T /\ \A y \in T : b >= y
        BY <2>2, <3>1
      <4> QED
        BY <4>1
    <3>2. CASE e >= b
      <4>1. e \in T /\ \A y \in T : e >= y
        BY <2>2, <3>2
      <4> QED
        BY <4>1
    <3>3. b \in Int
      BY <2>2
    <3> QED
      BY <3>1, <3>2, <3>3
  <2> QED
    BY <2>3, <2>4 DEF Bounded
<1> QED
  BY <1>1, <1>2

(* A finite set of integers has a least and a greatest one.                   *)
LEMMA FiniteBounded ==
    ASSUME NEW K, K \subseteq Int, K # {}, IsFiniteSet(K)
    PROVE  Bounded(K)
<1>1. PICK n \in Nat : ExistsSurjection(1 .. n, K)
  BY FS_NatSurjection
<1>2. PICK f : f \in Surjection(1 .. n, K)
  BY <1>1 DEF ExistsSurjection
<1>3. /\ \A i \in 1 .. n : f[i] \in K
      /\ \A t \in K : \E i \in 1 .. n : f[i] = t
  BY <1>2 DEF Surjection
<1> DEFINE T == {m \in Nat : m <= n /\ m # 0 => Bounded({f[i] : i \in 1 .. m})}
<1>4. 0 \in T
  OBVIOUS
<1>5. ASSUME NEW m \in Nat, m \in T PROVE m + 1 \in T
  <2> SUFFICES ASSUME m + 1 <= n PROVE Bounded({f[i] : i \in 1 .. m + 1})
    OBVIOUS
  <2>1. PICK A, B, e : /\ A = {f[i] : i \in 1 .. m} /\ e = f[m + 1]
                       /\ B = {f[i] : i \in 1 .. m + 1}
    OBVIOUS
  <2>2. A \subseteq Int /\ e \in Int
    <3>1. \A i \in 1 .. m + 1 : i \in 1 .. n
      OBVIOUS
    <3>2. \A i \in 1 .. m + 1 : f[i] \in Int
      BY <1>3, <3>1
    <3>3. m + 1 \in 1 .. m + 1 /\ \A i \in 1 .. m : i \in 1 .. m + 1
      OBVIOUS
    <3>4. e \in Int
      BY <2>1, <3>2, <3>3
    <3>5. ASSUME NEW x \in A PROVE x \in Int
      <4>1. PICK i \in 1 .. m : x = f[i]
        BY <2>1
      <4> QED
        BY <3>2, <3>3, <4>1
    <3> QED
      BY <3>4, <3>5
  <2>3. A # {} => Bounded(A)
    <3>1. A # {} => m # 0
      BY <2>1
    <3> QED
      BY <1>5, <2>1, <3>1
  <2>4. B = A \cup {e}
    BY <2>1
  <2>5. Bounded(B)
    BY <2>2, <2>3, <2>4, BoundedStep
  <2> QED
    BY <2>1, <2>5
<1>6. ASSUME n \in T PROVE Bounded(K)
  <2>1. K = {f[i] : i \in 1 .. n}
    BY <1>3
  <2>2. n # 0
    <3>1. PICK t : t \in K
      OBVIOUS
    <3>2. PICK i \in 1 .. n : f[i] = t
      BY <1>3, <3>1
    <3> QED
      BY <3>2
  <2> QED
    BY <1>6, <2>1, <2>2
<1> HIDE DEF T
<1>7. Nat \subseteq T
  BY <1>4, <1>5, Unw!SetInduction
<1> QED
  BY <1>6, <1>7

Lowest == Min(Keys)
Above == Max(Keys) + 1
KeyWithin(k) == k \in Int /\ Lowest <= k /\ k < Above

(* The bounds are around every key.                                           *)
LEMMA KeyBounds ==
    /\ Lowest \in Int /\ Above \in Int
    /\ \A k \in Keys : KeyWithin(k)
<1>1. PICK K : K = Keys
  OBVIOUS
<1>2. K \subseteq Int /\ Bounded(K)
  BY <1>1, TreeStoreAssumption, FiniteBounded
<1>3. PICK a, b : a = Min(K) /\ b = Max(K)
  OBVIOUS
<1>4. a = CHOOSE x \in K : \A y \in K : x =< y
  BY <1>3 DEF Min
<1>5. b = CHOOSE x \in K : \A y \in K : x >= y
  BY <1>3 DEF Max
<1>6. a \in K /\ \A y \in K : a =< y
  BY <1>2, <1>4 DEF Bounded
<1>7. b \in K /\ \A y \in K : b >= y
  BY <1>2, <1>5 DEF Bounded
<1>8. Lowest = a /\ Above = b + 1
  BY <1>1, <1>3 DEF Lowest, Above
<1> QED
  BY <1>1, <1>2, <1>6, <1>7, <1>8 DEF KeyWithin

-------------------------------------------------------------------------------
(* The store that a seed fills.                                               *)

(* The file as create leaves it: no tree, no free list, no page.              *)
LEMMA NewStored ==
    ASSUME NEW file, file = NoPages, NEW m, m = InitMeta, NEW X, X = {}
    PROVE  Stored(file, m, X, Lowest, Above, X, X)
<1>1. /\ m.txn_id = 0 /\ m.root = None /\ m.next_page = 2 /\ m.free_list_head = None
  BY DEF InitMeta, META_PAGE_COUNT
<1>2. PICK page, data : data = [i \in 0 .. 0 |-> <<>>] /\ page = data
  OBVIOUS
<1>3. PICK k \in Nat : k = 0
  OBVIOUS
<1>4. data[k] = <<>>
  BY <1>2, <1>3
<1>5. Chain(file, k, page, data)
  BY <1>3, <1>4 DEF Chain
<1>6. FreeIs(data[k], X)
  <2>1. PICK f : f = data[k]
    OBVIOUS
  <2>2. FreeIs(f, X)
    BY <1>4, <2>1, EmptyFree
  <2> QED
    BY <2>1, <2>2
<1>7. SameSet(ChainPages(k, page), X) /\ ChainHead(k, page) = None
  BY <1>3 DEF SameSet, ChainPages, ChainHead
<1>8. ListAt(file, m.free_list_head, m.next_page, X, X)
  BY <1>1, <1>3, <1>5, <1>6, <1>7 DEF ListAt
<1>9. Rooting(file, m.root, Lowest, Above, X)
  BY <1>1 DEF Rooting
<1>10. SameSet(X \cup X \cup X, META_PAGE_COUNT .. m.next_page - 1)
  BY <1>1 DEF SameSet, META_PAGE_COUNT
<1>11. Disjoint(X, X)
  BY DEF Disjoint
<1>12. m.txn_id \in Nat /\ m.next_page \in Nat /\ META_PAGE_COUNT <= m.next_page
  BY <1>1 DEF META_PAGE_COUNT
<1>13. \E Y \in SUBSET X : ListAt(file, m.free_list_head, m.next_page, X, Y)
  BY <1>8
<1> QED
  BY <1>9, <1>10, <1>11, <1>12, <1>13 DEF Stored

(* While it is being filled.                                                  *)
Filling(full) == \E T : Working(full.ctx, full.id, {}, Lowest, Above, T)

(* The context of a seed's transaction at its start.                          *)
LEMMA EmptyFilling == Filling(EmptyStore)
<1>1. PICK file, m, X, k, w, c : /\ file = NoPages /\ m = InitMeta /\ X = {}
                                 /\ k = NoLimit /\ w = Begun(m, file, k)
                                 /\ c = Ctx(w, file)
  OBVIOUS
<1>2. PICK lo, hi : lo = Lowest /\ hi = Above
  OBVIOUS
<1>3. Stored(file, m, X, lo, hi, X, X)
  BY <1>1, <1>2, NewStored
<1>4. Begins(c, w.root, X, lo, hi, X)
  BY <1>1, <1>3, BeginOk
<1>5. w.root = None
  BY <1>1 DEF Begun, NoWrite, InitMeta
<1>6. EmptyStore = [ctx |-> c, id |-> None]
  BY <1>1, Zenon DEF EmptyStore
<1>7. EmptyStore.ctx = c /\ EmptyStore.id = w.root
  BY <1>5, <1>6
<1>8. Working(EmptyStore.ctx, EmptyStore.id, {}, Lowest, Above, X)
  BY <1>1, <1>2, <1>4, <1>7 DEF Begins
<1> QED
  BY <1>8 DEF Filling

(* One pair of the seed is put.                                               *)
LEMMA FillStep ==
    ASSUME NEW x, Filling(x), NEW kv \in Keys \X Seq(Int), NEW y, y = PutPair(x, kv)
    PROVE  Filling(y)
<1>1. PICK c, root, X, lo, hi, key, value, V, R :
          /\ c = x.ctx /\ root = x.id /\ X = {} /\ R = {} /\ lo = Lowest /\ hi = Above
          /\ key = kv[1] /\ value = kv[2] /\ V = View(c)
  OBVIOUS
<1>2. PICK T : Working(c, root, X, lo, hi, T)
  BY <1>1 DEF Filling
<1>3. Books(c) /\ Rooting(V, root, lo, hi, T) /\ Disjoint(T, Spare(c))
  BY <1>1, <1>2 DEF Working
<1>4. key \in Keys /\ value \in Seq(Int)
  BY <1>1
<1>5. lo \in Int /\ hi \in Int /\ key \in Int /\ lo <= key /\ key < hi
  BY <1>1, <1>4, KeyBounds DEF KeyWithin
<1>6. y = put(c, root, key, value)
  BY <1>1, Zenon DEF PutPair
<1>7. RootOk(c, T, y, lo, hi)
  BY <1>1, <1>3, <1>4, <1>5, <1>6, PutOk
<1>8. KeepsOff(c, R, X)
  BY <1>1 DEF KeepsOff, Disjoint
<1>9. PICK d, q : d = y.ctx /\ q = y.id
  OBVIOUS
<1>10. OpResult(c, d, q, X, lo, hi, R)
  BY <1>2, <1>7, <1>8, <1>9, OpOk
<1> QED
  BY <1>1, <1>9, <1>10 DEF OpResult, Filling

FillBase(p) == EmptyStore
FillStepOf(p, n, full) == PutPair(full, p[1][n])
Fill == INSTANCE Recursion WITH Base <- FillBase, Step <- FillStepOf

(* All pairs are.                                                             *)
LEMMA FilledOk ==
    ASSUME NEW seed \in Seeds, NEW r, r = Filled(seed)
    PROVE  Filling(r)
<1>1. PICK p : p = <<seed>>
  OBVIOUS
<1>2. p[1] = seed
  BY <1>1
<1>3. PICK g, m : g = Fill!Rec(p) /\ m = Len(seed)
  OBVIOUS
<1>4. r = g[m]
  BY <1>2, <1>3, Zenon DEF Filled, Fill!Rec, FillBase, FillStepOf
<1>5. g[0] = FillBase(p) /\ \A n \in Nat : g[n + 1] = FillStepOf(p, n + 1, g[n])
  BY <1>3, Fill!RecValues
<1>6. g[0] = EmptyStore /\ \A n \in Nat : g[n + 1] = PutPair(g[n], seed[n + 1])
  BY <1>2, <1>5 DEF FillBase, FillStepOf
<1>7. seed \in Seq(Keys \X Seq(Int))
  BY TreeStoreAssumption
<1>8. m \in Nat /\ \A i \in 1 .. m : seed[i] \in Keys \X Seq(Int)
  BY <1>3, <1>7, LenProperties, ElementOfSeq
<1> DEFINE T == {n \in Nat : n <= m => Filling(g[n])}
<1>9. 0 \in T
  BY <1>6, EmptyFilling
<1>10. ASSUME NEW n \in Nat, n \in T PROVE n + 1 \in T
  <2> SUFFICES ASSUME n + 1 <= m PROVE Filling(g[n + 1])
    OBVIOUS
  <2>1. PICK x, y, kv : x = g[n] /\ y = g[n + 1] /\ kv = seed[n + 1]
    OBVIOUS
  <2>2. Filling(x) /\ y = PutPair(x, kv)
    BY <1>6, <1>8, <1>10, <2>1
  <2>3. kv \in Keys \X Seq(Int)
    <3>1. PICK j : j = n + 1
      OBVIOUS
    <3>2. j \in 1 .. m
      BY <1>8, <3>1
    <3>3. kv = seed[j]
      BY <2>1, <3>1
    <3> QED
      BY <1>8, <3>2, <3>3
  <2>4. Filling(y)
    BY <2>2, <2>3, FillStep
  <2> QED
    BY <2>1, <2>4
<1>11. ASSUME m \in T PROVE Filling(g[m])
  BY <1>8, <1>11
<1> HIDE DEF T
<1>12. Nat \subseteq T
  BY <1>9, <1>10, Fill!SetInduction
<1> QED
  BY <1>4, <1>8, <1>11, <1>12

(* The seed is committed.                                                     *)
LEMMA SeededOk ==
    ASSUME NEW full, Filling(full), NEW s, s = Seeded(full),
           NEW X2, X2 = full.ctx.next_page .. s.meta.next_page - 1
    PROVE  \E T : CommitResult(s, X2, Lowest, Above, T)
<1>1. PICK d, q, m, w, u, file, c, X, lo, hi :
          /\ d = full.ctx /\ q = full.id /\ m = InitMeta /\ w = NoWrite
          /\ u = WithCtx(w, d, q) /\ file = d.pages /\ c = Ctx(u, file)
          /\ X = {} /\ lo = Lowest /\ hi = Above
  OBVIOUS
<1>2. PICK T : Working(d, q, X, lo, hi, T)
  BY <1>1 DEF Filling
<1>3. OpResult(d, d, q, X, lo, hi, X)
  BY <1>1, <1>2 DEF OpResult, KeepsOff, Disjoint, Agree
<1>4. OpResult(d, c, u.root, X, lo, hi, X)
  BY <1>1, <1>3, OpState
<1>5. PICK root : root = u.root
  OBVIOUS
<1>6. PICK S : Working(c, root, X, lo, hi, S)
  BY <1>4, <1>5 DEF OpResult
<1>7. m.txn_id \in Nat
  BY <1>1 DEF InitMeta
<1>8. s = Committed(m, u, file)
  BY <1>1, Zenon DEF Seeded
<1>9. u.next_page = d.next_page
  BY <1>1 DEF WithCtx
<1>10. X2 = X \cup (u.next_page .. s.meta.next_page - 1)
  BY <1>1, <1>9
<1>11. c = Ctx(u, file) /\ u.root = root
  BY <1>1, <1>5
<1>12. CommitResult(s, X2, lo, hi, S)
  BY <1>6, <1>7, <1>8, <1>10, <1>11, CommitOk
<1> QED
  BY <1>1, <1>12

-------------------------------------------------------------------------------
(* The inductive invariant.                                                   *)

(* An open transaction has a tree of its own and writes no committed page.    *)
Writing(c, root, X, R) ==
    (\E T : Working(c, root, X, Lowest, Above, T)) /\ KeepsOff(c, R, X)
WriteInv(file, w, X, R) ==
    IF w.open THEN Writing(Ctx(w, file), w.root, X, R) ELSE w = NoWrite
Kept(file, m, w, X) ==
    \E R, F : Stored(file, m, X, Lowest, Above, R, F) /\ WriteInv(file, w, X, R)

StoreInv == Kept(pages, meta, wtx, chains)

(* begin_write.                                                               *)
LEMMA BeginStep ==
    ASSUME NEW file, NEW m, NEW v, NEW X, Kept(file, m, v, X),
           NEW k, NEW w, w = Begun(m, file, k)
    PROVE  Kept(file, m, w, X)
<1>1. PICK lo, hi, c : lo = Lowest /\ hi = Above /\ c = Ctx(w, file)
  OBVIOUS
<1>2. PICK R, F : Stored(file, m, X, lo, hi, R, F)
  BY <1>1 DEF Kept
<1>3. Begins(c, w.root, X, lo, hi, R) /\ w.open
  BY <1>1, <1>2, BeginOk
<1>4. WriteInv(file, w, X, R)
  BY <1>1, <1>3 DEF Begins, Writing, WriteInv
<1> QED
  BY <1>1, <1>2, <1>4 DEF Kept

(* An operation that leaves a root in place of the tree's pages.              *)
Opens(c, root, T, key) ==
    /\ Books(c) /\ Rooting(View(c), root, Lowest, Above, T) /\ Disjoint(T, Spare(c))
    /\ KeyWithin(key)

(* What put and delete have in common.                                        *)
LEMMA WriteStep ==
    ASSUME NEW file, NEW m, NEW w, NEW X, Kept(file, m, w, X), w.open,
           NEW c, c = Ctx(w, file), NEW root, root = w.root, NEW r,
           \A T : Working(c, root, X, Lowest, Above, T) => RootOk(c, T, r, Lowest, Above),
           NEW file2, file2 = r.ctx.pages, NEW u, u = WithCtx(w, r.ctx, r.id)
    PROVE  Kept(file2, m, u, X)
<1>1. PICK lo, hi, d, q, e : /\ lo = Lowest /\ hi = Above /\ d = r.ctx /\ q = r.id
                             /\ e = Ctx(u, file2)
  OBVIOUS
<1>2. PICK R, F : Stored(file, m, X, lo, hi, R, F) /\ WriteInv(file, w, X, R)
  BY <1>1 DEF Kept
<1>3. PICK T : Working(c, root, X, lo, hi, T)
  BY <1>1, <1>2 DEF WriteInv, Writing
<1>4. KeepsOff(c, R, X)
  BY <1>2 DEF WriteInv, Writing
<1>5. RootOk(c, T, r, lo, hi)
  BY <1>1, <1>3
<1>6. OpResult(c, d, q, X, lo, hi, R)
  BY <1>1, <1>3, <1>4, <1>5, OpOk
<1>7. file2 = d.pages /\ u = WithCtx(w, d, q)
  BY <1>1
<1>8. OpResult(c, e, u.root, X, lo, hi, R) /\ u.open
  BY <1>1, <1>6, <1>7, OpState
<1>9. WriteInv(file2, u, X, R)
  BY <1>1, <1>8 DEF OpResult, WriteInv, Writing
<1>10. Agree(file, file2, R \cup X)
  <2>1. c.pages = file /\ e.pages = file2
    BY <1>1, CtxFields
  <2> QED
    BY <1>8, <2>1 DEF OpResult
<1>11. Stored(file2, m, X, lo, hi, R, F)
  BY <1>2, <1>10, StoredKept
<1> QED
  BY <1>1, <1>9, <1>11 DEF Kept

(* put().                                                                     *)
LEMMA PutStep ==
    ASSUME NEW file, NEW m, NEW w, NEW X, Kept(file, m, w, X), w.open,
           NEW key \in Keys, NEW value \in Seq(Int),
           NEW r, r = put(Ctx(w, file), w.root, key, value),
           NEW file2, file2 = r.ctx.pages, NEW u, u = WithCtx(w, r.ctx, r.id)
    PROVE  Kept(file2, m, u, X)
<1>1. PICK lo, hi, c, root, V : /\ lo = Lowest /\ hi = Above /\ c = Ctx(w, file)
                                /\ root = w.root /\ V = View(c)
  OBVIOUS
<1>2. lo \in Int /\ hi \in Int /\ key \in Int /\ lo <= key /\ key < hi
  BY <1>1, KeyBounds DEF KeyWithin
<1>3. r = put(c, root, key, value)
  BY <1>1
<1>4. ASSUME NEW T, Working(c, root, X, lo, hi, T) PROVE RootOk(c, T, r, lo, hi)
  <2>1. Books(c) /\ Rooting(V, root, lo, hi, T) /\ Disjoint(T, Spare(c))
    BY <1>1, <1>4 DEF Working
  <2> QED
    BY <1>1, <1>2, <1>3, <2>1, PutOk
<1>5. \A T : Working(c, root, X, Lowest, Above, T) => RootOk(c, T, r, Lowest, Above)
  BY <1>1, <1>4
<1>6. c = Ctx(w, file) /\ root = w.root
  BY <1>1
<1> QED
  BY <1>5, <1>6, WriteStep

(* delete().                                                                  *)
LEMMA DeleteStep ==
    ASSUME NEW file, NEW m, NEW w, NEW X, Kept(file, m, w, X), w.open,
           NEW key \in Keys, NEW r, r = delete(Ctx(w, file), w.root, key),
           NEW file2, file2 = r.ctx.pages, NEW u, u = WithCtx(w, r.ctx, r.id)
    PROVE  Kept(file2, m, u, X)
<1>1. PICK lo, hi, c, root, V : /\ lo = Lowest /\ hi = Above /\ c = Ctx(w, file)
                                /\ root = w.root /\ V = View(c)
  OBVIOUS
<1>2. lo \in Int /\ hi \in Int /\ key \in Int /\ lo <= key /\ key < hi
  BY <1>1, KeyBounds DEF KeyWithin
<1>3. r = delete(c, root, key)
  BY <1>1
<1>4. ASSUME NEW T, Working(c, root, X, lo, hi, T) PROVE RootOk(c, T, r, lo, hi)
  <2>1. Books(c) /\ Rooting(V, root, lo, hi, T) /\ Disjoint(T, Spare(c))
    BY <1>1, <1>4 DEF Working
  <2> QED
    BY <1>1, <1>2, <1>3, <2>1, DeleteOk
<1>5. \A T : Working(c, root, X, Lowest, Above, T) => RootOk(c, T, r, Lowest, Above)
  BY <1>1, <1>4
<1>6. c = Ctx(w, file) /\ root = w.root
  BY <1>1
<1> QED
  BY <1>5, <1>6, WriteStep

(* commit().                                                                  *)
LEMMA CommitStep ==
    ASSUME NEW file, NEW m, NEW w, NEW X, Kept(file, m, w, X), w.open,
           NEW r, r = Committed(m, w, file),
           NEW X2, X2 = X \cup (w.next_page .. r.meta.next_page - 1),
           NEW f, f = r.pages, NEW n, n = r.meta, NEW v, v = NoWrite
    PROVE  Kept(f, n, v, X2)
<1>1. PICK lo, hi, c, root : /\ lo = Lowest /\ hi = Above /\ c = Ctx(w, file)
                             /\ root = w.root
  OBVIOUS
<1>2. PICK R, F : Stored(file, m, X, lo, hi, R, F) /\ WriteInv(file, w, X, R)
  BY <1>1 DEF Kept
<1>3. PICK T : Working(c, root, X, lo, hi, T)
  BY <1>1, <1>2 DEF WriteInv, Writing
<1>4. m.txn_id \in Nat
  BY <1>2 DEF Stored
<1>5. c = Ctx(w, file) /\ w.root = root
  BY <1>1
<1>6. CommitResult(r, X2, lo, hi, T)
  BY <1>3, <1>4, <1>5, CommitOk
<1>7. PICK G : Stored(f, n, X2, lo, hi, T, G)
  BY <1>6 DEF CommitResult
<1>8. WriteInv(f, v, X2, T)
  BY DEF WriteInv, NoWrite
<1> QED
  BY <1>1, <1>7, <1>8 DEF Kept

(* A transaction that is dropped: nothing of it is committed.                 *)
LEMMA RollbackStep ==
    ASSUME NEW file, NEW m, NEW w, NEW X, Kept(file, m, w, X), NEW v, v = NoWrite
    PROVE  Kept(file, m, v, X)
<1>1. PICK R, F : Stored(file, m, X, Lowest, Above, R, F)
  BY DEF Kept
<1>2. WriteInv(file, v, X, R)
  BY DEF WriteInv, NoWrite
<1> QED
  BY <1>1, <1>2 DEF Kept

-------------------------------------------------------------------------------
(* The store starts with the invariant ...                                    *)
LEMMA StoreInit == Init => StoreInv
<1> SUFFICES ASSUME Init PROVE StoreInv
  OBVIOUS
<1>0. PICK seed \in Seeds : \E full, s :
          /\ full = Filled(seed) /\ s = Seeded(full)
          /\ pages = s.pages /\ meta = s.meta
          /\ chains = full.ctx.next_page .. s.meta.next_page - 1
  BY DEF Init
<1>1. PICK full, s : /\ full = Filled(seed) /\ s = Seeded(full)
                     /\ pages = s.pages /\ meta = s.meta
                     /\ chains = full.ctx.next_page .. s.meta.next_page - 1
  BY <1>0
<1>2. wtx = NoWrite
  BY DEF Init
<1>3. Filling(full)
  BY <1>1, FilledOk
<1>4. PICK T : CommitResult(s, chains, Lowest, Above, T)
  BY <1>1, <1>3, SeededOk
<1>5. PICK F : Stored(pages, meta, chains, Lowest, Above, T, F)
  BY <1>1, <1>4 DEF CommitResult
<1>6. WriteInv(pages, wtx, chains, T)
  BY <1>2 DEF WriteInv, NoWrite
<1> QED
  BY <1>5, <1>6 DEF Kept, StoreInv

(* ... and every step keeps it.                                               *)
LEMMA StoreStep == StoreInv /\ [Next]_vars => StoreInv'
<1> SUFFICES ASSUME Kept(pages, meta, wtx, chains), [Next]_vars
             PROVE  Kept(pages', meta', wtx', chains')
  BY DEF StoreInv
<1>1. CASE \E r \in Readers : BeginRead(r) \/ DropRead(r)
  <2>1. UNCHANGED <<pages, meta, wtx, chains>>
    BY <1>1 DEF BeginRead, DropRead
  <2> QED
    BY <2>1
<1>2. CASE BeginWrite
  <2>1. wtx' = Begun(meta, pages, Watermark) /\ UNCHANGED <<pages, meta, chains>>
    BY <1>2 DEF BeginWrite
  <2>2. PICK k, w : k = Watermark /\ w = Begun(meta, pages, k)
    OBVIOUS
  <2>3. Kept(pages, meta, w, chains)
    BY <2>2, BeginStep
  <2> QED
    BY <2>1, <2>2, <2>3
<1>3. CASE Commit
  <2>1. wtx.open /\ wtx' = NoWrite
    BY <1>3 DEF Commit
  <2>2. PICK r : /\ r = Committed(meta, wtx, pages) /\ pages' = r.pages /\ meta' = r.meta
                 /\ chains' = chains \cup (wtx.next_page .. r.meta.next_page - 1)
    BY <1>3 DEF Commit
  <2>3. PICK X2, f, n, v : X2 = chains' /\ f = pages' /\ n = meta' /\ v = wtx'
    OBVIOUS
  <2>4. /\ X2 = chains \cup (wtx.next_page .. r.meta.next_page - 1)
        /\ f = r.pages /\ n = r.meta /\ v = NoWrite
    BY <2>1, <2>2, <2>3
  <2>5. Kept(f, n, v, X2)
    BY <2>1, <2>2, <2>4, CommitStep
  <2> QED
    BY <2>3, <2>5
<1>4. CASE Rollback
  <2>1. wtx' = NoWrite /\ UNCHANGED <<pages, meta, chains>>
    BY <1>4 DEF Rollback
  <2>2. PICK v : v = NoWrite
    OBVIOUS
  <2>3. Kept(pages, meta, v, chains)
    BY <2>2, RollbackStep
  <2> QED
    BY <2>1, <2>2, <2>3
<1>5. ASSUME NEW k \in Keys, Delete(k) PROVE Kept(pages', meta', wtx', chains')
  <2>1. wtx.open /\ UNCHANGED <<meta, chains>>
    BY <1>5 DEF Delete
  <2>2. PICK r : /\ r = delete(Ctx(wtx, pages), wtx.root, k)
                 /\ pages' = r.ctx.pages /\ wtx' = WithCtx(wtx, r.ctx, r.id)
    BY <1>5 DEF Delete
  <2>3. PICK f, u : f = r.ctx.pages /\ u = WithCtx(wtx, r.ctx, r.id)
    OBVIOUS
  <2>4. Kept(f, meta, u, chains)
    BY <2>1, <2>2, <2>3, DeleteStep
  <2> QED
    BY <2>1, <2>2, <2>3, <2>4
<1>6. ASSUME NEW k \in Keys, NEW v \in Values, Put(k, v)
      PROVE  Kept(pages', meta', wtx', chains')
  <2>1. wtx.open /\ UNCHANGED <<meta, chains>>
    BY <1>6 DEF Put
  <2>2. PICK r : /\ r = put(Ctx(wtx, pages), wtx.root, k, v)
                 /\ pages' = r.ctx.pages /\ wtx' = WithCtx(wtx, r.ctx, r.id)
    BY <1>6 DEF Put
  <2>3. PICK f, u : f = r.ctx.pages /\ u = WithCtx(wtx, r.ctx, r.id)
    OBVIOUS
  <2>4. v \in Seq(Int)
    BY TreeStoreAssumption
  <2>5. Kept(f, meta, u, chains)
    BY <2>1, <2>2, <2>3, <2>4, PutStep
  <2> QED
    BY <2>1, <2>2, <2>3, <2>5
<1>7. CASE UNCHANGED vars
  BY <1>7 DEF vars
<1> QED
  BY <1>1, <1>2, <1>3, <1>4, <1>5, <1>6, <1>7 DEF Next

(* In every reachable state the pages of the committed tree, its free list    *)
(* and the chains of free lists are the whole file, each page once, the       *)
(* tree's keys are between the bounds that its separators set, and an open    *)
(* write transaction has a tree of its own and writes no page of the          *)
(* committed one and no such chain.  This is what put and delete              *)
(* (storage/btree.rs), alloc, retire and commit (storage/txn.rs) have to      *)
(* keep.                                                                      *)
THEOREM StoreInvariance == Spec => []StoreInv
<1> QED
  BY StoreInit, StoreStep, PTL DEF Spec

-------------------------------------------------------------------------------
(* What the properties of TreeStore say of a tree.                            *)

(* read_node reads what V has.                                                *)
Reads(V, file, overlay) == \A p \in DOMAIN V : read_node(file, overlay, p) = V[p]

(* Ordered as a recursion: p is <<file, overlay>>.                            *)
OrdBase(p) == [t \in Nat \X Int \X Int |->
                   LeafOrdered(read_node(p[1], p[2], t[1]), t[2], t[3])]
OrdStep(p, n, below) == [t \in Nat \X Int \X Int |->
                   InnerOrdered(read_node(p[1], p[2], t[1]), t[2], t[3], below)]
Ord == INSTANCE Recursion WITH Base <- OrdBase, Step <- OrdStep

(* Ordered is the recursion Ord.                                              *)
LEMMA OrderedRec ==
    ASSUME NEW file, NEW overlay, NEW p, p = <<file, overlay>>,
           NEW g, g = Ord!Rec(p)
    PROVE  Ordered(file, overlay) = g
<1>1. p[1] = file /\ p[2] = overlay
  OBVIOUS
<1> QED
  BY <1>1 DEF Ordered, Ord!Rec, OrdBase, OrdStep

(* Ordered at a leaf.                                                         *)
LEMMA OrdAtLeaf ==
    ASSUME NEW p, NEW id \in Nat, NEW lo \in Int, NEW hi \in Int,
           NEW t, t = <<id, lo, hi>>
    PROVE  OrdBase(p)[t] = LeafOrdered(read_node(p[1], p[2], id), lo, hi)
<1>1. t \in Nat \X Int \X Int /\ t[1] = id /\ t[2] = lo /\ t[3] = hi
  OBVIOUS
<1> QED
  BY <1>1 DEF OrdBase

(* Ordered at an internal node.                                               *)
LEMMA OrdAtNode ==
    ASSUME NEW p, NEW g, NEW n, NEW id \in Nat, NEW lo \in Int, NEW hi \in Int,
           NEW t, t = <<id, lo, hi>>
    PROVE  OrdStep(p, n, g)[t] = InnerOrdered(read_node(p[1], p[2], id), lo, hi, g)
<1>1. t \in Nat \X Int \X Int /\ t[1] = id /\ t[2] = lo /\ t[3] = hi
  OBVIOUS
<1> QED
  BY <1>1 DEF OrdStep

OrderedTo(V, n, f) == \A id, lo, hi : Tree(V, n, id, lo, hi) => f[<<id, lo, hi>>]

(* A tree that is a leaf is ordered.                                          *)
LEMMA OrderedBase ==
    ASSUME NEW V, NEW p, Reads(V, p[1], p[2]), NEW n \in Nat, n = 0,
           NEW f, f = OrdBase(p)
    PROVE  OrderedTo(V, n, f)
<1> SUFFICES ASSUME NEW id, NEW lo, NEW hi, Tree(V, n, id, lo, hi)
             PROVE  f[<<id, lo, hi>>]
  BY DEF OrderedTo
<1>1. /\ id \in Nat /\ lo \in Int /\ hi \in Int /\ id \in DOMAIN V
      /\ Body(V, n, V[id], lo, hi)
  BY TreeDef
<1>2. PICK node, t : node = V[id] /\ t = <<id, lo, hi>>
  OBVIOUS
<1>3. Body(V, 0, node, lo, hi)
  BY <1>1, <1>2
<1>4. LeafShape(node, lo, hi)
  BY <1>3, LeafDef
<1>5. LeafOrdered(node, lo, hi)
  <2>1. node.leaf
    <3>1. node = Leaf(node.keys, node.values)
      BY <1>4 DEF LeafShape
    <3> QED
      BY <3>1 DEF Leaf
  <2> QED
    BY <1>4, <2>1 DEF LeafShape, LeafOrdered
<1>6. read_node(p[1], p[2], id) = node
  BY <1>1, <1>2 DEF Reads
<1>7. f[t] = LeafOrdered(read_node(p[1], p[2], id), lo, hi)
  BY <1>1, <1>2, OrdAtLeaf
<1>8. f[t]
  BY <1>5, <1>6, <1>7
<1> QED
  BY <1>2, <1>8

(* A tree is ordered if those below its root are.                             *)
LEMMA OrderedStep ==
    ASSUME NEW V, NEW p, Reads(V, p[1], p[2]), NEW n \in Nat, NEW g, OrderedTo(V, n, g),
           NEW m, m = n + 1, NEW f, f = OrdStep(p, m, g)
    PROVE  OrderedTo(V, m, f)
<1> SUFFICES ASSUME NEW id, NEW lo, NEW hi, Tree(V, m, id, lo, hi)
             PROVE  f[<<id, lo, hi>>]
  BY DEF OrderedTo
<1>1. /\ id \in Nat /\ lo \in Int /\ hi \in Int /\ id \in DOMAIN V
      /\ Body(V, m, V[id], lo, hi)
  BY TreeDef
<1>2. PICK node, t : node = V[id] /\ t = <<id, lo, hi>>
  OBVIOUS
<1>3. Body(V, m, node, lo, hi)
  BY <1>1, <1>2
<1>4. InnerShape(node, lo, hi) /\ Kids(V, n, node.keys, node.children, lo, hi)
  BY <1>3, InnerDef
<1>5. InnerOrdered(node, lo, hi, g)
  <2>1. ~node.leaf
    <3>1. node = Internal(node.keys, node.children)
      BY <1>4 DEF InnerShape
    <3> QED
      BY <3>1 DEF Internal
  <2>2. DOMAIN node.children = 1 .. Len(node.children)
    BY <1>4 DEF InnerShape
  <2>3. ASSUME NEW i \in DOMAIN node.children
        PROVE  g[<<node.children[i], Bound(node.keys, lo, hi, i - 1),
                   Bound(node.keys, lo, hi, i)>>]
    <3>1. PICK k, a, b : /\ k = node.children[i] /\ a = Bound(node.keys, lo, hi, i - 1)
                         /\ b = Bound(node.keys, lo, hi, i)
      OBVIOUS
    <3>2. Tree(V, n, k, a, b)
      BY <1>4, <2>2, <3>1 DEF Kids
    <3> QED
      BY <3>1, <3>2 DEF OrderedTo
  <2> QED
    BY <1>4, <2>1, <2>3 DEF InnerShape, InnerOrdered
<1>6. read_node(p[1], p[2], id) = node
  BY <1>1, <1>2 DEF Reads
<1>7. f[t] = InnerOrdered(read_node(p[1], p[2], id), lo, hi, g)
  BY <1>1, <1>2, OrdAtNode
<1>8. f[t]
  BY <1>5, <1>6, <1>7
<1> QED
  BY <1>2, <1>8

(* Every tree is ordered.                                                     *)
LEMMA OrderedOk ==
    ASSUME NEW V, NEW file, NEW overlay, Reads(V, file, overlay), NEW n \in Nat,
           NEW id, NEW lo, NEW hi, Tree(V, n, id, lo, hi)
    PROVE  Ordered(file, overlay)[n][<<id, lo, hi>>]
<1>1. PICK p, g : p = <<file, overlay>> /\ g = Ord!Rec(p)
  OBVIOUS
<1>2. p[1] = file /\ p[2] = overlay
  BY <1>1
<1>3. Ordered(file, overlay) = g
  BY <1>1, OrderedRec
<1>4. g[0] = OrdBase(p) /\ \A k \in Nat : g[k + 1] = OrdStep(p, k + 1, g[k])
  BY <1>1, Ord!RecValues
<1> DEFINE T == {k \in Nat : OrderedTo(V, k, g[k])}
<1>5. 0 \in T
  <2>1. PICK z, f : z \in Nat /\ z = 0 /\ f = g[z]
    OBVIOUS
  <2>2. OrderedTo(V, z, f)
    BY <1>2, <1>4, <2>1, OrderedBase
  <2> QED
    BY <2>1, <2>2
<1>6. ASSUME NEW k \in Nat, k \in T PROVE k + 1 \in T
  <2>1. PICK m, f, h : m = k + 1 /\ f = g[m] /\ h = g[k]
    OBVIOUS
  <2>2. OrderedTo(V, k, h)
    BY <1>6, <2>1
  <2>3. f = OrdStep(p, m, h)
    BY <1>4, <2>1
  <2>4. OrderedTo(V, m, f)
    BY <1>2, <2>1, <2>2, <2>3, OrderedStep
  <2>5. m \in Nat
    BY <2>1
  <2> QED
    BY <2>1, <2>4, <2>5
<1>7. ASSUME n \in T PROVE OrderedTo(V, n, g[n])
  BY <1>7
<1> HIDE DEF T
<1>8. Nat \subseteq T
  BY <1>5, <1>6, Ord!SetInduction
<1>9. OrderedTo(V, n, g[n])
  BY <1>7, <1>8
<1> QED
  BY <1>3, <1>9 DEF OrderedTo

-------------------------------------------------------------------------------
(* A transaction reads its view.                                              *)
LEMMA ReadsView ==
    ASSUME NEW c, NEW V, V = View(c)
    PROVE  Reads(V, c.pages, c.overlay)
<1> SUFFICES ASSUME NEW q \in DOMAIN V PROVE read_node(c.pages, c.overlay, q) = V[q]
  BY DEF Reads
<1>1. PICK o, f : o = c.overlay /\ f = c.pages
  OBVIOUS
<1>2. V = [p \in DOMAIN f \cup DOMAIN o |-> IF p \in DOMAIN o THEN o[p] ELSE f[p]]
  BY <1>1 DEF View
<1> QED
  BY <1>1, <1>2 DEF read_node

(* Without an overlay, the file is read.                                      *)
LEMMA ReadsFile ==
    ASSUME NEW file
    PROVE  Reads(file, file, NoPages)
<1>1. DOMAIN NoPages = {}
  BY DEF NoPages
<1> QED
  BY <1>1 DEF Reads, read_node

(* The tree of a root is what TreeOrdered asks for.                           *)
LEMMA WellFormedOk ==
    ASSUME NEW V, NEW overlay, Reads(V, pages, overlay), NEW root, NEW T,
           Rooting(V, root, Lowest, Above, T), NEW np \in Nat, T \subseteq 1 .. np - 1
    PROVE  WellFormed(overlay, root, np)
<1> SUFFICES ASSUME root # None
             PROVE  \E n \in 0 .. np :
                        Ordered(pages, overlay)[n][<<root, Min(Keys), Max(Keys) + 1>>]
  BY DEF WellFormed
<1>1. PICK n \in Nat : Tree(V, n, root, Lowest, Above) /\ T = Pages(V, n, root)
  BY DEF Rooting
<1>2. PICK lo, hi, file : lo = Lowest /\ hi = Above /\ file = pages
  OBVIOUS
<1>3. Ordered(file, overlay)[n][<<root, lo, hi>>]
  <2>1. Tree(V, n, root, lo, hi) /\ Reads(V, file, overlay)
    BY <1>1, <1>2
  <2> QED
    BY <2>1, OrderedOk
<1>4. n <= np
  <2>1. PICK F, k : F = 1 .. np - 1 /\ k = Cardinality(F)
    OBVIOUS
  <2>2. Tall(V, n)
    BY TallAll
  <2>3. IsFiniteSet(F) /\ k \in Nat /\ k <= np
    <3>1. IsFiniteSet(F) /\ Cardinality(F) = IF 1 > np - 1 THEN 0 ELSE (np - 1) - 1 + 1
      BY <2>1, FS_Interval
    <3> QED
      BY <2>1, <3>1
  <2>4. n < k
    BY <1>1, <2>1, <2>2, <2>3 DEF Tall
  <2> QED
    BY <2>3, <2>4
<1>5. n \in 0 .. np
  BY <1>4
<1>6. <<root, Min(Keys), Max(Keys) + 1>> = <<root, lo, hi>>
  BY <1>2 DEF Lowest, Above
<1>7. Ordered(pages, overlay)[n][<<root, Min(Keys), Max(Keys) + 1>>]
  BY <1>2, <1>3, <1>6
<1> QED
  BY <1>5, <1>7

(* The pages of the transaction's tree are below next_page.                   *)
LEMMA RootingFits ==
    ASSUME NEW c, Books(c), NEW V, NEW root, NEW lo, NEW hi, NEW T,
           Rooting(V, root, lo, hi, T), Disjoint(T, Spare(c))
    PROVE  T \subseteq 1 .. c.next_page - 1
<1>1. CASE root = None /\ T = {}
  BY <1>1
<1>2. CASE root # None /\ \E n \in Nat : Tree(V, n, root, lo, hi) /\ T = Pages(V, n, root)
  <2>1. PICK n \in Nat : Tree(V, n, root, lo, hi) /\ T = Pages(V, n, root)
    BY <1>2
  <2>2. Disjoint(Pages(V, n, root), Spare(c))
    BY <2>1
  <2>3. Pages(V, n, root) \subseteq 1 .. c.next_page - 1
    BY <2>1, <2>2, TreeFits
  <2> QED
    BY <2>1, <2>3
<1> QED
  BY <1>1, <1>2 DEF Rooting

(* The invariant says more than TreeOrdered.                                  *)
LEMMA StoreOrdered == StoreInv => TreeOrdered
<1> SUFFICES ASSUME StoreInv PROVE TreeOrdered
  OBVIOUS
<1>1. PICK R, F : /\ Stored(pages, meta, chains, Lowest, Above, R, F)
                  /\ WriteInv(pages, wtx, chains, R)
  BY DEF StoreInv, Kept
<1>2. WellFormed(NoPages, meta.root, meta.next_page)
  <2>1. PICK root, np, o : root = meta.root /\ np = meta.next_page /\ o = NoPages
    OBVIOUS
  <2>2. Rooting(pages, root, Lowest, Above, R) /\ np \in Nat
    BY <1>1, <2>1 DEF Stored
  <2>3. R \subseteq 1 .. np - 1
    BY <1>1, <2>1 DEF Stored, SameSet, META_PAGE_COUNT
  <2>4. Reads(pages, pages, o)
    BY <2>1, ReadsFile
  <2>5. WellFormed(o, root, np)
    BY <2>2, <2>3, <2>4, WellFormedOk
  <2> QED
    BY <2>1, <2>5
<1>3. WellFormed(wtx.overlay, wtx.root, wtx.next_page)
  <2>1. CASE ~wtx.open
    <3>1. wtx = NoWrite
      BY <1>1, <2>1 DEF WriteInv
    <3>2. wtx.root = None
      BY <3>1 DEF NoWrite
    <3> QED
      BY <3>2 DEF WellFormed
  <2>2. CASE wtx.open
    <3>1. PICK c, V, root, np, o : /\ c = Ctx(wtx, pages) /\ V = View(c) /\ root = wtx.root
                                   /\ np = wtx.next_page /\ o = wtx.overlay
      OBVIOUS
    <3>2. PICK T : Working(c, root, chains, Lowest, Above, T)
      BY <1>1, <2>2, <3>1 DEF WriteInv, Writing
    <3>3. c.pages = pages /\ c.overlay = o /\ c.next_page = np
      BY <3>1, CtxFields
    <3>4. Books(c) /\ Rooting(V, root, Lowest, Above, T) /\ Disjoint(T, Spare(c))
      BY <3>1, <3>2 DEF Working
    <3>5. T \subseteq 1 .. np - 1
      BY <3>3, <3>4, RootingFits
    <3>6. np \in Nat
      BY <3>3, <3>4 DEF Books, BookSets
    <3>7. Reads(V, pages, o)
      BY <3>1, <3>3, ReadsView
    <3>8. WellFormed(o, root, np)
      BY <3>4, <3>5, <3>6, <3>7, WellFormedOk
    <3> QED
      BY <3>1, <3>8
  <2> QED
    BY <2>1, <2>2
<1> QED
  BY <1>2, <1>3 DEF TreeOrdered

(* At every moment the committed tree and that of the open transaction are    *)
(* search trees: the keys of every node ascend and lie between the separators *)
(* around it, all leaves have the same depth, and every node has one child    *)
(* more than it has keys.  No put that splits and no delete that merges or    *)
(* lowers the root (storage/btree.rs) ends otherwise.                         *)
THEOREM TreesOrdered == Spec => []TreeOrdered
<1> QED
  BY StoreInvariance, StoreOrdered, PTL

-------------------------------------------------------------------------------
(* The pages of a tree, as TreeStore counts them.                             *)

(* The chains of values lie in the file, not in the overlay.                  *)
ChainsIn(V, file) == \A v : ValueOk(V, v) => SameSet(ValuePages(file, v), ValuePages(V, v))

(* A chain of values has no page of the overlay.                              *)
LEMMA ChainsInView ==
    ASSUME NEW c, Books(c), NEW V, V = View(c), NEW file, file = c.pages
    PROVE  ChainsIn(V, file)
<1> SUFFICES ASSUME NEW v, ValueOk(V, v)
             PROVE  ValuePages(file, v) = ValuePages(V, v)
  BY DEF ChainsIn, SameSet
<1>1. CASE InlineOk(v)
  <2>1. v.inline
    <3>1. v = Inline(v.bytes)
      BY <1>1 DEF InlineOk
    <3> QED
      BY <3>1 DEF Inline
  <2> QED
    BY <2>1 DEF ValuePages
<1>2. CASE ChainedOk(V, v)
  <2>1. v = Overflow(v.head, v.len) /\ v.len \in Nat
    BY <1>2 DEF ChainedOk
  <2>2. PICK m \in Nat : \E page, data :
            m <= v.len /\ v.head = ChainHead(m, page) /\ Chain(V, m, page, data)
    BY <1>2 DEF ChainedOk
  <2>3. PICK page, data : m <= v.len /\ v.head = ChainHead(m, page) /\ Chain(V, m, page, data)
    BY <2>2
  <2>4. Chain(View(c), m, page, data)
    BY <2>3
  <2>5. Chain(file, m, page, data)
    BY <2>4, ChainInFile
  <2>6. ValuePages(V, v) = ChainPages(m, page)
    BY <2>1, <2>3, ValueFacts
  <2>7. ValuePages(file, v) = ChainPages(m, page)
    BY <2>1, <2>3, <2>5, ValueFacts
  <2> QED
    BY <2>6, <2>7
<1> QED
  BY <1>1, <1>2 DEF ValueOk

(* A leaf.                                                                    *)
LEMMA OwnedAtLeaf ==
    ASSUME NEW V, NEW file, ChainsIn(V, file), NEW n \in Nat, n = 0, NEW id, NEW lo, NEW hi,
           Tree(V, n, id, lo, hi), NEW node, node = V[id]
    PROVE  /\ node.leaf /\ SameSet({id} \cup LeafPages(file, node), Pages(V, n, id))
           /\ LeafApart(file, id, node)
<1>1. id \in Nat /\ Body(V, 0, node, lo, hi) /\ id \notin BodyPages(V, 0, node)
  BY TreeDef
<1>2. LeafBody(V, node, lo, hi)
  BY <1>1 DEF Body
<1>3. BodyPages(V, 0, node) = LeafPages(V, node)
  BY DEF BodyPages
<1>4. Pages(V, n, id) = {id} \cup LeafPages(V, node)
  BY <1>1, <1>3, PagesDef
<1>5. node.leaf
  <2>1. node = Leaf(node.keys, node.values)
    BY <1>2 DEF LeafBody
  <2> QED
    BY <2>1 DEF Leaf
<1>6. \A i \in DOMAIN node.values :
          ValuePages(file, node.values[i]) = ValuePages(V, node.values[i])
  BY <1>2 DEF LeafBody, ChainsIn, SameSet
<1>7. LeafPages(file, node) = LeafPages(V, node)
  BY <1>6 DEF LeafPages
<1>8. LeafApart(file, id, node)
  <2>1. id \notin LeafPages(file, node)
    BY <1>1, <1>3, <1>7
  <2>2. \A i, j \in DOMAIN node.values :
            i # j => ValuePages(V, node.values[i]) \cap ValuePages(V, node.values[j]) = {}
    BY <1>2 DEF LeafBody
  <2>3. \A i, j \in DOMAIN node.values :
            i # j => ValuePages(file, node.values[i])
                         \cap ValuePages(file, node.values[j]) = {}
    BY <1>6, <2>2
  <2> QED
    BY <2>1, <2>3 DEF LeafApart
<1> QED
  BY <1>4, <1>5, <1>7, <1>8 DEF SameSet

(* g and h are right about the trees with n levels below their roots.         *)
Owned(V, n, g, h) ==
    \A id, lo, hi : Tree(V, n, id, lo, hi) => SameSet(g[id], Pages(V, n, id)) /\ h[id]

(* An internal node.                                                          *)
LEMMA OwnedAtNode ==
    ASSUME NEW V, NEW file, NEW n \in Nat, NEW g, NEW h, Owned(V, n, g, h),
           NEW m, m = n + 1, NEW id, NEW lo, NEW hi,
           Tree(V, m, id, lo, hi), NEW node, node = V[id]
    PROVE  /\ SameSet(NodePages(file, id, node, g), Pages(V, m, id))
           /\ NodeApart(file, id, node, g, h)
<1>1. /\ id \in Nat /\ Body(V, m, node, lo, hi) /\ id \notin BodyPages(V, m, node)
      /\ m \in Nat
  BY TreeDef
<1>2. InnerShape(node, lo, hi) /\ Kids(V, n, node.keys, node.children, lo, hi)
  BY <1>1, InnerDef
<1>3. PICK cs : cs = node.children
  OBVIOUS
<1>4. cs \in Seq(Nat \ {None}) /\ DOMAIN cs = 1 .. Len(cs)
  BY <1>2, <1>3 DEF InnerShape
<1>5. ~node.leaf
  <2>1. node = Internal(node.keys, node.children)
    BY <1>2 DEF InnerShape
  <2> QED
    BY <2>1 DEF Internal
<1>6. \A i \in DOMAIN cs : g[cs[i]] = Pages(V, n, cs[i]) /\ h[cs[i]]
  <2>1. ASSUME NEW i \in DOMAIN cs
        PROVE  g[cs[i]] = Pages(V, n, cs[i]) /\ h[cs[i]]
    <3>1. PICK k, a, b : /\ k = cs[i] /\ a = Bound(node.keys, lo, hi, i - 1)
                         /\ b = Bound(node.keys, lo, hi, i)
      OBVIOUS
    <3>2. Tree(V, n, k, a, b)
      BY <1>2, <1>3, <1>4, <3>1 DEF Kids
    <3>3. SameSet(g[k], Pages(V, n, k)) /\ h[k]
      BY <3>2 DEF Owned
    <3> QED
      BY <3>1, <3>3 DEF SameSet
  <2> QED
    BY <2>1
<1>7. BodyPages(V, m, node) = UNION {Pages(V, n, cs[i]) : i \in DOMAIN cs}
  <2>1. BodyPages(V, m, node) = KidPages(V, n, cs)
    BY <1>3, <1>4, InnerSets
  <2> QED
    BY <1>4, <2>1, Zenon DEF KidPages
<1>8. UNION {g[cs[i]] : i \in DOMAIN cs} = UNION {Pages(V, n, cs[i]) : i \in DOMAIN cs}
  BY <1>6
<1>9. NodePages(file, id, node, g) = {id} \cup UNION {g[cs[i]] : i \in DOMAIN cs}
  BY <1>3, <1>5 DEF NodePages
<1>10. Pages(V, m, id) = {id} \cup BodyPages(V, m, node)
  BY <1>1, PagesDef
<1>11. ChildrenApart(id, node, g, h)
  <2>1. ASSUME NEW i \in DOMAIN cs PROVE id \notin g[cs[i]]
    BY <1>1, <1>7, <1>8, <2>1
  <2>2. \A i, j \in DOMAIN cs : i # j => Pages(V, n, cs[i]) \cap Pages(V, n, cs[j]) = {}
    BY <1>2, <1>3, <1>4 DEF Kids
  <2>3. \A i, j \in DOMAIN cs : i # j => g[cs[i]] \cap g[cs[j]] = {}
    BY <1>6, <2>2
  <2> QED
    BY <1>3, <1>6, <2>1, <2>3 DEF ChildrenApart
<1>12. NodeApart(file, id, node, g, h)
  BY <1>5, <1>11 DEF NodeApart
<1>13. NodePages(file, id, node, g) = Pages(V, m, id)
  BY <1>7, <1>8, <1>9, <1>10, Zenon
<1> QED
  BY <1>12, <1>13 DEF SameSet

-------------------------------------------------------------------------------
(* TreePages and Apart as recursions: p is <<file, overlay>>.                 *)
PgBase(p) ==
    [id \in Nat |-> {id} \cup LeafPages(p[1], read_node(p[1], p[2], id))]
PgStep(p, n, owned) ==
    [id \in Nat |-> NodePages(p[1], id, read_node(p[1], p[2], id), owned)]
Pg == INSTANCE Recursion WITH Base <- PgBase, Step <- PgStep

ApBase(p) == [id \in Nat |-> LeafApart(p[1], id, read_node(p[1], p[2], id))]
ApStep(p, n, apart) ==
    [id \in Nat |-> NodeApart(p[1], id, read_node(p[1], p[2], id),
                             TreePages(p[1], p[2])[n - 1], apart)]
Ap == INSTANCE Recursion WITH Base <- ApBase, Step <- ApStep

(* TreePages is the recursion Pg.                                             *)
LEMMA TreePagesRec ==
    ASSUME NEW file, NEW overlay, NEW p, p = <<file, overlay>>, NEW g, g = Pg!Rec(p)
    PROVE  TreePages(file, overlay) = g
<1>1. p[1] = file /\ p[2] = overlay
  OBVIOUS
<1> QED
  BY <1>1 DEF TreePages, Pg!Rec, PgBase, PgStep

(* Apart is the recursion Ap.                                                 *)
LEMMA ApartRec ==
    ASSUME NEW file, NEW overlay, NEW p, p = <<file, overlay>>, NEW h, h = Ap!Rec(p)
    PROVE  Apart(file, overlay) = h
<1>1. p[1] = file /\ p[2] = overlay
  OBVIOUS
<1> QED
  BY <1>1 DEF Apart, Ap!Rec, ApBase, ApStep

(* The recursion's values.                                                    *)
LEMMA PgValues ==
    ASSUME NEW p, NEW g, g = Pg!Rec(p)
    PROVE  g[0] = PgBase(p) /\ \A k \in Nat : g[k + 1] = PgStep(p, k + 1, g[k])
<1> QED
  BY Pg!RecValues

ApEquations(p, g, h) ==
    /\ h[0] = ApBase(p)
    /\ \A k \in Nat : \A id \in Nat :
           h[k + 1][id] = NodeApart(p[1], id, read_node(p[1], p[2], id), g[k], h[k])

(* The recursion's values.                                                    *)
LEMMA ApValues ==
    ASSUME NEW p, NEW h, h = Ap!Rec(p), NEW g, g = TreePages(p[1], p[2])
    PROVE  ApEquations(p, g, h)
<1>1. h[0] = ApBase(p) /\ \A k \in Nat : h[k + 1] = ApStep(p, k + 1, h[k])
  BY Ap!RecValues
<1>2. ASSUME NEW k \in Nat, NEW id \in Nat
      PROVE  h[k + 1][id] = NodeApart(p[1], id, read_node(p[1], p[2], id), g[k], h[k])
  <2>1. PICK m, a, z : m = k + 1 /\ a = h[k] /\ z = h[m]
    OBVIOUS
  <2>2. z = ApStep(p, m, a)
    BY <1>1, <2>1
  <2>3. m - 1 = k
    BY <2>1
  <2>4. z[id] = NodeApart(p[1], id, read_node(p[1], p[2], id), g[m - 1], a)
    BY <2>2 DEF ApStep
  <2> QED
    BY <2>1, <2>3, <2>4
<1> QED
  BY <1>1, <1>2 DEF ApEquations

(* With f or more levels, both are right about every tree of f levels.        *)
OwnedTo(V, f, g, h) == \A n \in 0 .. f : Owned(V, n, g, h)

(* A leaf.                                                                    *)
LEMMA OwnedBase ==
    ASSUME NEW V, NEW p, Reads(V, p[1], p[2]), ChainsIn(V, p[1]),
           NEW g, g = PgBase(p), NEW h, h = ApBase(p), NEW f, f = 0
    PROVE  OwnedTo(V, f, g, h)
<1> SUFFICES ASSUME NEW n \in Nat, n = 0, NEW id, NEW lo, NEW hi, Tree(V, n, id, lo, hi)
             PROVE  SameSet(g[id], Pages(V, n, id)) /\ h[id]
  BY DEF OwnedTo, Owned
<1>1. PICK node, file, ov : node = V[id] /\ file = p[1] /\ ov = p[2]
  OBVIOUS
<1>2. id \in Nat /\ id \in DOMAIN V
  BY TreeDef
<1>3. read_node(file, ov, id) = node
  BY <1>1, <1>2 DEF Reads
<1>4. g[id] = {id} \cup LeafPages(file, node)
  BY <1>1, <1>2, <1>3 DEF PgBase
<1>5. h[id] = LeafApart(file, id, node)
  BY <1>1, <1>2, <1>3 DEF ApBase
<1>6. ChainsIn(V, file)
  BY <1>1
<1>7. SameSet({id} \cup LeafPages(file, node), Pages(V, n, id)) /\ LeafApart(file, id, node)
  BY <1>1, <1>6, OwnedAtLeaf
<1> QED
  BY <1>4, <1>5, <1>7

(* One level more.                                                            *)
LEMMA OwnedStep ==
    ASSUME NEW V, NEW p, Reads(V, p[1], p[2]), ChainsIn(V, p[1]),
           NEW f \in Nat, NEW g, NEW h, OwnedTo(V, f, g, h), NEW e, e = f + 1,
           NEW g2, g2 = PgStep(p, e, g), NEW h2,
           \A id \in Nat : h2[id] = NodeApart(p[1], id, read_node(p[1], p[2], id), g, h)
    PROVE  OwnedTo(V, e, g2, h2)
<1> SUFFICES ASSUME NEW n \in Nat, n <= e, NEW id, NEW lo, NEW hi, Tree(V, n, id, lo, hi)
             PROVE  SameSet(g2[id], Pages(V, n, id)) /\ h2[id]
  BY DEF OwnedTo, Owned
<1>1. PICK node, file, ov : node = V[id] /\ file = p[1] /\ ov = p[2]
  OBVIOUS
<1>2. id \in Nat /\ id \in DOMAIN V
  BY TreeDef
<1>3. read_node(file, ov, id) = node
  BY <1>1, <1>2 DEF Reads
<1>4. g2[id] = NodePages(file, id, node, g)
  BY <1>1, <1>2, <1>3 DEF PgStep
<1>5. h2[id] = NodeApart(file, id, node, g, h)
  BY <1>1, <1>2, <1>3
<1>6. CASE n = 0
  <2>1. ChainsIn(V, file)
    BY <1>1
  <2>2. /\ node.leaf /\ SameSet({id} \cup LeafPages(file, node), Pages(V, n, id))
        /\ LeafApart(file, id, node)
    BY <1>1, <1>6, <2>1, OwnedAtLeaf
  <2>3. NodePages(file, id, node, g) = {id} \cup LeafPages(file, node)
    BY <2>2 DEF NodePages
  <2>4. NodeApart(file, id, node, g, h)
    BY <2>2 DEF NodeApart
  <2> QED
    BY <1>4, <1>5, <2>2, <2>3, <2>4
<1>7. CASE n # 0
  <2>1. PICK k \in Nat : n = k + 1 /\ k <= f
    <3>1. n - 1 \in Nat /\ n = (n - 1) + 1 /\ n - 1 <= f
      BY <1>7
    <3> QED
      BY <3>1
  <2>2. Owned(V, k, g, h)
    BY <2>1 DEF OwnedTo
  <2>3. /\ SameSet(NodePages(file, id, node, g), Pages(V, n, id))
        /\ NodeApart(file, id, node, g, h)
    BY <1>1, <2>1, <2>2, OwnedAtNode
  <2> QED
    BY <1>4, <1>5, <2>3
<1> QED
  BY <1>6, <1>7

(* Every tree's pages are counted right, and no page twice.                   *)
LEMMA OwnedOk ==
    ASSUME NEW V, NEW file, NEW overlay, Reads(V, file, overlay), ChainsIn(V, file),
           NEW f \in Nat, NEW n \in Nat, n <= f, NEW id, NEW lo, NEW hi,
           Tree(V, n, id, lo, hi)
    PROVE  /\ SameSet(TreePages(file, overlay)[f][id], Pages(V, n, id))
           /\ Apart(file, overlay)[f][id]
<1>1. PICK p, g, h : p = <<file, overlay>> /\ g = Pg!Rec(p) /\ h = Ap!Rec(p)
  OBVIOUS
<1>2. p[1] = file /\ p[2] = overlay
  BY <1>1
<1>3. TreePages(file, overlay) = g /\ Apart(file, overlay) = h
  <2>1. TreePages(file, overlay) = g
    BY <1>1, TreePagesRec
  <2>2. Apart(file, overlay) = h
    BY <1>1, ApartRec
  <2> QED
    BY <2>1, <2>2
<1>4. g[0] = PgBase(p) /\ \A k \in Nat : g[k + 1] = PgStep(p, k + 1, g[k])
  BY <1>1, PgValues
<1>5. g = TreePages(p[1], p[2])
  BY <1>2, <1>3
<1>6. /\ h[0] = ApBase(p)
      /\ \A k \in Nat : \A q \in Nat :
             h[k + 1][q] = NodeApart(p[1], q, read_node(p[1], p[2], q), g[k], h[k])
  <2>1. ApEquations(p, g, h)
    BY <1>1, <1>5, ApValues
  <2> QED
    BY <2>1 DEF ApEquations
<1>7. Reads(V, p[1], p[2]) /\ ChainsIn(V, p[1])
  BY <1>2
<1> DEFINE T == {k \in Nat : OwnedTo(V, k, g[k], h[k])}
<1>8. 0 \in T
  <2>1. PICK z, a, b : z \in Nat /\ z = 0 /\ a = g[z] /\ b = h[z]
    OBVIOUS
  <2>2. a = PgBase(p) /\ b = ApBase(p)
    BY <1>4, <1>6, <2>1
  <2>3. OwnedTo(V, z, a, b)
    BY <1>7, <2>1, <2>2, OwnedBase
  <2> QED
    BY <2>1, <2>3
<1>9. ASSUME NEW k \in Nat, k \in T PROVE k + 1 \in T
  <2>1. PICK e, a, b, a2, b2 : /\ e = k + 1 /\ a = g[k] /\ b = h[k]
                               /\ a2 = g[e] /\ b2 = h[e]
    OBVIOUS
  <2>2. OwnedTo(V, k, a, b)
    BY <1>9, <2>1
  <2>3. a2 = PgStep(p, e, a)
    BY <1>4, <2>1
  <2>4. \A q \in Nat : b2[q] = NodeApart(p[1], q, read_node(p[1], p[2], q), a, b)
    BY <1>6, <2>1
  <2>5. OwnedTo(V, e, a2, b2)
    BY <1>7, <2>1, <2>2, <2>3, <2>4, OwnedStep
  <2>6. e \in Nat
    BY <2>1
  <2> QED
    BY <2>1, <2>5, <2>6
<1>10. ASSUME f \in T PROVE OwnedTo(V, f, g[f], h[f])
  BY <1>10
<1> HIDE DEF T
<1>11. Nat \subseteq T
  BY <1>8, <1>9, Pg!SetInduction
<1>12. OwnedTo(V, f, g[f], h[f])
  BY <1>10, <1>11
<1>13. Owned(V, n, g[f], h[f])
  BY <1>12 DEF OwnedTo
<1> QED
  BY <1>3, <1>13 DEF Owned

-------------------------------------------------------------------------------
(* The pages that the free list, obsolete and scratch_pool name.              *)
LEMMA OtherPages ==
    ASSUME NEW c, Books(c), NEW d,
           d = Second(c.free_list) \o c.obsolete \o c.scratch_pool
    PROVE  IsInjective(d) /\ SameSet(ToSet(d), Free(c) \cup Old(c) \cup Pool(c))
<1>1. PICK f, o, s, g, e : /\ f = c.free_list /\ o = c.obsolete /\ s = c.scratch_pool
                           /\ g = Second(f) /\ e = g \o o
  OBVIOUS
<1>2. /\ f \in Seq(FreeSet) /\ o \in Seq(Nat \ {None}) /\ s \in Seq(Nat \ {None})
      /\ Distinct(g) /\ Distinct(o) /\ Distinct(s)
  BY <1>1 DEF Books, BookSeqs
<1>3. /\ Elems(g) = Free(c) /\ Elems(o) = Old(c) /\ Elems(s) = Pool(c)
  BY <1>1 DEF Free, Old, Pool
<1>4. /\ Disjoint(Elems(g), Elems(o)) /\ Disjoint(Elems(g), Elems(s))
      /\ Disjoint(Elems(o), Elems(s))
  BY <1>3 DEF Books, BookSets, Disjoint
<1>5. g \in Seq(Nat \ {None})
  BY <1>1, <1>2, SecondFacts
<1>6. e \in Seq(Nat \ {None}) /\ Distinct(e) /\ IsUnion(Elems(e), Elems(g), Elems(o))
  BY <1>1, <1>2, <1>4, <1>5, JoinIds
<1>7. Disjoint(Elems(e), Elems(s))
  BY <1>4, <1>6 DEF Disjoint, IsUnion
<1>8. d = e \o s
  BY <1>1
<1>9. d \in Seq(Nat \ {None}) /\ Distinct(d) /\ IsUnion(Elems(d), Elems(e), Elems(s))
  BY <1>2, <1>6, <1>7, <1>8, JoinIds
<1>10. ToSet(d) = Elems(d) /\ IsInjective(d)
  BY <1>9, ElemsLib
<1> QED
  BY <1>3, <1>6, <1>9, <1>10 DEF IsUnion, SameSet

(* What PagesOwnedOnce says, of sets.                                         *)
Parts(T, D, X, n) ==
    /\ T \cap D = {} /\ (T \cup D) \cap X = {}
    /\ T \cup D \cup X = META_PAGE_COUNT .. n - 1

(* What the transaction has and what is spare are the file.                   *)
LEMMA PartsOk ==
    ASSUME NEW n \in Nat, NEW T, T \subseteq 1 .. n - 1, NEW D, D \subseteq 1 .. n - 1,
           NEW S, S = D \cup Beyond(n), NEW X, Disjoint(T, S), Disjoint(X, T),
           Disjoint(X, S), SameSet(T \cup S \cup X, Beyond(META_PAGE_COUNT))
    PROVE  Parts(T, D, X, n)
<1>1. T \cap D = {} /\ (T \cup D) \cap X = {}
  BY DEF Disjoint
<1>2. \A p : p \in Beyond(n) <=> p \in Nat /\ p >= n
  BY DEF Beyond
<1>3. \A p : p \in Beyond(META_PAGE_COUNT) <=> p \in Nat /\ p >= META_PAGE_COUNT
  BY DEF Beyond
<1>4. META_PAGE_COUNT \in Nat
  BY DEF META_PAGE_COUNT
<1>5. \A p : p \in T \cup S \cup X <=> p \in Beyond(META_PAGE_COUNT)
  BY DEF SameSet
<1>6. ASSUME NEW p \in T \cup D \cup X PROVE p \in META_PAGE_COUNT .. n - 1
  <2>1. p \in Nat /\ p >= META_PAGE_COUNT
    BY <1>3, <1>5, <1>6
  <2>2. ~(p >= n)
    <3>1. CASE p \in T \cup D
      BY <3>1
    <3>2. CASE p \in X
      BY <1>2, <2>1, <3>2 DEF Disjoint
    <3> QED
      BY <1>6, <3>1, <3>2
  <2> QED
    BY <1>4, <2>1, <2>2
<1>7. ASSUME NEW p \in META_PAGE_COUNT .. n - 1 PROVE p \in T \cup D \cup X
  <2>1. p \in Nat /\ p >= META_PAGE_COUNT /\ ~(p >= n)
    BY <1>4
  <2>2. p \in T \cup S \cup X /\ p \notin Beyond(n)
    BY <1>2, <1>3, <1>5, <2>1
  <2> QED
    BY <2>2
<1> QED
  BY <1>1, <1>6, <1>7 DEF Parts

(* The tree of a root, as PagesOwnedOnce computes it.                         *)
TreeOf(file, overlay, n, root) ==
    IF root = None THEN {} ELSE TreePages(file, overlay)[n][root]

(* The tree of a root is counted right.                                       *)
LEMMA TreeOfOk ==
    ASSUME NEW c, Books(c), NEW V, V = View(c), NEW file, file = c.pages,
           NEW overlay, overlay = c.overlay, NEW f, f = c.next_page,
           NEW root, NEW lo, NEW hi, NEW T, Rooting(V, root, lo, hi, T),
           Disjoint(T, Spare(c))
    PROVE  /\ SameSet(TreeOf(file, overlay, f, root), T)
           /\ root # None => Apart(file, overlay)[f][root]
<1>1. CASE root = None
  <2>1. T = {}
    BY <1>1 DEF Rooting
  <2> QED
    BY <1>1, <2>1 DEF TreeOf, SameSet
<1>2. CASE root # None
  <2>1. PICK n \in Nat : Tree(V, n, root, lo, hi) /\ T = Pages(V, n, root)
    BY <1>2 DEF Rooting
  <2>2. Disjoint(Pages(V, n, root), Spare(c))
    BY <2>1
  <2>3. n <= f
    BY <2>1, <2>2, TreeFits
  <2>4. Reads(V, file, overlay)
    BY ReadsView
  <2>5. ChainsIn(V, file)
    BY ChainsInView
  <2>6. f \in Nat
    BY DEF Books, BookSets
  <2>7. /\ SameSet(TreePages(file, overlay)[f][root], Pages(V, n, root))
        /\ Apart(file, overlay)[f][root]
    BY <2>1, <2>3, <2>4, <2>5, <2>6, OwnedOk
  <2> QED
    BY <1>2, <2>1, <2>7 DEF TreeOf
<1> QED
  BY <1>1, <1>2

(* The invariant says more than PagesOwnedOnce.                               *)
LEMMA StorePages == StoreInv => PagesOwnedOnce
<1> SUFFICES ASSUME StoreInv, wtx.open PROVE PagesOwnedOnce
  BY DEF PagesOwnedOnce
<1>1. PICK R, F : /\ Stored(pages, meta, chains, Lowest, Above, R, F)
                  /\ WriteInv(pages, wtx, chains, R)
  BY DEF StoreInv, Kept
<1>2. PICK c, V, root, np, o, X, file : /\ c = Ctx(wtx, pages) /\ V = View(c)
                               /\ root = wtx.root /\ np = wtx.next_page
                               /\ o = wtx.overlay /\ X = chains /\ file = pages
  OBVIOUS
<1>3. PICK T : Working(c, root, X, Lowest, Above, T)
  BY <1>1, <1>2 DEF WriteInv, Writing
<1>4. /\ c.pages = file /\ c.overlay = o /\ c.next_page = np
      /\ c.free_list = wtx.free_list /\ c.obsolete = wtx.obsolete
      /\ c.scratch_pool = wtx.scratch_pool
  BY <1>2, CtxFields
<1>5. /\ Books(c) /\ Rooting(V, root, Lowest, Above, T) /\ Disjoint(T, Spare(c))
      /\ Disjoint(X, T) /\ Disjoint(X, Spare(c))
      /\ SameSet(T \cup Spare(c) \cup X, Beyond(META_PAGE_COUNT))
  BY <1>2, <1>3 DEF Working
<1>6. PICK d : d = Second(c.free_list) \o c.obsolete \o c.scratch_pool
  OBVIOUS
<1>7. IsInjective(d) /\ SameSet(ToSet(d), Free(c) \cup Old(c) \cup Pool(c))
  BY <1>5, <1>6, OtherPages
<1>8. PICK D, S : D = ToSet(d) /\ S = Spare(c)
  OBVIOUS
<1>9. np \in Nat /\ D \subseteq 1 .. np - 1
  BY <1>4, <1>5, <1>7, <1>8 DEF Books, BookSets, SameSet
<1>10. S = D \cup Beyond(np)
  BY <1>4, <1>7, <1>8 DEF Spare, SpareSet, SameSet
<1>11. T \subseteq 1 .. np - 1
  BY <1>4, <1>5, RootingFits
<1>12. Parts(T, D, X, np)
  <2>1. /\ Disjoint(T, S) /\ Disjoint(X, T) /\ Disjoint(X, S)
        /\ SameSet(T \cup S \cup X, Beyond(META_PAGE_COUNT))
    BY <1>5, <1>8
  <2> QED
    BY <1>9, <1>10, <1>11, <2>1, PartsOk
<1>13. /\ SameSet(TreeOf(file, o, np, root), T)
       /\ root # None => Apart(file, o)[np][root]
  BY <1>2, <1>4, <1>5, TreeOfOk
<1>14. d = [i \in DOMAIN wtx.free_list |-> wtx.free_list[i][2]]
               \o wtx.obsolete \o wtx.scratch_pool
  BY <1>4, <1>6, Zenon DEF Second
<1>15. T = IF wtx.root = None THEN {}
           ELSE TreePages(pages, wtx.overlay)[wtx.next_page][wtx.root]
  BY <1>2, <1>13 DEF TreeOf, SameSet
<1>16. wtx.root # None => Apart(pages, wtx.overlay)[wtx.next_page][wtx.root]
  BY <1>2, <1>13
<1>17. /\ T \cap ToSet(d) = {} /\ (T \cup ToSet(d)) \cap chains = {}
       /\ T \cup ToSet(d) \cup chains = META_PAGE_COUNT .. wtx.next_page - 1
  BY <1>2, <1>8, <1>12 DEF Parts
<1> QED
  BY <1>7, <1>14, <1>15, <1>16, <1>17, Zenon DEF PagesOwnedOnce

(* While a write transaction is open, each page below its next_page has one   *)
(* owner: the tree, the value chains of its leaves, the free list, the pages  *)
(* that the transaction has made obsolete or has in its pool, or a chain that *)
(* stores a free list.  No page leaks and none is used twice, whatever puts   *)
(* and deletes the transaction does and whatever transactions went before     *)
(* (storage/txn.rs, storage/freelist.rs).                                     *)
THEOREM PagesOwned == Spec => []PagesOwnedOnce
<1> QED
  BY StoreInvariance, StorePages, PTL

================================================================================
