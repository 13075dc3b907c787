------------------------------ MODULE BTreeProofs ------------------------------
(******************************************************************************)
(* The B-tree of storage/btree.rs as data, and contexts, for the proofs of    *)
(* module TreeStoreProofs: the sequences a node is made of, the chains of     *)
(* overflow values and free lists, the nodes and trees of a file with the     *)
(* pages that each has, and what splits, merges and the lookup of a key make  *)
(* of them; then what alloc, retire, put_node and store_value do to the pages *)
(* of a transaction. A tree is said of a function from page ids to pages, so  *)
(* that it can be the file, or the file beneath a transaction's overlay. A    *)
(* recursive function of the model is reasoned about through module           *)
(* Recursion.                                                                 *)
(******************************************************************************)
EXTENDS TreeStore, SequenceTheorems, FiniteSetTheorems, TLAPS

-------------------------------------------------------------------------------
(* Equations between sets, as predicates: the provers leave them folded.      *)
IsUnion(A, B, C) == A = B \cup C
Disjoint(A, B) == A \cap B = {}
SameSet(A, B) == A = B

-------------------------------------------------------------------------------
(* Sequences.                                                                 *)

(* The elements of two sequences put end to end.                              *)
LEMMA ConcatFacts ==
    ASSUME NEW S, NEW s \in Seq(S), NEW t \in Seq(S), NEW m \in Nat, NEW n \in Nat,
           Len(s) = m, Len(t) = n, NEW k, k = m + n
    PROVE  /\ s \o t \in Seq(S) /\ Len(s \o t) = k
           /\ \A j \in 1 .. k : (s \o t)[j] = IF j <= m THEN s[j] ELSE t[j - m]
<1>1. /\ s \o t \in Seq(S) /\ Len(s \o t) = m + n
      /\ \A j \in 1 .. m + n : (s \o t)[j] = IF j <= m THEN s[j] ELSE t[j - m]
  BY ConcatProperties
<1> QED
  BY <1>1

(* The same under a name: d is s and then t.                                  *)
Joined(d, s, t, m, n) ==
    /\ Len(d) = m + n
    /\ \A j \in 1 .. m : d[j] = s[j]
    /\ \A j \in 1 .. n : d[m + j] = t[j]

(* That is what \o makes.                                                     *)
LEMMA JoinedAt ==
    ASSUME NEW S, NEW s \in Seq(S), NEW t \in Seq(S), NEW m, NEW n,
           Len(s) = m, Len(t) = n, NEW d, d = s \o t
    PROVE  d \in Seq(S) /\ Joined(d, s, t, m, n)
<1>1. m \in Nat /\ n \in Nat
  BY LenProperties
<1>2. /\ d \in Seq(S) /\ Len(d) = m + n
      /\ \A j \in 1 .. m + n : d[j] = IF j <= m THEN s[j] ELSE t[j - m]
  BY ConcatProperties
<1>3. \A j \in 1 .. m : j \in 1 .. m + n /\ j <= m
  BY <1>1
<1>4. \A j \in 1 .. n : m + j \in 1 .. m + n /\ ~(m + j <= m) /\ (m + j) - m = j
  BY <1>1
<1> QED
  BY <1>2, <1>3, <1>4 DEF Joined

(* What a split leaves on the left: the first i elements.                     *)
LEMMA UntilFacts ==
    ASSUME NEW S, NEW s \in Seq(S), NEW i \in 0 .. Len(s)
    PROVE  /\ Until(s, i) \in Seq(S) /\ Len(Until(s, i)) = i
           /\ \A j \in 1 .. i : Until(s, i)[j] = s[j]
<1>1. PICK m : m = Len(s)
  OBVIOUS
<1>2. m \in Nat
  BY <1>1, LenProperties
<1>3. 1 \in 1 .. m + 1 /\ i \in 1 - 1 .. m
  BY <1>1, <1>2
<1>4. /\ SubSeq(s, 1, i) \in Seq(S)
      /\ Len(SubSeq(s, 1, i)) = IF 1 <= i THEN i - 1 + 1 ELSE 0
      /\ \A j \in 1 .. i - 1 + 1 : SubSeq(s, 1, i)[j] = s[1 + j - 1]
  BY <1>1, <1>3, SubSeqProperties
<1> QED
  BY <1>4 DEF Until

TailOf(d, s, i, m) ==
    Len(d) = (m + 1) - i /\ \A j \in 1 .. (m + 1) - i : d[j] = s[(i + j) - 1]

(* What a split puts on the right: the elements from position i on.           *)
LEMMA FromFacts ==
    ASSUME NEW S, NEW s \in Seq(S), NEW m, m = Len(s), NEW i \in 1 .. m + 1,
           NEW d, d = From(s, i)
    PROVE  d \in Seq(S) /\ TailOf(d, s, i, m)
<1>1. m = Len(s)
  OBVIOUS
<1>2. m \in Nat
  BY <1>1, LenProperties
<1>3. i \in 1 .. m + 1 /\ m \in i - 1 .. m
  BY <1>1, <1>2
<1>4. /\ SubSeq(s, i, m) \in Seq(S)
      /\ Len(SubSeq(s, i, m)) = IF i <= m THEN m - i + 1 ELSE 0
      /\ \A j \in 1 .. m - i + 1 : SubSeq(s, i, m)[j] = s[i + j - 1]
  BY <1>1, <1>3, SubSeqProperties
<1> QED
  BY <1>1, <1>2, <1>4 DEF From, TailOf

(* What d has that was made from s, under a name.                             *)
Inserted(d, s, i, x, m) ==
    /\ Len(d) = m + 1 /\ d[i] = x
    /\ \A j \in 1 .. m : j < i => d[j] = s[j]
    /\ \A j \in 1 .. m : j >= i => d[j + 1] = s[j]

(* The sequence Vec::insert makes.                                            *)
LEMMA InsertedAt ==
    ASSUME NEW S, NEW s \in Seq(S), NEW m, m = Len(s), NEW i \in 1 .. m + 1, NEW e \in S,
           NEW d, d = InsertAt(s, i, e)
    PROVE  d \in Seq(S) /\ Inserted(d, s, i, e, m)
<1>2. m \in Nat
  BY LenProperties
<1>3. PICK a, b, c : a = Until(s, i - 1) /\ b = <<e>> /\ c = From(s, i)
  OBVIOUS
<1>4. i - 1 \in 0 .. m
  BY <1>2
<1>5. /\ a \in Seq(S) /\ Len(a) = i - 1
      /\ \A j \in 1 .. i - 1 : a[j] = s[j]
  BY <1>3, <1>4, UntilFacts
<1>6. /\ c \in Seq(S) /\ Len(c) = (m + 1) - i
      /\ \A j \in 1 .. (m + 1) - i : c[j] = s[(i + j) - 1]
  <2>1. c \in Seq(S) /\ TailOf(c, s, i, m)
    BY <1>3, FromFacts
  <2> QED
    BY <2>1 DEF TailOf
<1>7. b \in Seq(S) /\ Len(b) = 1 /\ b[1] = e
  BY <1>3
<1>8. PICK ab : ab = a \o b
  OBVIOUS
<1>9. /\ ab \in Seq(S) /\ Len(ab) = i /\ ab[i] = e
      /\ \A j \in 1 .. i - 1 : ab[j] = a[j]
  <2>1. PICK p, q : p = i - 1 /\ q = 1
    OBVIOUS
  <2>2. Len(a) = p /\ Len(b) = q
    BY <1>5, <1>7, <2>1
  <2>3. ab \in Seq(S) /\ Joined(ab, a, b, p, q)
    BY <1>5, <1>7, <1>8, <2>2, JoinedAt
  <2>4. p + q = i /\ 1 \in 1 .. q /\ p + 1 = i
    BY <1>2, <2>1
  <2> QED
    BY <1>7, <2>1, <2>3, <2>4 DEF Joined
<1>10. PICK abc : abc = ab \o c
  OBVIOUS
<1>11. /\ abc \in Seq(S) /\ Len(abc) = m + 1
       /\ \A j \in 1 .. i : abc[j] = ab[j]
       /\ \A j \in 1 .. (m + 1) - i : abc[i + j] = c[j]
  <2>1. PICK q : q = (m + 1) - i
    OBVIOUS
  <2>2. Len(ab) = i /\ Len(c) = q
    BY <1>6, <1>9, <2>1
  <2>3. abc \in Seq(S) /\ Joined(abc, ab, c, i, q)
    BY <1>6, <1>9, <1>10, <2>2, JoinedAt
  <2>4. i + q = m + 1
    BY <1>2, <2>1
  <2> QED
    BY <2>1, <2>3, <2>4 DEF Joined
<1>12. InsertAt(s, i, e) = abc
  BY <1>3, <1>8, <1>10 DEF InsertAt, Until, From
<1>15. ASSUME NEW j \in 1 .. m, j < i PROVE abc[j] = s[j]
  <2>1. j \in 1 .. i - 1 /\ j \in 1 .. i
    BY <1>2, <1>15
  <2> QED
    BY <1>5, <1>9, <1>11, <2>1
<1>16. ASSUME NEW j \in 1 .. m, j >= i PROVE abc[j + 1] = s[j]
  <2>1. PICK k : k = (j - i) + 1
    OBVIOUS
  <2>2. k \in 1 .. (m + 1) - i /\ i + k = j + 1 /\ (i + k) - 1 = j
    BY <1>2, <1>16, <2>1
  <2> QED
    BY <1>6, <1>11, <2>2
<1>17. abc[i] = e
  <2>1. i \in 1 .. i
    OBVIOUS
  <2> QED
    BY <1>9, <1>11, <2>1
<1> QED
  BY <1>11, <1>12, <1>15, <1>16, <1>17 DEF Inserted

(* The sequence Vec::remove makes, by its elements.                           *)
LEMMA RemoveAtFacts ==
    ASSUME NEW S, NEW s \in Seq(S), NEW i \in 1 .. Len(s)
    PROVE  /\ RemoveAt(s, i) \in Seq(S) /\ Len(RemoveAt(s, i)) = Len(s) - 1
           /\ \A j \in 1 .. Len(s) - 1 :
                  RemoveAt(s, i)[j] = IF j < i THEN s[j] ELSE s[j + 1]
<1>1. PICK m : m = Len(s)
  OBVIOUS
<1>2. m \in Nat
  BY <1>1, LenProperties
<1>3. PICK a, c : a = Until(s, i - 1) /\ c = From(s, i + 1)
  OBVIOUS
<1>4. i - 1 \in 0 .. m /\ i + 1 \in 1 .. m + 1 /\ (m + 1) - (i + 1) = m - i
  BY <1>1, <1>2
<1>5. /\ a \in Seq(S) /\ Len(a) = i - 1
      /\ \A j \in 1 .. i - 1 : a[j] = s[j]
  BY <1>1, <1>3, <1>4, UntilFacts
<1>6. /\ c \in Seq(S) /\ Len(c) = m - i
      /\ \A j \in 1 .. m - i : c[j] = s[((i + 1) + j) - 1]
  <2>1. PICK k : k = i + 1
    OBVIOUS
  <2>2. /\ c \in Seq(S) /\ Len(c) = (m + 1) - k
        /\ \A j \in 1 .. (m + 1) - k : c[j] = s[(k + j) - 1]
    <3>1. c \in Seq(S) /\ TailOf(c, s, k, m)
      BY <1>1, <1>3, <1>4, <2>1, FromFacts
    <3> QED
      BY <3>1 DEF TailOf
  <2>3. (m + 1) - k = m - i
    BY <1>2, <2>1
  <2> QED
    BY <2>1, <2>2, <2>3
<1>10. PICK ac : ac = a \o c
  OBVIOUS
<1>11. /\ ac \in Seq(S) /\ Len(ac) = m - 1
       /\ \A j \in 1 .. m - 1 : ac[j] = IF j <= i - 1 THEN a[j] ELSE c[j - (i - 1)]
  <2>1. PICK p, q, r : p = i - 1 /\ q = m - i /\ r = m - 1
    OBVIOUS
  <2>2. p \in Nat /\ q \in Nat /\ r = p + q
    BY <1>1, <1>2, <2>1
  <2>3. a \in Seq(S) /\ c \in Seq(S) /\ Len(a) = p /\ Len(c) = q
    BY <1>5, <1>6, <2>1
  <2>4. ac \in Seq(S) /\ Joined(ac, a, c, p, q)
    BY <1>10, <2>3, JoinedAt
  <2>5. Len(ac) = r
    BY <2>2, <2>4 DEF Joined
  <2>6. ASSUME NEW j \in 1 .. r PROVE ac[j] = IF j <= p THEN a[j] ELSE c[j - p]
    <3>1. CASE j <= p
      BY <2>2, <2>4, <3>1 DEF Joined
    <3>2. CASE ~(j <= p)
      <4>1. j - p \in 1 .. q /\ p + (j - p) = j
        BY <2>2, <3>2
      <4>2. ac[p + (j - p)] = c[j - p]
        BY <2>4, <4>1 DEF Joined
      <4> QED
        BY <3>2, <4>1, <4>2
    <3> QED
      BY <3>1, <3>2
  <2> QED
    BY <2>1, <2>4, <2>5, <2>6
<1>12. RemoveAt(s, i) = ac
  BY <1>3, <1>10 DEF RemoveAt, Until, From
<1>13. ASSUME NEW j \in 1 .. m - 1
       PROVE  ac[j] = IF j < i THEN s[j] ELSE s[j + 1]
  <2>1. CASE j < i
    <3>1. j \in 1 .. i - 1 /\ j <= i - 1
      BY <1>1, <1>2, <2>1
    <3> QED
      BY <1>5, <1>11, <2>1, <3>1
  <2>2. CASE ~(j < i)
    <3>1. ~(j <= i - 1) /\ j - (i - 1) \in 1 .. m - i
      BY <1>1, <1>2, <2>2
    <3>2. ((i + 1) + (j - (i - 1))) - 1 = j + 1
      BY <1>2
    <3> QED
      BY <1>6, <1>11, <2>2, <3>1, <3>2
  <2> QED
    BY <2>1, <2>2
<1> QED
  BY <1>1, <1>11, <1>12, <1>13

Shortened(d, s, i, m) ==
    /\ Len(d) = m - 1
    /\ \A j \in 1 .. m - 1 : j < i => d[j] = s[j]
    /\ \A j \in 1 .. m - 1 : j >= i => d[j] = s[j + 1]

(* The same under a name.                                                     *)
LEMMA ShortenedAt ==
    ASSUME NEW S, NEW s \in Seq(S), NEW m, m = Len(s), NEW i \in 1 .. m,
           NEW d, d = RemoveAt(s, i)
    PROVE  d \in Seq(S) /\ Shortened(d, s, i, m)
<1>1. i \in 1 .. Len(s) /\ m \in Nat
  BY LenProperties
<1>2. /\ RemoveAt(s, i) \in Seq(S) /\ Len(RemoveAt(s, i)) = Len(s) - 1
      /\ \A j \in 1 .. Len(s) - 1 :
             RemoveAt(s, i)[j] = IF j < i THEN s[j] ELSE s[j + 1]
  BY <1>1, RemoveAtFacts
<1> QED
  BY <1>1, <1>2 DEF Shortened

Replaced(d, s, i, x, m) ==
    /\ Len(d) = m /\ d[i] = x
    /\ \A j \in 1 .. m : j # i => d[j] = s[j]

(* One element is overwritten.                                                *)
LEMMA ReplacedAt ==
    ASSUME NEW S, NEW s \in Seq(S), NEW m, m = Len(s), NEW i \in 1 .. m, NEW x \in S,
           NEW d, d = ReplaceAt(s, i, x)
    PROVE  d \in Seq(S) /\ Replaced(d, s, i, x, m)
BY ExceptSeq DEF ReplaceAt, Replaced

(* The last element is taken off.                                             *)
LEMMA FrontFacts ==
    ASSUME NEW S, NEW s \in Seq(S), s # <<>>
    PROVE  /\ Front(s) \in Seq(S) /\ Len(Front(s)) = Len(s) - 1 /\ Len(s) \in Nat \ {0}
           /\ \A j \in 1 .. Len(s) - 1 : Front(s)[j] = s[j]
           /\ Last(s) = s[Len(s)]
<1>1. PICK m : m = Len(s)
  OBVIOUS
<1>2. m \in Nat
  BY <1>1, LenProperties
<1>3. m # 0
  BY <1>1, EmptySeq
<1>4. m - 1 \in 0 .. m
  BY <1>2, <1>3
<1>5. /\ Until(s, m - 1) \in Seq(S) /\ Len(Until(s, m - 1)) = m - 1
      /\ \A j \in 1 .. m - 1 : Until(s, m - 1)[j] = s[j]
  BY <1>1, <1>4, UntilFacts
<1> QED
  BY <1>1, <1>2, <1>3, <1>5 DEF Until, Front, Last

-------------------------------------------------------------------------------
(* Recursive functions of BTree as instances of Recursion.                    *)

(* Facts for a chain: its pages, and its data.                                *)
IdsBase(V) == [id \in Nat |-> <<>>]
IdsStep(V, n, rest) == [id \in Nat |-> NextIds(V, id, rest)]
Ids == INSTANCE Recursion WITH Base <- IdsBase, Step <- IdsStep

DataStep(V, n, rest) == [id \in Nat |-> NextData(V, id, rest)]
Data == INSTANCE Recursion WITH Base <- IdsBase, Step <- DataStep

(* ChainIds, one page at a time.                                              *)
LEMMA IdsValues ==
    ASSUME NEW V, NEW id \in Nat
    PROVE  /\ ChainIds(V, id, 0) = <<>>
           /\ \A n \in Nat : ChainIds(V, id, n + 1)
                  = IF id = None THEN <<>>
                    ELSE <<id>> \o ChainIds(V, V[id].next, n)
<1>1. \A i, n : ChainIds(V, i, n) = Ids!Rec(V)[n][i]
  BY DEF ChainIds, Ids!Rec, IdsBase, IdsStep
<1>2. /\ Ids!Rec(V)[0] = IdsBase(V)
      /\ \A n \in Nat : Ids!Rec(V)[n + 1] = IdsStep(V, n + 1, Ids!Rec(V)[n])
  BY Ids!RecValues
<1> QED
  <2>1. Ids!Rec(V)[0][id] = <<>>
    BY <1>2 DEF IdsBase
  <2>2. ASSUME NEW n \in Nat
        PROVE  Ids!Rec(V)[n + 1][id] = NextIds(V, id, Ids!Rec(V)[n])
    BY <1>2 DEF IdsStep
  <2> QED
    BY <1>1, <2>1, <2>2, Zenon DEF NextIds

(* read_chain, one page at a time.                                            *)
LEMMA DataValues ==
    ASSUME NEW V, NEW id \in Nat
    PROVE  /\ read_chain(V, id, 0) = <<>>
           /\ \A n \in Nat : read_chain(V, id, n + 1)
                  = IF id = None THEN <<>>
                    ELSE V[id].data \o read_chain(V, V[id].next, n)
<1>1. \A i, n : read_chain(V, i, n) = Data!Rec(V)[n][i]
  BY DEF read_chain, Data!Rec, IdsBase, DataStep
<1>2. /\ Data!Rec(V)[0] = IdsBase(V)
      /\ \A n \in Nat : Data!Rec(V)[n + 1] = DataStep(V, n + 1, Data!Rec(V)[n])
  BY Data!RecValues
<1> QED
  <2>1. Data!Rec(V)[0][id] = <<>>
    BY <1>2 DEF IdsBase
  <2>2. ASSUME NEW n \in Nat
        PROVE  Data!Rec(V)[n + 1][id] = NextData(V, id, Data!Rec(V)[n])
    BY <1>2 DEF DataStep
  <2> QED
    BY <1>1, <2>1, <2>2, Zenon DEF NextData

(* The size of a leaf with one value.                                         *)
SizeBase(values) == 0
SizeStep(values, n, size) == size + ValueSize(values[n])
Size == INSTANCE Recursion WITH Base <- SizeBase, Step <- SizeStep

(* The size of a single value.                                                *)
LEMMA OneValueSize ==
    ASSUME NEW values, Len(values) = 1
    PROVE  ValuesSize(values) = 0 + ValueSize(values[1])
<1>1. ValuesSize(values) = Size!Rec(values)[Len(values)]
  BY DEF ValuesSize, Size!Rec, SizeBase, SizeStep
<1>2. /\ Size!Rec(values)[0] = SizeBase(values)
      /\ \A n \in Nat : Size!Rec(values)[n + 1] = SizeStep(values, n + 1, Size!Rec(values)[n])
  BY Size!RecValues
<1>3. Size!Rec(values)[0 + 1] = SizeStep(values, 0 + 1, Size!Rec(values)[0])
  BY <1>2
<1> QED
  BY <1>1, <1>2, <1>3 DEF SizeBase, SizeStep

(* No values have no size.                                                    *)
LEMMA NoValueSize ==
    ASSUME NEW values, Len(values) = 0
    PROVE  ValuesSize(values) = 0
<1>1. ValuesSize(values) = Size!Rec(values)[Len(values)]
  BY DEF ValuesSize, Size!Rec, SizeBase, SizeStep
<1>2. Size!Rec(values)[0] = SizeBase(values)
  BY Size!RecValues
<1> QED
  BY <1>1, <1>2 DEF SizeBase

-------------------------------------------------------------------------------
(* Chains.  A chain in a file V has the pages page[1 .. m], the tail first,   *)
(* and data[i] is what is read from page[i] on.                               *)

ChainHead(m, page) == IF m = 0 THEN None ELSE page[m]
ChainLink(V, i, page, data) ==
    /\ page[i] \in Nat \ {None} /\ page[i] \in DOMAIN V
    /\ V[page[i]] = ChainPage(ChainHead(i - 1, page), V[page[i]].data)
    /\ data[i] = V[page[i]].data \o data[i - 1]
Chain(V, m, page, data) ==
    /\ data[0] = <<>>
    /\ \A i \in 1 .. m : ChainLink(V, i, page, data)
    /\ \A i, j \in 1 .. m : page[i] = page[j] => i = j
ChainPages(m, page) == {page[i] : i \in 1 .. m}

(* With enough steps the code's functions read the whole chain.               *)
LEMMA ChainRead ==
    ASSUME NEW V, NEW m \in Nat, NEW page, NEW data, Chain(V, m, page, data),
           NEW n \in Nat, m <= n
    PROVE  /\ read_chain(V, ChainHead(m, page), n) = data[m]
           /\ ChainIds(V, ChainHead(m, page), n) \in Seq(Nat \ {None})
           /\ ToSet(ChainIds(V, ChainHead(m, page), n)) = ChainPages(m, page)
           /\ IsInjective(ChainIds(V, ChainHead(m, page), n))
           /\ ChainHead(m, page) \in Nat
<1> DEFINE Read(i, k) ==
             /\ ChainHead(i, page) \in Nat
             /\ read_chain(V, ChainHead(i, page), k) = data[i]
             /\ ChainIds(V, ChainHead(i, page), k) \in Seq(Nat \ {None})
             /\ ToSet(ChainIds(V, ChainHead(i, page), k)) = ChainPages(i, page)
             /\ IsInjective(ChainIds(V, ChainHead(i, page), k))
           T == {i \in Nat : i <= m => \A k \in Nat : i <= k => Read(i, k)}
<1>1. 0 \in T
  <2> SUFFICES ASSUME NEW k \in Nat PROVE Read(0, k)
    OBVIOUS
  <2>1. ChainHead(0, page) = None /\ None \in Nat
    BY DEF ChainHead, None
  <2>2. read_chain(V, None, k) = <<>> /\ ChainIds(V, None, k) = <<>>
    <3>1. CASE k = 0
      BY <2>1, <3>1, IdsValues, DataValues
    <3>2. CASE k # 0
      <4>1. PICK l \in Nat : k = l + 1
        <5>1. k - 1 \in Nat /\ k = (k - 1) + 1
          BY <3>2
        <5> QED
          BY <5>1
      <4> QED
        BY <2>1, <4>1, IdsValues, DataValues
    <3> QED
      BY <3>1, <3>2
  <2>3. /\ <<>> \in Seq(Nat \ {None}) /\ ToSet(<<>>) = {} /\ IsInjective(<<>>)
        /\ ChainPages(0, page) = {}
    BY DEF ToSet, IsInjective, ChainPages
  <2> QED
    BY <2>1, <2>2, <2>3 DEF Chain
<1>2. ASSUME NEW i \in Nat, i \in T PROVE i + 1 \in T
  <2> SUFFICES ASSUME i + 1 <= m, NEW k \in Nat, i + 1 <= k PROVE Read(i + 1, k)
    OBVIOUS
  <2>1. PICK j : j = i + 1
    OBVIOUS
  <2>2. PICK h : h = ChainHead(i, page)
    OBVIOUS
  <2>3. PICK l \in Nat : k = l + 1 /\ i <= l
    <3>1. k - 1 \in Nat /\ k = (k - 1) + 1 /\ i <= k - 1
      OBVIOUS
    <3> QED
      BY <3>1
  <2>4. Read(i, l)
    BY <1>2, <2>3
  <2>5. j \in 1 .. m /\ j - 1 = i /\ j # 0 /\ i <= m
    BY <2>1
  <2>6. PICK id : id = page[j]
    OBVIOUS
  <2>7. ChainHead(j, page) = id
    BY <2>5, <2>6 DEF ChainHead
  <2>8. /\ id \in Nat \ {None} /\ id \in DOMAIN V
        /\ V[id] = ChainPage(h, V[id].data)
        /\ data[j] = V[id].data \o data[i]
    BY <2>2, <2>5, <2>6 DEF Chain, ChainLink
  <2>9. V[id].next = h
    BY <2>8 DEF ChainPage
  <2>10. /\ read_chain(V, id, k) = V[id].data \o read_chain(V, h, l)
         /\ ChainIds(V, id, k) = <<id>> \o ChainIds(V, h, l)
    <3>1. id \in Nat /\ id # None
      BY <2>8
    <3>2. read_chain(V, id, l + 1) = V[id].data \o read_chain(V, V[id].next, l)
      BY <3>1, DataValues
    <3>3. ChainIds(V, id, l + 1) = <<id>> \o ChainIds(V, V[id].next, l)
      BY <3>1, IdsValues
    <3> QED
      BY <2>3, <2>9, <3>2, <3>3
  <2>11. read_chain(V, id, k) = data[j]
    BY <2>2, <2>4, <2>8, <2>10
  <2>12. PICK r : r = ChainIds(V, h, l)
    OBVIOUS
  <2>13. r \in Seq(Nat \ {None}) /\ ToSet(r) = ChainPages(i, page) /\ IsInjective(r)
    BY <2>2, <2>4, <2>12
  <2>14. PICK q : q = <<id>> \o r
    OBVIOUS
  <2>15. PICK b : b = Len(r)
    OBVIOUS
  <2>16. b \in Nat /\ DOMAIN r = 1 .. b
    BY <2>13, <2>15, LenProperties
  <2>17. /\ q \in Seq(Nat \ {None}) /\ Len(q) = b + 1 /\ q[1] = id
         /\ \A x \in 1 .. b : q[x + 1] = r[x]
    <3>1. PICK o, one, e : o = <<id>> /\ one = 1 /\ e = one + b
      OBVIOUS
    <3>2. o \in Seq(Nat \ {None}) /\ Len(o) = one /\ o[1] = id /\ one \in Nat
      BY <2>8, <3>1
    <3>3. /\ o \o r \in Seq(Nat \ {None}) /\ Len(o \o r) = e
          /\ \A x \in 1 .. e : (o \o r)[x] = IF x <= one THEN o[x] ELSE r[x - one]
      BY <2>13, <2>15, <2>16, <3>1, <3>2, ConcatFacts
    <3>4. \A x \in 1 .. b : x + 1 \in 1 .. e /\ ~(x + 1 <= one) /\ (x + 1) - one = x
      BY <2>16, <3>1
    <3>5. 1 \in 1 .. e /\ 1 <= one /\ e = b + 1
      BY <2>16, <3>1
    <3> QED
      BY <2>14, <3>1, <3>2, <3>3, <3>4, <3>5
  <2>18. ToSet(r) = {r[x] : x \in 1 .. b}
    BY <2>16 DEF ToSet
  <2>19. DOMAIN q = 1 .. b + 1
    BY <2>16, <2>17, LenProperties
  <2>20. ToSet(q) = {id} \cup ToSet(r)
    <3>1. ASSUME NEW x \in 1 .. b + 1 PROVE q[x] \in {id} \cup ToSet(r)
      <4>1. CASE x = 1
        BY <2>17, <4>1
      <4>2. CASE x # 1
        <5>1. x - 1 \in 1 .. b /\ (x - 1) + 1 = x
          BY <2>16, <4>2
        <5> QED
          BY <2>17, <2>18, <5>1
      <4> QED
        BY <4>1, <4>2
    <3>2. 1 \in 1 .. b + 1 /\ \A x \in 1 .. b : x + 1 \in 1 .. b + 1
      BY <2>16
    <3>3. ToSet(q) = {q[x] : x \in 1 .. b + 1}
      BY <2>19 DEF ToSet
    <3>4. id \in ToSet(q) /\ \A x \in 1 .. b : r[x] \in ToSet(q)
      BY <2>17, <3>2, <3>3
    <3> QED
      BY <2>18, <3>1, <3>3, <3>4
  <2>21. ChainPages(j, page) = {id} \cup ChainPages(i, page)
    <3>1. 1 .. j = {j} \cup 1 .. i
      BY <2>1
    <3> QED
      BY <2>6, <3>1 DEF ChainPages
  <2>22. id \notin ToSet(r)
    <3>1. \A x \in 1 .. i : x \in 1 .. m /\ x # j
      BY <2>1, <2>5
    <3> QED
      BY <2>5, <2>6, <2>13, <3>1 DEF Chain, ChainPages
  <2>23. IsInjective(q)
    <3> SUFFICES ASSUME NEW x \in 1 .. b + 1, NEW y \in 1 .. b + 1, q[x] = q[y]
                 PROVE  x = y
      BY <2>19 DEF IsInjective
    <3>1. \A z \in 1 .. b + 1 : z # 1 => z - 1 \in 1 .. b /\ q[z] = r[z - 1]
      <4>1. \A z \in 1 .. b + 1 : z # 1 => z - 1 \in 1 .. b /\ (z - 1) + 1 = z
        BY <2>16
      <4> QED
        BY <2>17, <4>1
    <3>2. CASE x = 1 \/ y = 1
      BY <2>17, <2>18, <2>22, <3>1, <3>2
    <3>3. CASE x # 1 /\ y # 1
      <4>1. r[x - 1] = r[y - 1] /\ x - 1 \in 1 .. b /\ y - 1 \in 1 .. b
        BY <3>1, <3>3
      <4>2. x - 1 = y - 1
        BY <2>13, <2>16, <4>1 DEF IsInjective
      <4> QED
        BY <4>1, <4>2
    <3> QED
      BY <3>2, <3>3
  <2>24. ChainIds(V, id, k) = q
    BY <2>10, <2>12, <2>14
  <2>25. Read(j, k)
    BY <2>7, <2>8, <2>11, <2>13, <2>17, <2>20, <2>21, <2>23, <2>24
  <2> QED
    BY <2>1, <2>25
<1> HIDE DEF T
<1>3. Nat \subseteq T
  BY <1>1, <1>2, Ids!SetInduction
<1>4. m \in T
  BY <1>3
<1> QED
  BY <1>4 DEF T

(* The same under a name.                                                     *)
IdsRead(ids, m, page) ==
    /\ ids \in Seq(Nat \ {None}) /\ ToSet(ids) = ChainPages(m, page)
    /\ IsInjective(ids)

(* Enough steps list every page of the chain once.                            *)
LEMMA ChainIdsRead ==
    ASSUME NEW V, NEW m \in Nat, NEW page, NEW data, Chain(V, m, page, data),
           NEW n \in Nat, m <= n, NEW ids, ids = ChainIds(V, ChainHead(m, page), n)
    PROVE  IdsRead(ids, m, page)
<1>1. /\ ChainIds(V, ChainHead(m, page), n) \in Seq(Nat \ {None})
      /\ ToSet(ChainIds(V, ChainHead(m, page), n)) = ChainPages(m, page)
      /\ IsInjective(ChainIds(V, ChainHead(m, page), n))
  BY ChainRead
<1> QED
  BY <1>1 DEF IdsRead

-------------------------------------------------------------------------------
(* Trees, in a file V that holds the overlay's nodes as well.                 *)

(* A value is inline, or a chain of at most as many pages as it has bytes.    *)
ValueSet == {Inline(b) : b \in Seq(Int)} \cup {Overflow(h, l) : h \in Nat, l \in Nat}
InlineOk(v) ==
    /\ v = Inline(v.bytes) /\ v.bytes \in Seq(Int)
    /\ Len(v.bytes) <= INLINE_VALUE_LIMIT
ChainedOk(V, v) ==
    /\ v = Overflow(v.head, v.len) /\ v.len \in Nat
    /\ \E m \in Nat : \E page, data :
           /\ m <= v.len /\ v.head = ChainHead(m, page) /\ Chain(V, m, page, data)
ValueOk(V, v) == InlineOk(v) \/ ChainedOk(V, v)

(* What the children of a node have by g.                                     *)
Below(node, g) == UNION {g[node.children[i]] : i \in DOMAIN node.children}

(* The pages of the subtree at id with n levels below it.                     *)
OwnBase(V) == [id \in Nat |-> {id} \cup LeafPages(V, V[id])]
OwnStep(V, n, g) == [id \in Nat |-> {id} \cup Below(V[id], g)]
Own == INSTANCE Recursion WITH Base <- OwnBase, Step <- OwnStep
Pages(V, n, id) == Own!Rec(V)[n][id]

(* A leaf, and an internal node whose children are in the set ok, with bounds *)
(* lo and hi for the keys.  An internal node's keys are above lo.             *)
LeafBody(V, node, lo, hi) ==
    /\ node = Leaf(node.keys, node.values)
    /\ node.keys \in Seq(Int) /\ node.values \in Seq(ValueSet)
    /\ Len(node.values) = Len(node.keys)
    /\ KeysOrdered(node.keys, lo, hi)
    /\ \A i \in DOMAIN node.values : ValueOk(V, node.values[i])
    /\ \A i, j \in DOMAIN node.values :
           i # j => ValuePages(V, node.values[i]) \cap ValuePages(V, node.values[j]) = {}
InnerBody(node, lo, hi, g, ok) ==
    /\ node = Internal(node.keys, node.children)
    /\ node.keys \in Seq(Int) /\ node.children \in Seq(Nat \ {None})
    /\ Len(node.children) = Len(node.keys) + 1
    /\ KeysOrdered(node.keys, lo, hi)
    /\ \A i \in DOMAIN node.keys : lo < node.keys[i]
    /\ \A i \in DOMAIN node.children :
           <<node.children[i], Bound(node.keys, lo, hi, i - 1),
             Bound(node.keys, lo, hi, i)>> \in ok
    /\ \A i, j \in DOMAIN node.children :
           i # j => g[node.children[i]] \cap g[node.children[j]] = {}

(* <<id, lo, hi>>: the subtree at id is a search tree with keys in [lo, hi)   *)
(* and uniform depth n, and every page in it occurs once.                     *)
Triples(V) == {t \in Nat \X Int \X Int : t[1] # None /\ t[1] \in DOMAIN V}
TreeBase(V) ==
    {t \in Triples(V) : /\ LeafBody(V, V[t[1]], t[2], t[3])
                        /\ t[1] \notin LeafPages(V, V[t[1]])}
TreeStep(V, n, ok) ==
    {t \in Triples(V) : /\ InnerBody(V[t[1]], t[2], t[3], Own!Rec(V)[n - 1], ok)
                        /\ t[1] \notin Below(V[t[1]], Own!Rec(V)[n - 1])}
Trees == INSTANCE Recursion WITH Base <- TreeBase, Step <- TreeStep
Tree(V, n, id, lo, hi) == <<id, lo, hi>> \in Trees!Rec(V)[n]

(* A node with n levels below it that is not yet on a page.                   *)
Body(V, n, node, lo, hi) ==
    IF n = 0 THEN LeafBody(V, node, lo, hi)
    ELSE InnerBody(node, lo, hi, Own!Rec(V)[n - 1], Trees!Rec(V)[n - 1])
BodyPages(V, n, node) ==
    IF n = 0 THEN LeafPages(V, node) ELSE Below(node, Own!Rec(V)[n - 1])

(* The pages of a subtree are its root's and those below it.                  *)
LEMMA PagesDef ==
    ASSUME NEW V, NEW n \in Nat, NEW id \in Nat
    PROVE  Pages(V, n, id) = {id} \cup BodyPages(V, n, V[id])
<1>1. /\ Own!Rec(V)[0] = OwnBase(V)
      /\ \A k \in Nat : Own!Rec(V)[k + 1] = OwnStep(V, k + 1, Own!Rec(V)[k])
  BY Own!RecValues
<1>2. CASE n = 0
  BY <1>1, <1>2 DEF Pages, BodyPages, OwnBase
<1>3. CASE n # 0
  <2>1. PICK k \in Nat : n = k + 1 /\ n - 1 = k
    <3>1. n - 1 \in Nat /\ n = (n - 1) + 1
      BY <1>3
    <3> QED
      BY <3>1
  <2>2. Own!Rec(V)[n] = OwnStep(V, n, Own!Rec(V)[k])
    BY <1>1, <2>1
  <2>3. Own!Rec(V)[n][id] = {id} \cup Below(V[id], Own!Rec(V)[k])
    BY <2>2 DEF OwnStep
  <2> QED
    BY <1>3, <2>1, <2>3 DEF Pages, BodyPages
<1> QED
  BY <1>2, <1>3

(* A subtree is a node on a page that does not occur below it.                *)
LEMMA TreeDef ==
    ASSUME NEW V, NEW n \in Nat, NEW id, NEW lo, NEW hi
    PROVE  Tree(V, n, id, lo, hi) <=>
               /\ id \in Nat \ {None} /\ lo \in Int /\ hi \in Int /\ id \in DOMAIN V
               /\ Body(V, n, V[id], lo, hi) /\ id \notin BodyPages(V, n, V[id])
<1>1. /\ Trees!Rec(V)[0] = TreeBase(V)
      /\ \A k \in Nat : Trees!Rec(V)[k + 1] = TreeStep(V, k + 1, Trees!Rec(V)[k])
  BY Trees!RecValues
<1>2. PICK t : t = <<id, lo, hi>>
  OBVIOUS
<1>3. t[1] = id /\ t[2] = lo /\ t[3] = hi
  BY <1>2
<1>4. t \in Triples(V) <=> /\ id \in Nat \ {None} /\ lo \in Int /\ hi \in Int
                           /\ id \in DOMAIN V
  BY <1>2, <1>3 DEF Triples
<1>5. CASE n = 0
  <2>1. t \in Trees!Rec(V)[n] <=> t \in TreeBase(V)
    BY <1>1, <1>5
  <2>2. t \in TreeBase(V) <=> /\ t \in Triples(V) /\ LeafBody(V, V[id], lo, hi)
                              /\ id \notin LeafPages(V, V[id])
    BY <1>3 DEF TreeBase
  <2>3. Body(V, n, V[id], lo, hi) <=> LeafBody(V, V[id], lo, hi)
    BY <1>5 DEF Body
  <2>4. BodyPages(V, n, V[id]) = LeafPages(V, V[id])
    BY <1>5 DEF BodyPages
  <2>5. Tree(V, n, id, lo, hi) <=> t \in Trees!Rec(V)[n]
    BY <1>2 DEF Tree
  <2> QED
    BY <1>4, <2>1, <2>2, <2>3, <2>4, <2>5, Zenon
<1>6. CASE n # 0
  <2>1. PICK k \in Nat : n = k + 1 /\ n - 1 = k
    <3>1. n - 1 \in Nat /\ n = (n - 1) + 1
      BY <1>6
    <3> QED
      BY <3>1
  <2>2. Trees!Rec(V)[n] = TreeStep(V, n, Trees!Rec(V)[k])
    BY <1>1, <2>1
  <2>3. t \in TreeStep(V, n, Trees!Rec(V)[k]) <=>
            /\ t \in Triples(V)
            /\ InnerBody(V[id], lo, hi, Own!Rec(V)[k], Trees!Rec(V)[k])
            /\ id \notin Below(V[id], Own!Rec(V)[k])
    BY <1>3, <2>1, Zenon DEF TreeStep
  <2>4. Body(V, n, V[id], lo, hi)
            <=> InnerBody(V[id], lo, hi, Own!Rec(V)[k], Trees!Rec(V)[k])
    BY <1>6, <2>1 DEF Body
  <2>5. BodyPages(V, n, V[id]) = Below(V[id], Own!Rec(V)[k])
    BY <1>6, <2>1 DEF BodyPages
  <2>6. Tree(V, n, id, lo, hi) <=> t \in Trees!Rec(V)[n]
    BY <1>2 DEF Tree
  <2> QED
    BY <1>4, <2>2, <2>3, <2>4, <2>5, <2>6, Zenon
<1> QED
  BY <1>5, <1>6

(* An internal node in terms of the trees below it.                           *)
Kids(V, n, keys, children, lo, hi) ==
    /\ \A i \in 1 .. Len(children) :
           Tree(V, n, children[i], Bound(keys, lo, hi, i - 1), Bound(keys, lo, hi, i))
    /\ \A i, j \in 1 .. Len(children) :
           i # j => Pages(V, n, children[i]) \cap Pages(V, n, children[j]) = {}
KeysAbove(keys, lo) == \A i \in 1 .. Len(keys) : lo < keys[i]
InnerShape(node, lo, hi) ==
    /\ node = Internal(node.keys, node.children)
    /\ node.keys \in Seq(Int) /\ node.children \in Seq(Nat \ {None})
    /\ Len(node.children) = Len(node.keys) + 1
    /\ KeysOrdered(node.keys, lo, hi) /\ KeysAbove(node.keys, lo)

(* The pages of the trees cs.                                                 *)
KidPages(V, n, cs) == UNION {Pages(V, n, cs[i]) : i \in 1 .. Len(cs)}

(* An internal node is right when its shape is and its children are trees     *)
(* with pages of their own.                                                   *)
LEMMA InnerDef ==
    ASSUME NEW V, NEW n \in Nat, NEW m, m = n + 1, NEW node, NEW lo, NEW hi
    PROVE  Body(V, m, node, lo, hi) <=>
               InnerShape(node, lo, hi) /\ Kids(V, n, node.keys, node.children, lo, hi)
<1>1. m # 0 /\ m - 1 = n
  OBVIOUS
<1>2. PICK g, ok : g = Own!Rec(V)[n] /\ ok = Trees!Rec(V)[n]
  OBVIOUS
<1>3. Body(V, m, node, lo, hi) <=> InnerBody(node, lo, hi, g, ok)
  BY <1>1, <1>2 DEF Body
<1>5. ASSUME node.keys \in Seq(Int), node.children \in Seq(Nat \ {None})
      PROVE  /\ DOMAIN node.keys = 1 .. Len(node.keys)
             /\ DOMAIN node.children = 1 .. Len(node.children)
  BY <1>5, LenProperties
<1>6. \A id : g[id] = Pages(V, n, id)
  BY <1>2 DEF Pages
<1>7. \A id, a, b : <<id, a, b>> \in ok <=> Tree(V, n, id, a, b)
  BY <1>2 DEF Tree
<1>8. ASSUME InnerBody(node, lo, hi, g, ok)
      PROVE  InnerShape(node, lo, hi) /\ Kids(V, n, node.keys, node.children, lo, hi)
  <2>1. /\ DOMAIN node.keys = 1 .. Len(node.keys)
        /\ DOMAIN node.children = 1 .. Len(node.children)
    BY <1>5, <1>8 DEF InnerBody
  <2>2. InnerShape(node, lo, hi)
    BY <1>8, <2>1, Zenon DEF InnerBody, InnerShape, KeysAbove
  <2>3. Kids(V, n, node.keys, node.children, lo, hi)
    <3>1. ASSUME NEW i \in 1 .. Len(node.children)
          PROVE  Tree(V, n, node.children[i], Bound(node.keys, lo, hi, i - 1),
                      Bound(node.keys, lo, hi, i))
      BY <1>7, <1>8, <2>1 DEF InnerBody
    <3>2. ASSUME NEW i \in 1 .. Len(node.children), NEW j \in 1 .. Len(node.children),
                 i # j
          PROVE  Pages(V, n, node.children[i]) \cap Pages(V, n, node.children[j]) = {}
      <4>1. g[node.children[i]] \cap g[node.children[j]] = {}
        BY <1>8, <2>1, <3>2 DEF InnerBody
      <4> QED
        BY <1>6, <4>1
    <3> QED
      BY <3>1, <3>2 DEF Kids
  <2> QED
    BY <2>2, <2>3
<1>9. ASSUME InnerShape(node, lo, hi), Kids(V, n, node.keys, node.children, lo, hi)
      PROVE  InnerBody(node, lo, hi, g, ok)
  <2>1. /\ DOMAIN node.keys = 1 .. Len(node.keys)
        /\ DOMAIN node.children = 1 .. Len(node.children)
    BY <1>5, <1>9 DEF InnerShape
  <2>2. ASSUME NEW i \in DOMAIN node.children
        PROVE  <<node.children[i], Bound(node.keys, lo, hi, i - 1),
                 Bound(node.keys, lo, hi, i)>> \in ok
    BY <1>7, <1>9, <2>1 DEF Kids
  <2>3. ASSUME NEW i \in DOMAIN node.children, NEW j \in DOMAIN node.children, i # j
        PROVE  g[node.children[i]] \cap g[node.children[j]] = {}
    <3>1. Pages(V, n, node.children[i]) \cap Pages(V, n, node.children[j]) = {}
      BY <1>9, <2>1, <2>3 DEF Kids
    <3> QED
      BY <1>6, <3>1
  <2>4. \A i \in DOMAIN node.keys : lo < node.keys[i]
    BY <1>9, <2>1 DEF InnerShape, KeysAbove
  <2> QED
    BY <1>9, <2>2, <2>3, <2>4, Zenon DEF InnerBody, InnerShape
<1> QED
  BY <1>3, <1>8, <1>9

(* What is below an internal node are the pages of its children.              *)
LEMMA InnerSets ==
    ASSUME NEW V, NEW n \in Nat, NEW m, m = n + 1, NEW node, NEW cs,
           cs = node.children, cs \in Seq(Nat \ {None})
    PROVE  BodyPages(V, m, node) = KidPages(V, n, cs)
<1>1. m # 0 /\ m - 1 = n
  OBVIOUS
<1>2. PICK g : g = Own!Rec(V)[n]
  OBVIOUS
<1>3. BodyPages(V, m, node) = Below(node, g)
  BY <1>1, <1>2 DEF BodyPages
<1>4. \A id : g[id] = Pages(V, n, id)
  BY <1>2 DEF Pages
<1>5. DOMAIN cs = 1 .. Len(cs)
  BY LenProperties
<1>6. Below(node, g) = UNION {g[cs[i]] : i \in 1 .. Len(cs)}
  BY <1>5, Zenon DEF Below
<1> QED
  BY <1>3, <1>4, <1>6 DEF KidPages

(* W has what V has on the pages S.                                           *)
Agree(V, W, S) == \A p \in S : p \in DOMAIN V => p \in DOMAIN W /\ W[p] = V[p]

(* The pages of a value are those of its chain.                               *)
LEMMA ValueFacts ==
    ASSUME NEW V, NEW v, NEW m \in Nat, NEW page, NEW data,
           v = Overflow(v.head, v.len), v.len \in Nat, m <= v.len,
           v.head = ChainHead(m, page), Chain(V, m, page, data)
    PROVE  ValuePages(V, v) = ChainPages(m, page)
<1>1. v.inline = FALSE
  BY DEF Overflow
<1>2. PICK n : n = v.len
  OBVIOUS
<1>3. n \in Nat /\ m <= n
  BY <1>2
<1>4. /\ read_chain(V, ChainHead(m, page), n) = data[m]
      /\ ToSet(ChainIds(V, ChainHead(m, page), n)) = ChainPages(m, page)
  BY <1>3, ChainRead
<1> QED
  BY <1>1, <1>2, <1>4 DEF ValuePages

(* A value is read the same in every file that has its chain.                 *)
LEMMA ValueFrame ==
    ASSUME NEW V, NEW W, NEW v, ValueOk(V, v), Agree(V, W, ValuePages(V, v))
    PROVE  ValueOk(W, v) /\ ValuePages(W, v) = ValuePages(V, v)
<1>1. CASE InlineOk(v)
  <2>1. v.inline = TRUE
    BY <1>1 DEF InlineOk, Inline
  <2> QED
    BY <1>1, <2>1 DEF ValueOk, ValuePages
<1>2. CASE ChainedOk(V, v)
  <2>1. PICK m \in Nat : \E page, data :
           /\ m <= v.len /\ v.head = ChainHead(m, page) /\ Chain(V, m, page, data)
    BY <1>2 DEF ChainedOk
  <2>2. PICK page, data :
           /\ m <= v.len /\ v.head = ChainHead(m, page) /\ Chain(V, m, page, data)
    BY <2>1
  <2>3. v = Overflow(v.head, v.len) /\ v.len \in Nat
    BY <1>2 DEF ChainedOk
  <2>4. ValuePages(V, v) = ChainPages(m, page)
    BY <2>2, <2>3, ValueFacts
  <2>5. Chain(W, m, page, data)
    <3>1. ASSUME NEW i \in 1 .. m PROVE ChainLink(W, i, page, data)
      <4>1. ChainLink(V, i, page, data)
        BY <2>2 DEF Chain
      <4>2. page[i] \in ChainPages(m, page)
        BY DEF ChainPages
      <4>3. page[i] \in DOMAIN W /\ W[page[i]] = V[page[i]]
        BY <2>4, <4>1, <4>2 DEF ChainLink, Agree
      <4> QED
        BY <4>1, <4>3 DEF ChainLink
    <3> QED
      BY <2>2, <3>1 DEF Chain
  <2>6. ValuePages(W, v) = ChainPages(m, page)
    BY <2>2, <2>3, <2>5, ValueFacts
  <2>7. ChainedOk(W, v)
    BY <2>2, <2>3, <2>5 DEF ChainedOk
  <2> QED
    BY <2>4, <2>6, <2>7 DEF ValueOk
<1> QED
  BY <1>1, <1>2 DEF ValueOk

(* So is a leaf in every file that has the chains of its values.              *)
LEMMA LeafFrame ==
    ASSUME NEW V, NEW W, NEW node, NEW lo, NEW hi, LeafBody(V, node, lo, hi),
           Agree(V, W, LeafPages(V, node))
    PROVE  LeafBody(W, node, lo, hi) /\ LeafPages(W, node) = LeafPages(V, node)
<1>1. ASSUME NEW i \in DOMAIN node.values
      PROVE  /\ ValueOk(W, node.values[i])
             /\ ValuePages(W, node.values[i]) = ValuePages(V, node.values[i])
  <2>1. PICK v : v = node.values[i]
    OBVIOUS
  <2>2. ValueOk(V, v)
    BY <2>1 DEF LeafBody
  <2>3. ValuePages(V, v) \subseteq LeafPages(V, node)
    BY <2>1 DEF LeafPages
  <2>4. Agree(V, W, ValuePages(V, v))
    BY <2>3 DEF Agree
  <2> QED
    BY <2>1, <2>2, <2>4, ValueFrame
<1>3. LeafBody(W, node, lo, hi)
  BY <1>1, Zenon DEF LeafBody
<1>4. LeafPages(W, node) = LeafPages(V, node)
  BY <1>1 DEF LeafPages
<1> QED
  BY <1>3, <1>4

(* Trees that agree on the pages of a tree agree on the tree.                 *)
TreeKept(V, W, n, id, lo, hi) ==
    Tree(W, n, id, lo, hi) /\ Pages(W, n, id) = Pages(V, n, id)
BodyKept(V, W, n, node, lo, hi) ==
    Body(W, n, node, lo, hi) /\ BodyPages(W, n, node) = BodyPages(V, n, node)

(* A node is read the same when the trees below it are.                       *)
LEMMA BodyFrameStep ==
    ASSUME NEW V, NEW W, NEW n \in Nat, NEW node, NEW lo, NEW hi,
           Body(V, n, node, lo, hi), Agree(V, W, BodyPages(V, n, node)),
           n # 0 => \A id, a, b :
               Tree(V, n - 1, id, a, b) /\ Agree(V, W, Pages(V, n - 1, id))
                   => TreeKept(V, W, n - 1, id, a, b)
    PROVE  BodyKept(V, W, n, node, lo, hi)
<1>1. CASE n = 0
  BY <1>1, LeafFrame DEF Body, BodyPages, BodyKept
<1>2. CASE n # 0
  <2>1. PICK k \in Nat : n = k + 1 /\ n - 1 = k
    <3>1. n - 1 \in Nat /\ n = (n - 1) + 1
      BY <1>2
    <3> QED
      BY <3>1
  <2>2. InnerShape(node, lo, hi) /\ Kids(V, k, node.keys, node.children, lo, hi)
    BY <2>1, InnerDef
  <2>3. PICK ks, cs, e : ks = node.keys /\ cs = node.children /\ e = Len(cs)
    OBVIOUS
  <2>4. /\ BodyPages(V, n, node) = KidPages(V, k, cs)
        /\ BodyPages(W, n, node) = KidPages(W, k, cs)
    <3>1. cs \in Seq(Nat \ {None})
      BY <2>2, <2>3 DEF InnerShape
    <3> QED
      BY <2>1, <2>3, <3>1, InnerSets
  <2>5. ASSUME NEW i \in 1 .. e
        PROVE  TreeKept(V, W, k, cs[i], Bound(ks, lo, hi, i - 1), Bound(ks, lo, hi, i))
    <3>1. Tree(V, k, cs[i], Bound(ks, lo, hi, i - 1), Bound(ks, lo, hi, i))
      BY <2>2, <2>3 DEF Kids
    <3>2. Pages(V, k, cs[i]) \subseteq BodyPages(V, n, node)
      BY <2>3, <2>4 DEF KidPages
    <3>3. Agree(V, W, Pages(V, k, cs[i]))
      BY <3>2 DEF Agree
    <3> QED
      BY <1>2, <2>1, <3>1, <3>3
  <2>6. Kids(W, k, ks, cs, lo, hi)
    BY <2>2, <2>3, <2>5 DEF Kids, TreeKept
  <2>7. Body(W, n, node, lo, hi)
    BY <2>1, <2>2, <2>3, <2>6, InnerDef
  <2>8. \A i \in 1 .. e : Pages(W, k, cs[i]) = Pages(V, k, cs[i])
    BY <2>5 DEF TreeKept
  <2>9. BodyPages(W, n, node) = BodyPages(V, n, node)
    BY <2>3, <2>4, <2>8 DEF KidPages
  <2> QED
    BY <2>7, <2>9 DEF BodyKept
<1> QED
  BY <1>1, <1>2

(* By induction on the levels.                                                *)
LEMMA TreeFrameAll ==
    ASSUME NEW V, NEW W
    PROVE  \A n \in Nat : \A id, a, b :
               Tree(V, n, id, a, b) /\ Agree(V, W, Pages(V, n, id))
                   => TreeKept(V, W, n, id, a, b)
<1> DEFINE T == {n \in Nat : \A id, a, b :
               Tree(V, n, id, a, b) /\ Agree(V, W, Pages(V, n, id))
                   => TreeKept(V, W, n, id, a, b)}
<1>1. ASSUME NEW n \in Nat, n # 0 => n - 1 \in T PROVE n \in T
  <2> SUFFICES ASSUME NEW id, NEW a, NEW b, Tree(V, n, id, a, b),
                      Agree(V, W, Pages(V, n, id))
               PROVE  TreeKept(V, W, n, id, a, b)
    OBVIOUS
  <2>1. /\ id \in Nat \ {None} /\ a \in Int /\ b \in Int /\ id \in DOMAIN V
        /\ Body(V, n, V[id], a, b) /\ id \notin BodyPages(V, n, V[id])
    BY TreeDef
  <2>2. PICK node : node = V[id]
    OBVIOUS
  <2>3. Pages(V, n, id) = {id} \cup BodyPages(V, n, node)
    BY <2>1, <2>2, PagesDef
  <2>4. Agree(V, W, BodyPages(V, n, node)) /\ id \in DOMAIN W /\ W[id] = node
    BY <2>1, <2>2, <2>3 DEF Agree
  <2>5. BodyKept(V, W, n, node, a, b)
    BY <1>1, <2>1, <2>2, <2>4, BodyFrameStep
  <2>6. Tree(W, n, id, a, b)
    BY <2>1, <2>2, <2>4, <2>5, TreeDef DEF BodyKept
  <2>7. Pages(W, n, id) = {id} \cup BodyPages(W, n, node)
    BY <2>1, <2>4, PagesDef
  <2> QED
    BY <2>3, <2>5, <2>6, <2>7 DEF TreeKept, BodyKept
<1>2. 0 \in T
  <2>1. 0 \in Nat /\ (0 # 0 => 0 - 1 \in T)
    OBVIOUS
  <2> HIDE DEF T
  <2> QED
    BY <1>1, <2>1
<1>3. ASSUME NEW n \in Nat, n \in T PROVE n + 1 \in T
  <2>1. n + 1 \in Nat /\ (n + 1) - 1 = n
    OBVIOUS
  <2>2. PICK k : k = n + 1
    OBVIOUS
  <2>3. k \in Nat /\ k - 1 \in T
    BY <1>3, <2>1, <2>2
  <2> HIDE DEF T
  <2> QED
    BY <1>1, <2>2, <2>3
<1> HIDE DEF T
<1>4. Nat \subseteq T
  BY <1>2, <1>3, Ids!SetInduction
<1> QED
  BY <1>4 DEF T

(* A tree is read the same in every file that has its pages.                  *)
LEMMA TreeFrame ==
    ASSUME NEW V, NEW W, NEW n \in Nat, NEW id, NEW lo, NEW hi,
           Tree(V, n, id, lo, hi), Agree(V, W, Pages(V, n, id))
    PROVE  TreeKept(V, W, n, id, lo, hi)
BY TreeFrameAll

(* So is what is below a node.                                                *)
LEMMA BodyFrame ==
    ASSUME NEW V, NEW W, NEW n \in Nat, NEW node, NEW lo, NEW hi,
           Body(V, n, node, lo, hi), Agree(V, W, BodyPages(V, n, node))
    PROVE  BodyKept(V, W, n, node, lo, hi)
<1>1. n # 0 => n - 1 \in Nat
  OBVIOUS
<1> QED
  BY <1>1, TreeFrameAll, BodyFrameStep

-------------------------------------------------------------------------------
(* Searching a node.                                                          *)

(* A set of positions that is closed downwards is an interval.                *)
LEMMA PrefixSet ==
    ASSUME NEW m \in Nat, NEW A \in SUBSET (1 .. m),
           \A i \in A : \A j \in 1 .. m : j < i => j \in A
    PROVE  /\ Cardinality(A) \in 0 .. m
           /\ A = 1 .. Cardinality(A)
<1> DEFINE T == {i \in Nat : i \in 1 .. m + 1 /\ i \notin A}
<1>1. T \in SUBSET Nat /\ m + 1 \in T
  OBVIOUS
<1>2. PICK k \in T : \A y \in T : k <= y
  BY <1>1, Ids!LeastNumber
<1>3. k \in 1 .. m + 1 /\ k \notin A
  BY <1>2
<1>4. A = 1 .. k - 1
  <2>1. ASSUME NEW i \in A PROVE i \in 1 .. k - 1
    <3>1. i \in 1 .. m /\ i # k
      BY <1>3
    <3>2. ~(k < i)
      BY <1>3, <3>1
    <3> QED
      BY <1>3, <3>1, <3>2
  <2>2. ASSUME NEW i \in 1 .. k - 1 PROVE i \in A
    <3>1. i \in 1 .. m + 1 /\ i < k
      BY <1>3
    <3>2. i \notin T
      BY <1>2, <1>3, <3>1
    <3> QED
      BY <3>1, <3>2
  <2> QED
    BY <2>1, <2>2
<1>5. Cardinality(1 .. k - 1) = k - 1
  <2>1. PICK b : b = k - 1
    OBVIOUS
  <2>2. b \in Int /\ 1 \in Int /\ b >= 0
    BY <1>3, <2>1
  <2>3. Cardinality(1 .. b) = IF 1 > b THEN 0 ELSE b - 1 + 1
    BY <2>2, FS_Interval
  <2> QED
    BY <2>1, <2>2, <2>3
<1> QED
  BY <1>3, <1>4, <1>5

Ascending(keys) == \A i, j \in 1 .. Len(keys) : i < j => keys[i] < keys[j]

(* binary_search splits the keys into those below the key and the others, and *)
(* finds the key if it is there.                                              *)
LEMMA SearchFacts ==
    ASSUME NEW ks \in Seq(Int), Ascending(ks), NEW key \in Int
    PROVE  /\ SearchIndex(ks, key) \in 1 .. Len(ks) + 1
           /\ \A i \in 1 .. Len(ks) : i < SearchIndex(ks, key) <=> ks[i] < key
           /\ Found(ks, key) => SearchIndex(ks, key) \in 1 .. Len(ks) /\ ks[SearchIndex(ks, key)] = key
           /\ ~Found(ks, key) => \A i \in 1 .. Len(ks) : ks[i] # key
<1>0. PICK idx : idx = SearchIndex(ks, key)
  OBVIOUS
<1>1. PICK m : m = Len(ks)
  OBVIOUS
<1>2. m \in Nat /\ DOMAIN ks = 1 .. m
  BY <1>1, LenProperties
<1>3. \A i \in 1 .. m : ks[i] \in Int
  BY <1>1, <1>2, ElementOfSeq
<1>4. PICK A : A = {i \in DOMAIN ks : ks[i] < key}
  OBVIOUS
<1>5. A \in SUBSET (1 .. m)
  BY <1>2, <1>4
<1>6. ASSUME NEW i \in A, NEW j \in 1 .. m, j < i PROVE j \in A
  <2>1. i \in 1 .. m /\ ks[i] < key
    BY <1>2, <1>4
  <2>2. ks[j] < ks[i]
    BY <1>1, <1>6, <2>1 DEF Ascending
  <2> QED
    BY <1>2, <1>3, <1>4, <2>1, <2>2
<1>7. PICK c : c = Cardinality(A)
  OBVIOUS
<1>8. c \in 0 .. m /\ A = 1 .. c
  BY <1>2, <1>5, <1>6, <1>7, PrefixSet
<1>9. idx = c + 1
  BY <1>0, <1>4, <1>7 DEF SearchIndex
<1>10. ASSUME NEW i \in 1 .. m PROVE i < idx <=> ks[i] < key
  <2>1. i < idx <=> i \in A
    BY <1>8, <1>9
  <2> QED
    BY <1>2, <1>4, <2>1
<1>11. ASSUME Found(ks, key) PROVE idx \in 1 .. m /\ ks[idx] = key
  <2>1. PICK i \in 1 .. m : ks[i] = key
    BY <1>2, <1>11 DEF Found
  <2>2. ~(i < idx)
    BY <1>10, <2>1
  <2>3. idx \in 1 .. m
    BY <1>2, <1>8, <1>9, <2>2
  <2>4. CASE idx < i
    <3>1. ks[idx] < ks[i]
      BY <1>1, <2>3, <2>4 DEF Ascending
    <3>2. idx < idx
      BY <1>10, <2>1, <2>3, <3>1
    <3> QED
      BY <1>8, <1>9, <3>2
  <2>5. CASE ~(idx < i)
    <3>1. idx = i
      BY <1>8, <1>9, <2>2, <2>5
    <3> QED
      BY <2>1, <3>1
  <2> QED
    BY <2>3, <2>4, <2>5
<1>12. ~Found(ks, key) => \A i \in 1 .. m : ks[i] # key
  BY <1>2 DEF Found
<1>13. idx \in 1 .. m + 1
  BY <1>2, <1>8, <1>9
<1> QED
  BY <1>0, <1>1, <1>10, <1>11, <1>12, <1>13

(* partition_point: the keys before the position are the ones up to the key.  *)
LEMMA ChildIndexFacts ==
    ASSUME NEW ks \in Seq(Int), Ascending(ks), NEW key \in Int
    PROVE  /\ child_index(ks, key) \in 1 .. Len(ks) + 1
           /\ \A i \in 1 .. Len(ks) : i < child_index(ks, key) <=> ks[i] <= key
<1>0. PICK idx : idx = child_index(ks, key)
  OBVIOUS
<1>1. PICK m : m = Len(ks)
  OBVIOUS
<1>2. m \in Nat /\ DOMAIN ks = 1 .. m
  BY <1>1, LenProperties
<1>3. \A i \in 1 .. m : ks[i] \in Int
  BY <1>1, <1>2, ElementOfSeq
<1>4. PICK A : A = {i \in DOMAIN ks : ks[i] <= key}
  OBVIOUS
<1>5. A \in SUBSET (1 .. m)
  BY <1>2, <1>4
<1>6. ASSUME NEW i \in A, NEW j \in 1 .. m, j < i PROVE j \in A
  <2>1. i \in 1 .. m /\ ks[i] <= key
    BY <1>2, <1>4
  <2>2. ks[j] < ks[i]
    BY <1>1, <1>6, <2>1 DEF Ascending
  <2> QED
    BY <1>2, <1>3, <1>4, <2>1, <2>2
<1>7. PICK c : c = Cardinality(A)
  OBVIOUS
<1>8. c \in 0 .. m /\ A = 1 .. c
  BY <1>2, <1>5, <1>6, <1>7, PrefixSet
<1>9. idx = c + 1
  BY <1>0, <1>4, <1>7 DEF child_index
<1>10. ASSUME NEW i \in 1 .. m PROVE i < idx <=> ks[i] <= key
  <2>1. i < idx <=> i \in A
    BY <1>8, <1>9
  <2> QED
    BY <1>2, <1>4, <2>1
<1>13. idx \in 1 .. m + 1
  BY <1>2, <1>8, <1>9
<1> QED
  BY <1>0, <1>1, <1>10, <1>13

-------------------------------------------------------------------------------
(* A node that is made from another one: positions Y of the new node are new, *)
(* positions X of the old one are gone, and o maps the rest of the new ones   *)
(* to the rest of the old ones.                                               *)

Among(V, n, cs, I) == UNION {Pages(V, n, cs[i]) : i \in I}
Onto(o, J, I) ==
    /\ \A j \in J : o[j] \in I
    /\ \A i, j \in J : o[i] = o[j] => i = j
    /\ \A i \in I : \E j \in J : o[j] = i

KidsMade(V, W, n, ks, cs, lo, hi, I, qs, ds, l, h, Y, J, o) ==
    /\ I \subseteq 1 .. Len(cs) /\ Y \subseteq 1 .. Len(ds) /\ J = 1 .. Len(ds) \ Y
    /\ Onto(o, J, I)
    /\ \A j \in J : /\ ds[j] = cs[o[j]]
                    /\ Bound(qs, l, h, j - 1) = Bound(ks, lo, hi, o[j] - 1)
                    /\ Bound(qs, l, h, j) = Bound(ks, lo, hi, o[j])
    /\ Agree(V, W, Among(V, n, cs, I))
    /\ \A j \in Y : /\ Tree(W, n, ds[j], Bound(qs, l, h, j - 1), Bound(qs, l, h, j))
                    /\ Pages(W, n, ds[j]) \cap Among(V, n, cs, I) = {}
    /\ \A i, j \in Y : i # j => Pages(W, n, ds[i]) \cap Pages(W, n, ds[j]) = {}

(* The new node's children are trees with pages of their own, and its pages   *)
(* are the kept ones and the new ones.                                        *)
LEMMA KidsFrom ==
    ASSUME NEW V, NEW W, NEW n \in Nat, NEW ks, NEW cs, NEW lo, NEW hi,
           Kids(V, n, ks, cs, lo, hi), NEW I, NEW qs, NEW ds, NEW l, NEW h, NEW Y, NEW J,
           NEW o, KidsMade(V, W, n, ks, cs, lo, hi, I, qs, ds, l, h, Y, J, o)
    PROVE  /\ Kids(W, n, qs, ds, l, h)
           /\ IsUnion(KidPages(W, n, ds), Among(V, n, cs, I), Among(W, n, ds, Y))
<1>0. /\ I \subseteq 1 .. Len(cs) /\ Y \subseteq 1 .. Len(ds) /\ J = 1 .. Len(ds) \ Y
      /\ Onto(o, J, I)
      /\ \A j \in J : /\ ds[j] = cs[o[j]]
                      /\ Bound(qs, l, h, j - 1) = Bound(ks, lo, hi, o[j] - 1)
                      /\ Bound(qs, l, h, j) = Bound(ks, lo, hi, o[j])
      /\ Agree(V, W, Among(V, n, cs, I))
      /\ \A j \in Y : /\ Tree(W, n, ds[j], Bound(qs, l, h, j - 1), Bound(qs, l, h, j))
                      /\ Pages(W, n, ds[j]) \cap Among(V, n, cs, I) = {}
      /\ \A i, j \in Y : i # j => Pages(W, n, ds[i]) \cap Pages(W, n, ds[j]) = {}
  BY DEF KidsMade
<1> USE <1>0
<1>1. ASSUME NEW j \in J
      PROVE  /\ TreeKept(V, W, n, ds[j], Bound(qs, l, h, j - 1), Bound(qs, l, h, j))
             /\ o[j] \in I
  <2>1. o[j] \in I
    BY DEF Onto
  <2>2. PICK id, a, b : /\ id = cs[o[j]] /\ a = Bound(ks, lo, hi, o[j] - 1)
                        /\ b = Bound(ks, lo, hi, o[j])
    OBVIOUS
  <2>3. Tree(V, n, id, a, b)
    BY <2>1, <2>2 DEF Kids
  <2>4. Pages(V, n, id) \subseteq Among(V, n, cs, I)
    BY <2>1, <2>2 DEF Among
  <2>5. Agree(V, W, Pages(V, n, id))
    BY <2>4 DEF Agree
  <2>6. TreeKept(V, W, n, id, a, b)
    BY <2>3, <2>5, TreeFrame
  <2>7. /\ id = ds[j] /\ a = Bound(qs, l, h, j - 1) /\ b = Bound(qs, l, h, j)
    BY <2>2
  <2> QED
    BY <2>1, <2>6, <2>7
<1>2. ASSUME NEW j \in J
      PROVE  /\ Pages(W, n, ds[j]) = Pages(V, n, cs[o[j]])
             /\ Pages(W, n, ds[j]) \subseteq Among(V, n, cs, I)
  <2>1. ds[j] = cs[o[j]]
    OBVIOUS
  <2>2. Pages(V, n, cs[o[j]]) \subseteq Among(V, n, cs, I)
    BY <1>1 DEF Among
  <2> QED
    BY <1>1, <2>1, <2>2 DEF TreeKept
<1>3. ASSUME NEW i \in 1 .. Len(ds)
      PROVE  Tree(W, n, ds[i], Bound(qs, l, h, i - 1), Bound(qs, l, h, i))
  BY <1>1 DEF TreeKept
<1>4. ASSUME NEW i \in 1 .. Len(ds), NEW j \in 1 .. Len(ds), i # j
      PROVE  Pages(W, n, ds[i]) \cap Pages(W, n, ds[j]) = {}
  <2>1. CASE i \in Y /\ j \in Y
    BY <1>4, <2>1
  <2>2. CASE i \in Y /\ j \notin Y
    BY <1>2, <2>2
  <2>3. CASE i \notin Y /\ j \in Y
    BY <1>2, <2>3
  <2>4. CASE i \in J /\ j \in J
    <3>1. PICK x, y : x = o[i] /\ y = o[j]
      OBVIOUS
    <3>2. x # y /\ x \in I /\ y \in I
      BY <1>4, <2>4, <3>1 DEF Onto
    <3>3. Pages(V, n, cs[x]) \cap Pages(V, n, cs[y]) = {}
      BY <3>2 DEF Kids
    <3> QED
      BY <1>2, <2>4, <3>1, <3>3
  <2> QED
    BY <2>1, <2>2, <2>3, <2>4
<1>5. Kids(W, n, qs, ds, l, h)
  BY <1>3, <1>4 DEF Kids
<1>6. 1 .. Len(ds) = J \cup Y
  OBVIOUS
<1>7. KidPages(W, n, ds) = Among(W, n, ds, J) \cup Among(W, n, ds, Y)
  BY <1>6 DEF KidPages, Among
<1>9. \A i \in I : \E j \in J : o[j] = i
  BY DEF Onto
<1>10. Among(W, n, ds, J) = Among(V, n, cs, I)
  <2>1. ASSUME NEW i \in I PROVE Pages(V, n, cs[i]) \subseteq Among(W, n, ds, J)
    BY <1>2, <1>9 DEF Among
  <2>2. ASSUME NEW j \in J PROVE Pages(W, n, ds[j]) \subseteq Among(V, n, cs, I)
    BY <1>2
  <2>3. PICK A, B : A = Among(V, n, cs, I) /\ B = Among(W, n, ds, J)
    OBVIOUS
  <2>4. /\ \A i \in I : Pages(V, n, cs[i]) \subseteq B
        /\ \A j \in J : Pages(W, n, ds[j]) \subseteq A
    BY <2>1, <2>2, <2>3
  <2>5. Among(V, n, cs, I) \subseteq B /\ Among(W, n, ds, J) \subseteq A
    BY <2>4 DEF Among
  <2> QED
    BY <2>3, <2>5
<1> QED
  BY <1>5, <1>7, <1>10 DEF IsUnion

(* The same for the values of a leaf.                                         *)
ValuesApart(V, vs) ==
    /\ \A i \in 1 .. Len(vs) : ValueOk(V, vs[i])
    /\ \A i, j \in 1 .. Len(vs) :
           i # j => ValuePages(V, vs[i]) \cap ValuePages(V, vs[j]) = {}
ValuesAmong(V, vs, I) == UNION {ValuePages(V, vs[i]) : i \in I}
LeafShape(node, lo, hi) ==
    /\ node = Leaf(node.keys, node.values)
    /\ node.keys \in Seq(Int) /\ node.values \in Seq(ValueSet)
    /\ Len(node.values) = Len(node.keys)
    /\ KeysOrdered(node.keys, lo, hi)

(* A leaf is right when its shape is and its values have chains of their own. *)
LEMMA LeafDef ==
    ASSUME NEW V, NEW node, NEW lo, NEW hi
    PROVE  Body(V, 0, node, lo, hi)
               <=> LeafShape(node, lo, hi) /\ ValuesApart(V, node.values)
<1>1. ASSUME node.values \in Seq(ValueSet)
      PROVE  DOMAIN node.values = 1 .. Len(node.values)
  BY <1>1, LenProperties
<1>2. ASSUME LeafBody(V, node, lo, hi)
      PROVE  LeafShape(node, lo, hi) /\ ValuesApart(V, node.values)
  <2>1. DOMAIN node.values = 1 .. Len(node.values)
    BY <1>1, <1>2 DEF LeafBody
  <2> QED
    BY <1>2, <2>1, Zenon DEF LeafBody, LeafShape, ValuesApart
<1>3. ASSUME LeafShape(node, lo, hi), ValuesApart(V, node.values)
      PROVE  LeafBody(V, node, lo, hi)
  <2>1. DOMAIN node.values = 1 .. Len(node.values)
    BY <1>1, <1>3 DEF LeafShape
  <2> QED
    BY <1>3, <2>1, Zenon DEF LeafBody, LeafShape, ValuesApart
<1> QED
  BY <1>2, <1>3 DEF Body

(* What is below a leaf are the pages of its values.                          *)
LEMMA LeafSets ==
    ASSUME NEW V, NEW node, node.keys \in Seq(Int), node.values \in Seq(ValueSet),
           Len(node.values) = Len(node.keys), NEW vs, vs = node.values
    PROVE  BodyPages(V, 0, node) = ValuesAmong(V, vs, 1 .. Len(vs))
<1>1. DOMAIN node.values = 1 .. Len(vs) /\ DOMAIN node.keys = 1 .. Len(vs)
  BY LenProperties
<1>2. BodyPages(V, 0, node) = LeafPages(V, node)
  BY DEF BodyPages
<1>3. LeafPages(V, node) = ValuesAmong(V, vs, 1 .. Len(vs))
  BY <1>1, Zenon DEF LeafPages, ValuesAmong
<1> QED
  BY <1>2, <1>3

LeafMade(V, W, vs, I, ds, Y, J, o) ==
    /\ I \subseteq 1 .. Len(vs) /\ Y \subseteq 1 .. Len(ds) /\ J = 1 .. Len(ds) \ Y
    /\ Onto(o, J, I)
    /\ \A j \in J : ds[j] = vs[o[j]]
    /\ Agree(V, W, ValuesAmong(V, vs, I))
    /\ \A j \in Y : /\ ValueOk(W, ds[j])
                    /\ ValuePages(W, ds[j]) \cap ValuesAmong(V, vs, I) = {}
    /\ \A i, j \in Y : i # j => ValuePages(W, ds[i]) \cap ValuePages(W, ds[j]) = {}

(* The new leaf's values have chains of their own, and its pages are the kept *)
(* ones and the new ones.                                                     *)
LEMMA ValuesFrom ==
    ASSUME NEW V, NEW W, NEW vs, ValuesApart(V, vs), NEW I, NEW ds,
           NEW Y, NEW J, NEW o, LeafMade(V, W, vs, I, ds, Y, J, o)
    PROVE  /\ ValuesApart(W, ds)
           /\ IsUnion(ValuesAmong(W, ds, 1 .. Len(ds)), ValuesAmong(V, vs, I),
                      ValuesAmong(W, ds, Y))
<1>0. /\ I \subseteq 1 .. Len(vs) /\ Y \subseteq 1 .. Len(ds) /\ J = 1 .. Len(ds) \ Y
      /\ Onto(o, J, I)
      /\ \A j \in J : ds[j] = vs[o[j]]
      /\ Agree(V, W, ValuesAmong(V, vs, I))
      /\ \A j \in Y : /\ ValueOk(W, ds[j])
                      /\ ValuePages(W, ds[j]) \cap ValuesAmong(V, vs, I) = {}
      /\ \A i, j \in Y : i # j => ValuePages(W, ds[i]) \cap ValuePages(W, ds[j]) = {}
  BY DEF LeafMade
<1> USE <1>0
<1>1. ASSUME NEW j \in J
      PROVE  /\ ValueOk(W, ds[j]) /\ o[j] \in I /\ ds[j] = vs[o[j]]
             /\ ValuePages(W, ds[j]) = ValuePages(V, vs[o[j]])
             /\ ValuePages(W, ds[j]) \subseteq ValuesAmong(V, vs, I)
  <2>1. o[j] \in I
    BY DEF Onto
  <2>2. PICK v : v = vs[o[j]]
    OBVIOUS
  <2>3. ValueOk(V, v)
    BY <2>1, <2>2 DEF ValuesApart
  <2>4. ValuePages(V, v) \subseteq ValuesAmong(V, vs, I)
    BY <2>1, <2>2 DEF ValuesAmong
  <2>5. Agree(V, W, ValuePages(V, v))
    BY <2>4 DEF Agree
  <2>6. ValueOk(W, v) /\ ValuePages(W, v) = ValuePages(V, v)
    BY <2>3, <2>5, ValueFrame
  <2>7. ds[j] = v
    BY <2>2
  <2> QED
    BY <2>1, <2>2, <2>4, <2>6, <2>7
<1>3. ASSUME NEW i \in 1 .. Len(ds) PROVE ValueOk(W, ds[i])
  BY <1>1
<1>4. ASSUME NEW i \in 1 .. Len(ds), NEW j \in 1 .. Len(ds), i # j
      PROVE  ValuePages(W, ds[i]) \cap ValuePages(W, ds[j]) = {}
  <2>1. CASE i \in Y /\ j \in Y
    BY <1>4, <2>1
  <2>2. CASE i \in Y /\ j \notin Y
    BY <1>1, <2>2
  <2>3. CASE i \notin Y /\ j \in Y
    BY <1>1, <2>3
  <2>4. CASE i \in J /\ j \in J
    <3>1. PICK x, y : x = o[i] /\ y = o[j]
      OBVIOUS
    <3>2. x # y /\ x \in I /\ y \in I
      BY <1>4, <2>4, <3>1 DEF Onto
    <3>3. ValuePages(V, vs[x]) \cap ValuePages(V, vs[y]) = {}
      BY <3>2 DEF ValuesApart
    <3> QED
      BY <1>1, <2>4, <3>1, <3>3
  <2> QED
    BY <2>1, <2>2, <2>3, <2>4
<1>5. ValuesApart(W, ds)
  BY <1>3, <1>4 DEF ValuesApart
<1>6. 1 .. Len(ds) = J \cup Y
  OBVIOUS
<1>7. ValuesAmong(W, ds, 1 .. Len(ds)) = ValuesAmong(W, ds, J) \cup ValuesAmong(W, ds, Y)
  BY <1>6 DEF ValuesAmong
<1>9. \A i \in I : \E j \in J : o[j] = i
  BY DEF Onto
<1>10. ValuesAmong(W, ds, J) = ValuesAmong(V, vs, I)
  <2>1. ASSUME NEW i \in I PROVE ValuePages(V, vs[i]) \subseteq ValuesAmong(W, ds, J)
    BY <1>1, <1>9 DEF ValuesAmong
  <2>2. ASSUME NEW j \in J PROVE ValuePages(W, ds[j]) \subseteq ValuesAmong(V, vs, I)
    BY <1>1
  <2>3. PICK A, B : A = ValuesAmong(V, vs, I) /\ B = ValuesAmong(W, ds, J)
    OBVIOUS
  <2>4. /\ \A i \in I : ValuePages(V, vs[i]) \subseteq B
        /\ \A j \in J : ValuePages(W, ds[j]) \subseteq A
    BY <2>1, <2>2, <2>3
  <2>5. ValuesAmong(V, vs, I) \subseteq B /\ ValuesAmong(W, ds, J) \subseteq A
    BY <2>4 DEF ValuesAmong
  <2> QED
    BY <2>3, <2>5
<1> QED
  BY <1>5, <1>7, <1>10 DEF IsUnion

-------------------------------------------------------------------------------
(* The changes of a leaf.                                                     *)

(* The keys ascend within the bounds, by position.                            *)
LEMMA KeysOrderedDef ==
    ASSUME NEW ks \in Seq(Int), NEW m \in Nat, Len(ks) = m, NEW lo, NEW hi
    PROVE  KeysOrdered(ks, lo, hi) <=>
               /\ \A i \in 1 .. m : lo <= ks[i] /\ ks[i] < hi
               /\ \A i, j \in 1 .. m : i < j => ks[i] < ks[j]
<1>1. DOMAIN ks = 1 .. m
  BY LenProperties
<1> QED
  BY <1>1, Zenon DEF KeysOrdered

(* A leaf in terms of its keys and values.                                    *)
LeafIs(V, ks, vs, lo, hi) ==
    /\ ks \in Seq(Int) /\ vs \in Seq(ValueSet) /\ Len(vs) = Len(ks)
    /\ KeysOrdered(ks, lo, hi) /\ ValuesApart(V, vs)
AllValues(V, vs) == ValuesAmong(V, vs, 1 .. Len(vs))

(* The parts of a leaf.                                                       *)
LEMMA LeafParts ==
    ASSUME NEW V, NEW node, NEW lo, NEW hi, Body(V, 0, node, lo, hi)
    PROVE  /\ node = Leaf(node.keys, node.values)
           /\ LeafIs(V, node.keys, node.values, lo, hi)
           /\ BodyPages(V, 0, node) = AllValues(V, node.values)
<1>1. LeafShape(node, lo, hi) /\ ValuesApart(V, node.values)
  BY LeafDef
<1>2. PICK vs : vs = node.values
  OBVIOUS
<1>3. BodyPages(V, 0, node) = ValuesAmong(V, vs, 1 .. Len(vs))
  BY <1>1, <1>2, LeafSets DEF LeafShape
<1> QED
  BY <1>1, <1>2, <1>3 DEF LeafShape, LeafIs, AllValues

(* A leaf from its parts.                                                     *)
LEMMA LeafBuilt ==
    ASSUME NEW W, NEW ks, NEW vs, NEW lo, NEW hi, LeafIs(W, ks, vs, lo, hi)
    PROVE  /\ Body(W, 0, Leaf(ks, vs), lo, hi)
           /\ BodyPages(W, 0, Leaf(ks, vs)) = AllValues(W, vs)
<1>0. PICK new : new = Leaf(ks, vs)
  OBVIOUS
<1>1. new.keys = ks /\ new.values = vs
  BY <1>0 DEF Leaf
<1>2. LeafShape(new, lo, hi)
  BY <1>0, <1>1 DEF LeafShape, LeafIs
<1>3. Body(W, 0, new, lo, hi)
  BY <1>1, <1>2, LeafDef DEF LeafIs
<1> QED
  BY <1>0, <1>1, <1>3, LeafParts

(* The other positions than idx.                                              *)
Others(s, idx) == 1 .. Len(s) \ {idx}

(* The pages of one value, and those of all the others.                       *)
LEMMA LeafOthers ==
    ASSUME NEW V, NEW vs, ValuesApart(V, vs), NEW idx \in 1 .. Len(vs)
    PROVE  /\ IsUnion(AllValues(V, vs), ValuesAmong(V, vs, Others(vs, idx)),
                      ValuePages(V, vs[idx]))
           /\ Disjoint(ValuesAmong(V, vs, Others(vs, idx)), ValuePages(V, vs[idx]))
<1>1. PICK m, I : m = Len(vs) /\ I = Others(vs, idx)
  OBVIOUS
<1>3. AllValues(V, vs) = ValuesAmong(V, vs, 1 .. m)
  BY <1>1 DEF AllValues
<1>4. 1 .. m = I \cup {idx} /\ idx \in 1 .. m /\ idx \notin I
  BY <1>1 DEF Others
<1>5. ValuesAmong(V, vs, 1 .. m) = ValuesAmong(V, vs, I) \cup ValuePages(V, vs[idx])
  BY <1>4 DEF ValuesAmong
<1>6. ValuesAmong(V, vs, I) \cap ValuePages(V, vs[idx]) = {}
  <2>1. \A i \in I : ValuePages(V, vs[i]) \cap ValuePages(V, vs[idx]) = {}
    BY <1>1, <1>4 DEF ValuesApart
  <2> QED
    BY <2>1 DEF ValuesAmong
<1> QED
  BY <1>1, <1>3, <1>5, <1>6 DEF IsUnion, Disjoint

(* A leaf made from another one, with its keys.                               *)
LEMMA LeafFrom ==
    ASSUME NEW V, NEW W, NEW ks, NEW vs, NEW lo, NEW hi, LeafIs(V, ks, vs, lo, hi),
           NEW qs \in Seq(Int), NEW ds \in Seq(ValueSet), NEW b, Len(qs) = b, Len(ds) = b,
           NEW l, NEW h, KeysOrdered(qs, l, h),
           NEW I, NEW Y, NEW J, NEW o, LeafMade(V, W, vs, I, ds, Y, J, o)
    PROVE  /\ LeafIs(W, qs, ds, l, h)
           /\ IsUnion(AllValues(W, ds), ValuesAmong(V, vs, I), ValuesAmong(W, ds, Y))
<1>1. ValuesApart(V, vs)
  BY DEF LeafIs
<1>2. /\ ValuesApart(W, ds)
      /\ IsUnion(ValuesAmong(W, ds, 1 .. Len(ds)), ValuesAmong(V, vs, I),
                 ValuesAmong(W, ds, Y))
  BY <1>1, ValuesFrom
<1>3. Len(ds) = Len(qs)
  OBVIOUS
<1> QED
  BY <1>2, <1>3 DEF LeafIs, AllValues

(* The value at idx is overwritten.                                           *)
LEMMA LeafReplace ==
    ASSUME NEW V, NEW W, NEW ks, NEW vs, NEW lo, NEW hi, LeafIs(V, ks, vs, lo, hi),
           NEW idx \in 1 .. Len(vs),
           Agree(V, W, ValuesAmong(V, vs, Others(vs, idx))),
           NEW v \in ValueSet, ValueOk(W, v),
           Disjoint(ValuePages(W, v), ValuesAmong(V, vs, Others(vs, idx))),
           NEW ds, ds = ReplaceAt(vs, idx, v)
    PROVE  /\ LeafIs(W, ks, ds, lo, hi)
           /\ IsUnion(AllValues(W, ds), ValuesAmong(V, vs, Others(vs, idx)),
                      ValuePages(W, v))
<1>0. PICK I, m : I = Others(vs, idx) /\ m = Len(vs)
  OBVIOUS
<1>2. /\ m \in Nat /\ Len(ks) = m /\ vs \in Seq(ValueSet) /\ ks \in Seq(Int)
      /\ KeysOrdered(ks, lo, hi) /\ idx \in 1 .. m
  BY <1>0, LenProperties DEF LeafIs
<1>4. ds \in Seq(ValueSet) /\ Replaced(ds, vs, idx, v, m)
  BY <1>0, <1>2, ReplacedAt
<1>5. PICK o, Y : o = [j \in 1 .. m |-> j] /\ Y = {idx}
  OBVIOUS
<1>6. ds[idx] = v /\ Len(ds) = m
  BY <1>4 DEF Replaced
<1>7. Onto(o, I, I)
  BY <1>0, <1>5 DEF Onto, Others
<1>8. \A j \in I : ds[j] = vs[o[j]]
  BY <1>0, <1>4, <1>5 DEF Others, Replaced
<1>10. I = 1 .. Len(ds) \ Y /\ Y \subseteq 1 .. Len(ds) /\ I \subseteq 1 .. Len(vs)
  BY <1>0, <1>2, <1>5, <1>6 DEF Others
<1>11. /\ \A j \in Y : /\ ValueOk(W, ds[j])
                       /\ ValuePages(W, ds[j]) \cap ValuesAmong(V, vs, I) = {}
       /\ \A i, j \in Y : i # j => ValuePages(W, ds[i]) \cap ValuePages(W, ds[j]) = {}
  BY <1>0, <1>5, <1>6 DEF Disjoint
<1>12. LeafMade(V, W, vs, I, ds, Y, I, o)
  BY <1>0, <1>7, <1>8, <1>10, <1>11 DEF LeafMade
<1>13. ValuesAmong(W, ds, Y) = ValuePages(W, v)
  BY <1>5, <1>6 DEF ValuesAmong
<1>14. /\ LeafIs(W, ks, ds, lo, hi)
       /\ IsUnion(AllValues(W, ds), ValuesAmong(V, vs, I), ValuesAmong(W, ds, Y))
  BY <1>2, <1>4, <1>6, <1>12, LeafFrom
<1> QED
  BY <1>0, <1>13, <1>14

(* An entry is inserted where binary_search says.                             *)
LEMMA KeysInsert ==
    ASSUME NEW ks \in Seq(Int), NEW m, m = Len(ks), NEW lo \in Int, NEW hi \in Int,
           KeysOrdered(ks, lo, hi), NEW key \in Int, lo <= key, key < hi,
           NEW idx \in 1 .. m + 1, \A i \in 1 .. m : i < idx => ks[i] < key,
           \A i \in 1 .. m : i >= idx => key < ks[i],
           NEW qs \in Seq(Int), Inserted(qs, ks, idx, key, m)
    PROVE  KeysOrdered(qs, lo, hi)
<1>1. m \in Nat
  BY LenProperties
<1>2. /\ \A i \in 1 .. m : lo <= ks[i] /\ ks[i] < hi
      /\ \A i, j \in 1 .. m : i < j => ks[i] < ks[j]
  BY <1>1, KeysOrderedDef
<1>3. /\ Len(qs) = m + 1 /\ qs[idx] = key
      /\ \A j \in 1 .. m : j < idx => qs[j] = ks[j]
      /\ \A j \in 1 .. m : j >= idx => qs[j + 1] = ks[j]
  BY DEF Inserted
<1>4. PICK b : b = m + 1
  OBVIOUS
<1>5. PICK o : o = [j \in 1 .. b |-> IF j < idx THEN j ELSE j - 1]
  OBVIOUS
<1>6. ASSUME NEW i \in 1 .. b, i # idx
      PROVE  /\ o[i] \in 1 .. m /\ qs[i] = ks[o[i]]
             /\ i < idx => o[i] = i
             /\ i > idx => o[i] = i - 1 /\ o[i] >= idx
  <2>1. CASE i < idx
    <3>1. o[i] = i /\ i \in 1 .. m
      BY <1>1, <1>4, <1>5, <2>1
    <3> QED
      BY <1>1, <1>3, <2>1, <3>1
  <2>2. CASE i > idx
    <3>1. o[i] = i - 1
      BY <1>1, <1>4, <1>5, <2>2
    <3>2. PICK j : j = i - 1
      OBVIOUS
    <3>3. j \in 1 .. m /\ j >= idx /\ j + 1 = i
      BY <1>1, <1>4, <2>2, <3>2
    <3>4. qs[i] = ks[j]
      BY <1>3, <3>3
    <3> QED
      BY <1>1, <2>2, <3>1, <3>2, <3>3, <3>4
  <2> QED
    BY <1>1, <1>4, <1>6, <2>1, <2>2
<1>7. \A i \in 1 .. m : ks[i] \in Int
  BY ElementOfSeq
<1>8. ASSUME NEW i \in 1 .. b PROVE lo <= qs[i] /\ qs[i] < hi
  BY <1>2, <1>3, <1>6
<1>9. ASSUME NEW i \in 1 .. b, NEW j \in 1 .. b, i < j PROVE qs[i] < qs[j]
  <2>0. i \in Int /\ j \in Int /\ idx \in Int
    BY <1>1, <1>4
  <2>1. CASE i = idx
    <3>1. j > idx /\ j # idx
      BY <1>9, <2>0, <2>1
    <3>2. o[j] \in 1 .. m /\ qs[j] = ks[o[j]] /\ o[j] >= idx
      BY <1>6, <3>1
    <3> QED
      BY <1>3, <2>1, <3>2
  <2>2. CASE j = idx
    <3>1. i < idx /\ i # idx
      BY <1>9, <2>0, <2>2
    <3>2. o[i] \in 1 .. m /\ qs[i] = ks[o[i]] /\ o[i] < idx
      BY <1>6, <3>1
    <3> QED
      BY <1>3, <2>2, <3>2
  <2>3. CASE i # idx /\ j # idx
    <3>1. o[i] \in 1 .. m /\ qs[i] = ks[o[i]] /\ o[j] \in 1 .. m /\ qs[j] = ks[o[j]]
      BY <1>6, <2>3
    <3>2. o[i] < o[j]
      <4>1. CASE j < idx
        <5>1. i < idx
          BY <1>9, <2>0, <4>1
        <5> QED
          BY <1>6, <1>9, <2>3, <4>1, <5>1
      <4>2. CASE j > idx /\ i < idx
        <5>1. o[i] = i /\ o[j] >= idx /\ o[j] \in 1 .. m
          BY <1>6, <2>3, <4>2
        <5> QED
          BY <1>1, <2>0, <4>2, <5>1
      <4>3. CASE j > idx /\ i > idx
        <5>1. o[i] = i - 1 /\ o[j] = j - 1
          BY <1>6, <2>3, <4>3
        <5> QED
          BY <1>9, <2>0, <5>1
      <4> QED
        BY <2>0, <2>3, <4>1, <4>2, <4>3
    <3> QED
      BY <1>2, <3>1, <3>2
  <2> QED
    BY <2>1, <2>2, <2>3
<1>10. Len(qs) = b /\ b \in Nat
  BY <1>1, <1>3, <1>4
<1> QED
  BY <1>8, <1>9, <1>10, KeysOrderedDef

(* insert_rec adds an entry to a leaf.                                        *)
LEMMA LeafInsert ==
    ASSUME NEW W, NEW ks, NEW vs, NEW lo \in Int, NEW hi \in Int,
           LeafIs(W, ks, vs, lo, hi), NEW key \in Int, lo <= key, key < hi,
           ~Found(ks, key), NEW idx, idx = SearchIndex(ks, key),
           NEW v \in ValueSet, ValueOk(W, v), Disjoint(ValuePages(W, v), AllValues(W, vs)),
           NEW qs, qs = InsertAt(ks, idx, key), NEW ds, ds = InsertAt(vs, idx, v)
    PROVE  /\ LeafIs(W, qs, ds, lo, hi)
           /\ IsUnion(AllValues(W, ds), AllValues(W, vs), ValuePages(W, v))
<1>1. PICK m : m = Len(vs)
  OBVIOUS
<1>2. /\ m \in Nat /\ m = Len(ks) /\ vs \in Seq(ValueSet) /\ ks \in Seq(Int)
      /\ KeysOrdered(ks, lo, hi)
  BY <1>1, LenProperties DEF LeafIs
<1>3. \A i, j \in 1 .. m : i < j => ks[i] < ks[j]
  BY <1>2, KeysOrderedDef
<1>4. \A i \in 1 .. m : ks[i] \in Int
  BY <1>2, ElementOfSeq
<1>5. /\ idx \in 1 .. m + 1
      /\ \A i \in 1 .. m : i < idx <=> ks[i] < key
      /\ \A i \in 1 .. m : ks[i] # key
  <2>1. Ascending(ks)
    BY <1>2, <1>3 DEF Ascending
  <2> QED
    BY <1>2, <2>1, SearchFacts
<1>6. \A i \in 1 .. m : i >= idx => key < ks[i]
  BY <1>4, <1>5
<1>7. qs \in Seq(Int) /\ Inserted(qs, ks, idx, key, m)
  BY <1>2, <1>5, InsertedAt
<1>8. ds \in Seq(ValueSet) /\ Inserted(ds, vs, idx, v, m)
  BY <1>1, <1>2, <1>5, InsertedAt
<1>9. KeysOrdered(qs, lo, hi)
  BY <1>2, <1>5, <1>6, <1>7, KeysInsert
<1>10. PICK b, Y, I, J : b = m + 1 /\ Y = {idx} /\ I = 1 .. m /\ J = 1 .. b \ Y
  OBVIOUS
<1>11. PICK o : o = [j \in 1 .. b |-> IF j < idx THEN j ELSE j - 1]
  OBVIOUS
<1>12. /\ Len(ds) = b /\ ds[idx] = v /\ Len(qs) = b
       /\ \A j \in 1 .. m : j < idx => ds[j] = vs[j]
       /\ \A j \in 1 .. m : j >= idx => ds[j + 1] = vs[j]
  BY <1>7, <1>8, <1>10 DEF Inserted
<1>13. ASSUME NEW j \in J
       PROVE  /\ o[j] \in I /\ ds[j] = vs[o[j]]
              /\ j < idx => o[j] = j
              /\ ~(j < idx) => o[j] = j - 1 /\ o[j] >= idx
  <2>1. j \in 1 .. b /\ j # idx
    BY <1>10
  <2>2. CASE j < idx
    <3>1. o[j] = j /\ j \in 1 .. m
      BY <1>2, <1>5, <1>10, <1>11, <2>1, <2>2
    <3> QED
      BY <1>10, <1>12, <2>2, <3>1
  <2>3. CASE j > idx
    <3>1. PICK i : i = j - 1
      OBVIOUS
    <3>2. o[j] = i /\ i \in 1 .. m /\ i >= idx /\ i + 1 = j
      BY <1>2, <1>5, <1>10, <1>11, <2>1, <2>3, <3>1
    <3>3. ds[j] = vs[i]
      BY <1>12, <3>2
    <3> QED
      BY <1>5, <1>10, <2>1, <2>3, <3>1, <3>2, <3>3
  <2> QED
    BY <1>5, <1>10, <2>1, <2>2, <2>3
<1>14. Onto(o, J, I)
  <2>1. ASSUME NEW i \in J, NEW j \in J, o[i] = o[j] PROVE i = j
    <3>1. i \in Int /\ j \in Int /\ idx \in Int
      BY <1>2, <1>5, <1>10
    <3>2. CASE i < idx /\ j < idx
      BY <1>13, <2>1, <3>2
    <3>3. CASE ~(i < idx) /\ ~(j < idx)
      <4>1. i - 1 = j - 1
        BY <1>13, <2>1, <3>3
      <4> QED
        BY <3>1, <4>1
    <3>4. CASE i < idx /\ ~(j < idx)
      <4>1. o[i] = i /\ o[j] >= idx
        BY <1>13, <3>4
      <4> QED
        BY <2>1, <3>1, <3>4, <4>1
    <3>5. CASE ~(i < idx) /\ j < idx
      <4>1. o[j] = j /\ o[i] >= idx
        BY <1>13, <3>5
      <4> QED
        BY <2>1, <3>1, <3>5, <4>1
    <3> QED
      BY <3>2, <3>3, <3>4, <3>5
  <2>3. ASSUME NEW i \in I PROVE \E j \in J : o[j] = i
    <3>1. CASE i < idx
      <4>1. i \in J
        BY <1>2, <1>5, <1>10, <3>1
      <4>2. o[i] = i
        BY <1>13, <3>1, <4>1
      <4> QED
        BY <4>1, <4>2
    <3>2. CASE ~(i < idx)
      <4>1. PICK j : j = i + 1
        OBVIOUS
      <4>2. j \in J /\ ~(j < idx) /\ j - 1 = i
        BY <1>2, <1>5, <1>10, <3>2, <4>1
      <4>3. o[j] = i
        BY <1>13, <4>2
      <4> QED
        BY <4>2, <4>3
    <3> QED
      BY <3>1, <3>2
  <2> QED
    BY <1>13, <2>1, <2>3 DEF Onto
<1>15. I \subseteq 1 .. Len(vs) /\ J = 1 .. Len(ds) \ Y /\ Y \subseteq 1 .. Len(ds)
  BY <1>1, <1>5, <1>10, <1>12
<1>16. AllValues(W, vs) = ValuesAmong(W, vs, I)
  BY <1>1, <1>10 DEF AllValues
<1>17. /\ \A j \in Y : /\ ValueOk(W, ds[j])
                       /\ ValuePages(W, ds[j]) \cap ValuesAmong(W, vs, I) = {}
       /\ \A i, j \in Y : i # j => ValuePages(W, ds[i]) \cap ValuePages(W, ds[j]) = {}
  BY <1>10, <1>12, <1>16 DEF Disjoint
<1>18. Agree(W, W, ValuesAmong(W, vs, I))
  BY DEF Agree
<1>19. \A j \in J : ds[j] = vs[o[j]]
  BY <1>13
<1>20. LeafMade(W, W, vs, I, ds, Y, J, o)
  BY <1>14, <1>15, <1>17, <1>18, <1>19 DEF LeafMade
<1>21. ValuesAmong(W, ds, Y) = ValuePages(W, v)
  BY <1>10, <1>12 DEF ValuesAmong
<1>22. /\ LeafIs(W, qs, ds, lo, hi)
       /\ IsUnion(AllValues(W, ds), ValuesAmong(W, vs, I), ValuesAmong(W, ds, Y))
  BY <1>7, <1>8, <1>9, <1>12, <1>20, LeafFrom
<1> QED
  BY <1>16, <1>21, <1>22

(* Positions 1 .. m without the x positions after p, and the map from the     *)
(* positions 1 .. b without the y positions after p to these.                 *)
Gap(p, x, m) == {i \in 1 .. m : i <= p \/ i > p + x}
Shift(p, x, y, b) == [j \in 1 .. b |-> IF j <= p THEN j ELSE (j - y) + x]

Shifted(o, J, p, x, y) ==
    \A j \in J : /\ j <= p => o[j] = j
                 /\ j > p => o[j] = (j - y) + x /\ o[j] > p

(* Shifting is one to one between what is kept in both sequences.             *)
LEMMA OntoGap ==
    ASSUME NEW p \in Nat, NEW x \in Nat, NEW y \in Nat, NEW m \in Nat, NEW b \in Nat,
           p + x <= m, b + x = m + y, NEW o, o = Shift(p, x, y, b)
    PROVE  Onto(o, Gap(p, y, b), Gap(p, x, m)) /\ Shifted(o, Gap(p, y, b), p, x, y)
<1>1. ASSUME NEW j \in Gap(p, y, b)
      PROVE  /\ j <= p => o[j] = j
             /\ j > p => o[j] = (j - y) + x /\ o[j] > p
             /\ o[j] \in Gap(p, x, m) /\ j \in Int
  <2>1. j \in 1 .. b /\ (j <= p \/ j > p + y) /\ j \in Int
    BY DEF Gap
  <2>2. CASE j <= p
    <3>1. o[j] = j /\ j \in 1 .. m
      BY <2>1, <2>2 DEF Shift
    <3> QED
      BY <2>1, <2>2, <3>1 DEF Gap
  <2>3. CASE j > p + y
    <3>1. o[j] = (j - y) + x
      BY <2>1, <2>3 DEF Shift
    <3>2. (j - y) + x \in 1 .. m /\ (j - y) + x > p + x /\ (j - y) + x > p /\ j > p
      BY <2>1, <2>3
    <3> QED
      BY <2>1, <3>1, <3>2 DEF Gap
  <2> QED
    BY <2>1, <2>2, <2>3
<1>2. ASSUME NEW i \in Gap(p, y, b), NEW j \in Gap(p, y, b), o[i] = o[j] PROVE i = j
  <2>1. i \in Int /\ j \in Int
    BY <1>1
  <2>2. CASE i <= p /\ j <= p
    BY <1>1, <1>2, <2>2
  <2>3. CASE i > p /\ j > p
    <3>1. (i - y) + x = (j - y) + x
      BY <1>1, <1>2, <2>3
    <3> QED
      BY <2>1, <3>1
  <2>4. CASE i <= p /\ j > p
    <3>1. o[i] = i /\ o[j] > p
      BY <1>1, <2>4
    <3> QED
      BY <1>2, <2>1, <2>4, <3>1
  <2>5. CASE i > p /\ j <= p
    <3>1. o[j] = j /\ o[i] > p
      BY <1>1, <2>5
    <3> QED
      BY <1>2, <2>1, <2>5, <3>1
  <2> QED
    BY <2>1, <2>2, <2>3, <2>4, <2>5
<1>3. ASSUME NEW i \in Gap(p, x, m) PROVE \E j \in Gap(p, y, b) : o[j] = i
  <2>1. i \in 1 .. m /\ (i <= p \/ i > p + x)
    BY DEF Gap
  <2>2. CASE i <= p
    <3>1. i \in Gap(p, y, b)
      BY <2>1, <2>2 DEF Gap
    <3> QED
      BY <1>1, <2>2, <3>1
  <2>3. CASE i > p + x
    <3>1. PICK j : j = (i - x) + y
      OBVIOUS
    <3>2. j \in 1 .. b /\ j > p + y /\ j > p /\ (j - y) + x = i
      BY <2>1, <2>3, <3>1
    <3>3. j \in Gap(p, y, b)
      BY <3>2 DEF Gap
    <3> QED
      BY <1>1, <3>2, <3>3
  <2> QED
    BY <2>1, <2>2, <2>3
<1>4. Onto(o, Gap(p, y, b), Gap(p, x, m))
  BY <1>1, <1>2, <1>3 DEF Onto
<1> QED
  BY <1>1, <1>4 DEF Shifted

(* ds is vs with the x elements after p taken out, or replaced by y others.   *)
Spliced(ds, vs, p, x, y, m) ==
    /\ Len(ds) = (m - x) + y
    /\ \A j \in 1 .. m : j <= p => ds[j] = vs[j]
    /\ \A j \in 1 .. m : j > p + x => ds[(j - x) + y] = vs[j]

Drawn(ds, vs, J, o) == \A j \in J : ds[j] = vs[o[j]]

(* What is kept is found by shifting.                                         *)
LEMMA SplicedShift ==
    ASSUME NEW vs, NEW ds, NEW m \in Nat, NEW p \in Nat, NEW x \in Nat, NEW y \in Nat,
           p + x <= m, Spliced(ds, vs, p, x, y, m), NEW b, b = (m - x) + y
    PROVE  Drawn(ds, vs, Gap(p, y, b), Shift(p, x, y, b))
<1> SUFFICES ASSUME NEW j \in Gap(p, y, b) PROVE ds[j] = vs[Shift(p, x, y, b)[j]]
  BY DEF Drawn
<1>1. b \in Nat /\ b + x = m + y
  OBVIOUS
<1>2. j \in 1 .. b /\ (j <= p \/ j > p + y)
  BY DEF Gap
<1>3. CASE j <= p
  <2>1. j \in 1 .. m /\ Shift(p, x, y, b)[j] = j
    BY <1>1, <1>2, <1>3 DEF Shift
  <2> QED
    BY <1>3, <2>1 DEF Spliced
<1>4. CASE j > p + y
  <2>1. PICK i : i = (j - y) + x
    OBVIOUS
  <2>2. Shift(p, x, y, b)[j] = i
    BY <1>1, <1>2, <1>4, <2>1 DEF Shift
  <2>3. i \in 1 .. m /\ i > p + x /\ (i - x) + y = j
    BY <1>1, <1>2, <1>4, <2>1
  <2> QED
    BY <2>2, <2>3 DEF Spliced
<1> QED
  BY <1>2, <1>3, <1>4

(* Some entries of a leaf, as keys and values of another.                     *)
LEMMA LeafSplice ==
    ASSUME NEW V, NEW W, NEW ks, NEW vs, NEW lo, NEW hi, LeafIs(V, ks, vs, lo, hi),
           NEW m \in Nat, m = Len(vs), NEW p \in Nat, NEW x \in Nat, p + x <= m,
           NEW z, z = 0,
           NEW qs \in Seq(Int), NEW ds \in Seq(ValueSet), NEW b, Len(qs) = b, Len(ds) = b,
           Spliced(ds, vs, p, x, z, m), NEW l, NEW h, KeysOrdered(qs, l, h),
           Agree(V, W, ValuesAmong(V, vs, Gap(p, x, m)))
    PROVE  /\ LeafIs(W, qs, ds, l, h)
           /\ SameSet(AllValues(W, ds), ValuesAmong(V, vs, Gap(p, x, m)))
<1>1. b = (m - x) + z /\ b \in Nat /\ z \in Nat /\ b + x = m + z
  BY DEF Spliced
<1>2. PICK o, I, J, Y : /\ o = Shift(p, x, z, b) /\ I = Gap(p, x, m) /\ J = Gap(p, z, b)
                        /\ Y = {}
  OBVIOUS
<1>3. Onto(o, J, I)
  BY <1>1, <1>2, OntoGap
<1>4. Drawn(ds, vs, J, o)
  BY <1>1, <1>2, SplicedShift
<1>5. J = 1 .. Len(ds) \ Y /\ Y \subseteq 1 .. Len(ds) /\ I \subseteq 1 .. Len(vs)
  BY <1>1, <1>2 DEF Gap
<1>6. /\ \A j \in Y : /\ ValueOk(W, ds[j])
                      /\ ValuePages(W, ds[j]) \cap ValuesAmong(V, vs, I) = {}
      /\ \A i, j \in Y : i # j => ValuePages(W, ds[i]) \cap ValuePages(W, ds[j]) = {}
  BY <1>2
<1>7. LeafMade(V, W, vs, I, ds, Y, J, o)
  BY <1>2, <1>3, <1>4, <1>5, <1>6 DEF LeafMade, Drawn
<1>8. /\ LeafIs(W, qs, ds, l, h)
      /\ IsUnion(AllValues(W, ds), ValuesAmong(V, vs, I), ValuesAmong(W, ds, Y))
  BY <1>7, LeafFrom
<1>9. ValuesAmong(W, ds, Y) = {}
  BY <1>2 DEF ValuesAmong
<1> QED
  BY <1>2, <1>8, <1>9 DEF IsUnion, SameSet

(* Keys drawn from ascending ones in their order ascend.                      *)
LEMMA KeysDrawn ==
    ASSUME NEW ks \in Seq(Int), NEW m \in Nat, Len(ks) = m, NEW lo, NEW hi,
           KeysOrdered(ks, lo, hi), NEW qs \in Seq(Int), NEW b \in Nat, Len(qs) = b,
           NEW o, \A j \in 1 .. b : o[j] \in 1 .. m, Drawn(qs, ks, 1 .. b, o),
           \A i, j \in 1 .. b : i < j => o[i] < o[j],
           NEW l, NEW h, \A j \in 1 .. b : l <= qs[j] /\ qs[j] < h
    PROVE  KeysOrdered(qs, l, h)
<1>1. \A i, j \in 1 .. m : i < j => ks[i] < ks[j]
  BY KeysOrderedDef
<1>2. \A j \in 1 .. b : qs[j] = ks[o[j]]
  BY DEF Drawn
<1>3. \A i, j \in 1 .. b : i < j => qs[i] < qs[j]
  BY <1>1, <1>2
<1> QED
  BY <1>3, KeysOrderedDef

(* The functions that take a part of a sequence, as splices.                  *)
LEMMA ShortSpliced ==
    ASSUME NEW s, NEW d, NEW m \in Nat, NEW i \in 1 .. m, Shortened(d, s, i, m),
           NEW p, p = i - 1, NEW x, x = 1, NEW z, z = 0
    PROVE  Spliced(d, s, p, x, z, m)
<1>1. Len(d) = (m - x) + z
  BY DEF Shortened
<1>2. ASSUME NEW j \in 1 .. m, j <= p PROVE d[j] = s[j]
  <2>1. j \in 1 .. m - 1 /\ j < i
    BY <1>2
  <2> QED
    BY <2>1 DEF Shortened
<1>3. ASSUME NEW j \in 1 .. m, j > p + x PROVE d[(j - x) + z] = s[j]
  <2>1. PICK k : k = (j - x) + z
    OBVIOUS
  <2>2. k \in 1 .. m - 1 /\ k >= i /\ k + 1 = j
    BY <1>3, <2>1
  <2> QED
    BY <2>1, <2>2 DEF Shortened
<1> QED
  BY <1>1, <1>2, <1>3 DEF Spliced

(* The first half is the whole without its end ...                            *)
LEMMA UntilSpliced ==
    ASSUME NEW S, NEW s \in Seq(S), NEW m, m = Len(s), NEW i \in 0 .. m,
           NEW d, d = Until(s, i), NEW x, x = m - i, NEW z, z = 0
    PROVE  d \in Seq(S) /\ Spliced(d, s, i, x, z, m)
<1>1. m \in Nat /\ i \in 0 .. Len(s)
  BY LenProperties
<1>2. d \in Seq(S) /\ Len(d) = i /\ \A j \in 1 .. i : d[j] = s[j]
  BY <1>1, UntilFacts
<1>3. Len(d) = (m - x) + z
  BY <1>1, <1>2
<1>4. \A j \in 1 .. m : /\ j <= i => d[j] = s[j]
                        /\ ~(j > i + x)
  BY <1>1, <1>2
<1> QED
  BY <1>2, <1>3, <1>4 DEF Spliced

(* ... and the second half the whole without its beginning.                   *)
LEMMA FromSpliced ==
    ASSUME NEW S, NEW s \in Seq(S), NEW m, m = Len(s), NEW x \in 0 .. m,
           NEW i, i = x + 1, NEW d, d = From(s, i), NEW z, z = 0
    PROVE  d \in Seq(S) /\ Spliced(d, s, z, x, z, m)
<1>1. m \in Nat /\ i \in 1 .. m + 1
  BY LenProperties
<1>2. /\ d \in Seq(S) /\ Len(d) = (m + 1) - i
      /\ \A j \in 1 .. (m + 1) - i : d[j] = s[(i + j) - 1]
  <2>1. d \in Seq(S) /\ TailOf(d, s, i, m)
    BY <1>1, FromFacts
  <2> QED
    BY <2>1 DEF TailOf
<1>3. Len(d) = (m - x) + z /\ Len(d) = m - x
  BY <1>1, <1>2
<1>4. ASSUME NEW j \in 1 .. m, j > z + x PROVE d[(j - x) + z] = s[j]
  <2>1. PICK k : k = (j - x) + z
    OBVIOUS
  <2>2. k \in 1 .. (m + 1) - i /\ (i + k) - 1 = j
    BY <1>1, <1>4, <2>1
  <2> QED
    BY <1>2, <2>1, <2>2
<1>5. \A j \in 1 .. m : ~(j <= z)
  OBVIOUS
<1> QED
  BY <1>2, <1>3, <1>4, <1>5 DEF Spliced

(* The keys of a splice that puts nothing in.                                 *)
LEMMA KeysSplice ==
    ASSUME NEW ks \in Seq(Int), NEW m \in Nat, Len(ks) = m, NEW lo, NEW hi,
           KeysOrdered(ks, lo, hi), NEW p \in Nat, NEW x \in Nat, p + x <= m,
           NEW z, z = 0, NEW qs \in Seq(Int), NEW b, Len(qs) = b,
           Spliced(qs, ks, p, x, z, m), NEW l, NEW h,
           \A j \in Gap(p, x, m) : l <= ks[j] /\ ks[j] < h
    PROVE  KeysOrdered(qs, l, h)
<1>1. b = (m - x) + z /\ b \in Nat /\ z \in Nat /\ b + x = m + z
  BY DEF Spliced
<1>2. PICK o, J : o = Shift(p, x, z, b) /\ J = Gap(p, z, b)
  OBVIOUS
<1>3. J = 1 .. b
  BY <1>1, <1>2 DEF Gap
<1>4. Drawn(qs, ks, J, o)
  BY <1>1, <1>2, SplicedShift
<1>5. Onto(o, J, Gap(p, x, m)) /\ Shifted(o, J, p, x, z)
  BY <1>1, <1>2, OntoGap
<1>6. \A j \in 1 .. b : o[j] \in Gap(p, x, m) /\ o[j] \in 1 .. m
  BY <1>3, <1>5 DEF Onto, Gap
<1>7. ASSUME NEW i \in 1 .. b, NEW j \in 1 .. b, i < j PROVE o[i] < o[j]
  <2>0. i \in J /\ j \in J
    BY <1>3
  <2>1. CASE j <= p
    <3>1. i <= p
      BY <1>1, <1>7, <2>1
    <3>2. o[i] = i /\ o[j] = j
      BY <1>5, <2>0, <2>1, <3>1 DEF Shifted
    <3> QED
      BY <1>7, <3>2
  <2>2. CASE i <= p /\ j > p
    <3>1. o[i] = i /\ o[j] > p
      BY <1>5, <2>0, <2>2 DEF Shifted
    <3>2. o[j] \in 1 .. m
      BY <1>6
    <3> QED
      BY <1>1, <2>2, <3>1, <3>2
  <2>3. CASE i > p
    <3>0. j > p
      BY <1>1, <1>7, <2>3
    <3>1. o[i] = (i - z) + x /\ o[j] = (j - z) + x
      BY <1>5, <2>0, <2>3, <3>0 DEF Shifted
    <3> QED
      BY <1>1, <1>7, <3>1
  <2> QED
    BY <1>1, <1>7, <2>1, <2>2, <2>3
<1>8. \A j \in 1 .. b : l <= qs[j] /\ qs[j] < h
  BY <1>3, <1>4, <1>6 DEF Drawn
<1> QED
  BY <1>1, <1>3, <1>4, <1>6, <1>7, <1>8, KeysDrawn

(* The entry at idx is removed.                                               *)
LEMMA LeafRemove ==
    ASSUME NEW V, NEW W, NEW ks, NEW vs, NEW lo, NEW hi, LeafIs(V, ks, vs, lo, hi),
           NEW idx \in 1 .. Len(vs),
           Agree(V, W, ValuesAmong(V, vs, Others(vs, idx))),
           NEW qs, qs = RemoveAt(ks, idx), NEW ds, ds = RemoveAt(vs, idx)
    PROVE  /\ LeafIs(W, qs, ds, lo, hi)
           /\ SameSet(AllValues(W, ds), ValuesAmong(V, vs, Others(vs, idx)))
<1>1. PICK m, p, x, z : m = Len(vs) /\ p = idx - 1 /\ x = 1 /\ z = 0
  OBVIOUS
<1>2. /\ m \in Nat /\ m = Len(ks) /\ vs \in Seq(ValueSet) /\ ks \in Seq(Int)
      /\ KeysOrdered(ks, lo, hi) /\ idx \in 1 .. m
  BY <1>1, LenProperties DEF LeafIs
<1>3. p \in Nat /\ x \in Nat /\ p + x <= m
  BY <1>1, <1>2
<1>4. qs \in Seq(Int) /\ Shortened(qs, ks, idx, m)
  BY <1>2, ShortenedAt
<1>5. ds \in Seq(ValueSet) /\ Shortened(ds, vs, idx, m)
  BY <1>1, <1>2, ShortenedAt
<1>6. Spliced(qs, ks, p, x, z, m)
  BY <1>1, <1>2, <1>4, ShortSpliced
<1>7. Spliced(ds, vs, p, x, z, m)
  BY <1>1, <1>2, <1>5, ShortSpliced
<1>8. PICK b : b = m - 1
  OBVIOUS
<1>9. Len(qs) = b /\ Len(ds) = b
  BY <1>4, <1>5, <1>8 DEF Shortened
<1>10. \A i \in 1 .. m : lo <= ks[i] /\ ks[i] < hi
  BY <1>2, KeysOrderedDef
<1>11. \A j \in Gap(p, x, m) : lo <= ks[j] /\ ks[j] < hi
  BY <1>10 DEF Gap
<1>12. KeysOrdered(qs, lo, hi)
  BY <1>1, <1>2, <1>3, <1>4, <1>6, <1>9, <1>11, KeysSplice
<1>13. Gap(p, x, m) = Others(vs, idx)
  BY <1>1, <1>2 DEF Gap, Others
<1>14. Agree(V, W, ValuesAmong(V, vs, Gap(p, x, m)))
  BY <1>13
<1>15. /\ LeafIs(W, qs, ds, lo, hi)
       /\ SameSet(AllValues(W, ds), ValuesAmong(V, vs, Gap(p, x, m)))
  BY <1>1, <1>2, <1>3, <1>4, <1>5, <1>7, <1>9, <1>12, <1>14, LeafSplice
<1> QED
  BY <1>13, <1>15

(* A leaf is cut in two.                                                      *)
LEMMA LeafHalves ==
    ASSUME NEW V, NEW ks, NEW vs, NEW lo \in Int, NEW hi \in Int,
           LeafIs(V, ks, vs, lo, hi), NEW m, m = Len(ks), NEW mid \in 1 .. m - 1,
           NEW i, i = mid + 1, NEW sep, sep = ks[i],
           NEW k1, k1 = Until(ks, mid), NEW v1, v1 = Until(vs, mid),
           NEW k2, k2 = From(ks, i), NEW v2, v2 = From(vs, i)
    PROVE  /\ LeafIs(V, k1, v1, lo, sep) /\ LeafIs(V, k2, v2, sep, hi)
           /\ sep \in Int /\ lo < sep /\ sep < hi
           /\ IsUnion(AllValues(V, vs), AllValues(V, v1), AllValues(V, v2))
           /\ Disjoint(AllValues(V, v1), AllValues(V, v2))
<1>1. PICK x, z : x = m - mid /\ z = 0
  OBVIOUS
<1>2. /\ m \in Nat /\ m = Len(vs) /\ vs \in Seq(ValueSet) /\ ks \in Seq(Int)
      /\ KeysOrdered(ks, lo, hi)
  BY LenProperties DEF LeafIs
<1>3. mid \in 0 .. m /\ i \in 1 .. m /\ x \in Nat /\ mid + x <= m /\ mid \in Nat /\ z \in Nat
  BY <1>1, <1>2
<1>4. /\ \A j \in 1 .. m : lo <= ks[j] /\ ks[j] < hi
      /\ \A a, b \in 1 .. m : a < b => ks[a] < ks[b]
  BY <1>2, KeysOrderedDef
<1>5. \A j \in 1 .. m : ks[j] \in Int
  BY <1>2, ElementOfSeq
<1>6. sep \in Int /\ lo < sep /\ sep < hi
  <2>1. 1 \in 1 .. m /\ 1 < i
    BY <1>2, <1>3
  <2>2. ks[1] < ks[i] /\ lo <= ks[1] /\ ks[1] \in Int /\ sep \in Int
    BY <1>3, <1>4, <1>5, <2>1
  <2> QED
    BY <1>3, <1>4, <2>2
<1>61. ks \in Seq(Int) /\ m = Len(ks) /\ vs \in Seq(ValueSet) /\ m = Len(vs)
  BY <1>2
<1>62. mid \in 0 .. m
  BY <1>3
<1>7. k1 \in Seq(Int) /\ Spliced(k1, ks, mid, x, z, m)
  BY <1>1, <1>61, <1>62, UntilSpliced
<1>8. v1 \in Seq(ValueSet) /\ Spliced(v1, vs, mid, x, z, m)
  BY <1>1, <1>61, <1>62, UntilSpliced
<1>9. k2 \in Seq(Int) /\ Spliced(k2, ks, z, mid, z, m)
  BY <1>1, <1>61, <1>62, FromSpliced
<1>10. v2 \in Seq(ValueSet) /\ Spliced(v2, vs, z, mid, z, m)
  BY <1>1, <1>61, <1>62, FromSpliced
<1>100. Len(k1) = mid /\ Len(v1) = mid /\ Len(k2) = m - mid /\ Len(v2) = m - mid
  <2>1. /\ Len(k1) = (m - x) + z /\ Len(v1) = (m - x) + z
        /\ Len(k2) = (m - mid) + z /\ Len(v2) = (m - mid) + z
    BY <1>7, <1>8, <1>9, <1>10, Zenon DEF Spliced
  <2>2. PICK a, b : a = (m - x) + z /\ b = (m - mid) + z
    OBVIOUS
  <2>3. m \in Nat /\ mid \in 1 .. m - 1 /\ x = m - mid /\ z = 0
    BY <1>1, <1>2
  <2>4. a = mid /\ b = m - mid
    BY <2>2, <2>3
  <2> QED
    BY <2>1, <2>2, <2>4
<1>11. PICK A, B : A = Gap(mid, x, m) /\ B = Gap(z, mid, m)
  OBVIOUS
<1>12. A = 1 .. mid /\ B = i .. m
  <2>1. m \in Nat /\ mid \in 1 .. m - 1
    BY <1>2
  <2>2. A = 1 .. mid
    BY <1>1, <1>11, <2>1 DEF Gap
  <2>3. B = i .. m
    BY <1>1, <1>11, <2>1 DEF Gap
  <2> QED
    BY <2>2, <2>3
<1>13. KeysOrdered(k1, lo, sep)
  <2>1. ASSUME NEW j \in Gap(mid, x, m) PROVE lo <= ks[j] /\ ks[j] < sep
    <3>1. j \in 1 .. m /\ j < i
      BY <1>2, <1>3, <1>11, <1>12
    <3> QED
      BY <1>3, <1>4, <3>1
  <2> QED
    BY <1>1, <1>2, <1>3, <1>7, <1>100, <2>1, KeysSplice
<1>14. KeysOrdered(k2, sep, hi)
  <2>1. ASSUME NEW j \in Gap(z, mid, m) PROVE sep <= ks[j] /\ ks[j] < hi
    <3>1. j \in 1 .. m /\ (j = i \/ i < j)
      BY <1>2, <1>3, <1>11, <1>12
    <3>2. ks[j] \in Int
      BY <1>5, <3>1
    <3> QED
      BY <1>3, <1>4, <1>6, <3>1, <3>2
  <2>2. z + mid <= m
    BY <1>1, <1>2, <1>3
  <2>3. PICK b : b = m - mid
    OBVIOUS
  <2> QED
    BY <1>1, <1>2, <1>3, <1>9, <1>100, <2>1, <2>2, <2>3, KeysSplice
<1>15. Agree(V, V, ValuesAmong(V, vs, A)) /\ Agree(V, V, ValuesAmong(V, vs, B))
  BY DEF Agree
<1>16. LeafIs(V, k1, v1, lo, sep) /\ SameSet(AllValues(V, v1), ValuesAmong(V, vs, A))
  BY <1>1, <1>2, <1>3, <1>7, <1>8, <1>11, <1>13, <1>15, <1>100, LeafSplice
<1>17. LeafIs(V, k2, v2, sep, hi) /\ SameSet(AllValues(V, v2), ValuesAmong(V, vs, B))
  <2>1. z + mid <= m
    BY <1>1, <1>2, <1>3
  <2>2. PICK b : b = m - mid
    OBVIOUS
  <2> QED
    BY <1>1, <1>2, <1>3, <1>9, <1>10, <1>11, <1>14, <1>15, <1>100, <2>1, <2>2, LeafSplice
<1>18. AllValues(V, vs) = ValuesAmong(V, vs, A) \cup ValuesAmong(V, vs, B)
  <2>1. 1 .. Len(vs) = A \cup B
    BY <1>2, <1>3, <1>12
  <2> QED
    BY <2>1 DEF AllValues, ValuesAmong
<1>19. ValuesAmong(V, vs, A) \cap ValuesAmong(V, vs, B) = {}
  <2>1. \A a \in A : \A b \in B : a # b /\ a \in 1 .. Len(vs) /\ b \in 1 .. Len(vs)
    BY <1>2, <1>3, <1>12
  <2>2. \A a \in A : \A b \in B : ValuePages(V, vs[a]) \cap ValuePages(V, vs[b]) = {}
    BY <2>1 DEF LeafIs, ValuesApart
  <2> QED
    BY <2>2 DEF ValuesAmong
<1> QED
  BY <1>6, <1>16, <1>17, <1>18, <1>19 DEF IsUnion, Disjoint, SameSet

(* Keys, the separator, and the keys of the right sibling.                    *)
LEMMA KeysJoin ==
    ASSUME NEW k1 \in Seq(Int), NEW k2 \in Seq(Int), NEW a, NEW b, Len(k1) = a, Len(k2) = b,
           NEW lo \in Int, NEW sep \in Int, NEW hi \in Int, lo <= sep, sep <= hi,
           KeysOrdered(k1, lo, sep), KeysOrdered(k2, sep, hi), NEW qs, qs = k1 \o k2
    PROVE  qs \in Seq(Int) /\ Joined(qs, k1, k2, a, b) /\ KeysOrdered(qs, lo, hi)
<1>1. a \in Nat /\ b \in Nat
  BY LenProperties
<1>2. qs \in Seq(Int) /\ Joined(qs, k1, k2, a, b)
  BY JoinedAt
<1>3. /\ Len(qs) = a + b
      /\ \A j \in 1 .. a : qs[j] = k1[j]
      /\ \A j \in 1 .. b : qs[a + j] = k2[j]
  BY <1>2 DEF Joined
<1>4. /\ \A i \in 1 .. a : lo <= k1[i] /\ k1[i] < sep
      /\ \A i, j \in 1 .. a : i < j => k1[i] < k1[j]
  BY <1>1, KeysOrderedDef
<1>5. /\ \A i \in 1 .. b : sep <= k2[i] /\ k2[i] < hi
      /\ \A i, j \in 1 .. b : i < j => k2[i] < k2[j]
  BY <1>1, KeysOrderedDef
<1>6. (\A j \in 1 .. a : k1[j] \in Int) /\ (\A j \in 1 .. b : k2[j] \in Int)
  BY ElementOfSeq
<1>7. PICK m : m = a + b
  OBVIOUS
<1>8. ASSUME NEW j \in 1 .. m, ~(j <= a)
      PROVE  j - a \in 1 .. b /\ qs[j] = k2[j - a]
  <2>1. j - a \in 1 .. b /\ a + (j - a) = j
    BY <1>1, <1>7, <1>8
  <2> QED
    BY <1>3, <2>1
<1>9. ASSUME NEW j \in 1 .. m, j <= a PROVE j \in 1 .. a /\ qs[j] = k1[j]
  BY <1>1, <1>3, <1>7, <1>9
<1>10. ASSUME NEW j \in 1 .. m PROVE lo <= qs[j] /\ qs[j] < hi
  <2>1. CASE j <= a
    <3>1. j \in 1 .. a /\ qs[j] = k1[j]
      BY <1>9, <2>1
    <3>2. lo <= k1[j] /\ k1[j] < sep /\ k1[j] \in Int
      BY <1>4, <1>6, <3>1
    <3> QED
      BY <3>1, <3>2
  <2>2. CASE ~(j <= a)
    <3>1. PICK i : i = j - a
      OBVIOUS
    <3>2. i \in 1 .. b /\ qs[j] = k2[i]
      BY <1>8, <2>2, <3>1
    <3>3. sep <= k2[i] /\ k2[i] < hi /\ k2[i] \in Int
      BY <1>5, <1>6, <3>2
    <3> QED
      BY <3>2, <3>3
  <2> QED
    BY <2>1, <2>2
<1>11. ASSUME NEW i \in 1 .. m, NEW j \in 1 .. m, i < j PROVE qs[i] < qs[j]
  <2>1. CASE j <= a
    <3>1. i <= a
      BY <1>1, <1>7, <1>11, <2>1
    <3> QED
      BY <1>4, <1>9, <1>11, <2>1, <3>1
  <2>2. CASE i <= a /\ ~(j <= a)
    <3>1. PICK k : k = j - a
      OBVIOUS
    <3>2. k \in 1 .. b /\ qs[j] = k2[k] /\ i \in 1 .. a /\ qs[i] = k1[i]
      BY <1>8, <1>9, <2>2, <3>1
    <3>3. k1[i] < sep /\ sep <= k2[k] /\ k1[i] \in Int /\ k2[k] \in Int
      BY <1>4, <1>5, <1>6, <3>2
    <3> QED
      BY <3>2, <3>3
  <2>3. CASE ~(i <= a)
    <3>1. PICK k, l : k = j - a /\ l = i - a
      OBVIOUS
    <3>2. ~(j <= a) /\ l < k
      BY <1>1, <1>7, <1>11, <2>3, <3>1
    <3>3. k \in 1 .. b /\ qs[j] = k2[k] /\ l \in 1 .. b /\ qs[i] = k2[l]
      BY <1>8, <2>3, <3>1, <3>2
    <3> QED
      BY <1>5, <3>2, <3>3
  <2> QED
    BY <2>1, <2>2, <2>3
<1>12. m \in Nat /\ Len(qs) = m
  BY <1>1, <1>3, <1>7
<1> QED
  BY <1>2, <1>7, <1>10, <1>11, <1>12, KeysOrderedDef

(* Two leaves are joined.                                                     *)
LEMMA LeafJoin ==
    ASSUME NEW V, NEW k1, NEW v1, NEW k2, NEW v2,
           NEW lo \in Int, NEW sep \in Int, NEW hi \in Int, lo <= sep, sep <= hi,
           LeafIs(V, k1, v1, lo, sep), LeafIs(V, k2, v2, sep, hi),
           Disjoint(AllValues(V, v1), AllValues(V, v2)),
           NEW qs, qs = k1 \o k2, NEW ds, ds = v1 \o v2
    PROVE  /\ LeafIs(V, qs, ds, lo, hi)
           /\ IsUnion(AllValues(V, ds), AllValues(V, v1), AllValues(V, v2))
<1>1. PICK a, b, m : a = Len(k1) /\ b = Len(k2) /\ m = a + b
  OBVIOUS
<1>2. /\ k1 \in Seq(Int) /\ v1 \in Seq(ValueSet) /\ Len(v1) = a /\ KeysOrdered(k1, lo, sep)
      /\ k2 \in Seq(Int) /\ v2 \in Seq(ValueSet) /\ Len(v2) = b /\ KeysOrdered(k2, sep, hi)
      /\ ValuesApart(V, v1) /\ ValuesApart(V, v2)
  BY <1>1 DEF LeafIs
<1>3. a \in Nat /\ b \in Nat
  BY <1>1, <1>2, LenProperties
<1>4. qs \in Seq(Int) /\ Len(qs) = m /\ KeysOrdered(qs, lo, hi)
  <2>1. Len(k1) = a /\ Len(k2) = b
    BY <1>1
  <2>2. qs \in Seq(Int) /\ Joined(qs, k1, k2, a, b) /\ KeysOrdered(qs, lo, hi)
    BY <1>2, <2>1, KeysJoin
  <2> QED
    BY <1>1, <2>2 DEF Joined
<1>5. ds \in Seq(ValueSet) /\ Joined(ds, v1, v2, a, b)
  BY <1>2, JoinedAt
<1>6. /\ Len(ds) = m
      /\ \A j \in 1 .. a : ds[j] = v1[j]
      /\ \A j \in 1 .. b : ds[a + j] = v2[j]
  BY <1>1, <1>5 DEF Joined
<1>7. ASSUME NEW j \in 1 .. m
      PROVE  \/ j \in 1 .. a /\ ds[j] = v1[j]
             \/ \E i \in 1 .. b : j = a + i /\ ds[j] = v2[i]
  <2>1. CASE j <= a
    <3>1. j \in 1 .. a
      BY <1>1, <1>3, <2>1
    <3> QED
      BY <1>6, <3>1
  <2>2. CASE ~(j <= a)
    <3>1. PICK i : i = j - a
      OBVIOUS
    <3>2. i \in 1 .. b /\ j = a + i
      BY <1>1, <1>3, <2>2, <3>1
    <3> QED
      BY <1>6, <3>2
  <2> QED
    BY <2>1, <2>2
<1>8. /\ AllValues(V, v1) = ValuesAmong(V, v1, 1 .. a)
      /\ AllValues(V, v2) = ValuesAmong(V, v2, 1 .. b)
      /\ AllValues(V, ds) = ValuesAmong(V, ds, 1 .. m)
  BY <1>2, <1>6 DEF AllValues
<1>9. \A i \in 1 .. a : \A j \in 1 .. b : ValuePages(V, v1[i]) \cap ValuePages(V, v2[j]) = {}
  <2> SUFFICES ASSUME NEW i \in 1 .. a, NEW j \in 1 .. b
               PROVE  ValuePages(V, v1[i]) \cap ValuePages(V, v2[j]) = {}
    OBVIOUS
  <2>1. ValuePages(V, v1[i]) \subseteq AllValues(V, v1)
    BY <1>8 DEF ValuesAmong
  <2>2. ValuePages(V, v2[j]) \subseteq AllValues(V, v2)
    BY <1>8 DEF ValuesAmong
  <2> QED
    BY <2>1, <2>2 DEF Disjoint
<1>10. ValuesApart(V, ds)
  <2>1. ASSUME NEW j \in 1 .. Len(ds) PROVE ValueOk(V, ds[j])
    BY <1>2, <1>6, <1>7 DEF ValuesApart
  <2>2. ASSUME NEW i \in 1 .. Len(ds), NEW j \in 1 .. Len(ds), i # j
        PROVE  ValuePages(V, ds[i]) \cap ValuePages(V, ds[j]) = {}
    <3>1. i \in 1 .. m /\ j \in 1 .. m
      BY <1>6
    <3>2. CASE i \in 1 .. a /\ ds[i] = v1[i] /\ j \in 1 .. a /\ ds[j] = v1[j]
      BY <1>2, <2>2, <3>2 DEF ValuesApart
    <3>3. CASE /\ i \in 1 .. a /\ ds[i] = v1[i]
               /\ \E k \in 1 .. b : j = a + k /\ ds[j] = v2[k]
      BY <1>9, <3>3
    <3>4. CASE /\ j \in 1 .. a /\ ds[j] = v1[j]
               /\ \E k \in 1 .. b : i = a + k /\ ds[i] = v2[k]
      BY <1>9, <3>4
    <3>5. CASE /\ \E k \in 1 .. b : i = a + k /\ ds[i] = v2[k]
               /\ \E k \in 1 .. b : j = a + k /\ ds[j] = v2[k]
      <4>1. PICK k \in 1 .. b : i = a + k /\ ds[i] = v2[k]
        BY <3>5
      <4>2. PICK l \in 1 .. b : j = a + l /\ ds[j] = v2[l]
        BY <3>5
      <4>3. k # l
        BY <2>2, <4>1, <4>2
      <4> QED
        BY <1>2, <4>1, <4>2, <4>3 DEF ValuesApart
    <3> QED
      BY <1>7, <3>1, <3>2, <3>3, <3>4, <3>5
  <2> QED
    BY <2>1, <2>2 DEF ValuesApart
<1>11. LeafIs(V, qs, ds, lo, hi)
  BY <1>4, <1>5, <1>6, <1>10 DEF LeafIs
<1>12. IsUnion(AllValues(V, ds), AllValues(V, v1), AllValues(V, v2))
  <2>1. PICK A, B, C : /\ A = ValuesAmong(V, v1, 1 .. a) /\ B = ValuesAmong(V, v2, 1 .. b)
                       /\ C = ValuesAmong(V, ds, 1 .. m)
    OBVIOUS
  <2>2. \A i \in 1 .. a : ValuePages(V, v1[i]) \subseteq A
    BY <2>1 DEF ValuesAmong
  <2>3. \A i \in 1 .. b : ValuePages(V, v2[i]) \subseteq B
    BY <2>1 DEF ValuesAmong
  <2>4. \A i \in 1 .. m : ValuePages(V, ds[i]) \subseteq C
    BY <2>1 DEF ValuesAmong
  <2>5. \A i \in 1 .. m : ValuePages(V, ds[i]) \subseteq A \cup B
    BY <1>7, <2>2, <2>3
  <2>6. C \subseteq A \cup B
    BY <2>1, <2>5 DEF ValuesAmong
  <2>7. (\A j \in 1 .. a : j \in 1 .. m) /\ (\A j \in 1 .. b : a + j \in 1 .. m)
    BY <1>1, <1>3
  <2>8. \A i \in 1 .. a : ValuePages(V, v1[i]) \subseteq C
    BY <1>6, <2>4, <2>7
  <2>9. \A i \in 1 .. b : ValuePages(V, v2[i]) \subseteq C
    BY <1>6, <2>4, <2>7
  <2>10. A \subseteq C
    BY <2>1, <2>8 DEF ValuesAmong
  <2>11. B \subseteq C
    BY <2>1, <2>9 DEF ValuesAmong
  <2> QED
    BY <1>8, <2>1, <2>6, <2>10, <2>11 DEF IsUnion
<1> QED
  BY <1>11, <1>12

-------------------------------------------------------------------------------
(* The changes of an internal node.                                           *)

(* An internal node in terms of its keys and children.                        *)
InnerIs(V, n, ks, cs, lo, hi) ==
    /\ ks \in Seq(Int) /\ cs \in Seq(Nat \ {None}) /\ Len(cs) = Len(ks) + 1
    /\ KeysOrdered(ks, lo, hi) /\ KeysAbove(ks, lo) /\ Kids(V, n, ks, cs, lo, hi)

(* The parts of an internal node.                                             *)
LEMMA InnerParts ==
    ASSUME NEW V, NEW n \in Nat, NEW m, m = n + 1, NEW node, NEW lo, NEW hi,
           Body(V, m, node, lo, hi)
    PROVE  /\ node = Internal(node.keys, node.children)
           /\ InnerIs(V, n, node.keys, node.children, lo, hi)
           /\ BodyPages(V, m, node) = KidPages(V, n, node.children)
<1>1. InnerShape(node, lo, hi) /\ Kids(V, n, node.keys, node.children, lo, hi)
  BY InnerDef
<1>2. node.children \in Seq(Nat \ {None})
  BY <1>1 DEF InnerShape
<1>3. BodyPages(V, m, node) = KidPages(V, n, node.children)
  BY <1>2, InnerSets
<1> QED
  BY <1>1, <1>3 DEF InnerShape, InnerIs

(* An internal node from its parts.                                           *)
LEMMA InnerBuilt ==
    ASSUME NEW W, NEW n \in Nat, NEW m, m = n + 1, NEW ks, NEW cs, NEW lo, NEW hi,
           InnerIs(W, n, ks, cs, lo, hi)
    PROVE  /\ Body(W, m, Internal(ks, cs), lo, hi)
           /\ BodyPages(W, m, Internal(ks, cs)) = KidPages(W, n, cs)
<1>1. PICK node : node = Internal(ks, cs)
  OBVIOUS
<1>2. node.keys = ks /\ node.children = cs
  BY <1>1 DEF Internal
<1>3. InnerShape(node, lo, hi) /\ Kids(W, n, node.keys, node.children, lo, hi)
  BY <1>1, <1>2 DEF InnerIs, InnerShape
<1>4. node.children \in Seq(Nat \ {None})
  BY <1>2 DEF InnerIs
<1>5. BodyPages(W, m, node) = KidPages(W, n, cs)
  BY <1>2, <1>4, InnerSets
<1> QED
  BY <1>1, <1>3, <1>5, InnerDef

(* The pages of one child, and those of all the others.                       *)
LEMMA KidOthers ==
    ASSUME NEW V, NEW n \in Nat, NEW ks, NEW cs, NEW lo, NEW hi,
           Kids(V, n, ks, cs, lo, hi), NEW idx \in 1 .. Len(cs)
    PROVE  /\ IsUnion(KidPages(V, n, cs), Among(V, n, cs, Others(cs, idx)),
                      Pages(V, n, cs[idx]))
           /\ Disjoint(Among(V, n, cs, Others(cs, idx)), Pages(V, n, cs[idx]))
           /\ Tree(V, n, cs[idx], Bound(ks, lo, hi, idx - 1), Bound(ks, lo, hi, idx))
<1>1. KidPages(V, n, cs) = Among(V, n, cs, Others(cs, idx)) \cup Pages(V, n, cs[idx])
  BY DEF KidPages, Among, Others
<1>2. Among(V, n, cs, Others(cs, idx)) \cap Pages(V, n, cs[idx]) = {}
  <2>1. ASSUME NEW i \in Others(cs, idx)
        PROVE  Pages(V, n, cs[i]) \cap Pages(V, n, cs[idx]) = {}
    BY DEF Others, Kids
  <2> QED
    BY <2>1 DEF Among
<1> QED
  BY <1>1, <1>2 DEF IsUnion, Disjoint, Kids

(* What a bound is.                                                           *)
BoundsOf(ks, lo, hi, m) ==
    /\ Bound(ks, lo, hi, 0) = lo
    /\ \A i \in 1 .. m : Bound(ks, lo, hi, i) = ks[i]
    /\ \A i \in Int : i > m => Bound(ks, lo, hi, i) = hi

(* Between the first and the last, a bound is a key.                          *)
LEMMA BoundAt ==
    ASSUME NEW ks, NEW m \in Nat, Len(ks) = m, NEW lo, NEW hi
    PROVE  BoundsOf(ks, lo, hi, m)
  BY DEF Bound, BoundsOf

(* Bounds of a node are bounds of another.                                    *)
BoundsAs(qs, l, h, ks, lo, hi, J, o) ==
    \A j \in J : /\ Bound(qs, l, h, j - 1) = Bound(ks, lo, hi, o[j] - 1)
                 /\ Bound(qs, l, h, j) = Bound(ks, lo, hi, o[j])

(* The trees that are put in at the positions Y, apart from the pages A.      *)
NewKids(W, n, qs, ds, l, h, Y, A) ==
    /\ \A j \in Y : /\ Tree(W, n, ds[j], Bound(qs, l, h, j - 1), Bound(qs, l, h, j))
                    /\ Pages(W, n, ds[j]) \cap A = {}
    /\ \A i, j \in Y : i # j => Pages(W, n, ds[i]) \cap Pages(W, n, ds[j]) = {}

Between(p, y) == p + 1 .. p + y

(* Children p + 1 .. p + x give way to y others within the same bounds.       *)
LEMMA KidsSplice ==
    ASSUME NEW V, NEW W, NEW n \in Nat, NEW ks, NEW cs, NEW lo, NEW hi,
           Kids(V, n, ks, cs, lo, hi), NEW m \in Nat, m = Len(cs),
           NEW p \in Nat, NEW x \in Nat, NEW y \in Nat, p + x <= m,
           NEW qs, NEW ds, NEW l, NEW h, Spliced(ds, cs, p, x, y, m),
           NEW b, b = (m - x) + y,
           BoundsAs(qs, l, h, ks, lo, hi, Gap(p, y, b), Shift(p, x, y, b)),
           Agree(V, W, Among(V, n, cs, Gap(p, x, m))),
           NewKids(W, n, qs, ds, l, h, Between(p, y), Among(V, n, cs, Gap(p, x, m)))
    PROVE  /\ Kids(W, n, qs, ds, l, h)
           /\ IsUnion(KidPages(W, n, ds), Among(V, n, cs, Gap(p, x, m)),
                      Among(W, n, ds, Between(p, y)))
<1>1. b \in Nat /\ b + x = m + y /\ Len(ds) = b /\ p + y <= b
  BY DEF Spliced
<1>2. PICK o, I, J, Y : /\ o = Shift(p, x, y, b) /\ I = Gap(p, x, m) /\ J = Gap(p, y, b)
                        /\ Y = Between(p, y)
  OBVIOUS
<1>3. Onto(o, J, I)
  BY <1>1, <1>2, OntoGap
<1>4. Drawn(ds, cs, J, o)
  BY <1>1, <1>2, SplicedShift
<1>5. J = 1 .. Len(ds) \ Y /\ Y \subseteq 1 .. Len(ds) /\ I \subseteq 1 .. Len(cs)
  <2>1. I \subseteq 1 .. Len(cs)
    BY <1>2 DEF Gap
  <2>2. Y \subseteq 1 .. Len(ds)
    BY <1>1, <1>2 DEF Between
  <2>3. J = 1 .. Len(ds) \ Y
    BY <1>1, <1>2 DEF Between, Gap
  <2> QED
    BY <2>1, <2>2, <2>3
<1>6. KidsMade(V, W, n, ks, cs, lo, hi, I, qs, ds, l, h, Y, J, o)
  BY <1>2, <1>3, <1>4, <1>5 DEF KidsMade, Drawn, BoundsAs, NewKids
<1> QED
  BY <1>2, <1>6, KidsFrom

(* A child is replaced.                                                       *)
LEMMA InnerReplace ==
    ASSUME NEW V, NEW W, NEW n \in Nat, NEW ks, NEW cs, NEW lo, NEW hi,
           InnerIs(V, n, ks, cs, lo, hi), NEW idx \in 1 .. Len(cs),
           Agree(V, W, Among(V, n, cs, Others(cs, idx))), NEW id \in Nat \ {None},
           Tree(W, n, id, Bound(ks, lo, hi, idx - 1), Bound(ks, lo, hi, idx)),
           Disjoint(Pages(W, n, id), Among(V, n, cs, Others(cs, idx))),
           NEW ds, ds = ReplaceAt(cs, idx, id)
    PROVE  /\ InnerIs(W, n, ks, ds, lo, hi)
           /\ IsUnion(KidPages(W, n, ds), Among(V, n, cs, Others(cs, idx)),
                      Pages(W, n, id))
           /\ ds[idx] = id
<1>1. cs \in Seq(Nat \ {None}) /\ Kids(V, n, ks, cs, lo, hi)
  BY DEF InnerIs
<1>2. PICK m : m = Len(cs)
  OBVIOUS
<1>3. m \in Nat
  BY <1>1, <1>2, LenProperties
<1>4. ds \in Seq(Nat \ {None}) /\ Replaced(ds, cs, idx, id, m)
  BY <1>1, <1>2, ReplacedAt
<1>5. Len(ds) = m /\ ds[idx] = id /\ \A j \in 1 .. m : j # idx => ds[j] = cs[j]
  BY <1>4 DEF Replaced
<1>6. PICK I, Y, o : I = Others(cs, idx) /\ Y = {idx} /\ o = [j \in 1 .. m |-> j]
  OBVIOUS
<1>7. I \subseteq 1 .. Len(cs) /\ Y \subseteq 1 .. Len(ds) /\ I = 1 .. Len(ds) \ Y
  BY <1>2, <1>5, <1>6 DEF Others
<1>8. \A j \in I : o[j] = j /\ j \in 1 .. m /\ j # idx
  BY <1>2, <1>6 DEF Others
<1>9. Onto(o, I, I)
  BY <1>8 DEF Onto
<1>10. \A j \in I : ds[j] = cs[o[j]]
  BY <1>5, <1>8
<1>11. /\ \A j \in Y : /\ Tree(W, n, ds[j], Bound(ks, lo, hi, j - 1), Bound(ks, lo, hi, j))
                       /\ Pages(W, n, ds[j]) \cap Among(V, n, cs, I) = {}
       /\ \A i, j \in Y : i # j => Pages(W, n, ds[i]) \cap Pages(W, n, ds[j]) = {}
  BY <1>5, <1>6 DEF Disjoint
<1>12. KidsMade(V, W, n, ks, cs, lo, hi, I, ks, ds, lo, hi, Y, I, o)
  BY <1>6, <1>7, <1>8, <1>9, <1>10, <1>11, Zenon DEF KidsMade
<1>13. /\ Kids(W, n, ks, ds, lo, hi)
       /\ IsUnion(KidPages(W, n, ds), Among(V, n, cs, I), Among(W, n, ds, Y))
  BY <1>1, <1>12, KidsFrom
<1>14. Among(W, n, ds, Y) = Pages(W, n, id)
  BY <1>5, <1>6 DEF Among
<1>15. InnerIs(W, n, ks, ds, lo, hi)
  BY <1>2, <1>4, <1>5, <1>13 DEF InnerIs
<1> QED
  BY <1>5, <1>6, <1>13, <1>14, <1>15

(* A separator is inserted.                                                   *)
BoundsIn(qs, ks, lo, hi, idx, sep, m) ==
    /\ \A j \in 0 .. idx - 1 : Bound(qs, lo, hi, j) = Bound(ks, lo, hi, j)
    /\ \A j \in idx .. m + 1 : Bound(qs, lo, hi, j + 1) = Bound(ks, lo, hi, j)
    /\ Bound(qs, lo, hi, idx) = sep

(* An inserted separator moves the bounds behind it by one.                   *)
LEMMA BoundInserted ==
    ASSUME NEW ks, NEW m \in Nat, Len(ks) = m, NEW idx \in 1 .. m + 1, NEW sep, NEW qs,
           Inserted(qs, ks, idx, sep, m), NEW lo, NEW hi
    PROVE  BoundsIn(qs, ks, lo, hi, idx, sep, m)
<1>1. Len(qs) = m + 1
  BY DEF Inserted
<1>2. PICK k \in Nat : k = m + 1
  OBVIOUS
<1>3. BoundsOf(ks, lo, hi, m)
  BY BoundAt
<1>4. BoundsOf(qs, lo, hi, k)
  BY <1>1, <1>2, BoundAt
<1>5. ASSUME NEW j \in 0 .. idx - 1 PROVE Bound(qs, lo, hi, j) = Bound(ks, lo, hi, j)
  <2>1. CASE j = 0
    BY <2>1, <1>3, <1>4 DEF BoundsOf
  <2>2. CASE j # 0
    <3>1. j \in 1 .. m /\ j < idx /\ j \in 1 .. k
      BY <1>2, <2>2
    <3>2. qs[j] = ks[j]
      BY <3>1 DEF Inserted
    <3> QED
      BY <1>3, <1>4, <3>1, <3>2 DEF BoundsOf
  <2> QED
    BY <2>1, <2>2
<1>6. ASSUME NEW j \in idx .. m + 1 PROVE Bound(qs, lo, hi, j + 1) = Bound(ks, lo, hi, j)
  <2>1. CASE j = m + 1
    <3>1. j \in Int /\ j + 1 \in Int /\ j > m /\ j + 1 > k
      BY <1>2, <2>1
    <3> QED
      BY <1>3, <1>4, <3>1 DEF BoundsOf
  <2>2. CASE j # m + 1
    <3>1. j \in 1 .. m /\ j >= idx /\ j + 1 \in 1 .. k
      BY <1>2, <2>2
    <3>2. qs[j + 1] = ks[j]
      BY <3>1 DEF Inserted
    <3> QED
      BY <1>3, <1>4, <3>1, <3>2 DEF BoundsOf
  <2> QED
    BY <2>1, <2>2
<1>7. Bound(qs, lo, hi, idx) = sep
  <2>1. idx \in 1 .. k /\ qs[idx] = sep
    BY <1>2 DEF Inserted
  <2> QED
    BY <1>4, <2>1 DEF BoundsOf
<1> QED
  BY <1>5, <1>6, <1>7 DEF BoundsIn

(* A separator is removed.                                                    *)
BoundsOut(qs, ks, lo, hi, i, m) ==
    /\ \A j \in 0 .. i - 1 : Bound(qs, lo, hi, j) = Bound(ks, lo, hi, j)
    /\ \A j \in i + 1 .. m + 1 : Bound(qs, lo, hi, j - 1) = Bound(ks, lo, hi, j)

(* A removed one moves them back.                                             *)
LEMMA BoundShortened ==
    ASSUME NEW ks, NEW m \in Nat, Len(ks) = m, NEW i \in 1 .. m, NEW qs,
           Shortened(qs, ks, i, m), NEW lo, NEW hi
    PROVE  BoundsOut(qs, ks, lo, hi, i, m)
<1>1. PICK k \in Nat : k = m - 1
  OBVIOUS
<1>2. Len(qs) = k
  BY <1>1 DEF Shortened
<1>3. BoundsOf(ks, lo, hi, m)
  BY BoundAt
<1>4. BoundsOf(qs, lo, hi, k)
  BY <1>2, BoundAt
<1>5. ASSUME NEW j \in 0 .. i - 1 PROVE Bound(qs, lo, hi, j) = Bound(ks, lo, hi, j)
  <2>1. CASE j = 0
    BY <2>1, <1>3, <1>4 DEF BoundsOf
  <2>2. CASE j # 0
    <3>1. j \in 1 .. m /\ j < i /\ j \in 1 .. k /\ j \in 1 .. m - 1
      BY <1>1, <2>2
    <3>2. qs[j] = ks[j]
      BY <3>1 DEF Shortened
    <3> QED
      BY <1>3, <1>4, <3>1, <3>2 DEF BoundsOf
  <2> QED
    BY <2>1, <2>2
<1>6. ASSUME NEW j \in i + 1 .. m + 1 PROVE Bound(qs, lo, hi, j - 1) = Bound(ks, lo, hi, j)
  <2>1. CASE j = m + 1
    <3>1. j \in Int /\ j - 1 \in Int /\ j > m /\ j - 1 > k
      BY <1>1, <2>1
    <3> QED
      BY <1>3, <1>4, <3>1 DEF BoundsOf
  <2>2. CASE j # m + 1
    <3>1. PICK a : a = j - 1
      OBVIOUS
    <3>2. j \in 1 .. m /\ a \in 1 .. m - 1 /\ a \in 1 .. k /\ a >= i /\ a + 1 = j
      BY <1>1, <2>2, <3>1
    <3>3. qs[a] = ks[j]
      BY <3>2 DEF Shortened
    <3> QED
      BY <1>3, <1>4, <3>1, <3>2, <3>3 DEF BoundsOf
  <2> QED
    BY <2>1, <2>2
<1> QED
  BY <1>5, <1>6 DEF BoundsOut

(* Bounds ascend.                                                             *)
BoundsAscend(ks, lo, hi, m) ==
    /\ \A i \in 0 .. m + 1 : Bound(ks, lo, hi, i) \in Int
    /\ \A i \in 0 .. m + 1 : lo <= Bound(ks, lo, hi, i) /\ Bound(ks, lo, hi, i) <= hi
    /\ \A i, j \in 0 .. m + 1 : i < j => Bound(ks, lo, hi, i) < Bound(ks, lo, hi, j)
    /\ \A i \in 1 .. m : Bound(ks, lo, hi, i) = ks[i]
    /\ Bound(ks, lo, hi, 0) = lo /\ Bound(ks, lo, hi, m + 1) = hi

(* The bounds of a node with keys above lo ascend strictly.                   *)
LEMMA BoundsOrdered ==
    ASSUME NEW ks \in Seq(Int), NEW m \in Nat, Len(ks) = m, NEW lo \in Int, NEW hi \in Int,
           lo < hi, KeysOrdered(ks, lo, hi), KeysAbove(ks, lo)
    PROVE  BoundsAscend(ks, lo, hi, m)
<1>1. BoundsOf(ks, lo, hi, m)
  BY BoundAt
<1>2. /\ Bound(ks, lo, hi, 0) = lo /\ Bound(ks, lo, hi, m + 1) = hi
      /\ \A i \in 1 .. m : Bound(ks, lo, hi, i) = ks[i]
  BY <1>1 DEF BoundsOf
<1>3. \A i \in 1 .. m : ks[i] \in Int
  BY ElementOfSeq
<1>4. /\ \A i \in 1 .. m : lo < ks[i] /\ ks[i] < hi
      /\ \A i, j \in 1 .. m : i < j => ks[i] < ks[j]
  BY KeysOrderedDef DEF KeysAbove
<1>5. \A i \in 0 .. m + 1 : i = 0 \/ i = m + 1 \/ i \in 1 .. m
  OBVIOUS
<1>6. PICK B : B = [i \in 0 .. m + 1 |-> Bound(ks, lo, hi, i)]
  OBVIOUS
<1>7. \A i \in 0 .. m + 1 : B[i] = Bound(ks, lo, hi, i)
  BY <1>6
<1>8. B[0] = lo /\ B[m + 1] = hi /\ \A i \in 1 .. m : B[i] = ks[i]
  <2>1. 0 \in 0 .. m + 1 /\ m + 1 \in 0 .. m + 1 /\ \A i \in 1 .. m : i \in 0 .. m + 1
    OBVIOUS
  <2> QED
    BY <1>2, <1>7, <2>1
<1>9. \A i \in 0 .. m + 1 : B[i] \in Int /\ lo <= B[i] /\ B[i] <= hi
  BY <1>3, <1>4, <1>5, <1>8
<1>10. ASSUME NEW i \in 0 .. m + 1, NEW j \in 0 .. m + 1, i < j PROVE B[i] < B[j]
  <2>1. CASE i = 0
    <3>1. j = m + 1 \/ j \in 1 .. m
      BY <1>10, <2>1
    <3> QED
      BY <1>4, <1>8, <2>1, <3>1
  <2>2. CASE i # 0
    <3>1. i \in 1 .. m /\ (j = m + 1 \/ j \in 1 .. m)
      BY <1>10, <2>2
    <3> QED
      BY <1>4, <1>8, <1>10, <3>1
  <2> QED
    BY <2>1, <2>2
<1> QED
  BY <1>2, <1>7, <1>9, <1>10 DEF BoundsAscend

(* Sequences with one element for two, and two for one.                       *)
LEMMA TwoForOne ==
    ASSUME NEW s, NEW r, NEW d, NEW m \in Nat, NEW i \in 1 .. m, NEW a, NEW e,
           Replaced(r, s, i, a, m), NEW j, j = i + 1, Inserted(d, r, j, e, m),
           NEW p, p = i - 1, NEW x, x = 1, NEW y, y = 2
    PROVE  Spliced(d, s, p, x, y, m) /\ d[i] = a /\ d[j] = e
<1>1. Len(d) = (m - x) + y
  BY DEF Inserted
<1>2. ASSUME NEW k \in 1 .. m, k <= p PROVE d[k] = s[k]
  <2>1. k # i /\ k < j
    BY <1>2
  <2>2. d[k] = r[k] /\ r[k] = s[k]
    BY <2>1 DEF Inserted, Replaced
  <2> QED
    BY <2>2
<1>3. ASSUME NEW k \in 1 .. m, k > p + x PROVE d[(k - x) + y] = s[k]
  <2>1. k # i /\ k >= j /\ (k - x) + y = k + 1
    BY <1>3
  <2>2. d[k + 1] = r[k] /\ r[k] = s[k]
    BY <2>1 DEF Inserted, Replaced
  <2> QED
    BY <2>1, <2>2
<1>4. d[i] = a /\ d[j] = e
  <2>1. i < j
    OBVIOUS
  <2> QED
    BY <2>1 DEF Inserted, Replaced
<1> QED
  BY <1>1, <1>2, <1>3, <1>4 DEF Spliced

(* try_merge's change of the children: one in place of two.                   *)
LEMMA OneForTwo ==
    ASSUME NEW s, NEW r, NEW d, NEW m \in Nat, NEW i \in 1 .. m - 1, NEW a,
           Replaced(r, s, i, a, m), NEW j, j = i + 1, Shortened(d, r, j, m),
           NEW p, p = i - 1, NEW x, x = 2, NEW y, y = 1
    PROVE  Spliced(d, s, p, x, y, m) /\ d[i] = a
<1>1. Len(d) = (m - x) + y
  BY DEF Shortened
<1>2. ASSUME NEW k \in 1 .. m, k <= p PROVE d[k] = s[k]
  <2>1. k # i /\ k < j /\ k \in 1 .. m - 1
    BY <1>2
  <2>2. d[k] = r[k] /\ r[k] = s[k]
    BY <2>1 DEF Shortened, Replaced
  <2> QED
    BY <2>2
<1>3. ASSUME NEW k \in 1 .. m, k > p + x PROVE d[(k - x) + y] = s[k]
  <2>1. PICK l : l = (k - x) + y
    OBVIOUS
  <2>2. k # i /\ l >= j /\ l \in 1 .. m - 1 /\ l + 1 = k
    BY <1>3, <2>1
  <2>3. d[l] = r[l + 1] /\ r[k] = s[k]
    BY <2>2 DEF Shortened, Replaced
  <2> QED
    BY <2>1, <2>2, <2>3
<1>4. d[i] = a
  <2>1. i < j /\ i \in 1 .. m
    OBVIOUS
  <2>2. d[i] = r[i]
    BY <2>1 DEF Shortened
  <2> QED
    BY <2>1, <2>2 DEF Replaced
<1> QED
  BY <1>1, <1>2, <1>3, <1>4 DEF Spliced

(* A split: the children beside the new pair keep their bounds.               *)
LEMMA BoundsInAs ==
    ASSUME NEW ks, NEW qs, NEW lo, NEW hi, NEW k \in Nat, NEW idx \in 1 .. k + 1, NEW sep,
           BoundsIn(qs, ks, lo, hi, idx, sep, k),
           NEW m, m = k + 1, NEW p, p = idx - 1, NEW x, x = 1, NEW y, y = 2,
           NEW b, b = (m - x) + y
    PROVE  BoundsAs(qs, lo, hi, ks, lo, hi, Gap(p, y, b), Shift(p, x, y, b))
<1>1. p \in Nat /\ x \in Nat /\ y \in Nat /\ m \in Nat /\ b \in Nat
  OBVIOUS
<1>2. p + x <= m /\ b + x = m + y
  OBVIOUS
<1>3. PICK o, J : o = Shift(p, x, y, b) /\ J = Gap(p, y, b)
  OBVIOUS
<1>4. Shifted(o, J, p, x, y)
  BY <1>1, <1>2, <1>3, OntoGap
<1>5. ASSUME NEW j \in J
      PROVE  /\ Bound(qs, lo, hi, j - 1) = Bound(ks, lo, hi, o[j] - 1)
             /\ Bound(qs, lo, hi, j) = Bound(ks, lo, hi, o[j])
  <2>1. j \in 1 .. b /\ (j <= p \/ j > p + y)
    BY <1>3 DEF Gap
  <2>2. CASE j <= p
    <3>1. o[j] = j
      BY <1>4, <2>2 DEF Shifted
    <3>2. j \in 0 .. idx - 1 /\ j - 1 \in 0 .. idx - 1
      BY <2>1, <2>2
    <3> QED
      BY <3>1, <3>2 DEF BoundsIn
  <2>3. CASE j > p + y
    <3>1. j > p
      BY <1>1, <2>1, <2>3
    <3>2. o[j] = (j - y) + x
      BY <1>4, <3>1 DEF Shifted
    <3>3. PICK t, u : t = j - 1 /\ u = j - 2
      OBVIOUS
    <3>4. /\ o[j] = t /\ o[j] - 1 = u /\ t \in idx .. k + 1 /\ u \in idx .. k + 1
          /\ t + 1 = j /\ u + 1 = j - 1
      BY <2>1, <2>3, <3>2, <3>3
    <3>5. /\ Bound(qs, lo, hi, t + 1) = Bound(ks, lo, hi, t)
          /\ Bound(qs, lo, hi, u + 1) = Bound(ks, lo, hi, u)
      BY <3>4 DEF BoundsIn
    <3> QED
      BY <3>4, <3>5
  <2> QED
    BY <2>1, <2>2, <2>3
<1> QED
  BY <1>3, <1>5 DEF BoundsAs

(* A merge: so do the children beside the merged one.                         *)
LEMMA BoundsOutAs ==
    ASSUME NEW ks, NEW qs, NEW lo, NEW hi, NEW k \in Nat, NEW i \in 1 .. k,
           BoundsOut(qs, ks, lo, hi, i, k),
           NEW m, m = k + 1, NEW p, p = i - 1, NEW x, x = 2, NEW y, y = 1,
           NEW b, b = (m - x) + y
    PROVE  /\ BoundsAs(qs, lo, hi, ks, lo, hi, Gap(p, y, b), Shift(p, x, y, b))
           /\ Bound(qs, lo, hi, i - 1) = Bound(ks, lo, hi, i - 1)
           /\ Bound(qs, lo, hi, i) = Bound(ks, lo, hi, i + 1)
<1>1. p \in Nat /\ x \in Nat /\ y \in Nat /\ m \in Nat /\ b \in Nat
  OBVIOUS
<1>2. p + x <= m /\ b + x = m + y
  OBVIOUS
<1>3. PICK o, J : o = Shift(p, x, y, b) /\ J = Gap(p, y, b)
  OBVIOUS
<1>4. Shifted(o, J, p, x, y)
  BY <1>1, <1>2, <1>3, OntoGap
<1>5. ASSUME NEW j \in J
      PROVE  /\ Bound(qs, lo, hi, j - 1) = Bound(ks, lo, hi, o[j] - 1)
             /\ Bound(qs, lo, hi, j) = Bound(ks, lo, hi, o[j])
  <2>1. j \in 1 .. b /\ (j <= p \/ j > p + y)
    BY <1>3 DEF Gap
  <2>2. CASE j <= p
    <3>1. o[j] = j
      BY <1>4, <2>2 DEF Shifted
    <3>2. j \in 0 .. i - 1 /\ j - 1 \in 0 .. i - 1
      BY <2>1, <2>2
    <3> QED
      BY <3>1, <3>2 DEF BoundsOut
  <2>3. CASE j > p + y
    <3>1. j > p
      BY <1>1, <2>1, <2>3
    <3>2. o[j] = (j - y) + x
      BY <1>4, <3>1 DEF Shifted
    <3>3. PICK t, u : t = j + 1 /\ u = j
      OBVIOUS
    <3>4. /\ o[j] = t /\ o[j] - 1 = u /\ t \in i + 1 .. k + 1 /\ u \in i + 1 .. k + 1
          /\ t - 1 = j /\ u - 1 = j - 1
      BY <2>1, <2>3, <3>2, <3>3
    <3>5. /\ Bound(qs, lo, hi, t - 1) = Bound(ks, lo, hi, t)
          /\ Bound(qs, lo, hi, u - 1) = Bound(ks, lo, hi, u)
      BY <3>4 DEF BoundsOut
    <3> QED
      BY <3>4, <3>5
  <2> QED
    BY <2>1, <2>2, <2>3
<1>6. /\ Bound(qs, lo, hi, i - 1) = Bound(ks, lo, hi, i - 1)
      /\ Bound(qs, lo, hi, i) = Bound(ks, lo, hi, i + 1)
  <2>1. i - 1 \in 0 .. i - 1 /\ i + 1 \in i + 1 .. k + 1 /\ (i + 1) - 1 = i
    OBVIOUS
  <2> QED
    BY <2>1 DEF BoundsOut
<1> QED
  BY <1>3, <1>5, <1>6 DEF BoundsAs

(* The other children of idx are those outside the gap.                       *)
LEMMA OthersGap ==
    ASSUME NEW s, NEW m \in Nat, Len(s) = m, NEW idx \in 1 .. m, NEW p, p = idx - 1,
           NEW x, x = 1
    PROVE  SameSet(Others(s, idx), Gap(p, x, m))
  BY DEF Others, Gap, SameSet

(* A child has become two, with a separator between them.                     *)
LEMMA InnerInsert ==
    ASSUME NEW V, NEW W, NEW n \in Nat, NEW ks, NEW cs, NEW lo \in Int, NEW hi \in Int, lo < hi,
           InnerIs(V, n, ks, cs, lo, hi), NEW idx \in 1 .. Len(cs),
           Agree(V, W, Among(V, n, cs, Others(cs, idx))),
           NEW id \in Nat \ {None}, NEW sib \in Nat \ {None}, NEW sep \in Int,
           Bound(ks, lo, hi, idx - 1) < sep, sep < Bound(ks, lo, hi, idx),
           Tree(W, n, id, Bound(ks, lo, hi, idx - 1), sep),
           Tree(W, n, sib, sep, Bound(ks, lo, hi, idx)),
           Disjoint(Pages(W, n, id), Among(V, n, cs, Others(cs, idx))),
           Disjoint(Pages(W, n, sib), Among(V, n, cs, Others(cs, idx))),
           Disjoint(Pages(W, n, id), Pages(W, n, sib)),
           NEW qs, qs = InsertAt(ks, idx, sep), NEW r, r = ReplaceAt(cs, idx, id),
           NEW nx, nx = idx + 1, NEW ds, ds = InsertAt(r, nx, sib)
    PROVE  /\ InnerIs(W, n, qs, ds, lo, hi)
           /\ \E P : /\ IsUnion(P, Pages(W, n, id), Pages(W, n, sib))
                     /\ IsUnion(KidPages(W, n, ds), Among(V, n, cs, Others(cs, idx)), P)
<1>1. /\ ks \in Seq(Int) /\ cs \in Seq(Nat \ {None}) /\ Len(cs) = Len(ks) + 1
      /\ KeysOrdered(ks, lo, hi) /\ KeysAbove(ks, lo) /\ Kids(V, n, ks, cs, lo, hi)
  BY DEF InnerIs
<1>2. PICK k, m : k = Len(ks) /\ m = Len(cs)
  OBVIOUS
<1>3. k \in Nat /\ m \in Nat /\ m = k + 1
  BY <1>1, <1>2, LenProperties
<1>4. PICK p, x, y, b : p = idx - 1 /\ x = 1 /\ y = 2 /\ b = (m - x) + y
  OBVIOUS
<1>5. idx \in 1 .. m /\ idx \in 1 .. k + 1 /\ nx \in 1 .. m + 1
  BY <1>2, <1>3
<1>6. qs \in Seq(Int) /\ Inserted(qs, ks, idx, sep, k)
  BY <1>1, <1>2, <1>5, InsertedAt
<1>7. r \in Seq(Nat \ {None}) /\ Replaced(r, cs, idx, id, m)
  BY <1>1, <1>2, <1>5, ReplacedAt
<1>8. m = Len(r)
  BY <1>7 DEF Replaced
<1>9. ds \in Seq(Nat \ {None}) /\ Inserted(ds, r, nx, sib, m)
  BY <1>5, <1>7, <1>8, InsertedAt
<1>10. Spliced(ds, cs, p, x, y, m) /\ ds[idx] = id /\ ds[nx] = sib
  BY <1>3, <1>4, <1>5, <1>7, <1>9, TwoForOne
<1>11. BoundsIn(qs, ks, lo, hi, idx, sep, k)
  BY <1>2, <1>3, <1>5, <1>6, BoundInserted
<1>12. BoundsAs(qs, lo, hi, ks, lo, hi, Gap(p, y, b), Shift(p, x, y, b))
  BY <1>3, <1>4, <1>5, <1>11, BoundsInAs
<1>13. Others(cs, idx) = Gap(p, x, m)
  <2>1. SameSet(Others(cs, idx), Gap(p, x, m))
    BY <1>2, <1>3, <1>4, <1>5, OthersGap
  <2> QED
    BY <2>1 DEF SameSet
<1>14. PICK Y, A : Y = Between(p, y) /\ A = Among(V, n, cs, Gap(p, x, m))
  OBVIOUS
<1>15. Y = {idx, nx} /\ idx # nx
  BY <1>4, <1>5, <1>14 DEF Between
<1>16. /\ Bound(qs, lo, hi, idx - 1) = Bound(ks, lo, hi, idx - 1)
       /\ Bound(qs, lo, hi, idx) = sep
       /\ Bound(qs, lo, hi, nx) = Bound(ks, lo, hi, idx)
  <2>1. idx - 1 \in 0 .. idx - 1 /\ idx \in idx .. k + 1
    BY <1>3, <1>5
  <2> QED
    BY <1>11, <2>1 DEF BoundsIn
<1>17. nx - 1 = idx
  BY <1>5
<1>18. NewKids(W, n, qs, ds, lo, hi, Y, A)
  <2>1. /\ Tree(W, n, ds[idx], Bound(qs, lo, hi, idx - 1), Bound(qs, lo, hi, idx))
        /\ Tree(W, n, ds[nx], Bound(qs, lo, hi, nx - 1), Bound(qs, lo, hi, nx))
    BY <1>10, <1>16, <1>17, Zenon
  <2>2. Pages(W, n, ds[idx]) \cap A = {} /\ Pages(W, n, ds[nx]) \cap A = {}
    BY <1>10, <1>13, <1>14 DEF Disjoint
  <2>3. Pages(W, n, ds[idx]) \cap Pages(W, n, ds[nx]) = {}
    BY <1>10 DEF Disjoint
  <2> QED
    BY <1>15, <2>1, <2>2, <2>3 DEF NewKids
<1>19. p \in Nat /\ x \in Nat /\ y \in Nat /\ p + x <= m
  BY <1>3, <1>4, <1>5
<1>20. /\ Kids(W, n, qs, ds, lo, hi)
       /\ IsUnion(KidPages(W, n, ds), A, Among(W, n, ds, Y))
  BY <1>1, <1>2, <1>3, <1>4, <1>10, <1>12, <1>13, <1>14, <1>18, <1>19, KidsSplice
<1>21. IsUnion(Among(W, n, ds, Y), Pages(W, n, id), Pages(W, n, sib))
  BY <1>10, <1>15 DEF Among, IsUnion
<1>22. BoundsAscend(ks, lo, hi, k)
  BY <1>1, <1>2, <1>3, BoundsOrdered
<1>23. /\ lo <= Bound(ks, lo, hi, idx - 1) /\ Bound(ks, lo, hi, idx - 1) \in Int
       /\ Bound(ks, lo, hi, idx) <= hi /\ Bound(ks, lo, hi, idx) \in Int
  <2>1. idx - 1 \in 0 .. k + 1 /\ idx \in 0 .. k + 1
    BY <1>3, <1>5
  <2> QED
    BY <1>22, <2>1 DEF BoundsAscend
<1>24. lo < sep /\ sep < hi
  BY <1>23
<1>25. \A i \in 1 .. k : ks[i] \in Int /\ Bound(ks, lo, hi, i) = ks[i] /\ lo < ks[i]
  BY <1>1, <1>2, <1>22, ElementOfSeq DEF BoundsAscend, KeysAbove
<1>26. ASSUME NEW i \in 1 .. k, i < idx PROVE ks[i] < sep
  <2>1. i = idx - 1 \/ i < idx - 1
    BY <1>5, <1>26
  <2>2. i \in 0 .. k + 1 /\ idx - 1 \in 0 .. k + 1
    BY <1>3, <1>5
  <2>3. ks[i] <= Bound(ks, lo, hi, idx - 1)
    BY <1>22, <1>25, <2>1, <2>2 DEF BoundsAscend
  <2> QED
    BY <1>23, <1>25, <2>3
<1>27. ASSUME NEW i \in 1 .. k, i >= idx PROVE sep < ks[i]
  <2>1. i = idx \/ idx < i
    BY <1>5, <1>27
  <2>2. i \in 0 .. k + 1 /\ idx \in 0 .. k + 1
    BY <1>3, <1>5
  <2>3. Bound(ks, lo, hi, idx) <= ks[i]
    BY <1>22, <1>25, <2>1, <2>2 DEF BoundsAscend
  <2> QED
    BY <1>23, <1>25, <2>3
<1>28. KeysOrdered(qs, lo, hi)
  <2>1. lo <= sep
    BY <1>24
  <2> QED
    BY <1>1, <1>2, <1>5, <1>6, <1>24, <1>26, <1>27, <2>1, KeysInsert
<1>29. KeysAbove(qs, lo)
  <2>1. Len(qs) = k + 1
    BY <1>6 DEF Inserted
  <2>2. ASSUME NEW j \in 1 .. k + 1 PROVE lo < qs[j]
    <3>1. CASE j = idx
      BY <1>6, <1>24, <3>1 DEF Inserted
    <3>2. CASE j < idx
      <4>1. j \in 1 .. k
        BY <1>3, <1>5, <3>2
      <4> QED
        BY <1>6, <1>25, <3>2, <4>1 DEF Inserted
    <3>3. CASE j > idx
      <4>1. PICK i : i = j - 1
        OBVIOUS
      <4>2. i \in 1 .. k /\ i >= idx /\ i + 1 = j
        BY <1>3, <1>5, <3>3, <4>1
      <4>3. qs[j] = ks[i]
        BY <1>6, <4>2 DEF Inserted
      <4> QED
        BY <1>25, <4>2, <4>3
    <3> QED
      BY <1>3, <1>5, <3>1, <3>2, <3>3
  <2> QED
    BY <2>1, <2>2 DEF KeysAbove
<1>30. Len(ds) = Len(qs) + 1
  <2>1. Len(ds) = m + 1 /\ Len(qs) = k + 1
    BY <1>6, <1>9 DEF Inserted
  <2> QED
    BY <1>3, <2>1
<1>31. InnerIs(W, n, qs, ds, lo, hi)
  BY <1>6, <1>9, <1>20, <1>28, <1>29, <1>30 DEF InnerIs
<1> QED
  BY <1>13, <1>14, <1>20, <1>21, <1>31

(* Two neighbours among the children.                                         *)
PairOk(V, n, cs, i, nx, G, a, sep, b) ==
    /\ \E P : /\ IsUnion(P, Pages(V, n, cs[i]), Pages(V, n, cs[nx]))
              /\ IsUnion(KidPages(V, n, cs), G, P) /\ Disjoint(G, P)
    /\ Disjoint(Pages(V, n, cs[i]), Pages(V, n, cs[nx]))
    /\ Tree(V, n, cs[i], a, sep) /\ Tree(V, n, cs[nx], sep, b)

(* Two neighbouring children, and the pages of all the others.                *)
LEMMA KidPair ==
    ASSUME NEW V, NEW n \in Nat, NEW ks, NEW cs, NEW lo, NEW hi, Kids(V, n, ks, cs, lo, hi),
           NEW m \in Nat, m = Len(cs), NEW i \in 1 .. m - 1, NEW nx, nx = i + 1,
           NEW p, p = i - 1, NEW x, x = 2
    PROVE  PairOk(V, n, cs, i, nx, Among(V, n, cs, Gap(p, x, m)),
                  Bound(ks, lo, hi, i - 1), Bound(ks, lo, hi, i), Bound(ks, lo, hi, i + 1))
<1>1. i \in 1 .. m /\ nx \in 1 .. m /\ i # nx /\ nx - 1 = i
  OBVIOUS
<1>2. PICK I : I = Gap(p, x, m)
  OBVIOUS
<1>3. 1 .. m = I \cup {i, nx} /\ i \notin I /\ nx \notin I
  BY <1>2 DEF Gap
<1>4. PICK P : P = Pages(V, n, cs[i]) \cup Pages(V, n, cs[nx])
  OBVIOUS
<1>5. KidPages(V, n, cs) = Among(V, n, cs, I) \cup P
  BY <1>3, <1>4 DEF KidPages, Among
<1>6. \A a, b \in 1 .. m : a # b => Pages(V, n, cs[a]) \cap Pages(V, n, cs[b]) = {}
  BY DEF Kids
<1>7. Among(V, n, cs, I) \cap P = {}
  <2>1. ASSUME NEW a \in I PROVE Pages(V, n, cs[a]) \cap P = {}
    <3>1. a \in 1 .. m /\ a # i /\ a # nx
      BY <1>3
    <3> QED
      BY <1>1, <1>4, <1>6, <3>1
  <2> QED
    BY <2>1 DEF Among
<1>8. /\ Tree(V, n, cs[i], Bound(ks, lo, hi, i - 1), Bound(ks, lo, hi, i))
      /\ Tree(V, n, cs[nx], Bound(ks, lo, hi, nx - 1), Bound(ks, lo, hi, nx))
  BY <1>1 DEF Kids
<1>9. /\ IsUnion(P, Pages(V, n, cs[i]), Pages(V, n, cs[nx]))
      /\ IsUnion(KidPages(V, n, cs), Among(V, n, cs, Gap(p, x, m)), P)
      /\ Disjoint(Among(V, n, cs, Gap(p, x, m)), P)
  BY <1>2, <1>4, <1>5, <1>7 DEF IsUnion, Disjoint
<1>10. Disjoint(Pages(V, n, cs[i]), Pages(V, n, cs[nx]))
  BY <1>1, <1>6 DEF Disjoint
<1>11. Tree(V, n, cs[nx], Bound(ks, lo, hi, i), Bound(ks, lo, hi, i + 1))
  BY <1>1, <1>8
<1> QED
  BY <1>8, <1>9, <1>10, <1>11 DEF PairOk

(* Two neighbours have become one.                                            *)
LEMMA InnerMerge ==
    ASSUME NEW V, NEW W, NEW n \in Nat, NEW ks, NEW cs, NEW lo \in Int, NEW hi \in Int, lo < hi,
           InnerIs(V, n, ks, cs, lo, hi), NEW m, m = Len(cs), NEW i \in 1 .. m - 1,
           NEW p, p = i - 1, NEW x, x = 2,
           Agree(V, W, Among(V, n, cs, Gap(p, x, m))), NEW id \in Nat \ {None},
           Tree(W, n, id, Bound(ks, lo, hi, i - 1), Bound(ks, lo, hi, i + 1)),
           Disjoint(Pages(W, n, id), Among(V, n, cs, Gap(p, x, m))),
           NEW qs, qs = RemoveAt(ks, i), NEW r, r = ReplaceAt(cs, i, id),
           NEW nx, nx = i + 1, NEW ds, ds = RemoveAt(r, nx)
    PROVE  /\ InnerIs(W, n, qs, ds, lo, hi)
           /\ IsUnion(KidPages(W, n, ds), Among(V, n, cs, Gap(p, x, m)), Pages(W, n, id))
<1>1. /\ ks \in Seq(Int) /\ cs \in Seq(Nat \ {None}) /\ Len(cs) = Len(ks) + 1
      /\ KeysOrdered(ks, lo, hi) /\ KeysAbove(ks, lo) /\ Kids(V, n, ks, cs, lo, hi)
  BY DEF InnerIs
<1>2. PICK k : k = Len(ks)
  OBVIOUS
<1>3. k \in Nat /\ m \in Nat /\ m = k + 1
  BY <1>1, <1>2, LenProperties
<1>4. PICK y, b : y = 1 /\ b = (m - x) + y
  OBVIOUS
<1>5. i \in 1 .. m /\ i \in 1 .. k /\ nx \in 1 .. m
  BY <1>3
<1>6. qs \in Seq(Int) /\ Shortened(qs, ks, i, k)
  BY <1>1, <1>2, <1>5, ShortenedAt
<1>7. r \in Seq(Nat \ {None}) /\ Replaced(r, cs, i, id, m)
  BY <1>1, <1>5, ReplacedAt
<1>8. m = Len(r)
  BY <1>7 DEF Replaced
<1>9. ds \in Seq(Nat \ {None}) /\ Shortened(ds, r, nx, m)
  BY <1>5, <1>7, <1>8, ShortenedAt
<1>10. Spliced(ds, cs, p, x, y, m) /\ ds[i] = id
  BY <1>3, <1>4, <1>7, <1>9, OneForTwo
<1>11. BoundsOut(qs, ks, lo, hi, i, k)
  BY <1>2, <1>3, <1>5, <1>6, BoundShortened
<1>12. /\ BoundsAs(qs, lo, hi, ks, lo, hi, Gap(p, y, b), Shift(p, x, y, b))
       /\ Bound(qs, lo, hi, i - 1) = Bound(ks, lo, hi, i - 1)
       /\ Bound(qs, lo, hi, i) = Bound(ks, lo, hi, i + 1)
  BY <1>3, <1>4, <1>5, <1>11, BoundsOutAs
<1>13. PICK Y, A : Y = Between(p, y) /\ A = Among(V, n, cs, Gap(p, x, m))
  OBVIOUS
<1>14. Y = {i}
  BY <1>4, <1>5, <1>13 DEF Between
<1>15. NewKids(W, n, qs, ds, lo, hi, Y, A)
  <2>1. Tree(W, n, ds[i], Bound(qs, lo, hi, i - 1), Bound(qs, lo, hi, i))
    BY <1>10, <1>12, Zenon
  <2>2. Pages(W, n, ds[i]) \cap A = {}
    BY <1>10, <1>13 DEF Disjoint
  <2> QED
    BY <1>14, <2>1, <2>2 DEF NewKids
<1>16. p \in Nat /\ x \in Nat /\ y \in Nat /\ p + x <= m
  BY <1>3, <1>4, <1>5
<1>17. /\ Kids(W, n, qs, ds, lo, hi)
       /\ IsUnion(KidPages(W, n, ds), A, Among(W, n, ds, Y))
  BY <1>1, <1>3, <1>4, <1>10, <1>12, <1>13, <1>15, <1>16, KidsSplice
<1>18. Among(W, n, ds, Y) = Pages(W, n, id)
  BY <1>10, <1>14 DEF Among
<1>19. PICK u, z : u = 1 /\ z = 0
  OBVIOUS
<1>20. Spliced(qs, ks, p, u, z, k)
  BY <1>3, <1>5, <1>6, <1>19, ShortSpliced
<1>21. \A j \in 1 .. k : lo <= ks[j] /\ ks[j] < hi /\ lo < ks[j]
  BY <1>1, <1>2, <1>3, KeysOrderedDef DEF KeysAbove
<1>22. KeysOrdered(qs, lo, hi)
  <2>1. \A j \in Gap(p, u, k) : lo <= ks[j] /\ ks[j] < hi
    BY <1>21 DEF Gap
  <2>2. u \in Nat /\ p + u <= k
    BY <1>3, <1>5, <1>19
  <2>3. PICK q : q = Len(qs)
    OBVIOUS
  <2> QED
    BY <1>1, <1>2, <1>3, <1>6, <1>16, <1>19, <1>20, <2>1, <2>2, <2>3, KeysSplice
<1>23. Len(qs) = k - 1 /\ Len(ds) = m - 1
  BY <1>6, <1>9 DEF Shortened
<1>24. KeysAbove(qs, lo)
  <2>1. ASSUME NEW j \in 1 .. k - 1 PROVE lo < qs[j]
    <3>1. j \in 1 .. k /\ j + 1 \in 1 .. k
      BY <1>3
    <3>2. qs[j] = ks[j] \/ qs[j] = ks[j + 1]
      BY <1>3, <1>5, <1>6 DEF Shortened
    <3> QED
      BY <1>21, <3>1, <3>2
  <2> QED
    BY <1>23, <2>1 DEF KeysAbove
<1>25. InnerIs(W, n, qs, ds, lo, hi)
  BY <1>3, <1>6, <1>9, <1>17, <1>22, <1>23, <1>24 DEF InnerIs
<1> QED
  BY <1>13, <1>17, <1>18, <1>25

(* The bounds of the two halves of a node.                                    *)
LEMMA BoundsLeft ==
    ASSUME NEW ks, NEW k \in Nat, Len(ks) = k, NEW mid \in 0 .. k - 1, NEW i, i = mid + 1,
           NEW sep, sep = ks[i], NEW k1, NEW x, x = k - mid, NEW z, z = 0,
           Spliced(k1, ks, mid, x, z, k), NEW lo, NEW hi,
           NEW m, m = k + 1, NEW u, u = m - i
    PROVE  BoundsAs(k1, lo, sep, ks, lo, hi, Gap(i, z, i), Shift(i, u, z, i))
<1>1. Len(k1) = mid /\ i \in 1 .. k
  <2>1. Len(k1) = (k - x) + z
    BY DEF Spliced
  <2> QED
    BY <2>1
<1>2. \A j \in 1 .. mid : k1[j] = ks[j]
  <2>1. \A j \in 1 .. mid : j \in 1 .. k /\ j <= mid
    OBVIOUS
  <2> QED
    BY <2>1 DEF Spliced
<1>3. BoundsOf(ks, lo, hi, k)
  BY BoundAt
<1>4. BoundsOf(k1, lo, sep, mid)
  <2>1. mid \in Nat
    OBVIOUS
  <2> QED
    BY <1>1, <2>1, BoundAt
<1>5. ASSUME NEW j \in 0 .. i PROVE Bound(k1, lo, sep, j) = Bound(ks, lo, hi, j)
  <2>1. CASE j = 0
    BY <1>3, <1>4, <2>1 DEF BoundsOf
  <2>2. CASE j \in 1 .. mid
    <3>1. j \in 1 .. k
      BY <2>2
    <3> QED
      BY <1>2, <1>3, <1>4, <2>2, <3>1 DEF BoundsOf
  <2>3. CASE j = i
    <3>1. j \in Int /\ j > mid /\ j \in 1 .. k
      BY <1>1, <2>3
    <3>2. Bound(k1, lo, sep, j) = sep /\ Bound(ks, lo, hi, j) = ks[j]
      BY <1>3, <1>4, <3>1 DEF BoundsOf
    <3> QED
      BY <2>3, <3>2
  <2> QED
    BY <2>1, <2>2, <2>3
<1>6. PICK o, J : o = Shift(i, u, z, i) /\ J = Gap(i, z, i)
  OBVIOUS
<1>7. \A j \in J : o[j] = j /\ j \in 0 .. i /\ j - 1 \in 0 .. i
  BY <1>1, <1>6 DEF Gap, Shift
<1> QED
  BY <1>5, <1>6, <1>7 DEF BoundsAs

(* The right half's children keep their bounds.                               *)
LEMMA BoundsRight ==
    ASSUME NEW ks, NEW k \in Nat, Len(ks) = k, NEW i \in 1 .. k,
           NEW sep, sep = ks[i], NEW k2, NEW z, z = 0,
           Spliced(k2, ks, z, i, z, k), NEW lo, NEW hi,
           NEW m, m = k + 1, NEW b, b = (m - i) + z
    PROVE  BoundsAs(k2, sep, hi, ks, lo, hi, Gap(z, z, b), Shift(z, i, z, b))
<1>1. PICK q : q = k - i
  OBVIOUS
<1>2. q \in Nat /\ b = q + 1
  BY <1>1
<1>3. Len(k2) = q
  <2>1. Len(k2) = (k - i) + z
    BY DEF Spliced
  <2> QED
    BY <1>1, <2>1
<1>4. ASSUME NEW j \in 1 .. q PROVE k2[j] = ks[j + i]
  <2>1. PICK t : t = j + i
    OBVIOUS
  <2>2. t \in 1 .. k /\ t > z + i /\ (t - i) + z = j
    BY <1>1, <2>1
  <2>3. k2[(t - i) + z] = ks[t]
    BY <2>2 DEF Spliced
  <2> QED
    BY <2>1, <2>2, <2>3
<1>5. BoundsOf(ks, lo, hi, k)
  BY BoundAt
<1>6. BoundsOf(k2, sep, hi, q)
  BY <1>2, <1>3, BoundAt
<1>7. ASSUME NEW j \in 0 .. b PROVE Bound(k2, sep, hi, j) = Bound(ks, lo, hi, j + i)
  <2>1. CASE j = 0
    <3>1. j + i = i
      BY <2>1
    <3> QED
      BY <1>5, <1>6, <2>1, <3>1 DEF BoundsOf
  <2>2. CASE j \in 1 .. q
    <3>1. j + i \in 1 .. k
      BY <1>1, <2>2
    <3>2. Bound(k2, sep, hi, j) = k2[j] /\ Bound(ks, lo, hi, j + i) = ks[j + i]
      BY <1>5, <1>6, <2>2, <3>1 DEF BoundsOf
    <3> QED
      BY <1>4, <2>2, <3>2
  <2>3. CASE j = b
    <3>1. j \in Int /\ j > q /\ j + i \in Int /\ j + i > k
      BY <1>1, <1>2, <2>3
    <3> QED
      BY <1>5, <1>6, <3>1 DEF BoundsOf
  <2> QED
    BY <1>2, <2>1, <2>2, <2>3
<1>8. PICK o, J : o = Shift(z, i, z, b) /\ J = Gap(z, z, b)
  OBVIOUS
<1>9. \A j \in J : o[j] = j + i /\ o[j] - 1 = (j - 1) + i /\ j \in 0 .. b /\ j - 1 \in 0 .. b
  BY <1>2, <1>8 DEF Gap, Shift
<1> QED
  BY <1>7, <1>8, <1>9 DEF BoundsAs

(* An internal node is cut in two around a key that goes up.                  *)
Cut(ks, cs, k, mid, i, t, sep, k1, c1, k2, c2) ==
    /\ k = Len(ks) /\ mid \in 0 .. k - 1 /\ i = mid + 1 /\ t = mid + 2 /\ sep = ks[i]
    /\ k1 = Until(ks, mid) /\ c1 = Until(cs, i) /\ k2 = From(ks, t) /\ c2 = From(cs, t)
CutOk(V, n, cs, k1, c1, k2, c2, lo, sep, hi) ==
    /\ InnerIs(V, n, k1, c1, lo, sep) /\ InnerIs(V, n, k2, c2, sep, hi)
    /\ sep \in Int /\ lo < sep /\ sep < hi
    /\ IsUnion(KidPages(V, n, cs), KidPages(V, n, c1), KidPages(V, n, c2))
    /\ Disjoint(KidPages(V, n, c1), KidPages(V, n, c2))

(* Both halves of a split internal node are internal nodes, without the key   *)
(* that goes up, and with the pages of the whole between them.                *)
LEMMA InnerHalves ==
    ASSUME NEW V, NEW n \in Nat, NEW ks, NEW cs, NEW lo \in Int, NEW hi \in Int, lo < hi,
           InnerIs(V, n, ks, cs, lo, hi), NEW k, NEW mid, NEW i, NEW t, NEW sep,
           NEW k1, NEW c1, NEW k2, NEW c2, Cut(ks, cs, k, mid, i, t, sep, k1, c1, k2, c2)
    PROVE  CutOk(V, n, cs, k1, c1, k2, c2, lo, sep, hi)
<1>0. /\ k = Len(ks) /\ mid \in 0 .. k - 1 /\ i = mid + 1 /\ t = mid + 2 /\ sep = ks[i]
      /\ k1 = Until(ks, mid) /\ c1 = Until(cs, i) /\ k2 = From(ks, t) /\ c2 = From(cs, t)
  BY DEF Cut
<1> USE <1>0
<1>1. /\ ks \in Seq(Int) /\ cs \in Seq(Nat \ {None}) /\ Len(cs) = Len(ks) + 1
      /\ KeysOrdered(ks, lo, hi) /\ KeysAbove(ks, lo) /\ Kids(V, n, ks, cs, lo, hi)
  BY DEF InnerIs
<1>2. PICK m, x, z, u, b : /\ m = Len(cs) /\ x = k - mid /\ z = 0 /\ u = m - i
                           /\ b = (m - i) + z
  OBVIOUS
<1>3. k \in Nat /\ m \in Nat /\ m = k + 1
  BY <1>1, <1>2, LenProperties
<1>4. /\ mid \in 0 .. k /\ i \in 0 .. m /\ i \in 0 .. k /\ t = i + 1 /\ i \in 1 .. k
      /\ x \in Nat /\ mid + x <= k /\ u \in Nat /\ i + u <= m /\ b = k - mid
      /\ i = (m - u) + z /\ i \in Nat /\ z \in Nat /\ z + i <= m /\ z + i <= k /\ mid \in Nat
  BY <1>2, <1>3
<1>5. k1 \in Seq(Int) /\ Spliced(k1, ks, mid, x, z, k)
  BY <1>1, <1>2, <1>4, UntilSpliced
<1>6. c1 \in Seq(Nat \ {None}) /\ Spliced(c1, cs, i, u, z, m)
  BY <1>1, <1>2, <1>4, UntilSpliced
<1>7. k2 \in Seq(Int) /\ Spliced(k2, ks, z, i, z, k)
  BY <1>1, <1>2, <1>4, FromSpliced
<1>8. c2 \in Seq(Nat \ {None}) /\ Spliced(c2, cs, z, i, z, m)
  BY <1>1, <1>2, <1>4, FromSpliced
<1>40. /\ k \in Nat /\ mid \in 0 .. k - 1 /\ i = mid + 1 /\ t = mid + 2 /\ m = k + 1
       /\ x = k - mid /\ z = 0 /\ u = m - i
  BY <1>2, <1>3
<1>9. /\ Len(k1) = (k - x) + z /\ Len(c1) = (m - u) + z
      /\ Len(k2) = (k - i) + z /\ Len(c2) = (m - i) + z
  BY <1>5, <1>6, <1>7, <1>8, Zenon DEF Spliced
<1>10. /\ Len(k1) = mid /\ Len(c1) = Len(k1) + 1 /\ Len(k2) = k - i
       /\ Len(c2) = Len(k2) + 1
  <2>1. PICK d1, d2, d3, d4 : /\ d1 = (k - x) + z /\ d2 = (m - u) + z
                              /\ d3 = (k - i) + z /\ d4 = (m - i) + z
    OBVIOUS
  <2>2. d1 = mid /\ d2 = d1 + 1 /\ d3 = k - i /\ d4 = d3 + 1
    BY <1>40, <2>1
  <2> QED
    BY <1>9, <2>1, <2>2
<1>11. /\ \A j \in 1 .. k : lo <= ks[j] /\ ks[j] < hi /\ lo < ks[j]
       /\ \A a, c \in 1 .. k : a < c => ks[a] < ks[c]
       /\ \A j \in 1 .. k : ks[j] \in Int
  BY <1>1, <1>3, KeysOrderedDef, ElementOfSeq DEF KeysAbove
<1>12. sep \in Int /\ lo < sep /\ sep < hi
  BY <1>4, <1>11
<1>13. BoundsAs(k1, lo, sep, ks, lo, hi, Gap(i, z, i), Shift(i, u, z, i))
  BY <1>2, <1>3, <1>5, BoundsLeft
<1>14. BoundsAs(k2, sep, hi, ks, lo, hi, Gap(z, z, b), Shift(z, i, z, b))
  BY <1>2, <1>3, <1>4, <1>7, BoundsRight
<1>15. PICK A, B : A = Among(V, n, cs, Gap(i, u, m)) /\ B = Among(V, n, cs, Gap(z, i, m))
  OBVIOUS
<1>16. Agree(V, V, A) /\ Agree(V, V, B)
  BY DEF Agree
<1>17. NewKids(V, n, k1, c1, lo, sep, Between(i, z), A)
  BY <1>2, <1>4 DEF NewKids, Between
<1>18. NewKids(V, n, k2, c2, sep, hi, Between(z, z), B)
  BY <1>2 DEF NewKids, Between
<1>19. /\ Kids(V, n, k1, c1, lo, sep)
       /\ IsUnion(KidPages(V, n, c1), A, Among(V, n, c1, Between(i, z)))
  BY <1>1, <1>2, <1>3, <1>4, <1>6, <1>13, <1>15, <1>16, <1>17, KidsSplice
<1>20. /\ Kids(V, n, k2, c2, sep, hi)
       /\ IsUnion(KidPages(V, n, c2), B, Among(V, n, c2, Between(z, z)))
  BY <1>1, <1>2, <1>3, <1>4, <1>8, <1>14, <1>15, <1>16, <1>18, KidsSplice
<1>21. Between(i, z) = {} /\ Between(z, z) = {}
  BY <1>2, <1>4 DEF Between
<1>22. KidPages(V, n, c1) = A /\ KidPages(V, n, c2) = B
  BY <1>19, <1>20, <1>21 DEF IsUnion, Among
<1>23. PICK X, Y : X = Gap(i, u, m) /\ Y = Gap(z, i, m)
  OBVIOUS
<1>24. X = 1 .. i /\ Y = t .. m
  <2>1. X = 1 .. i
    BY <1>40, <1>23 DEF Gap
  <2>2. Y = t .. m
    BY <1>40, <1>23 DEF Gap
  <2> QED
    BY <2>1, <2>2
<1>25. 1 .. m = X \cup Y /\ \A a \in X, c \in Y : a # c /\ a \in 1 .. m /\ c \in 1 .. m
  BY <1>3, <1>4, <1>24
<1>26. KidPages(V, n, cs) = A \cup B
  BY <1>2, <1>15, <1>23, <1>25 DEF KidPages, Among
<1>27. A \cap B = {}
  <2>1. \A a, c \in 1 .. m : a # c => Pages(V, n, cs[a]) \cap Pages(V, n, cs[c]) = {}
    BY <1>1, <1>2 DEF Kids
  <2>2. \A a \in X, c \in Y : Pages(V, n, cs[a]) \cap Pages(V, n, cs[c]) = {}
    BY <1>25, <2>1
  <2>3. A = UNION {Pages(V, n, cs[a]) : a \in X} /\ B = UNION {Pages(V, n, cs[a]) : a \in Y}
    BY <1>15, <1>23 DEF Among
  <2>4. ASSUME NEW q, q \in A, q \in B PROVE FALSE
    <3>1. PICK a \in X : q \in Pages(V, n, cs[a])
      BY <2>3, <2>4
    <3>2. PICK c \in Y : q \in Pages(V, n, cs[c])
      BY <2>3, <2>4
    <3> QED
      BY <2>2, <3>1, <3>2
  <2> QED
    BY <2>4
<1>28. KeysOrdered(k1, lo, sep) /\ KeysAbove(k1, lo)
  <2>1. ASSUME NEW j \in Gap(mid, x, k) PROVE lo <= ks[j] /\ ks[j] < sep
    <3>1. j \in 1 .. k /\ j < i
      BY <1>2, <1>3, <1>4 DEF Gap
    <3> QED
      BY <1>4, <1>11, <3>1
  <2>2. KeysOrdered(k1, lo, sep)
    BY <1>1, <1>2, <1>3, <1>4, <1>5, <2>1, KeysSplice
  <2>3. ASSUME NEW j \in 1 .. mid PROVE lo < k1[j]
    <3>1. j \in 1 .. k /\ j <= mid
      BY <1>4
    <3>2. k1[j] = ks[j]
      BY <1>5, <3>1 DEF Spliced
    <3> QED
      BY <1>11, <3>1, <3>2
  <2> QED
    BY <1>10, <2>2, <2>3 DEF KeysAbove
<1>29. KeysOrdered(k2, sep, hi) /\ KeysAbove(k2, sep)
  <2>1. ASSUME NEW j \in Gap(z, i, k) PROVE sep <= ks[j] /\ ks[j] < hi
    <3>1. j \in 1 .. k /\ i < j
      BY <1>2, <1>3, <1>4 DEF Gap
    <3> QED
      BY <1>4, <1>11, <1>12, <3>1
  <2>2. KeysOrdered(k2, sep, hi)
    BY <1>1, <1>2, <1>3, <1>4, <1>7, <2>1, KeysSplice
  <2>3. ASSUME NEW j \in 1 .. k - i PROVE sep < k2[j]
    <3>1. PICK a : a = j + i
      OBVIOUS
    <3>2. a \in 1 .. k /\ a > z + i /\ (a - i) + z = j /\ i < a
      BY <1>40, <3>1
    <3>3. k2[(a - i) + z] = ks[a]
      BY <1>7, <3>2 DEF Spliced
    <3> QED
      BY <1>4, <1>11, <3>2, <3>3
  <2> QED
    BY <1>10, <2>2, <2>3 DEF KeysAbove
<1>30. InnerIs(V, n, k1, c1, lo, sep) /\ InnerIs(V, n, k2, c2, sep, hi)
  BY <1>5, <1>6, <1>7, <1>8, <1>10, <1>19, <1>20, <1>28, <1>29 DEF InnerIs
<1> QED
  BY <1>12, <1>22, <1>26, <1>27, <1>30 DEF IsUnion, Disjoint, CutOk

(* Keys around a separator.                                                   *)
Around(d, s, e, t, m, n) ==
    /\ Len(d) = (m + 1) + n /\ d[m + 1] = e
    /\ \A j \in 1 .. m : d[j] = s[j]
    /\ \A j \in 1 .. n : d[(m + 1) + j] = t[j]

(* Two key sequences with the separator between them.                         *)
LEMMA AroundAt ==
    ASSUME NEW S, NEW s \in Seq(S), NEW t \in Seq(S), NEW e \in S, NEW m, NEW n,
           Len(s) = m, Len(t) = n, NEW d, d = s \o <<e>> \o t
    PROVE  d \in Seq(S) /\ Around(d, s, e, t, m, n)
<1>1. PICK b, k, c : b = <<e>> /\ k = 1 /\ c = s \o b
  OBVIOUS
<1>2. b \in Seq(S) /\ Len(b) = k /\ b[1] = e
  BY <1>1
<1>3. c \in Seq(S) /\ Joined(c, s, b, m, k)
  BY <1>1, <1>2, JoinedAt
<1>4. m \in Nat /\ n \in Nat
  BY LenProperties
<1>5. PICK l : l = m + k
  OBVIOUS
<1>6. Len(c) = l
  BY <1>3, <1>5 DEF Joined
<1>7. d = c \o t
  BY <1>1
<1>8. d \in Seq(S) /\ Joined(d, c, t, l, n)
  BY <1>3, <1>6, <1>7, JoinedAt
<1>9. l = m + 1 /\ l \in 1 .. l /\ \A j \in 1 .. m : j \in 1 .. l
  BY <1>1, <1>4, <1>5
<1>10. d[l] = c[l] /\ c[l] = e
  <2>1. 1 \in 1 .. k
    BY <1>1
  <2>2. c[m + 1] = b[1]
    BY <1>3, <2>1 DEF Joined
  <2> QED
    BY <1>2, <1>8, <1>9, <2>2 DEF Joined
<1>11. \A j \in 1 .. m : d[j] = s[j]
  BY <1>3, <1>8, <1>9 DEF Joined
<1>12. Len(d) = l + n /\ \A j \in 1 .. n : d[l + j] = t[j]
  BY <1>8 DEF Joined
<1> QED
  BY <1>8, <1>9, <1>10, <1>11, <1>12 DEF Around

(* They ascend.                                                               *)
LEMMA KeysAround ==
    ASSUME NEW k1 \in Seq(Int), NEW k2 \in Seq(Int), NEW a \in Nat, NEW e \in Nat,
           Len(k1) = a, Len(k2) = e, NEW lo \in Int, NEW sep \in Int, NEW hi \in Int,
           lo < sep, sep < hi, KeysOrdered(k1, lo, sep), KeysAbove(k1, lo),
           KeysOrdered(k2, sep, hi), KeysAbove(k2, sep),
           NEW qs \in Seq(Int), Around(qs, k1, sep, k2, a, e)
    PROVE  KeysOrdered(qs, lo, hi) /\ KeysAbove(qs, lo)
<1>1. /\ \A i \in 1 .. a : lo < k1[i] /\ k1[i] < sep /\ k1[i] \in Int
      /\ \A i, j \in 1 .. a : i < j => k1[i] < k1[j]
  BY KeysOrderedDef, ElementOfSeq DEF KeysAbove
<1>2. /\ \A i \in 1 .. e : sep < k2[i] /\ k2[i] < hi /\ k2[i] \in Int
      /\ \A i, j \in 1 .. e : i < j => k2[i] < k2[j]
  BY KeysOrderedDef, ElementOfSeq DEF KeysAbove
<1>3. PICK b : b = (a + 1) + e
  OBVIOUS
<1>4. b \in Nat /\ Len(qs) = b
  BY <1>3 DEF Around
<1>5. \A i \in 1 .. a : qs[i] = k1[i]
  BY DEF Around
<1>6. qs[a + 1] = sep
  BY DEF Around
<1>7. ASSUME NEW i \in 1 .. b, i > a + 1
      PROVE  i - (a + 1) \in 1 .. e /\ qs[i] = k2[i - (a + 1)]
  <2>1. PICK j : j = i - (a + 1)
    OBVIOUS
  <2>2. j \in 1 .. e /\ (a + 1) + j = i
    BY <1>3, <1>7, <2>1
  <2>3. qs[(a + 1) + j] = k2[j]
    BY <2>2 DEF Around
  <2> QED
    BY <2>1, <2>2, <2>3
<1>8. ASSUME NEW i \in 1 .. b PROVE i \in 1 .. a \/ i = a + 1 \/ i > a + 1
  OBVIOUS
<1>9. ASSUME NEW i \in 1 .. b PROVE lo < qs[i] /\ qs[i] < hi /\ qs[i] \in Int
  <2>1. CASE i \in 1 .. a
    BY <1>1, <1>5, <2>1
  <2>2. CASE i = a + 1
    BY <1>6, <2>2
  <2>3. CASE i > a + 1
    BY <1>2, <1>7, <2>3
  <2> QED
    BY <1>8, <2>1, <2>2, <2>3
<1>10. ASSUME NEW i \in 1 .. b, NEW j \in 1 .. b, i < j PROVE qs[i] < qs[j]
  <2>1. CASE i \in 1 .. a
    <3>1. CASE j \in 1 .. a
      BY <1>1, <1>5, <1>10, <2>1, <3>1
    <3>2. CASE j = a + 1
      BY <1>1, <1>5, <1>6, <2>1, <3>2
    <3>3. CASE j > a + 1
      <4>1. qs[i] < sep /\ qs[i] \in Int
        BY <1>1, <1>5, <2>1
      <4>2. sep < qs[j] /\ qs[j] \in Int
        BY <1>2, <1>7, <3>3
      <4> QED
        BY <4>1, <4>2
    <3> QED
      BY <1>8, <3>1, <3>2, <3>3
  <2>2. CASE i = a + 1
    <3>1. j > a + 1
      BY <1>10, <2>2
    <3> QED
      BY <1>2, <1>6, <1>7, <2>2, <3>1
  <2>3. CASE i > a + 1
    <3>1. j > a + 1
      BY <1>10, <2>3
    <3>2. PICK u, v : u = i - (a + 1) /\ v = j - (a + 1)
      OBVIOUS
    <3>3. u \in 1 .. e /\ v \in 1 .. e /\ u < v
      BY <1>7, <1>10, <2>3, <3>1, <3>2
    <3>4. qs[i] = k2[u] /\ qs[j] = k2[v]
      BY <1>7, <2>3, <3>1, <3>2
    <3> QED
      BY <1>2, <3>3, <3>4
  <2> QED
    BY <1>8, <2>1, <2>2, <2>3
<1>11. \A i \in 1 .. b : lo <= qs[i] /\ qs[i] < hi
  BY <1>9
<1>12. KeysOrdered(qs, lo, hi)
  BY <1>4, <1>10, <1>11, KeysOrderedDef
<1> QED
  BY <1>4, <1>9, <1>12 DEF KeysAbove

(* The bounds of joined nodes.                                                *)
BoundsJoin(qs, k1, sep, k2, lo, hi, a, e) ==
    /\ \A j \in 0 .. a + 1 : Bound(qs, lo, hi, j) = Bound(k1, lo, sep, j)
    /\ \A j \in 0 .. e + 1 : Bound(qs, lo, hi, (a + 1) + j) = Bound(k2, sep, hi, j)

(* The children of both keep their bounds.                                    *)
LEMMA BoundsAround ==
    ASSUME NEW k1, NEW k2, NEW a \in Nat, NEW e \in Nat, Len(k1) = a, Len(k2) = e,
           NEW lo, NEW sep, NEW hi, NEW qs, Around(qs, k1, sep, k2, a, e)
    PROVE  BoundsJoin(qs, k1, sep, k2, lo, hi, a, e)
<1>1. PICK b : b = (a + 1) + e
  OBVIOUS
<1>2. b \in Nat /\ Len(qs) = b
  BY <1>1 DEF Around
<1>3. BoundsOf(k1, lo, sep, a)
  BY BoundAt
<1>4. BoundsOf(k2, sep, hi, e)
  BY BoundAt
<1>5. BoundsOf(qs, lo, hi, b)
  BY <1>2, BoundAt
<1>6. ASSUME NEW j \in 0 .. a + 1 PROVE Bound(qs, lo, hi, j) = Bound(k1, lo, sep, j)
  <2>1. CASE j = 0
    BY <1>3, <1>5, <2>1 DEF BoundsOf
  <2>2. CASE j \in 1 .. a
    <3>1. j \in 1 .. b /\ qs[j] = k1[j]
      BY <1>1, <2>2 DEF Around
    <3> QED
      BY <1>3, <1>5, <2>2, <3>1 DEF BoundsOf
  <2>3. CASE j = a + 1
    <3>1. j \in 1 .. b /\ qs[j] = sep /\ j \in Int /\ j > a
      BY <1>1, <2>3 DEF Around
    <3> QED
      BY <1>3, <1>5, <3>1 DEF BoundsOf
  <2> QED
    BY <2>1, <2>2, <2>3
<1>7. ASSUME NEW j \in 0 .. e + 1
      PROVE  Bound(qs, lo, hi, (a + 1) + j) = Bound(k2, sep, hi, j)
  <2>0. PICK t : t = (a + 1) + j
    OBVIOUS
  <2>1. CASE j = 0
    <3>1. t \in 1 .. b /\ t = a + 1
      BY <1>1, <2>0, <2>1
    <3>2. qs[t] = sep
      BY <3>1 DEF Around
    <3> QED
      BY <1>4, <1>5, <2>0, <2>1, <3>1, <3>2 DEF BoundsOf
  <2>2. CASE j \in 1 .. e
    <3>1. t \in 1 .. b
      BY <1>1, <2>0, <2>2
    <3>2. qs[t] = k2[j]
      BY <2>0, <2>2 DEF Around
    <3> QED
      BY <1>4, <1>5, <2>0, <2>2, <3>1, <3>2 DEF BoundsOf
  <2>3. CASE j = e + 1
    <3>1. t \in Int /\ t > b /\ j \in Int /\ j > e
      BY <1>1, <2>0, <2>3
    <3> QED
      BY <1>4, <1>5, <2>0, <3>1 DEF BoundsOf
  <2> QED
    BY <2>1, <2>2, <2>3
<1> QED
  BY <1>6, <1>7 DEF BoundsJoin

(* Two internal nodes are joined, with the separator that was between them.   *)
JoinOk(V, n, qs, ds, c1, c2, lo, hi) ==
    /\ InnerIs(V, n, qs, ds, lo, hi)
    /\ IsUnion(KidPages(V, n, ds), KidPages(V, n, c1), KidPages(V, n, c2))

(* Two neighbouring internal nodes and their separator make one, with the     *)
(* pages of both.                                                             *)
LEMMA InnerJoin ==
    ASSUME NEW V, NEW n \in Nat, NEW k1, NEW c1, NEW k2, NEW c2,
           NEW lo \in Int, NEW sep \in Int, NEW hi \in Int, lo < sep, sep < hi,
           InnerIs(V, n, k1, c1, lo, sep), InnerIs(V, n, k2, c2, sep, hi),
           Disjoint(KidPages(V, n, c1), KidPages(V, n, c2)),
           NEW qs, qs = k1 \o <<sep>> \o k2, NEW ds, ds = c1 \o c2
    PROVE  JoinOk(V, n, qs, ds, c1, c2, lo, hi)
<1>1. /\ k1 \in Seq(Int) /\ c1 \in Seq(Nat \ {None}) /\ Len(c1) = Len(k1) + 1
      /\ KeysOrdered(k1, lo, sep) /\ KeysAbove(k1, lo) /\ Kids(V, n, k1, c1, lo, sep)
  BY DEF InnerIs
<1>2. /\ k2 \in Seq(Int) /\ c2 \in Seq(Nat \ {None}) /\ Len(c2) = Len(k2) + 1
      /\ KeysOrdered(k2, sep, hi) /\ KeysAbove(k2, sep) /\ Kids(V, n, k2, c2, sep, hi)
  BY DEF InnerIs
<1>3. PICK a, e, u, w : a = Len(k1) /\ e = Len(k2) /\ u = Len(c1) /\ w = Len(c2)
  OBVIOUS
<1>4. a \in Nat /\ e \in Nat /\ u = a + 1 /\ w = e + 1
  BY <1>1, <1>2, <1>3, LenProperties
<1>5. qs \in Seq(Int) /\ Around(qs, k1, sep, k2, a, e)
  BY <1>1, <1>2, <1>3, AroundAt
<1>6. KeysOrdered(qs, lo, hi) /\ KeysAbove(qs, lo)
  BY <1>1, <1>2, <1>3, <1>4, <1>5, KeysAround
<1>7. BoundsJoin(qs, k1, sep, k2, lo, hi, a, e)
  BY <1>3, <1>4, <1>5, BoundsAround
<1>8. ds \in Seq(Nat \ {None}) /\ Joined(ds, c1, c2, u, w)
  BY <1>1, <1>2, <1>3, JoinedAt
<1>9. PICK b : b = u + w
  OBVIOUS
<1>10. b \in Nat /\ Len(ds) = b
  BY <1>4, <1>8, <1>9 DEF Joined
<1>11. Len(ds) = Len(qs) + 1
  <2>1. PICK q : q = (a + 1) + e
    OBVIOUS
  <2>2. Len(qs) = q
    BY <1>5, <2>1 DEF Around
  <2>3. b = q + 1
    BY <1>4, <1>9, <2>1
  <2> QED
    BY <1>10, <2>2, <2>3
<1>12. \A j \in 1 .. u : ds[j] = c1[j]
  BY <1>8 DEF Joined
<1>13. ASSUME NEW j \in 1 .. b, ~(j \in 1 .. u)
       PROVE  j - u \in 1 .. w /\ ds[j] = c2[j - u] /\ u + (j - u) = j
  <2>1. PICK t : t = j - u
    OBVIOUS
  <2>2. t \in 1 .. w /\ u + t = j
    BY <1>4, <1>9, <1>13, <2>1
  <2>3. ds[u + t] = c2[t]
    BY <1>8, <2>2 DEF Joined
  <2> QED
    BY <2>1, <2>2, <2>3
<1>14. PICK g : g = [j \in 1 .. b |-> Pages(V, n, ds[j])]
  OBVIOUS
<1>15. \A i, j \in 1 .. u : i # j => Pages(V, n, c1[i]) \cap Pages(V, n, c1[j]) = {}
  BY <1>1, <1>3 DEF Kids
<1>16. \A i, j \in 1 .. w : i # j => Pages(V, n, c2[i]) \cap Pages(V, n, c2[j]) = {}
  BY <1>2, <1>3 DEF Kids
<1>17. \A i \in 1 .. u, j \in 1 .. w : Pages(V, n, c1[i]) \cap Pages(V, n, c2[j]) = {}
  <2>1. \A i \in 1 .. u : Pages(V, n, c1[i]) \subseteq KidPages(V, n, c1)
    BY <1>3 DEF KidPages
  <2>2. \A i \in 1 .. w : Pages(V, n, c2[i]) \subseteq KidPages(V, n, c2)
    BY <1>3 DEF KidPages
  <2> QED
    BY <2>1, <2>2 DEF Disjoint
<1>18. ASSUME NEW i \in 1 .. b, NEW j \in 1 .. b, i # j
       PROVE  Pages(V, n, ds[i]) \cap Pages(V, n, ds[j]) = {}
  <2>1. CASE i \in 1 .. u /\ j \in 1 .. u
    BY <1>12, <1>15, <1>18, <2>1
  <2>2. CASE i \in 1 .. u /\ ~(j \in 1 .. u)
    BY <1>12, <1>13, <1>17, <2>2
  <2>3. CASE ~(i \in 1 .. u) /\ j \in 1 .. u
    <3>1. i - u \in 1 .. w /\ ds[i] = c2[i - u]
      BY <1>13, <2>3
    <3>2. Pages(V, n, c1[j]) \cap Pages(V, n, c2[i - u]) = {}
      BY <1>17, <2>3, <3>1
    <3> QED
      BY <1>12, <2>3, <3>1, <3>2
  <2>4. CASE ~(i \in 1 .. u) /\ ~(j \in 1 .. u)
    <3>1. PICK s, t : s = i - u /\ t = j - u
      OBVIOUS
    <3>2. s \in 1 .. w /\ t \in 1 .. w /\ ds[i] = c2[s] /\ ds[j] = c2[t]
      BY <1>13, <2>4, <3>1
    <3>3. s # t
      BY <1>4, <1>18, <3>1
    <3> QED
      BY <1>16, <3>2, <3>3
  <2> QED
    BY <2>1, <2>2, <2>3, <2>4
<1>19. ASSUME NEW j \in 1 .. b
       PROVE  Tree(V, n, ds[j], Bound(qs, lo, hi, j - 1), Bound(qs, lo, hi, j))
  <2>1. CASE j \in 1 .. u
    <3>1. Tree(V, n, c1[j], Bound(k1, lo, sep, j - 1), Bound(k1, lo, sep, j))
      BY <1>1, <1>3, <2>1 DEF Kids
    <3>2. j \in 0 .. a + 1 /\ j - 1 \in 0 .. a + 1
      BY <1>4, <2>1
    <3>3. /\ Bound(qs, lo, hi, j) = Bound(k1, lo, sep, j)
          /\ Bound(qs, lo, hi, j - 1) = Bound(k1, lo, sep, j - 1)
      BY <1>7, <3>2 DEF BoundsJoin
    <3> QED
      BY <1>12, <2>1, <3>1, <3>3
  <2>2. CASE ~(j \in 1 .. u)
    <3>1. PICK t : t = j - u
      OBVIOUS
    <3>2. t \in 1 .. w /\ ds[j] = c2[t]
      BY <1>13, <2>2, <3>1
    <3>3. Tree(V, n, c2[t], Bound(k2, sep, hi, t - 1), Bound(k2, sep, hi, t))
      BY <1>2, <1>3, <3>2 DEF Kids
    <3>4. /\ t \in 0 .. e + 1 /\ t - 1 \in 0 .. e + 1
          /\ (a + 1) + t = j /\ (a + 1) + (t - 1) = j - 1
      BY <1>4, <3>1, <3>2
    <3>5. /\ Bound(qs, lo, hi, (a + 1) + t) = Bound(k2, sep, hi, t)
          /\ Bound(qs, lo, hi, (a + 1) + (t - 1)) = Bound(k2, sep, hi, t - 1)
      BY <1>7, <3>4 DEF BoundsJoin
    <3> QED
      BY <3>2, <3>3, <3>4, <3>5
  <2> QED
    BY <2>1, <2>2
<1>20. Kids(V, n, qs, ds, lo, hi)
  BY <1>10, <1>18, <1>19 DEF Kids
<1>21. IsUnion(KidPages(V, n, ds), KidPages(V, n, c1), KidPages(V, n, c2))
  <2>1. PICK A, B, C : A = KidPages(V, n, ds) /\ B = KidPages(V, n, c1) /\ C = KidPages(V, n, c2)
    OBVIOUS
  <2>2. /\ A = UNION {Pages(V, n, ds[i]) : i \in 1 .. b}
        /\ B = UNION {Pages(V, n, c1[i]) : i \in 1 .. u}
        /\ C = UNION {Pages(V, n, c2[i]) : i \in 1 .. w}
    BY <1>3, <1>10, <2>1 DEF KidPages
  <2>3. ASSUME NEW q \in A PROVE q \in B \cup C
    <3>1. PICK j \in 1 .. b : q \in Pages(V, n, ds[j])
      BY <2>2
    <3>2. CASE j \in 1 .. u
      BY <1>12, <2>2, <3>1, <3>2
    <3>3. CASE ~(j \in 1 .. u)
      BY <1>13, <2>2, <3>1, <3>3
    <3> QED
      BY <3>2, <3>3
  <2>4. ASSUME NEW q \in B PROVE q \in A
    <3>1. PICK j \in 1 .. u : q \in Pages(V, n, c1[j])
      BY <2>2
    <3>2. j \in 1 .. b
      BY <1>4, <1>9
    <3> QED
      BY <1>12, <2>2, <3>1, <3>2
  <2>5. ASSUME NEW q \in C PROVE q \in A
    <3>1. PICK j \in 1 .. w : q \in Pages(V, n, c2[j])
      BY <2>2
    <3>2. u + j \in 1 .. b
      BY <1>4, <1>9
    <3>3. ds[u + j] = c2[j]
      BY <1>8 DEF Joined
    <3> QED
      BY <2>2, <3>1, <3>2, <3>3
  <2>6. A \subseteq B \cup C /\ B \cup C \subseteq A
    BY <2>3, <2>4, <2>5
  <2> QED
    BY <2>1, <2>6 DEF IsUnion
<1> QED
  BY <1>5, <1>6, <1>8, <1>11, <1>20, <1>21 DEF InnerIs, JoinOk

-------------------------------------------------------------------------------
(* A node that is split has entries for both halves.                          *)

(* A leaf beyond SPLIT_THRESHOLD has two entries or more: neither half is     *)
(* empty.                                                                     *)
LEMMA LeafLarge ==
    ASSUME NEW V, NEW ks, NEW vs, NEW lo, NEW hi, LeafIs(V, ks, vs, lo, hi),
           ~(encoded_len(Leaf(ks, vs)) <= SPLIT_THRESHOLD), NEW m, m = Len(ks)
    PROVE  m \in Nat /\ m \div 2 \in 1 .. m - 1
<1>1. ks \in Seq(Int) /\ vs \in Seq(ValueSet) /\ Len(vs) = m /\ m \in Nat
  BY LenProperties DEF LeafIs
<1>2. encoded_len(Leaf(ks, vs)) = m * KEY_SIZE + ValuesSize(vs)
  BY DEF encoded_len, Leaf
<1>3. /\ SPLIT_THRESHOLD \in Nat /\ INLINE_VALUE_LIMIT \in Nat /\ KEY_SIZE \in Nat
      /\ REFERENCE_SIZE \in Nat
  BY BTreeAssumption
<1>4. m # 0
  <2>1. SUFFICES ASSUME m = 0 PROVE FALSE
    OBVIOUS
  <2>2. ValuesSize(vs) = 0
    BY <1>1, <2>1, NoValueSize
  <2>3. m * KEY_SIZE = 0
    BY <1>3, <2>1
  <2> QED
    BY <1>2, <1>3, <2>2, <2>3
<1>5. m # 1
  <2>1. SUFFICES ASSUME m = 1 PROVE FALSE
    OBVIOUS
  <2>2. ValuesSize(vs) = 0 + ValueSize(vs[1])
    BY <1>1, <2>1, OneValueSize
  <2>3. ValueOk(V, vs[1])
    BY <1>1, <2>1 DEF LeafIs, ValuesApart
  <2>4. PICK v : v = vs[1]
    OBVIOUS
  <2>5. ValueSize(v) \in Nat /\ KEY_SIZE + ValueSize(v) <= SPLIT_THRESHOLD
    <3>1. CASE InlineOk(v)
      <4>1. v.inline = TRUE
        BY <3>1 DEF InlineOk, Inline
      <4>2. v.bytes \in Seq(Int) /\ Len(v.bytes) <= INLINE_VALUE_LIMIT
        BY <3>1 DEF InlineOk
      <4>3. PICK l : l = Len(v.bytes)
        OBVIOUS
      <4>4. l \in Nat /\ l <= INLINE_VALUE_LIMIT
        BY <4>2, <4>3, LenProperties
      <4>5. ValueSize(v) = l
        BY <4>1, <4>3 DEF ValueSize
      <4> QED
        BY <1>3, <4>4, <4>5, EntriesFit
    <3>2. CASE ChainedOk(V, v)
      <4>1. v.inline = FALSE
        BY <3>2 DEF ChainedOk, Overflow
      <4>2. ValueSize(v) = REFERENCE_SIZE
        BY <4>1 DEF ValueSize
      <4> QED
        BY <1>3, <4>2, EntriesFit
    <3> QED
      BY <2>3, <2>4, <3>1, <3>2 DEF ValueOk
  <2>6. m * KEY_SIZE = KEY_SIZE
    BY <1>3, <2>1
  <2>7. encoded_len(Leaf(ks, vs)) = KEY_SIZE + ValueSize(v)
    BY <1>2, <1>3, <2>2, <2>4, <2>5, <2>6
  <2> QED
    BY <2>5, <2>7
<1> QED
  BY <1>1, <1>4, <1>5

(* An internal node beyond it has a key to give away.                         *)
LEMMA InnerLarge ==
    ASSUME NEW V, NEW n, NEW ks, NEW cs, NEW lo, NEW hi, InnerIs(V, n, ks, cs, lo, hi),
           ~(encoded_len(Internal(ks, cs)) <= SPLIT_THRESHOLD), NEW m, m = Len(ks)
    PROVE  m \in Nat /\ m \div 2 \in 0 .. m - 1
<1>1. ks \in Seq(Int) /\ Len(cs) = m + 1 /\ m \in Nat
  BY LenProperties DEF InnerIs
<1>2. encoded_len(Internal(ks, cs)) = m * KEY_SIZE + (m + 1) * POINTER_SIZE
  BY <1>1 DEF encoded_len, Internal
<1>3. SPLIT_THRESHOLD \in Nat /\ KEY_SIZE \in Nat /\ POINTER_SIZE \in Nat
  BY BTreeAssumption
<1>4. m # 0
  <2>1. SUFFICES ASSUME m = 0 PROVE FALSE
    OBVIOUS
  <2>2. m * KEY_SIZE = 0 /\ (m + 1) * POINTER_SIZE = POINTER_SIZE
    BY <1>3, <2>1
  <2>3. encoded_len(Internal(ks, cs)) = POINTER_SIZE
    BY <1>2, <1>3, <2>2
  <2> QED
    BY <2>3, EntriesFit
<1> QED
  BY <1>1, <1>4

-------------------------------------------------------------------------------
(* Sequences of page ids.                                                     *)

Elems(s) == {s[i] : i \in 1 .. Len(s)}
Distinct(s) == \A i, j \in 1 .. Len(s) : s[i] = s[j] => i = j
Without(A, B, e) == A = B \ {e} /\ e \in B

(* Elems and Distinct in the words of the community modules.                  *)
LEMMA ElemsLib ==
    ASSUME NEW S, NEW s \in Seq(S)
    PROVE  ToSet(s) = Elems(s) /\ (IsInjective(s) <=> Distinct(s))
<1>1. DOMAIN s = 1 .. Len(s)
  BY LenProperties
<1> QED
  BY <1>1 DEF ToSet, Elems, IsInjective, Distinct

(* Taking the last page id, as alloc does from scratch_pool.                  *)
LEMMA FrontIds ==
    ASSUME NEW S, NEW s \in Seq(S), s # <<>>, Distinct(s), NEW d, d = Front(s),
           NEW e, e = Last(s)
    PROVE  d \in Seq(S) /\ Distinct(d) /\ Without(Elems(d), Elems(s), e)
<1>1. PICK m : m = Len(s)
  OBVIOUS
<1>2. /\ d \in Seq(S) /\ Len(d) = m - 1 /\ m \in Nat \ {0}
      /\ \A j \in 1 .. m - 1 : d[j] = s[j]
      /\ e = s[m]
  BY <1>1, FrontFacts
<1>3. \A j \in 1 .. m - 1 : j \in 1 .. m /\ j # m
  BY <1>2
<1>4. \A i, j \in 1 .. m : s[i] = s[j] => i = j
  BY <1>1 DEF Distinct
<1>5. Distinct(d)
  BY <1>2, <1>3, <1>4 DEF Distinct
<1>6. Elems(d) = {s[j] : j \in 1 .. m - 1}
  BY <1>2 DEF Elems
<1>7. m \in 1 .. m /\ \A j \in 1 .. m : j = m \/ j \in 1 .. m - 1
  BY <1>2
<1>8. Elems(s) = {s[j] : j \in 1 .. m}
  BY <1>1 DEF Elems
<1>9. e \in Elems(s) /\ e \notin Elems(d)
  BY <1>2, <1>3, <1>4, <1>6, <1>7, <1>8
<1>10. Elems(d) = Elems(s) \ {e}
  BY <1>2, <1>3, <1>6, <1>7, <1>8, <1>9
<1> QED
  BY <1>2, <1>5, <1>9, <1>10 DEF Without

(* Adding a page id, as retire does.                                          *)
LEMMA AppendIds ==
    ASSUME NEW S, NEW s \in Seq(S), Distinct(s), NEW e \in S, e \notin Elems(s),
           NEW d, d = Append(s, e)
    PROVE  d \in Seq(S) /\ Distinct(d) /\ IsUnion(Elems(d), Elems(s), {e})
<1>1. PICK m : m = Len(s)
  OBVIOUS
<1>2. m \in Nat
  BY <1>1, LenProperties
<1>3. d \in Seq(S) /\ Len(d) = m + 1 /\ \A j \in 1 .. m : d[j] = s[j]
  BY <1>1, <1>2
<1>4. d[m + 1] = e
  BY <1>1, <1>2
<1>5. \A j \in 1 .. m + 1 : j = m + 1 \/ j \in 1 .. m
  BY <1>2
<1>6. \A i, j \in 1 .. m : s[i] = s[j] => i = j
  BY <1>1 DEF Distinct
<1>7. Elems(s) = {s[j] : j \in 1 .. m} /\ Elems(d) = {d[j] : j \in 1 .. m + 1}
  BY <1>1, <1>3 DEF Elems
<1>8. \A j \in 1 .. m : s[j] # e
  BY <1>7
<1>9. ASSUME NEW i \in 1 .. m + 1, NEW j \in 1 .. m + 1, d[i] = d[j] PROVE i = j
  BY <1>3, <1>4, <1>5, <1>6, <1>8, <1>9
<1>10. Distinct(d)
  BY <1>3, <1>9 DEF Distinct
<1>11. m + 1 \in 1 .. m + 1 /\ \A j \in 1 .. m : j \in 1 .. m + 1
  BY <1>2
<1>12. Elems(d) = Elems(s) \cup {e}
  <2>1. PICK A, B : A = Elems(d) /\ B = Elems(s)
    OBVIOUS
  <2>2. ASSUME NEW q \in A PROVE q \in B \cup {e}
    BY <1>3, <1>4, <1>5, <1>7, <2>1
  <2>3. ASSUME NEW q \in B PROVE q \in A
    BY <1>3, <1>7, <1>11, <2>1
  <2>4. e \in A
    BY <1>4, <1>7, <1>11, <2>1
  <2> QED
    BY <2>1, <2>2, <2>3, <2>4
<1> QED
  BY <1>3, <1>10, <1>12 DEF IsUnion

(* Adding page ids, as retire_value does.                                     *)
LEMMA JoinIds ==
    ASSUME NEW S, NEW s \in Seq(S), NEW t \in Seq(S), Distinct(s), Distinct(t),
           Disjoint(Elems(s), Elems(t)), NEW d, d = s \o t
    PROVE  d \in Seq(S) /\ Distinct(d) /\ IsUnion(Elems(d), Elems(s), Elems(t))
<1>1. PICK m, n : m = Len(s) /\ n = Len(t)
  OBVIOUS
<1>2. m \in Nat /\ n \in Nat
  BY <1>1, LenProperties
<1>3. d \in Seq(S) /\ Joined(d, s, t, m, n)
  BY <1>1, JoinedAt
<1>4. PICK b : b = m + n
  OBVIOUS
<1>5. /\ Len(d) = b
      /\ \A j \in 1 .. m : d[j] = s[j]
      /\ \A j \in 1 .. n : d[m + j] = t[j]
  BY <1>3, <1>4 DEF Joined
<1>6. ASSUME NEW j \in 1 .. b, ~(j \in 1 .. m) PROVE j - m \in 1 .. n /\ d[j] = t[j - m]
  <2>1. PICK k : k = j - m
    OBVIOUS
  <2>2. k \in 1 .. n /\ m + k = j
    BY <1>2, <1>4, <1>6, <2>1
  <2> QED
    BY <1>5, <2>1, <2>2
<1>7. /\ Elems(s) = {s[j] : j \in 1 .. m} /\ Elems(t) = {t[j] : j \in 1 .. n}
      /\ Elems(d) = {d[j] : j \in 1 .. b}
  BY <1>1, <1>5 DEF Elems
<1>8. \A i \in 1 .. m, j \in 1 .. n : s[i] # t[j]
  <2>1. \A i \in 1 .. m : s[i] \in Elems(s)
    BY <1>7
  <2>2. \A j \in 1 .. n : t[j] \in Elems(t)
    BY <1>7
  <2> QED
    BY <2>1, <2>2 DEF Disjoint
<1>9. /\ \A i, j \in 1 .. m : s[i] = s[j] => i = j
      /\ \A i, j \in 1 .. n : t[i] = t[j] => i = j
  BY <1>1 DEF Distinct
<1>10. ASSUME NEW i \in 1 .. b, NEW j \in 1 .. b, d[i] = d[j] PROVE i = j
  <2>1. CASE i \in 1 .. m /\ j \in 1 .. m
    BY <1>5, <1>9, <1>10, <2>1
  <2>2. CASE i \in 1 .. m /\ ~(j \in 1 .. m)
    BY <1>5, <1>6, <1>8, <1>10, <2>2
  <2>3. CASE ~(i \in 1 .. m) /\ j \in 1 .. m
    BY <1>5, <1>6, <1>8, <1>10, <2>3
  <2>4. CASE ~(i \in 1 .. m) /\ ~(j \in 1 .. m)
    <3>1. PICK u, v : u = i - m /\ v = j - m
      OBVIOUS
    <3>2. u \in 1 .. n /\ v \in 1 .. n /\ t[u] = t[v]
      BY <1>6, <1>10, <2>4, <3>1
    <3>3. u = v
      BY <1>9, <3>2
    <3> QED
      BY <1>2, <3>1, <3>3
  <2> QED
    BY <2>1, <2>2, <2>3, <2>4
<1>11. Distinct(d)
  BY <1>5, <1>10 DEF Distinct
<1>12. PICK A, B, C : A = Elems(d) /\ B = Elems(s) /\ C = Elems(t)
  OBVIOUS
<1>13. ASSUME NEW q \in A PROVE q \in B \cup C
  <2>1. PICK j \in 1 .. b : q = d[j]
    BY <1>7, <1>12
  <2>2. CASE j \in 1 .. m
    BY <1>5, <1>7, <1>12, <2>1, <2>2
  <2>3. CASE ~(j \in 1 .. m)
    BY <1>6, <1>7, <1>12, <2>1, <2>3
  <2> QED
    BY <2>2, <2>3
<1>14. ASSUME NEW q \in B PROVE q \in A
  <2>1. PICK j \in 1 .. m : q = s[j]
    BY <1>7, <1>12
  <2>2. j \in 1 .. b
    BY <1>2, <1>4
  <2> QED
    BY <1>5, <1>7, <1>12, <2>1, <2>2
<1>15. ASSUME NEW q \in C PROVE q \in A
  <2>1. PICK j \in 1 .. n : q = t[j]
    BY <1>7, <1>12
  <2>2. m + j \in 1 .. b
    BY <1>2, <1>4
  <2> QED
    BY <1>5, <1>7, <1>12, <2>1, <2>2
<1> QED
  BY <1>3, <1>11, <1>12, <1>13, <1>14, <1>15 DEF IsUnion

(* The pages of a free list.                                                  *)
FreeSet == Nat \X (Nat \ {None})
Second(f) == [i \in DOMAIN f |-> f[i][2]]

(* The pages of a free list.                                                  *)
LEMMA SecondFacts ==
    ASSUME NEW f \in Seq(FreeSet), NEW m, m = Len(f)
    PROVE  /\ Second(f) \in Seq(Nat \ {None}) /\ Len(Second(f)) = m
           /\ \A i \in 1 .. m : Second(f)[i] = f[i][2] /\ Second(f)[i] \in Nat \ {None}
<1>1. m \in Nat /\ DOMAIN f = 1 .. m /\ \A i \in 1 .. m : f[i] \in FreeSet
  BY LenProperties, ElementOfSeq
<1>2. \A i \in 1 .. m : f[i][2] \in Nat \ {None}
  BY <1>1 DEF FreeSet
<1>3. Second(f) = [i \in 1 .. m |-> f[i][2]]
  BY <1>1 DEF Second
<1>4. Second(f) \in [1 .. m -> Nat \ {None}]
  BY <1>2, <1>3
<1>5. Second(f) \in Seq(Nat \ {None}) /\ Len(Second(f)) = m
  BY <1>1, <1>4
<1> QED
  BY <1>2, <1>3, <1>5

(* Taking an entry by swap_remove, as alloc does.                             *)
LEMMA SwapIds ==
    ASSUME NEW f \in Seq(FreeSet), Distinct(Second(f)), NEW m, m = Len(f),
           NEW i \in 1 .. m, NEW d, d = SwapRemove(f, i), NEW e, e = f[i][2]
    PROVE  /\ d \in Seq(FreeSet) /\ Distinct(Second(d))
           /\ Without(Elems(Second(d)), Elems(Second(f)), e) /\ e \in Nat \ {None}
<1>1. m \in Nat /\ m \in 1 .. m
  <2>1. m \in Nat
    BY LenProperties
  <2> QED
    BY <2>1
<1>2. f # <<>>
  BY <1>1
<1>3. Last(f) = f[m] /\ f[m] \in FreeSet
  BY <1>1, <1>2, FrontFacts, ElementOfSeq
<1>4. PICK x, r : x = f[m] /\ r = ReplaceAt(f, i, x)
  OBVIOUS
<1>5. r \in Seq(FreeSet) /\ Replaced(r, f, i, x, m)
  BY <1>3, <1>4, ReplacedAt
<1>6. Len(r) = m /\ r[i] = x /\ \A j \in 1 .. m : j # i => r[j] = f[j]
  BY <1>5 DEF Replaced
<1>7. r # <<>>
  BY <1>1, <1>6
<1>8. d = Front(r)
  BY <1>3, <1>4 DEF SwapRemove
<1>9. d \in Seq(FreeSet) /\ Len(d) = m - 1 /\ \A j \in 1 .. m - 1 : d[j] = r[j]
  BY <1>5, <1>6, <1>7, <1>8, FrontFacts
<1>10. PICK g, h, k : g = Second(f) /\ h = Second(d) /\ k = m - 1
  OBVIOUS
<1>11. Len(g) = m /\ \A j \in 1 .. m : g[j] = f[j][2] /\ g[j] \in Nat \ {None}
  BY <1>10, SecondFacts
<1>12. Len(h) = k /\ \A j \in 1 .. k : h[j] = d[j][2]
  BY <1>9, <1>10, SecondFacts
<1>13. \A j \in 1 .. k : j \in 1 .. m /\ j # m
  BY <1>1, <1>10
<1>14. \A j \in 1 .. k : j = i => h[j] = g[m]
  BY <1>1, <1>4, <1>6, <1>9, <1>10, <1>11, <1>12
<1>15. ASSUME NEW j \in 1 .. k, j # i PROVE h[j] = g[j]
  <2>1. j \in 1 .. m /\ j \in 1 .. m - 1
    BY <1>10, <1>13
  <2>2. d[j] = r[j] /\ r[j] = f[j]
    BY <1>6, <1>9, <1>15, <2>1
  <2>3. h[j] = d[j][2] /\ g[j] = f[j][2]
    BY <1>11, <1>12, <2>1
  <2> QED
    BY <2>2, <2>3
<1>16. \A a, b \in 1 .. m : g[a] = g[b] => a = b
  BY <1>10, <1>11 DEF Distinct
<1>17. ASSUME NEW a \in 1 .. k, NEW b \in 1 .. k, h[a] = h[b] PROVE a = b
  <2>1. a \in 1 .. m /\ b \in 1 .. m /\ a # m /\ b # m /\ m \in 1 .. m
    BY <1>1, <1>13
  <2>2. CASE a = i /\ b = i
    BY <2>2
  <2>3. CASE a = i /\ b # i
    <3>1. g[m] = g[b]
      BY <1>14, <1>15, <1>17, <2>3
    <3> QED
      BY <1>16, <2>1, <3>1
  <2>4. CASE a # i /\ b = i
    <3>1. g[a] = g[m]
      BY <1>14, <1>15, <1>17, <2>4
    <3> QED
      BY <1>16, <2>1, <3>1
  <2>5. CASE a # i /\ b # i
    <3>1. g[a] = g[b]
      BY <1>15, <1>17, <2>5
    <3> QED
      BY <1>16, <2>1, <3>1
  <2> QED
    BY <2>2, <2>3, <2>4, <2>5
<1>18. Distinct(h)
  BY <1>12, <1>17 DEF Distinct
<1>19. e = g[i] /\ e \in Nat \ {None}
  BY <1>11
<1>20. Elems(g) = {g[j] : j \in 1 .. m} /\ Elems(h) = {h[j] : j \in 1 .. k}
  BY <1>11, <1>12 DEF Elems
<1>21. PICK A, B : A = Elems(h) /\ B = Elems(g)
  OBVIOUS
<1>22. ASSUME NEW q \in A PROVE q \in B /\ q # e
  <2>1. PICK j \in 1 .. k : q = h[j]
    BY <1>20, <1>21
  <2>2. CASE j = i
    <3>1. q = g[m] /\ i # m
      BY <1>13, <1>14, <2>1, <2>2
    <3> QED
      BY <1>1, <1>16, <1>19, <1>20, <1>21, <3>1
  <2>3. CASE j # i
    BY <1>13, <1>15, <1>16, <1>19, <1>20, <1>21, <2>1, <2>3
  <2> QED
    BY <2>2, <2>3
<1>23. ASSUME NEW q \in B, q # e PROVE q \in A
  <2>1. PICK j \in 1 .. m : q = g[j]
    BY <1>20, <1>21
  <2>2. j # i
    BY <1>19, <1>23, <2>1
  <2>3. CASE j = m
    <3>1. i \in 1 .. k
      BY <1>1, <1>10, <2>2, <2>3
    <3>2. q = h[i]
      BY <1>14, <2>1, <2>3, <3>1
    <3> QED
      BY <1>20, <1>21, <3>1, <3>2
  <2>4. CASE j # m
    <3>1. j \in 1 .. k
      BY <1>1, <1>10, <2>4
    <3> QED
      BY <1>15, <1>20, <1>21, <2>1, <2>2, <3>1
  <2> QED
    BY <2>3, <2>4
<1>24. e \in B
  BY <1>19, <1>20, <1>21
<1>25. Without(A, B, e)
  BY <1>22, <1>23, <1>24 DEF Without
<1> QED
  BY <1>9, <1>10, <1>18, <1>19, <1>21, <1>25

-------------------------------------------------------------------------------
(* Contexts.                                                                  *)

CtxRec(c) ==
    [pages |-> c.pages, overlay |-> c.overlay, next_page |-> c.next_page,
     free_list |-> c.free_list, obsolete |-> c.obsolete,
     scratch_pool |-> c.scratch_pool, reclaim_watermark |-> c.reclaim_watermark]
IsCtx(c) == c = CtxRec(c)

(* c with other components.                                                   *)
Fields(c, p, o, n, f, b, s) ==
    /\ IsCtx(c) /\ c.pages = p /\ c.overlay = o /\ c.next_page = n
    /\ c.free_list = f /\ c.obsolete = b /\ c.scratch_pool = s

Nodes(c) == DOMAIN c.overlay
Free(c) == Elems(Second(c.free_list))
Old(c) == Elems(c.obsolete)
Pool(c) == Elems(c.scratch_pool)
Beyond(n) == {p \in Nat : p >= n}

(* Pages that no tree has; pages that the transaction may write.              *)
SpareSet(n, free, old, pool) == free \cup old \cup pool \cup Beyond(n)
MineSet(n, free, pool, nodes) == free \cup pool \cup nodes \cup Beyond(n)
Spare(c) == SpareSet(c.next_page, Free(c), Old(c), Pool(c))
Mine(c) == MineSet(c.next_page, Free(c), Pool(c), Nodes(c))

BookSets(n, free, old, pool, nodes) ==
    /\ n \in Nat \ {0}
    /\ free \subseteq 1 .. n - 1 /\ old \subseteq 1 .. n - 1
    /\ pool \subseteq 1 .. n - 1 /\ nodes \subseteq 1 .. n - 1
    /\ free \cap old = {} /\ free \cap pool = {} /\ old \cap pool = {}
    /\ nodes \cap free = {} /\ nodes \cap old = {} /\ nodes \cap pool = {}
BookSeqs(f, b, s) ==
    /\ f \in Seq(FreeSet) /\ b \in Seq(Nat \ {None}) /\ s \in Seq(Nat \ {None})
    /\ Distinct(Second(f)) /\ Distinct(b) /\ Distinct(s)
IsNode(node) == "leaf" \in DOMAIN node
Books(c) ==
    /\ IsCtx(c) /\ BookSeqs(c.free_list, c.obsolete, c.scratch_pool)
    /\ BookSets(c.next_page, Free(c), Old(c), Pool(c), Nodes(c))
    /\ \A p \in Nodes(c) : IsNode(c.overlay[p])

(* The file with the overlay's nodes.                                         *)
View(c) ==
    [p \in DOMAIN c.pages \cup DOMAIN c.overlay |->
        IF p \in DOMAIN c.overlay THEN c.overlay[p] ELSE c.pages[p]]

(* alloc() takes the last page of the pool, else an entry of the free list,   *)
(* else the page at next_page.                                                *)
LEMMA AllocFields ==
    ASSUME NEW c, IsCtx(c), NEW pos, NEW a, a = AllocFrom(c, pos)
    PROVE  \/ /\ c.scratch_pool # <<>> /\ a.id = Last(c.scratch_pool)
              /\ Fields(a.ctx, c.pages, c.overlay, c.next_page, c.free_list,
                        c.obsolete, Front(c.scratch_pool))
           \/ /\ c.scratch_pool = <<>> /\ pos # 0 /\ a.id = c.free_list[pos][2]
              /\ Fields(a.ctx, c.pages, c.overlay, c.next_page,
                        SwapRemove(c.free_list, pos), c.obsolete, c.scratch_pool)
           \/ /\ c.scratch_pool = <<>> /\ pos = 0 /\ a.id = c.next_page
              /\ Fields(a.ctx, c.pages, c.overlay, c.next_page + 1, c.free_list,
                        c.obsolete, c.scratch_pool)
<1>1. CASE c.scratch_pool # <<>>
  <2>1. a = [ctx |-> [c EXCEPT !.scratch_pool = Front(@)], id |-> Last(c.scratch_pool)]
    BY <1>1 DEF AllocFrom
  <2>2. PICK d : d = [c EXCEPT !.scratch_pool = Front(@)]
    OBVIOUS
  <2>3. Fields(d, c.pages, c.overlay, c.next_page, c.free_list, c.obsolete,
               Front(c.scratch_pool))
    BY <2>2 DEF Fields, IsCtx, CtxRec
  <2> QED
    BY <1>1, <2>1, <2>2, <2>3
<1>2. CASE c.scratch_pool = <<>> /\ pos # 0
  <2>1. a = [ctx |-> [c EXCEPT !.free_list = SwapRemove(@, pos)],
             id  |-> c.free_list[pos][2]]
    BY <1>2 DEF AllocFrom
  <2>2. PICK d : d = [c EXCEPT !.free_list = SwapRemove(@, pos)]
    OBVIOUS
  <2>3. Fields(d, c.pages, c.overlay, c.next_page, SwapRemove(c.free_list, pos),
               c.obsolete, c.scratch_pool)
    BY <2>2 DEF Fields, IsCtx, CtxRec
  <2> QED
    BY <1>2, <2>1, <2>2, <2>3
<1>3. CASE c.scratch_pool = <<>> /\ pos = 0
  <2>1. a = [ctx |-> [c EXCEPT !.next_page = @ + 1], id |-> c.next_page]
    BY <1>3 DEF AllocFrom
  <2>2. PICK d : d = [c EXCEPT !.next_page = @ + 1]
    OBVIOUS
  <2>3. Fields(d, c.pages, c.overlay, c.next_page + 1, c.free_list, c.obsolete,
               c.scratch_pool)
    BY <2>2 DEF Fields, IsCtx, CtxRec
  <2> QED
    BY <1>3, <2>1, <2>2, <2>3
<1> QED
  BY <1>1, <1>2, <1>3

(* A page is taken from what is spare.                                        *)
Taken(c, d, id) ==
    /\ Books(d) /\ id \in Nat \ {None} /\ c.next_page <= d.next_page
    /\ id \in Mine(c) /\ id \notin Nodes(c) /\ id < d.next_page
    /\ Without(Spare(d), Spare(c), id) /\ Mine(d) = Mine(c) \ {id}
    /\ d.pages = c.pages /\ d.overlay = c.overlay

TakeSets(n, free, old, pool, nodes, m, free2, pool2, id) ==
    /\ BookSets(m, free2, old, pool2, nodes) /\ id \in Nat \ {None} /\ id < m /\ n <= m
    /\ id \in MineSet(n, free, pool, nodes) /\ id \notin nodes
    /\ Without(SpareSet(m, free2, old, pool2), SpareSet(n, free, old, pool), id)
    /\ MineSet(m, free2, pool2, nodes) = MineSet(n, free, pool, nodes) \ {id}

(* A page of the pool is taken.                                               *)
LEMMA TakePool ==
    ASSUME NEW n, NEW free, NEW old, NEW pool, NEW nodes, NEW less, NEW id,
           BookSets(n, free, old, pool, nodes), Without(less, pool, id)
    PROVE  TakeSets(n, free, old, pool, nodes, n, free, less, id)
<1>1. id \in pool /\ id \in 1 .. n - 1 /\ n \in Nat /\ less = pool \ {id}
  BY DEF BookSets, Without
<1>2. id \notin free /\ id \notin old /\ id \notin nodes /\ id \notin Beyond(n)
  BY <1>1 DEF BookSets, Beyond
<1>3. BookSets(n, free, old, less, nodes)
  BY <1>1 DEF BookSets
<1> QED
  BY <1>1, <1>2, <1>3 DEF MineSet, SpareSet, Without, None, TakeSets

(* A page of the free list is taken.                                          *)
LEMMA TakeFree ==
    ASSUME NEW n, NEW free, NEW old, NEW pool, NEW nodes, NEW less, NEW id,
           BookSets(n, free, old, pool, nodes), Without(less, free, id)
    PROVE  TakeSets(n, free, old, pool, nodes, n, less, pool, id)
<1>1. id \in free /\ id \in 1 .. n - 1 /\ n \in Nat /\ less = free \ {id}
  BY DEF BookSets, Without
<1>2. id \notin pool /\ id \notin old /\ id \notin nodes /\ id \notin Beyond(n)
  BY <1>1 DEF BookSets, Beyond
<1>3. BookSets(n, less, old, pool, nodes)
  BY <1>1 DEF BookSets
<1> QED
  BY <1>1, <1>2, <1>3 DEF MineSet, SpareSet, Without, None, TakeSets

(* The page at next_page is taken.                                            *)
LEMMA TakeNew ==
    ASSUME NEW n, NEW free, NEW old, NEW pool, NEW nodes, NEW m, m = n + 1,
           BookSets(n, free, old, pool, nodes)
    PROVE  TakeSets(n, free, old, pool, nodes, m, free, pool, n)
<1>1. n \in Nat \ {0} /\ m \in Nat
  BY DEF BookSets
<1>2. Beyond(m) = Beyond(n) \ {n} /\ n \in Beyond(n)
  BY <1>1 DEF Beyond
<1>3. n \notin 1 .. n - 1 /\ 1 .. n - 1 \subseteq 1 .. m - 1
  BY <1>1
<1>4. n \notin free /\ n \notin old /\ n \notin pool /\ n \notin nodes
  BY <1>3 DEF BookSets
<1>5. BookSets(m, free, old, pool, nodes)
  BY <1>1, <1>3 DEF BookSets
<1> QED
  BY <1>1, <1>2, <1>4, <1>5 DEF MineSet, SpareSet, Without, None, TakeSets

(* A context that differs from c as an allocation makes it.                   *)
LEMMA TakenFields ==
    ASSUME NEW c, Books(c), NEW d, NEW id, NEW n, NEW f, NEW s, NEW b,
           Fields(d, c.pages, c.overlay, n, f, b, s), BookSeqs(f, b, s),
           b = c.obsolete, NEW free2, free2 = Elems(Second(f)), NEW pool2, pool2 = Elems(s),
           TakeSets(c.next_page, Free(c), Old(c), Pool(c), Nodes(c), n, free2, pool2, id)
    PROVE  Taken(c, d, id)
<1>1. /\ IsCtx(d) /\ d.pages = c.pages /\ d.overlay = c.overlay /\ d.next_page = n
      /\ d.free_list = f /\ d.obsolete = b /\ d.scratch_pool = s
  BY DEF Fields
<1>2. Free(d) = free2 /\ Old(d) = Old(c) /\ Pool(d) = pool2 /\ Nodes(d) = Nodes(c)
  BY <1>1, Zenon DEF Free, Old, Pool, Nodes
<1>3. Books(d)
  BY <1>1, <1>2 DEF Books, TakeSets
<1> QED
  BY <1>1, <1>2, <1>3 DEF Taken, Spare, Mine, TakeSets

(* alloc() takes a page that is spare.                                        *)
LEMMA AllocTaken ==
    ASSUME NEW c, Books(c), NEW a, a = alloc(c)
    PROVE  Taken(c, a.ctx, a.id)
<1>1. PICK pos : pos = SelectInSeq(c.free_list,
                                   LAMBDA f : f[1] <= c.reclaim_watermark)
  OBVIOUS
<1>2. a = AllocFrom(c, pos)
  BY <1>1, Zenon DEF alloc
<1>3. PICK n, f, b, s, m, k : /\ n = c.next_page /\ f = c.free_list /\ b = c.obsolete
                              /\ s = c.scratch_pool /\ m = n + 1 /\ k = Len(f)
  OBVIOUS
<1>4. /\ IsCtx(c) /\ BookSeqs(f, b, s) /\ BookSets(n, Free(c), Old(c), Pool(c), Nodes(c))
  BY <1>3 DEF Books
<1>5. k \in Nat /\ f \in Seq(FreeSet)
  BY <1>3, <1>4, LenProperties DEF BookSeqs
<1>6. pos = 0 \/ pos \in 1 .. k
  <2>1. PICK I : I = {i \in 1 .. k : f[i][1] <= c.reclaim_watermark}
    OBVIOUS
  <2>2. pos = IF I # {} THEN Min(I) ELSE 0
    BY <1>1, <1>3, <2>1, Zenon DEF SelectInSeq
  <2>3. I \in SUBSET Nat /\ I \subseteq 1 .. k
    BY <1>5, <2>1
  <2>4. CASE I # {}
    <3>1. \E x \in I : \A y \in I : x <= y
      BY <2>3, <2>4, Own!LeastNumber
    <3>2. Min(I) \in I
      BY <3>1 DEF Min
    <3> QED
      BY <2>2, <2>3, <2>4, <3>2
  <2> QED
    BY <2>2, <2>4
<1>7. PICK d, id, free, pool : /\ d = a.ctx /\ id = a.id
                               /\ free = Elems(Second(f)) /\ pool = Elems(s)
  OBVIOUS
<1>8. Free(c) = free /\ Pool(c) = pool
  BY <1>3, <1>7 DEF Free, Pool
<1>9. CASE /\ s # <<>> /\ id = Last(s)
           /\ Fields(d, c.pages, c.overlay, n, f, b, Front(s))
  <2>1. PICK t, less : t = Front(s) /\ less = Elems(t)
    OBVIOUS
  <2>2. t \in Seq(Nat \ {None}) /\ Distinct(t) /\ Without(less, pool, id)
    BY <1>4, <1>7, <1>9, <2>1, FrontIds DEF BookSeqs
  <2>3. BookSeqs(f, b, t)
    BY <1>4, <2>2 DEF BookSeqs
  <2>4. TakeSets(n, free, Old(c), pool, Nodes(c), n, free, less, id)
    BY <1>4, <1>8, <2>2, TakePool
  <2> QED
    BY <1>3, <1>7, <1>8, <1>9, <2>1, <2>3, <2>4, TakenFields
<1>10. CASE /\ s = <<>> /\ pos # 0 /\ id = f[pos][2]
            /\ Fields(d, c.pages, c.overlay, n, SwapRemove(f, pos), b, s)
  <2>1. PICK t, less : t = SwapRemove(f, pos) /\ less = Elems(Second(t))
    OBVIOUS
  <2>2. pos \in 1 .. k
    BY <1>6, <1>10
  <2>3. t \in Seq(FreeSet) /\ Distinct(Second(t)) /\ Without(less, free, id)
    BY <1>3, <1>4, <1>5, <1>7, <1>10, <2>1, <2>2, SwapIds DEF BookSeqs
  <2>4. BookSeqs(t, b, s)
    BY <1>4, <2>3 DEF BookSeqs
  <2>5. TakeSets(n, free, Old(c), pool, Nodes(c), n, less, pool, id)
    BY <1>4, <1>8, <2>3, TakeFree
  <2> QED
    BY <1>3, <1>7, <1>8, <1>10, <2>1, <2>4, <2>5, TakenFields
<1>11. CASE /\ s = <<>> /\ pos = 0 /\ id = n
            /\ Fields(d, c.pages, c.overlay, m, f, b, s)
  <2>1. TakeSets(n, free, Old(c), pool, Nodes(c), m, free, pool, id)
    BY <1>3, <1>4, <1>8, <1>11, TakeNew
  <2> QED
    BY <1>3, <1>4, <1>7, <1>8, <1>11, <2>1, TakenFields
<1> QED
  BY <1>2, <1>3, <1>4, <1>7, <1>9, <1>10, <1>11, AllocFields

-------------------------------------------------------------------------------
(* Effects.  An operation takes the pages S, which were in use, and leaves    *)
(* the pages T in use instead; what was in use beside S is as it was, and     *)
(* only pages of the transaction are written.                                 *)

SameView(c, d, X) ==
    \A p \in DOMAIN View(c) : p \notin X => p \in DOMAIN View(d) /\ View(d)[p] = View(c)[p]
SameFile(c, d) ==
    \A p \in DOMAIN c.pages :
        p \notin Mine(c) => p \in DOMAIN d.pages /\ d.pages[p] = c.pages[p]
Traded(S, s, T, t) == T \cup t = S \cup s /\ T \cap t = {}
Eff(c, S, d, T) ==
    /\ Books(d) /\ c.next_page <= d.next_page
    /\ Traded(S, Spare(c), T, Spare(d)) /\ SameView(c, d, S \cup Spare(c))
    /\ Mine(d) \subseteq Mine(c) /\ SameFile(c, d)

(* Nothing is done.                                                           *)
LEMMA EffNone ==
    ASSUME NEW c, Books(c), NEW S, Disjoint(S, Spare(c))
    PROVE  Eff(c, S, c, S)
<1>1. c.next_page <= c.next_page
  BY DEF Books, BookSets
<1> QED
  BY <1>1 DEF Eff, Traded, SameView, SameFile, Disjoint

(* One operation after another.                                               *)
LEMMA EffTrans ==
    ASSUME NEW c, NEW S, NEW d, NEW T, NEW e, NEW R, Books(c), Eff(c, S, d, T), Eff(d, T, e, R)
    PROVE  Eff(c, S, e, R)
<1>1. c.next_page \in Nat /\ d.next_page \in Nat /\ e.next_page \in Nat /\ Books(e)
  BY DEF Eff, Books, BookSets
<1>2. c.next_page <= e.next_page
  BY <1>1 DEF Eff
<1>3. PICK X, Y, Z : X = S \cup Spare(c) /\ Y = T \cup Spare(d) /\ Z = R \cup Spare(e)
  OBVIOUS
<1>4. X = Y /\ Y = Z /\ R \cap Spare(e) = {}
  BY <1>3 DEF Eff, Traded
<1>5. SameView(c, d, X) /\ SameView(d, e, X)
  BY <1>3, <1>4 DEF Eff
<1>6. SameView(c, e, X)
  BY <1>5 DEF SameView
<1>7. SameFile(c, e)
  BY DEF Eff, SameFile
<1> QED
  BY <1>1, <1>2, <1>3, <1>4, <1>6, <1>7 DEF Eff, Traded

(* Pages U that are in use beside S.                                          *)
LEMMA EffWiden ==
    ASSUME NEW c, NEW S, NEW d, NEW T, Eff(c, S, d, T), NEW U, Disjoint(U, S),
           Disjoint(U, Spare(c)), NEW A, IsUnion(A, U, S), NEW B, IsUnion(B, U, T)
    PROVE  /\ Eff(c, A, d, B) /\ Disjoint(U, T) /\ Disjoint(U, Spare(d))
           /\ Agree(View(c), View(d), U)
<1>1. U \cap (S \cup Spare(c)) = {}
  BY DEF Disjoint
<1>2. T \cup Spare(d) = S \cup Spare(c) /\ T \cap Spare(d) = {}
  BY DEF Eff, Traded
<1>3. U \cap T = {} /\ U \cap Spare(d) = {}
  BY <1>1, <1>2
<1>4. Traded(A, Spare(c), B, Spare(d))
  BY <1>2, <1>3 DEF Traded, IsUnion
<1>5. SameView(c, d, S \cup Spare(c))
  BY DEF Eff
<1>6. SameView(c, d, A \cup Spare(c))
  BY <1>5 DEF SameView, IsUnion
<1>7. Agree(View(c), View(d), U)
  BY <1>1, <1>5 DEF SameView, Agree
<1> QED
  BY <1>3, <1>4, <1>6, <1>7 DEF Eff, Disjoint

(* What is in use keeps clear of what is spare.                               *)
LEMMA EffDisjoint ==
    ASSUME NEW c, NEW S, NEW d, NEW T, Eff(c, S, d, T)
    PROVE  Disjoint(T, Spare(d)) /\ Books(d)
  BY DEF Eff, Traded, Disjoint

(* Page id holds the node.                                                    *)
Holds(d, id, node) == id \in DOMAIN View(d) /\ View(d)[id] = node

WithNode(o, c, id, node) ==
    o = [p \in Nodes(c) \cup {id} |-> IF p = id THEN node ELSE c.overlay[p]]

(* put_node changes the overlay, and there only the page id.                  *)
LEMMA PutFields ==
    ASSUME NEW c, IsCtx(c), NEW id, NEW node, NEW d, d = put_node(c, id, node)
    PROVE  /\ \E o : /\ Fields(d, c.pages, o, c.next_page, c.free_list, c.obsolete, c.scratch_pool)
                     /\ WithNode(o, c, id, node)
           /\ Nodes(d) = Nodes(c) \cup {id} /\ Holds(d, id, node)
           /\ SameView(c, d, {id})
<1>1. PICK o : o = [p \in DOMAIN c.overlay \cup {id} |->
                       IF p = id THEN node ELSE c.overlay[p]]
  OBVIOUS
<1>2. d = [c EXCEPT !.overlay = o]
  BY <1>1, Zenon DEF put_node
<1>3. Fields(d, c.pages, o, c.next_page, c.free_list, c.obsolete, c.scratch_pool)
  BY <1>2 DEF Fields, IsCtx, CtxRec
<1>4. d.pages = c.pages /\ d.overlay = o
  BY <1>3 DEF Fields
<1>5. DOMAIN o = DOMAIN c.overlay \cup {id}
  BY <1>1
<1>6. /\ \A p \in DOMAIN View(c) : View(c)[p] = IF p \in DOMAIN c.overlay THEN c.overlay[p]
                                                ELSE c.pages[p]
      /\ DOMAIN View(c) = DOMAIN c.pages \cup DOMAIN c.overlay
  BY DEF View
<1>7. /\ \A p \in DOMAIN View(d) : View(d)[p] = IF p \in DOMAIN o THEN o[p] ELSE c.pages[p]
      /\ DOMAIN View(d) = DOMAIN c.pages \cup DOMAIN o
  BY <1>4 DEF View
<1>8. Holds(d, id, node)
  BY <1>1, <1>5, <1>7 DEF Holds
<1>9. SameView(c, d, {id})
  BY <1>1, <1>5, <1>6, <1>7 DEF SameView
<1> QED
  BY <1>1, <1>3, <1>4, <1>5, <1>8, <1>9 DEF Nodes, WithNode

(* A node is put on a page that is no longer spare.                           *)
LEMMA PutBooks ==
    ASSUME NEW c, Books(c), NEW id \in Nat \ {None}, id < c.next_page, id \notin Spare(c),
           NEW node, IsNode(node), NEW d, d = put_node(c, id, node)
    PROVE  /\ Books(d) /\ Spare(d) = Spare(c) /\ Mine(d) = Mine(c) \cup {id}
           /\ d.pages = c.pages /\ d.next_page = c.next_page
           /\ Holds(d, id, node) /\ SameView(c, d, {id})
<1>1. IsCtx(c)
  BY DEF Books
<1>2. PICK o : /\ Fields(d, c.pages, o, c.next_page, c.free_list, c.obsolete, c.scratch_pool)
               /\ WithNode(o, c, id, node)
  BY <1>1, PutFields
<1>3. Nodes(d) = Nodes(c) \cup {id} /\ Holds(d, id, node) /\ SameView(c, d, {id})
  BY <1>1, PutFields
<1>4. /\ IsCtx(d) /\ d.pages = c.pages /\ d.overlay = o /\ d.next_page = c.next_page
      /\ d.free_list = c.free_list /\ d.obsolete = c.obsolete
      /\ d.scratch_pool = c.scratch_pool
  BY <1>2 DEF Fields
<1>5. Free(d) = Free(c) /\ Old(d) = Old(c) /\ Pool(d) = Pool(c)
  BY <1>4 DEF Free, Old, Pool
<1>6. ASSUME NEW p \in Nodes(d) PROVE IsNode(d.overlay[p])
  <2>1. CASE p = id
    BY <1>2, <1>3, <1>4, <2>1 DEF WithNode
  <2>2. CASE p # id
    <3>1. p \in Nodes(c)
      BY <1>3, <2>2
    <3>2. d.overlay[p] = c.overlay[p]
      BY <1>2, <1>4, <2>2, <3>1 DEF WithNode
    <3>3. IsNode(c.overlay[p])
      BY <3>1 DEF Books
    <3> QED
      BY <3>2, <3>3, Zenon
  <2> QED
    BY <2>1, <2>2
<1>7. id \notin Free(c) /\ id \notin Old(c) /\ id \notin Pool(c)
  BY DEF Spare, SpareSet
<1>8. BookSets(c.next_page, Free(c), Old(c), Pool(c), Nodes(d))
  <2>1. c.next_page \in Nat
    BY DEF Books, BookSets
  <2>2. id \in 1 .. c.next_page - 1
    BY <2>1 DEF None
  <2> QED
    BY <1>3, <1>7, <2>2 DEF Books, BookSets
<1>9. Books(d)
  BY <1>4, <1>5, <1>6, <1>8 DEF Books
<1>10. Spare(d) = Spare(c)
  BY <1>4, <1>5 DEF Spare
<1>11. Mine(d) = Mine(c) \cup {id}
  BY <1>3, <1>4, <1>5 DEF Mine, MineSet
<1> QED
  BY <1>3, <1>4, <1>9, <1>10, <1>11

(* A node on a fresh page.                                                    *)
LEMMA AllocPut ==
    ASSUME NEW c, Books(c), NEW node, IsNode(node), NEW r, r = PutAt(alloc(c), node)
    PROVE  /\ Eff(c, {}, r.ctx, {r.id}) /\ Holds(r.ctx, r.id, node)
           /\ r.id \in Nat \ {None} /\ r.id \in Spare(c)
           /\ r = [ctx |-> r.ctx, id |-> r.id]
<1>1. PICK a : a = alloc(c)
  OBVIOUS
<1>2. PICK b, id : b = a.ctx /\ id = a.id
  OBVIOUS
<1>3. Taken(c, b, id)
  BY <1>1, <1>2, AllocTaken
<1>4. PICK d : d = put_node(b, id, node)
  OBVIOUS
<1>5. r.ctx = d /\ r.id = id /\ r = [ctx |-> d, id |-> id]
  BY <1>1, <1>2, <1>4 DEF PutAt
<1>6. /\ Books(b) /\ id \in Nat \ {None} /\ id < b.next_page /\ c.next_page <= b.next_page
      /\ Spare(b) = Spare(c) \ {id} /\ id \in Spare(c) /\ Mine(b) = Mine(c) \ {id}
      /\ id \in Mine(c) /\ b.pages = c.pages /\ b.overlay = c.overlay
  BY <1>3 DEF Taken, Without
<1>7. /\ Books(d) /\ Spare(d) = Spare(b) /\ Mine(d) = Mine(b) \cup {id}
      /\ d.pages = b.pages /\ d.next_page = b.next_page
      /\ Holds(d, id, node) /\ SameView(b, d, {id})
  BY <1>4, <1>6, PutBooks
<1>8. View(b) = View(c)
  BY <1>6 DEF View
<1>9. SameView(c, d, {} \cup Spare(c))
  BY <1>6, <1>7, <1>8 DEF SameView
<1>10. Traded({}, Spare(c), {id}, Spare(d))
  BY <1>6, <1>7 DEF Traded
<1>11. SameFile(c, d)
  BY <1>6, <1>7 DEF SameFile
<1>12. Mine(d) \subseteq Mine(c)
  BY <1>6, <1>7
<1>13. Eff(c, {}, d, {id})
  BY <1>6, <1>7, <1>9, <1>10, <1>11, <1>12 DEF Eff
<1> QED
  BY <1>5, <1>6, <1>7, <1>13

(* A node is rewritten in place.                                              *)
LEMMA PutInPlace ==
    ASSUME NEW c, Books(c), NEW id, is_scratch(c, id), NEW node, IsNode(node),
           NEW d, d = put_node(c, id, node)
    PROVE  Eff(c, {id}, d, {id}) /\ Holds(d, id, node) /\ id \in Nat \ {None}
<1>1. id \in Nodes(c)
  BY DEF is_scratch, Nodes
<1>2. /\ id \in 1 .. c.next_page - 1 /\ c.next_page \in Nat
      /\ id \notin Free(c) /\ id \notin Old(c) /\ id \notin Pool(c)
  BY <1>1 DEF Books, BookSets
<1>3. id \in Nat \ {None} /\ id < c.next_page /\ id \notin Beyond(c.next_page)
  BY <1>2 DEF None, Beyond
<1>4. id \notin Spare(c) /\ id \in Mine(c)
  BY <1>1, <1>2, <1>3 DEF Spare, SpareSet, Mine, MineSet
<1>5. /\ Books(d) /\ Spare(d) = Spare(c) /\ Mine(d) = Mine(c) \cup {id}
      /\ d.pages = c.pages /\ d.next_page = c.next_page
      /\ Holds(d, id, node) /\ SameView(c, d, {id})
  BY <1>3, <1>4, PutBooks
<1>6. Traded({id}, Spare(c), {id}, Spare(d))
  BY <1>4, <1>5 DEF Traded
<1>7. SameView(c, d, {id} \cup Spare(c))
  BY <1>5 DEF SameView
<1>8. SameFile(c, d)
  BY <1>5 DEF SameFile
<1> QED
  BY <1>2, <1>3, <1>4, <1>5, <1>6, <1>7, <1>8 DEF Eff

(* Pages are given back: a list of pages that are in use becomes obsolete.    *)
LEMMA ObsoleteBooks ==
    ASSUME NEW c, Books(c), NEW ids \in Seq(Nat \ {None}), Distinct(ids), NEW S,
           S = Elems(ids), Disjoint(S, Spare(c)), Disjoint(S, Nodes(c)),
           NEW d, d = [c EXCEPT !.obsolete = @ \o ids]
    PROVE  Eff(c, S, d, {})
<1>1. IsCtx(c) /\ BookSeqs(c.free_list, c.obsolete, c.scratch_pool)
  BY DEF Books
<1>2. PICK b, o : b = c.obsolete /\ o = b \o ids
  OBVIOUS
<1>3. Fields(d, c.pages, c.overlay, c.next_page, c.free_list, o, c.scratch_pool)
  BY <1>1, <1>2 DEF Fields, IsCtx, CtxRec
<1>4. /\ IsCtx(d) /\ d.pages = c.pages /\ d.overlay = c.overlay /\ d.next_page = c.next_page
      /\ d.free_list = c.free_list /\ d.obsolete = o /\ d.scratch_pool = c.scratch_pool
  BY <1>3 DEF Fields
<1>5. S \cap Old(c) = {} /\ S \cap Free(c) = {} /\ S \cap Pool(c) = {}
      /\ S \cap Beyond(c.next_page) = {} /\ S \cap Nodes(c) = {}
  BY DEF Disjoint, Spare, SpareSet
<1>6. b \in Seq(Nat \ {None}) /\ Distinct(b)
  BY <1>1, <1>2 DEF BookSeqs
<1>7. Disjoint(Elems(b), Elems(ids))
  BY <1>2, <1>5 DEF Disjoint, Old
<1>8. o \in Seq(Nat \ {None}) /\ Distinct(o) /\ IsUnion(Elems(o), Elems(b), Elems(ids))
  BY <1>2, <1>6, <1>7, JoinIds
<1>9. Old(d) = Old(c) \cup S
  BY <1>2, <1>4, <1>8 DEF IsUnion, Old
<1>10. Free(d) = Free(c) /\ Pool(d) = Pool(c) /\ Nodes(d) = Nodes(c)
  BY <1>4 DEF Free, Pool, Nodes
<1>11. BookSeqs(c.free_list, o, c.scratch_pool)
  BY <1>1, <1>8 DEF BookSeqs
<1>12. S \subseteq 1 .. c.next_page - 1
  <2>1. c.next_page \in Nat
    BY DEF Books, BookSets
  <2>2. \A i \in 1 .. Len(ids) : ids[i] \in Nat \ {None}
    BY ElementOfSeq
  <2>3. S \subseteq Nat \ {None}
    BY <2>2 DEF Elems
  <2>4. \A p \in S : ~(p >= c.next_page)
    BY <1>5, <2>3 DEF Beyond
  <2> QED
    BY <2>1, <2>3, <2>4 DEF None
<1>13. BookSets(c.next_page, Free(c), Old(d), Pool(c), Nodes(c))
  BY <1>5, <1>9, <1>12 DEF Books, BookSets
<1>14. Books(d)
  BY <1>4, <1>10, <1>11, <1>13 DEF Books
<1>15. Spare(d) = Spare(c) \cup S
  BY <1>4, <1>9, <1>10 DEF Spare, SpareSet
<1>16. Mine(d) = Mine(c)
  BY <1>4, <1>10 DEF Mine
<1>17. View(d) = View(c)
  BY <1>4 DEF View
<1>18. c.next_page <= d.next_page
  BY <1>4 DEF Books, BookSets
<1>19. Traded(S, Spare(c), {}, Spare(d))
  BY <1>15 DEF Traded
<1> QED
  BY <1>4, <1>14, <1>16, <1>17, <1>18, <1>19 DEF Eff, SameView, SameFile

(* One page that is not scratch.                                              *)
LEMMA ObsoleteOne ==
    ASSUME NEW c, Books(c), NEW id \in Nat \ {None}, id \notin Spare(c), ~is_scratch(c, id),
           NEW d, d = [c EXCEPT !.obsolete = Append(@, id)]
    PROVE  Eff(c, {id}, d, {})
<1>1. PICK ids, b : ids = <<id>> /\ b = c.obsolete
  OBVIOUS
<1>2. ids \in Seq(Nat \ {None}) /\ Len(ids) = 1 /\ ids[1] = id
  BY <1>1
<1>3. Distinct(ids) /\ Elems(ids) = {id}
  BY <1>2 DEF Distinct, Elems
<1>4. b \in Seq(Nat \ {None})
  BY <1>1 DEF Books, BookSeqs
<1>5. Append(b, id) = b \o ids
  BY <1>1, <1>4, AppendIsConcat
<1>6. d = [c EXCEPT !.obsolete = @ \o ids]
  BY <1>1, <1>5
<1>7. Disjoint({id}, Spare(c)) /\ Disjoint({id}, Nodes(c))
  BY DEF Disjoint, is_scratch, Nodes
<1> QED
  BY <1>2, <1>3, <1>6, <1>7, ObsoleteBooks

(* One scratch page goes back to the pool.                                    *)
LEMMA PoolOne ==
    ASSUME NEW c, Books(c), NEW id, is_scratch(c, id), NEW d, d = retire(c, id)
    PROVE  Eff(c, {id}, d, {})
<1>1. IsCtx(c) /\ BookSeqs(c.free_list, c.obsolete, c.scratch_pool)
  BY DEF Books
<1>2. PICK s, t, o : /\ s = c.scratch_pool /\ t = Append(s, id)
                     /\ o = [p \in DOMAIN c.overlay \ {id} |-> c.overlay[p]]
  OBVIOUS
<1>3. d = [c EXCEPT !.overlay = o, !.scratch_pool = t]
  BY <1>2 DEF retire
<1>4. Fields(d, c.pages, o, c.next_page, c.free_list, c.obsolete, t)
  BY <1>1, <1>3 DEF Fields, IsCtx, CtxRec
<1>5. /\ IsCtx(d) /\ d.pages = c.pages /\ d.overlay = o /\ d.next_page = c.next_page
      /\ d.free_list = c.free_list /\ d.obsolete = c.obsolete /\ d.scratch_pool = t
  BY <1>4 DEF Fields
<1>6. id \in Nodes(c)
  BY DEF is_scratch, Nodes
<1>7. /\ id \in 1 .. c.next_page - 1 /\ c.next_page \in Nat
      /\ id \notin Free(c) /\ id \notin Old(c) /\ id \notin Pool(c)
  BY <1>6 DEF Books, BookSets
<1>8. id \in Nat \ {None} /\ id \notin Beyond(c.next_page)
  BY <1>7 DEF None, Beyond
<1>9. s \in Seq(Nat \ {None}) /\ Distinct(s) /\ id \notin Elems(s)
  BY <1>1, <1>2, <1>7 DEF BookSeqs, Pool
<1>10. t \in Seq(Nat \ {None}) /\ Distinct(t) /\ IsUnion(Elems(t), Elems(s), {id})
  BY <1>2, <1>8, <1>9, AppendIds
<1>11. Pool(d) = Pool(c) \cup {id}
  BY <1>2, <1>5, <1>10 DEF IsUnion, Pool
<1>12. Free(d) = Free(c) /\ Old(d) = Old(c) /\ Nodes(d) = Nodes(c) \ {id}
  BY <1>2, <1>5 DEF Free, Old, Nodes
<1>13. BookSeqs(c.free_list, c.obsolete, t)
  BY <1>1, <1>10 DEF BookSeqs
<1>14. BookSets(c.next_page, Free(c), Old(c), Pool(d), Nodes(d))
  BY <1>7, <1>11, <1>12 DEF Books, BookSets
<1>15. ASSUME NEW p \in Nodes(d) PROVE IsNode(d.overlay[p])
  <2>1. p \in Nodes(c) /\ d.overlay[p] = c.overlay[p]
    BY <1>2, <1>5, <1>12 DEF Nodes
  <2>2. IsNode(c.overlay[p])
    BY <2>1 DEF Books
  <2> QED
    BY <2>1, <2>2, Zenon
<1>16. Books(d)
  BY <1>5, <1>12, <1>13, <1>14, <1>15 DEF Books
<1>17. Spare(d) = Spare(c) \cup {id}
  BY <1>5, <1>11, <1>12 DEF Spare, SpareSet
<1>18. Mine(d) = Mine(c)
  BY <1>5, <1>6, <1>11, <1>12 DEF Mine, MineSet
<1>19. SameView(c, d, {id})
  <2>1. ASSUME NEW p \in DOMAIN View(c), p # id
        PROVE  p \in DOMAIN View(d) /\ View(d)[p] = View(c)[p]
    <3>1. p \in DOMAIN o <=> p \in DOMAIN c.overlay
      BY <1>2, <2>1
    <3>2. p \in DOMAIN o => o[p] = c.overlay[p]
      BY <1>2
    <3> QED
      BY <1>5, <3>1, <3>2 DEF View
  <2> QED
    BY <2>1 DEF SameView
<1>20. SameView(c, d, {id} \cup Spare(c))
  BY <1>19 DEF SameView
<1>21. c.next_page <= d.next_page
  BY <1>5, <1>7
<1>22. Traded({id}, Spare(c), {}, Spare(d))
  BY <1>17 DEF Traded
<1> QED
  BY <1>5, <1>16, <1>18, <1>20, <1>21, <1>22 DEF Eff, SameFile

(* retire() gives back a page, scratch or not.                                *)
LEMMA RetireOne ==
    ASSUME NEW c, Books(c), NEW id \in Nat \ {None}, id \notin Spare(c),
           NEW d, d = retire(c, id)
    PROVE  Eff(c, {id}, d, {})
<1>1. CASE is_scratch(c, id)
  BY <1>1, PoolOne
<1>2. CASE ~is_scratch(c, id)
  <2>1. d = [c EXCEPT !.obsolete = Append(@, id)]
    BY <1>2 DEF retire
  <2> QED
    BY <1>2, <2>1, ObsoleteOne
<1> QED
  BY <1>1, <1>2

(* A node takes the place of another.                                         *)
LEMMA ReplaceNodeEff ==
    ASSUME NEW c, Books(c), NEW id \in Nat \ {None}, id \notin Spare(c), NEW node, IsNode(node),
           NEW r, r = ReplaceNode(c, id, node)
    PROVE  /\ Eff(c, {id}, r.ctx, {r.id}) /\ Holds(r.ctx, r.id, node)
           /\ r.id \in Nat \ {None} /\ r = [ctx |-> r.ctx, id |-> r.id]
<1>1. CASE is_scratch(c, id)
  <2>1. PICK d : d = put_node(c, id, node)
    OBVIOUS
  <2>2. r = [ctx |-> d, id |-> id]
    BY <1>1, <2>1 DEF ReplaceNode, PutAt
  <2>3. Eff(c, {id}, d, {id}) /\ Holds(d, id, node)
    BY <1>1, <2>1, PutInPlace
  <2> QED
    BY <2>2, <2>3
<1>2. CASE ~is_scratch(c, id)
  <2>1. PICK d : d = mark_obsolete(c, id)
    OBVIOUS
  <2>2. d = [c EXCEPT !.obsolete = Append(@, id)]
    BY <1>2, <2>1 DEF mark_obsolete
  <2>3. Eff(c, {id}, d, {})
    BY <1>2, <2>2, ObsoleteOne
  <2>4. r = PutAt(alloc(d), node)
    BY <1>2, <2>1 DEF ReplaceNode
  <2>5. Books(d)
    BY <2>3 DEF Eff
  <2>6. /\ Eff(d, {}, r.ctx, {r.id}) /\ Holds(r.ctx, r.id, node)
        /\ r.id \in Nat \ {None} /\ r = [ctx |-> r.ctx, id |-> r.id]
    BY <2>4, <2>5, AllocPut
  <2>7. Eff(c, {id}, r.ctx, {r.id})
    BY <2>3, <2>6, EffTrans
  <2> QED
    BY <2>6, <2>7
<1> QED
  BY <1>1, <1>2

-------------------------------------------------------------------------------
(* Overflow chains.                                                           *)

(* The pages of a chain are read from the file itself.                        *)
LEMMA ChainInFile ==
    ASSUME NEW c, Books(c), NEW m \in Nat, NEW page, NEW data, Chain(View(c), m, page, data)
    PROVE  Chain(c.pages, m, page, data) /\ Disjoint(ChainPages(m, page), Nodes(c))
<1>1. ASSUME NEW i \in 1 .. m
      PROVE  /\ page[i] \notin Nodes(c) /\ page[i] \in DOMAIN c.pages
             /\ View(c)[page[i]] = c.pages[page[i]]
  <2>1. PICK p : p = page[i]
    OBVIOUS
  <2>2. p \in DOMAIN View(c) /\ View(c)[p] = ChainPage(ChainHead(i - 1, page), View(c)[p].data)
    BY <2>1 DEF Chain, ChainLink
  <2>3. ~IsNode(View(c)[p])
    BY <2>2 DEF IsNode, ChainPage
  <2>4. p \notin Nodes(c)
    <3>1. SUFFICES ASSUME p \in Nodes(c) PROVE FALSE
      OBVIOUS
    <3>2. View(c)[p] = c.overlay[p]
      BY <3>1 DEF View, Nodes
    <3>3. IsNode(c.overlay[p])
      BY <3>1 DEF Books
    <3> QED
      BY <2>3, <3>2, <3>3, Zenon
  <2>5. p \in DOMAIN c.pages /\ View(c)[p] = c.pages[p]
    BY <2>2, <2>4 DEF View, Nodes
  <2> QED
    BY <2>1, <2>4, <2>5
<1>2. ASSUME NEW i \in 1 .. m PROVE ChainLink(c.pages, i, page, data)
  <2>1. ChainLink(View(c), i, page, data)
    BY DEF Chain
  <2> QED
    BY <1>1, <2>1 DEF ChainLink
<1>3. Chain(c.pages, m, page, data)
  BY <1>2 DEF Chain
<1> QED
  BY <1>1, <1>3 DEF Disjoint, ChainPages

(* retire_value gives back the pages of the value's chain.                    *)
LEMMA RetireValueEff ==
    ASSUME NEW c, Books(c), NEW v, ValueOk(View(c), v), NEW S, S = ValuePages(View(c), v),
           Disjoint(S, Spare(c)), NEW d, d = retire_value(c, v)
    PROVE  Eff(c, S, d, {})
<1>1. CASE InlineOk(v)
  <2>1. v.inline = TRUE
    BY <1>1 DEF InlineOk, Inline
  <2>2. d = c /\ S = {}
    BY <2>1 DEF retire_value, ValuePages
  <2> QED
    BY <2>2, EffNone
<1>2. CASE ChainedOk(View(c), v)
  <2>1. v.inline = FALSE /\ v = Overflow(v.head, v.len) /\ v.len \in Nat
    BY <1>2 DEF ChainedOk, Overflow
  <2>2. PICK m \in Nat : \E page, data : /\ m <= v.len /\ v.head = ChainHead(m, page)
                                         /\ Chain(View(c), m, page, data)
    BY <1>2 DEF ChainedOk
  <2>3. PICK page, data : /\ m <= v.len /\ v.head = ChainHead(m, page)
                          /\ Chain(View(c), m, page, data)
    BY <2>2
  <2>4. S = ChainPages(m, page)
    BY <2>1, <2>3, ValueFacts
  <2>5. Chain(c.pages, m, page, data) /\ Disjoint(S, Nodes(c))
    BY <2>3, <2>4, ChainInFile
  <2>6. PICK ids, l, V : ids = ChainIds(V, ChainHead(m, page), l) /\ l = v.len /\ V = c.pages
    OBVIOUS
  <2>61. l \in Nat /\ m <= l /\ Chain(V, m, page, data)
    BY <2>1, <2>3, <2>5, <2>6
  <2>62. IdsRead(ids, m, page)
    BY <2>6, <2>61, ChainIdsRead
  <2>7. /\ ids \in Seq(Nat \ {None}) /\ ToSet(ids) = ChainPages(m, page)
        /\ IsInjective(ids)
    BY <2>62 DEF IdsRead
  <2>8. Distinct(ids) /\ S = Elems(ids)
    BY <2>4, <2>7, ElemsLib
  <2>9. d = [c EXCEPT !.obsolete = @ \o ids]
    BY <2>1, <2>3, <2>6 DEF retire_value
  <2> QED
    BY <2>5, <2>7, <2>8, <2>9, ObsoleteBooks
<1> QED
  BY <1>1, <1>2 DEF ValueOk

(* A page of the file is written.                                             *)
Written(c, id, page) == [c EXCEPT !.pages = write_page(@, id, page)]
SameBeside(c, d, id) ==
    \A p \in DOMAIN c.pages : p # id => p \in DOMAIN d.pages /\ d.pages[p] = c.pages[p]

(* Writing a page of the file does not touch the books.                       *)
LEMMA WriteBooks ==
    ASSUME NEW c, Books(c), NEW id, id \notin Nodes(c), NEW page,
           NEW d, d = Written(c, id, page)
    PROVE  /\ Books(d) /\ Spare(d) = Spare(c) /\ Mine(d) = Mine(c)
           /\ d.next_page = c.next_page /\ Holds(d, id, page) /\ SameView(c, d, {id})
           /\ SameBeside(c, d, id)
<1>1. IsCtx(c)
  BY DEF Books
<1>2. PICK f : f = [p \in DOMAIN c.pages \cup {id} |-> IF p = id THEN page ELSE c.pages[p]]
  OBVIOUS
<1>3. d = [c EXCEPT !.pages = f]
  BY <1>2, Zenon DEF write_page, Written
<1>4. Fields(d, f, c.overlay, c.next_page, c.free_list, c.obsolete, c.scratch_pool)
  BY <1>1, <1>3 DEF Fields, IsCtx, CtxRec
<1>5. /\ IsCtx(d) /\ d.pages = f /\ d.overlay = c.overlay /\ d.next_page = c.next_page
      /\ d.free_list = c.free_list /\ d.obsolete = c.obsolete
      /\ d.scratch_pool = c.scratch_pool
  BY <1>4 DEF Fields
<1>6. Free(d) = Free(c) /\ Old(d) = Old(c) /\ Pool(d) = Pool(c) /\ Nodes(d) = Nodes(c)
  BY <1>5 DEF Free, Old, Pool, Nodes
<1>7. Books(d)
  BY <1>5, <1>6 DEF Books
<1>8. Spare(d) = Spare(c) /\ Mine(d) = Mine(c)
  BY <1>5, <1>6 DEF Spare, Mine
<1>9. Holds(d, id, page)
  BY <1>2, <1>5 DEF Holds, View, Nodes
<1>10. SameView(c, d, {id})
  BY <1>2, <1>5 DEF SameView, View
<1> QED
  BY <1>2, <1>5, <1>7, <1>8, <1>9, <1>10 DEF SameBeside

(* A chain page on a fresh page.                                              *)
LEMMA AllocWrite ==
    ASSUME NEW c, Books(c), NEW next, NEW chunk, NEW r, r = WriteChunk(alloc(c), next, chunk)
    PROVE  /\ Eff(c, {}, r.ctx, {r.id}) /\ Holds(r.ctx, r.id, ChainPage(next, chunk))
           /\ r.id \in Nat \ {None}
<1>1. PICK a : a = alloc(c)
  OBVIOUS
<1>2. PICK b, id, page : b = a.ctx /\ id = a.id /\ page = ChainPage(next, chunk)
  OBVIOUS
<1>3. Taken(c, b, id)
  BY <1>1, <1>2, AllocTaken
<1>4. PICK d : d = Written(b, id, page)
  OBVIOUS
<1>5. a = [ctx |-> b, id |-> id]
  <2>1. PICK pos : a = AllocFrom(c, pos)
    BY <1>1 DEF alloc
  <2>2. CASE c.scratch_pool # <<>>
    BY <1>2, <2>1, <2>2 DEF AllocFrom
  <2>3. CASE c.scratch_pool = <<>> /\ pos # 0
    BY <1>2, <2>1, <2>3 DEF AllocFrom
  <2>4. CASE c.scratch_pool = <<>> /\ pos = 0
    BY <1>2, <2>1, <2>4 DEF AllocFrom
  <2> QED
    BY <2>2, <2>3, <2>4
<1>6. r = [a EXCEPT !.ctx.pages = write_page(@, a.id, page)]
  BY <1>1, <1>2 DEF WriteChunk
<1>7. r.ctx = d /\ r.id = id
  <2>1. r = [a EXCEPT !.ctx = d]
    BY <1>2, <1>4, <1>6 DEF Written
  <2> QED
    BY <1>5, <2>1
<1>8. /\ Books(b) /\ id \in Nat \ {None} /\ c.next_page <= b.next_page
      /\ Spare(b) = Spare(c) \ {id} /\ id \in Spare(c) /\ Mine(b) = Mine(c) \ {id}
      /\ id \in Mine(c) /\ b.pages = c.pages /\ b.overlay = c.overlay /\ id \notin Nodes(b)
  BY <1>3 DEF Taken, Without, Nodes
<1>9. /\ Books(d) /\ Spare(d) = Spare(b) /\ Mine(d) = Mine(b)
      /\ d.next_page = b.next_page /\ Holds(d, id, page) /\ SameView(b, d, {id})
      /\ SameBeside(b, d, id)
  BY <1>4, <1>8, WriteBooks
<1>10. View(b) = View(c)
  BY <1>8 DEF View
<1>11. SameView(c, d, {} \cup Spare(c))
  BY <1>8, <1>9, <1>10 DEF SameView
<1>12. Traded({}, Spare(c), {id}, Spare(d))
  BY <1>8, <1>9 DEF Traded
<1>13. SameFile(c, d)
  BY <1>8, <1>9 DEF SameFile, SameBeside
<1>14. Mine(d) \subseteq Mine(c)
  BY <1>8, <1>9
<1>15. Eff(c, {}, d, {id})
  BY <1>8, <1>9, <1>11, <1>12, <1>13, <1>14 DEF Eff
<1> QED
  BY <1>2, <1>7, <1>8, <1>9, <1>15

(* One page more: the chain page, data with id and the chunk in front.        *)
ChainGrown(W, k, id, chunk, i, page, data) ==
    \E ps, ts : /\ Chain(W, k, ps, ts) /\ ChainHead(k, ps) = id
                /\ IsUnion(ChainPages(k, ps), ChainPages(i, page), {id})
                /\ ts[k] = chunk \o data[i]

(* The page in front of a chain makes a longer chain.                         *)
LEMMA ChainGrows ==
    ASSUME NEW V, NEW W, NEW i \in Nat, NEW page, NEW data, Chain(V, i, page, data),
           Agree(V, W, ChainPages(i, page)), NEW id \in Nat \ {None},
           id \notin ChainPages(i, page), NEW chunk, id \in DOMAIN W,
           W[id] = ChainPage(ChainHead(i, page), chunk), NEW k, k = i + 1
    PROVE  ChainGrown(W, k, id, chunk, i, page, data)
<1>1. PICK ps, ts : /\ ps = [j \in 1 .. k |-> IF j = k THEN id ELSE page[j]]
                    /\ ts = [j \in 0 .. k |-> IF j = k THEN chunk \o data[i] ELSE data[j]]
  OBVIOUS
<1>2. k \in Nat /\ k # 0 /\ k - 1 = i /\ k \in 1 .. k
  OBVIOUS
<1>3. ps[k] = id /\ \A j \in 1 .. i : ps[j] = page[j] /\ j # k /\ j \in 1 .. k
  BY <1>1, <1>2
<1>4. ts[k] = chunk \o data[i] /\ \A j \in 0 .. i : ts[j] = data[j]
  BY <1>1, <1>2
<1>5. \A j \in 1 .. k : j = k \/ j \in 1 .. i
  OBVIOUS
<1>6. \A j \in 0 .. i : ChainHead(j, ps) = ChainHead(j, page)
  BY <1>3 DEF ChainHead
<1>7. ts[0] = <<>>
  <2>1. 0 \in 0 .. i
    OBVIOUS
  <2> QED
    BY <1>4, <2>1 DEF Chain
<1>8. W[id].data = chunk
  BY DEF ChainPage
<1>9. ASSUME NEW j \in 1 .. k PROVE ChainLink(W, j, ps, ts)
  <2>1. CASE j = k
    <3>1. ts[j - 1] = data[i] /\ ChainHead(j - 1, ps) = ChainHead(i, page)
      BY <1>2, <1>4, <1>6, <2>1
    <3> QED
      BY <1>3, <1>4, <1>8, <2>1, <3>1 DEF ChainLink
  <2>2. CASE j \in 1 .. i
    <3>1. ChainLink(V, j, page, data)
      BY <2>2 DEF Chain
    <3>2. page[j] \in ChainPages(i, page)
      BY <2>2 DEF ChainPages
    <3>3. page[j] \in DOMAIN W /\ W[page[j]] = V[page[j]]
      BY <3>1, <3>2 DEF Agree, ChainLink
    <3>4. /\ ps[j] = page[j] /\ ts[j] = data[j] /\ ts[j - 1] = data[j - 1]
          /\ ChainHead(j - 1, ps) = ChainHead(j - 1, page)
      <4>1. j \in 0 .. i /\ j - 1 \in 0 .. i
        BY <2>2
      <4> QED
        BY <1>3, <1>4, <1>6, <2>2, <4>1
    <3> QED
      BY <3>1, <3>3, <3>4 DEF ChainLink
  <2> QED
    BY <1>5, <2>1, <2>2
<1>10. \A j \in 1 .. i : page[j] # id
  BY DEF ChainPages
<1>11. ASSUME NEW a \in 1 .. k, NEW b \in 1 .. k, ps[a] = ps[b] PROVE a = b
  <2>1. \A u, w \in 1 .. i : page[u] = page[w] => u = w
    BY DEF Chain
  <2> QED
    BY <1>3, <1>5, <1>10, <1>11, <2>1
<1>12. Chain(W, k, ps, ts)
  BY <1>7, <1>9, <1>11 DEF Chain
<1>13. ChainHead(k, ps) = id
  BY <1>2, <1>3 DEF ChainHead
<1>14. PICK A, B : A = ChainPages(k, ps) /\ B = ChainPages(i, page)
  OBVIOUS
<1>15. A \subseteq B \cup {id}
  BY <1>3, <1>5, <1>14 DEF ChainPages
<1>16. B \cup {id} \subseteq A
  BY <1>2, <1>3, <1>14 DEF ChainPages
<1> QED
  BY <1>4, <1>12, <1>13, <1>14, <1>15, <1>16 DEF ChainGrown, IsUnion

-------------------------------------------------------------------------------
(* store_value.                                                               *)

(* A chain of i pages has been made from c.                                   *)
ChainMade(c, i, r) ==
    \E page, data : /\ Chain(View(r.ctx), i, page, data) /\ r.id = ChainHead(i, page)
                    /\ Eff(c, {}, r.ctx, ChainPages(i, page))

(* The empty chain.                                                           *)
LEMMA ChainStarted ==
    ASSUME NEW c, Books(c), NEW r, r = [ctx |-> c, id |-> None]
    PROVE  ChainMade(c, 0, r)
<1>1. PICK page, data : page = <<>> /\ data = [j \in {0} |-> <<>>]
  OBVIOUS
<1>2. Chain(View(c), 0, page, data) /\ ChainHead(0, page) = None
  BY <1>1 DEF Chain, ChainHead
<1>3. ChainPages(0, page) = {}
  BY DEF ChainPages
<1>4. Eff(c, {}, c, {})
  BY EffNone DEF Disjoint
<1> QED
  BY <1>2, <1>3, <1>4 DEF ChainMade

(* One more chunk is linked.                                                  *)
LEMMA ChainLinked ==
    ASSUME NEW c, Books(c), NEW i \in Nat, NEW x, ChainMade(c, i, x), NEW chunk,
           NEW r, r = LinkChunk(x, chunk), NEW k, k = i + 1
    PROVE  ChainMade(c, k, r)
<1>1. PICK page, data : /\ Chain(View(x.ctx), i, page, data) /\ x.id = ChainHead(i, page)
                        /\ Eff(c, {}, x.ctx, ChainPages(i, page))
  BY DEF ChainMade
<1>2. PICK P, d, next : P = ChainPages(i, page) /\ d = x.ctx /\ next = x.id
  OBVIOUS
<1>3. Eff(c, {}, d, P) /\ Chain(View(d), i, page, data) /\ next = ChainHead(i, page)
  BY <1>1, <1>2
<1>4. Disjoint(P, Spare(d)) /\ Books(d)
  BY <1>3, EffDisjoint
<1>5. r = WriteChunk(alloc(d), next, chunk)
  BY <1>2 DEF LinkChunk
<1>6. /\ Eff(d, {}, r.ctx, {r.id}) /\ Holds(r.ctx, r.id, ChainPage(next, chunk))
      /\ r.id \in Nat \ {None}
  BY <1>4, <1>5, AllocWrite
<1>7. PICK e, id, B : e = r.ctx /\ id = r.id /\ B = P \cup {id}
  OBVIOUS
<1>8. Eff(d, {}, e, {id}) /\ Holds(e, id, ChainPage(next, chunk)) /\ id \in Nat \ {None}
  BY <1>6, <1>7
<1>9. Disjoint(P, {}) /\ IsUnion(P, P, {}) /\ IsUnion(B, P, {id})
  BY <1>7 DEF Disjoint, IsUnion
<1>10. Eff(d, P, e, B) /\ Disjoint(P, {id}) /\ Agree(View(d), View(e), P)
  BY <1>4, <1>8, <1>9, EffWiden
<1>11. PICK V, W : V = View(d) /\ W = View(e)
  OBVIOUS
<1>12. /\ Chain(V, i, page, data) /\ Agree(V, W, ChainPages(i, page))
       /\ id \notin ChainPages(i, page) /\ id \in DOMAIN W
       /\ W[id] = ChainPage(ChainHead(i, page), chunk)
  BY <1>2, <1>3, <1>8, <1>10, <1>11 DEF Disjoint, Holds
<1>13. PICK ps, ts : /\ Chain(W, k, ps, ts) /\ ChainHead(k, ps) = id
                     /\ IsUnion(ChainPages(k, ps), ChainPages(i, page), {id})
  <2>1. ChainGrown(W, k, id, chunk, i, page, data)
    BY <1>8, <1>12, ChainGrows
  <2> QED
    BY <2>1 DEF ChainGrown
<1>14. ChainPages(k, ps) = B
  BY <1>2, <1>7, <1>13 DEF IsUnion
<1>15. Eff(c, {}, e, B)
  BY <1>3, <1>10, EffTrans
<1> QED
  BY <1>7, <1>11, <1>13, <1>14, <1>15 DEF ChainMade

LinkBase(p) == [ctx |-> p[1], id |-> None]
LinkStep(p, n, x) == LinkChunk(x, p[2][n])
Links == INSTANCE Recursion WITH Base <- LinkBase, Step <- LinkStep

(* StoreChain makes a chain of all the chunks.                                *)
LEMMA StoreChainMade ==
    ASSUME NEW c, Books(c), NEW chunks, NEW m \in Nat, m = Len(chunks),
           NEW r, r = StoreChain(c, chunks)
    PROVE  ChainMade(c, m, r)
<1>1. PICK p : p = <<c, chunks>>
  OBVIOUS
<1>2. p[1] = c /\ p[2] = chunks
  BY <1>1
<1>3. PICK f : f = Links!Rec(p)
  OBVIOUS
<1>4. r = f[m]
  BY <1>2, <1>3 DEF StoreChain, Links!Rec, LinkBase, LinkStep
<1>5. /\ f[0] = LinkBase(p)
      /\ \A n \in Nat : f[n + 1] = LinkStep(p, n + 1, f[n])
  BY <1>3, Links!RecValues
<1> DEFINE T == {n \in Nat : ChainMade(c, n, f[n])}
<1>6. 0 \in T
  <2>1. f[0] = [ctx |-> c, id |-> None]
    BY <1>2, <1>5 DEF LinkBase
  <2> QED
    BY <2>1, ChainStarted
<1>7. ASSUME NEW n \in Nat, n \in T PROVE n + 1 \in T
  <2>1. PICK x, k, chunk : x = f[n] /\ k = n + 1 /\ chunk = chunks[k]
    OBVIOUS
  <2>2. f[k] = LinkChunk(x, chunk)
    BY <1>2, <1>5, <2>1 DEF LinkStep
  <2>3. ChainMade(c, n, x)
    BY <1>7, <2>1
  <2>4. ChainMade(c, k, f[k])
    BY <2>1, <2>2, <2>3, ChainLinked
  <2> QED
    BY <2>1, <2>4
<1> HIDE DEF T
<1>8. Nat \subseteq T
  BY <1>6, <1>7, Links!SetInduction
<1> QED
  BY <1>4, <1>8 DEF T

(* The length of a function on 1 .. k.                                        *)
LEMMA LenDomain ==
    ASSUME NEW cc, NEW k \in Nat, DOMAIN cc = 1 .. k
    PROVE  Len(cc) = k
  OBVIOUS

(* There are no more chunks than bytes.                                       *)
LEMMA ChunkCount ==
    ASSUME NEW s \in Seq(Int), NEW n \in Nat \ {0}, NEW l, l = Len(s),
           NEW cs, cs = Reverse(Chunks(s, n)), NEW m, m = Len(cs)
    PROVE  m \in Nat /\ m <= l
<1>1. l \in Nat
  BY LenProperties
<1>2. PICK k : k = ((l + n) - 1) \div n
  OBVIOUS
<1>3. k \in Nat /\ k <= l
  <2>1. (l + n) - 1 \in Nat
    BY <1>1
  <2>2. k \in Int /\ n * k <= (l + n) - 1 /\ (l + n) - 1 < n * k + n /\ k >= 0
    BY <1>1, <1>2, <2>1
  <2>3. CASE k <= l
    BY <2>2, <2>3
  <2>4. CASE k > l
    <3>1. PICK j : j = k - (l + 1)
      OBVIOUS
    <3>2. j \in Nat /\ k = l + 1 + j
      BY <1>1, <2>2, <2>4, <3>1
    <3>3. n * k = n * l + n + n * j
      BY <1>1, <3>2
    <3>4. n * l >= l /\ n * j >= 0
      <4>1. \A a, b \in Nat : a * b >= 0
        OBVIOUS
      <4>2. PICK q \in Nat : n = q + 1
        <5>1. n - 1 \in Nat /\ n = (n - 1) + 1
          OBVIOUS
        <5> QED
          BY <5>1
      <4>3. n * l = q * l + l
        BY <1>1, <4>2
      <4>4. q * l >= 0 /\ q * l \in Int /\ n * j >= 0
        BY <1>1, <3>2, <4>1
      <4> QED
        BY <1>1, <4>3, <4>4
    <3>5. PICK A, B, C : A = n * k /\ B = n * l /\ C = n * j
      OBVIOUS
    <3>6. A \in Int /\ B \in Int /\ C \in Int
      BY <1>1, <2>2, <3>2, <3>5
    <3>7. A <= (l + n) - 1 /\ A = B + n + C /\ B >= l /\ C >= 0
      BY <2>2, <3>3, <3>4, <3>5
    <3> QED
      BY <1>1, <3>6, <3>7
  <2> QED
    BY <1>1, <2>2, <2>3, <2>4
<1>4. PICK cc : cc = Chunks(s, n)
  OBVIOUS
<1>5. Len(cc) = k
  <2>1. (Len(s) + n - 1) \div n = k
    BY <1>1, <1>2
  <2>2. cc = [i \in 1 .. (Len(s) + n - 1) \div n |->
              SubSeq(s, (i - 1) * n + 1, IF i * n < Len(s) THEN i * n ELSE Len(s))]
    BY <1>4, Zenon DEF Chunks
  <2>3. DOMAIN cc = 1 .. (Len(s) + n - 1) \div n
    BY <2>2, Zenon
  <2>4. DOMAIN cc = 1 .. k
    BY <2>1, <2>3, Zenon
  <2> QED
    BY <1>3, <2>4, LenDomain
<1>6. Len(cs) = k
  BY <1>3, <1>4, <1>5 DEF Reverse
<1> QED
  BY <1>3, <1>6

(* The value that is stored has pages of its own.                             *)
StoredOk(c, s) ==
    /\ Eff(c, {}, s.ctx, ValuePages(View(s.ctx), s.value))
    /\ ValueOk(View(s.ctx), s.value) /\ s.value \in ValueSet

(* A value that is kept in the leaf.                                          *)
LEMMA InlineValue ==
    ASSUME NEW b \in Seq(Int)
    PROVE  Inline(b) \in ValueSet
<1>1. ValueSet = {Inline(e) : e \in Seq(Int)} \cup {Overflow(h, l) : h \in Nat, l \in Nat}
  BY DEF ValueSet
<1> QED
  BY <1>1

(* store_value keeps the value in the leaf or makes a chain for it.           *)
LEMMA StoreValueOk ==
    ASSUME NEW c, Books(c), NEW value \in Seq(Int), NEW s, s = store_value(c, value)
    PROVE  StoredOk(c, s)
<1>1. CASE Len(value) <= INLINE_VALUE_LIMIT
  <2>1. s = [ctx |-> c, value |-> Inline(value)]
    BY <1>1 DEF store_value
  <2>20. Inline(value).bytes = value /\ Inline(value).inline = TRUE
    BY DEF Inline
  <2>21. InlineOk(Inline(value))
    BY <1>1, <2>20 DEF InlineOk
  <2>22. Inline(value) \in ValueSet
    BY InlineValue
  <2>2. InlineOk(Inline(value)) /\ Inline(value).inline = TRUE /\ Inline(value) \in ValueSet
    BY <2>20, <2>21, <2>22
  <2>3. ValuePages(View(c), Inline(value)) = {}
    BY <2>2 DEF ValuePages
  <2>4. Eff(c, {}, c, {})
    BY EffNone DEF Disjoint
  <2>5. s.ctx = c /\ s.value = Inline(value)
    BY <2>1
  <2> QED
    BY <2>2, <2>3, <2>4, <2>5 DEF StoredOk, ValueOk
<1>2. CASE ~(Len(value) <= INLINE_VALUE_LIMIT)
  <2>1. PICK chunks, l, m : /\ chunks = Reverse(Chunks(value, OVERFLOW_CHUNK))
                            /\ l = Len(value) /\ m = Len(chunks)
    OBVIOUS
  <2>2. OVERFLOW_CHUNK \in Nat \ {0}
    BY BTreeAssumption
  <2>3. m \in Nat /\ m <= l
    BY <2>1, <2>2, ChunkCount
  <2>4. PICK r : r = StoreChain(c, chunks)
    OBVIOUS
  <2>5. ChainMade(c, m, r)
    BY <2>1, <2>3, <2>4, StoreChainMade
  <2>6. PICK page, data : /\ Chain(View(r.ctx), m, page, data) /\ r.id = ChainHead(m, page)
                          /\ Eff(c, {}, r.ctx, ChainPages(m, page))
    BY <2>5 DEF ChainMade
  <2>7. s = [ctx |-> r.ctx, value |-> Overflow(r.id, l)]
    <3>1. s = OverflowValue(StoreChain(c, Reverse(Chunks(value, OVERFLOW_CHUNK))), Len(value))
      BY <1>2, Zenon DEF store_value
    <3>2. s = OverflowValue(r, l)
      BY <2>1, <2>4, <3>1, Zenon
    <3> QED
      BY <3>2 DEF OverflowValue
  <2>8. PICK v, V : v = s.value /\ V = View(s.ctx)
    OBVIOUS
  <2>9. v.head = r.id /\ v.len = l /\ v = Overflow(v.head, v.len) /\ s.ctx = r.ctx
    <3>1. s.ctx = r.ctx /\ v = Overflow(r.id, l)
      BY <2>7, <2>8
    <3>2. v.head = r.id /\ v.len = l
      BY <3>1 DEF Overflow
    <3> QED
      BY <3>1, <3>2
  <2>10. l \in Nat
    BY <2>1, LenProperties
  <2>11. /\ v.len \in Nat /\ m <= v.len /\ v.head = ChainHead(m, page)
         /\ Chain(V, m, page, data)
    BY <2>3, <2>6, <2>8, <2>9, <2>10
  <2>12. ValuePages(V, v) = ChainPages(m, page)
    BY <2>3, <2>9, <2>11, ValueFacts
  <2>13. ChainedOk(V, v)
    BY <2>3, <2>9, <2>11 DEF ChainedOk
  <2>14. v.head \in Nat
    <3>1. m <= m
      BY <2>3
    <3>2. ChainHead(m, page) \in Nat
      BY <2>3, <2>11, <3>1, ChainRead
    <3> QED
      BY <2>11, <3>2
  <2>15. v \in ValueSet
    BY <2>9, <2>11, <2>14 DEF ValueSet
  <2> QED
    BY <2>6, <2>8, <2>9, <2>12, <2>13, <2>15 DEF StoredOk, ValueOk
<1> QED
  BY <1>1, <1>2

================================================================================
