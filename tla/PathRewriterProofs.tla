-------------------------- MODULE PathRewriterProofs --------------------------
(***************************************************************************)
(* What graphql-rewiter prints, for every document and list of removed     *)
(* fields: the theorems of PathRewriter.                                   *)
(*                                                                         *)
(* The first part is about heaps: a document has no cycles, so each node   *)
(* has a rank above those it holds, and Contents is what its equation      *)
(* says.  The second follows the rewriting through its calls, whatever is  *)
(* shared; the third when nothing is.                                      *)
(***************************************************************************)
EXTENDS PathRewriter, DataInduction, FiniteSetTheorems, SequenceTheorems

-----------------------------------------------------------------------------
(* Documents and heaps *)

\* One turn of Settled.
Settle(r, low, k) ==
  IF k = 0 THEN {}
  ELSE {id \in DOMAIN r.nodes : InnerIds(r, r.nodes, id) \subseteq low[k - 1]}

\* Settled, up to m.
SettledTo(r, low, m) == low = [k \in 0..m |-> Settle(r, low, k)]

LEMMA SettledExtends ==
  ASSUME NEW r, NEW m \in Nat, NEW low, SettledTo(r, low, m)
  PROVE  \E new : SettledTo(r, new, m + 1)
<1> DEFINE new == [k \in 0..(m + 1) |-> Settle(r, low, k)]
<1>1. ASSUME NEW k \in 0..(m + 1)
      PROVE  Settle(r, new, k) = Settle(r, low, k)
  <2>1. CASE k = 0
    BY <2>1 DEF Settle
  <2>2. CASE k # 0
    <3>1. k - 1 \in 0..m /\ k - 1 \in 0..(m + 1)
      BY <2>2
    <3>2. low[k - 1] = Settle(r, low, k - 1)
      BY <3>1 DEF SettledTo
    <3>3. new[k - 1] = Settle(r, low, k - 1)
      BY <3>1
    <3> HIDE DEF new
    <3> QED
      BY <2>2, <3>2, <3>3 DEF Settle
  <2> QED
    BY <2>1, <2>2
<1>2. new = [k \in 0..(m + 1) |-> Settle(r, new, k)]
  <2> DEFINE other == [k \in 0..(m + 1) |-> Settle(r, new, k)]
  <2>1. \A k \in 0..(m + 1) : new[k] = other[k]
    BY <1>1
  <2> QED
    BY <2>1
<1> HIDE DEF new
<1> QED
  BY <1>2 DEF SettledTo

LEMMA SettledExists ==
  ASSUME NEW r, NEW m \in Nat
  PROVE  \E low : SettledTo(r, low, m)
<1> DEFINE G == {k \in Nat : \E low : SettledTo(r, low, k)}
<1>1. 0 \in G
  <2> DEFINE low == [k \in 0..0 |-> {}]
  <2>1. low = [k \in 0..0 |-> Settle(r, low, k)]
    BY DEF Settle
  <2> HIDE DEF low
  <2> QED
    BY <2>1 DEF SettledTo
<1>2. ASSUME NEW k \in Nat, k \in G
      PROVE  k + 1 \in G
  BY <1>2, SettledExtends
<1> HIDE DEF G
<1>3. Nat \subseteq G
  BY <1>1, <1>2, SetInduction
<1> QED
  BY <1>3 DEF G

Size(r) == Cardinality(DOMAIN r.nodes)

LEMMA SettledIs ==
  ASSUME NEW r, IsDocument(r)
  PROVE  /\ Size(r) \in Nat
         /\ \A k \in 0..Size(r) : Settled(r)[k] = Settle(r, Settled(r), k)
<1>1. Size(r) \in Nat
  BY FS_CardinalityType DEF IsDocument, Size
<1>2. PICK low : low = [k \in 0..Size(r) |-> Settle(r, low, k)]
  BY <1>1, SettledExists DEF SettledTo
<1>3. Settled(r) = CHOOSE f : f = [k \in 0..Size(r) |-> Settle(r, f, k)]
  BY DEF Settled, Settle, Size
<1>4. Settled(r) = [k \in 0..Size(r) |-> Settle(r, Settled(r), k)]
  BY <1>2, <1>3
<1> QED
  BY <1>1, <1>4

\* How many nodes there may be below each other in a node.
Rank(r, id) ==
  CHOOSE m \in 0..Size(r) :
    id \in Settled(r)[m] /\ \A k \in 0..Size(r) : id \in Settled(r)[k] => m <= k

LEMMA Ranks ==
  ASSUME NEW r, IsDocument(r)
  PROVE  \A id \in DOMAIN r.nodes :
           /\ Rank(r, id) \in Nat /\ Rank(r, id) <= Size(r)
           /\ \A inner \in InnerIds(r, r.nodes, id) :
                inner \in DOMAIN r.nodes /\ Rank(r, inner) < Rank(r, id)
<1> DEFINE N == Size(r)
           low == Settled(r)
<1>1. /\ N \in Nat
      /\ \A k \in 0..N : low[k] = Settle(r, low, k)
      /\ low[N] = DOMAIN r.nodes
  BY SettledIs DEF IsDocument, Size
<1> HIDE DEF low, N
<1>2. ASSUME NEW id \in DOMAIN r.nodes
      PROVE  /\ Rank(r, id) \in 0..N /\ id \in low[Rank(r, id)]
             /\ \A k \in 0..N : id \in low[k] => Rank(r, id) <= k
  <2> DEFINE T == {k \in 0..N : id \in low[k]}
  <2>1. T \in SUBSET Nat /\ N \in T
    BY <1>1
  <2>2. PICK m \in T : \A k \in T : m <= k
    BY <2>1, LeastNumber
  <2>3. m \in 0..N /\ id \in low[m] /\ \A k \in 0..N : id \in low[k] => m <= k
    BY <2>2
  <2>4. Rank(r, id) = CHOOSE k \in 0..N :
                        id \in low[k] /\ \A i \in 0..N : id \in low[i] => k <= i
    BY DEF Rank, low, N
  <2> QED
    BY <2>3, <2>4
<1>3. ASSUME NEW id \in DOMAIN r.nodes, NEW inner \in InnerIds(r, r.nodes, id)
      PROVE  inner \in DOMAIN r.nodes /\ Rank(r, inner) < Rank(r, id)
  <2> DEFINE m == Rank(r, id)
  <2>1. m \in 0..N /\ id \in Settle(r, low, m)
    BY <1>1, <1>2
  <2>2. m # 0 /\ inner \in low[m - 1]
    BY <2>1 DEF Settle, low
  <2>3. m - 1 \in 0..N
    BY <1>1, <2>1, <2>2
  <2>4. low[m - 1] \subseteq DOMAIN r.nodes
    BY <1>1, <2>3 DEF Settle
  <2>5. inner \in DOMAIN r.nodes /\ Rank(r, inner) <= m - 1 /\ Rank(r, inner) \in 0..N
    BY <1>2, <2>2, <2>4, <2>3
  <2> QED
    BY <2>1, <2>5
<1> QED
  BY <1>1, <1>2, <1>3 DEF N

\* The node keeps its kind and its name.
IsNode(node, was) == node = [kind |-> was.kind, name |-> was.name, sub |-> node.sub]

\* The nodes of a document while it is rewritten.
IsHeap(r, heap) ==
  /\ IsDocument(r)
  /\ DOMAIN heap = DOMAIN r.nodes
  /\ \A id \in DOMAIN r.nodes :
       /\ IsNode(heap[id], r.nodes[id])
       /\ heap[id].sub \in Seq(DOMAIN r.nodes)
       /\ \A inner \in InnerIds(r, heap, id) : Rank(r, inner) < Rank(r, id)

LEMMA InnerTyped ==
  ASSUME NEW r, NEW heap, IsHeap(r, heap), NEW id \in DOMAIN r.nodes
  PROVE  /\ Inner(r, heap, id) \in Seq(DOMAIN r.nodes)
         /\ InnerIds(r, heap, id) \subseteq DOMAIN r.nodes
<1>1. \A f \in DOMAIN r.fragments : r.fragments[f] \in Seq(DOMAIN r.nodes)
  <2> SUFFICES ASSUME NEW f \in DOMAIN r.fragments
               PROVE  r.fragments[f] \in Seq(DOMAIN r.nodes)
    OBVIOUS
  <2>1. <<"fragment", f>> \in Owners(r)
    BY DEF Owners
  <2>2. SelectionSet(r, <<"fragment", f>>) = r.fragments[f]
    BY DEF SelectionSet
  <2> QED
    BY <2>1, <2>2 DEF IsHeap, IsDocument
<1>2. heap[id].sub \in Seq(DOMAIN r.nodes)
  BY DEF IsHeap
<1>3. Inner(r, heap, id) \in Seq(DOMAIN r.nodes)
  <2>1. CASE heap[id].kind # "spread"
    BY <1>2, <2>1 DEF Inner
  <2>2. CASE heap[id].kind = "spread" /\ heap[id].name \in DOMAIN r.fragments
    BY <1>1, <2>2 DEF Inner
  <2>3. CASE heap[id].kind = "spread" /\ heap[id].name \notin DOMAIN r.fragments
    <3>1. Inner(r, heap, id) = <<>>
      BY <2>3 DEF Inner
    <3> QED
      BY <3>1
  <2> QED
    BY <2>1, <2>2, <2>3
<1> QED
  BY <1>3 DEF InnerIds

LEMMA DocumentIsHeap ==
  ASSUME NEW r, IsDocument(r)
  PROVE  IsHeap(r, r.nodes)
<1>1. ASSUME NEW id \in DOMAIN r.nodes
      PROVE  r.nodes[id].sub \in Seq(DOMAIN r.nodes)
  <2>1. <<"node", id>> \in Owners(r)
    BY DEF Owners
  <2>2. SelectionSet(r, <<"node", id>>) = r.nodes[id].sub
    BY DEF SelectionSet
  <2> QED
    BY <2>1, <2>2 DEF IsDocument
<1> QED
  BY <1>1, Ranks DEF IsHeap, IsNode, IsDocument

\* A set of ids that has each node with what the node holds has all ids.
LEMMA HeapInduction ==
  ASSUME NEW r, NEW heap, IsHeap(r, heap), NEW G,
         \A id \in DOMAIN r.nodes : InnerIds(r, heap, id) \subseteq G => id \in G
  PROVE  DOMAIN r.nodes \subseteq G
<1> DEFINE T == {Rank(r, id) : id \in DOMAIN r.nodes \ G}
<1> SUFFICES ASSUME DOMAIN r.nodes \ G # {}
             PROVE  FALSE
  OBVIOUS
<1>1. T \in SUBSET Nat /\ T # {}
  BY Ranks DEF IsHeap
<1>2. PICK m \in T : \A k \in T : m <= k
  BY <1>1, LeastNumber
<1>3. PICK id \in DOMAIN r.nodes \ G : m = Rank(r, id)
  OBVIOUS
<1>4. PICK inner \in InnerIds(r, heap, id) : inner \notin G
  BY <1>3
<1>5. inner \in DOMAIN r.nodes /\ Rank(r, inner) < Rank(r, id)
  BY InnerTyped DEF IsHeap
<1>6. Rank(r, inner) \in T /\ Rank(r, inner) \in Nat /\ Rank(r, id) \in Nat
  BY <1>1, <1>4, <1>5, Ranks DEF IsHeap
<1> HIDE DEF T
<1> QED
  BY <1>2, <1>3, <1>5, <1>6

-----------------------------------------------------------------------------
(* What a node comes to *)

\* A node where it is, and what is in the node.
Itself(id, node) == [node |-> id, path |-> Own(node)]
Inside(node, c)  == [node |-> c.node, path |-> Own(node) \o c.path]

\* One turn of Contents.
Content(r, heap, of, id) ==
  {Itself(id, heap[id])}
    \cup {Inside(heap[id], c) :
            c \in UNION {of[inner] : inner \in InnerIds(r, heap, id)}}

\* Contents, up to the nodes of rank m.
ContentsTo(r, heap, of, m) ==
  of = [id \in DOMAIN r.nodes |->
          IF Rank(r, id) < m THEN Content(r, heap, of, id) ELSE {}]

LEMMA ContentsExtend ==
  ASSUME NEW r, NEW heap, IsHeap(r, heap), NEW m \in Nat, NEW of,
         ContentsTo(r, heap, of, m)
  PROVE  \E new : ContentsTo(r, heap, new, m + 1)
<1> DEFINE new == [id \in DOMAIN r.nodes |->
                     IF Rank(r, id) < m + 1 THEN Content(r, heap, of, id) ELSE {}]
<1>1. ASSUME NEW id \in DOMAIN r.nodes, Rank(r, id) < m + 1
      PROVE  Content(r, heap, new, id) = Content(r, heap, of, id)
  <2>1. ASSUME NEW inner \in InnerIds(r, heap, id)
        PROVE  new[inner] = of[inner]
    <3>1. /\ inner \in DOMAIN r.nodes
          /\ Rank(r, inner) \in Nat /\ Rank(r, id) \in Nat
          /\ Rank(r, inner) < Rank(r, id)
      BY InnerTyped, Ranks DEF IsHeap
    <3>2. Rank(r, inner) < m /\ Rank(r, inner) < m + 1
      BY <1>1, <3>1
    <3>3. of[inner] = Content(r, heap, of, inner)
      BY <3>1, <3>2 DEF ContentsTo
    <3> QED
      BY <3>1, <3>2, <3>3
  <2>2. {new[inner] : inner \in InnerIds(r, heap, id)}
          = {of[inner] : inner \in InnerIds(r, heap, id)}
    BY <2>1
  <2> HIDE DEF new
  <2> QED
    BY <2>2 DEF Content
<1>2. new = [id \in DOMAIN r.nodes |->
               IF Rank(r, id) < m + 1 THEN Content(r, heap, new, id) ELSE {}]
  <2> DEFINE other == [id \in DOMAIN r.nodes |->
                         IF Rank(r, id) < m + 1 THEN Content(r, heap, new, id) ELSE {}]
  <2>1. \A id \in DOMAIN r.nodes : new[id] = other[id]
    BY <1>1
  <2> QED
    BY <2>1
<1> HIDE DEF new
<1> QED
  BY <1>2 DEF ContentsTo

LEMMA ContentsExist ==
  ASSUME NEW r, NEW heap, IsHeap(r, heap), NEW m \in Nat
  PROVE  \E of : ContentsTo(r, heap, of, m)
<1> DEFINE G == {k \in Nat : \E of : ContentsTo(r, heap, of, k)}
<1>1. 0 \in G
  <2> DEFINE of == [id \in DOMAIN r.nodes |-> {}]
  <2>1. \A id \in DOMAIN r.nodes : ~(Rank(r, id) < 0)
    BY Ranks DEF IsHeap
  <2>2. of = [id \in DOMAIN r.nodes |->
                IF Rank(r, id) < 0 THEN Content(r, heap, of, id) ELSE {}]
    BY <2>1
  <2> HIDE DEF of
  <2> QED
    BY <2>2 DEF ContentsTo
<1>2. ASSUME NEW k \in Nat, k \in G
      PROVE  k + 1 \in G
  BY <1>2, ContentsExtend
<1> HIDE DEF G
<1>3. Nat \subseteq G
  BY <1>1, <1>2, SetInduction
<1> QED
  BY <1>3 DEF G

\* Contents is what its equation says.
LEMMA ContentsAre ==
  ASSUME NEW r, NEW heap, IsHeap(r, heap)
  PROVE  \A id \in DOMAIN r.nodes :
           Contents(r, heap)[id] = Content(r, heap, Contents(r, heap), id)
<1>1. Size(r) \in Nat
  BY SettledIs DEF IsHeap
<1>2. PICK of : ContentsTo(r, heap, of, Size(r) + 1)
  BY <1>1, ContentsExist
<1>3. \A id \in DOMAIN r.nodes : Rank(r, id) < Size(r) + 1
  BY <1>1, Ranks DEF IsHeap
<1>4. of = [id \in DOMAIN r.nodes |-> Content(r, heap, of, id)]
  BY <1>2, <1>3 DEF ContentsTo
<1>5. DOMAIN heap = DOMAIN r.nodes
  BY DEF IsHeap
<1>6. Contents(r, heap)
        = CHOOSE f : f = [id \in DOMAIN heap |-> Content(r, heap, f, id)]
  BY DEF Contents, Content, Itself, Inside
<1>7. Contents(r, heap)
        = CHOOSE f : f = [id \in DOMAIN r.nodes |-> Content(r, heap, f, id)]
  BY <1>5, <1>6
<1>8. Contents(r, heap)
        = [id \in DOMAIN r.nodes |-> Content(r, heap, Contents(r, heap), id)]
  BY <1>4, <1>7
<1> QED
  BY <1>8

\* The equation, for each element.
LEMMA ContentsOf ==
  ASSUME NEW r, NEW heap, IsHeap(r, heap), NEW id \in DOMAIN r.nodes
  PROVE  /\ Itself(id, heap[id]) \in Contents(r, heap)[id]
         /\ \A inner \in InnerIds(r, heap, id) : \A c \in Contents(r, heap)[inner] :
              Inside(heap[id], c)
                \in Contents(r, heap)[id]
         /\ \A c \in Contents(r, heap)[id] :
              \/ c = Itself(id, heap[id])
              \/ \E inner \in InnerIds(r, heap, id) :
                  \E d \in Contents(r, heap)[inner] :
                    c = Inside(heap[id], d)
<1> DEFINE in == UNION {Contents(r, heap)[inner] : inner \in InnerIds(r, heap, id)}
<1>1. Contents(r, heap)[id] = Content(r, heap, Contents(r, heap), id)
  BY ContentsAre
<1>2. Content(r, heap, Contents(r, heap), id)
        = {Itself(id, heap[id])}
            \cup {Inside(heap[id], c) : c \in in}
  BY DEF Content
<1>3. \A c : c \in in <=> \E inner \in InnerIds(r, heap, id) : c \in Contents(r, heap)[inner]
  OBVIOUS
<1> HIDE DEF in
<1> QED
  BY <1>1, <1>2, <1>3

LEMMA OwnTyped ==
  ASSUME NEW r, NEW heap, IsHeap(r, heap), NEW id \in DOMAIN r.nodes
  PROVE  /\ Own(heap[id]) \in Seq(STRING)
         /\ heap[id].kind = r.nodes[id].kind /\ heap[id].name = r.nodes[id].name
         /\ heap[id].kind \in {"field", "inline", "spread"}
         /\ heap[id].name \in STRING
<1>1. /\ heap[id].kind = r.nodes[id].kind /\ heap[id].name = r.nodes[id].name
      /\ r.nodes[id].kind \in {"field", "inline", "spread"}
      /\ r.nodes[id].name \in STRING
  <2>1. heap[id] = [kind |-> r.nodes[id].kind, name |-> r.nodes[id].name,
                    sub |-> heap[id].sub]
    BY DEF IsHeap, IsNode
  <2>2. heap[id].kind = r.nodes[id].kind /\ heap[id].name = r.nodes[id].name
    BY <2>1
  <2>3. IsDocument(r)
    BY DEF IsHeap
  <2>4. r.nodes[id].kind \in {"field", "inline", "spread"} /\ r.nodes[id].name \in STRING
    BY <2>3 DEF IsDocument
  <2> QED
    BY <2>2, <2>4
<1>2. <<>> \in Seq(STRING) /\ <<heap[id].name>> \in Seq(STRING)
  BY <1>1
<1> QED
  BY <1>1, <1>2 DEF Own

LEMMA ContentsTyped ==
  ASSUME NEW r, NEW heap, IsHeap(r, heap)
  PROVE  \A id \in DOMAIN r.nodes : \A c \in Contents(r, heap)[id] :
           /\ c = [node |-> c.node, path |-> c.path]
           /\ c.node \in DOMAIN r.nodes /\ c.path \in Seq(STRING)
           /\ Rank(r, c.node) <= Rank(r, id)
<1> DEFINE Typed(id, c) ==
             /\ c = [node |-> c.node, path |-> c.path]
             /\ c.node \in DOMAIN r.nodes /\ c.path \in Seq(STRING)
             /\ Rank(r, c.node) <= Rank(r, id)
           G == {id \in DOMAIN r.nodes : \A c \in Contents(r, heap)[id] : Typed(id, c)}
<1>1. ASSUME NEW id \in DOMAIN r.nodes, InnerIds(r, heap, id) \subseteq G,
             NEW c \in Contents(r, heap)[id]
      PROVE  Typed(id, c)
  <2>1. CASE c = Itself(id, heap[id])
    BY <2>1, OwnTyped, Ranks DEF IsHeap, Itself
  <2>2. ASSUME NEW inner \in InnerIds(r, heap, id), NEW d \in Contents(r, heap)[inner],
               c = Inside(heap[id], d)
        PROVE  Typed(id, c)
    <3>1. Typed(inner, d) /\ inner \in DOMAIN r.nodes
      BY <1>1
    <3>2. Rank(r, d.node) \in Nat /\ Rank(r, inner) \in Nat /\ Rank(r, id) \in Nat
      BY <3>1, Ranks DEF IsHeap
    <3>3. Rank(r, inner) < Rank(r, id)
      BY DEF IsHeap
    <3>4. Own(heap[id]) \o d.path \in Seq(STRING)
      BY <3>1, OwnTyped
    <3>5. /\ c = [node |-> d.node, path |-> Own(heap[id]) \o d.path]
          /\ c.node = d.node /\ c.path = Own(heap[id]) \o d.path
      BY <2>2 DEF Inside
    <3> QED
      BY <2>2, <3>1, <3>2, <3>3, <3>4, <3>5
  <2> HIDE DEF Typed
  <2> QED
    BY <2>1, <2>2, ContentsOf
<1> HIDE DEF Typed
<1>2. DOMAIN r.nodes \subseteq G
  <2>1. \A id \in DOMAIN r.nodes : InnerIds(r, heap, id) \subseteq G => id \in G
    BY <1>1
  <2> HIDE DEF G
  <2> QED
    BY <2>1, HeapInduction
<1> QED
  BY <1>2 DEF Typed

-----------------------------------------------------------------------------
(* A node in the place of another *)

\* y can be where x is: whatever the nodes are, y comes to nothing x does not.
\* What rewriteSelectionSet returns stands in this way for what it was given.
Stands(r, y, x) ==
  /\ y \in DOMAIN r.nodes /\ x \in DOMAIN r.nodes
  /\ Rank(r, y) <= Rank(r, x)
  /\ \A heap : IsHeap(r, heap) => Contents(r, heap)[y] \subseteq Contents(r, heap)[x]

LEMMA StandsForItself ==
  ASSUME NEW r, IsDocument(r), NEW x \in DOMAIN r.nodes
  PROVE  Stands(r, x, x)
BY Ranks DEF Stands

LEMMA InnerOfSpread ==
  ASSUME NEW r, NEW heap, IsHeap(r, heap), NEW x \in DOMAIN r.nodes,
         r.nodes[x].kind = "spread"
  PROVE  Inner(r, heap, x) = Inner(r, r.nodes, x) /\ Own(heap[x]) = <<>>
<1>1. heap[x].kind = "spread" /\ heap[x].name = r.nodes[x].name
  BY OwnTyped
<1> QED
  BY <1>1 DEF Inner, Own

\* What stands for a node of a fragment stands for a spread of the fragment.
LEMMA StandsForSpread ==
  ASSUME NEW r, IsDocument(r), NEW x \in DOMAIN r.nodes, r.nodes[x].kind = "spread",
         NEW z \in InnerIds(r, r.nodes, x), NEW y, Stands(r, y, z)
  PROVE  Stands(r, y, x)
<1>1. /\ y \in DOMAIN r.nodes /\ z \in DOMAIN r.nodes
      /\ Rank(r, y) <= Rank(r, z) /\ Rank(r, z) < Rank(r, x)
      /\ Rank(r, x) \in Nat /\ Rank(r, y) \in Nat /\ Rank(r, z) \in Nat
  BY Ranks DEF Stands
<1>2. ASSUME NEW heap, IsHeap(r, heap)
      PROVE  Contents(r, heap)[y] \subseteq Contents(r, heap)[x]
  <2> SUFFICES ASSUME NEW c \in Contents(r, heap)[y]
               PROVE  c \in Contents(r, heap)[x]
    OBVIOUS
  <2>1. c \in Contents(r, heap)[z]
    BY <1>2 DEF Stands
  <2>2. c = [node |-> c.node, path |-> c.path] /\ c.path \in Seq(STRING)
    BY <1>1, <1>2, <2>1, ContentsTyped
  <2>3. z \in InnerIds(r, heap, x) /\ Own(heap[x]) = <<>>
    BY <1>2, InnerOfSpread DEF InnerIds
  <2>4. Inside(heap[x], c) \in Contents(r, heap)[x]
    BY <1>2, <2>1, <2>3, ContentsOf
  <2>5. <<>> \o c.path = c.path
    BY <2>2
  <2>6. Inside(heap[x], c) = c
    BY <2>2, <2>3, <2>5 DEF Inside
  <2> QED
    BY <2>4, <2>6
<1> QED
  BY <1>1, <1>2 DEF Stands

\* A node gets another selection set.
Written(heap, id, kept) == [heap EXCEPT ![id].sub = kept]

LEMMA WrittenNodes ==
  ASSUME NEW r, NEW heap, IsHeap(r, heap), NEW id \in DOMAIN r.nodes,
         r.nodes[id].kind # "spread", NEW kept \in Seq(DOMAIN r.nodes),
         NEW new, new = Written(heap, id, kept)
  PROVE  /\ DOMAIN new = DOMAIN r.nodes
         /\ \A x \in DOMAIN r.nodes :
              IsNode(new[x], r.nodes[x]) /\ Own(new[x]) = Own(heap[x])
         /\ \A x \in DOMAIN r.nodes \ {id} :
              new[x] = heap[x] /\ Inner(r, new, x) = Inner(r, heap, x)
         /\ Inner(r, heap, id) = heap[id].sub
         /\ new[id].sub = kept /\ Inner(r, new, id) = kept
<1>1. DOMAIN heap = DOMAIN r.nodes
  BY DEF IsHeap
<1>2. \A x \in DOMAIN r.nodes : IsNode(heap[x], r.nodes[x])
  BY DEF IsHeap
<1>3. DOMAIN new = DOMAIN r.nodes /\ \A x \in DOMAIN r.nodes \ {id} : new[x] = heap[x]
  BY <1>1 DEF Written
<1>4. new[id] = [kind |-> r.nodes[id].kind, name |-> r.nodes[id].name, sub |-> kept]
  <2>1. new[id] = [heap[id] EXCEPT !.sub = kept]
    BY <1>1 DEF Written
  <2>2. PICK sub : heap[id] = [kind |-> r.nodes[id].kind, name |-> r.nodes[id].name,
                               sub |-> sub]
    BY <1>2 DEF IsNode
  <2> QED
    BY <2>1, <2>2
<1>5. \A x \in DOMAIN r.nodes : IsNode(new[x], r.nodes[x])
  <2>1. IsNode(new[id], r.nodes[id])
    BY <1>4 DEF IsNode
  <2> QED
    BY <1>2, <1>3, <2>1
<1>6. \A x \in DOMAIN r.nodes : Own(new[x]) = Own(heap[x])
  <2> SUFFICES ASSUME NEW x \in DOMAIN r.nodes
               PROVE  Own(new[x]) = Own(heap[x])
    OBVIOUS
  <2>1. PICK sub : new[x] = [kind |-> r.nodes[x].kind, name |-> r.nodes[x].name,
                             sub |-> sub]
    BY <1>5 DEF IsNode
  <2>2. new[x].kind = r.nodes[x].kind /\ new[x].name = r.nodes[x].name
    BY <2>1
  <2>3. new[x].kind = heap[x].kind /\ new[x].name = heap[x].name
    BY <2>2, OwnTyped
  <2> QED
    BY <2>3 DEF Own
<1>7. \A x \in DOMAIN r.nodes \ {id} : Inner(r, new, x) = Inner(r, heap, x)
  BY <1>3 DEF Inner
<1>8. Inner(r, heap, id) = heap[id].sub
  <2>1. heap[id].kind # "spread"
    BY OwnTyped
  <2> QED
    BY <2>1 DEF Inner
<1>9. new[id].sub = kept /\ new[id].kind # "spread"
  BY <1>4
<1>10. Inner(r, new, id) = kept
  BY <1>9 DEF Inner
<1> QED
  BY <1>3, <1>5, <1>6, <1>7, <1>8, <1>9, <1>10

\* The nodes stay a heap, and come to nothing new.
LEMMA WrittenShrinks ==
  ASSUME NEW r, NEW heap, IsHeap(r, heap), NEW id \in DOMAIN r.nodes,
         r.nodes[id].kind # "spread", NEW kept \in Seq(DOMAIN r.nodes),
         \A j \in DOMAIN kept :
           \E i \in DOMAIN heap[id].sub : Stands(r, kept[j], heap[id].sub[i]),
         NEW new, new = Written(heap, id, kept)
  PROVE  /\ IsHeap(r, new)
         /\ \A x \in DOMAIN r.nodes : Contents(r, new)[x] \subseteq Contents(r, heap)[x]
<1> DEFINE G == {x \in DOMAIN r.nodes : Contents(r, new)[x] \subseteq Contents(r, heap)[x]}
<1>1. /\ DOMAIN new = DOMAIN r.nodes
      /\ \A x \in DOMAIN r.nodes :
           IsNode(new[x], r.nodes[x]) /\ Own(new[x]) = Own(heap[x])
      /\ \A x \in DOMAIN r.nodes \ {id} :
           new[x] = heap[x] /\ Inner(r, new, x) = Inner(r, heap, x)
      /\ Inner(r, heap, id) = heap[id].sub
      /\ new[id].sub = kept /\ Inner(r, new, id) = kept
  BY WrittenNodes
<1>2. \A x \in DOMAIN r.nodes \ {id} : InnerIds(r, new, x) = InnerIds(r, heap, x)
  BY <1>1 DEF InnerIds
<1>3. \A inner \in InnerIds(r, new, id) :
        \E x \in InnerIds(r, heap, id) : Stands(r, inner, x)
  BY <1>1 DEF InnerIds
<1>4. \A x \in DOMAIN r.nodes : new[x].sub \in Seq(DOMAIN r.nodes)
  BY <1>1 DEF IsHeap
<1>5. ASSUME NEW x \in DOMAIN r.nodes, NEW inner \in InnerIds(r, new, x)
      PROVE  Rank(r, inner) < Rank(r, x)
  <2>1. CASE x # id
    BY <1>2, <2>1 DEF IsHeap
  <2>2. CASE x = id
    <3>1. PICK y \in InnerIds(r, heap, id) : Stands(r, inner, y)
      BY <1>3, <2>2
    <3>2. Rank(r, inner) <= Rank(r, y) /\ Rank(r, y) < Rank(r, id)
      BY <3>1 DEF Stands, IsHeap
    <3>3. inner \in DOMAIN r.nodes /\ y \in DOMAIN r.nodes
      BY <3>1 DEF Stands
    <3>4. Rank(r, inner) \in Nat /\ Rank(r, y) \in Nat /\ Rank(r, id) \in Nat
      BY <3>3, Ranks DEF IsHeap
    <3> QED
      BY <2>2, <3>2, <3>4
  <2> QED
    BY <2>1, <2>2
<1>6. IsHeap(r, new)
  BY <1>1, <1>4, <1>5 DEF IsHeap
<1>7. ASSUME NEW x \in DOMAIN r.nodes, InnerIds(r, new, x) \subseteq G,
             NEW c \in Contents(r, new)[x]
      PROVE  c \in Contents(r, heap)[x]
  <2> HIDE DEF G
  <2>1. CASE c = Itself(x, new[x])
    BY <1>1, <2>1, ContentsOf DEF Itself
  <2>2. ASSUME NEW inner \in InnerIds(r, new, x), NEW d \in Contents(r, new)[inner],
               c = Inside(new[x], d)
        PROVE  c \in Contents(r, heap)[x]
    <3>1. d \in Contents(r, heap)[inner]
      BY <1>7 DEF G
    <3>2. \E y \in InnerIds(r, heap, x) : d \in Contents(r, heap)[y]
      <4>1. CASE x # id
        BY <1>2, <3>1, <4>1
      <4>2. CASE x = id
        BY <1>3, <3>1, <4>2 DEF Stands
      <4> QED
        BY <4>1, <4>2
    <3>3. PICK y \in InnerIds(r, heap, x) : d \in Contents(r, heap)[y]
      BY <3>2
    <3>4. Inside(heap[x], d) \in Contents(r, heap)[x]
      BY <3>3, ContentsOf
    <3>5. Inside(heap[x], d) = Inside(new[x], d)
      BY <1>1 DEF Inside
    <3> QED
      BY <2>2, <3>4, <3>5
  <2>3. \/ c = Itself(x, new[x])
        \/ \E inner \in InnerIds(r, new, x) : \E d \in Contents(r, new)[inner] :
             c = Inside(new[x], d)
    BY <1>6, ContentsOf
  <2> QED
    BY <2>1, <2>2, <2>3
<1>8. DOMAIN r.nodes \subseteq G
  <2>1. \A x \in DOMAIN r.nodes : InnerIds(r, new, x) \subseteq G => x \in G
    BY <1>7
  <2> HIDE DEF G
  <2> QED
    BY <1>6, <2>1, HeapInduction
<1> QED
  BY <1>6, <1>8

-----------------------------------------------------------------------------
(* Paths *)

\* IsRemoved, of a set of removed paths.
Covered(paths, path) == \E i \in DOMAIN path : SubSeq(path, 1, i) \in paths

LEMMA CoveredBelow ==
  ASSUME NEW paths, NEW p \in Seq(STRING), NEW q \in Seq(STRING), Covered(paths, p)
  PROVE  Covered(paths, p \o q)
<1>1. PICK i \in DOMAIN p : SubSeq(p, 1, i) \in paths
  BY DEF Covered
<1>2. i \in DOMAIN (p \o q) /\ SubSeq(p \o q, 1, i) = SubSeq(p, 1, i)
  OBVIOUS
<1> QED
  BY <1>1, <1>2 DEF Covered

LEMMA PrefixOfAppend ==
  ASSUME NEW p \in Seq(STRING), NEW name \in STRING
  PROVE  /\ \A i \in 1..Len(p) : SubSeq(Append(p, name), 1, i) = SubSeq(p, 1, i)
         /\ SubSeq(Append(p, name), 1, Len(p) + 1) = Append(p, name)
<1> DEFINE q == Append(p, name)
<1>1. /\ q \in Seq(STRING) /\ Len(p) \in Nat /\ Len(q) = Len(p) + 1
      /\ \A i \in 1..Len(p) : q[i] = p[i]
  BY AppendFacts
<1> HIDE DEF q
<1>2. ASSUME NEW i \in 1..Len(p)
      PROVE  SubSeq(q, 1, i) = SubSeq(p, 1, i)
  BY <1>1
<1>3. SubSeq(q, 1, Len(q)) = q
  BY <1>1
<1> QED
  BY <1>1, <1>2, <1>3 DEF q

LEMMA CoveredAppend ==
  ASSUME NEW paths, NEW p \in Seq(STRING), NEW name \in STRING
  PROVE  Covered(paths, Append(p, name)) <=> Covered(paths, p) \/ Append(p, name) \in paths
<1> DEFINE q == Append(p, name)
<1>1. /\ q \in Seq(STRING) /\ Len(p) \in Nat /\ Len(q) = Len(p) + 1
      /\ \A i \in 1..Len(p) : SubSeq(q, 1, i) = SubSeq(p, 1, i)
      /\ SubSeq(q, 1, Len(p) + 1) = q
  BY AppendFacts, PrefixOfAppend
<1> HIDE DEF q
<1>2. DOMAIN p = 1..Len(p) /\ DOMAIN q = 1..(Len(p) + 1)
  BY <1>1
<1>3. \A i \in DOMAIN q : i \in 1..Len(p) \/ i = Len(p) + 1
  BY <1>1, <1>2
<1>4. Len(p) + 1 \in DOMAIN q /\ \A i \in DOMAIN p : i \in DOMAIN q
  BY <1>1, <1>2
<1>5. Covered(paths, q) <=> Covered(paths, p) \/ q \in paths
  BY <1>1, <1>2, <1>3, <1>4 DEF Covered
<1> QED
  BY <1>5 DEF q

LEMMA PathOfNode ==
  ASSUME NEW r, NEW heap, IsHeap(r, heap), NEW id \in DOMAIN r.nodes,
         NEW path \in Seq(STRING)
  PROVE  PathOf(heap[id], path) \in Seq(STRING)
<1>1. heap[id].name \in STRING
  BY OwnTyped
<1>2. Append(path, heap[id].name) \in Seq(STRING)
  BY <1>1
<1> QED
  BY <1>2 DEF PathOf

\* Where a node is, what it comes to is.
LEMMA CoveredInside ==
  ASSUME NEW paths, NEW r, NEW heap, IsHeap(r, heap), NEW id \in DOMAIN r.nodes,
         NEW path \in Seq(STRING), NEW c, c.path \in Seq(STRING)
  PROVE  Covered(paths, path \o Inside(heap[id], c).path)
           <=> Covered(paths, PathOf(heap[id], path) \o c.path)
<1> DEFINE p == c.path
<1>1. p \in Seq(STRING)
  OBVIOUS
<1>2. Inside(heap[id], c).path = Own(heap[id]) \o p
  BY DEF Inside
<1> HIDE DEF p
<1>3. heap[id].name \in STRING
  BY OwnTyped
<1>4. CASE heap[id].kind = "field"
  <2> DEFINE n == heap[id].name
  <2>1. PathOf(heap[id], path) = Append(path, n) /\ Own(heap[id]) = <<n>>
    BY <1>4 DEF PathOf, Own
  <2> HIDE DEF n
  <2>2. n \in STRING
    BY <1>3 DEF n
  <2>3. path \o (<<n>> \o p) = Append(path, n) \o p
    BY <1>1, <2>2
  <2> QED
    BY <1>2, <2>1, <2>3 DEF p
<1>5. CASE heap[id].kind # "field"
  <2>1. PathOf(heap[id], path) = path /\ Own(heap[id]) = <<>>
    BY <1>5 DEF PathOf, Own
  <2>2. path \o (<<>> \o p) = path \o p
    BY <1>1
  <2> QED
    BY <1>2, <2>1, <2>2 DEF p
<1> QED
  BY <1>2, <1>4, <1>5

LEMMA CoveredItself ==
  ASSUME NEW paths, NEW r, NEW heap, IsHeap(r, heap), NEW id \in DOMAIN r.nodes,
         NEW path \in Seq(STRING)
  PROVE  Covered(paths, path \o Itself(id, heap[id]).path)
           <=> Covered(paths, PathOf(heap[id], path))
<1>1. heap[id].name \in STRING
  BY OwnTyped
<1>2. Itself(id, heap[id]).path = Own(heap[id])
  BY DEF Itself
<1>3. path \o Own(heap[id]) = PathOf(heap[id], path)
  BY <1>1 DEF Own, PathOf
<1> QED
  BY <1>2, <1>3

-----------------------------------------------------------------------------
(* The calls under way *)

Calls(r) ==
  [set : Seq(DOMAIN r.nodes), at : Nat, path : Seq(STRING), kept : Seq(DOMAIN r.nodes)]

Current(calls, k) == calls[k].set[calls[k].at]

\* Nothing a node comes to, at a place of the query, is removed or a spread.
Clean(r, paths, heap, path, id) ==
  \A c \in Contents(r, heap)[id] :
    ~Covered(paths, path \o c.path) /\ r.nodes[c.node].kind # "spread"

\* What is kept stands for one of the first n - 1 selections, and is clean.
Keeps(r, paths, heap, path, set, n, kept) ==
  \A j \in DOMAIN kept :
    /\ \E i \in DOMAIN set : i < n /\ Stands(r, kept[j], set[i])
    /\ Clean(r, paths, heap, path, kept[j])

Fits(r, paths, heap, call) ==
  /\ call.at \in 1..(Len(call.set) + 1)
  /\ ~Covered(paths, call.path)
  /\ Keeps(r, paths, heap, call.path, call.set, call.at, call.kept)

\* Each call is for what the call below it is at, and the first for an
\* operation.
Linked(r, heap, calls, n) ==
  /\ calls # <<>> => /\ n + 1 \in DOMAIN r.operations
                     /\ calls[1].set = r.operations[n + 1] /\ calls[1].path = <<>>
  /\ \A k \in 1..(Len(calls) - 1) :
       /\ calls[k].at \in DOMAIN calls[k].set
       /\ calls[k + 1].set = Inner(r, heap, Current(calls, k))
       /\ calls[k + 1].path = PathOf(r.nodes[Current(calls, k)], calls[k].path)
       /\ \A m \in 1..(k - 1) :
            Rank(r, Current(calls, k)) < Rank(r, Current(calls, m))

\* The rewriting, whatever the document shares: what is kept is clean and
\* stands for what was asked for.  That is inductive because a node only ever
\* loses selections, also one that several places share.
RewritingInv ==
  /\ request \in Requests /\ IsHeap(request, nodes)
  /\ pc \in {"request", "rewriting", "answered"}
  /\ status \in {0, 200, 400, 405}
  /\ pc = "request" => stack = <<>> /\ out = <<>>
  /\ stack \in Seq(Calls(request)) /\ out \in Seq(Seq(DOMAIN request.nodes))
  /\ Len(out) <= Len(request.operations)
  /\ \A k \in DOMAIN stack : Fits(request, removed, nodes, stack[k])
  /\ Linked(request, nodes, stack, Len(out))
  /\ \A i \in DOMAIN out :
       Keeps(request, removed, nodes, <<>>, request.operations[i],
             Len(request.operations[i]) + 1, out[i])

LEMMA RequestFacts ==
  ASSUME NEW r \in Requests
  PROVE  /\ IsDocument(r)
         /\ r.operations \in Seq(Seq(DOMAIN r.nodes)) /\ Len(r.operations) \in Nat
         /\ DOMAIN r.operations = 1..Len(r.operations)
         /\ \A i \in DOMAIN r.operations : r.operations[i] \in Seq(DOMAIN r.nodes)
<1>1. IsDocument(r) /\ r.operations \in Seq(Seq(DOMAIN r.nodes))
  BY RequestAssumption
<1> QED
  BY <1>1

LEMMA PassedFits ==
  ASSUME NEW r, NEW paths, NEW heap, NEW call \in Calls(r), Fits(r, paths, heap, call),
         call.at \in DOMAIN call.set, NEW more \in Seq(DOMAIN r.nodes),
         \A j \in DOMAIN more :
           /\ Stands(r, more[j], call.set[call.at])
           /\ Clean(r, paths, heap, call.path, more[j])
  PROVE  /\ Passed(call, more) \in Calls(r) /\ Fits(r, paths, heap, Passed(call, more))
         /\ Passed(call, more).set = call.set /\ Passed(call, more).path = call.path
<1> DEFINE new == Passed(call, more)
<1>1. /\ call.set \in Seq(DOMAIN r.nodes) /\ call.at \in Nat
      /\ call.path \in Seq(STRING) /\ call.kept \in Seq(DOMAIN r.nodes)
  BY DEF Calls
<1>2. /\ new \in Calls(r)
      /\ new.set = call.set /\ new.path = call.path
      /\ new.at = call.at + 1 /\ new.kept = call.kept \o more
  <2>1. call.kept \o more \in Seq(DOMAIN r.nodes)
    BY <1>1, ConcatProperties
  <2>2. call.at + 1 \in Nat
    BY <1>1
  <2> QED
    BY <1>1, <2>1, <2>2 DEF Passed, Calls
<1> HIDE DEF new
<1>3. new.at \in 1..(Len(new.set) + 1)
  <2>1. DOMAIN call.set = 1..Len(call.set) /\ Len(call.set) \in Nat
    BY <1>1
  <2> QED
    BY <1>1, <1>2, <2>1
<1>4. ASSUME NEW j \in DOMAIN new.kept
      PROVE  /\ \E i \in DOMAIN new.set : i < new.at /\ Stands(r, new.kept[j], new.set[i])
             /\ Clean(r, paths, heap, new.path, new.kept[j])
  <2>1. CASE j \in DOMAIN call.kept
    <3>1. new.kept[j] = call.kept[j]
      BY <1>1, <1>2, <2>1
    <3>2. PICK i \in DOMAIN call.set : i < call.at /\ Stands(r, call.kept[j], call.set[i])
      BY <2>1 DEF Fits, Keeps
    <3>3. i < call.at + 1
      BY <1>1, <3>2
    <3>4. Clean(r, paths, heap, call.path, call.kept[j])
      BY <2>1 DEF Fits, Keeps
    <3> QED
      BY <1>2, <3>1, <3>2, <3>3, <3>4
  <2>2. CASE j \notin DOMAIN call.kept
    <3>1. \E m \in DOMAIN more : new.kept[j] = more[m]
      <4> DEFINE m == j - Len(call.kept)
      <4>1. m \in DOMAIN more /\ (call.kept \o more)[j] = more[m]
        BY <1>1, <1>2, <2>2
      <4> QED
        BY <1>2, <4>1
    <3>2. PICK m \in DOMAIN more : new.kept[j] = more[m]
      BY <3>1
    <3>3. call.at < call.at + 1
      BY <1>1
    <3> QED
      BY <1>2, <3>2, <3>3
  <2> QED
    BY <2>1, <2>2
<1>5. Fits(r, paths, heap, new)
  BY <1>2, <1>3, <1>4 DEF Fits, Keeps
<1> QED
  BY <1>2, <1>5 DEF new

\* Nodes that come to less are as clean.
LEMMA KeepsShrunk ==
  ASSUME NEW r, NEW paths, NEW heap, NEW new,
         \A x \in DOMAIN r.nodes : Contents(r, new)[x] \subseteq Contents(r, heap)[x],
         NEW path, NEW set, NEW n, NEW kept \in Seq(DOMAIN r.nodes),
         Keeps(r, paths, heap, path, set, n, kept)
  PROVE  Keeps(r, paths, new, path, set, n, kept)
<1>1. \A j \in DOMAIN kept : kept[j] \in DOMAIN r.nodes
  OBVIOUS
<1>2. \A j \in DOMAIN kept : Clean(r, paths, new, path, kept[j])
  BY <1>1 DEF Keeps, Clean
<1> QED
  BY <1>2 DEF Keeps

\* The links of the first calls, when later ones are gone and the last of
\* these goes on.
LEMMA LinksStay ==
  ASSUME NEW r, NEW heap, NEW new, NEW n, NEW calls, NEW left, Len(calls) \in Nat,
         Linked(r, heap, calls, n), calls # <<>>,
         NEW d \in 1..Len(calls), Len(left) = d,
         \A k \in 1..d :
           left[k].set = calls[k].set /\ left[k].path = calls[k].path,
         \A k \in 1..(d - 1) :
           /\ left[k] = calls[k]
           /\ Inner(r, new, Current(calls, k)) = Inner(r, heap, Current(calls, k))
  PROVE  Linked(r, new, left, n)
<1>1. 1 \in 1..d
  OBVIOUS
<1>2. n + 1 \in DOMAIN r.operations /\ left[1].set = r.operations[n + 1] /\ left[1].path = <<>>
  BY <1>1 DEF Linked
<1>3. ASSUME NEW k \in 1..(d - 1)
      PROVE  /\ left[k].at \in DOMAIN left[k].set
             /\ left[k + 1].set = Inner(r, new, Current(left, k))
             /\ left[k + 1].path = PathOf(r.nodes[Current(left, k)], left[k].path)
             /\ \A m \in 1..(k - 1) :
                  Rank(r, Current(left, k)) < Rank(r, Current(left, m))
  <2>1. k \in 1..(Len(calls) - 1) /\ k + 1 \in 1..d
        /\ \A m \in 1..(k - 1) : m \in 1..(d - 1)
    OBVIOUS
  <2>2. left[k] = calls[k] /\ \A m \in 1..(k - 1) : left[m] = calls[m]
    BY <2>1
  <2>3. Current(left, k) = Current(calls, k)
        /\ \A m \in 1..(k - 1) : Current(left, m) = Current(calls, m)
    BY <2>2 DEF Current
  <2>4. left[k + 1].set = calls[k + 1].set /\ left[k + 1].path = calls[k + 1].path
    BY <2>1
  <2> QED
    BY <2>1, <2>2, <2>3, <2>4 DEF Linked
<1> QED
  BY <1>2, <1>3 DEF Linked

LEMMA StackFacts ==
  ASSUME RewritingInv, stack # <<>>
  PROVE  /\ Depth \in Nat /\ Depth >= 1 /\ DOMAIN stack = 1..Depth
         /\ \A k \in 1..Depth :
              stack[k] \in Calls(request) /\ Fits(request, removed, nodes, stack[k])
<1>1. stack \in Seq(Calls(request))
  BY DEF RewritingInv
<1>2. Depth \in Nat /\ Depth >= 1 /\ DOMAIN stack = 1..Depth
  BY <1>1 DEF Depth
<1>3. \A k \in 1..Depth : stack[k] \in Calls(request)
  BY <1>1, <1>2
<1>4. \A k \in DOMAIN stack : Fits(request, removed, nodes, stack[k])
  BY DEF RewritingInv
<1> QED
  BY <1>2, <1>3, <1>4

LEMMA TurnFacts ==
  ASSUME RewritingInv, Turn
  PROVE  /\ stack # <<>> /\ Top \in Calls(request)
         /\ Fits(request, removed, nodes, Top)
         /\ Top.at \in DOMAIN Top.set
         /\ Id \in DOMAIN request.nodes /\ Id = Current(stack, Depth)
         /\ Path = PathOf(request.nodes[Id], Top.path) /\ Path \in Seq(STRING)
<1>1. stack # <<>>
  BY DEF Turn, Depth
<1>2. Top \in Calls(request) /\ Fits(request, removed, nodes, Top)
  BY <1>1, StackFacts DEF Top
<1>3. Top.set \in Seq(DOMAIN request.nodes) /\ Top.path \in Seq(STRING)
  BY <1>2 DEF Calls
<1>4. Top.at \in DOMAIN Top.set
  BY <1>2, <1>3 DEF Fits, Turn
<1>5. Id \in DOMAIN request.nodes
  BY <1>3, <1>4 DEF Id
<1>6. Path = PathOf(request.nodes[Id], Top.path) /\ Path \in Seq(STRING)
  <2>1. IsHeap(request, nodes)
    BY DEF RewritingInv
  <2>2. Path \in Seq(STRING)
    BY <1>3, <1>5, <2>1, PathOfNode DEF Path
  <2>3. nodes[Id].kind = request.nodes[Id].kind /\ nodes[Id].name = request.nodes[Id].name
    BY <1>5, <2>1, OwnTyped
  <2> QED
    BY <2>2, <2>3 DEF Path, PathOf
<1> QED
  BY <1>1, <1>2, <1>4, <1>5, <1>6 DEF Current, Id, Top

\* A turn of the loop that leaves `more` of the selection.
LEMMA TopGoesOn ==
  ASSUME RewritingInv, Turn, NEW more \in Seq(DOMAIN request.nodes),
         \A j \in DOMAIN more :
           /\ Stands(request, more[j], Id)
           /\ Clean(request, removed, nodes, Top.path, more[j]),
         stack' = [stack EXCEPT ![Depth] = Passed(@, more)]
  PROVE  RewritingInv'
<1>1. /\ stack # <<>> /\ Top \in Calls(request) /\ Fits(request, removed, nodes, Top)
      /\ Top.at \in DOMAIN Top.set
  BY TurnFacts
<1>2. /\ Depth \in Nat /\ Depth >= 1 /\ DOMAIN stack = 1..Depth
      /\ \A k \in 1..Depth :
           stack[k] \in Calls(request) /\ Fits(request, removed, nodes, stack[k])
  BY <1>1, StackFacts
<1>3. /\ Passed(Top, more) \in Calls(request)
      /\ Fits(request, removed, nodes, Passed(Top, more))
      /\ Passed(Top, more).set = Top.set /\ Passed(Top, more).path = Top.path
  BY <1>1, PassedFits DEF Id
<1>4. /\ stack' = [stack EXCEPT ![Depth] = Passed(Top, more)]
      /\ stack \in Seq(Calls(request)) /\ Depth \in 1..Len(stack) /\ Len(stack) = Depth
  BY <1>2 DEF Top, RewritingInv, Depth
<1>5. /\ stack' \in Seq(Calls(request)) /\ Len(stack') = Depth /\ DOMAIN stack' = 1..Depth
      /\ \A k \in 1..Depth : stack'[k] = IF k = Depth THEN Passed(Top, more) ELSE stack[k]
  BY <1>2, <1>3, <1>4, ExceptSeq
<1>6. \A k \in 1..Depth : Fits(request, removed, nodes, stack'[k])
  BY <1>2, <1>3, <1>5
<1>7. Linked(request, nodes, stack', Len(out))
  <2>1. Linked(request, nodes, stack, Len(out)) /\ Len(stack) = Depth
    BY DEF RewritingInv, Depth
  <2>2. \A k \in 1..Depth : stack'[k].set = stack[k].set /\ stack'[k].path = stack[k].path
    BY <1>2, <1>3, <1>5 DEF Top
  <2>3. \A k \in 1..(Depth - 1) :
          /\ stack'[k] = stack[k]
          /\ Inner(request, nodes, Current(stack, k)) = Inner(request, nodes, Current(stack, k))
    BY <1>2, <1>5
  <2>4. Depth \in 1..Len(stack) /\ Len(stack') = Depth /\ Len(stack) \in Nat
    BY <1>2, <1>5, <2>1
  <2> QED
    BY ONLY <1>1, <2>1, <2>2, <2>3, <2>4, LinksStay
<1>8. stack' # <<>> /\ pc # "request"
  BY <1>1, <1>2, <1>5 DEF RewritingInv
<1>9. UNCHANGED <<request, pc, nodes, removed, out, status>>
  BY DEF Turn
<1> QED
  BY <1>5, <1>6, <1>7, <1>8, <1>9 DEF RewritingInv

LEMMA RewritingStarts == Init => RewritingInv
<1> SUFFICES ASSUME Init
             PROVE  RewritingInv
  OBVIOUS
<1>1. IsHeap(request, nodes) /\ Len(request.operations) \in Nat
  BY DocumentIsHeap, RequestFacts DEF Init
<1>2. stack \in Seq(Calls(request)) /\ out \in Seq(Seq(DOMAIN request.nodes))
      /\ DOMAIN stack = {} /\ DOMAIN out = {} /\ Len(stack) = 0 /\ Len(out) = 0
  BY DEF Init
<1>3. Linked(request, nodes, stack, Len(out))
  BY <1>2 DEF Linked, Init
<1> QED
  BY <1>1, <1>2, <1>3 DEF RewritingInv, Init

LEMMA Refusing == RewritingInv /\ Refuse => RewritingInv'
<1> SUFFICES ASSUME RewritingInv, Refuse
             PROVE  RewritingInv'
  OBVIOUS
<1>1. status' \in {400, 405} /\ pc' = "answered"
      /\ UNCHANGED <<request, nodes, removed, stack, out>>
  BY DEF Refuse, Fail
<1> QED
  BY <1>1 DEF RewritingInv

LEMMA BuildingRemovedSet == RewritingInv /\ BuildRemovedSet => RewritingInv'
<1> SUFFICES ASSUME RewritingInv, BuildRemovedSet
             PROVE  RewritingInv'
  OBVIOUS
<1>1. pc' = "rewriting" /\ UNCHANGED <<request, nodes, stack, out, status>>
  BY DEF BuildRemovedSet
<1>2. stack = <<>> /\ out = <<>>
  BY DEF RewritingInv, BuildRemovedSet
<1>3. DOMAIN stack = {} /\ DOMAIN out = {}
  BY <1>2
<1> QED
  BY <1>1, <1>3 DEF RewritingInv

LEMMA NewCall ==
  ASSUME NEW r, NEW paths, NEW heap, NEW set \in Seq(DOMAIN r.nodes),
         NEW path \in Seq(STRING), ~Covered(paths, path)
  PROVE  Call(set, path) \in Calls(r) /\ Fits(r, paths, heap, Call(set, path))
<1>1. Call(set, path) = [set |-> set, at |-> 1, path |-> path, kept |-> <<>>]
  BY DEF Call
<1>2. <<>> \in Seq(DOMAIN r.nodes) /\ 1 \in Nat /\ 1 \in 1..(Len(set) + 1)
  OBVIOUS
<1>3. Call(set, path) \in Calls(r)
  BY <1>1, <1>2 DEF Calls
<1>4. Call(set, path).kept = <<>> /\ DOMAIN <<>> = {}
  BY <1>1
<1>5. Keeps(r, paths, heap, path, set, 1, <<>>)
  BY <1>4 DEF Keeps
<1>6. Fits(r, paths, heap, Call(set, path))
  BY <1>1, <1>2, <1>5 DEF Fits
<1> QED
  BY <1>3, <1>6

LEMMA StartingOperation == RewritingInv /\ RewriteOperation => RewritingInv'
<1> SUFFICES ASSUME RewritingInv, RewriteOperation
             PROVE  RewritingInv'
  OBVIOUS
<1> DEFINE n    == Len(out)
           call == Call(request.operations[n + 1], <<>>)
<1>1. request \in Requests /\ out \in Seq(Seq(DOMAIN request.nodes)) /\ n \in Nat
  BY DEF RewritingInv
<1>2. n + 1 \in DOMAIN request.operations
  BY <1>1, RequestFacts DEF RewriteOperation
<1>3. request.operations[n + 1] \in Seq(DOMAIN request.nodes)
  BY <1>1, <1>2, RequestFacts
<1>4. <<>> \in Seq(STRING) /\ ~Covered(removed, <<>>)
  BY DEF Covered
<1>5. call \in Calls(request) /\ Fits(request, removed, nodes, call)
  BY <1>3, <1>4, NewCall
<1>6. stack' = <<call>>
  BY DEF RewriteOperation
<1>7. call.set = request.operations[n + 1] /\ call.path = <<>>
  BY DEF Call
<1> HIDE DEF call
<1>8. /\ stack' \in Seq(Calls(request)) /\ DOMAIN stack' = {1} /\ Len(stack') = 1
      /\ stack'[1] = call /\ stack' # <<>>
  BY <1>5, <1>6
<1>9. Linked(request, nodes, stack', n)
  BY <1>2, <1>7, <1>8 DEF Linked
<1>10. /\ pc = "rewriting" /\ UNCHANGED <<request, pc, nodes, removed, out, status>>
  BY DEF RewriteOperation
<1> QED
  BY <1>5, <1>8, <1>9, <1>10 DEF RewritingInv

LEMMA Dropping == RewritingInv /\ DropSelection => RewritingInv'
<1> SUFFICES ASSUME RewritingInv, DropSelection
             PROVE  RewritingInv'
  OBVIOUS
<1>1. <<>> \in Seq(DOMAIN request.nodes) /\ DOMAIN <<>> = {}
  OBVIOUS
<1>2. Turn /\ stack' = [stack EXCEPT ![Depth] = Passed(@, <<>>)]
  BY DEF DropSelection
<1> QED
  BY <1>1, <1>2, TopGoesOn

\* A selection that is not dropped is at a place that is not removed.
LEMMA PathStaysClean ==
  ASSUME RewritingInv, Turn, ~IsDropped
  PROVE  ~Covered(removed, Path)
<1>1. /\ Top \in Calls(request) /\ Fits(request, removed, nodes, Top)
      /\ Id \in DOMAIN request.nodes
  BY TurnFacts
<1>2. Top.path \in Seq(STRING) /\ ~Covered(removed, Top.path)
  BY <1>1 DEF Calls, Fits
<1>3. nodes[Id].name \in STRING
  BY <1>1, OwnTyped DEF RewritingInv
<1>4. CASE nodes[Id].kind = "field"
  <2>1. Path = Append(Top.path, nodes[Id].name) /\ Path \notin removed
    BY <1>4 DEF Path, PathOf, IsDropped
  <2> QED
    BY <1>2, <1>3, <2>1, CoveredAppend
<1>5. CASE nodes[Id].kind # "field"
  BY <1>2, <1>5 DEF Path, PathOf
<1> QED
  BY <1>4, <1>5

LEMMA Keeping == RewritingInv /\ KeepField => RewritingInv'
<1> SUFFICES ASSUME RewritingInv, KeepField
             PROVE  RewritingInv'
  OBVIOUS
<1>1. /\ Turn /\ ~IsDropped /\ IsKept
      /\ stack' = [stack EXCEPT ![Depth] = Passed(@, <<Id>>)]
  BY DEF KeepField
<1>2. /\ Top \in Calls(request) /\ Id \in DOMAIN request.nodes
      /\ Path = PathOf(request.nodes[Id], Top.path)
  BY <1>1, TurnFacts
<1>3. IsHeap(request, nodes) /\ IsDocument(request) /\ Top.path \in Seq(STRING)
  BY <1>2 DEF RewritingInv, IsHeap, Calls
<1>4. ASSUME NEW c \in Contents(request, nodes)[Id]
      PROVE  ~Covered(removed, Top.path \o c.path) /\ request.nodes[c.node].kind # "spread"
  <2>1. nodes[Id].kind = "field" /\ nodes[Id].sub = <<>>
    BY <1>1 DEF IsKept
  <2>2. Inner(request, nodes, Id) = <<>>
    BY <2>1 DEF Inner
  <2>3. InnerIds(request, nodes, Id) = {}
    BY <2>2 DEF InnerIds
  <2>4. c = Itself(Id, nodes[Id])
    BY <1>2, <1>3, <2>3, ContentsOf
  <2>5. request.nodes[Id].kind = "field"
    BY <1>2, <1>3, <2>1, OwnTyped
  <2>6. ~Covered(removed, Path)
    BY <1>1, PathStaysClean
  <2>7. Covered(removed, Top.path \o Itself(Id, nodes[Id]).path)
          <=> Covered(removed, PathOf(nodes[Id], Top.path))
    BY <1>2, <1>3, CoveredItself
  <2>8. Itself(Id, nodes[Id]).node = Id
    BY DEF Itself
  <2> QED
    BY <2>4, <2>5, <2>6, <2>7, <2>8 DEF Path
<1>5. Clean(request, removed, nodes, Top.path, Id)
  BY <1>4 DEF Clean
<1>6. Stands(request, Id, Id)
  BY <1>2, <1>3, StandsForItself
<1>7. <<Id>> \in Seq(DOMAIN request.nodes)
  BY <1>2, SingletonSeq
<1>8. \A j \in DOMAIN <<Id>> : <<Id>>[j] = Id
  OBVIOUS
<1> QED
  BY <1>1, <1>5, <1>6, <1>7, <1>8, TopGoesOn

LEMMA LinksGrow ==
  ASSUME NEW r, NEW heap, IsHeap(r, heap), NEW n, NEW calls, Linked(r, heap, calls, n),
         NEW d \in Nat, Len(calls) = d, d >= 1, calls # <<>>,
         \A k \in 1..d : calls[k].at \in DOMAIN calls[k].set
                         => Current(calls, k) \in DOMAIN r.nodes,
         calls[d].at \in DOMAIN calls[d].set,
         NEW left, Len(left) = d + 1, \A k \in 1..d : left[k] = calls[k],
         left[d + 1].set = Inner(r, heap, Current(calls, d)),
         left[d + 1].path = PathOf(r.nodes[Current(calls, d)], calls[d].path)
  PROVE  Linked(r, heap, left, n)
<1>1. left[1] = calls[1]
  OBVIOUS
<1>2. n + 1 \in DOMAIN r.operations /\ left[1].set = r.operations[n + 1] /\ left[1].path = <<>>
  BY <1>1 DEF Linked
<1>3. \A k \in 1..d : Current(left, k) = Current(calls, k)
  BY DEF Current
<1>4. \A k \in 1..(d - 1) :
        /\ calls[k].at \in DOMAIN calls[k].set
        /\ calls[k + 1].set = Inner(r, heap, Current(calls, k))
        /\ calls[k + 1].path = PathOf(r.nodes[Current(calls, k)], calls[k].path)
        /\ \A m \in 1..(k - 1) :
             Rank(r, Current(calls, k)) < Rank(r, Current(calls, m))
  BY DEF Linked
<1>5. \A k \in 1..d : /\ k + 1 \in 1..(d + 1)
                      /\ k \in 1..(d - 1) \/ k = d
                      /\ k \in 1..(d - 1) => k + 1 \in 1..d
  OBVIOUS
<1>6. ASSUME NEW m \in 1..(d - 1)
      PROVE  Rank(r, Current(calls, d)) < Rank(r, Current(calls, m))
  <2> DEFINE b == d - 1
  <2>1. b \in 1..(d - 1) /\ b \in 1..d /\ m \in 1..d /\ d \in 1..d /\ b + 1 = d
        /\ (m = b \/ m \in 1..(b - 1))
    OBVIOUS
  <2> HIDE DEF b
  <2>2. calls[d].set = Inner(r, heap, Current(calls, b))
    BY <1>4, <2>1
  <2>3. Current(calls, d) \in InnerIds(r, heap, Current(calls, b))
    BY <2>2 DEF InnerIds, Current
  <2>4. /\ Current(calls, b) \in DOMAIN r.nodes /\ Current(calls, m) \in DOMAIN r.nodes
        /\ Current(calls, d) \in DOMAIN r.nodes
    BY <1>4, <2>1
  <2>5. Rank(r, Current(calls, d)) < Rank(r, Current(calls, b))
    BY <2>3, <2>4 DEF IsHeap
  <2>6. m \in 1..(b - 1) => Rank(r, Current(calls, b)) < Rank(r, Current(calls, m))
    BY <1>4, <2>1
  <2>7. /\ Rank(r, Current(calls, b)) \in Nat /\ Rank(r, Current(calls, m)) \in Nat
        /\ Rank(r, Current(calls, d)) \in Nat
    BY <2>4, Ranks DEF IsHeap
  <2> QED
    BY <2>1, <2>5, <2>6, <2>7
<1>7. ASSUME NEW k \in 1..d
      PROVE  /\ left[k].at \in DOMAIN left[k].set
             /\ left[k + 1].set = Inner(r, heap, Current(left, k))
             /\ left[k + 1].path = PathOf(r.nodes[Current(left, k)], left[k].path)
             /\ \A m \in 1..(k - 1) :
                  Rank(r, Current(left, k)) < Rank(r, Current(left, m))
  <2>1. left[k] = calls[k] /\ Current(left, k) = Current(calls, k)
        /\ \A m \in 1..(k - 1) : Current(left, m) = Current(calls, m)
    <3>1. \A m \in 1..(k - 1) : m \in 1..d
      OBVIOUS
    <3> QED
      BY <1>3, <3>1
  <2>2. CASE k = d
    BY <1>6, <2>1, <2>2
  <2>3. CASE k \in 1..(d - 1)
    <3>1. left[k + 1] = calls[k + 1]
      BY <1>5, <2>3
    <3> QED
      BY <1>4, <2>1, <2>3, <3>1
  <2> QED
    BY <1>5, <2>2, <2>3
<1>8. Len(left) - 1 = d
  OBVIOUS
<1> QED
  BY <1>2, <1>7, <1>8 DEF Linked

LEMMA CurrentTyped ==
  ASSUME RewritingInv, stack # <<>>
  PROVE  \A k \in 1..Depth : stack[k].at \in DOMAIN stack[k].set
                              => Current(stack, k) \in DOMAIN request.nodes
<1> SUFFICES ASSUME NEW k \in 1..Depth, stack[k].at \in DOMAIN stack[k].set
             PROVE  Current(stack, k) \in DOMAIN request.nodes
  OBVIOUS
<1>1. stack[k].set \in Seq(DOMAIN request.nodes)
  BY StackFacts DEF Calls
<1> QED
  BY <1>1 DEF Current

LEMMA Calling == RewritingInv /\ CallItself => RewritingInv'
<1> SUFFICES ASSUME RewritingInv, CallItself
             PROVE  RewritingInv'
  OBVIOUS
<1> DEFINE call == Call(Inner(request, nodes, Id), Path)
<1>1. Turn /\ ~IsDropped /\ stack' = Append(stack, call)
  BY DEF CallItself
<1>2. /\ stack # <<>> /\ Top \in Calls(request) /\ Top.at \in DOMAIN Top.set
      /\ Id \in DOMAIN request.nodes /\ Id = Current(stack, Depth)
      /\ Path = PathOf(request.nodes[Id], Top.path) /\ Path \in Seq(STRING)
  BY <1>1, TurnFacts
<1>3. IsHeap(request, nodes) /\ Linked(request, nodes, stack, Len(out))
      /\ stack \in Seq(Calls(request))
  BY DEF RewritingInv
<1>4. /\ Depth \in Nat /\ Depth >= 1 /\ DOMAIN stack = 1..Depth /\ Len(stack) = Depth
      /\ \A k \in 1..Depth : Fits(request, removed, nodes, stack[k])
  BY <1>2, StackFacts DEF Depth
<1>5. Inner(request, nodes, Id) \in Seq(DOMAIN request.nodes)
  BY <1>2, <1>3, InnerTyped
<1>6. call \in Calls(request) /\ Fits(request, removed, nodes, call)
  BY <1>1, <1>2, <1>5, PathStaysClean, NewCall
<1>7. call.set = Inner(request, nodes, Id) /\ call.path = Path
  BY DEF Call
<1> HIDE DEF call
<1>8. /\ stack' \in Seq(Calls(request)) /\ Len(stack') = Depth + 1
      /\ DOMAIN stack' = 1..(Depth + 1) /\ stack'[Depth + 1] = call
      /\ \A k \in 1..Depth : stack'[k] = stack[k]
  BY <1>1, <1>3, <1>4, <1>6
<1>9. \A k \in DOMAIN stack' : Fits(request, removed, nodes, stack'[k])
  <2>1. \A k \in 1..(Depth + 1) : k \in 1..Depth \/ k = Depth + 1
    BY <1>4
  <2> QED
    BY <1>4, <1>6, <1>8, <2>1
<1>10. Linked(request, nodes, stack', Len(out))
  <2>1. /\ stack[Depth].at \in DOMAIN stack[Depth].set
        /\ stack'[Depth + 1].set = Inner(request, nodes, Current(stack, Depth))
        /\ stack'[Depth + 1].path
             = PathOf(request.nodes[Current(stack, Depth)], stack[Depth].path)
    BY <1>2, <1>7, <1>8 DEF Top
  <2>2. \A k \in 1..Depth : stack[k].at \in DOMAIN stack[k].set
                            => Current(stack, k) \in DOMAIN request.nodes
    BY <1>2, CurrentTyped
  <2> QED
    BY ONLY <1>2, <1>3, <1>4, <1>8, <2>1, <2>2, LinksGrow
<1>11. UNCHANGED <<request, pc, nodes, removed, out, status>> /\ pc # "request"
  BY <1>1, <1>2 DEF Turn, RewritingInv
<1> QED
  BY <1>8, <1>9, <1>10, <1>11 DEF RewritingInv

-----------------------------------------------------------------------------
(* A call that returns *)

Caller   == stack[Depth - 1]
CallerId == Caller.set[Caller.at]

LEMMA ReturnFacts ==
  ASSUME RewritingInv, Return
  PROVE  /\ stack # <<>> /\ Depth \in Nat /\ Depth > 1 /\ DOMAIN stack = 1..Depth
         /\ Depth - 1 \in 1..Depth /\ Depth \in 1..Depth /\ Depth - 1 \in 1..(Depth - 1)
         /\ Top \in Calls(request) /\ Fits(request, removed, nodes, Top)
         /\ Top.at = Len(Top.set) + 1
         /\ Caller \in Calls(request) /\ Fits(request, removed, nodes, Caller)
         /\ Caller.at \in DOMAIN Caller.set
         /\ CallerId \in DOMAIN request.nodes /\ CallerId = Current(stack, Depth - 1)
         /\ Top.set = Inner(request, nodes, CallerId)
         /\ Top.path = PathOf(request.nodes[CallerId], Caller.path)
         /\ Top.path = PathOf(nodes[CallerId], Caller.path)
<1>1. Depth > 1 /\ stack # <<>> /\ Top.at > Len(Top.set)
  BY DEF Return, Depth
<1>2. /\ Depth \in Nat /\ DOMAIN stack = 1..Depth
      /\ \A k \in 1..Depth :
           stack[k] \in Calls(request) /\ Fits(request, removed, nodes, stack[k])
  BY <1>1, StackFacts
<1>3. /\ Depth - 1 \in 1..Depth /\ Depth \in 1..Depth /\ Depth - 1 \in 1..(Depth - 1)
      /\ (Depth - 1) + 1 = Depth
  BY <1>1, <1>2
<1>4. /\ Top \in Calls(request) /\ Fits(request, removed, nodes, Top)
      /\ Caller \in Calls(request) /\ Fits(request, removed, nodes, Caller)
  BY <1>2, <1>3 DEF Top, Caller
<1>5. Top.at = Len(Top.set) + 1
  <2>1. Top.set \in Seq(DOMAIN request.nodes) /\ Top.at \in 1..(Len(Top.set) + 1)
    BY <1>4 DEF Calls, Fits
  <2> QED
    BY <1>1, <2>1
<1>6. /\ Caller.at \in DOMAIN Caller.set /\ CallerId = Current(stack, Depth - 1)
      /\ Top.set = Inner(request, nodes, CallerId)
      /\ Top.path = PathOf(request.nodes[CallerId], Caller.path)
  <2>1. Linked(request, nodes, stack, Len(out)) /\ Len(stack) = Depth
    BY DEF RewritingInv, Depth
  <2>2. /\ stack[Depth - 1].at \in DOMAIN stack[Depth - 1].set
        /\ stack[Depth].set = Inner(request, nodes, Current(stack, Depth - 1))
        /\ stack[Depth].path
             = PathOf(request.nodes[Current(stack, Depth - 1)], stack[Depth - 1].path)
    BY <1>3, <2>1 DEF Linked
  <2>3. CallerId = Current(stack, Depth - 1)
    BY DEF CallerId, Caller, Current
  <2> QED
    BY <2>2, <2>3 DEF Caller, Top
<1>7. CallerId \in DOMAIN request.nodes
  <2>1. Caller.set \in Seq(DOMAIN request.nodes)
    BY <1>4 DEF Calls
  <2> QED
    BY <1>6, <2>1 DEF CallerId
<1>8. Top.path = PathOf(nodes[CallerId], Caller.path)
  <2>1. /\ nodes[CallerId].kind = request.nodes[CallerId].kind
        /\ nodes[CallerId].name = request.nodes[CallerId].name
    BY <1>7, OwnTyped DEF RewritingInv
  <2> QED
    BY <1>6, <2>1 DEF PathOf
<1> QED
  BY <1>1, <1>2, <1>3, <1>4, <1>5, <1>6, <1>7, <1>8

\* The call below goes on with `more` in the place of its selection.
LEMMA CallerGoesOn ==
  ASSUME RewritingInv, Return, IsHeap(request, nodes'),
         \A x \in DOMAIN request.nodes :
           Contents(request, nodes')[x] \subseteq Contents(request, nodes)[x],
         \A x \in DOMAIN request.nodes \ {CallerId} :
           Inner(request, nodes', x) = Inner(request, nodes, x),
         NEW more, more = Left(CallerId, Top.set, Top.kept),
         more \in Seq(DOMAIN request.nodes),
         \A j \in DOMAIN more :
           /\ Stands(request, more[j], CallerId)
           /\ Clean(request, removed, nodes', Caller.path, more[j])
  PROVE  RewritingInv'
<1> DEFINE d == Depth - 1
<1>1. /\ stack # <<>> /\ Depth \in Nat /\ Depth > 1 /\ DOMAIN stack = 1..Depth
      /\ d \in 1..Depth /\ d \in 1..d /\ d \in Nat
      /\ Caller \in Calls(request) /\ Fits(request, removed, nodes, Caller)
      /\ Caller.at \in DOMAIN Caller.set
      /\ CallerId \in DOMAIN request.nodes /\ CallerId = Current(stack, d)
  BY ReturnFacts
<1>2. \A k \in 1..Depth :
        stack[k] \in Calls(request) /\ Fits(request, removed, nodes, stack[k])
  BY <1>1, StackFacts
<1>3. /\ stack' = [k \in 1..d |-> IF k = d THEN Passed(Caller, more) ELSE stack[k]]
      /\ UNCHANGED <<request, pc, removed, out, status>>
  BY DEF Return, Caller, CallerId
<1> HIDE DEF d
<1>4. \A k \in 1..d : k \in 1..Depth
  BY <1>1 DEF d
<1>5. ASSUME NEW call \in Calls(request), Fits(request, removed, nodes, call)
      PROVE  Fits(request, removed, nodes', call)
  <2>1. call.kept \in Seq(DOMAIN request.nodes)
    BY DEF Calls
  <2>2. Keeps(request, removed, nodes', call.path, call.set, call.at, call.kept)
    BY <1>5, <2>1, KeepsShrunk DEF Fits
  <2> QED
    BY <1>5, <2>2 DEF Fits
<1>6. /\ Passed(Caller, more) \in Calls(request)
      /\ Fits(request, removed, nodes', Passed(Caller, more))
      /\ Passed(Caller, more).set = Caller.set /\ Passed(Caller, more).path = Caller.path
  <2>1. Fits(request, removed, nodes', Caller)
    BY <1>1, <1>5
  <2>2. \A j \in DOMAIN more : Stands(request, more[j], Caller.set[Caller.at])
    BY DEF CallerId
  <2> QED
    BY <1>1, <2>1, <2>2, PassedFits
<1>7. /\ stack' \in Seq(Calls(request)) /\ Len(stack') = d /\ DOMAIN stack' = 1..d
      /\ \A k \in 1..d : stack'[k] = IF k = d THEN Passed(Caller, more) ELSE stack[k]
  <2>1. \A k \in 1..d : stack'[k] \in Calls(request)
    BY <1>2, <1>3, <1>4, <1>6
  <2> QED
    BY <1>1, <1>3, <2>1
<1>8. \A k \in DOMAIN stack' : Fits(request, removed, nodes', stack'[k])
  <2> SUFFICES ASSUME NEW k \in 1..d
               PROVE  Fits(request, removed, nodes', stack'[k])
    BY <1>7
  <2>1. CASE k = d
    BY <1>6, <1>7, <2>1
  <2>2. CASE k # d
    BY <1>2, <1>4, <1>5, <1>7, <2>2
  <2> QED
    BY <2>1, <2>2
<1>9. Linked(request, nodes', stack', Len(out))
  <2>1. Linked(request, nodes, stack, Len(out)) /\ Len(stack) = Depth /\ Len(stack) \in Nat
    BY <1>1 DEF RewritingInv, Depth
  <2>2. \A k \in 1..d : stack'[k].set = stack[k].set /\ stack'[k].path = stack[k].path
    BY <1>6, <1>7 DEF Caller, d
  <2>3. ASSUME NEW k \in 1..(d - 1)
        PROVE  /\ stack'[k] = stack[k]
               /\ Inner(request, nodes', Current(stack, k)) = Inner(request, nodes, Current(stack, k))
    <3>1. k \in 1..d /\ k # d /\ d \in 1..(Depth - 1) /\ k \in 1..(Depth - 1)
      BY <1>1 DEF d
    <3>2. stack'[k] = stack[k]
      BY <1>7, <3>1
    <3>3. /\ stack[k].at \in DOMAIN stack[k].set
          /\ Rank(request, Current(stack, d)) < Rank(request, Current(stack, k))
      BY <2>1, <3>1 DEF Linked
    <3>4. Current(stack, k) \in DOMAIN request.nodes
      BY <1>1, <1>4, <3>1, <3>3, CurrentTyped
    <3>5. Rank(request, CallerId) \in Nat
      BY <1>1, Ranks DEF RewritingInv, IsHeap
    <3>6. Current(stack, k) # CallerId
      BY <1>1, <3>3, <3>5
    <3> QED
      BY <3>2, <3>4, <3>6
  <2>4. d \in 1..Len(stack)
    BY <1>1, <2>1
  <2> QED
    BY ONLY <1>1, <1>7, <2>1, <2>2, <2>3, <2>4, LinksStay
<1>10. ASSUME NEW i \in DOMAIN out
       PROVE  Keeps(request, removed, nodes', <<>>, request.operations[i],
                    Len(request.operations[i]) + 1, out[i])
  <2>1. /\ out[i] \in Seq(DOMAIN request.nodes)
        /\ Keeps(request, removed, nodes, <<>>, request.operations[i],
                 Len(request.operations[i]) + 1, out[i])
    BY DEF RewritingInv
  <2> QED
    BY <2>1, KeepsShrunk
<1>11. pc # "request"
  BY <1>1 DEF RewritingInv
<1> QED
  BY <1>3, <1>7, <1>8, <1>9, <1>10, <1>11 DEF RewritingInv

\* A fragment's selections take the place of its spread.
LEMMA ReturningSpread ==
  ASSUME RewritingInv, Return, nodes[CallerId].kind = "spread"
  PROVE  RewritingInv'
<1>1. /\ CallerId \in DOMAIN request.nodes /\ Top \in Calls(request)
      /\ Fits(request, removed, nodes, Top) /\ Top.set = Inner(request, nodes, CallerId)
      /\ Top.path = PathOf(nodes[CallerId], Caller.path)
  BY ReturnFacts
<1>2. IsHeap(request, nodes) /\ IsDocument(request)
  BY DEF RewritingInv, IsHeap
<1>3. nodes' = nodes
  BY DEF Return, CallerId, Caller
<1>4. Top.kept \in Seq(DOMAIN request.nodes)
  BY <1>1 DEF Calls
<1>5. Left(CallerId, Top.set, Top.kept) = Top.kept
  BY DEF Left
<1>6. Top.path = Caller.path
  BY <1>1 DEF PathOf
<1>7. request.nodes[CallerId].kind = "spread"
  BY <1>1, <1>2, OwnTyped
<1>8. Top.set = Inner(request, request.nodes, CallerId)
  BY <1>1, <1>2, <1>7, InnerOfSpread
<1>9. ASSUME NEW j \in DOMAIN Top.kept
      PROVE  /\ Stands(request, Top.kept[j], CallerId)
             /\ Clean(request, removed, nodes, Caller.path, Top.kept[j])
  <2>1. PICK i \in DOMAIN Top.set : Stands(request, Top.kept[j], Top.set[i])
    BY <1>1 DEF Fits, Keeps
  <2>2. Top.set[i] \in InnerIds(request, request.nodes, CallerId)
    BY <1>8 DEF InnerIds
  <2>3. Stands(request, Top.kept[j], CallerId)
    BY <1>1, <1>2, <1>7, <2>1, <2>2, StandsForSpread
  <2> QED
    BY <1>1, <1>6, <2>3 DEF Fits, Keeps
<1> QED
  BY <1>2, <1>3, <1>4, <1>5, <1>9, CallerGoesOn

\* A field or an inline fragment has what is left of its selections.
LEMMA ReturningNode ==
  ASSUME RewritingInv, Return, nodes[CallerId].kind # "spread"
  PROVE  /\ RewritingInv' /\ nodes' = Written(nodes, CallerId, Top.kept)
         /\ \A x \in DOMAIN request.nodes :
              Contents(request, nodes')[x] \subseteq Contents(request, nodes)[x]
<1>1. /\ CallerId \in DOMAIN request.nodes /\ Top \in Calls(request)
      /\ Fits(request, removed, nodes, Top) /\ Top.set = Inner(request, nodes, CallerId)
      /\ Top.path = PathOf(nodes[CallerId], Caller.path) /\ Caller \in Calls(request)
  BY ReturnFacts
<1>2. IsHeap(request, nodes) /\ IsDocument(request)
  BY DEF RewritingInv, IsHeap
<1>3. nodes' = Written(nodes, CallerId, Top.kept)
  BY DEF Return, CallerId, Caller, Written
<1>4. /\ Top.kept \in Seq(DOMAIN request.nodes) /\ Caller.path \in Seq(STRING)
      /\ Top.path \in Seq(STRING)
  BY <1>1 DEF Calls
<1>5. request.nodes[CallerId].kind # "spread"
  BY <1>1, <1>2, OwnTyped
<1>6. /\ \A x \in DOMAIN request.nodes \ {CallerId} :
           Inner(request, nodes', x) = Inner(request, nodes, x)
      /\ Inner(request, nodes, CallerId) = nodes[CallerId].sub
      /\ Inner(request, nodes', CallerId) = Top.kept
      /\ Own(nodes'[CallerId]) = Own(nodes[CallerId])
  BY <1>1, <1>2, <1>3, <1>4, <1>5, WrittenNodes
<1>7. /\ IsHeap(request, nodes')
      /\ \A x \in DOMAIN request.nodes :
           Contents(request, nodes')[x] \subseteq Contents(request, nodes)[x]
  <2>1. \A j \in DOMAIN Top.kept :
          \E i \in DOMAIN nodes[CallerId].sub :
            Stands(request, Top.kept[j], nodes[CallerId].sub[i])
    BY <1>1, <1>6 DEF Fits, Keeps
  <2> QED
    BY <1>1, <1>2, <1>3, <1>4, <1>5, <2>1, WrittenShrinks
<1>8. /\ IsHeap(request, nodes) /\ CallerId \in DOMAIN request.nodes
      /\ Caller.path \in Seq(STRING)
  BY <1>1, <1>2, <1>4
<1>9. ASSUME NEW c \in Contents(request, nodes')[CallerId]
      PROVE  /\ ~Covered(removed, Caller.path \o c.path)
             /\ request.nodes[c.node].kind # "spread"
  <2>1. CASE c = Itself(CallerId, nodes'[CallerId])
    <3>1. ~Covered(removed, Top.path)
      BY <1>1 DEF Fits
    <3>2. c = Itself(CallerId, nodes[CallerId])
      BY <1>6, <2>1 DEF Itself
    <3>3. Covered(removed, Caller.path \o Itself(CallerId, nodes[CallerId]).path)
            <=> Covered(removed, PathOf(nodes[CallerId], Caller.path))
      BY <1>8, CoveredItself
    <3>4. Itself(CallerId, nodes[CallerId]).node = CallerId
      BY DEF Itself
    <3> QED
      BY <1>1, <1>5, <3>1, <3>2, <3>3, <3>4
  <2>2. ASSUME NEW inner \in InnerIds(request, nodes', CallerId),
               NEW d \in Contents(request, nodes')[inner],
               c = Inside(nodes'[CallerId], d)
        PROVE  /\ ~Covered(removed, Caller.path \o c.path)
               /\ request.nodes[c.node].kind # "spread"
    <3>1. PICK j \in DOMAIN Top.kept : inner = Top.kept[j]
      BY <1>6 DEF InnerIds
    <3>2. inner \in DOMAIN request.nodes
      BY <1>4, <3>1
    <3>3. d \in Contents(request, nodes)[inner] /\ d.path \in Seq(STRING)
      BY <1>2, <1>7, <3>2, ContentsTyped
    <3>4. ~Covered(removed, Top.path \o d.path) /\ request.nodes[d.node].kind # "spread"
      BY <1>1, <3>1, <3>3 DEF Fits, Keeps, Clean
    <3>5. c = Inside(nodes[CallerId], d)
      BY <1>6, <2>2 DEF Inside
    <3>6. Covered(removed, Caller.path \o Inside(nodes[CallerId], d).path)
            <=> Covered(removed, PathOf(nodes[CallerId], Caller.path) \o d.path)
      BY <1>8, <3>3, CoveredInside
    <3>7. Inside(nodes[CallerId], d).node = d.node
      BY DEF Inside
    <3> QED
      BY <1>1, <3>4, <3>5, <3>6, <3>7
  <2> QED
    BY <1>1, <1>7, <2>1, <2>2, ContentsOf
<1> DEFINE more == Left(CallerId, Top.set, Top.kept)
<1>10. more = <<>> \/ more = <<CallerId>>
  BY DEF Left
<1>11. more \in Seq(DOMAIN request.nodes) /\ \A j \in DOMAIN more : more[j] = CallerId
  <2>1. CASE more = <<>>
    <3>1. <<>> \in Seq(DOMAIN request.nodes) /\ DOMAIN <<>> = {}
      OBVIOUS
    <3> QED
      BY <2>1, <3>1
  <2>2. CASE more = <<CallerId>>
    <3>1. <<CallerId>> \in Seq(DOMAIN request.nodes)
      BY <1>1, SingletonSeq
    <3>2. \A j \in DOMAIN <<CallerId>> : <<CallerId>>[j] = CallerId
      OBVIOUS
    <3> QED
      BY <2>2, <3>1, <3>2
  <2> QED
    BY <1>10, <2>1, <2>2
<1> HIDE DEF more
<1>12. Stands(request, CallerId, CallerId)
  BY <1>1, <1>2, StandsForItself
<1>13. Clean(request, removed, nodes', Caller.path, CallerId)
  BY <1>9 DEF Clean
<1>14. RewritingInv'
  BY <1>6, <1>7, <1>11, <1>12, <1>13, CallerGoesOn DEF more
<1> QED
  BY <1>3, <1>7, <1>14

LEMMA Returning == RewritingInv /\ Return => RewritingInv'
BY ReturningSpread, ReturningNode

LEMMA FinishFacts ==
  ASSUME RewritingInv, FinishOperation
  PROVE  /\ Len(out) \in Nat /\ Len(out) + 1 \in DOMAIN request.operations
         /\ Top = stack[1] /\ DOMAIN stack = {1}
         /\ Top \in Calls(request) /\ Fits(request, removed, nodes, Top)
         /\ Top.set = request.operations[Len(out) + 1] /\ Top.path = <<>>
         /\ Top.at = Len(Top.set) + 1 /\ Top.kept \in Seq(DOMAIN request.nodes)
<1>1. Depth = 1 /\ Top.at > Len(Top.set) /\ stack # <<>>
  <2>1. Len(stack) = 1 /\ Depth = 1 /\ Top.at > Len(Top.set)
    BY DEF FinishOperation, Depth
  <2>2. Len(<<>>) = 0
    OBVIOUS
  <2> QED
    BY <2>1, <2>2
<1>2. Top = stack[1] /\ DOMAIN stack = 1..1
  BY <1>1, StackFacts DEF Top
<1>3. Top \in Calls(request) /\ Fits(request, removed, nodes, Top)
  BY <1>1, <1>2, StackFacts
<1>4. /\ Top.set \in Seq(DOMAIN request.nodes) /\ Top.at \in 1..(Len(Top.set) + 1)
      /\ Top.kept \in Seq(DOMAIN request.nodes)
  BY <1>3 DEF Calls, Fits
<1>5. Top.at = Len(Top.set) + 1
  BY <1>1, <1>4
<1>6. /\ Len(out) + 1 \in DOMAIN request.operations
      /\ Top.set = request.operations[Len(out) + 1] /\ Top.path = <<>>
  BY <1>1, <1>2 DEF RewritingInv, Linked
<1>7. Len(out) \in Nat
  <2>1. out \in Seq(Seq(DOMAIN request.nodes))
    BY DEF RewritingInv
  <2> QED
    BY <2>1
<1> QED
  BY <1>2, <1>3, <1>4, <1>5, <1>6, <1>7

LEMMA FinishingOperation == RewritingInv /\ FinishOperation => RewritingInv'
<1> SUFFICES ASSUME RewritingInv, FinishOperation
             PROVE  RewritingInv'
  OBVIOUS
<1> DEFINE n == Len(out)
<1>1. /\ n \in Nat /\ n + 1 \in DOMAIN request.operations
      /\ Fits(request, removed, nodes, Top)
      /\ Top.set = request.operations[n + 1] /\ Top.path = <<>>
      /\ Top.at = Len(Top.set) + 1 /\ Top.kept \in Seq(DOMAIN request.nodes)
      /\ DOMAIN stack = {1}
  BY FinishFacts
<1>2. /\ out' = Append(out, Top.kept) /\ stack' = <<>>
      /\ UNCHANGED <<request, pc, nodes, removed, status>>
  BY DEF FinishOperation
<1>3. out \in Seq(Seq(DOMAIN request.nodes)) /\ request \in Requests
  BY DEF RewritingInv
<1>4. /\ out' \in Seq(Seq(DOMAIN request.nodes)) /\ Len(out') = n + 1
      /\ DOMAIN out' = 1..(n + 1) /\ out'[n + 1] = Top.kept
      /\ \A i \in 1..n : out'[i] = out[i] /\ i \in DOMAIN out
  <2> DEFINE S == Seq(DOMAIN request.nodes)
  <2>1. Top.kept \in S /\ out \in Seq(S) /\ Len(out) = n
    BY <1>1, <1>3
  <2> HIDE DEF S, n
  <2>2. /\ Append(out, Top.kept) \in Seq(S) /\ Len(Append(out, Top.kept)) = n + 1
        /\ Append(out, Top.kept)[n + 1] = Top.kept
        /\ \A i \in 1..n : Append(out, Top.kept)[i] = out[i]
    BY <2>1
  <2>3. DOMAIN out = 1..n /\ DOMAIN Append(out, Top.kept) = 1..(n + 1)
    BY <2>1, <2>2
  <2> QED
    BY <1>2, <2>2, <2>3 DEF S
<1>5. n + 1 <= Len(request.operations)
  BY <1>1, <1>3, RequestFacts
<1>6. Keeps(request, removed, nodes, <<>>, request.operations[n + 1],
            Len(request.operations[n + 1]) + 1, Top.kept)
  BY <1>1 DEF Fits
<1>7. \A i \in DOMAIN out :
        Keeps(request, removed, nodes, <<>>, request.operations[i],
              Len(request.operations[i]) + 1, out[i])
  BY DEF RewritingInv
<1> HIDE DEF n
<1>8. \A i \in DOMAIN out' :
        Keeps(request, removed, nodes, <<>>, request.operations[i],
              Len(request.operations[i]) + 1, out'[i])
  <2>1. \A i \in 1..(n + 1) : i \in 1..n \/ i = n + 1
    BY <1>1
  <2> QED
    BY <1>4, <1>6, <1>7, <2>1
<1>9. stack' \in Seq(Calls(request)) /\ DOMAIN stack' = {} /\ Len(stack') = 0
  BY <1>2
<1>10. Linked(request, nodes, stack', n + 1)
  BY <1>2, <1>9 DEF Linked
<1>11. pc # "request"
  <2>1. stack # <<>>
    BY <1>1, <1>9, <1>2
  <2> QED
    BY <2>1 DEF RewritingInv
<1> QED
  BY <1>2, <1>4, <1>5, <1>8, <1>9, <1>10, <1>11 DEF RewritingInv

LEMMA Finishing == RewritingInv /\ Finish => RewritingInv'
<1> SUFFICES ASSUME RewritingInv, Finish
             PROVE  RewritingInv'
  OBVIOUS
<1>1. status' = 200 /\ pc' = "answered" /\ UNCHANGED <<request, nodes, removed, stack, out>>
  BY DEF Finish
<1> QED
  BY <1>1 DEF RewritingInv

LEMMA RewritingStep == RewritingInv /\ [Next]_vars => RewritingInv'
<1> SUFFICES ASSUME RewritingInv, [Next]_vars
             PROVE  RewritingInv'
  OBVIOUS
<1>1. CASE UNCHANGED vars
  BY <1>1 DEF vars, RewritingInv
<1>2. CASE Next
  <2>1. Done => UNCHANGED vars
    BY DEF Done
  <2> QED
    BY <1>1, <1>2, <2>1, Refusing, BuildingRemovedSet, StartingOperation, Dropping,
       Keeping, Calling, Returning, FinishingOperation, Finishing DEF Next
<1> QED
  BY <1>1, <1>2

\* What is kept is clean and stands for what was asked for, in every state.
THEOREM RewritingInvariant == Spec => []RewritingInv
<1> QED
  BY RewritingStarts, RewritingStep, PTL DEF Spec

\* The nodes in the rewritten operation i.
LEMMA RewrittenIsClean ==
  ASSUME RewritingInv, NEW i \in DOMAIN out, NEW c \in InSet(nodes, out[i])
  PROVE  ~Covered(removed, c.path) /\ nodes[c.node].kind # "spread"
<1>1. PICK j \in DOMAIN out[i] : c \in Contents(request, nodes)[out[i][j]]
  BY DEF InSet
<1>2. IsHeap(request, nodes) /\ out[i] \in Seq(DOMAIN request.nodes)
  BY DEF RewritingInv
<1>3. out[i][j] \in DOMAIN request.nodes
  BY <1>2
<1>4. c.path \in Seq(STRING) /\ c.node \in DOMAIN request.nodes
  BY <1>1, <1>2, <1>3, ContentsTyped
<1>5. ~Covered(removed, <<>> \o c.path) /\ request.nodes[c.node].kind # "spread"
  BY <1>1 DEF RewritingInv, Keeps, Clean
<1>6. <<>> \o c.path = c.path
  BY <1>4
<1> QED
  BY <1>2, <1>4, <1>5, <1>6, OwnTyped

\* The variables keep their types, and what was rewritten has no spread left.
THEOREM TypeCorrect == Spec => []TypeOK
<1>1. RewritingInv => TypeOK
  <2> SUFFICES ASSUME RewritingInv
               PROVE  TypeOK
    OBVIOUS
  <2>1. DOMAIN nodes = DOMAIN request.nodes
    BY DEF RewritingInv, IsHeap
  <2>2. ASSUME NEW k \in DOMAIN stack
        PROVE  /\ stack[k].set \in Seq(DOMAIN nodes) /\ stack[k].kept \in Seq(DOMAIN nodes)
               /\ stack[k].at \in 1..(Len(stack[k].set) + 1)
    <3>1. stack[k] \in Calls(request) /\ Fits(request, removed, nodes, stack[k])
      BY StackFacts DEF RewritingInv
    <3> QED
      BY <2>1, <3>1 DEF Calls, Fits
  <2>3. pc \in {"request", "rewriting", "answered"} /\ status \in {0, 200, 400, 405}
    BY DEF RewritingInv
  <2> QED
    BY <2>1, <2>2, <2>3, RewrittenIsClean DEF TypeOK
<1> QED
  BY <1>1, RewritingInvariant, PTL

\* No removed field is printed, at any place and through any fragments, also
\* when several places share the nodes that are changed.
THEOREM RemovedIsNotPrintedAlways == Spec => []RemovedIsNotPrinted
<1>1. RewritingInv => RemovedIsNotPrinted
  <2>1. \A path : IsRemoved(path) <=> Covered(removed, path)
    BY DEF IsRemoved, Covered
  <2> QED
    BY <2>1, RewrittenIsClean DEF RemovedIsNotPrinted
<1> QED
  BY <1>1, RewritingInvariant, PTL

-----------------------------------------------------------------------------
(* Documents that share nothing *)

\* IsUnshared, of a request.
Unshared(r) ==
  \A x, y \in DOMAIN r.nodes :
    /\ r.nodes[x].kind = "field" =>
         (r.nodes[x].sub # <<>> <=> r.nodes[x].name \in ObjectFields)
    /\ r.nodes[x].kind = "inline" => r.nodes[x].sub # <<>>
    /\ ( /\ r.nodes[x].kind = "spread" /\ r.nodes[y].kind = "spread"
         /\ r.nodes[x].name = r.nodes[y].name ) => x = y

\* The nodes a node comes to.
Tree(r, heap, id) == {c.node : c \in Contents(r, heap)[id]}

LEMMA TreeOf ==
  ASSUME NEW r, NEW heap, IsHeap(r, heap), NEW id \in DOMAIN r.nodes
  PROVE  /\ id \in Tree(r, heap, id)
         /\ \A inner \in InnerIds(r, heap, id) :
              Tree(r, heap, inner) \subseteq Tree(r, heap, id)
         /\ \A x \in Tree(r, heap, id) :
              x = id \/ \E inner \in InnerIds(r, heap, id) : x \in Tree(r, heap, inner)
         /\ Tree(r, heap, id) \subseteq DOMAIN r.nodes
<1>1. id \in Tree(r, heap, id)
  <2>1. Itself(id, heap[id]) \in Contents(r, heap)[id]
    BY ContentsOf
  <2>2. Itself(id, heap[id]).node = id
    BY DEF Itself
  <2> QED
    BY <2>1, <2>2 DEF Tree
<1>2. ASSUME NEW inner \in InnerIds(r, heap, id), NEW c \in Contents(r, heap)[inner]
      PROVE  c.node \in Tree(r, heap, id)
  <2>1. Inside(heap[id], c) \in Contents(r, heap)[id]
    BY ContentsOf
  <2>2. Inside(heap[id], c).node = c.node
    BY DEF Inside
  <2> QED
    BY <2>1, <2>2 DEF Tree
<1>3. ASSUME NEW c \in Contents(r, heap)[id]
      PROVE  c.node = id \/ \E inner \in InnerIds(r, heap, id) : c.node \in Tree(r, heap, inner)
  <2>1. CASE c = Itself(id, heap[id])
    BY <2>1 DEF Itself
  <2>2. ASSUME NEW inner \in InnerIds(r, heap, id), NEW d \in Contents(r, heap)[inner],
               c = Inside(heap[id], d)
        PROVE  c.node \in Tree(r, heap, inner)
    BY <2>2 DEF Inside, Tree
  <2> QED
    BY <2>1, <2>2, ContentsOf
<1>4. Tree(r, heap, id) \subseteq DOMAIN r.nodes
  BY ContentsTyped DEF Tree
<1>5. \A inner \in InnerIds(r, heap, id) :
        Tree(r, heap, inner) \subseteq Tree(r, heap, id)
  BY <1>2 DEF Tree
<1>6. \A x \in Tree(r, heap, id) :
        x = id \/ \E inner \in InnerIds(r, heap, id) : x \in Tree(r, heap, inner)
  BY <1>3 DEF Tree
<1> QED
  BY <1>1, <1>4, <1>5, <1>6

LEMMA TreeRanks ==
  ASSUME NEW r, NEW heap, IsHeap(r, heap), NEW id \in DOMAIN r.nodes
  PROVE  \A x \in Tree(r, heap, id) : Rank(r, x) <= Rank(r, id)
BY ContentsTyped DEF Tree

\* What is in the tree of a node in the tree is in the tree.
LEMMA TreeInTree ==
  ASSUME NEW r, NEW heap, IsHeap(r, heap)
  PROVE  \A a \in DOMAIN r.nodes : \A x \in Tree(r, heap, a) :
           Tree(r, heap, x) \subseteq Tree(r, heap, a)
<1> DEFINE G == {a \in DOMAIN r.nodes : \A x \in Tree(r, heap, a) :
                   Tree(r, heap, x) \subseteq Tree(r, heap, a)}
<1>1. ASSUME NEW a \in DOMAIN r.nodes, InnerIds(r, heap, a) \subseteq G,
             NEW x \in Tree(r, heap, a), x # a
      PROVE  Tree(r, heap, x) \subseteq Tree(r, heap, a)
  <2>1. PICK inner \in InnerIds(r, heap, a) : x \in Tree(r, heap, inner)
    BY <1>1, TreeOf
  <2>2. Tree(r, heap, x) \subseteq Tree(r, heap, inner)
    BY <1>1, <2>1
  <2>3. Tree(r, heap, inner) \subseteq Tree(r, heap, a)
    BY TreeOf
  <2> QED
    BY <2>2, <2>3
<1>2. DOMAIN r.nodes \subseteq G
  <2>1. \A a \in DOMAIN r.nodes : InnerIds(r, heap, a) \subseteq G => a \in G
    BY <1>1
  <2> HIDE DEF G
  <2> QED
    BY <2>1, HeapInduction
<1> QED
  BY <1>2

\* A node in a tree that is not its root is held in the tree.
LEMMA HeldInTree ==
  ASSUME NEW r, NEW heap, IsHeap(r, heap)
  PROVE  \A a \in DOMAIN r.nodes : \A x \in Tree(r, heap, a) :
           x = a \/ \E p \in Tree(r, heap, a) : x \in InnerIds(r, heap, p)
<1> DEFINE G == {a \in DOMAIN r.nodes : \A x \in Tree(r, heap, a) :
                   x = a \/ \E p \in Tree(r, heap, a) : x \in InnerIds(r, heap, p)}
<1>1. ASSUME NEW a \in DOMAIN r.nodes, InnerIds(r, heap, a) \subseteq G,
             NEW x \in Tree(r, heap, a), x # a
      PROVE  \E p \in Tree(r, heap, a) : x \in InnerIds(r, heap, p)
  <2>1. PICK inner \in InnerIds(r, heap, a) : x \in Tree(r, heap, inner)
    BY <1>1, TreeOf
  <2>2. CASE x = inner
    BY <2>2, TreeOf
  <2>3. CASE x # inner
    <3>1. PICK p \in Tree(r, heap, inner) : x \in InnerIds(r, heap, p)
      BY <1>1, <2>1, <2>3
    <3>2. Tree(r, heap, inner) \subseteq Tree(r, heap, a)
      BY TreeOf
    <3> QED
      BY <3>1, <3>2
  <2> QED
    BY <2>2, <2>3
<1>2. DOMAIN r.nodes \subseteq G
  <2>1. \A a \in DOMAIN r.nodes : InnerIds(r, heap, a) \subseteq G => a \in G
    BY <1>1
  <2> HIDE DEF G
  <2> QED
    BY <2>1, HeapInduction
<1> QED
  BY <1>2

\* Whose selection set a node's is.
Owner(r, id) ==
  IF r.nodes[id].kind = "spread" THEN <<"fragment", r.nodes[id].name>> ELSE <<"node", id>>

LEMMA OwnerOf ==
  ASSUME NEW r, IsDocument(r), NEW p \in DOMAIN r.nodes,
         NEW i \in DOMAIN Inner(r, r.nodes, p)
  PROVE  Owner(r, p) \in Owners(r) /\ SelectionSet(r, Owner(r, p)) = Inner(r, r.nodes, p)
<1>1. CASE r.nodes[p].kind # "spread"
  <2>1. Owner(r, p) = <<"node", p>> /\ Inner(r, r.nodes, p) = r.nodes[p].sub
    BY <1>1 DEF Owner, Inner
  <2>2. <<"node", p>> \in Owners(r) /\ SelectionSet(r, <<"node", p>>) = r.nodes[p].sub
    BY DEF Owners, SelectionSet
  <2> QED
    BY <2>1, <2>2
<1>2. CASE r.nodes[p].kind = "spread" /\ r.nodes[p].name \in DOMAIN r.fragments
  <2> DEFINE f == r.nodes[p].name
  <2>1. Owner(r, p) = <<"fragment", f>> /\ Inner(r, r.nodes, p) = r.fragments[f]
    BY <1>2 DEF Owner, Inner
  <2>2. <<"fragment", f>> \in Owners(r) /\ SelectionSet(r, <<"fragment", f>>) = r.fragments[f]
    BY <1>2 DEF Owners, SelectionSet
  <2> QED
    BY <2>1, <2>2
<1>3. CASE r.nodes[p].kind = "spread" /\ r.nodes[p].name \notin DOMAIN r.fragments
  <2>1. Inner(r, r.nodes, p) = <<>> /\ DOMAIN <<>> = {}
    BY <1>3 DEF Inner
  <2> QED
    BY <2>1
<1> QED
  BY <1>1, <1>2, <1>3

LEMMA OnePlace ==
  ASSUME NEW r, IsDocument(r), NEW x \in Owners(r), NEW y \in Owners(r),
         NEW i \in DOMAIN SelectionSet(r, x), NEW j \in DOMAIN SelectionSet(r, y),
         SelectionSet(r, x)[i] = SelectionSet(r, y)[j]
  PROVE  x = y /\ i = j
BY DEF IsDocument

\* A node is in one selection set, at one place ...
LEMMA OneHolder ==
  ASSUME NEW r, IsDocument(r), Unshared(r), NEW p \in DOMAIN r.nodes, NEW q \in DOMAIN r.nodes,
         NEW i \in DOMAIN Inner(r, r.nodes, p), NEW j \in DOMAIN Inner(r, r.nodes, q),
         Inner(r, r.nodes, p)[i] = Inner(r, r.nodes, q)[j]
  PROVE  p = q /\ i = j
<1>1. Owner(r, p) = Owner(r, q) /\ i = j
  <2>1. Owner(r, p) \in Owners(r) /\ SelectionSet(r, Owner(r, p)) = Inner(r, r.nodes, p)
    BY OwnerOf
  <2>2. Owner(r, q) \in Owners(r) /\ SelectionSet(r, Owner(r, q)) = Inner(r, r.nodes, q)
    BY OwnerOf
  <2> QED
    BY <2>1, <2>2, OnePlace
<1>2. CASE r.nodes[p].kind = "spread"
  <2>1. Owner(r, p) = <<"fragment", r.nodes[p].name>>
    BY <1>2 DEF Owner
  <2>2. r.nodes[q].kind = "spread"
    <3>1. CASE r.nodes[q].kind # "spread"
      <4>1. Owner(r, q) = <<"node", q>>
        BY <3>1 DEF Owner
      <4>2. <<"node", q>> # <<"fragment", r.nodes[p].name>>
        OBVIOUS
      <4> QED
        BY <1>1, <2>1, <4>1, <4>2
    <3> QED
      BY <3>1
  <2>3. Owner(r, q) = <<"fragment", r.nodes[q].name>>
    BY <2>2 DEF Owner
  <2>4. r.nodes[p].name = r.nodes[q].name
    <3>1. Owner(r, p)[2] = r.nodes[p].name
      BY <2>1
    <3>2. Owner(r, q)[2] = r.nodes[q].name
      BY <2>3
    <3> QED
      BY <1>1, <3>1, <3>2
  <2> QED
    BY <1>1, <1>2, <2>2, <2>4 DEF Unshared
<1>3. CASE r.nodes[p].kind # "spread"
  <2>1. Owner(r, p) = <<"node", p>>
    BY <1>3 DEF Owner
  <2>2. Owner(r, q) = <<"node", q>> \/ Owner(r, q) = <<"fragment", r.nodes[q].name>>
    BY DEF Owner
  <2>3. <<"node", p>> # <<"fragment", r.nodes[q].name>>
    OBVIOUS
  <2> QED
    BY <1>1, <2>1, <2>2, <2>3
<1> QED
  BY <1>2, <1>3

\* ... and a node of an operation in no other.
LEMMA RootHolder ==
  ASSUME NEW r, IsDocument(r), NEW n \in DOMAIN r.operations, NEW i \in DOMAIN r.operations[n]
  PROVE  /\ \A p \in DOMAIN r.nodes : r.operations[n][i] \notin InnerIds(r, r.nodes, p)
         /\ \A m \in DOMAIN r.operations : \A j \in DOMAIN r.operations[m] :
              r.operations[n][i] = r.operations[m][j] => n = m /\ i = j
<1> DEFINE o(m) == <<"operation", m>>
<1>1. \A m \in DOMAIN r.operations :
        o(m) \in Owners(r) /\ SelectionSet(r, o(m)) = r.operations[m] /\ o(m)[2] = m
  BY DEF Owners, SelectionSet
<1>2. \A p : Owner(r, p) # o(n)
  <2>1. \A p : Owner(r, p)[1] \in {"fragment", "node"}
    BY DEF Owner
  <2>2. o(n)[1] = "operation"
    OBVIOUS
  <2> QED
    BY <2>1, <2>2
<1> HIDE DEF o
<1>3. ASSUME NEW p \in DOMAIN r.nodes, r.operations[n][i] \in InnerIds(r, r.nodes, p)
      PROVE  FALSE
  <2>1. PICK j \in DOMAIN Inner(r, r.nodes, p) :
          Inner(r, r.nodes, p)[j] = r.operations[n][i]
    BY <1>3 DEF InnerIds
  <2>2. Owner(r, p) \in Owners(r) /\ SelectionSet(r, Owner(r, p)) = Inner(r, r.nodes, p)
    BY OwnerOf
  <2>3. Owner(r, p) = o(n)
    BY <1>1, <2>1, <2>2, OnePlace
  <2> QED
    BY <1>2, <2>3
<1>4. ASSUME NEW m \in DOMAIN r.operations, NEW j \in DOMAIN r.operations[m],
             r.operations[n][i] = r.operations[m][j]
      PROVE  n = m /\ i = j
  <2>1. o(n) = o(m) /\ i = j
    BY <1>1, <1>4, OnePlace
  <2> QED
    BY <1>1, <2>1
<1> QED
  BY <1>3, <1>4

\* Trees that meet: one is in the other.
LEMMA Comparable ==
  ASSUME NEW r, IsDocument(r), Unshared(r)
  PROVE  \A a \in DOMAIN r.nodes : \A b \in DOMAIN r.nodes :
           Tree(r, r.nodes, a) \cap Tree(r, r.nodes, b) # {} =>
             a \in Tree(r, r.nodes, b) \/ b \in Tree(r, r.nodes, a)
<1> DEFINE T(a) == Tree(r, r.nodes, a)
           G == {a \in DOMAIN r.nodes : \A b \in DOMAIN r.nodes :
                   T(a) \cap T(b) # {} => a \in T(b) \/ b \in T(a)}
<1>1. IsHeap(r, r.nodes)
  BY DocumentIsHeap
<1>2. ASSUME NEW a \in DOMAIN r.nodes, InnerIds(r, r.nodes, a) \subseteq G,
             NEW b \in DOMAIN r.nodes, T(a) \cap T(b) # {}
      PROVE  a \in T(b) \/ b \in T(a)
  <2>1. PICK x : x \in T(a) /\ x \in T(b)
    BY <1>2
  <2>2. CASE x = a
    BY <2>1, <2>2
  <2>3. CASE x # a
    <3>1. PICK inner \in InnerIds(r, r.nodes, a) : x \in T(inner)
      BY <1>1, <2>1, <2>3, TreeOf
    <3>2. inner \in T(b) \/ b \in T(inner)
      BY <1>2, <2>1, <3>1
    <3>3. T(inner) \subseteq T(a) /\ inner \in DOMAIN r.nodes /\ inner \in T(inner)
      BY <1>1, TreeOf, InnerTyped
    <3>4. CASE b \in T(inner)
      BY <3>3, <3>4
    <3>5. CASE inner \in T(b) /\ inner = b
      BY <3>3, <3>5
    <3>6. CASE inner \in T(b) /\ inner # b
      <4>1. PICK q \in T(b) : inner \in InnerIds(r, r.nodes, q)
        BY <1>1, <3>6, HeldInTree
      <4>2. q \in DOMAIN r.nodes
        BY <1>1, TreeOf
      <4>3. PICK j \in DOMAIN Inner(r, r.nodes, q) : inner = Inner(r, r.nodes, q)[j]
        BY <4>1 DEF InnerIds
      <4>4. PICK i \in DOMAIN Inner(r, r.nodes, a) : inner = Inner(r, r.nodes, a)[i]
        BY DEF InnerIds
      <4>5. a = q
        BY <4>2, <4>3, <4>4, OneHolder
      <4> QED
        BY <4>5
    <3> QED
      BY <3>2, <3>4, <3>5, <3>6
  <2> QED
    BY <2>2, <2>3
<1>3. DOMAIN r.nodes \subseteq G
  <2>1. \A a \in DOMAIN r.nodes : InnerIds(r, r.nodes, a) \subseteq G => a \in G
    BY <1>2
  <2> HIDE DEF G
  <2> QED
    BY <1>1, <2>1, HeapInduction
<1> QED
  BY <1>3

Apart(r, a, b) == Tree(r, r.nodes, a) \cap Tree(r, r.nodes, b) = {}

\* Different selections of one set have nothing in common ...
SetApart(r, set) ==
  \A i, j \in DOMAIN set : i # j => Apart(r, set[i], set[j])

LEMMA InnerApart ==
  ASSUME NEW r, IsDocument(r), Unshared(r), NEW p \in DOMAIN r.nodes
  PROVE  SetApart(r, Inner(r, r.nodes, p))
<1> DEFINE set == Inner(r, r.nodes, p)
<1>1. IsHeap(r, r.nodes)
  BY DocumentIsHeap
<1>2. \A i \in DOMAIN set : set[i] \in InnerIds(r, r.nodes, p) /\ set[i] \in DOMAIN r.nodes
  BY <1>1, InnerTyped DEF InnerIds
<1>3. ASSUME NEW i \in DOMAIN set, NEW j \in DOMAIN set, i # j,
             set[i] \in Tree(r, r.nodes, set[j])
      PROVE  FALSE
  <2>1. set[i] # set[j]
    BY <1>3, OneHolder
  <2>2. PICK q \in Tree(r, r.nodes, set[j]) : set[i] \in InnerIds(r, r.nodes, q)
    BY <1>1, <1>2, <1>3, <2>1, HeldInTree
  <2>3. q \in DOMAIN r.nodes
    BY <1>1, <1>2, TreeOf
  <2>4. q = p
    <3>1. PICK k \in DOMAIN Inner(r, r.nodes, q) : set[i] = Inner(r, r.nodes, q)[k]
      BY <2>2 DEF InnerIds
    <3> QED
      BY <2>3, <3>1, OneHolder
  <2>5. Rank(r, p) <= Rank(r, set[j])
    BY <1>1, <1>2, <2>4, TreeRanks
  <2>6. Rank(r, set[j]) < Rank(r, p)
    BY <1>1, <1>2 DEF IsHeap
  <2>7. Rank(r, p) \in Nat /\ Rank(r, set[j]) \in Nat
    BY <1>2, Ranks
  <2> QED
    BY <2>5, <2>6, <2>7
<1> HIDE DEF set
<1>4. ASSUME NEW i \in DOMAIN set, NEW j \in DOMAIN set, i # j
      PROVE  Apart(r, set[i], set[j])
  BY <1>2, <1>3, <1>4, Comparable DEF Apart
<1>5. SetApart(r, set)
  BY <1>4 DEF SetApart
<1> QED
  BY <1>5 DEF set

\* ... and different selections of the operations.
LEMMA RootsApart ==
  ASSUME NEW r \in Requests, Unshared(r),
         NEW n \in DOMAIN r.operations, NEW i \in DOMAIN r.operations[n],
         NEW m \in DOMAIN r.operations, NEW j \in DOMAIN r.operations[m],
         n # m \/ i # j
  PROVE  Apart(r, r.operations[n][i], r.operations[m][j])
<1>1. IsDocument(r) /\ IsHeap(r, r.nodes)
  BY RequestFacts, DocumentIsHeap
<1>2. \A k \in DOMAIN r.operations : \A l \in DOMAIN r.operations[k] :
        /\ r.operations[k][l] \in DOMAIN r.nodes
        /\ \A p \in DOMAIN r.nodes : r.operations[k][l] \notin InnerIds(r, r.nodes, p)
  <2> SUFFICES ASSUME NEW k \in DOMAIN r.operations, NEW l \in DOMAIN r.operations[k]
               PROVE  /\ r.operations[k][l] \in DOMAIN r.nodes
                      /\ \A p \in DOMAIN r.nodes :
                           r.operations[k][l] \notin InnerIds(r, r.nodes, p)
    OBVIOUS
  <2>1. r.operations[k] \in Seq(DOMAIN r.nodes)
    BY RequestFacts
  <2>2. r.operations[k][l] \in DOMAIN r.nodes
    BY <2>1
  <2> QED
    BY <1>1, <2>2, RootHolder
<1> DEFINE a == r.operations[n][i]
           b == r.operations[m][j]
<1>3. a # b
  BY <1>1, RootHolder
<1>4. /\ a \in DOMAIN r.nodes /\ \A p \in DOMAIN r.nodes : a \notin InnerIds(r, r.nodes, p)
      /\ b \in DOMAIN r.nodes /\ \A p \in DOMAIN r.nodes : b \notin InnerIds(r, r.nodes, p)
  BY <1>2
<1> HIDE DEF a, b
<1>5. \A x \in DOMAIN r.nodes : Tree(r, r.nodes, x) \subseteq DOMAIN r.nodes
  BY <1>1, TreeOf
<1>6. a \notin Tree(r, r.nodes, b) /\ b \notin Tree(r, r.nodes, a)
  BY <1>1, <1>3, <1>4, <1>5, HeldInTree
<1>7. Apart(r, a, b)
  BY <1>1, <1>4, <1>6, Comparable DEF Apart
<1> QED
  BY <1>7 DEF a, b

\* A node that is written changes the trees it is in only.
LEMMA WrittenElsewhere ==
  ASSUME NEW r, NEW heap, IsHeap(r, heap), NEW id \in DOMAIN r.nodes,
         r.nodes[id].kind # "spread", NEW kept \in Seq(DOMAIN r.nodes),
         NEW new, new = Written(heap, id, kept), IsHeap(r, new)
  PROVE  \A x \in DOMAIN r.nodes : id \notin Tree(r, heap, x) =>
           Contents(r, new)[x] = Contents(r, heap)[x]
<1> DEFINE G == {x \in DOMAIN r.nodes : id \notin Tree(r, heap, x) =>
                   Contents(r, new)[x] = Contents(r, heap)[x]}
<1>1. \A x \in DOMAIN r.nodes \ {id} :
        new[x] = heap[x] /\ Inner(r, new, x) = Inner(r, heap, x)
  BY WrittenNodes
<1>2. ASSUME NEW x \in DOMAIN r.nodes, InnerIds(r, heap, x) \subseteq G,
             id \notin Tree(r, heap, x)
      PROVE  Contents(r, new)[x] = Contents(r, heap)[x]
  <2>1. x # id
    BY <1>2, TreeOf
  <2>2. /\ new[x] = heap[x] /\ InnerIds(r, new, x) = InnerIds(r, heap, x)
    BY <1>1, <2>1 DEF InnerIds
  <2>3. \A inner \in InnerIds(r, heap, x) : id \notin Tree(r, heap, inner)
    BY <1>2, TreeOf
  <2>4. \A inner \in InnerIds(r, heap, x) :
          Contents(r, new)[inner] = Contents(r, heap)[inner]
    BY <1>2, <2>3
  <2>5. {Contents(r, new)[inner] : inner \in InnerIds(r, new, x)}
          = {Contents(r, heap)[inner] : inner \in InnerIds(r, heap, x)}
    BY <2>2, <2>4
  <2>6. Content(r, new, Contents(r, new), x) = Content(r, heap, Contents(r, heap), x)
    BY <2>2, <2>5 DEF Content
  <2> QED
    BY <2>6, ContentsAre
<1>3. DOMAIN r.nodes \subseteq G
  <2>1. \A x \in DOMAIN r.nodes : InnerIds(r, heap, x) \subseteq G => x \in G
    BY <1>2
  <2> HIDE DEF G
  <2> QED
    BY <2>1, HeapInduction
<1> QED
  BY <1>3

-----------------------------------------------------------------------------
(* The fields that are not removed *)

\* The leaf fields of a selection that is at `path` that are not removed.
Owed(r, paths, path, id) ==
  {c \in Contents(r, r.nodes)[id] :
     /\ r.nodes[c.node].kind = "field" /\ r.nodes[c.node].name \notin ObjectFields
     /\ ~Covered(paths, path \o c.path)}

NoHole(r, heap, id) == \A c \in Contents(r, heap)[id] : ~IsHole(heap[c.node])

\* What is kept of the first n - 1 selections has all they owe, and no holes.
Does(r, paths, heap, path, set, n, kept) ==
  /\ \A i \in DOMAIN set : i < n =>
       \A c \in Owed(r, paths, path, set[i]) :
         \E j \in DOMAIN kept : c \in Contents(r, heap)[kept[j]]
  /\ \A j \in DOMAIN kept : NoHole(r, heap, kept[j])

\* The document still has a selection as the client wrote it.
Untouched(r, heap, id) == \A x \in Tree(r, r.nodes, id) : heap[x] = r.nodes[x]

Works(r, paths, heap, call) ==
  /\ SetApart(r, call.set)
  /\ Does(r, paths, heap, call.path, call.set, call.at, call.kept)
  /\ \A i \in DOMAIN call.set : i > call.at => Untouched(r, heap, call.set[i])

AtTop(r, heap, calls) ==
  LET top == calls[Len(calls)] IN
  calls # <<>> /\ top.at \in DOMAIN top.set => Untouched(r, heap, top.set[top.at])

\* The selections that calls are for are not written yet, and lie in each
\* other.
Nested(r, heap, calls) ==
  \A k \in 1..(Len(calls) - 1) :
    /\ heap[Current(calls, k)] = r.nodes[Current(calls, k)]
    /\ r.nodes[Current(calls, k)].kind = "field" => calls[k + 1].set # <<>>
    /\ \A m \in 1..k :
         Tree(r, r.nodes, Current(calls, k)) \subseteq Tree(r, r.nodes, Current(calls, m))

\* The operations to come.
Pending(r, heap, calls, n) ==
  \A l \in DOMAIN r.operations : l > n + 1 \/ (calls = <<>> /\ l = n + 1) =>
    \A i \in DOMAIN r.operations[l] : Untouched(r, heap, r.operations[l][i])

\* The rewriting of a document that shares nothing: a node is written once,
\* when its call returns, and by then nothing that was kept or is still to
\* come has it.
PrintingInv ==
  /\ \A x \in DOMAIN request.nodes :
       Contents(request, nodes)[x] \subseteq Contents(request, request.nodes)[x]
  /\ \A k \in DOMAIN stack : Works(request, removed, nodes, stack[k])
  /\ AtTop(request, nodes, stack)
  /\ Nested(request, nodes, stack)
  /\ Pending(request, nodes, stack, Len(out))
  /\ \A i \in DOMAIN out :
       Does(request, removed, nodes, <<>>, request.operations[i],
            Len(request.operations[i]) + 1, out[i])

LEMMA PassedWorks ==
  ASSUME NEW r, NEW paths, NEW heap, NEW call \in Calls(r), Works(r, paths, heap, call),
         call.at \in DOMAIN call.set, NEW more \in Seq(DOMAIN r.nodes),
         \A c \in Owed(r, paths, call.path, call.set[call.at]) :
           \E j \in DOMAIN more : c \in Contents(r, heap)[more[j]],
         \A j \in DOMAIN more : NoHole(r, heap, more[j])
  PROVE  Works(r, paths, heap, Passed(call, more))
<1> DEFINE new == Passed(call, more)
<1>1. /\ call.set \in Seq(DOMAIN r.nodes) /\ call.at \in Nat
      /\ call.path \in Seq(STRING) /\ call.kept \in Seq(DOMAIN r.nodes)
  BY DEF Calls
<1>2. /\ new.set = call.set /\ new.path = call.path
      /\ new.at = call.at + 1 /\ new.kept = call.kept \o more
  BY DEF Passed, Calls
<1> HIDE DEF new
<1>3. /\ \A j \in DOMAIN call.kept : j \in DOMAIN new.kept /\ new.kept[j] = call.kept[j]
      /\ \A j \in DOMAIN more : \E k \in DOMAIN new.kept : new.kept[k] = more[j]
      /\ \A k \in DOMAIN new.kept : \/ k \in DOMAIN call.kept
                                   \/ \E j \in DOMAIN more : new.kept[k] = more[j]
  <2>1. \A j \in DOMAIN call.kept : j \in DOMAIN new.kept /\ new.kept[j] = call.kept[j]
    BY <1>1, <1>2
  <2>2. ASSUME NEW j \in DOMAIN more
        PROVE  \E k \in DOMAIN new.kept : new.kept[k] = more[j]
    <3> DEFINE k == Len(call.kept) + j
    <3>1. /\ Len(call.kept) \in Nat /\ Len(more) \in Nat /\ j \in 1..Len(more)
          /\ Len(call.kept \o more) = Len(call.kept) + Len(more)
          /\ DOMAIN (call.kept \o more) = 1..Len(call.kept \o more)
      BY <1>1
    <3>2. /\ k \in 1..(Len(call.kept) + Len(more)) /\ ~(k <= Len(call.kept))
          /\ k - Len(call.kept) = j
      BY <3>1
    <3> HIDE DEF k
    <3>3. (call.kept \o more)[k]
            = IF k <= Len(call.kept) THEN call.kept[k] ELSE more[k - Len(call.kept)]
      BY ONLY <1>1, <3>2, more \in Seq(DOMAIN r.nodes), ConcatProperties
    <3> QED
      BY <1>2, <3>1, <3>2, <3>3
  <2>3. ASSUME NEW k \in DOMAIN new.kept, k \notin DOMAIN call.kept
        PROVE  \E j \in DOMAIN more : new.kept[k] = more[j]
    <3>1. k - Len(call.kept) \in DOMAIN more /\ new.kept[k] = more[k - Len(call.kept)]
      BY <1>1, <1>2, <2>3
    <3> QED
      BY <3>1
  <2> QED
    BY <2>1, <2>2, <2>3
<1>4. ASSUME NEW i \in DOMAIN new.set, i < new.at,
             NEW c \in Owed(r, paths, new.path, new.set[i])
      PROVE  \E j \in DOMAIN new.kept : c \in Contents(r, heap)[new.kept[j]]
  <2>1. i < call.at \/ i = call.at
    BY <1>1, <1>2, <1>4
  <2>2. CASE i < call.at
    BY <1>2, <1>3, <2>2 DEF Works, Does
  <2>3. CASE i = call.at
    BY <1>2, <1>3, <2>3
  <2> QED
    BY <2>1, <2>2, <2>3
<1>5. ASSUME NEW j \in DOMAIN new.kept
      PROVE  NoHole(r, heap, new.kept[j])
  BY <1>3 DEF Works, Does
<1>6. ASSUME NEW i \in DOMAIN new.set, i > new.at
      PROVE  Untouched(r, heap, new.set[i])
  <2>1. i > call.at
    BY <1>1, <1>2, <1>6
  <2> QED
    BY <1>2, <2>1 DEF Works
<1>7. SetApart(r, new.set)
  BY <1>2 DEF Works
<1>8. Works(r, paths, heap, new)
  BY <1>4, <1>5, <1>6, <1>7 DEF Works, Does
<1> QED
  BY <1>8 DEF new

LEMMA DoesElsewhere ==
  ASSUME NEW r, NEW heap, IsHeap(r, heap), NEW id \in DOMAIN r.nodes,
         r.nodes[id].kind # "spread", NEW was \in Seq(DOMAIN r.nodes),
         NEW new, new = Written(heap, id, was), IsHeap(r, new),
         NEW paths, NEW path, NEW set, NEW n, NEW kept \in Seq(DOMAIN r.nodes),
         Does(r, paths, heap, path, set, n, kept),
         \A j \in DOMAIN kept : id \notin Tree(r, heap, kept[j])
  PROVE  Does(r, paths, new, path, set, n, kept)
<1>1. \A j \in DOMAIN kept : kept[j] \in DOMAIN r.nodes
  OBVIOUS
<1>2. \A j \in DOMAIN kept : Contents(r, new)[kept[j]] = Contents(r, heap)[kept[j]]
  BY <1>1, WrittenElsewhere
<1>3. \A x \in DOMAIN r.nodes \ {id} : new[x] = heap[x]
  BY WrittenNodes
<1>4. ASSUME NEW j \in DOMAIN kept, NEW c \in Contents(r, new)[kept[j]]
      PROVE  ~IsHole(new[c.node])
  <2>1. c \in Contents(r, heap)[kept[j]]
    BY <1>2
  <2>2. c.node \in Tree(r, heap, kept[j]) /\ c.node \in DOMAIN r.nodes
    BY <1>1, <2>1, ContentsTyped DEF Tree
  <2>3. new[c.node] = heap[c.node]
    BY <1>3, <2>2
  <2> QED
    BY <2>1, <2>3 DEF Does, NoHole
<1>5. \A j \in DOMAIN kept : NoHole(r, new, kept[j])
  BY <1>4 DEF NoHole
<1> QED
  BY <1>2, <1>5 DEF Does

LEMMA UntouchedElsewhere ==
  ASSUME NEW r, NEW heap, IsHeap(r, heap), NEW id \in DOMAIN r.nodes,
         r.nodes[id].kind # "spread", NEW was \in Seq(DOMAIN r.nodes),
         NEW new, new = Written(heap, id, was), NEW x \in DOMAIN r.nodes,
         Untouched(r, heap, x), id \notin Tree(r, r.nodes, x)
  PROVE  Untouched(r, new, x)
<1>1. \A y \in DOMAIN r.nodes \ {id} : new[y] = heap[y]
  BY WrittenNodes
<1>2. Tree(r, r.nodes, x) \subseteq DOMAIN r.nodes
  BY TreeOf, DocumentIsHeap DEF IsHeap
<1> QED
  BY <1>1, <1>2 DEF Untouched

LEMMA NewCallWorks ==
  ASSUME NEW r, NEW paths, NEW heap, NEW set \in Seq(DOMAIN r.nodes), NEW path,
         SetApart(r, set), \A i \in DOMAIN set : Untouched(r, heap, set[i])
  PROVE  Works(r, paths, heap, Call(set, path))
<1>1. Call(set, path) = [set |-> set, at |-> 1, path |-> path, kept |-> <<>>]
  BY DEF Call
<1>2. \A i \in DOMAIN set : ~(i < 1)
  OBVIOUS
<1>3. DOMAIN <<>> = {}
  OBVIOUS
<1>4. Does(r, paths, heap, path, set, 1, <<>>)
  BY <1>2, <1>3 DEF Does
<1> QED
  BY <1>1, <1>4 DEF Works

LEMMA PrintingStarts == Init /\ RewritingInv => PrintingInv
<1> SUFFICES ASSUME Init, RewritingInv
             PROVE  PrintingInv
  OBVIOUS
<1>1. nodes = request.nodes /\ stack = <<>> /\ out = <<>>
  BY DEF Init
<1>2. DOMAIN stack = {} /\ DOMAIN out = {} /\ Len(stack) = 0
  BY <1>1
<1>3. \A x : Untouched(request, nodes, x)
  BY <1>1 DEF Untouched
<1>4. AtTop(request, nodes, stack) /\ Nested(request, nodes, stack)
  BY <1>1, <1>2 DEF AtTop, Nested
<1>5. Pending(request, nodes, stack, Len(out))
  BY <1>3 DEF Pending
<1> QED
  BY <1>1, <1>2, <1>4, <1>5 DEF PrintingInv

\* Before and after the rewriting nothing is owed.
LEMMA PrintingRests ==
  ASSUME RewritingInv, PrintingInv, UNCHANGED <<request, nodes, stack, out>>,
         removed' = removed \/ (stack = <<>> /\ out = <<>>)
  PROVE  PrintingInv'
<1>1. CASE removed' = removed
  BY <1>1 DEF PrintingInv
<1>2. CASE stack = <<>> /\ out = <<>>
  <2>1. DOMAIN stack = {} /\ DOMAIN out = {}
    BY <1>2
  <2> QED
    BY <2>1 DEF PrintingInv
<1> QED
  BY <1>1, <1>2

\* A turn of the loop that leaves all the selection owes.
LEMMA TopWorksOn ==
  ASSUME RewritingInv, PrintingInv, Turn, NEW more \in Seq(DOMAIN request.nodes),
         \A c \in Owed(request, removed, Top.path, Id) :
           \E j \in DOMAIN more : c \in Contents(request, nodes)[more[j]],
         \A j \in DOMAIN more : NoHole(request, nodes, more[j]),
         stack' = [stack EXCEPT ![Depth] = Passed(@, more)]
  PROVE  PrintingInv'
<1>1. stack # <<>> /\ Top \in Calls(request) /\ Top.at \in DOMAIN Top.set
  BY TurnFacts
<1>2. Depth \in Nat /\ Depth >= 1 /\ DOMAIN stack = 1..Depth /\ Len(stack) = Depth
  BY <1>1, StackFacts DEF Depth
<1> DEFINE new == Passed(Top, more)
<1>3. \A k \in DOMAIN stack : Works(request, removed, nodes, stack[k])
  BY DEF PrintingInv
<1>4. Works(request, removed, nodes, Top)
  BY <1>2, <1>3 DEF Top
<1>5. Works(request, removed, nodes, new)
  BY <1>1, <1>4, PassedWorks DEF Id
<1>6. new.set = Top.set /\ new.path = Top.path /\ new.at = Top.at + 1
  BY <1>1 DEF Passed, Calls
<1> HIDE DEF new
<1>7. /\ DOMAIN stack' = 1..Depth /\ Len(stack') = Depth /\ stack'[Depth] = new
      /\ \A k \in 1..Depth : k # Depth => stack'[k] = stack[k]
  <2>1. stack' = [stack EXCEPT ![Depth] = new]
    BY DEF Top, new
  <2> QED
    BY <1>2, <2>1
<1>8. UNCHANGED <<request, pc, nodes, removed, out, status>>
  BY DEF Turn
<1>9. \A k \in DOMAIN stack' : Works(request, removed, nodes, stack'[k])
  BY <1>2, <1>3, <1>5, <1>7
<1>10. AtTop(request, nodes, stack')
  <2> SUFFICES ASSUME new.at \in DOMAIN new.set
               PROVE  Untouched(request, nodes, new.set[new.at])
    BY <1>7 DEF AtTop
  <2>1. Top.at + 1 \in DOMAIN Top.set /\ Top.at + 1 > Top.at
    BY <1>1, <1>6 DEF Calls
  <2> QED
    BY <1>4, <1>6, <2>1 DEF Works
<1>11. Nested(request, nodes, stack')
  <2>1. \A k \in 1..(Depth - 1) : k \in 1..Depth /\ k # Depth /\ k + 1 \in 1..Depth
    BY <1>2
  <2>2. \A k \in 1..(Depth - 1) : \A m \in 1..k : m \in 1..(Depth - 1)
    BY <1>2
  <2>3. \A k \in 1..(Depth - 1) : Current(stack', k) = Current(stack, k)
    BY <1>7, <2>1 DEF Current
  <2>4. \A k \in 1..Depth : stack'[k].set = stack[k].set
    BY <1>2, <1>6, <1>7 DEF Top
  <2>5. Nested(request, nodes, stack)
    BY DEF PrintingInv
  <2>6. ASSUME NEW k \in 1..(Depth - 1)
        PROVE  /\ nodes[Current(stack', k)] = request.nodes[Current(stack', k)]
               /\ request.nodes[Current(stack', k)].kind = "field"
                    => stack'[k + 1].set # <<>>
               /\ \A m \in 1..k :
                    Tree(request, request.nodes, Current(stack', k))
                      \subseteq Tree(request, request.nodes, Current(stack', m))
    <3>1. /\ nodes[Current(stack, k)] = request.nodes[Current(stack, k)]
          /\ request.nodes[Current(stack, k)].kind = "field" => stack[k + 1].set # <<>>
          /\ \A m \in 1..k :
               Tree(request, request.nodes, Current(stack, k))
                 \subseteq Tree(request, request.nodes, Current(stack, m))
      BY <1>2, <2>5 DEF Nested
    <3>2. Current(stack', k) = Current(stack, k) /\ stack'[k + 1].set = stack[k + 1].set
      BY <2>1, <2>3, <2>4
    <3>3. \A m \in 1..k : Current(stack', m) = Current(stack, m)
      BY <2>2, <2>3
    <3> QED
      BY <3>1, <3>2, <3>3
  <2> QED
    BY <1>7, <2>6 DEF Nested
<1>12. Pending(request, nodes, stack', Len(out))
  <2>1. stack' # <<>>
    BY <1>2, <1>7
  <2>2. Pending(request, nodes, stack, Len(out))
    BY DEF PrintingInv
  <2> QED
    BY <2>1, <2>2 DEF Pending
<1> QED
  BY <1>8, <1>9, <1>10, <1>11, <1>12 DEF PrintingInv

\* The selection the loop is at, in the document the client sent.
LEMMA TurnInRequest ==
  ASSUME RewritingInv, PrintingInv, Turn
  PROVE  /\ IsHeap(request, nodes) /\ IsHeap(request, request.nodes) /\ IsDocument(request)
         /\ Top.path \in Seq(STRING) /\ Id \in DOMAIN request.nodes
         /\ Path = PathOf(request.nodes[Id], Top.path) /\ Path \in Seq(STRING)
         /\ Untouched(request, nodes, Id) /\ nodes[Id] = request.nodes[Id]
<1>1. IsHeap(request, nodes) /\ IsDocument(request)
  BY DEF RewritingInv, IsHeap
<1>2. IsHeap(request, request.nodes)
  BY <1>1, DocumentIsHeap
<1>3. /\ stack # <<>> /\ Top \in Calls(request) /\ Top.at \in DOMAIN Top.set
      /\ Id \in DOMAIN request.nodes
      /\ Path = PathOf(request.nodes[Id], Top.path) /\ Path \in Seq(STRING)
  BY TurnFacts
<1>4. Top.path \in Seq(STRING)
  BY <1>3 DEF Calls
<1>5. Untouched(request, nodes, Id)
  <2>1. AtTop(request, nodes, stack)
    BY DEF PrintingInv
  <2> QED
    BY <1>3, <2>1 DEF AtTop, Top, Id, Depth
<1>6. Id \in Tree(request, request.nodes, Id)
  BY <1>2, <1>3, TreeOf
<1>7. nodes[Id] = request.nodes[Id]
  BY <1>5, <1>6 DEF Untouched
<1> QED
  BY <1>1, <1>2, <1>3, <1>4, <1>5, <1>7

LEMMA DroppedOwesNothing ==
  ASSUME RewritingInv, PrintingInv, Turn, IsDropped
  PROVE  Owed(request, removed, Top.path, Id) = {}
<1>1. /\ IsHeap(request, request.nodes) /\ Top.path \in Seq(STRING)
      /\ Id \in DOMAIN request.nodes /\ Path \in Seq(STRING)
      /\ Path = PathOf(request.nodes[Id], Top.path) /\ nodes[Id] = request.nodes[Id]
  BY TurnInRequest
<1> SUFFICES ASSUME NEW c \in Contents(request, request.nodes)[Id],
                    request.nodes[c.node].kind = "field",
                    ~Covered(removed, Top.path \o c.path)
             PROVE  FALSE
  BY DEF Owed
<1>2. CASE request.nodes[Id].kind = "field" /\ Path \in removed
  <2>1. Covered(removed, Path)
    <3>1. Path = Append(Top.path, request.nodes[Id].name) /\ request.nodes[Id].name \in STRING
      BY <1>1, <1>2, OwnTyped DEF PathOf
    <3> QED
      BY <1>1, <1>2, <3>1, CoveredAppend
  <2>2. CASE c = Itself(Id, request.nodes[Id])
    <3>1. Covered(removed, Top.path \o Itself(Id, request.nodes[Id]).path)
            <=> Covered(removed, PathOf(request.nodes[Id], Top.path))
      BY <1>1, CoveredItself
    <3> QED
      BY <1>1, <2>1, <2>2, <3>1
  <2>3. ASSUME NEW inner \in InnerIds(request, request.nodes, Id),
               NEW d \in Contents(request, request.nodes)[inner],
               c = Inside(request.nodes[Id], d)
        PROVE  FALSE
    <3>1. d.path \in Seq(STRING)
      BY <1>1, InnerTyped, ContentsTyped
    <3>2. Covered(removed, Path \o d.path)
      BY <1>1, <2>1, <3>1, CoveredBelow
    <3>3. Covered(removed, Top.path \o Inside(request.nodes[Id], d).path)
            <=> Covered(removed, PathOf(request.nodes[Id], Top.path) \o d.path)
      BY <1>1, <3>1, CoveredInside
    <3> QED
      BY <1>1, <2>3, <3>2, <3>3
  <2> QED
    BY <1>1, <2>2, <2>3, ContentsOf
<1>3. CASE /\ request.nodes[Id].kind = "spread"
           /\ request.nodes[Id].name \notin DOMAIN request.fragments
  <2>1. Inner(request, request.nodes, Id) = <<>> /\ DOMAIN <<>> = {}
    BY <1>3 DEF Inner
  <2>2. InnerIds(request, request.nodes, Id) = {}
    BY <2>1 DEF InnerIds
  <2>3. c = Itself(Id, request.nodes[Id])
    BY <1>1, <2>2, ContentsOf
  <2>4. c.node = Id
    BY <2>3 DEF Itself
  <2> QED
    BY <1>3, <2>4
<1> QED
  BY <1>1, <1>2, <1>3 DEF IsDropped

LEMMA DroppingPrints ==
  ASSUME RewritingInv, PrintingInv, DropSelection
  PROVE  PrintingInv'
<1>1. <<>> \in Seq(DOMAIN request.nodes) /\ DOMAIN <<>> = {}
  OBVIOUS
<1>2. /\ Turn /\ IsDropped /\ stack' = [stack EXCEPT ![Depth] = Passed(@, <<>>)]
  BY DEF DropSelection
<1>3. Owed(request, removed, Top.path, Id) = {}
  BY <1>2, DroppedOwesNothing
<1> QED
  BY <1>1, <1>2, <1>3, TopWorksOn

LEMMA KeepingPrints ==
  ASSUME RewritingInv, Unshared(request), PrintingInv, KeepField
  PROVE  PrintingInv'
<1>1. /\ Turn /\ IsKept /\ stack' = [stack EXCEPT ![Depth] = Passed(@, <<Id>>)]
  BY DEF KeepField
<1>2. /\ IsHeap(request, nodes) /\ IsHeap(request, request.nodes)
      /\ Id \in DOMAIN request.nodes /\ nodes[Id] = request.nodes[Id]
  BY <1>1, TurnInRequest
<1>3. nodes[Id].kind = "field" /\ nodes[Id].sub = <<>> /\ DOMAIN <<>> = {}
  BY <1>1 DEF IsKept
<1>4. InnerIds(request, nodes, Id) = {} /\ InnerIds(request, request.nodes, Id) = {}
  BY <1>2, <1>3 DEF Inner, InnerIds
<1>5. /\ Itself(Id, nodes[Id]) \in Contents(request, nodes)[Id]
      /\ \A c \in Contents(request, nodes)[Id] : c = Itself(Id, nodes[Id])
  BY <1>2, <1>4, ContentsOf
<1>6. \A c \in Contents(request, request.nodes)[Id] : c = Itself(Id, request.nodes[Id])
  BY <1>2, <1>4, ContentsOf
<1>7. \A c \in Owed(request, removed, Top.path, Id) : c \in Contents(request, nodes)[Id]
  BY <1>2, <1>5, <1>6 DEF Owed
<1>8. NoHole(request, nodes, Id)
  <2>1. ~IsHole(nodes[Id])
    BY <1>2, <1>3 DEF Unshared, IsHole
  <2>2. Itself(Id, nodes[Id]).node = Id
    BY DEF Itself
  <2> QED
    BY <1>5, <2>1, <2>2 DEF NoHole
<1>9. <<Id>> \in Seq(DOMAIN request.nodes)
  BY <1>2, SingletonSeq
<1>10. 1 \in DOMAIN <<Id>> /\ \A j \in DOMAIN <<Id>> : <<Id>>[j] = Id
  OBVIOUS
<1> QED
  BY <1>1, <1>7, <1>8, <1>9, <1>10, TopWorksOn

LEMMA StartingPrints ==
  ASSUME RewritingInv, Unshared(request), PrintingInv, RewriteOperation
  PROVE  PrintingInv'
<1> DEFINE n    == Len(out)
           call == Call(request.operations[n + 1], <<>>)
<1>1. request \in Requests /\ out \in Seq(Seq(DOMAIN request.nodes)) /\ n \in Nat
  BY DEF RewritingInv
<1>2. n + 1 \in DOMAIN request.operations
  BY <1>1, RequestFacts DEF RewriteOperation
<1>3. request.operations[n + 1] \in Seq(DOMAIN request.nodes)
  BY <1>1, <1>2, RequestFacts
<1>4. stack = <<>> /\ stack' = <<call>> /\ UNCHANGED <<request, nodes, removed, out>>
  BY DEF RewriteOperation
<1>5. Pending(request, nodes, stack, n)
  BY DEF PrintingInv
<1>6. \A i \in DOMAIN request.operations[n + 1] :
        Untouched(request, nodes, request.operations[n + 1][i])
  BY <1>2, <1>4, <1>5 DEF Pending
<1>7. SetApart(request, request.operations[n + 1])
  BY <1>1, <1>2, RootsApart DEF SetApart
<1>8. Works(request, removed, nodes, call)
  BY <1>3, <1>6, <1>7, NewCallWorks
<1>9. call.set = request.operations[n + 1] /\ call.at = 1
  BY DEF Call
<1> HIDE DEF call, n
<1>10. DOMAIN stack' = {1} /\ Len(stack') = 1 /\ stack'[1] = call /\ stack' # <<>>
  BY <1>4
<1>11. AtTop(request, nodes, stack')
  BY <1>6, <1>9, <1>10 DEF AtTop
<1>12. Nested(request, nodes, stack')
  BY <1>10 DEF Nested
<1>13. Pending(request, nodes, stack', n)
  BY <1>5, <1>10 DEF Pending
<1> QED
  BY <1>4, <1>8, <1>10, <1>11, <1>12, <1>13 DEF PrintingInv, n

LEMMA CallingPrints ==
  ASSUME RewritingInv, Unshared(request), PrintingInv, CallItself
  PROVE  PrintingInv'
<1> DEFINE call == Call(Inner(request, nodes, Id), Path)
           set  == Inner(request, nodes, Id)
<1>1. Turn /\ ~IsKept /\ stack' = Append(stack, call)
  BY DEF CallItself
<1>2. /\ stack # <<>> /\ Top \in Calls(request) /\ Top.at \in DOMAIN Top.set
      /\ Id \in DOMAIN request.nodes /\ Id = Current(stack, Depth)
  BY <1>1, TurnFacts
<1>3. /\ IsHeap(request, nodes) /\ IsHeap(request, request.nodes) /\ IsDocument(request)
      /\ Untouched(request, nodes, Id) /\ nodes[Id] = request.nodes[Id]
  BY <1>1, TurnInRequest
<1>4. /\ Depth \in Nat /\ Depth >= 1 /\ DOMAIN stack = 1..Depth /\ Len(stack) = Depth
  BY <1>2, StackFacts DEF Depth
<1>5. set \in Seq(DOMAIN request.nodes) /\ set = Inner(request, request.nodes, Id)
  BY <1>2, <1>3, InnerTyped DEF Inner
<1>6. SetApart(request, set)
  BY <1>2, <1>3, <1>5, InnerApart
<1>7. ASSUME NEW i \in DOMAIN set
      PROVE  Untouched(request, nodes, set[i])
  <2>1. set[i] \in InnerIds(request, request.nodes, Id)
    BY <1>5 DEF InnerIds
  <2>2. Tree(request, request.nodes, set[i]) \subseteq Tree(request, request.nodes, Id)
    BY <1>2, <1>3, <2>1, TreeOf
  <2> QED
    BY <1>3, <2>2 DEF Untouched
<1>8. Works(request, removed, nodes, call)
  BY <1>5, <1>6, <1>7, NewCallWorks
<1>9. call.set = set /\ call.at = 1
  BY DEF Call
<1>10. nodes[Id].kind = "field" => set # <<>>
  BY <1>1 DEF IsKept, Inner
<1> HIDE DEF call, set
<1>11. /\ DOMAIN stack' = 1..(Depth + 1) /\ Len(stack') = Depth + 1
       /\ stack'[Depth + 1] = call /\ stack' # <<>>
       /\ \A k \in 1..Depth : stack'[k] = stack[k]
  <2>1. stack \in Seq(Calls(request))
    BY DEF RewritingInv
  <2>2. /\ stack' \in Seq({stack[k] : k \in DOMAIN stack} \cup {call})
        /\ Len(stack') = Depth + 1
        /\ stack'[Depth + 1] = call /\ \A k \in 1..Depth : stack'[k] = stack[k]
    BY <1>1, <1>4, <2>1
  <2> QED
    BY <1>4, <2>2
<1>12. \A k \in 1..Depth : Works(request, removed, nodes, stack[k])
  BY <1>4 DEF PrintingInv
<1>13. \A k \in DOMAIN stack' : Works(request, removed, nodes, stack'[k])
  <2>1. \A k \in 1..(Depth + 1) : k \in 1..Depth \/ k = Depth + 1
    BY <1>4
  <2> QED
    BY <1>8, <1>11, <1>12, <2>1
<1>14. AtTop(request, nodes, stack')
  BY <1>7, <1>9, <1>11 DEF AtTop
<1>15. Nested(request, nodes, stack')
  <2>1. Nested(request, nodes, stack)
    BY DEF PrintingInv
  <2>2. \A k \in 1..Depth : Current(stack', k) = Current(stack, k)
    BY <1>11 DEF Current
  <2>3. ASSUME NEW k \in 1..Depth
        PROVE  /\ nodes[Current(stack', k)] = request.nodes[Current(stack', k)]
               /\ request.nodes[Current(stack', k)].kind = "field"
                    => stack'[k + 1].set # <<>>
               /\ \A m \in 1..k :
                    Tree(request, request.nodes, Current(stack', k))
                      \subseteq Tree(request, request.nodes, Current(stack', m))
    <3>1. CASE k \in 1..(Depth - 1)
      <4>1. /\ nodes[Current(stack, k)] = request.nodes[Current(stack, k)]
            /\ request.nodes[Current(stack, k)].kind = "field" => stack[k + 1].set # <<>>
            /\ \A m \in 1..k :
                 Tree(request, request.nodes, Current(stack, k))
                   \subseteq Tree(request, request.nodes, Current(stack, m))
        BY <1>4, <2>1, <3>1 DEF Nested
      <4>2. k + 1 \in 1..Depth /\ \A m \in 1..k : m \in 1..Depth
        BY <1>4, <3>1
      <4>3. stack'[k + 1] = stack[k + 1]
        BY <1>11, <4>2
      <4> QED
        BY <2>2, <4>1, <4>2, <4>3
    <3>2. CASE k = Depth
      <4>1. \A m \in 1..(Depth - 1) :
              Tree(request, request.nodes, Id)
                \subseteq Tree(request, request.nodes, Current(stack, m))
        <5> SUFFICES ASSUME NEW m \in 1..(Depth - 1)
                     PROVE  Tree(request, request.nodes, Id)
                              \subseteq Tree(request, request.nodes, Current(stack, m))
          OBVIOUS
        <5> DEFINE b == Depth - 1
                   x == Current(stack, b)
        <5>1. b \in 1..(Depth - 1) /\ b \in 1..Depth /\ m \in 1..b /\ b + 1 = Depth
          BY <1>4
        <5> HIDE DEF b
        <5>2. /\ stack[b].at \in DOMAIN stack[b].set /\ stack[Depth].set = Inner(request, nodes, x)
              /\ nodes[x] = request.nodes[x]
              /\ Tree(request, request.nodes, x)
                   \subseteq Tree(request, request.nodes, Current(stack, m))
          BY <1>4, <2>1, <5>1 DEF RewritingInv, Linked, Nested
        <5>3. x \in DOMAIN request.nodes
          BY <1>2, <5>1, <5>2, CurrentTyped
        <5> HIDE DEF x
        <5>4. Id \in InnerIds(request, request.nodes, x)
          <6>1. Top.set = Inner(request, request.nodes, x)
            BY <5>2 DEF Top, Inner
          <6> QED
            BY <1>2, <6>1 DEF InnerIds, Id
        <5>5. Tree(request, request.nodes, Id) \subseteq Tree(request, request.nodes, x)
          BY <1>3, <5>3, <5>4, TreeOf
        <5> QED
          BY <5>2, <5>5
      <4>2. \A m \in 1..Depth : m \in 1..(Depth - 1) \/ m = Depth
        BY <1>4
      <4> QED
        BY <1>2, <1>3, <1>9, <1>10, <1>11, <2>2, <3>2, <4>1, <4>2
    <3> QED
      BY <1>4, <3>1, <3>2
  <2>4. Len(stack') - 1 = Depth
    BY <1>4, <1>11
  <2> QED
    BY <2>3, <2>4 DEF Nested
<1>16. Pending(request, nodes, stack', Len(out))
  <2>1. Pending(request, nodes, stack, Len(out))
    BY DEF PrintingInv
  <2> QED
    BY <1>11, <2>1 DEF Pending
<1>17. UNCHANGED <<request, pc, nodes, removed, out, status>>
  BY <1>1 DEF Turn
<1> QED
  BY <1>13, <1>14, <1>15, <1>16, <1>17 DEF PrintingInv

\* The selection a call returns to: where it is, and where it is not.
LEMMA ReturnPlaces ==
  ASSUME RewritingInv, Unshared(request), PrintingInv, Return
  PROVE  /\ nodes[CallerId] = request.nodes[CallerId]
         /\ Top.set = Inner(request, request.nodes, CallerId)
         /\ request.nodes[CallerId].kind = "field" => Top.set # <<>>
         /\ \A k \in 1..(Depth - 1) : \A i \in DOMAIN stack[k].set :
              i # stack[k].at => CallerId \notin Tree(request, request.nodes, stack[k].set[i])
         /\ \A l \in DOMAIN request.operations : \A i \in DOMAIN request.operations[l] :
              l # Len(out) + 1 =>
                CallerId \notin Tree(request, request.nodes, request.operations[l][i])
<1> DEFINE d  == Depth - 1
           id == CallerId
           n  == Len(out)
<1>1. /\ stack # <<>> /\ Depth \in Nat /\ Depth > 1 /\ DOMAIN stack = 1..Depth
      /\ d \in 1..Depth /\ d \in 1..(Depth - 1) /\ d + 1 = Depth
      /\ id \in DOMAIN request.nodes /\ id = Current(stack, d)
      /\ Top.set = Inner(request, nodes, id) /\ Len(stack) = Depth
  BY ReturnFacts DEF Depth
<1>2. /\ IsDocument(request) /\ request \in Requests
      /\ IsHeap(request, request.nodes) /\ IsHeap(request, nodes)
  BY DocumentIsHeap DEF RewritingInv, IsHeap
<1>3. Nested(request, nodes, stack) /\ Linked(request, nodes, stack, n)
  BY DEF PrintingInv, RewritingInv
<1> HIDE DEF d, id, n
<1>4. /\ nodes[id] = request.nodes[id]
      /\ request.nodes[id].kind = "field" => stack[d + 1].set # <<>>
      /\ \A k \in 1..d :
           Tree(request, request.nodes, id)
             \subseteq Tree(request, request.nodes, Current(stack, k))
  BY <1>1, <1>3 DEF Nested
<1>5. Top.set = Inner(request, request.nodes, id)
  BY <1>1, <1>4 DEF Inner
<1>6. id \in Tree(request, request.nodes, id)
  BY <1>1, <1>2, TreeOf
<1>7. \A k \in 1..d : stack[k].at \in DOMAIN stack[k].set
  BY <1>1, <1>3 DEF Linked, d
<1>8. ASSUME NEW k \in 1..d, NEW i \in DOMAIN stack[k].set, i # stack[k].at
      PROVE  id \notin Tree(request, request.nodes, stack[k].set[i])
  <2>1. SetApart(request, stack[k].set)
    BY <1>1 DEF PrintingInv, Works
  <2>2. Apart(request, stack[k].set[i], Current(stack, k))
    BY <1>7, <1>8, <2>1 DEF SetApart, Current
  <2> QED
    BY <1>4, <1>6, <2>2 DEF Apart
<1>9. ASSUME NEW l \in DOMAIN request.operations, NEW i \in DOMAIN request.operations[l],
             l # n + 1
      PROVE  id \notin Tree(request, request.nodes, request.operations[l][i])
  <2>1. n + 1 \in DOMAIN request.operations /\ stack[1].set = request.operations[n + 1]
    BY <1>1, <1>3 DEF Linked
  <2>2. 1 \in 1..d
    BY <1>1
  <2>3. /\ stack[1].at \in DOMAIN request.operations[n + 1]
        /\ Current(stack, 1) = request.operations[n + 1][stack[1].at]
    BY <1>7, <2>1, <2>2 DEF Current
  <2>4. Apart(request, request.operations[l][i], Current(stack, 1))
    BY <1>2, <1>9, <2>1, <2>3, RootsApart
  <2> QED
    BY <1>4, <1>6, <2>2, <2>4 DEF Apart
<1> QED
  BY <1>1, <1>4, <1>5, <1>8, <1>9 DEF Top, d, id, n

\* What is kept does not have a node that what it stands for has not.
LEMMA KeptElsewhere ==
  ASSUME NEW r, NEW heap, IsHeap(r, heap),
         \A x \in DOMAIN r.nodes : Contents(r, heap)[x] \subseteq Contents(r, r.nodes)[x],
         NEW paths, NEW path, NEW set \in Seq(DOMAIN r.nodes), NEW n, NEW kept,
         Keeps(r, paths, heap, path, set, n, kept),
         NEW id, \A i \in DOMAIN set : i < n => id \notin Tree(r, r.nodes, set[i])
  PROVE  \A j \in DOMAIN kept : id \notin Tree(r, heap, kept[j])
<1> SUFFICES ASSUME NEW j \in DOMAIN kept
             PROVE  id \notin Tree(r, heap, kept[j])
  OBVIOUS
<1>1. PICK i \in DOMAIN set : i < n /\ Stands(r, kept[j], set[i])
  BY DEF Keeps
<1>2. set[i] \in DOMAIN r.nodes
  OBVIOUS
<1>3. Contents(r, heap)[kept[j]] \subseteq Contents(r, r.nodes)[set[i]]
  BY <1>1, <1>2 DEF Stands
<1>4. Tree(r, heap, kept[j]) \subseteq Tree(r, r.nodes, set[i])
  BY <1>3 DEF Tree
<1> QED
  BY <1>1, <1>4

LEMMA KeptBelow ==
  ASSUME RewritingInv, Return
  PROVE  \A j \in DOMAIN Top.kept : CallerId \notin Tree(request, nodes, Top.kept[j])
<1> SUFFICES ASSUME NEW j \in DOMAIN Top.kept, CallerId \in Tree(request, nodes, Top.kept[j])
             PROVE  FALSE
  OBVIOUS
<1>1. /\ CallerId \in DOMAIN request.nodes /\ Top.set = Inner(request, nodes, CallerId)
      /\ Fits(request, removed, nodes, Top)
  BY ReturnFacts
<1>2. IsHeap(request, nodes)
  BY DEF RewritingInv
<1>3. PICK i \in DOMAIN Top.set : Stands(request, Top.kept[j], Top.set[i])
  BY <1>1 DEF Fits, Keeps
<1>4. Top.set[i] \in InnerIds(request, nodes, CallerId)
  BY <1>1 DEF InnerIds
<1>5. /\ Rank(request, Top.set[i]) < Rank(request, CallerId)
      /\ Rank(request, Top.kept[j]) <= Rank(request, Top.set[i])
      /\ Top.kept[j] \in DOMAIN request.nodes /\ Top.set[i] \in DOMAIN request.nodes
  BY <1>1, <1>2, <1>3, <1>4 DEF IsHeap, Stands
<1>6. Rank(request, CallerId) <= Rank(request, Top.kept[j])
  BY <1>2, <1>5, TreeRanks
<1>7. /\ Rank(request, CallerId) \in Nat /\ Rank(request, Top.kept[j]) \in Nat
      /\ Rank(request, Top.set[i]) \in Nat
  BY <1>1, <1>2, <1>5, Ranks DEF IsHeap
<1> QED
  BY <1>5, <1>6, <1>7

\* What the selection owes is in what was kept of its own selections.
LEMMA OwedInside ==
  ASSUME RewritingInv, Unshared(request), PrintingInv, Return,
         NEW c \in Owed(request, removed, Caller.path, CallerId)
  PROVE  \E j \in DOMAIN Top.kept : \E e \in Contents(request, nodes)[Top.kept[j]] :
           c = Inside(nodes[CallerId], e)
<1>1. /\ CallerId \in DOMAIN request.nodes /\ Top.at = Len(Top.set) + 1
      /\ Top.path = PathOf(request.nodes[CallerId], Caller.path)
      /\ Depth \in 1..Depth /\ DOMAIN stack = 1..Depth
      /\ Caller \in Calls(request) /\ Top \in Calls(request)
  BY ReturnFacts
<1>2. /\ nodes[CallerId] = request.nodes[CallerId]
      /\ Top.set = Inner(request, request.nodes, CallerId)
      /\ request.nodes[CallerId].kind = "field" => Top.set # <<>>
  BY ReturnPlaces
<1>3. /\ IsHeap(request, request.nodes) /\ Caller.path \in Seq(STRING)
      /\ Top.set \in Seq(DOMAIN request.nodes)
  BY <1>1, DocumentIsHeap DEF RewritingInv, IsHeap, Calls
<1>4. /\ c \in Contents(request, request.nodes)[CallerId]
      /\ request.nodes[c.node].kind = "field" /\ request.nodes[c.node].name \notin ObjectFields
      /\ ~Covered(removed, Caller.path \o c.path)
  BY DEF Owed
<1>5. c # Itself(CallerId, request.nodes[CallerId])
  <2> SUFFICES ASSUME c.node = CallerId
               PROVE  FALSE
    BY DEF Itself
  <2>1. request.nodes[CallerId].sub = <<>>
    BY <1>1, <1>4 DEF Unshared
  <2>2. Top.set = request.nodes[CallerId].sub
    BY <1>2, <1>4 DEF Inner
  <2> QED
    BY <1>2, <1>4, <2>1, <2>2
<1>6. PICK inner \in InnerIds(request, request.nodes, CallerId) :
        \E e \in Contents(request, request.nodes)[inner] :
          c = Inside(request.nodes[CallerId], e)
  BY <1>1, <1>3, <1>4, <1>5, ContentsOf
<1>7. PICK e \in Contents(request, request.nodes)[inner] :
        c = Inside(request.nodes[CallerId], e)
  BY <1>6
<1>8. PICK i \in DOMAIN Top.set : inner = Top.set[i]
  BY <1>2 DEF InnerIds
<1>9. e.path \in Seq(STRING) /\ c.node = e.node
  <2>1. inner \in DOMAIN request.nodes
    BY <1>3, <1>8
  <2> QED
    BY <1>3, <1>7, <2>1, ContentsTyped DEF Inside
<1>10. ~Covered(removed, Top.path \o e.path)
  <2>1. Covered(removed, Caller.path \o Inside(request.nodes[CallerId], e).path)
          <=> Covered(removed, PathOf(request.nodes[CallerId], Caller.path) \o e.path)
    BY <1>1, <1>3, <1>9, CoveredInside
  <2> QED
    BY <1>1, <1>4, <1>7, <2>1
<1>11. e \in Owed(request, removed, Top.path, Top.set[i])
  BY <1>4, <1>8, <1>9, <1>10 DEF Owed
<1>12. i < Top.at
  BY <1>1, <1>3
<1>13. Does(request, removed, nodes, Top.path, Top.set, Top.at, Top.kept)
  BY <1>1 DEF PrintingInv, Works, Top
<1>14. \E j \in DOMAIN Top.kept : e \in Contents(request, nodes)[Top.kept[j]]
  BY <1>11, <1>12, <1>13 DEF Does
<1> QED
  BY <1>2, <1>7, <1>14

\* The call below goes on with `more`, which has all the selection owes; the
\* nodes may be other ones, with which the calls work on.
LEMMA CallerWorksOn ==
  ASSUME RewritingInv, PrintingInv, Return,
         \A x \in DOMAIN request.nodes :
           Contents(request, nodes')[x] \subseteq Contents(request, nodes)[x],
         \A k \in 1..(Depth - 1) : Works(request, removed, nodes', stack[k]),
         \A k \in 1..(Depth - 2) : nodes'[Current(stack, k)] = nodes[Current(stack, k)],
         Pending(request, nodes', stack, Len(out)),
         \A i \in DOMAIN out :
           Does(request, removed, nodes', <<>>, request.operations[i],
                Len(request.operations[i]) + 1, out[i]),
         NEW more, more = Left(CallerId, Top.set, Top.kept),
         more \in Seq(DOMAIN request.nodes),
         \A c \in Owed(request, removed, Caller.path, CallerId) :
           \E j \in DOMAIN more : c \in Contents(request, nodes')[more[j]],
         \A j \in DOMAIN more : NoHole(request, nodes', more[j])
  PROVE  PrintingInv'
<1> DEFINE d   == Depth - 1
           new == Passed(Caller, more)
<1>1. /\ Depth \in Nat /\ Depth > 1 /\ DOMAIN stack = 1..Depth /\ Len(stack) = Depth
      /\ d \in 1..Depth /\ d \in 1..(Depth - 1) /\ d \in Nat /\ d >= 1 /\ d + 1 = Depth
      /\ Depth - 2 = d - 1 /\ Depth - 1 = d
      /\ Caller \in Calls(request) /\ Caller.at \in DOMAIN Caller.set /\ Caller = stack[d]
  BY ReturnFacts DEF Depth, Caller
<1>2. UNCHANGED <<request, removed, out>>
  BY DEF Return
<1>3. Works(request, removed, nodes', Caller)
  BY <1>1
<1>4. Works(request, removed, nodes', new)
  BY <1>1, <1>3, PassedWorks DEF CallerId
<1>5. new.set = Caller.set /\ new.path = Caller.path /\ new.at = Caller.at + 1
  BY <1>1 DEF Passed, Calls
<1>6. stack' = [i \in 1..d |-> IF i = d THEN new ELSE stack[i]]
  BY DEF Return, Caller, CallerId
<1> HIDE DEF d, new
<1>7. /\ DOMAIN stack' = 1..d /\ Len(stack') = d /\ stack'[d] = new /\ stack' # <<>>
      /\ \A k \in 1..d : k # d => stack'[k] = stack[k]
  <2>1. /\ DOMAIN stack' = 1..d /\ stack'[d] = new
        /\ \A k \in 1..d : k # d => stack'[k] = stack[k]
    BY <1>1, <1>6
  <2>2. Len(stack') = d
    BY <1>1, <1>6
  <2> QED
    BY <1>1, <2>1, <2>2
<1>8. \A k \in DOMAIN stack' : Works(request, removed, nodes', stack'[k])
  BY <1>1, <1>4, <1>7
<1>9. AtTop(request, nodes', stack')
  <2> SUFFICES ASSUME new.at \in DOMAIN new.set
               PROVE  Untouched(request, nodes', new.set[new.at])
    BY <1>7 DEF AtTop
  <2>1. Caller.at + 1 \in DOMAIN Caller.set /\ Caller.at + 1 > Caller.at
    BY <1>1, <1>5 DEF Calls
  <2> QED
    BY <1>3, <1>5, <2>1 DEF Works
<1>10. Nested(request, nodes', stack')
  <2>1. Nested(request, nodes, stack)
    BY DEF PrintingInv
  <2>2. \A k \in 1..(d - 1) : Current(stack', k) = Current(stack, k)
    BY <1>1, <1>7 DEF Current
  <2>3. \A k \in 1..d : stack'[k].set = stack[k].set
    BY <1>1, <1>5, <1>7
  <2>4. ASSUME NEW k \in 1..(d - 1)
        PROVE  /\ nodes'[Current(stack', k)] = request.nodes[Current(stack', k)]
               /\ request.nodes[Current(stack', k)].kind = "field"
                    => stack'[k + 1].set # <<>>
               /\ \A m \in 1..k :
                    Tree(request, request.nodes, Current(stack', k))
                      \subseteq Tree(request, request.nodes, Current(stack', m))
    <3>1. /\ nodes[Current(stack, k)] = request.nodes[Current(stack, k)]
          /\ request.nodes[Current(stack, k)].kind = "field" => stack[k + 1].set # <<>>
          /\ \A m \in 1..k :
               Tree(request, request.nodes, Current(stack, k))
                 \subseteq Tree(request, request.nodes, Current(stack, m))
      BY <1>1, <2>1 DEF Nested
    <3>2. k + 1 \in 1..d /\ \A m \in 1..k : m \in 1..(d - 1)
      BY <1>1
    <3>3. nodes'[Current(stack, k)] = nodes[Current(stack, k)]
      BY <1>1
    <3> QED
      BY <2>2, <2>3, <3>1, <3>2, <3>3
  <2> QED
    BY <1>7, <2>4 DEF Nested
<1>11. Pending(request, nodes', stack', Len(out))
  BY <1>7 DEF Pending
<1>12. \A x \in DOMAIN request.nodes :
         Contents(request, nodes')[x] \subseteq Contents(request, request.nodes)[x]
  BY DEF PrintingInv
<1> QED
  BY <1>2, <1>8, <1>9, <1>10, <1>11, <1>12 DEF PrintingInv

LEMMA ReturningSpreadPrints ==
  ASSUME RewritingInv, Unshared(request), PrintingInv, Return,
         nodes[CallerId].kind = "spread"
  PROVE  PrintingInv'
<1>1. /\ Top \in Calls(request) /\ Depth \in 1..Depth /\ DOMAIN stack = 1..Depth
      /\ Depth \in Nat /\ Depth > 1
  BY ReturnFacts
<1>2. nodes' = nodes
  BY DEF Return, CallerId, Caller
<1>3. Top.kept \in Seq(DOMAIN request.nodes)
  BY <1>1 DEF Calls
<1>4. Left(CallerId, Top.set, Top.kept) = Top.kept
  BY DEF Left
<1>5. ASSUME NEW c \in Owed(request, removed, Caller.path, CallerId)
      PROVE  \E j \in DOMAIN Top.kept : c \in Contents(request, nodes)[Top.kept[j]]
  <2>1. PICK j \in DOMAIN Top.kept : \E e \in Contents(request, nodes)[Top.kept[j]] :
          c = Inside(nodes[CallerId], e)
    BY OwedInside
  <2>2. PICK e \in Contents(request, nodes)[Top.kept[j]] : c = Inside(nodes[CallerId], e)
    BY <2>1
  <2>3. e = [node |-> e.node, path |-> e.path] /\ e.path \in Seq(STRING)
    <3>1. Top.kept[j] \in DOMAIN request.nodes /\ IsHeap(request, nodes)
      BY <1>3 DEF RewritingInv
    <3> QED
      BY <3>1, ContentsTyped
  <2>4. Own(nodes[CallerId]) = <<>> /\ <<>> \o e.path = e.path
    BY <2>3 DEF Own
  <2>5. c = e
    BY <2>2, <2>3, <2>4 DEF Inside
  <2> QED
    BY <2>5
<1>6. \A j \in DOMAIN Top.kept : NoHole(request, nodes, Top.kept[j])
  BY <1>1 DEF PrintingInv, Works, Does, Top
<1>7. \A k \in 1..(Depth - 1) : k \in DOMAIN stack
  BY <1>1
<1>8. /\ \A k \in DOMAIN stack : Works(request, removed, nodes, stack[k])
      /\ Pending(request, nodes, stack, Len(out))
      /\ \A i \in DOMAIN out :
           Does(request, removed, nodes, <<>>, request.operations[i],
                Len(request.operations[i]) + 1, out[i])
  BY DEF PrintingInv
<1> QED
  BY <1>2, <1>3, <1>4, <1>5, <1>6, <1>7, <1>8, CallerWorksOn

\* The other calls and operations do not have the node that is written.
LEMMA WrittenWorks ==
  ASSUME RewritingInv, RewritingInv', Unshared(request), PrintingInv, Return,
         request.nodes[CallerId].kind # "spread",
         nodes' = Written(nodes, CallerId, Top.kept)
  PROVE  /\ \A k \in 1..(Depth - 1) : Works(request, removed, nodes', stack[k])
         /\ Pending(request, nodes', stack, Len(out))
         /\ \A i \in DOMAIN out :
              Does(request, removed, nodes', <<>>, request.operations[i],
                   Len(request.operations[i]) + 1, out[i])
<1>1. /\ CallerId \in DOMAIN request.nodes /\ Top \in Calls(request)
      /\ Depth \in Nat /\ DOMAIN stack = 1..Depth /\ stack # <<>>
  BY ReturnFacts
<1>2. /\ IsHeap(request, nodes) /\ IsHeap(request, nodes') /\ request \in Requests
      /\ Top.kept \in Seq(DOMAIN request.nodes)
  BY <1>1 DEF RewritingInv, Return, Calls
<1>3. /\ \A k \in 1..(Depth - 1) : \A i \in DOMAIN stack[k].set :
           i # stack[k].at => CallerId \notin Tree(request, request.nodes, stack[k].set[i])
      /\ \A l \in DOMAIN request.operations : \A i \in DOMAIN request.operations[l] :
           l # Len(out) + 1 =>
             CallerId \notin Tree(request, request.nodes, request.operations[l][i])
  BY ReturnPlaces
<1>4. \A x \in DOMAIN request.nodes :
        Contents(request, nodes)[x] \subseteq Contents(request, request.nodes)[x]
  BY DEF PrintingInv
<1>5. ASSUME NEW k \in 1..(Depth - 1)
      PROVE  Works(request, removed, nodes', stack[k])
  <2>1. k \in 1..Depth
    BY <1>1
  <2>2. stack[k] \in Calls(request) /\ Fits(request, removed, nodes, stack[k])
    BY <1>1, <2>1, StackFacts
  <2>3. Works(request, removed, nodes, stack[k])
    BY <1>1, <2>1 DEF PrintingInv
  <2> DEFINE call == stack[k]
  <2>4. \A i \in DOMAIN call.set :
          i # call.at => CallerId \notin Tree(request, request.nodes, call.set[i])
    BY <1>3
  <2> HIDE DEF call
  <2>5. /\ call.set \in Seq(DOMAIN request.nodes) /\ call.kept \in Seq(DOMAIN request.nodes)
        /\ call.at \in Nat
        /\ Keeps(request, removed, nodes, call.path, call.set, call.at, call.kept)
        /\ Does(request, removed, nodes, call.path, call.set, call.at, call.kept)
        /\ SetApart(request, call.set)
        /\ \A i \in DOMAIN call.set : i > call.at => Untouched(request, nodes, call.set[i])
    BY <2>2, <2>3 DEF call, Calls, Fits, Works
  <2>6. /\ \A i \in DOMAIN call.set : i \in Nat /\ call.set[i] \in DOMAIN request.nodes
        /\ \A i \in DOMAIN call.set : i < call.at => i # call.at
        /\ \A i \in DOMAIN call.set : i > call.at => i # call.at
    BY <2>5
  <2>7. \A j \in DOMAIN call.kept : CallerId \notin Tree(request, nodes, call.kept[j])
    BY <1>2, <1>4, <2>4, <2>5, <2>6, KeptElsewhere
  <2>8. Does(request, removed, nodes', call.path, call.set, call.at, call.kept)
    BY ONLY <1>1, <1>2, <2>5, <2>7, DoesElsewhere,
       request.nodes[CallerId].kind # "spread", nodes' = Written(nodes, CallerId, Top.kept)
  <2>9. ASSUME NEW i \in DOMAIN call.set, i > call.at
        PROVE  Untouched(request, nodes', call.set[i])
    BY <1>1, <1>2, <2>4, <2>5, <2>6, <2>9, UntouchedElsewhere
  <2>10. Works(request, removed, nodes', call)
    BY <2>5, <2>8, <2>9 DEF Works
  <2> QED
    BY <2>10 DEF call
<1>6. Pending(request, nodes', stack, Len(out))
  <2> SUFFICES ASSUME NEW l \in DOMAIN request.operations,
                      l > Len(out) + 1 \/ (stack = <<>> /\ l = Len(out) + 1),
                      NEW i \in DOMAIN request.operations[l]
               PROVE  Untouched(request, nodes', request.operations[l][i])
    BY DEF Pending
  <2>1. Untouched(request, nodes, request.operations[l][i])
    BY DEF PrintingInv, Pending
  <2>2. l # Len(out) + 1
    <3>1. out \in Seq(Seq(DOMAIN request.nodes))
      BY DEF RewritingInv
    <3>2. Len(out) + 1 \in Nat
      BY <3>1
    <3> QED
      BY <1>1, <3>2
  <2>3. request.operations[l][i] \in DOMAIN request.nodes
    <3>1. request.operations[l] \in Seq(DOMAIN request.nodes)
      BY <1>2, RequestFacts
    <3> QED
      BY <3>1
  <2>4. CallerId \notin Tree(request, request.nodes, request.operations[l][i])
    BY <1>3, <2>2
  <2> QED
    BY <1>1, <1>2, <2>1, <2>3, <2>4, UntouchedElsewhere
<1>7. ASSUME NEW n \in DOMAIN out
      PROVE  Does(request, removed, nodes', <<>>, request.operations[n],
                  Len(request.operations[n]) + 1, out[n])
  <2> DEFINE set  == request.operations[n]
             kept == out[n]
             path == <<>>
  <2>1. /\ Keeps(request, removed, nodes, path, set, Len(set) + 1, kept)
        /\ Does(request, removed, nodes, path, set, Len(set) + 1, kept)
        /\ kept \in Seq(DOMAIN request.nodes)
    BY DEF RewritingInv, PrintingInv
  <2>2. n \in DOMAIN request.operations /\ n # Len(out) + 1
    <3>1. /\ out \in Seq(Seq(DOMAIN request.nodes))
          /\ Len(out) <= Len(request.operations)
          /\ DOMAIN request.operations = 1..Len(request.operations)
          /\ Len(request.operations) \in Nat
      BY <1>2, RequestFacts DEF RewritingInv
    <3> QED
      BY <3>1
  <2>3. /\ set \in Seq(DOMAIN request.nodes)
        /\ \A i \in DOMAIN set : CallerId \notin Tree(request, request.nodes, set[i])
    BY <1>2, <1>3, <2>2, RequestFacts
  <2> HIDE DEF set, kept, path
  <2>4. \A j \in DOMAIN kept : CallerId \notin Tree(request, nodes, kept[j])
    BY <1>2, <1>4, <2>1, <2>3, KeptElsewhere
  <2>5. Does(request, removed, nodes', path, set, Len(set) + 1, kept)
    BY ONLY <1>1, <1>2, <2>1, <2>4, DoesElsewhere,
       request.nodes[CallerId].kind # "spread", nodes' = Written(nodes, CallerId, Top.kept)
  <2> QED
    BY <2>5 DEF set, kept, path
<1> QED
  BY <1>5, <1>6, <1>7

LEMMA ReturningNodePrints ==
  ASSUME RewritingInv, RewritingInv', Unshared(request), PrintingInv, Return,
         nodes[CallerId].kind # "spread"
  PROVE  PrintingInv'
<1> DEFINE id   == CallerId
           kept == Top.kept
<1>1. /\ id \in DOMAIN request.nodes /\ Top \in Calls(request)
      /\ Depth \in Nat /\ Depth > 1 /\ DOMAIN stack = 1..Depth /\ stack # <<>>
  BY ReturnFacts
<1>2. /\ IsHeap(request, nodes) /\ IsHeap(request, nodes')
      /\ kept \in Seq(DOMAIN request.nodes)
  BY <1>1 DEF RewritingInv, Return, Calls
<1>3. /\ nodes' = Written(nodes, id, kept)
      /\ \A x \in DOMAIN request.nodes :
           Contents(request, nodes')[x] \subseteq Contents(request, nodes)[x]
  BY ReturningNode
<1>4. request.nodes[id].kind # "spread"
  BY <1>1, <1>2, OwnTyped
<1>5. /\ \A k \in 1..(Depth - 1) : Works(request, removed, nodes', stack[k])
      /\ Pending(request, nodes', stack, Len(out))
      /\ \A i \in DOMAIN out :
           Does(request, removed, nodes', <<>>, request.operations[i],
                Len(request.operations[i]) + 1, out[i])
  BY <1>3, <1>4, WrittenWorks
<1>6. /\ \A x \in DOMAIN request.nodes \ {id} : nodes'[x] = nodes[x]
      /\ Own(nodes'[id]) = Own(nodes[id])
      /\ nodes'[id].sub = kept /\ Inner(request, nodes', id) = kept
  BY <1>1, <1>2, <1>3, <1>4, WrittenNodes
<1>7. ASSUME NEW k \in 1..(Depth - 2)
      PROVE  nodes'[Current(stack, k)] = nodes[Current(stack, k)]
  <2> DEFINE d == Depth - 1
  <2>1. d \in 1..(Depth - 1) /\ k \in 1..(d - 1) /\ k \in 1..(Depth - 1) /\ k \in 1..Depth
    BY <1>1
  <2>2. Linked(request, nodes, stack, Len(out)) /\ Len(stack) = Depth
    BY DEF RewritingInv, Depth
  <2>3. id = Current(stack, d)
    BY ReturnFacts
  <2> HIDE DEF d, id
  <2>4. stack[k].at \in DOMAIN stack[k].set
        /\ Rank(request, id) < Rank(request, Current(stack, k))
    BY <2>1, <2>2, <2>3 DEF Linked
  <2>5. Current(stack, k) \in DOMAIN request.nodes
    BY <1>1, <2>1, <2>4, CurrentTyped
  <2>6. Rank(request, id) \in Nat
    BY <1>1, <1>2, Ranks DEF IsHeap
  <2> QED
    BY <1>6, <2>4, <2>5, <2>6
<1>8. /\ \A j \in DOMAIN kept : id \notin Tree(request, nodes, kept[j])
      /\ \A j \in DOMAIN kept : kept[j] \in DOMAIN request.nodes
  BY <1>2, KeptBelow
<1>9. \A j \in DOMAIN kept :
        /\ Contents(request, nodes')[kept[j]] = Contents(request, nodes)[kept[j]]
        /\ kept[j] \in InnerIds(request, nodes', id)
  <2>1. \A j \in DOMAIN kept :
          Contents(request, nodes')[kept[j]] = Contents(request, nodes)[kept[j]]
    BY <1>1, <1>2, <1>3, <1>4, <1>8, WrittenElsewhere
  <2> QED
    BY <1>6, <2>1 DEF InnerIds
<1>10. ASSUME NEW c \in Owed(request, removed, Caller.path, id)
       PROVE  kept # <<>> /\ c \in Contents(request, nodes')[id]
  <2>1. PICK j \in DOMAIN kept : \E e \in Contents(request, nodes)[kept[j]] :
          c = Inside(nodes[id], e)
    BY OwedInside
  <2>2. PICK e \in Contents(request, nodes)[kept[j]] : c = Inside(nodes[id], e)
    BY <2>1
  <2>3. Inside(nodes'[id], e) \in Contents(request, nodes')[id]
    BY <1>1, <1>2, <1>9, ContentsOf
  <2>4. Inside(nodes'[id], e) = c
    BY <1>6, <2>2 DEF Inside
  <2>5. kept # <<>>
    BY <2>1
  <2> QED
    BY <2>3, <2>4, <2>5
<1>11. ASSUME kept # <<>>
       PROVE  NoHole(request, nodes', id)
  <2> SUFFICES ASSUME NEW c \in Contents(request, nodes')[id]
               PROVE  ~IsHole(nodes'[c.node])
    BY DEF NoHole
  <2>1. CASE c = Itself(id, nodes'[id])
    BY <1>6, <1>11, <2>1 DEF Itself, IsHole
  <2>2. ASSUME NEW inner \in InnerIds(request, nodes', id),
               NEW e \in Contents(request, nodes')[inner], c = Inside(nodes'[id], e)
        PROVE  ~IsHole(nodes'[c.node])
    <3>1. PICK j \in DOMAIN kept : inner = kept[j]
      BY <1>6 DEF InnerIds
    <3>2. c.node = e.node
      BY <2>2 DEF Inside
    <3>3. e \in Contents(request, nodes)[kept[j]]
      BY <1>9, <3>1
    <3>4. NoHole(request, nodes, kept[j])
      <4>1. Works(request, removed, nodes, Top)
        BY <1>1 DEF PrintingInv, Top
      <4> QED
        BY <4>1 DEF Works, Does
    <3>5. ~IsHole(nodes[e.node])
      BY <3>3, <3>4 DEF NoHole
    <3>6. e.node # id /\ e.node \in DOMAIN request.nodes
      <4>1. e.node \in Tree(request, nodes, kept[j])
        BY <3>3 DEF Tree
      <4>2. e.node \in DOMAIN request.nodes
        BY <1>2, <1>8, <3>3, ContentsTyped
      <4> QED
        BY <1>8, <4>1, <4>2
    <3> QED
      BY <1>6, <3>2, <3>5, <3>6
  <2> QED
    BY <1>1, <1>2, <2>1, <2>2, ContentsOf
<1> DEFINE more == Left(id, Top.set, kept)
<1>12. more = IF kept = <<>> THEN <<>> ELSE <<id>>
  BY DEF Left
<1>13. /\ more \in Seq(DOMAIN request.nodes)
       /\ \A j \in DOMAIN more : more[j] = id /\ kept # <<>>
       /\ kept # <<>> => \E j \in DOMAIN more : more[j] = id
  <2>1. CASE kept = <<>>
    <3>1. <<>> \in Seq(DOMAIN request.nodes) /\ DOMAIN <<>> = {}
      OBVIOUS
    <3> QED
      BY <1>12, <2>1, <3>1
  <2>2. CASE kept # <<>>
    <3>1. <<id>> \in Seq(DOMAIN request.nodes)
      BY <1>1, SingletonSeq
    <3>2. 1 \in DOMAIN <<id>> /\ \A j \in DOMAIN <<id>> : <<id>>[j] = id
      OBVIOUS
    <3> QED
      BY <1>12, <2>2, <3>1, <3>2
  <2> QED
    BY <2>1, <2>2
<1> HIDE DEF more
<1>14. /\ \A c \in Owed(request, removed, Caller.path, CallerId) :
            \E j \in DOMAIN more : c \in Contents(request, nodes')[more[j]]
       /\ \A j \in DOMAIN more : NoHole(request, nodes', more[j])
  BY <1>10, <1>11, <1>13
<1> QED
  BY <1>3, <1>5, <1>7, <1>13, <1>14, CallerWorksOn DEF more

LEMMA FinishingPrints ==
  ASSUME RewritingInv, Unshared(request), PrintingInv, FinishOperation
  PROVE  PrintingInv'
<1> DEFINE n == Len(out)
<1>1. /\ n \in Nat /\ n + 1 \in DOMAIN request.operations /\ DOMAIN stack = {1}
      /\ Top = stack[1] /\ Top.set = request.operations[n + 1] /\ Top.path = <<>>
      /\ Top.at = Len(Top.set) + 1
  BY FinishFacts
<1>2. /\ out' = Append(out, Top.kept) /\ stack' = <<>>
      /\ UNCHANGED <<request, pc, nodes, removed, status>>
  BY DEF FinishOperation
<1>3. out \in Seq(Seq(DOMAIN request.nodes)) /\ Top.kept \in Seq(DOMAIN request.nodes)
  BY FinishFacts DEF RewritingInv
<1>4. /\ DOMAIN out' = 1..(n + 1) /\ Len(out') = n + 1 /\ out'[n + 1] = Top.kept
      /\ \A i \in 1..n : out'[i] = out[i] /\ i \in DOMAIN out
  <2> DEFINE S == Seq(DOMAIN request.nodes)
  <2>1. Top.kept \in S /\ out \in Seq(S) /\ Len(out) = n
    BY <1>3
  <2> HIDE DEF S, n
  <2>2. /\ Append(out, Top.kept) \in Seq(S) /\ Len(Append(out, Top.kept)) = n + 1
        /\ Append(out, Top.kept)[n + 1] = Top.kept
        /\ \A i \in 1..n : Append(out, Top.kept)[i] = out[i]
    BY <2>1
  <2>3. DOMAIN out = 1..n /\ DOMAIN Append(out, Top.kept) = 1..(n + 1)
    BY <2>1, <2>2
  <2> QED
    BY <1>2, <2>2, <2>3
<1>5. Does(request, removed, nodes, <<>>, request.operations[n + 1],
           Len(request.operations[n + 1]) + 1, Top.kept)
  BY <1>1 DEF PrintingInv, Works
<1>6. \A i \in DOMAIN out :
        Does(request, removed, nodes, <<>>, request.operations[i],
             Len(request.operations[i]) + 1, out[i])
  BY DEF PrintingInv
<1>7. Pending(request, nodes, stack, n)
  BY DEF PrintingInv
<1> HIDE DEF n
<1>8. \A i \in DOMAIN out' :
        Does(request, removed, nodes, <<>>, request.operations[i],
             Len(request.operations[i]) + 1, out'[i])
  <2>1. \A i \in 1..(n + 1) : i \in 1..n \/ i = n + 1
    BY <1>1
  <2> QED
    BY <1>4, <1>5, <1>6, <2>1
<1>9. DOMAIN stack' = {} /\ Len(stack') = 0
  BY <1>2
<1>10. AtTop(request, nodes, stack') /\ Nested(request, nodes, stack')
  BY <1>2, <1>9 DEF AtTop, Nested
<1>11. Pending(request, nodes, stack', n + 1)
  <2> SUFFICES ASSUME NEW l \in DOMAIN request.operations, l > (n + 1) + 1 \/ l = (n + 1) + 1,
                      NEW i \in DOMAIN request.operations[l]
               PROVE  Untouched(request, nodes, request.operations[l][i])
    BY DEF Pending
  <2>1. l > n + 1
    <3>1. l \in Nat
      <4>1. request \in Requests
        BY DEF RewritingInv
      <4> QED
        BY <4>1, RequestFacts
    <3> QED
      BY <1>1, <3>1
  <2> QED
    BY <1>7, <2>1 DEF Pending
<1> QED
  BY <1>2, <1>4, <1>8, <1>9, <1>10, <1>11 DEF PrintingInv

LEMMA PrintingStep ==
  RewritingInv /\ RewritingInv' /\ Unshared(request) /\ PrintingInv /\ [Next]_vars
    => PrintingInv'
<1> SUFFICES ASSUME RewritingInv, RewritingInv', Unshared(request), PrintingInv, [Next]_vars
             PROVE  PrintingInv'
  OBVIOUS
<1>1. CASE UNCHANGED vars
  BY <1>1, PrintingRests DEF vars
<1>2. CASE Refuse
  BY <1>2, PrintingRests DEF Refuse, Fail
<1>3. CASE BuildRemovedSet
  <2>1. stack = <<>> /\ out = <<>> /\ UNCHANGED <<request, nodes, stack, out>>
    BY <1>3 DEF BuildRemovedSet, RewritingInv
  <2> QED
    BY <2>1, PrintingRests
<1>4. CASE Return
  BY <1>4, ReturningSpreadPrints, ReturningNodePrints
<1>5. CASE Finish
  BY <1>5, PrintingRests DEF Finish
<1>6. CASE Done
  BY <1>1, <1>6 DEF Done
<1> QED
  BY <1>1, <1>2, <1>3, <1>4, <1>5, <1>6, StartingPrints, DroppingPrints, KeepingPrints,
     CallingPrints, FinishingPrints DEF Next

UnsharedInv == RewritingInv /\ (Unshared(request) => PrintingInv)

\* Both parts of the invariant, of every document that shares nothing.
THEOREM PrintingInvariant == Spec => []UnsharedInv
<1>1. Init => UnsharedInv
  BY RewritingStarts, PrintingStarts DEF UnsharedInv
<1>2. UnsharedInv /\ [Next]_vars => UnsharedInv'
  <2> SUFFICES ASSUME UnsharedInv, [Next]_vars
               PROVE  UnsharedInv'
    OBVIOUS
  <2>1. RewritingInv /\ RewritingInv'
    BY RewritingStep DEF UnsharedInv
  <2>2. request' = request
    BY DEF Next, vars, Refuse, Fail, BuildRemovedSet, RewriteOperation, DropSelection, Turn,
       KeepField, CallItself, Return, FinishOperation, Finish, Done
  <2>3. Unshared(request') => Unshared(request)
    BY <2>2
  <2>4. Unshared(request) => PrintingInv'
    BY <2>1, PrintingStep DEF UnsharedInv
  <2> QED
    BY <2>1, <2>2, <2>3, <2>4 DEF UnsharedInv
<1> QED
  BY <1>1, <1>2, PTL DEF Spec

\* What the rewritten operation i comes to, with the paths of the query.
LEMMA PrintedContents ==
  ASSUME RewritingInv, PrintingInv, NEW i \in DOMAIN out
  PROVE  /\ i \in DOMAIN request.operations
         /\ \A c \in InSet(nodes, out[i]) :
              /\ c \in InSet(request.nodes, request.operations[i])
              /\ nodes[c.node].kind = request.nodes[c.node].kind
              /\ nodes[c.node].name = request.nodes[c.node].name
              /\ ~IsHole(nodes[c.node])
         /\ \A c \in InSet(request.nodes, request.operations[i]) :
              /\ request.nodes[c.node].kind = "field"
              /\ request.nodes[c.node].name \notin ObjectFields
              /\ ~Covered(removed, c.path)
              => c \in InSet(nodes, out[i])
<1> DEFINE set  == request.operations[i]
           kept == out[i]
           path == <<>>
<1>1. /\ request \in Requests /\ IsHeap(request, nodes) /\ IsDocument(request)
      /\ out \in Seq(Seq(DOMAIN request.nodes)) /\ kept \in Seq(DOMAIN request.nodes)
      /\ Len(out) <= Len(request.operations)
  BY DEF RewritingInv, IsHeap
<1>2. IsHeap(request, request.nodes)
  BY <1>1, DocumentIsHeap
<1>3. i \in DOMAIN request.operations
  BY <1>1, RequestFacts
<1>4. set \in Seq(DOMAIN request.nodes)
  BY <1>1, <1>3, RequestFacts
<1>5. /\ Keeps(request, removed, nodes, path, set, Len(set) + 1, kept)
      /\ Does(request, removed, nodes, path, set, Len(set) + 1, kept)
      /\ \A x \in DOMAIN request.nodes :
           Contents(request, nodes)[x] \subseteq Contents(request, request.nodes)[x]
  BY DEF RewritingInv, PrintingInv
<1>6. /\ \A c : c \in InSet(nodes, out[i])
                  <=> \E j \in DOMAIN kept : c \in Contents(request, nodes)[kept[j]]
      /\ \A c : c \in InSet(request.nodes, request.operations[i])
                  <=> \E k \in DOMAIN set : c \in Contents(request, request.nodes)[set[k]]
  BY DEF InSet
<1>7. path = <<>>
  OBVIOUS
<1> HIDE DEF set, kept, path
<1>8. ASSUME NEW j \in DOMAIN kept, NEW c \in Contents(request, nodes)[kept[j]]
      PROVE  /\ \E k \in DOMAIN set : c \in Contents(request, request.nodes)[set[k]]
             /\ nodes[c.node].kind = request.nodes[c.node].kind
             /\ nodes[c.node].name = request.nodes[c.node].name
             /\ ~IsHole(nodes[c.node])
  <2>1. PICK k \in DOMAIN set : Stands(request, kept[j], set[k])
    BY <1>5 DEF Keeps
  <2>2. c \in Contents(request, nodes)[set[k]]
    BY <1>1, <2>1 DEF Stands
  <2>3. set[k] \in DOMAIN request.nodes
    BY <1>4
  <2>4. c.node \in DOMAIN request.nodes
    BY <1>1, <2>2, <2>3, ContentsTyped
  <2>5. /\ nodes[c.node].kind = request.nodes[c.node].kind
        /\ nodes[c.node].name = request.nodes[c.node].name
    BY <1>1, <2>4, OwnTyped
  <2> QED
    BY <1>5, <2>2, <2>3, <2>5 DEF Does, NoHole
<1>9. ASSUME NEW k \in DOMAIN set, NEW c \in Contents(request, request.nodes)[set[k]],
             request.nodes[c.node].kind = "field",
             request.nodes[c.node].name \notin ObjectFields, ~Covered(removed, c.path)
      PROVE  \E j \in DOMAIN kept : c \in Contents(request, nodes)[kept[j]]
  <2>1. set[k] \in DOMAIN request.nodes /\ k < Len(set) + 1
    BY <1>4
  <2>2. c.path \in Seq(STRING)
    BY <1>2, <2>1, ContentsTyped
  <2>3. path \o c.path = c.path
    BY <1>7, <2>2
  <2>4. c \in Owed(request, removed, path, set[k])
    BY <1>9, <2>3 DEF Owed
  <2> QED
    BY <1>5, <2>1, <2>4 DEF Does
<1> QED
  BY <1>3, <1>6, <1>8, <1>9

\* Of a query that spreads no fragment twice, the rewritten operations ask
\* for exactly the fields that were not removed, and have no empty selection
\* set.
THEOREM OthersArePrintedAlways == Spec => []OthersArePrinted
<1>1. UnsharedInv => OthersArePrinted
  <2> SUFFICES ASSUME UnsharedInv, IsUnshared, NEW i \in DOMAIN out
               PROVE  /\ Printed(i) = {path \in Asked(i) : ~IsRemoved(path)}
                      /\ out[i] # <<>> => Complete(i)
    BY DEF OthersArePrinted
  <2>1. RewritingInv /\ PrintingInv
    BY DEF UnsharedInv, IsUnshared, Unshared
  <2>2. \A path : IsRemoved(path) <=> Covered(removed, path)
    BY DEF IsRemoved, Covered
  <2>3. \A path : path \in Printed(i) <=>
          \E c \in InSet(nodes, out[i]) :
            /\ nodes[c.node].kind = "field" /\ nodes[c.node].name \notin ObjectFields
            /\ path = c.path
    BY DEF Printed, Leaves
  <2>4. \A path : path \in Asked(i) <=>
          \E c \in InSet(request.nodes, request.operations[i]) :
            /\ request.nodes[c.node].kind = "field"
            /\ request.nodes[c.node].name \notin ObjectFields
            /\ path = c.path
    BY DEF Asked, Leaves
  <2>5. ASSUME NEW path \in Printed(i)
        PROVE  path \in Asked(i) /\ ~IsRemoved(path)
    <3>1. PICK c \in InSet(nodes, out[i]) :
            /\ nodes[c.node].kind = "field" /\ nodes[c.node].name \notin ObjectFields
            /\ path = c.path
      BY <2>3
    <3>2. ~Covered(removed, c.path)
      BY <2>1, RewrittenIsClean
    <3> QED
      BY <2>1, <2>2, <2>4, <3>1, <3>2, PrintedContents
  <2>6. ASSUME NEW path \in Asked(i), ~IsRemoved(path)
        PROVE  path \in Printed(i)
    <3>1. PICK c \in InSet(request.nodes, request.operations[i]) :
            /\ request.nodes[c.node].kind = "field"
            /\ request.nodes[c.node].name \notin ObjectFields
            /\ path = c.path
      BY <2>4
    <3>2. c \in InSet(nodes, out[i])
      BY <2>1, <2>2, <2>6, <3>1, PrintedContents
    <3> QED
      BY <2>1, <2>3, <3>1, <3>2, PrintedContents
  <2>7. out[i] # <<>> => Complete(i)
    BY <2>1, PrintedContents DEF Complete
  <2> QED
    BY <2>5, <2>6, <2>7
<1> QED
  BY <1>1, PrintingInvariant, PTL
=============================================================================
