---------------------------- MODULE ExtAuthzProofs ----------------------------
(***************************************************************************)
(* What the gateway hands on, for every document, policy and request: the  *)
(* theorems of ExtAuthz.                                                   *)
(*                                                                         *)
(* The first part is about documents: the recursive functions of           *)
(* GraphQLTree and FieldRewriter are what their equations say, where a     *)
(* node stands, and what removing nodes does to that.  The second is about *)
(* the rewriter, the third about Check and Envoy.                          *)
(***************************************************************************)
EXTENDS ExtAuthz, DataInduction, FiniteSetTheorems, SequenceTheorems

-----------------------------------------------------------------------------
(* Documents *)

Parent(doc, n) == doc.nodes[n].parent

LEMMA TreeFacts ==
  ASSUME NEW doc, IsTree(doc)
  PROVE  /\ Len(doc.nodes) \in Nat
         /\ Nodes(doc) = 1..Len(doc.nodes)
         /\ doc.kind = "document"
         /\ \A n \in Nodes(doc) :
              /\ Parent(doc, n) # 0 => Parent(doc, n) \in Nodes(doc)
              /\ Parent(doc, n) \in Nat /\ Parent(doc, n) < n
              /\ Parent(doc, n) = 0 <=> n \in Operations(doc) \cup Fragments(doc)
              /\ Parent(doc, n) # 0 => doc.nodes[Parent(doc, n)].kind # "spread"
              /\ doc.nodes[n].name \in STRING
<1>1. /\ Len(doc.nodes) \in Nat
      /\ Nodes(doc) = 1..Len(doc.nodes)
      /\ doc.kind = "document"
  BY DEF IsTree
<1>2. ASSUME NEW n \in Nodes(doc)
      PROVE  /\ Parent(doc, n) # 0 => Parent(doc, n) \in Nodes(doc)
             /\ Parent(doc, n) \in Nat /\ Parent(doc, n) < n
             /\ Parent(doc, n) = 0 <=> n \in Operations(doc) \cup Fragments(doc)
             /\ Parent(doc, n) # 0 => doc.nodes[Parent(doc, n)].kind # "spread"
             /\ doc.nodes[n].name \in STRING
  <2>1. /\ doc.nodes[n].parent \in 0..(n - 1)
        /\ doc.nodes[n].parent = 0 <=> doc.nodes[n].kind \in {"operation", "fragment"}
        /\ doc.nodes[n].parent # 0 => doc.nodes[doc.nodes[n].parent].kind # "spread"
        /\ doc.nodes[n].name \in STRING
    BY DEF IsTree
  <2>2. n \in 1..Len(doc.nodes)
    BY <1>1
  <2>3. doc.nodes[n].kind \in {"operation", "fragment"} <=>
          n \in Operations(doc) \cup Fragments(doc)
    BY DEF Operations, Fragments
  <2>4. Parent(doc, n) = doc.nodes[n].parent
    BY DEF Parent
  <2>5. /\ Parent(doc, n) \in Nat /\ Parent(doc, n) < n
        /\ Parent(doc, n) # 0 => Parent(doc, n) \in 1..Len(doc.nodes)
    BY <1>1, <2>1, <2>2, <2>4
  <2> QED
    BY <1>1, <2>1, <2>3, <2>4, <2>5
<1> QED
  BY <1>1, <1>2

\* A set of nodes that has the definitions, and each node whose parent it
\* has, has all nodes.
LEMMA NodeInduction ==
  ASSUME NEW doc, IsTree(doc), NEW G,
         \A n \in Nodes(doc) :
           (Parent(doc, n) = 0 \/ Parent(doc, n) \in G) => n \in G
  PROVE  Nodes(doc) \subseteq G
<1>1. /\ Nodes(doc) \in SUBSET Nat
      /\ \A n \in Nodes(doc) :
           /\ Parent(doc, n) # 0 => Parent(doc, n) \in Nodes(doc)
           /\ Parent(doc, n) \in Nat /\ Parent(doc, n) < n
  BY TreeFacts
<1>2. SUFFICES ASSUME Nodes(doc) \ G # {}
               PROVE  FALSE
  OBVIOUS
<1>3. PICK n \in Nodes(doc) \ G : \A k \in Nodes(doc) \ G : n <= k
  BY <1>1, <1>2, LeastNumber
<1>4. Parent(doc, n) # 0 /\ Parent(doc, n) \notin G
  OBVIOUS
<1>5. Parent(doc, n) \in Nodes(doc) \ G /\ Parent(doc, n) < n
  BY <1>1, <1>4
<1> QED
  BY <1>1, <1>3, <1>5

-----------------------------------------------------------------------------
(* Where nodes stand *)

\* One turn of Places.
Place(doc, at, n) ==
  IF Parent(doc, n) = 0
  THEN [of |-> IF n \in doc.left THEN n ELSE 0, path |-> <<>>]
  ELSE [of   |-> IF n \in doc.left THEN at[Parent(doc, n)].of ELSE 0,
        path |-> Below(doc.nodes[Parent(doc, n)], at[Parent(doc, n)].path)]

\* Places, for the nodes up to m.
PlacesTo(doc, at, m) ==
  at = [n \in Nodes(doc) |-> IF n <= m THEN Place(doc, at, n) ELSE 0]

LEMMA PlacesExtend ==
  ASSUME NEW doc, IsTree(doc), NEW m \in Nat, NEW at, PlacesTo(doc, at, m)
  PROVE  \E new : PlacesTo(doc, new, m + 1)
<1> DEFINE new == [n \in Nodes(doc) |->
                     IF n <= m + 1 THEN Place(doc, at, n) ELSE 0]
<1>1. \A n \in Nodes(doc) : n \in Nat
  BY TreeFacts
<1>2. ASSUME NEW n \in Nodes(doc), n <= m + 1
      PROVE  Place(doc, new, n) = Place(doc, at, n)
  <2>1. CASE Parent(doc, n) = 0
    BY <2>1 DEF Place
  <2>2. CASE Parent(doc, n) # 0
    <3> DEFINE p == Parent(doc, n)
    <3>1. p \in Nodes(doc) /\ p \in Nat /\ n \in Nat /\ p < n
      BY <1>1, <2>2, TreeFacts
    <3>2. p <= m
      BY <1>2, <3>1
    <3>3. at[p] = Place(doc, at, p)
      BY <3>1, <3>2 DEF PlacesTo
    <3>4. new[p] = Place(doc, at, p)
      BY <3>1, <3>2
    <3> HIDE DEF new
    <3> QED
      BY <2>2, <3>3, <3>4 DEF Place
  <2> QED
    BY <2>1, <2>2
<1>3. new = [n \in Nodes(doc) |-> IF n <= m + 1 THEN Place(doc, new, n) ELSE 0]
  <2> DEFINE other == [n \in Nodes(doc) |->
                         IF n <= m + 1 THEN Place(doc, new, n) ELSE 0]
  <2>1. \A n \in Nodes(doc) : new[n] = other[n]
    BY <1>2
  <2> QED
    BY <2>1
<1> HIDE DEF new
<1> QED
  BY <1>3 DEF PlacesTo

LEMMA PlacesExist ==
  ASSUME NEW doc, IsTree(doc), NEW m \in Nat
  PROVE  \E at : PlacesTo(doc, at, m)
<1> DEFINE G == {k \in Nat : \E at : PlacesTo(doc, at, k)}
<1>1. 0 \in G
  <2> DEFINE at == [n \in Nodes(doc) |-> 0]
  <2>1. \A n \in Nodes(doc) : ~(n <= 0)
    BY TreeFacts
  <2>2. at = [n \in Nodes(doc) |-> IF n <= 0 THEN Place(doc, at, n) ELSE 0]
    BY <2>1
  <2> HIDE DEF at
  <2> QED
    BY <2>2 DEF PlacesTo
<1>2. ASSUME NEW k \in Nat, k \in G
      PROVE  k + 1 \in G
  BY <1>2, PlacesExtend
<1> HIDE DEF G
<1>3. Nat \subseteq G
  BY <1>1, <1>2, SetInduction
<1> QED
  BY <1>3 DEF G

\* Places is what its equation says.
LEMMA PlacesAre ==
  ASSUME NEW doc, IsTree(doc)
  PROVE  \A n \in Nodes(doc) : Places(doc)[n] = Place(doc, Places(doc), n)
<1>1. PICK at : PlacesTo(doc, at, Len(doc.nodes))
  BY PlacesExist, TreeFacts
<1>2. \A n \in Nodes(doc) : n <= Len(doc.nodes)
  BY TreeFacts
<1>3. at = [n \in Nodes(doc) |-> Place(doc, at, n)]
  BY <1>1, <1>2 DEF PlacesTo
<1>4. Places(doc) = CHOOSE f : f = [n \in Nodes(doc) |-> Place(doc, f, n)]
  BY DEF Places, Place, Parent
<1>5. Places(doc) = [n \in Nodes(doc) |-> Place(doc, Places(doc), n)]
  BY <1>3, <1>4
<1> QED
  BY <1>5

\* The equation, for definitions and for the nodes under a parent.
LEMMA PlaceOf ==
  ASSUME NEW doc, IsTree(doc), NEW n \in Nodes(doc)
  PROVE  /\ Parent(doc, n) = 0 =>
              /\ Places(doc)[n].of = IF n \in doc.left THEN n ELSE 0
              /\ Places(doc)[n].path = <<>>
         /\ Parent(doc, n) # 0 =>
              /\ Places(doc)[n].of =
                   IF n \in doc.left THEN Places(doc)[Parent(doc, n)].of ELSE 0
              /\ Places(doc)[n].path =
                   Below(doc.nodes[Parent(doc, n)], Places(doc)[Parent(doc, n)].path)
<1>1. Places(doc)[n] = Place(doc, Places(doc), n)
  BY PlacesAre
<1>2. CASE Parent(doc, n) = 0
  <2>1. Places(doc)[n] = [of |-> IF n \in doc.left THEN n ELSE 0, path |-> <<>>]
    BY <1>1, <1>2 DEF Place
  <2> QED
    BY <1>2, <2>1
<1>3. CASE Parent(doc, n) # 0
  <2> DEFINE p == Parent(doc, n)
  <2>1. Places(doc)[n] =
          [of   |-> IF n \in doc.left THEN Places(doc)[p].of ELSE 0,
           path |-> Below(doc.nodes[p], Places(doc)[p].path)]
    BY <1>1, <1>3 DEF Place
  <2> QED
    BY <1>3, <2>1
<1> QED
  BY <1>2, <1>3

LEMMA PathsAreNames ==
  ASSUME NEW doc, IsTree(doc)
  PROVE  \A n \in Nodes(doc) :
           /\ Places(doc)[n].path \in Seq(STRING)
           /\ Below(doc.nodes[n], Places(doc)[n].path) \in Seq(STRING)
<1> DEFINE G == {n \in Nodes(doc) : Places(doc)[n].path \in Seq(STRING)}
<1>1. \A n \in Nodes(doc) : \A path \in Seq(STRING) :
        Below(doc.nodes[n], path) \in Seq(STRING)
  <2> SUFFICES ASSUME NEW n \in Nodes(doc), NEW path \in Seq(STRING)
               PROVE  Below(doc.nodes[n], path) \in Seq(STRING)
    OBVIOUS
  <2>1. doc.nodes[n].name \in STRING
    BY TreeFacts
  <2>2. Append(path, doc.nodes[n].name) \in Seq(STRING)
    BY <2>1
  <2> QED
    BY <2>2 DEF Below
<1>2. ASSUME NEW n \in Nodes(doc), Parent(doc, n) = 0 \/ Parent(doc, n) \in G
      PROVE  n \in G
  <2>1. CASE Parent(doc, n) = 0
    <3>1. Places(doc)[n].path = <<>>
      BY <2>1, PlaceOf
    <3>2. <<>> \in Seq(STRING)
      OBVIOUS
    <3> QED
      BY <3>1, <3>2
  <2>2. CASE Parent(doc, n) # 0
    <3> DEFINE p == Parent(doc, n)
    <3>1. p \in Nodes(doc) /\ Places(doc)[p].path \in Seq(STRING)
      BY <1>2, <2>2
    <3>2. Places(doc)[n].path = Below(doc.nodes[p], Places(doc)[p].path)
      BY <2>2, PlaceOf
    <3> QED
      BY <1>1, <3>1, <3>2
  <2> QED
    BY <2>1, <2>2
<1> HIDE DEF G
<1>3. Nodes(doc) \subseteq G
  BY <1>2, NodeInduction
<1> QED
  BY <1>1, <1>3 DEF G

-----------------------------------------------------------------------------
(* What a pass of the rewriter keeps *)

\* One turn of Filter.
Keep(doc, refused, keeps, n) ==
  /\ n \notin refused
  /\ Selections(doc, n) # {} => \E m \in Selections(doc, n) : keeps[m]

\* Filter, for the last k nodes.
KeepsFrom(doc, refused, keeps, k) ==
  keeps = [n \in Nodes(doc) |->
             IF n + k > Len(doc.nodes) THEN Keep(doc, refused, keeps, n) ELSE FALSE]

LEMMA SelectionsAfter ==
  ASSUME NEW doc, IsTree(doc), NEW n, NEW m \in Selections(doc, n)
  PROVE  /\ m \in Nodes(doc) /\ Parent(doc, m) = n
         /\ n < m
  BY TreeFacts DEF Selections, Parent

LEMMA KeepsExtend ==
  ASSUME NEW doc, IsTree(doc), NEW refused, NEW k \in Nat, NEW keeps,
         KeepsFrom(doc, refused, keeps, k)
  PROVE  \E new : KeepsFrom(doc, refused, new, k + 1)
<1> DEFINE new == [n \in Nodes(doc) |->
                     IF n + (k + 1) > Len(doc.nodes)
                     THEN Keep(doc, refused, keeps, n) ELSE FALSE]
           Same(n) == Keep(doc, refused, new, n) = Keep(doc, refused, keeps, n)
<1>1. Len(doc.nodes) \in Nat /\ \A n \in Nodes(doc) : n \in Nat
  BY TreeFacts
<1>2. ASSUME NEW n \in Nodes(doc), n + (k + 1) > Len(doc.nodes)
      PROVE  Same(n)
  <2>1. ASSUME NEW m \in Selections(doc, n)
        PROVE  new[m] = keeps[m]
    <3>1. m \in Nodes(doc) /\ m \in Nat /\ n \in Nat /\ n < m
      BY <1>1, <2>1, SelectionsAfter
    <3>2. m + k > Len(doc.nodes) /\ m + (k + 1) > Len(doc.nodes)
      BY <1>1, <1>2, <3>1
    <3>3. keeps[m] = Keep(doc, refused, keeps, m)
      BY <3>1, <3>2 DEF KeepsFrom
    <3>4. new[m] = Keep(doc, refused, keeps, m)
      BY <3>1, <3>2
    <3> QED
      BY <3>3, <3>4
  <2> HIDE DEF new
  <2> QED
    BY <2>1, Zenon DEF Keep
<1>3. new = [n \in Nodes(doc) |->
               IF n + (k + 1) > Len(doc.nodes)
               THEN Keep(doc, refused, new, n) ELSE FALSE]
  <2> DEFINE other == [n \in Nodes(doc) |->
                         IF n + (k + 1) > Len(doc.nodes)
                         THEN Keep(doc, refused, new, n) ELSE FALSE]
  <2>1. ASSUME NEW n \in Nodes(doc)
        PROVE  new[n] = other[n]
    <3> HIDE DEF Same
    <3>1. /\ new[n] = IF n + (k + 1) > Len(doc.nodes)
                      THEN Keep(doc, refused, keeps, n) ELSE FALSE
          /\ other[n] = IF n + (k + 1) > Len(doc.nodes)
                        THEN Keep(doc, refused, new, n) ELSE FALSE
      BY Zenon
    <3> HIDE DEF new, other
    <3>2. CASE n + (k + 1) > Len(doc.nodes)
      <4>1. Same(n)
        BY <1>2, <3>2
      <4> QED
        BY <3>1, <3>2, <4>1, Zenon DEF Same
    <3>3. CASE ~(n + (k + 1) > Len(doc.nodes))
      BY <3>1, <3>3, Zenon
    <3> QED
      BY <3>2, <3>3
  <2>2. new = [n \in Nodes(doc) |-> new[n]] /\ other = [n \in Nodes(doc) |-> other[n]]
    BY Zenon
  <2> HIDE DEF new
  <2>3. new = other
    <3> HIDE DEF other
    <3> QED
      BY <2>1, <2>2
  <2> QED
    BY <2>3
<1> HIDE DEF new
<1> QED
  BY <1>3 DEF KeepsFrom

LEMMA KeepsExist ==
  ASSUME NEW doc, IsTree(doc), NEW refused, NEW m \in Nat
  PROVE  \E keeps : KeepsFrom(doc, refused, keeps, m)
<1> DEFINE G == {k \in Nat : \E keeps : KeepsFrom(doc, refused, keeps, k)}
<1>1. 0 \in G
  <2> DEFINE keeps == [n \in Nodes(doc) |-> FALSE]
  <2>1. \A n \in Nodes(doc) : ~(n + 0 > Len(doc.nodes))
    BY TreeFacts
  <2>2. keeps = [n \in Nodes(doc) |->
                   IF n + 0 > Len(doc.nodes)
                   THEN Keep(doc, refused, keeps, n) ELSE FALSE]
    BY <2>1
  <2> HIDE DEF keeps
  <2> QED
    BY <2>2 DEF KeepsFrom
<1>2. ASSUME NEW k \in Nat, k \in G
      PROVE  k + 1 \in G
  BY <1>2, KeepsExtend
<1> HIDE DEF G
<1>3. Nat \subseteq G
  BY <1>1, <1>2, SetInduction
<1> QED
  BY <1>3 DEF G

\* Filter keeps what was not refused and, if it had selections, has one left.
LEMMA FilterKeeps ==
  ASSUME NEW doc, IsTree(doc), NEW refused
  PROVE  /\ Filter(doc, refused) \subseteq Nodes(doc)
         /\ \A n \in Nodes(doc) :
              n \in Filter(doc, refused) <=>
                /\ n \notin refused
                /\ Selections(doc, n) # {} =>
                     Selections(doc, n) \cap Filter(doc, refused) # {}
<1> DEFINE Equation(f) == f = [n \in Nodes(doc) |-> Keep(doc, refused, f, n)]
           keeps == CHOOSE f : Equation(f)
<1>1. \E f : Equation(f)
  <2>1. PICK f : KeepsFrom(doc, refused, f, Len(doc.nodes))
    BY KeepsExist, TreeFacts
  <2>2. \A n \in Nodes(doc) : n + Len(doc.nodes) > Len(doc.nodes)
    BY TreeFacts
  <2>3. f = [n \in Nodes(doc) |->
               IF n + Len(doc.nodes) > Len(doc.nodes)
               THEN Keep(doc, refused, f, n) ELSE FALSE]
    BY <2>1 DEF KeepsFrom
  <2>4. f = [n \in Nodes(doc) |-> Keep(doc, refused, f, n)]
    BY <2>2, <2>3
  <2> QED
    BY <2>4
<1>2. Equation(keeps)
  BY <1>1
<1>3. Filter(doc, refused) = {n \in Nodes(doc) : keeps[n]}
  BY DEF Filter, Keep
<1> HIDE DEF keeps
<1>4. \A n \in Nodes(doc) : keeps[n] = Keep(doc, refused, keeps, n)
  BY <1>2
<1>5. \A n : Selections(doc, n) \subseteq Nodes(doc)
  BY DEF Selections
<1> QED
  BY <1>3, <1>4, <1>5, Zenon DEF Keep

-----------------------------------------------------------------------------
(* Through how many spreads a node stands where *)

\* One turn of Standing.
Stand(doc, d, through, k) ==
  IF k = 0 THEN Within(doc, d, <<>>, FALSE)
  ELSE UNION {UNION {Within(doc, f, c.path, TRUE) : f \in Spread(doc, c.at)}
                : c \in through[k - 1]}

StandTo(doc, d, through, m) ==
  through = [k \in 0..m |-> Stand(doc, d, through, k)]

LEMMA StandExtends ==
  ASSUME NEW doc, NEW d, NEW m \in Nat, NEW through, StandTo(doc, d, through, m)
  PROVE  \E new : StandTo(doc, d, new, m + 1)
<1> DEFINE new == [k \in 0..(m + 1) |-> Stand(doc, d, through, k)]
<1>1. ASSUME NEW k \in 0..(m + 1)
      PROVE  Stand(doc, d, new, k) = Stand(doc, d, through, k)
  <2>1. CASE k = 0
    BY <2>1 DEF Stand
  <2>2. CASE k # 0
    <3>1. k - 1 \in 0..m /\ k - 1 \in 0..(m + 1)
      BY <2>2
    <3>2. through[k - 1] = Stand(doc, d, through, k - 1)
      BY <3>1 DEF StandTo
    <3>3. new[k - 1] = Stand(doc, d, through, k - 1)
      BY <3>1
    <3> HIDE DEF new
    <3> QED
      BY <2>2, <3>2, <3>3 DEF Stand
  <2> QED
    BY <2>1, <2>2
<1>2. new = [k \in 0..(m + 1) |-> Stand(doc, d, new, k)]
  <2> DEFINE other == [k \in 0..(m + 1) |-> Stand(doc, d, new, k)]
  <2>1. \A k \in 0..(m + 1) : new[k] = other[k]
    BY <1>1
  <2> QED
    BY <2>1
<1> HIDE DEF new
<1> QED
  BY <1>2 DEF StandTo

LEMMA StandExists ==
  ASSUME NEW doc, NEW d, NEW m \in Nat
  PROVE  \E through : StandTo(doc, d, through, m)
<1> DEFINE G == {k \in Nat : \E through : StandTo(doc, d, through, k)}
<1>1. 0 \in G
  <2> DEFINE through == [k \in 0..0 |-> Within(doc, d, <<>>, FALSE)]
  <2>1. through = [k \in 0..0 |-> Stand(doc, d, through, k)]
    BY DEF Stand
  <2> HIDE DEF through
  <2> QED
    BY <2>1 DEF StandTo
<1>2. ASSUME NEW k \in Nat, k \in G
      PROVE  k + 1 \in G
  BY <1>2, StandExtends
<1> HIDE DEF G
<1>3. Nat \subseteq G
  BY <1>1, <1>2, SetInduction
<1> QED
  BY <1>3 DEF G

LEMMA FragmentsAreCounted ==
  ASSUME NEW doc, IsTree(doc)
  PROVE  Cardinality(Fragments(doc)) \in Nat
<1>1. IsFiniteSet(1..Len(doc.nodes))
  BY TreeFacts, FS_Interval
<1>2. Fragments(doc) \subseteq 1..Len(doc.nodes)
  BY TreeFacts DEF Fragments
<1> QED
  BY <1>1, <1>2, FS_Subset, FS_CardinalityType

\* Standing is what its equation says.
LEMMA StandingIs ==
  ASSUME NEW doc, IsTree(doc), NEW d
  PROVE  \A k \in 0..Cardinality(Fragments(doc)) :
           Standing(doc, d)[k] = Stand(doc, d, Standing(doc, d), k)
<1> DEFINE max == Cardinality(Fragments(doc))
<1>1. max \in Nat
  BY FragmentsAreCounted
<1>2. \E through : through = [k \in 0..max |-> Stand(doc, d, through, k)]
  BY <1>1, StandExists DEF StandTo
<1>3. Standing(doc, d) =
        CHOOSE through : through = [k \in 0..max |-> Stand(doc, d, through, k)]
  BY DEF Standing, Stand
<1>4. Standing(doc, d) = [k \in 0..max |-> Stand(doc, d, Standing(doc, d), k)]
  BY <1>2, <1>3
<1> QED
  BY <1>4

LEMMA WithinIs ==
  ASSUME NEW doc, NEW d, NEW path, NEW named, NEW c
  PROVE  c \in Within(doc, d, path, named) <=>
           \E n \in Nodes(doc) :
             /\ Places(doc)[n].of = d
             /\ c = [at |-> n, path |-> path \o Places(doc)[n].path, named |-> named]
BY Zenon DEF Within

LEMMA StandNext ==
  ASSUME NEW doc, NEW d, NEW through, NEW k \in Nat, NEW c
  PROVE  c \in Stand(doc, d, through, k + 1) <=>
           \E s \in through[k] : \E f \in Spread(doc, s.at) :
             c \in Within(doc, f, s.path, TRUE)
<1>1. k + 1 # 0 /\ (k + 1) - 1 = k
  OBVIOUS
<1>2. Stand(doc, d, through, k + 1) =
        UNION {UNION {Within(doc, f, s.path, TRUE) : f \in Spread(doc, s.at)}
                 : s \in through[k]}
  BY <1>1, Zenon DEF Stand
<1> DEFINE Via(s) == UNION {Within(doc, f, s.path, TRUE) : f \in Spread(doc, s.at)}
<1>3. \A s : c \in Via(s) <=>
               \E f \in Spread(doc, s.at) : c \in Within(doc, f, s.path, TRUE)
  OBVIOUS
<1>4. Stand(doc, d, through, k + 1) = UNION {Via(s) : s \in through[k]}
  BY <1>2
<1> HIDE DEF Via
<1>5. c \in Stand(doc, d, through, k + 1) <=> \E s \in through[k] : c \in Via(s)
  BY <1>4
<1> QED
  BY <1>3, <1>5

LEMMA StandingNext ==
  ASSUME NEW doc, IsTree(doc), NEW d, NEW k \in Nat,
         k + 1 <= Cardinality(Fragments(doc)), NEW c
  PROVE  c \in Standing(doc, d)[k + 1] <=>
           \E s \in Standing(doc, d)[k] : \E f \in Spread(doc, s.at) :
             c \in Within(doc, f, s.path, TRUE)
<1>1. k + 1 \in 0..Cardinality(Fragments(doc))
  BY FragmentsAreCounted
<1> DEFINE through == Standing(doc, d)
<1>2. through[k + 1] = Stand(doc, d, through, k + 1)
  BY <1>1, StandingIs
<1> HIDE DEF through
<1>3. c \in Stand(doc, d, through, k + 1) <=>
        \E s \in through[k] : \E f \in Spread(doc, s.at) :
          c \in Within(doc, f, s.path, TRUE)
  BY StandNext
<1>4. c \in through[k + 1] <=>
        \E s \in through[k] : \E f \in Spread(doc, s.at) :
          c \in Within(doc, f, s.path, TRUE)
  BY <1>2, <1>3
<1> QED
  BY <1>4 DEF through

\* A node of the definition f, when f is reached at `path` through k spreads.
Reached(doc, d, k, c, f, path) ==
  /\ f \in Nodes(doc) /\ path \in Seq(STRING)
  /\ c.at \in Nodes(doc) /\ Places(doc)[c.at].of = f
  /\ c = [at    |-> c.at,
          path  |-> path \o Places(doc)[c.at].path,
          named |-> k # 0]
  /\ Within(doc, f, path, k # 0) \subseteq Standing(doc, d)[k]
  /\ k = 0 => f = d /\ path = <<>>
  /\ k # 0 => \E s \in Standing(doc, d)[k - 1] :
                f \in Spread(doc, s.at) /\ path = s.path

LEMMA ReachedStart ==
  ASSUME NEW doc, IsTree(doc), NEW d \in Nodes(doc),
         NEW c \in Standing(doc, d)[0]
  PROVE  Reached(doc, d, 0, c, d, <<>>)
<1>1. 0 \in 0..Cardinality(Fragments(doc))
  BY FragmentsAreCounted
<1>2. Standing(doc, d)[0] = Within(doc, d, <<>>, FALSE)
  BY <1>1, StandingIs DEF Stand
<1>3. PICK n \in Nodes(doc) :
        /\ Places(doc)[n].of = d
        /\ c = [at |-> n, path |-> <<>> \o Places(doc)[n].path, named |-> FALSE]
  <2>1. c \in Within(doc, d, <<>>, FALSE)
    BY <1>2
  <2> QED
    BY <2>1, Zenon DEF Within
<1>4. c.at = n
  BY <1>3
<1>5. <<>> \in Seq(STRING) /\ (0 # 0) = FALSE
  OBVIOUS
<1> QED
  BY <1>2, <1>3, <1>4, <1>5 DEF Reached

LEMMA ReachedNext ==
  ASSUME NEW doc, IsTree(doc), NEW d \in Nodes(doc), NEW k \in Nat,
         k + 1 <= Cardinality(Fragments(doc)),
         \A s \in Standing(doc, d)[k] : s.path \in Seq(STRING),
         NEW c \in Standing(doc, d)[k + 1]
  PROVE  \E s \in Standing(doc, d)[k] : \E f \in Spread(doc, s.at) :
           Reached(doc, d, k + 1, c, f, s.path)
<1> DEFINE S == Standing(doc, d)
<1>1. k + 1 \in 0..Cardinality(Fragments(doc)) /\ k + 1 # 0 /\ (k + 1) - 1 = k
  BY FragmentsAreCounted
<1> HIDE DEF S
<1>3. PICK s \in S[k] : \E f \in Spread(doc, s.at) : c \in Within(doc, f, s.path, TRUE)
  BY StandingNext, Zenon DEF S
<1>a. PICK f \in Spread(doc, s.at) : c \in Within(doc, f, s.path, TRUE)
  BY <1>3
<1>4. PICK n \in Nodes(doc) :
        /\ Places(doc)[n].of = f
        /\ c = [at |-> n, path |-> s.path \o Places(doc)[n].path, named |-> TRUE]
  BY <1>a, Zenon DEF Within
<1>5. c.at = n
  BY <1>4
<1>6. f \in Nodes(doc)
  BY DEF Spread, Fragments
<1>7. Within(doc, f, s.path, TRUE) \subseteq S[k + 1]
  BY StandingNext, Zenon DEF S
<1>8. s.path \in Seq(STRING)
  BY DEF S
<1>9. (k + 1 # 0) = TRUE
  BY <1>1
<1>10. Reached(doc, d, k + 1, c, f, s.path)
  <2>1. \E t \in Standing(doc, d)[(k + 1) - 1] :
          f \in Spread(doc, t.at) /\ s.path = t.path
    BY <1>1 DEF S
  <2>2. Within(doc, f, s.path, k + 1 # 0) \subseteq Standing(doc, d)[k + 1]
    BY <1>7, <1>9 DEF S
  <2>3. c = [at    |-> c.at, path  |-> s.path \o Places(doc)[c.at].path,
             named |-> k + 1 # 0]
    BY <1>4, <1>5, <1>9
  <2> QED
    BY <1>1, <1>4, <1>5, <1>6, <1>8, <2>1, <2>2, <2>3 DEF Reached
<1> QED
  BY <1>10 DEF S

LEMMA ReachedPath ==
  ASSUME NEW doc, IsTree(doc), NEW d, NEW k, NEW c, NEW f, NEW path,
         Reached(doc, d, k, c, f, path)
  PROVE  /\ c.path \in Seq(STRING) /\ c.path = path \o Places(doc)[c.at].path
         /\ c.named <=> k # 0
<1>1. path \in Seq(STRING) /\ c.at \in Nodes(doc)
      /\ c = [at |-> c.at, path |-> path \o Places(doc)[c.at].path, named |-> k # 0]
  BY DEF Reached
<1>2. Places(doc)[c.at].path \in Seq(STRING)
  BY <1>1, PathsAreNames
<1>3. c.path = path \o Places(doc)[c.at].path
  BY <1>1
<1>4. c.named = (k # 0)
  <2> DEFINE named == k # 0
  <2>1. c = [at |-> c.at, path |-> path \o Places(doc)[c.at].path, named |-> named]
    BY <1>1, Zenon
  <2> HIDE DEF named
  <2>2. c.named = named
    BY <2>1
  <2> QED
    BY <2>2, Zenon DEF named
<1>5. c.path \in Seq(STRING)
  BY <1>1, <1>2, <1>3
<1>6. c.named <=> k # 0
  BY <1>4, Zenon
<1> QED
  BY <1>3, <1>5, <1>6, Zenon

\* Whatever stands somewhere does so in a definition that is reached.
LEMMA StandingReached ==
  ASSUME NEW doc, IsTree(doc), NEW d \in Nodes(doc)
  PROVE  \A k \in 0..Cardinality(Fragments(doc)) :
           \A c \in Standing(doc, d)[k] :
             /\ c.path \in Seq(STRING)
             /\ \E f, path : Reached(doc, d, k, c, f, path)
<1> DEFINE max == Cardinality(Fragments(doc))
           G == {k \in Nat : k <= max =>
                   \A c \in Standing(doc, d)[k] :
                     /\ c.path \in Seq(STRING)
                     /\ \E f, path : Reached(doc, d, k, c, f, path)}
<1>1. 0 \in G
  BY ReachedStart, ReachedPath
<1>2. ASSUME NEW k \in Nat, k \in G
      PROVE  k + 1 \in G
  <2> SUFFICES ASSUME k + 1 <= max, NEW c \in Standing(doc, d)[k + 1]
               PROVE  /\ c.path \in Seq(STRING)
                      /\ \E f, path : Reached(doc, d, k + 1, c, f, path)
    OBVIOUS
  <2>1. max \in Nat
    BY FragmentsAreCounted
  <2>2. \A s \in Standing(doc, d)[k] : s.path \in Seq(STRING)
    <3>1. k <= max
      BY <2>1
    <3> QED
      BY <1>2, <3>1
  <2> HIDE DEF G
  <2>3. PICK s \in Standing(doc, d)[k] : \E f \in Spread(doc, s.at) :
           Reached(doc, d, k + 1, c, f, s.path)
    BY <2>2, ReachedNext
  <2> QED
    BY <2>3, ReachedPath
<1> HIDE DEF G
<1>3. Nat \subseteq G
  BY <1>1, <1>2, SetInduction
<1> QED
  BY <1>3, FragmentsAreCounted DEF G

\* The definitions spread at a place that is reached are reached there.
LEMMA SpreadReaches ==
  ASSUME NEW doc, IsTree(doc), NEW d \in Nodes(doc), NEW k \in Nat,
         k + 1 <= Cardinality(Fragments(doc)),
         NEW s \in Standing(doc, d)[k], NEW f \in Spread(doc, s.at)
  PROVE  Within(doc, f, s.path, TRUE) \subseteq Standing(doc, d)[k + 1]
BY StandingNext, Zenon

-----------------------------------------------------------------------------
(* Denied paths *)

LEMMA DeniedByPrefix ==
  ASSUME NEW rules, NEW path \in Seq(STRING), NEW more \in Seq(STRING),
         Denied(rules, path)
  PROVE  Denied(rules, path \o more)
<1> DEFINE all == path \o more
<1>1. /\ Len(path) \in Nat /\ Len(all) \in Nat /\ Len(path) <= Len(all)
      /\ \A i \in 1..Len(path) : i \in 1..Len(all) /\ all[i] = path[i]
  OBVIOUS
<1> HIDE DEF all
<1>2. CASE \E i \in 1..Len(path) : <<path[i]>> \in rules
  BY <1>1, <1>2 DEF Denied, all
<1>3. CASE \E rule \in rules : Begins(rule, path)
  <2>1. PICK rule \in rules : Begins(rule, path)
    BY <1>3
  <2>2. Len(rule) <= Len(path) /\ \A i \in 1..Len(rule) : path[i] = rule[i]
    BY <2>1 DEF Begins
  <2> QED
    BY <1>1, <2>2 DEF Denied, Begins, all
<1> QED
  BY <1>2, <1>3 DEF Denied

LEMMA DeniedAppend ==
  ASSUME NEW rules, rules \subseteq Seq(STRING) \ {<<>>},
         NEW path \in Seq(STRING), NEW name \in STRING,
         Denied(rules, Append(path, name))
  PROVE  Denied(rules, path) \/ <<name>> \in rules \/ Append(path, name) \in rules
<1> DEFINE all == Append(path, name)
<1>1. /\ Len(path) \in Nat /\ Len(all) = Len(path) + 1 /\ all \in Seq(STRING)
      /\ \A i \in 1..Len(path) : all[i] = path[i]
      /\ all[Len(path) + 1] = name
  BY AppendFacts
<1>a. \A i \in 1..Len(path) : i \in 1..Len(all)
  BY <1>1
<1> HIDE DEF all
<1>2. CASE \E i \in 1..Len(all) : <<all[i]>> \in rules
  <2>1. PICK i \in 1..Len(all) : <<all[i]>> \in rules
    BY <1>2
  <2>2. i \in 1..Len(path) \/ i = Len(path) + 1
    BY <1>1
  <2>3. CASE i \in 1..Len(path)
    BY <1>1, <2>1, <2>3 DEF Denied
  <2>4. CASE i = Len(path) + 1
    BY <1>1, <2>1, <2>4
  <2> QED
    BY <2>2, <2>3, <2>4
<1>3. CASE \E rule \in rules : Begins(rule, all)
  <2>1. PICK rule \in rules : Begins(rule, all)
    BY <1>3
  <2>2. /\ rule \in Seq(STRING) /\ Len(rule) \in Nat /\ Len(rule) <= Len(all)
        /\ \A i \in 1..Len(rule) : all[i] = rule[i]
    BY <2>1 DEF Begins
  <2>3. CASE Len(rule) <= Len(path)
    <3>1. \A j \in 1..Len(rule) : path[j] = rule[j]
      BY <1>1, <2>2, <2>3
    <3>2. Begins(rule, path)
      BY <2>3, <3>1 DEF Begins
    <3> QED
      BY <2>1, <3>2 DEF Denied
  <2>4. CASE Len(rule) = Len(path) + 1
    <3>1. rule = all
      BY <1>1, <2>2, <2>4
    <3> QED
      BY <2>1, <3>1 DEF all
  <2>5. Len(rule) <= Len(path) \/ Len(rule) = Len(path) + 1
    BY <1>1, <2>2
  <2> QED
    BY <2>3, <2>4, <2>5, Zenon
<1>4. \/ \E i \in 1..Len(all) : <<all[i]>> \in rules
      \/ \E rule \in rules : Begins(rule, all)
  BY Zenon DEF Denied, all
<1> QED
  BY <1>2, <1>3, <1>4

LEMMA NothingDeniedAtRoot ==
  ASSUME NEW rules, rules \subseteq Seq(STRING) \ {<<>>}
  PROVE  ~Denied(rules, <<>>)
<1>1. \A rule \in rules : Len(rule) \in Nat /\ Len(rule) # 0
  OBVIOUS
<1>2. Len(<<>>) = 0 /\ 1..0 = {}
  OBVIOUS
<1> QED
  BY <1>1, <1>2 DEF Denied, Begins

-----------------------------------------------------------------------------
(* The document a pass leaves *)

SameNodes(doc, up) ==
  /\ IsTree(doc)
  /\ up = [doc EXCEPT !.left = up.left]
  /\ up.left \subseteq Nodes(doc)

LEMMA SameShape ==
  ASSUME NEW doc, NEW up, SameNodes(doc, up)
  PROVE  /\ IsTree(doc) /\ IsTree(up) /\ up.nodes = doc.nodes /\ up.kind = doc.kind
         /\ Nodes(up) = Nodes(doc)
         /\ Operations(up) = Operations(doc)
         /\ Fragments(up) = Fragments(doc)
         /\ \A n : /\ Selections(up, n) = Selections(doc, n)
                  /\ Parent(up, n) = Parent(doc, n)
                  /\ Spread(up, n) = Spread(doc, n)
                  /\ IsLeaf(up, n) = IsLeaf(doc, n)
<1>1. doc = [kind |-> "document", nodes |-> doc.nodes, left |-> doc.left]
  BY DEF SameNodes, IsTree
<1>2. up = [kind |-> "document", nodes |-> doc.nodes, left |-> up.left]
  BY <1>1 DEF SameNodes
<1>3. up.nodes = doc.nodes /\ up.kind = doc.kind
  BY <1>1, <1>2
<1>4. Nodes(up) = Nodes(doc)
  BY <1>3 DEF Nodes
<1>5. IsTree(up)
  <2>1. /\ Len(doc.nodes) \in Nat /\ Nodes(doc) = 1..Len(doc.nodes)
        /\ \A n \in Nodes(doc) :
             LET node == doc.nodes[n]
             IN /\ node.kind \in {"operation", "fragment", "field", "inline", "spread"}
                /\ node.name \in STRING
                /\ node.parent \in 0..(n - 1)
                /\ node.parent = 0 <=> node.kind \in {"operation", "fragment"}
                /\ node.parent # 0 => doc.nodes[node.parent].kind # "spread"
    BY DEF SameNodes, IsTree
  <2>2. up.left \subseteq Nodes(up)
    BY <1>4 DEF SameNodes
  <2>3. up = [kind |-> "document", nodes |-> up.nodes, left |-> up.left]
    BY <1>2, <1>3
  <2> QED
    BY <1>3, <1>4, <2>1, <2>2, <2>3 DEF IsTree
<1>6. Operations(up) = Operations(doc) /\ Fragments(up) = Fragments(doc)
  BY <1>3, <1>4 DEF Operations, Fragments
<1>7. ASSUME NEW n
      PROVE  /\ Selections(up, n) = Selections(doc, n)
             /\ Parent(up, n) = Parent(doc, n)
             /\ Spread(up, n) = Spread(doc, n)
             /\ IsLeaf(up, n) = IsLeaf(doc, n)
  BY <1>3, <1>4, <1>6 DEF Selections, Parent, Spread, IsLeaf
<1> QED
  BY <1>3, <1>4, <1>5, <1>6, <1>7 DEF SameNodes

\* Removing nodes leaves the others at their paths.
LEMMA SamePaths ==
  ASSUME NEW doc, NEW up, SameNodes(doc, up)
  PROVE  \A n \in Nodes(doc) : Places(up)[n].path = Places(doc)[n].path
<1> DEFINE G == {n \in Nodes(doc) : Places(up)[n].path = Places(doc)[n].path}
<1>1. ASSUME NEW n \in Nodes(doc), Parent(doc, n) = 0 \/ Parent(doc, n) \in G
      PROVE  n \in G
  <2>1. n \in Nodes(up) /\ Parent(up, n) = Parent(doc, n) /\ up.nodes = doc.nodes
        /\ IsTree(doc) /\ IsTree(up)
    BY SameShape
  <2>2. CASE Parent(doc, n) = 0
    <3>1. Places(doc)[n].path = <<>>
      BY <2>1, <2>2, PlaceOf
    <3>2. Places(up)[n].path = <<>>
      BY <2>1, <2>2, PlaceOf
    <3> QED
      BY <3>1, <3>2
  <2>3. CASE Parent(doc, n) # 0
    <3> DEFINE p == Parent(doc, n)
    <3>1. Places(up)[p].path = Places(doc)[p].path
      BY <1>1, <2>3
    <3>2. Places(doc)[n].path = Below(doc.nodes[p], Places(doc)[p].path)
      BY <2>1, <2>3, PlaceOf
    <3>3. Places(up)[n].path = Below(doc.nodes[p], Places(up)[p].path)
      BY <2>1, <2>3, PlaceOf
    <3> QED
      BY <3>1, <3>2, <3>3
  <2> QED
    BY <2>2, <2>3
<1> HIDE DEF G
<1>2. Nodes(doc) \subseteq G
  BY <1>1, NodeInduction, SameShape
<1> QED
  BY <1>2 DEF G

\* `up` is what RemoveFields makes of a parsed document, an operation of
\* which may have become empty.
Rewritten(doc, rules) ==
  LET filtered == Filter(doc, Refused(doc, rules))
  IN [doc EXCEPT !.left = WithoutSpreads(doc, filtered)]

Rewriting(doc, rules, up) ==
  /\ IsParsed(doc)
  /\ rules \subseteq Seq(STRING) \ {<<>>}
  /\ up = Rewritten(doc, rules)

LEMMA RewritingFacts ==
  ASSUME NEW doc, NEW rules, NEW up, Rewriting(doc, rules, up)
  PROVE  /\ SameNodes(doc, up)
         /\ doc.left = Nodes(doc)
         /\ up.left = WithoutSpreads(doc, Filter(doc, Refused(doc, rules)))
         /\ up.left \subseteq Filter(doc, Refused(doc, rules))
<1> DEFINE L == WithoutSpreads(doc, Filter(doc, Refused(doc, rules)))
<1>1. IsTree(doc) /\ doc.left = Nodes(doc)
  BY DEF Rewriting, IsParsed
<1>2. doc = [kind |-> "document", nodes |-> doc.nodes, left |-> doc.left]
  BY <1>1 DEF IsTree
<1>3. up = [doc EXCEPT !.left = L]
  BY DEF Rewriting, Rewritten
<1>4. L \subseteq Filter(doc, Refused(doc, rules))
  BY DEF WithoutSpreads
<1> HIDE DEF L
<1>5. up.left = L
  BY <1>2, <1>3
<1>6. L \subseteq Nodes(doc)
  BY <1>1, <1>4, FilterKeeps
<1> QED
  BY <1>1, <1>3, <1>4, <1>5, <1>6 DEF SameNodes, L

\* A field that the first pass keeps is denied neither by name nor by path.
LEMMA KeptIsNotRefused ==
  ASSUME NEW doc, NEW rules, NEW up, Rewriting(doc, rules, up),
         NEW n \in Filter(doc, Refused(doc, rules)), doc.nodes[n].kind = "field"
  PROVE  /\ <<doc.nodes[n].name>> \notin rules
         /\ Append(Places(doc)[n].path, doc.nodes[n].name) \notin rules
<1>1. n \in Nodes(doc) /\ n \notin Refused(doc, rules)
  BY FilterKeeps DEF Rewriting, IsParsed
<1>2. ~IsDenied(rules, Places(doc)[n].path, doc.nodes[n].name)
  BY <1>1 DEF Refused
<1> QED
  BY <1>2 DEF IsDenied

LEMMA KeptBelow ==
  ASSUME NEW doc, NEW rules, NEW up, Rewriting(doc, rules, up),
         NEW n \in Filter(doc, Refused(doc, rules)),
         ~Denied(rules, Places(doc)[n].path)
  PROVE  ~Denied(rules, Below(doc.nodes[n], Places(doc)[n].path))
<1>1. IsTree(doc) /\ rules \subseteq Seq(STRING) \ {<<>>} /\ n \in Nodes(doc)
  BY FilterKeeps DEF Rewriting, IsParsed
<1>2. CASE doc.nodes[n].kind # "field"
  BY <1>2 DEF Below
<1>3. CASE doc.nodes[n].kind = "field"
  <2> DEFINE path == Places(doc)[n].path
             name == doc.nodes[n].name
  <2>1. path \in Seq(STRING) /\ name \in STRING
    BY <1>1, PathsAreNames, TreeFacts
  <2>2. <<name>> \notin rules /\ Append(path, name) \notin rules
    BY <1>3, KeptIsNotRefused
  <2>3. Below(doc.nodes[n], path) = Append(path, name)
    BY <1>3 DEF Below
  <2>4. ~Denied(rules, path)
    OBVIOUS
  <2> HIDE DEF path, name
  <2>5. ~Denied(rules, Append(path, name))
    BY <1>1, <2>1, <2>2, <2>4, DeniedAppend
  <2> QED
    BY <2>3, <2>5 DEF path
<1> QED
  BY <1>2, <1>3

\* What is still there was left there, and so was all that is around it.
LEMMA Survivors ==
  ASSUME NEW doc, NEW rules, NEW up, Rewriting(doc, rules, up)
  PROVE  \A n \in Nodes(doc) :
           Places(up)[n].of # 0 =>
             /\ n \in up.left
             /\ ~Denied(rules, Places(doc)[n].path)
             /\ ~Denied(rules, Below(doc.nodes[n], Places(doc)[n].path))
<1> DEFINE G == {n \in Nodes(doc) :
                   Places(up)[n].of # 0 =>
                     n \in up.left /\ ~Denied(rules, Places(doc)[n].path)}
<1>1. /\ SameNodes(doc, up) /\ IsTree(doc) /\ IsTree(up) /\ Nodes(up) = Nodes(doc)
      /\ up.left \subseteq Filter(doc, Refused(doc, rules))
      /\ \A n : Parent(up, n) = Parent(doc, n)
  BY RewritingFacts, SameShape
<1>2. ASSUME NEW n \in Nodes(doc), Parent(doc, n) = 0 \/ Parent(doc, n) \in G
      PROVE  n \in G
  <2> SUFFICES ASSUME Places(up)[n].of # 0
               PROVE  n \in up.left /\ ~Denied(rules, Places(doc)[n].path)
    OBVIOUS
  <2>1. CASE Parent(doc, n) = 0
    <3>1. Places(doc)[n].path = <<>>
      BY <1>1, <2>1, PlaceOf
    <3>2. Places(up)[n].of = IF n \in up.left THEN n ELSE 0
      BY <1>1, <2>1, PlaceOf
    <3>3. ~Denied(rules, <<>>)
      BY NothingDeniedAtRoot DEF Rewriting
    <3> QED
      BY <3>1, <3>2, <3>3
  <2>2. CASE Parent(doc, n) # 0
    <3> DEFINE p == Parent(doc, n)
    <3>1. Places(doc)[n].path = Below(doc.nodes[p], Places(doc)[p].path)
      BY <1>1, <2>2, PlaceOf
    <3>2. Places(up)[n].of = IF n \in up.left THEN Places(up)[p].of ELSE 0
      BY <1>1, <2>2, PlaceOf
    <3>3. n \in up.left /\ Places(up)[p].of # 0
      BY <3>2
    <3>4. p \in up.left /\ ~Denied(rules, Places(doc)[p].path)
      BY <1>2, <2>2, <3>3
    <3>5. p \in Filter(doc, Refused(doc, rules))
      BY <1>1, <3>4
    <3> QED
      BY <3>1, <3>3, <3>4, <3>5, KeptBelow
  <2> QED
    BY <2>1, <2>2
<1> HIDE DEF G
<1>3. Nodes(doc) \subseteq G
  BY <1>1, <1>2, NodeInduction
<1>4. ASSUME NEW n \in Nodes(doc), Places(up)[n].of # 0
      PROVE  /\ n \in up.left
             /\ ~Denied(rules, Places(doc)[n].path)
             /\ ~Denied(rules, Below(doc.nodes[n], Places(doc)[n].path))
  <2>1. n \in up.left /\ ~Denied(rules, Places(doc)[n].path)
    BY <1>3, <1>4 DEF G
  <2>2. n \in Filter(doc, Refused(doc, rules))
    BY <1>1, <2>1
  <2> QED
    BY <2>1, <2>2, KeptBelow
<1> QED
  BY <1>4

\* Some name on the path is denied wherever it stands.
DeniedByName(rules, path) == \E i \in 1..Len(path) : <<path[i]>> \in rules

LEMMA DeniedByNameConcat ==
  ASSUME NEW rules, NEW path \in Seq(STRING), NEW more \in Seq(STRING),
         DeniedByName(rules, path \o more)
  PROVE  DeniedByName(rules, path) \/ DeniedByName(rules, more)
<1> DEFINE all == path \o more
<1>1. /\ Len(path) \in Nat /\ Len(more) \in Nat /\ Len(all) = Len(path) + Len(more)
      /\ \A i \in 1..Len(path) : all[i] = path[i]
      /\ \A i \in 1..Len(more) : all[Len(path) + i] = more[i]
  OBVIOUS
<1>2. PICK i \in 1..Len(all) : <<all[i]>> \in rules
  BY DEF DeniedByName
<1> HIDE DEF all
<1>3. CASE i <= Len(path)
  BY <1>1, <1>2, <1>3, SMTT(40) DEF DeniedByName
<1>4. CASE ~(i <= Len(path))
  <2> DEFINE j == i - Len(path)
  <2>1. j \in 1..Len(more) /\ i = Len(path) + j
    BY <1>1, <1>2, <1>4
  <2> HIDE DEF j
  <2>2. <<more[j]>> \in rules
    BY <1>1, <1>2, <2>1
  <2> QED
    BY <2>1, <2>2 DEF DeniedByName
<1> QED
  BY <1>3, <1>4

LEMMA DeniedByNameAppend ==
  ASSUME NEW rules, NEW path \in Seq(STRING), NEW name \in STRING,
         DeniedByName(rules, Append(path, name))
  PROVE  DeniedByName(rules, path) \/ <<name>> \in rules
<1> DEFINE all == Append(path, name)
<1>1. /\ Len(path) \in Nat /\ Len(all) = Len(path) + 1
      /\ \A i \in 1..Len(path) : all[i] = path[i]
      /\ all[Len(path) + 1] = name
  BY AppendFacts
<1>2. PICK i \in 1..Len(all) : <<all[i]>> \in rules
  BY DEF DeniedByName
<1> HIDE DEF all
<1>3. CASE i <= Len(path)
  BY <1>1, <1>2, <1>3 DEF DeniedByName
<1>4. CASE i = Len(path) + 1
  BY <1>1, <1>2, <1>4
<1>5. i <= Len(path) \/ i = Len(path) + 1
  BY <1>1, <1>2
<1> QED
  BY <1>3, <1>4, <1>5

\* What stands somewhere in what is left: it is there, and no name on the way
\* is denied wherever it stands.
LEMMA NoNameDenied ==
  ASSUME NEW doc, NEW rules, NEW up, Rewriting(doc, rules, up),
         NEW d \in Nodes(doc)
  PROVE  \A k \in 0..Cardinality(Fragments(up)) :
           \A c \in Standing(up, d)[k] :
             /\ c.at \in Nodes(doc) /\ Places(up)[c.at].of # 0
             /\ ~DeniedByName(rules, c.path)
<1> DEFINE max == Cardinality(Fragments(up))
           Clear(k, c) == /\ c.at \in Nodes(doc) /\ Places(up)[c.at].of # 0
                          /\ ~DeniedByName(rules, c.path)
           G == {k \in Nat : k <= max => \A c \in Standing(up, d)[k] : Clear(k, c)}
<1>1. /\ SameNodes(doc, up) /\ IsTree(doc) /\ IsTree(up) /\ Nodes(up) = Nodes(doc)
      /\ rules \subseteq Seq(STRING) \ {<<>>}
      /\ Nodes(doc) \subseteq Nat \ {0}
  BY RewritingFacts, SameShape, TreeFacts DEF Rewriting
<1>2. max \in Nat
  BY <1>1, FragmentsAreCounted
<1>3. ASSUME NEW k, NEW c, NEW f, NEW path, Reached(up, d, k, c, f, path),
             ~DeniedByName(rules, path)
      PROVE  Clear(k, c)
  <2>1. /\ f \in Nodes(doc) /\ c.at \in Nodes(doc) /\ Places(up)[c.at].of = f
        /\ path \in Seq(STRING)
    BY <1>1, <1>3 DEF Reached
  <2>2. c.path = path \o Places(up)[c.at].path
    BY <1>1, <1>3, ReachedPath
  <2>3. Places(up)[c.at].of # 0
    BY <1>1, <2>1
  <2>4. ~Denied(rules, Places(doc)[c.at].path)
    BY <2>1, <2>3, Survivors
  <2>5. Places(up)[c.at].path = Places(doc)[c.at].path
    BY <1>1, <2>1, SamePaths
  <2>6. Places(doc)[c.at].path \in Seq(STRING)
    BY <1>1, <2>1, PathsAreNames
  <2>7. ~DeniedByName(rules, Places(doc)[c.at].path)
    BY <2>4 DEF Denied, DeniedByName
  <2>8. ~DeniedByName(rules, c.path)
    BY <1>3, <2>1, <2>2, <2>5, <2>6, <2>7, DeniedByNameConcat
  <2> QED
    BY <2>1, <2>3, <2>8
<1> HIDE DEF Clear
<1>4. 0 \in G
  <2> SUFFICES ASSUME NEW c \in Standing(up, d)[0]
               PROVE  Clear(0, c)
    OBVIOUS
  <2>1. Reached(up, d, 0, c, d, <<>>)
    BY <1>1, ReachedStart
  <2>2. ~DeniedByName(rules, <<>>)
    BY DEF DeniedByName
  <2> QED
    BY <1>3, <2>1, <2>2
<1>5. ASSUME NEW k \in Nat, k \in G
      PROVE  k + 1 \in G
  <2> SUFFICES ASSUME k + 1 <= max, NEW c \in Standing(up, d)[k + 1]
               PROVE  Clear(k + 1, c)
    OBVIOUS
  <2>1. k \in 0..max
    BY <1>2
  <2>2. \A s \in Standing(up, d)[k] : s.path \in Seq(STRING)
    BY <1>1, <2>1, StandingReached
  <2>3. PICK s \in Standing(up, d)[k] : \E f \in Spread(up, s.at) :
           Reached(up, d, k + 1, c, f, s.path)
    BY <1>1, <2>2, ReachedNext
  <2>4. ~DeniedByName(rules, s.path)
    BY <1>5, <2>1 DEF Clear
  <2> QED
    BY <1>3, <2>3, <2>4
<1> HIDE DEF G
<1>6. Nat \subseteq G
  BY <1>4, <1>5, SetInduction
<1> QED
  BY <1>2, <1>6 DEF G, Clear

LEMMA LeavesAre ==
  ASSUME NEW doc, NEW d, NEW leaf
  PROVE  leaf \in Leaves(doc, d) <=>
           \E k \in 0..Cardinality(Fragments(doc)) :
             \E c \in Standing(doc, d)[k] :
               /\ IsLeaf(doc, c.at)
               /\ leaf = [path |-> Append(c.path, doc.nodes[c.at].name),
                          named |-> c.named]
BY DEF Leaves

\* What is left asks for nothing denied, except by a path through a fragment
\* to a field that is denied at that path only.
LEMMA NothingDeniedIsLeft ==
  ASSUME NEW doc, NEW rules, NEW up, Rewriting(doc, rules, up),
         NEW leaf \in Requested(up), Denied(rules, leaf.path)
  PROVE  leaf.named /\ \A i \in DOMAIN leaf.path : <<leaf.path[i]>> \notin rules
<1>1. /\ SameNodes(doc, up) /\ IsTree(doc) /\ IsTree(up) /\ Nodes(up) = Nodes(doc)
      /\ up.nodes = doc.nodes
  BY RewritingFacts, SameShape
<1>2. PICK op \in Operations(up) : leaf \in Leaves(up, op)
  BY DEF Requested
<1>3. op \in Nodes(doc)
  BY <1>1 DEF Operations
<1>4. PICK k \in 0..Cardinality(Fragments(up)) :
        \E c \in Standing(up, op)[k] :
          /\ IsLeaf(up, c.at)
          /\ leaf = [path |-> Append(c.path, up.nodes[c.at].name), named |-> c.named]
  BY <1>2, LeavesAre
<1>5. PICK c \in Standing(up, op)[k] :
          /\ IsLeaf(up, c.at)
          /\ leaf = [path |-> Append(c.path, up.nodes[c.at].name), named |-> c.named]
  BY <1>4
<1> DEFINE name == doc.nodes[c.at].name
<1>6. /\ c.at \in Nodes(doc) /\ Places(up)[c.at].of # 0
      /\ ~DeniedByName(rules, c.path)
  BY <1>3, NoNameDenied
<1>7. PICK f, path : Reached(up, op, k, c, f, path)
  BY <1>1, <1>3, StandingReached
<1>8. c.path \in Seq(STRING) /\ name \in STRING
  BY <1>1, <1>6, <1>7, ReachedPath, TreeFacts
<1>9. doc.nodes[c.at].kind = "field" /\ leaf.path = Append(c.path, name)
  BY <1>1, <1>5 DEF IsLeaf
<1>10. c.at \in Filter(doc, Refused(doc, rules))
  BY <1>6, Survivors, RewritingFacts
<1>11. <<name>> \notin rules
  BY <1>9, <1>10, KeptIsNotRefused
<1>12. ~DeniedByName(rules, leaf.path)
  BY <1>6, <1>8, <1>9, <1>11, DeniedByNameAppend
<1>13. \A i \in DOMAIN leaf.path : <<leaf.path[i]>> \notin rules
  <2>1. leaf.path \in Seq(STRING)
    BY <1>8, <1>9, AppendFacts
  <2>2. DOMAIN leaf.path = 1..Len(leaf.path)
    BY <2>1
  <2> QED
    BY <1>12, <2>2 DEF DeniedByName
<1>14. k # 0
  <2> SUFFICES ASSUME k = 0
               PROVE  FALSE
    OBVIOUS
  <2>1. path = <<>>
    BY <1>7 DEF Reached
  <2>2. Places(up)[c.at].path = Places(doc)[c.at].path
    BY <1>1, <1>6, SamePaths
  <2>3. Places(doc)[c.at].path \in Seq(STRING)
    BY <1>1, <1>6, PathsAreNames
  <2>4. c.path = Places(doc)[c.at].path
    <3>0. c.path = path \o Places(up)[c.at].path
      BY <1>1, <1>7, ReachedPath
    <3>1. c.path = <<>> \o Places(doc)[c.at].path
      BY <2>1, <2>2, <3>0, Zenon
    <3> QED
      BY <2>3, <3>1
  <2>5. Below(doc.nodes[c.at], Places(doc)[c.at].path) = leaf.path
    BY <1>9, <2>4 DEF Below
  <2> QED
    BY <1>6, <2>5, Survivors
<1>15. leaf.named
  <2>1. c.named
    BY <1>1, <1>7, <1>14, ReachedPath
  <2> QED
    BY <1>5, <2>1
<1> QED
  BY <1>13, <1>15

\* Failed is no document, and what is not Failed is what the passes left.
LEMMA RemoveFieldsIs ==
  ASSUME NEW doc, NEW rules, IsParsed(doc), rules \subseteq Seq(STRING) \ {<<>>}
  PROVE  /\ Rewriting(doc, rules, Rewritten(doc, rules))
         /\ Rewritten(doc, rules).kind = "document" /\ Failed.kind = "failed"
         /\ (\E op \in Operations(doc) :
               \/ op \notin Filter(doc, Refused(doc, rules))
               \/ Selections(doc, op) \cap Rewritten(doc, rules).left = {})
              => RemoveFields(doc, rules) = Failed
         /\ ~(\E op \in Operations(doc) :
                \/ op \notin Filter(doc, Refused(doc, rules))
                \/ Selections(doc, op) \cap Rewritten(doc, rules).left = {})
              => RemoveFields(doc, rules) = Rewritten(doc, rules)
<1> DEFINE filtered == Filter(doc, Refused(doc, rules))
           left == WithoutSpreads(doc, filtered)
<1>1. Rewriting(doc, rules, Rewritten(doc, rules))
  BY DEF Rewriting
<1>2. Rewritten(doc, rules).left = left
  BY <1>1, RewritingFacts
<1>3. Rewritten(doc, rules).kind = "document"
  BY <1>1, RewritingFacts, SameShape, TreeFacts
<1>4. RemoveFields(doc, rules) = Removed(doc, filtered, left)
  BY DEF RemoveFields
<1>5. Rewritten(doc, rules) = [doc EXCEPT !.left = left]
  BY DEF Rewritten
<1> HIDE DEF filtered, left
<1>6. Removed(doc, filtered, left) =
        IF \E op \in Operations(doc) : op \notin filtered \/ Selections(doc, op) \cap left = {}
        THEN Failed ELSE [doc EXCEPT !.left = left]
  BY DEF Removed
<1>7. Failed.kind = "failed"
  BY DEF Failed
<1> QED
  BY <1>1, <1>2, <1>3, <1>4, <1>5, <1>6, <1>7, Zenon DEF filtered

-----------------------------------------------------------------------------
(* What removing leaves *)

LEMMA ConcatFacts ==
  ASSUME NEW q \in Seq(STRING), NEW path \in Seq(STRING), NEW name \in STRING
  PROVE  /\ q \o path \in Seq(STRING)
         /\ q \o Append(path, name) = Append(q \o path, name)
         /\ Append(path, name) = path \o <<name>> /\ <<name>> \in Seq(STRING)
<1>a. <<name>> \in Seq(STRING)
  BY SingletonSeq
<1>b. q \o path \in Seq(STRING)
  BY ConcatProperties
<1>1. <<name>> \in Seq(STRING) /\ q \o path \in Seq(STRING)
  BY <1>a, <1>b
<1>2. /\ Append(path, name) = path \o <<name>>
      /\ Append(q \o path, name) = (q \o path) \o <<name>>
  BY <1>1, AppendIsConcat
<1>3. (q \o path) \o <<name>> = q \o (path \o <<name>>)
  BY <1>1, ConcatAssociative
<1> QED
  BY <1>1, <1>2, <1>3

LEMMA DeniedBelow ==
  ASSUME NEW rules, NEW node, node.name \in STRING, NEW path \in Seq(STRING),
         ~Denied(rules, Below(node, path))
  PROVE  ~Denied(rules, path)
<1>1. CASE node.kind = "field"
  <2>1. Below(node, path) = path \o <<node.name>> /\ <<node.name>> \in Seq(STRING)
    BY <1>1, ConcatFacts DEF Below
  <2> QED
    BY <2>1, DeniedByPrefix
<1>2. CASE node.kind # "field"
  BY <1>2 DEF Below
<1> QED
  BY <1>1, <1>2

LEMMA BelowConcat ==
  ASSUME NEW node, node.name \in STRING, NEW q \in Seq(STRING), NEW path \in Seq(STRING)
  PROVE  q \o Below(node, path) = Below(node, q \o path)
<1>1. CASE node.kind = "field"
  <2>1. q \o Append(path, node.name) = Append(q \o path, node.name)
    BY ConcatFacts
  <2> QED
    BY <1>1, <2>1 DEF Below
<1>2. CASE node.kind # "field"
  BY <1>2 DEF Below
<1> QED
  BY <1>1, <1>2

\* In a parsed document every node is in a definition, that of its parent.
LEMMA ParsedPlaces ==
  ASSUME NEW doc, IsParsed(doc)
  PROVE  \A n \in Nodes(doc) :
           /\ Places(doc)[n].of \in Operations(doc) \cup Fragments(doc)
           /\ Places(doc)[n].of \in Nodes(doc) /\ Places(doc)[n].of # 0
           /\ Parent(doc, n) = 0 => Places(doc)[n].of = n
           /\ Parent(doc, n) # 0 => Places(doc)[n].of = Places(doc)[Parent(doc, n)].of
<1> DEFINE G == {n \in Nodes(doc) :
                   Places(doc)[n].of \in Operations(doc) \cup Fragments(doc)}
<1>1. IsTree(doc) /\ doc.left = Nodes(doc)
  BY DEF IsParsed
<1>2. ASSUME NEW n \in Nodes(doc)
      PROVE  /\ Parent(doc, n) = 0 => Places(doc)[n].of = n
             /\ Parent(doc, n) # 0 => Places(doc)[n].of = Places(doc)[Parent(doc, n)].of
  BY <1>1, PlaceOf
<1>3. ASSUME NEW n \in Nodes(doc), Parent(doc, n) = 0 \/ Parent(doc, n) \in G
      PROVE  n \in G
  BY <1>1, <1>2, <1>3, TreeFacts
<1> HIDE DEF G
<1>4. Nodes(doc) \subseteq G
  BY <1>1, <1>3, NodeInduction
<1>5. Operations(doc) \cup Fragments(doc) \subseteq Nodes(doc) /\ 0 \notin Nodes(doc)
  BY <1>1, TreeFacts DEF Operations, Fragments
<1> QED
  BY <1>2, <1>4, <1>5 DEF G

\* The first name of a path is that of a field at the definition's root.
LEMMA FirstName ==
  ASSUME NEW doc, IsParsed(doc), NEW d
  PROVE  \A n \in Nodes(doc) :
           (Places(doc)[n].of = d /\ Places(doc)[n].path # <<>>) =>
             \E m \in Nodes(doc) :
               /\ Places(doc)[m].of = d /\ Places(doc)[m].path = <<>>
               /\ doc.nodes[m].kind = "field"
               /\ doc.nodes[m].name = Places(doc)[n].path[1]
<1> DEFINE Root(m, name) ==
             /\ Places(doc)[m].of = d /\ Places(doc)[m].path = <<>>
             /\ doc.nodes[m].kind = "field"
             /\ doc.nodes[m].name = name
           G == {n \in Nodes(doc) :
                   (Places(doc)[n].of = d /\ Places(doc)[n].path # <<>>) =>
                     \E m \in Nodes(doc) : Root(m, Places(doc)[n].path[1])}
<1>1. IsTree(doc)
  BY DEF IsParsed
<1>2. ASSUME NEW n \in Nodes(doc), Parent(doc, n) = 0 \/ Parent(doc, n) \in G
      PROVE  n \in G
  <2> SUFFICES ASSUME Places(doc)[n].of = d, Places(doc)[n].path # <<>>
               PROVE  \E m \in Nodes(doc) : Root(m, Places(doc)[n].path[1])
    OBVIOUS
  <2> DEFINE p == Parent(doc, n)
             path == Places(doc)[p].path
  <2>1. p # 0
    BY <1>1, PlaceOf
  <2>2. /\ p \in Nodes(doc) /\ p \in G /\ Places(doc)[p].of = d
        /\ Places(doc)[n].path = Below(doc.nodes[p], path)
    BY <1>1, <1>2, <2>1, PlaceOf, ParsedPlaces
  <2>3. path \in Seq(STRING) /\ doc.nodes[p].name \in STRING
    BY <1>1, <2>2, PathsAreNames, TreeFacts
  <2>4. CASE path # <<>>
    <3>1. PICK m \in Nodes(doc) : Root(m, path[1])
      BY <2>2, <2>4
    <3>2. Places(doc)[n].path[1] = path[1]
      <4> HIDE DEF path, Root, G, p
      <4>1. Len(path) \in Nat /\ Len(path) # 0
        BY <2>3, <2>4
      <4>2. Append(path, doc.nodes[p].name)[1] = path[1]
        BY <2>3, <4>1, AppendFacts
      <4> QED
        BY <2>2, <4>2 DEF Below
    <3> QED
      BY <3>1, <3>2
  <2>5. CASE path = <<>>
    <3>1. doc.nodes[p].kind = "field"
      BY <2>2, <2>5 DEF Below
    <3>2. Places(doc)[n].path[1] = doc.nodes[p].name
      BY <2>2, <2>3, <2>5, <3>1 DEF Below
    <3> QED
      BY <2>2, <2>5, <3>1, <3>2
  <2> QED
    BY <2>4, <2>5
<1> HIDE DEF G
<1>3. Nodes(doc) \subseteq G
  BY <1>1, <1>2, NodeInduction
<1> QED
  BY <1>3 DEF G

\* What is reached at q in the definition d is at its path there, or no path
\* of the rules begins with a field at the root of d.
Rooted(doc, rules, d, q) ==
  q # <<>> =>
    \A rule \in rules : \A m \in Nodes(doc) :
      ( /\ Len(rule) > 1
        /\ Places(doc)[m].of = d /\ Places(doc)[m].path = <<>>
        /\ doc.nodes[m].kind = "field" ) =>
        doc.nodes[m].name # rule[1]

\* A field that is not denied where it stands is not refused.
LEMMA NotRefused ==
  ASSUME NEW doc, NEW rules, IsParsed(doc), rules \subseteq Seq(STRING) \ {<<>>},
         NEW d, NEW q \in Seq(STRING), Rooted(doc, rules, d, q),
         NEW n \in Nodes(doc), Places(doc)[n].of = d,
         ~Denied(rules, q \o Below(doc.nodes[n], Places(doc)[n].path))
  PROVE  n \notin Refused(doc, rules)
<1> DEFINE path == Places(doc)[n].path
           name == doc.nodes[n].name
           full == Append(path, name)
<1> SUFFICES ASSUME n \in Refused(doc, rules)
             PROVE  FALSE
  OBVIOUS
<1>1. IsTree(doc)
  BY DEF IsParsed
<1>2. path \in Seq(STRING) /\ name \in STRING
  BY <1>1, PathsAreNames, TreeFacts
<1>3. doc.nodes[n].kind = "field" /\ (<<name>> \in rules \/ full \in rules)
  BY DEF Refused, IsDenied
<1>4. ~Denied(rules, q \o full)
  BY <1>3 DEF Below
<1>5. q \o full = Append(q \o path, name) /\ q \o path \in Seq(STRING)
  BY <1>2, ConcatFacts
<1>6. path # <<>> =>
        \E m \in Nodes(doc) :
          /\ Places(doc)[m].of = d /\ Places(doc)[m].path = <<>>
          /\ doc.nodes[m].kind = "field" /\ doc.nodes[m].name = path[1]
  BY FirstName
<1> HIDE DEF path, name
<1>7. <<name>> \notin rules
  <2> SUFFICES ASSUME <<name>> \in rules
               PROVE  FALSE
    OBVIOUS
  <2> DEFINE all == Append(q \o path, name)
             last == Len(q \o path) + 1
  <2>1. last \in 1..Len(all) /\ all[last] = name
    BY <1>2, <1>5, AppendFacts
  <2> HIDE DEF all, last
  <2>2. Denied(rules, all)
    BY <2>1 DEF Denied
  <2> QED
    BY <1>4, <1>5, <2>2 DEF all
<1>8. full \in rules
  BY <1>3, <1>7
<1>9. /\ full \in Seq(STRING) /\ Len(path) \in Nat /\ Len(full) = Len(path) + 1
      /\ \A i \in 1..Len(path) : full[i] = path[i]
  BY <1>2, AppendFacts
<1> HIDE DEF full
<1>10. q # <<>>
  <2> SUFFICES ASSUME q = <<>>
               PROVE  FALSE
    OBVIOUS
  <2>1. q \o full = full
    BY <1>9
  <2>2. Len(full) <= Len(full) /\ \A i \in 1..Len(full) : full[i] = full[i]
    BY <1>9
  <2>3. Denied(rules, full)
    BY <1>8, <2>2 DEF Denied, Begins
  <2> QED
    BY <1>4, <2>1, <2>3
<1>11. path # <<>>
  <2> SUFFICES ASSUME path = <<>>
               PROVE  FALSE
    OBVIOUS
  <2>1. full = <<name>>
    BY <1>2 DEF full
  <2> QED
    BY <1>7, <1>8, <2>1
<1>12. Len(full) > 1 /\ full[1] = path[1]
  <2>1. Len(path) # 0
    BY <1>2, <1>11
  <2>2. 1 \in 1..Len(path)
    BY <1>9, <2>1
  <2> QED
    BY <1>9, <2>1, <2>2
<1> QED
  BY <1>6, <1>8, <1>10, <1>11, <1>12 DEF Rooted

\* What is left, some or all of the spreads that the first pass kept aside.
Leaving(doc, rules, up) ==
  /\ IsParsed(doc)
  /\ rules \subseteq Seq(STRING) \ {<<>>}
  /\ SameNodes(doc, up)
  /\ up.left \subseteq Filter(doc, Refused(doc, rules))
  /\ \A n \in Filter(doc, Refused(doc, rules)) :
       doc.nodes[n].kind # "spread" => n \in up.left

\* What is left and not denied where it stands holds what is around it, up to
\* the definition it is in.
LEMMA Held ==
  ASSUME NEW doc, NEW rules, NEW up, Leaving(doc, rules, up),
         NEW d, NEW q \in Seq(STRING), Rooted(doc, rules, d, q)
  PROVE  \A n \in Nodes(doc) :
           ( /\ n \in up.left /\ Places(doc)[n].of = d
             /\ ~Denied(rules, q \o Below(doc.nodes[n], Places(doc)[n].path)) ) =>
             /\ Places(up)[n].of = d /\ d \in up.left
             /\ n # d => Selections(doc, d) \cap up.left # {}
<1> DEFINE F == Filter(doc, Refused(doc, rules))
           Clear(n) == /\ n \in up.left /\ Places(doc)[n].of = d
                       /\ ~Denied(rules, q \o Below(doc.nodes[n], Places(doc)[n].path))
           Stays(n) == /\ Places(up)[n].of = d /\ d \in up.left
                       /\ n # d => Selections(doc, d) \cap up.left # {}
           G == {n \in Nodes(doc) : Clear(n) => Stays(n)}
<1>1. /\ IsParsed(doc) /\ IsTree(doc) /\ IsTree(up) /\ Nodes(up) = Nodes(doc)
      /\ up.nodes = doc.nodes /\ \A n : Parent(up, n) = Parent(doc, n)
      /\ up.left \subseteq F
      /\ \A n \in F : doc.nodes[n].kind # "spread" => n \in up.left
  BY SameShape DEF Leaving
<1>2. ASSUME NEW n \in Nodes(doc), Parent(doc, n) = 0 \/ Parent(doc, n) \in G
      PROVE  n \in G
  <2> SUFFICES ASSUME Clear(n)
               PROVE  Stays(n)
    OBVIOUS
  <2>1. CASE Parent(doc, n) = 0
    <3>1. Places(doc)[n].of = n
      BY <1>1, <2>1, ParsedPlaces
    <3>2. Places(up)[n].of = IF n \in up.left THEN n ELSE 0
      BY <1>1, <2>1, PlaceOf
    <3> QED
      BY <3>1, <3>2
  <2>2. CASE Parent(doc, n) # 0
    <3> DEFINE p == Parent(doc, n)
               path == Places(doc)[n].path
    <3>1. /\ p \in Nodes(doc) /\ p \in G /\ doc.nodes[p].kind # "spread"
          /\ Places(doc)[p].of = d
          /\ Places(up)[n].of = Places(up)[p].of
          /\ path = Below(doc.nodes[p], Places(doc)[p].path)
          /\ n \in Selections(doc, p)
      <4>1. p \in Nodes(doc) /\ p \in G /\ doc.nodes[p].kind # "spread"
        BY <1>1, <1>2, <2>2, TreeFacts
      <4>2. Places(doc)[p].of = d
        BY <1>1, <2>2, ParsedPlaces
      <4>3. Places(up)[n].of = Places(up)[p].of
        BY <1>1, <2>2, PlaceOf
      <4>4. path = Below(doc.nodes[p], Places(doc)[p].path)
        BY <1>1, <2>2, PlaceOf
      <4>5. n \in Selections(doc, p)
        BY DEF Selections, Parent
      <4> QED
        BY <4>1, <4>2, <4>3, <4>4, <4>5
    <3>2. path \in Seq(STRING) /\ doc.nodes[n].name \in STRING
      BY <1>1, PathsAreNames, TreeFacts
    <3>3. ~Denied(rules, q \o path)
      <4>1. q \o Below(doc.nodes[n], path) = Below(doc.nodes[n], q \o path)
        BY <3>2, BelowConcat
      <4>2. q \o path \in Seq(STRING)
        BY <3>2, ConcatProperties
      <4>3. ~Denied(rules, Below(doc.nodes[n], q \o path))
        BY <4>1
      <4> QED
        BY <3>2, <4>2, <4>3, DeniedBelow
    <3>4. p \notin Refused(doc, rules)
      BY <1>1, <3>1, <3>3, NotRefused DEF Leaving
    <3>5. p \in F
      <4>1. n \in F
        BY <1>1
      <4>2. Selections(doc, p) \cap F # {}
        BY <3>1, <4>1
      <4> QED
        BY <1>1, <3>1, <3>4, <4>2, FilterKeeps
    <3>6. p \in up.left
      BY <1>1, <3>1, <3>5
    <3>7. Clear(p)
      BY <3>1, <3>3, <3>6
    <3>8. Stays(p)
      BY <3>1, <3>7
    <3>9. Selections(doc, d) \cap up.left # {}
      <4>1. CASE p = d
        BY <3>1, <4>1
      <4>2. CASE p # d
        BY <3>8, <4>2
      <4> QED
        BY <4>1, <4>2
    <3> QED
      BY <3>1, <3>8, <3>9
  <2> QED
    BY <2>1, <2>2
<1> HIDE DEF G, Clear, Stays
<1>3. Nodes(doc) \subseteq G
  BY <1>1, <1>2, NodeInduction
<1>4. \A n \in Nodes(doc) : Clear(n) => Stays(n)
  BY <1>3 DEF G
<1> QED
  BY <1>4 DEF Clear, Stays

LEMMA RewritingLeaves ==
  ASSUME NEW doc, NEW rules, NEW up, Rewriting(doc, rules, up)
  PROVE  Leaving(doc, rules, up)
<1>1. /\ up.left = WithoutSpreads(doc, Filter(doc, Refused(doc, rules)))
      /\ SameNodes(doc, up)
      /\ up.left \subseteq Filter(doc, Refused(doc, rules))
  BY RewritingFacts
<1> QED
  BY <1>1 DEF Leaving, Rewriting, WithoutSpreads

\* Leaves and spreads have no selections, so the first pass keeps them unless
\* they are refused.
LEMMA FilterKeepsBare ==
  ASSUME NEW doc, NEW rules, IsParsed(doc), NEW n \in Nodes(doc),
         n \notin Refused(doc, rules),
         \/ doc.nodes[n].kind = "spread"
         \/ WellFormed(doc) /\ IsLeaf(doc, n)
  PROVE  n \in Filter(doc, Refused(doc, rules)) /\ Selections(doc, n) = {}
<1>1. IsTree(doc) /\ doc.left = Nodes(doc)
  BY DEF IsParsed
<1>2. Selections(doc, n) \subseteq Nodes(doc)
  BY DEF Selections
<1>3. Selections(doc, n) = {}
  <2>1. CASE doc.nodes[n].kind = "spread"
    <3> SUFFICES ASSUME NEW m \in Selections(doc, n)
                 PROVE  FALSE
      OBVIOUS
    <3>1. m \in Nodes(doc) /\ Parent(doc, m) = n /\ n # 0
      BY <1>1, SelectionsAfter, TreeFacts
    <3> QED
      BY <1>1, <2>1, <3>1, TreeFacts
  <2>2. CASE WellFormed(doc) /\ IsLeaf(doc, n)
    <3>1. n \in Present(doc)
      BY ParsedPlaces DEF Present
    <3>2. (Selections(doc, n) \cap doc.left # {}) <=>
            \/ doc.nodes[n].kind \in {"operation", "fragment", "inline"}
            \/ doc.nodes[n].kind = "field" /\ doc.nodes[n].name \in ObjectFields
      BY <2>2, <3>1 DEF WellFormed
    <3>3. doc.nodes[n].kind = "field" /\ doc.nodes[n].name \notin ObjectFields
      BY <2>2 DEF IsLeaf
    <3>4. Selections(doc, n) \cap doc.left = {}
      BY <3>2, <3>3
    <3> QED
      BY <1>1, <1>2, <3>4
  <2> QED
    BY <2>1, <2>2
<1> QED
  BY <1>1, <1>3, FilterKeeps

LEMMA RootedWhereReached ==
  ASSUME NEW doc, NEW rules, IsParsed(doc), Valid(doc, rules),
         NEW op \in Operations(doc), NEW k \in 0..Cardinality(Fragments(doc)),
         NEW c, NEW f, NEW q, Reached(doc, op, k, c, f, q)
  PROVE  Rooted(doc, rules, f, q)
<1> SUFFICES ASSUME NEW rule \in rules, NEW m \in Nodes(doc), Len(rule) > 1,
                    Places(doc)[m].of = f, Places(doc)[m].path = <<>>,
                    doc.nodes[m].kind = "field", doc.nodes[m].name = rule[1]
             PROVE  q = <<>>
  BY DEF Rooted
<1> DEFINE named == k # 0
           e == [at |-> m, path |-> q \o Places(doc)[m].path, named |-> named]
<1>1. q \in Seq(STRING) /\ Within(doc, f, q, named) \subseteq Standing(doc, op)[k]
  BY DEF Reached
<1> HIDE DEF named
<1>2. e \in Within(doc, f, q, named)
  BY Zenon DEF Within
<1>3. e \in Standing(doc, op)[k] /\ e.at = m /\ e.path = q \o <<>>
  BY <1>1, <1>2
<1>4. q \o <<>> = q
  BY <1>1
<1> HIDE DEF e
<1>5. \A s \in Standing(doc, op)[k] :
        (doc.nodes[s.at].kind = "field" /\ doc.nodes[s.at].name = rule[1]) =>
          s.path = <<>>
  BY DEF Valid
<1>6. e.path = <<>>
  BY <1>3, <1>5
<1> QED
  BY <1>3, <1>4, <1>6

\* A spread stays when a node of a fragment it spreads does.
LEMMA SpreadStays ==
  ASSUME NEW doc, NEW rules, NEW up, Rewriting(doc, rules, up), Valid(doc, rules),
         NEW n \in Nodes(doc), NEW f \in Spread(doc, n), f \in up.left
  PROVE  n \in up.left
<1>1. /\ IsParsed(doc) /\ doc.nodes[n].kind = "spread"
      /\ f \in Fragments(doc) /\ doc.nodes[f].name = doc.nodes[n].name
  BY DEF Rewriting, Spread
<1>2. n \in Filter(doc, Refused(doc, rules))
  <2>1. n \notin Refused(doc, rules)
    BY <1>1 DEF Refused
  <2> QED
    BY <1>1, <2>1, FilterKeepsBare
<1>3. up.left = WithoutSpreads(doc, Filter(doc, Refused(doc, rules)))
      /\ f \in Filter(doc, Refused(doc, rules))
  BY RewritingFacts
<1>4. \A g \in Fragments(doc) : doc.nodes[g].name = doc.nodes[n].name => g = f
  BY <1>1 DEF Valid
<1> QED
  BY <1>2, <1>3, <1>4 DEF WithoutSpreads

\* A selection that is left and not denied where it stands.
Alive(doc, rules, up, c) ==
  /\ doc.nodes[c.at].kind \in {"field", "spread"}
  /\ c.at \in up.left
  /\ ~Denied(rules, Below(doc.nodes[c.at], c.path))

\* It stands there in what is left, too, and its operation is not empty.
LEMMA AliveStands ==
  ASSUME NEW doc, NEW rules, NEW up, Rewriting(doc, rules, up), Valid(doc, rules),
         NEW op \in Operations(doc)
  PROVE  \A k \in 0..Cardinality(Fragments(doc)) :
           \A c \in Standing(doc, op)[k] :
             Alive(doc, rules, up, c) =>
               /\ c \in Standing(up, op)[k]
               /\ op \in up.left /\ Selections(doc, op) \cap up.left # {}
<1> DEFINE max == Cardinality(Fragments(doc))
           Stands(k, c) == /\ c \in Standing(up, op)[k]
                           /\ op \in up.left
                           /\ Selections(doc, op) \cap up.left # {}
           G == {k \in Nat : k <= max =>
                   \A c \in Standing(doc, op)[k] :
                     Alive(doc, rules, up, c) => Stands(k, c)}
<1>1. /\ IsParsed(doc) /\ IsTree(doc) /\ IsTree(up) /\ SameNodes(doc, up)
      /\ Nodes(up) = Nodes(doc) /\ Fragments(up) = Fragments(doc)
      /\ op \in Nodes(doc) /\ doc.nodes[op].kind = "operation"
      /\ \A n : Spread(up, n) = Spread(doc, n)
      /\ Leaving(doc, rules, up)
      /\ rules \subseteq Seq(STRING) \ {<<>>}
  <2>1. /\ IsParsed(doc) /\ IsTree(doc)
        /\ op \in Nodes(doc) /\ doc.nodes[op].kind = "operation"
        /\ rules \subseteq Seq(STRING) \ {<<>>}
    BY DEF Rewriting, IsParsed, Operations
  <2>2. SameNodes(doc, up) /\ Leaving(doc, rules, up)
    BY RewritingFacts, RewritingLeaves
  <2> QED
    BY <2>1, <2>2, SameShape
<1>2. max \in Nat
  BY <1>1, FragmentsAreCounted
<1>3. ASSUME NEW k \in 0..max, NEW c, NEW f, NEW q, Reached(doc, op, k, c, f, q),
             Alive(doc, rules, up, c)
      PROVE  /\ c.at \in Nodes(doc) /\ Places(up)[c.at].of = f
             /\ Places(up)[c.at].path = Places(doc)[c.at].path
             /\ f \in up.left
             /\ c.at # f => Selections(doc, f) \cap up.left # {}
             /\ ~Denied(rules, c.path)
  <2>1. c.at \in Nodes(doc) /\ Places(doc)[c.at].of = f /\ q \in Seq(STRING)
    BY <1>3 DEF Reached
  <2>2. c.path \in Seq(STRING) /\ c.path = q \o Places(doc)[c.at].path
    BY <1>1, <1>3, ReachedPath
  <2>3. Places(doc)[c.at].path \in Seq(STRING) /\ doc.nodes[c.at].name \in STRING
    BY <1>1, <2>1, PathsAreNames, TreeFacts
  <2>4. q \o Below(doc.nodes[c.at], Places(doc)[c.at].path) = Below(doc.nodes[c.at], c.path)
    <3>1. q \o Below(doc.nodes[c.at], Places(doc)[c.at].path) =
            Below(doc.nodes[c.at], q \o Places(doc)[c.at].path)
      BY <2>1, <2>3, BelowConcat
    <3> QED
      BY <2>2, <3>1, Zenon
  <2>5. Rooted(doc, rules, f, q)
    BY <1>1, <1>3, RootedWhereReached
  <2>6. /\ c.at \in up.left
        /\ ~Denied(rules, q \o Below(doc.nodes[c.at], Places(doc)[c.at].path))
    BY <1>3, <2>4 DEF Alive
  <2>7. ~Denied(rules, c.path)
    BY <1>3, <2>2, <2>3, DeniedBelow DEF Alive
  <2>8. Places(up)[c.at].path = Places(doc)[c.at].path
    BY <1>1, <2>1, SamePaths
  <2> QED
    BY <1>1, <2>1, <2>5, <2>6, <2>7, <2>8, Held
<1> HIDE DEF Stands
<1>4. 0 \in G
  <2> SUFFICES ASSUME NEW c \in Standing(doc, op)[0], Alive(doc, rules, up, c)
               PROVE  Stands(0, c)
    OBVIOUS
  <2>1. Reached(doc, op, 0, c, op, <<>>)
    BY <1>1, ReachedStart
  <2>2. 0 \in 0..max /\ 0 \in 0..Cardinality(Fragments(up))
    BY <1>1, <1>2
  <2>3. /\ c.at \in Nodes(doc) /\ Places(up)[c.at].of = op
        /\ Places(up)[c.at].path = Places(doc)[c.at].path
        /\ op \in up.left
        /\ c.at # op => Selections(doc, op) \cap up.left # {}
    BY <1>3, <2>1, <2>2
  <2>4. c.at # op
    BY <1>1 DEF Alive
  <2>5. c \in Standing(up, op)[0]
    <3>1. Standing(up, op)[0] = Within(up, op, <<>>, FALSE)
      BY <1>1, <2>2, StandingIs DEF Stand
    <3>2. Standing(doc, op)[0] = Within(doc, op, <<>>, FALSE)
      BY <1>1, <2>2, StandingIs DEF Stand
    <3>3. PICK n \in Nodes(doc) :
            c = [at |-> n, path |-> <<>> \o Places(doc)[n].path, named |-> FALSE]
      <4>1. c \in Within(doc, op, <<>>, FALSE)
        BY <3>2
      <4> QED
        BY <4>1, Zenon DEF Within
    <3>4. n = c.at
      BY <3>3
    <3>5. c = [at |-> n, path |-> <<>> \o Places(up)[n].path, named |-> FALSE]
      BY <2>3, <3>3, <3>4, Zenon
    <3>6. n \in Nodes(up) /\ Places(up)[n].of = op
      BY <1>1, <2>3, <3>4
    <3>7. c \in Within(up, op, <<>>, FALSE)
      BY <3>5, <3>6, Zenon DEF Within
    <3> QED
      BY <3>1, <3>7
  <2> QED
    BY <2>3, <2>4, <2>5 DEF Stands
<1>5. ASSUME NEW k \in Nat, k \in G
      PROVE  k + 1 \in G
  <2> SUFFICES ASSUME k + 1 <= max, NEW c \in Standing(doc, op)[k + 1],
                      Alive(doc, rules, up, c)
               PROVE  Stands(k + 1, c)
    OBVIOUS
  <2>1. k \in 0..max /\ k + 1 \in 0..max /\ k + 1 <= Cardinality(Fragments(up))
    BY <1>1, <1>2
  <2>2. \A s \in Standing(doc, op)[k] : s.path \in Seq(STRING)
    BY <1>1, <2>1, StandingReached
  <2>3. PICK s \in Standing(doc, op)[k] : \E g \in Spread(doc, s.at) :
           Reached(doc, op, k + 1, c, g, s.path)
    BY <1>1, <2>2, ReachedNext
  <2>4. PICK f \in Spread(doc, s.at) : Reached(doc, op, k + 1, c, f, s.path)
    BY <2>3
  <2>5. /\ c.at \in Nodes(doc) /\ Places(up)[c.at].of = f
        /\ Places(up)[c.at].path = Places(doc)[c.at].path
        /\ f \in up.left /\ ~Denied(rules, c.path)
    BY <1>3, <2>1, <2>4
  <2>6. s.at \in Nodes(doc) /\ doc.nodes[s.at].kind = "spread"
    BY <1>1, <2>1, StandingReached DEF Reached, Spread
  <2>7. s.at \in up.left
    BY <2>4, <2>5, <2>6, SpreadStays
  <2>8. ~Denied(rules, s.path)
    <3>1. c.path = s.path \o Places(doc)[c.at].path
      <4> DEFINE named == k + 1 # 0
                 path == s.path \o Places(doc)[c.at].path
      <4>1. c = [at |-> c.at, path |-> path, named |-> named]
        BY <2>4, Zenon DEF Reached
      <4> HIDE DEF named, path
      <4>2. c.path = path
        BY <4>1
      <4> QED
        BY <4>2 DEF path
    <3>2. s.path \in Seq(STRING) /\ Places(doc)[c.at].path \in Seq(STRING)
      BY <1>1, <2>2, <2>5, PathsAreNames
    <3> QED
      BY <2>5, <3>1, <3>2, DeniedByPrefix
  <2>9. Alive(doc, rules, up, s)
    BY <2>6, <2>7, <2>8 DEF Alive, Below
  <2>10. Stands(k, s)
    BY <1>5, <2>1, <2>9
  <2>11. c \in Standing(up, op)[k + 1]
    <3>1. c \in Standing(doc, op)[k + 1]
      OBVIOUS
    <3> DEFINE named == k + 1 # 0
    <3>2. c = [at |-> c.at, path |-> s.path \o Places(doc)[c.at].path, named |-> named]
      BY <2>4, Zenon DEF Reached
    <3>3. named = TRUE
      BY <2>1
    <3> HIDE DEF named
    <3>4. c = [at |-> c.at, path |-> s.path \o Places(up)[c.at].path, named |-> TRUE]
      BY <2>5, <3>2, <3>3, Zenon
    <3>5. c \in Within(up, f, s.path, TRUE)
      BY <1>1, <2>5, <3>4, Zenon DEF Within
    <3>6. s \in Standing(up, op)[k] /\ f \in Spread(up, s.at)
      BY <1>1, <2>4, <2>10 DEF Stands
    <3> QED
      BY <1>1, <2>1, <3>5, <3>6, StandingNext, Zenon
  <2> QED
    BY <2>10, <2>11 DEF Stands
<1> HIDE DEF G
<1>6. Nat \subseteq G
  BY <1>4, <1>5, SetInduction
<1> QED
  BY <1>2, <1>6 DEF G, Stands

\* A leaf that is not denied where it stands is alive.
LEMMA LeafIsAlive ==
  ASSUME NEW doc, NEW rules, NEW up, Rewriting(doc, rules, up), Valid(doc, rules),
         NEW op \in Operations(doc), NEW k \in 0..Cardinality(Fragments(doc)),
         NEW c \in Standing(doc, op)[k], IsLeaf(doc, c.at),
         ~Denied(rules, Append(c.path, doc.nodes[c.at].name))
  PROVE  Alive(doc, rules, up, c)
<1>1. /\ IsParsed(doc) /\ IsTree(doc) /\ Leaving(doc, rules, up)
      /\ op \in Nodes(doc) /\ rules \subseteq Seq(STRING) \ {<<>>}
      /\ doc.nodes[c.at].kind = "field" /\ WellFormed(doc)
  BY RewritingLeaves DEF Rewriting, IsParsed, Operations, IsLeaf, Valid
<1>2. PICK f, q : Reached(doc, op, k, c, f, q)
  BY <1>1, StandingReached
<1>3. c.at \in Nodes(doc) /\ Places(doc)[c.at].of = f /\ q \in Seq(STRING)
  BY <1>2 DEF Reached
<1>4. c.path = q \o Places(doc)[c.at].path
  BY <1>1, <1>2, ReachedPath
<1>5. Places(doc)[c.at].path \in Seq(STRING) /\ doc.nodes[c.at].name \in STRING
  BY <1>1, <1>3, PathsAreNames, TreeFacts
<1>6. ~Denied(rules, Below(doc.nodes[c.at], c.path))
  BY <1>1 DEF Below
<1>7. ~Denied(rules, q \o Below(doc.nodes[c.at], Places(doc)[c.at].path))
  <2>1. q \o Below(doc.nodes[c.at], Places(doc)[c.at].path) =
          Below(doc.nodes[c.at], q \o Places(doc)[c.at].path)
    BY <1>3, <1>5, BelowConcat
  <2>2. q \o Below(doc.nodes[c.at], Places(doc)[c.at].path) =
          Below(doc.nodes[c.at], c.path)
    BY <1>4, <2>1, Zenon
  <2> QED
    BY <1>6, <2>2, Zenon
<1>8. Rooted(doc, rules, f, q)
  BY <1>1, <1>2, RootedWhereReached
<1>9. c.at \notin Refused(doc, rules)
  BY <1>1, <1>3, <1>7, <1>8, NotRefused
<1>10. c.at \in Filter(doc, Refused(doc, rules))
  BY <1>1, <1>3, <1>9, FilterKeepsBare
<1>11. c.at \in up.left
  BY <1>1, <1>10 DEF Leaving
<1> QED
  BY <1>1, <1>6, <1>11 DEF Alive

\* A leaf that is not denied is still asked for, and its operation stays.
LEMMA OthersAreLeft ==
  ASSUME NEW doc, NEW rules, NEW up, Rewriting(doc, rules, up), Valid(doc, rules),
         NEW op \in Operations(doc), NEW leaf \in Leaves(doc, op),
         ~Denied(rules, leaf.path)
  PROVE  /\ leaf \in Leaves(up, op)
         /\ op \in up.left /\ Selections(doc, op) \cap up.left # {}
<1>1. /\ Fragments(up) = Fragments(doc) /\ up.nodes = doc.nodes
      /\ \A n : IsLeaf(up, n) = IsLeaf(doc, n)
  BY RewritingFacts, SameShape
<1>2. PICK k \in 0..Cardinality(Fragments(doc)) :
        \E c \in Standing(doc, op)[k] :
          /\ IsLeaf(doc, c.at)
          /\ leaf = [path |-> Append(c.path, doc.nodes[c.at].name), named |-> c.named]
  BY LeavesAre
<1>3. PICK c \in Standing(doc, op)[k] :
          /\ IsLeaf(doc, c.at)
          /\ leaf = [path |-> Append(c.path, doc.nodes[c.at].name), named |-> c.named]
  BY <1>2
<1>4. Alive(doc, rules, up, c)
  BY <1>3, LeafIsAlive
<1>5. /\ c \in Standing(up, op)[k]
      /\ op \in up.left /\ Selections(doc, op) \cap up.left # {}
  BY <1>4, AliveStands
<1>6. IsLeaf(up, c.at)
  BY <1>1, <1>3
<1>7. leaf \in Leaves(up, op)
  BY <1>1, <1>3, <1>5, <1>6, LeavesAre
<1> QED
  BY <1>5, <1>7

-----------------------------------------------------------------------------
(* Well-formed documents *)

\* What the first pass leaves.
Filtered(doc, rules) == [doc EXCEPT !.left = Filter(doc, Refused(doc, rules))]

LEMMA FilteredLeaves ==
  ASSUME NEW doc, NEW rules, IsParsed(doc), rules \subseteq Seq(STRING) \ {<<>>}
  PROVE  /\ Leaving(doc, rules, Filtered(doc, rules))
         /\ Filtered(doc, rules).left = Filter(doc, Refused(doc, rules))
<1> DEFINE F == Filter(doc, Refused(doc, rules))
           up == Filtered(doc, rules)
<1>1. IsTree(doc)
  BY DEF IsParsed
<1>2. doc = [kind |-> "document", nodes |-> doc.nodes, left |-> doc.left]
  BY <1>1 DEF IsTree
<1>3. F \subseteq Nodes(doc)
  BY <1>1, FilterKeeps
<1>4. up = [doc EXCEPT !.left = F]
  BY DEF Filtered
<1> HIDE DEF F, up
<1>5. up.left = F
  BY <1>2, <1>4
<1> QED
  BY <1>1, <1>3, <1>4, <1>5 DEF Leaving, SameNodes, F, up

\* A fragment that asks for something not denied, at its own paths, is kept.
LEMMA FragmentKept ==
  ASSUME NEW doc, NEW rules, IsParsed(doc), rules \subseteq Seq(STRING) \ {<<>>},
         WellFormed(doc), NEW d \in Fragments(doc),
         NEW leaf \in Leaves(doc, d), ~Denied(rules, leaf.path)
  PROVE  d \in Filter(doc, Refused(doc, rules))
<1> DEFINE F == Filter(doc, Refused(doc, rules))
           max == Cardinality(Fragments(doc))
           Bare(n) == doc.nodes[n].kind = "spread" \/ IsLeaf(doc, n)
           Clear(c) == Bare(c.at) /\ ~Denied(rules, Below(doc.nodes[c.at], c.path))
           G == {k \in Nat : k <= max =>
                   \A c \in Standing(doc, d)[k] : Clear(c) => d \in F}
<1>1. IsTree(doc) /\ d \in Nodes(doc) /\ max \in Nat
  BY FragmentsAreCounted DEF IsParsed, Fragments
<1>2. 0 \in G
  <2> SUFFICES ASSUME NEW c \in Standing(doc, d)[0], Clear(c)
               PROVE  d \in F
    OBVIOUS
  <2> DEFINE path == Places(doc)[c.at].path
             up == Filtered(doc, rules)
  <2>1. Reached(doc, d, 0, c, d, <<>>)
    BY <1>1, ReachedStart
  <2>2. c.at \in Nodes(doc) /\ Places(doc)[c.at].of = d
    BY <2>1 DEF Reached
  <2>3. path \in Seq(STRING) /\ Below(doc.nodes[c.at], path) \in Seq(STRING)
    BY <1>1, <2>2, PathsAreNames
  <2>4. c.path = <<>> \o path
    BY <1>1, <2>1, ReachedPath
  <2>5. <<>> \o path = path /\ <<>> \o Below(doc.nodes[c.at], path) = Below(doc.nodes[c.at], path)
    BY <2>3, ConcatEmptySeq
  <2>6. ~Denied(rules, <<>> \o Below(doc.nodes[c.at], path))
    BY <2>4, <2>5, Zenon
  <2>7. Rooted(doc, rules, d, <<>>) /\ <<>> \in Seq(STRING)
    BY DEF Rooted
  <2>8. c.at \notin Refused(doc, rules)
    BY <2>2, <2>6, <2>7, NotRefused
  <2>9. c.at \in F
    BY <2>2, <2>8, FilterKeepsBare
  <2>10. Leaving(doc, rules, up) /\ up.left = F
    BY FilteredLeaves
  <2> HIDE DEF F, up
  <2> QED
    BY <2>2, <2>6, <2>7, <2>9, <2>10, Held
<1>3. ASSUME NEW k \in Nat, k \in G
      PROVE  k + 1 \in G
  <2> SUFFICES ASSUME k + 1 <= max, NEW c \in Standing(doc, d)[k + 1], Clear(c)
               PROVE  d \in F
    OBVIOUS
  <2>1. k \in 0..max
    BY <1>1
  <2>2. \A s \in Standing(doc, d)[k] : s.path \in Seq(STRING)
    BY <1>1, <2>1, StandingReached
  <2>3. PICK s \in Standing(doc, d)[k] : \E g \in Spread(doc, s.at) :
           Reached(doc, d, k + 1, c, g, s.path)
    BY <1>1, <2>2, ReachedNext
  <2>4. PICK f \in Spread(doc, s.at) : Reached(doc, d, k + 1, c, f, s.path)
    BY <2>3
  <2>5. doc.nodes[s.at].kind = "spread"
    BY DEF Spread
  <2>6. c.at \in Nodes(doc)
    BY <2>4 DEF Reached
  <2>7. c.path = s.path \o Places(doc)[c.at].path
    <3> DEFINE named == k + 1 # 0
               path == s.path \o Places(doc)[c.at].path
    <3>1. c = [at |-> c.at, path |-> path, named |-> named]
      BY <2>4, Zenon DEF Reached
    <3> HIDE DEF named, path
    <3>2. c.path = path
      BY <3>1
    <3> QED
      BY <3>2 DEF path
  <2>8. /\ s.path \in Seq(STRING) /\ Places(doc)[c.at].path \in Seq(STRING)
        /\ doc.nodes[c.at].name \in STRING /\ c.path \in Seq(STRING)
    <3>1. s.path \in Seq(STRING)
      BY <2>2
    <3>2. Places(doc)[c.at].path \in Seq(STRING) /\ doc.nodes[c.at].name \in STRING
      BY <1>1, <2>6, PathsAreNames, TreeFacts
    <3>3. s.path \o Places(doc)[c.at].path \in Seq(STRING)
      BY <3>1, <3>2, ConcatProperties
    <3> QED
      BY <2>7, <3>1, <3>2, <3>3
  <2>9. ~Denied(rules, c.path)
    BY <2>8, DeniedBelow
  <2>10. ~Denied(rules, s.path)
    BY <2>7, <2>8, <2>9, DeniedByPrefix
  <2>11. Clear(s)
    BY <2>5, <2>10 DEF Below
  <2> QED
    BY <1>3, <2>1, <2>11
<1> HIDE DEF G
<1>4. Nat \subseteq G
  BY <1>2, <1>3, SetInduction
<1>5. PICK k \in 0..max :
        \E c \in Standing(doc, d)[k] :
          /\ IsLeaf(doc, c.at)
          /\ leaf = [path |-> Append(c.path, doc.nodes[c.at].name), named |-> c.named]
  BY LeavesAre
<1>6. PICK c \in Standing(doc, d)[k] :
          /\ IsLeaf(doc, c.at)
          /\ leaf = [path |-> Append(c.path, doc.nodes[c.at].name), named |-> c.named]
  BY <1>5
<1>7. Clear(c)
  BY <1>6 DEF Below, IsLeaf
<1> QED
  BY <1>1, <1>4, <1>6, <1>7 DEF G

\* What stays is well formed when every fragment does and the rules take no
\* object field away: the spreads stay with the fragments.
LEMMA WellFormedIsLeft ==
  ASSUME NEW doc, NEW rules, NEW up, Rewriting(doc, rules, up), WellFormed(doc),
         Fragments(doc) # {} => \A rule \in rules : rule[Len(rule)] \notin ObjectFields,
         \A f \in Fragments(doc) :
           \E leaf \in Leaves(doc, f) : ~Denied(rules, leaf.path)
  PROVE  WellFormed(up)
<1> DEFINE F == Filter(doc, Refused(doc, rules))
<1>1. /\ IsParsed(doc) /\ IsTree(doc) /\ IsTree(up) /\ SameNodes(doc, up)
      /\ doc.left = Nodes(doc) /\ rules \subseteq Seq(STRING) \ {<<>>}
  BY RewritingFacts, SameShape DEF Rewriting, IsParsed
<1>2. /\ up.nodes = doc.nodes /\ Nodes(up) = Nodes(doc)
      /\ Fragments(up) = Fragments(doc)
      /\ \A n : Selections(up, n) = Selections(doc, n) /\ Parent(up, n) = Parent(doc, n)
  BY <1>1, SameShape
<1>3. Fragments(doc) \subseteq F
  BY <1>1, FragmentKept
<1>4. up.left = F
  <2>1. up.left = WithoutSpreads(doc, F)
    BY RewritingFacts
  <2> HIDE DEF F
  <2>2. Fragments(doc) \ F = {}
    BY <1>3
  <2> QED
    BY <2>1, <2>2 DEF WithoutSpreads
<1>5. \A n \in Nodes(doc) : Selections(doc, n) \subseteq Nodes(doc)
  BY DEF Selections
<1>6. Present(doc) = Nodes(doc)
  BY <1>1, ParsedPlaces DEF Present
<1>7. Present(up) \subseteq F /\ F \subseteq Nodes(doc)
  BY <1>1, <1>2, <1>4, Survivors, FilterKeeps DEF Present
<1>8. ASSUME NEW n \in F
      PROVE  (Selections(up, n) \cap up.left # {}) <=>
               \/ up.nodes[n].kind \in {"operation", "fragment", "inline"}
               \/ up.nodes[n].kind = "field" /\ up.nodes[n].name \in ObjectFields
  <2>1. n \in Nodes(doc)
    BY <1>7
  <2>2. (Selections(doc, n) \cap doc.left # {}) <=>
               \/ doc.nodes[n].kind \in {"operation", "fragment", "inline"}
               \/ doc.nodes[n].kind = "field" /\ doc.nodes[n].name \in ObjectFields
    BY <1>6, <2>1 DEF WellFormed
  <2>3. Selections(doc, n) \cap doc.left = Selections(doc, n)
    BY <1>1, <1>5, <2>1
  <2>4. Selections(doc, n) # {} <=> Selections(doc, n) \cap F # {}
    BY <1>1, <1>8, <2>1, FilterKeeps
  <2> QED
    BY <1>2, <1>4, <2>2, <2>3, <2>4
<1>9. \A n \in Fragments(doc) : n \in Present(up)
  <2> SUFFICES ASSUME NEW n \in Fragments(doc)
               PROVE  n \in Present(up)
    OBVIOUS
  <2>1. n \in Nodes(doc) /\ n # 0 /\ Parent(doc, n) = 0
    BY <1>1, TreeFacts DEF Fragments
  <2>2. Places(up)[n].of = IF n \in up.left THEN n ELSE 0
    BY <1>1, <1>2, <2>1, PlaceOf
  <2> QED
    BY <1>2, <1>3, <1>4, <2>1, <2>2 DEF Present
\* Nothing that has selections is refused.
<1>10. ASSUME NEW s \in Nodes(doc), doc.nodes[s].kind = "spread"
       PROVE  s \in Present(up)
  <2>1. Fragments(doc) # {}
    <3>1. doc.nodes[s].name \in Names(doc, "spread")
      BY <1>6, <1>10 DEF Names
    <3>2. doc.nodes[s].name \in Names(doc, "fragment")
      BY <3>1 DEF WellFormed
    <3>3. PICK f \in Present(doc) : doc.nodes[f].kind = "fragment"
      BY <3>2 DEF Names
    <3> QED
      BY <1>6, <3>3 DEF Fragments
  <2>2. ASSUME NEW p \in Nodes(doc), Selections(doc, p) # {}
        PROVE  p \notin Refused(doc, rules)
    <3> SUFFICES ASSUME p \in Refused(doc, rules)
                 PROVE  FALSE
      OBVIOUS
    <3> DEFINE path == Places(doc)[p].path
               name == doc.nodes[p].name
    <3>1. doc.nodes[p].kind = "field" /\ (<<name>> \in rules \/ Append(path, name) \in rules)
      BY DEF Refused, IsDenied
    <3>2. (Selections(doc, p) \cap doc.left # {}) <=>
               \/ doc.nodes[p].kind \in {"operation", "fragment", "inline"}
               \/ doc.nodes[p].kind = "field" /\ doc.nodes[p].name \in ObjectFields
      BY <1>6 DEF WellFormed
    <3>3. Selections(doc, p) \cap doc.left # {}
      BY <1>1, <1>5, <2>2
    <3>4. name \in ObjectFields
      BY <3>1, <3>2, <3>3
    <3>5. path \in Seq(STRING) /\ name \in STRING
      BY <1>1, PathsAreNames, TreeFacts
    <3>6. <<name>>[Len(<<name>>)] = name
      OBVIOUS
    <3>7. Append(path, name)[Len(Append(path, name))] = name
      BY <3>5, AppendFacts
    <3> HIDE DEF path, name
    <3> QED
      BY <2>1, <3>1, <3>4, <3>6, <3>7
  <2> DEFINE Over(n) == n = s \/ Selections(doc, n) # {}
             G == {n \in Nodes(doc) :
                     (n \in F /\ Over(n)) => Places(up)[n].of # 0}
  <2>3. ASSUME NEW n \in Nodes(doc), Parent(doc, n) = 0 \/ Parent(doc, n) \in G
        PROVE  n \in G
    <3> SUFFICES ASSUME n \in F
                 PROVE  Places(up)[n].of # 0
      OBVIOUS
    <3>1. CASE Parent(doc, n) = 0
      <4>1. Places(up)[n].of = IF n \in up.left THEN n ELSE 0
        BY <1>1, <1>2, <3>1, PlaceOf
      <4>2. n # 0
        BY <1>1, TreeFacts
      <4> QED
        BY <1>4, <4>1, <4>2
    <3>2. CASE Parent(doc, n) # 0
      <4> DEFINE p == Parent(doc, n)
      <4>1. /\ p \in Nodes(doc) /\ p \in G /\ n \in Selections(doc, p)
        BY <2>3, <3>2 DEF Selections, Parent
      <4>2. Places(up)[n].of = IF n \in up.left THEN Places(up)[p].of ELSE 0
        BY <1>1, <1>2, <3>2, PlaceOf
      <4>3. p \in F
        <5>1. p \notin Refused(doc, rules)
          BY <2>2, <4>1
        <5> QED
          BY <1>1, <4>1, <5>1, FilterKeeps
      <4>4. Places(up)[p].of # 0
        BY <4>1, <4>3
      <4> QED
        BY <1>4, <4>2, <4>4
    <3> QED
      BY <3>1, <3>2
  <2> HIDE DEF G
  <2>4. Nodes(doc) \subseteq G
    BY <1>1, <2>3, NodeInduction
  <2>5. s \in F
    <3>1. s \notin Refused(doc, rules)
      BY <1>10 DEF Refused
    <3> QED
      BY <1>1, <1>10, <3>1, FilterKeepsBare
  <2> QED
    BY <1>2, <2>4, <2>5 DEF G, Present
<1>11. Names(up, "spread") = Names(up, "fragment")
  <2>1. Names(up, "fragment") = Names(doc, "fragment")
    BY <1>2, <1>6, <1>7, <1>9 DEF Names, Fragments
  <2>2. Names(up, "spread") = Names(doc, "spread")
    BY <1>2, <1>6, <1>7, <1>10 DEF Names
  <2> QED
    BY <2>1, <2>2 DEF WellFormed
<1> HIDE DEF F
<1>12. \A n \in Present(up) :
         LET node == up.nodes[n]
         IN (Selections(up, n) \cap up.left # {}) <=>
              \/ node.kind \in {"operation", "fragment", "inline"}
              \/ node.kind = "field" /\ node.name \in ObjectFields
  BY <1>7, <1>8
<1> QED
  BY <1>11, <1>12 DEF WellFormed

-----------------------------------------------------------------------------
(* Check and Envoy *)

NoDecision == [allow |-> FALSE, denied |-> {}]

\* What the policy says of the request.
Evaluated == [allow  |-> Authenticated,
              denied |-> IF Authenticated /\ ~CanReadSalary THEN policy ELSE {}]

\* An answer that lets the request through has the body to hand on, if it is
\* another than the request's -- as it came, when the query is only under
\* another spelling of its key; one that refuses an authenticated request with
\* a query in its body comes from the rewriter.
AnswerOK ==
  /\ response.status = "ok" =>
       /\ decision = Evaluated /\ Authenticated
       /\ request.body.kind # "notObject"
       /\ \/ Evaluated.denied = {} /\ response.body = NoBody
          \/ /\ Evaluated.denied = policy /\ policy # {}
             /\ request.body.kind = "document"
             /\ response.body = RemoveFields(request.body, policy)
             /\ response.body # Failed
          \/ /\ Evaluated.denied = policy /\ policy # {}
             /\ request.body.kind = "noQuery" /\ request.other = "query"
             /\ response.body = request.body
  /\ ( /\ response.status = "denied" /\ decision.allow
       /\ ~request.get /\ ~request.multipart /\ HasQuery
       /\ request.body.kind = "document" ) =>
       RemoveFields(request.body, policy) = Failed

UpstreamOK ==
  /\ result = "forwarded" =>
       /\ response.status = "ok"
       /\ upstream = IF response.body = NoBody THEN request.body ELSE response.body
  /\ result # "forwarded" => upstream = NoBody

\* The inductive invariant of Check and Envoy.
GatewayInv ==
  /\ request \in Requests /\ policy \in Policies
  /\ pc \in {"token", "body", "policy", "decided", "answered"}
  /\ decision \in {NoDecision, Evaluated}
  /\ pc \in {"token", "body", "policy"} => decision = NoDecision
  /\ pc = "decided" => decision = Evaluated
  /\ pc \in {"policy", "decided"} => request.body.kind # "notObject"
  /\ response.status \in {"none", "denied", "ok"}
  /\ response.status = "none" <=> pc # "answered"
  /\ result \in {"pending", "forwarded", "refused", "timedOut"}
  /\ AnswerOK
  /\ UpstreamOK

LEMMA DecisionFacts ==
  /\ NoDecision.allow = FALSE /\ NoDecision.denied = {}
  /\ Evaluated.allow = Authenticated
  /\ Evaluated.denied = IF Authenticated /\ ~CanReadSalary THEN policy ELSE {}
  /\ Evaluated.denied = {} \/ Evaluated.denied = policy
<1>1. Evaluated.denied = IF Authenticated /\ ~CanReadSalary THEN policy ELSE {}
  BY DEF Evaluated
<1>2. Evaluated.denied = {} \/ Evaluated.denied = policy
  BY <1>1, Zenon
<1> QED
  BY <1>1, <1>2 DEF Evaluated, NoDecision

LEMMA GatewayInit == Init => GatewayInv
<1> SUFFICES ASSUME Init
             PROVE  GatewayInv
  OBVIOUS
<1>1. /\ request \in Requests /\ policy \in Policies /\ pc = "token"
      /\ decision = NoDecision /\ result = "pending" /\ upstream = NoBody
  BY DEF Init, NoDecision
<1>2. response.status = "none"
  BY DEF Init, NoAnswer
<1>3. AnswerOK
  BY <1>2 DEF AnswerOK
<1>4. UpstreamOK
  BY <1>1 DEF UpstreamOK
<1> QED
  BY <1>1, <1>2, <1>3, <1>4 DEF GatewayInv

\* What a step leaves alone of what Check and Envoy look at.
SameRequest == request' = request /\ policy' = policy

LEMMA SameEvaluation ==
  ASSUME SameRequest
  PROVE  /\ (Authenticated <=> Authenticated') /\ Evaluated' = Evaluated
         /\ (CanReadSalary <=> CanReadSalary')
<1>1. (Authenticated <=> Authenticated') /\ (CanReadSalary <=> CanReadSalary')
  BY DEF SameRequest, Authenticated, CanReadSalary
<1> QED
  BY <1>1 DEF SameRequest, Evaluated, Authenticated, CanReadSalary

\* A step of Check that answers nothing.
LEMMA GatewayGoesOn ==
  ASSUME GatewayInv, SameRequest,
         response' = response, result' = result, upstream' = upstream,
         pc \in {"token", "body", "policy"},
         pc' \in {"body", "policy", "decided"},
         pc' = "decided" => decision' = Evaluated,
         pc' # "decided" => decision' = NoDecision,
         pc' \in {"policy", "decided"} => request.body.kind # "notObject"
  PROVE  GatewayInv'
<1>1. /\ request' \in Requests /\ policy' \in Policies
      /\ pc' \in {"token", "body", "policy", "decided", "answered"}
      /\ pc' \in {"policy", "decided"} => request'.body.kind # "notObject"
      /\ response'.status = "none" /\ pc' # "answered"
      /\ result' \in {"pending", "forwarded", "refused", "timedOut"}
  BY DEF GatewayInv, SameRequest
<1>2. /\ decision' \in {NoDecision', Evaluated'}
      /\ pc' \in {"token", "body", "policy"} => decision' = NoDecision'
      /\ pc' = "decided" => decision' = Evaluated'
  BY SameEvaluation DEF NoDecision
<1>3. AnswerOK'
  BY <1>1 DEF AnswerOK
<1>4. UpstreamOK'
  BY DEF GatewayInv, UpstreamOK, SameRequest
<1> QED
  BY <1>1, <1>2, <1>3, <1>4 DEF GatewayInv

\* A step of Check that answers.
LEMMA GatewayAnswers ==
  ASSUME GatewayInv, pc # "answered", NEW r, Answer(r),
         r.status \in {"denied", "ok"}, AnswerOK'
  PROVE  GatewayInv'
<1>1. /\ SameRequest /\ response' = r /\ pc' = "answered"
      /\ decision' = decision /\ result' = result /\ upstream' = upstream
  BY DEF Answer, SameRequest
<1>2. /\ request' \in Requests /\ policy' \in Policies
      /\ result' \in {"pending", "forwarded", "refused", "timedOut"}
      /\ response'.status \in {"none", "denied", "ok"}
      /\ response'.status # "none"
  BY <1>1 DEF GatewayInv, SameRequest
<1>3. decision' \in {NoDecision', Evaluated'}
  BY <1>1, SameEvaluation DEF GatewayInv, NoDecision
<1>4. UpstreamOK'
  <2>1. result # "forwarded" /\ upstream = NoBody
    BY DEF GatewayInv, UpstreamOK
  <2> QED
    BY <1>1, <2>1 DEF UpstreamOK
<1> QED
  BY <1>1, <1>2, <1>3, <1>4 DEF GatewayInv

\* A refusal by anybody but the rewriter.
LEMMA GatewayRefuses ==
  ASSUME GatewayInv, pc # "answered", NEW code, Refuse(code),
         \/ ~decision.allow
         \/ request.get \/ request.multipart \/ ~HasQuery
  PROVE  GatewayInv'
<1> DEFINE r == [status |-> "denied", code |-> code]
<1>1. Answer(r) /\ r.status = "denied"
  BY DEF Refuse
<1> HIDE DEF r
<1>2. SameRequest /\ response' = r /\ decision' = decision
  BY <1>1 DEF Answer, SameRequest
<1>3. response'.status = "denied"
  BY <1>1, <1>2
<1>4. AnswerOK'
  BY <1>2, <1>3 DEF AnswerOK, SameRequest, HasQuery
<1> QED
  BY <1>1, <1>4, GatewayAnswers

\* A step of Envoy, which ends the client's request.
LEMMA GatewayFinishes ==
  ASSUME GatewayInv, NEW outcome, NEW body, Finish(outcome, body),
         outcome \in {"forwarded", "refused", "timedOut"},
         outcome = "forwarded" =>
           /\ response.status = "ok"
           /\ body = IF response.body = NoBody THEN request.body ELSE response.body,
         outcome # "forwarded" => body = NoBody
  PROVE  GatewayInv'
<1>1. /\ SameRequest /\ result' = outcome /\ upstream' = body
      /\ pc' = pc /\ decision' = decision /\ response' = response
  BY DEF Finish, SameRequest
<1>2. AnswerOK'
  BY <1>1, SameEvaluation DEF GatewayInv, AnswerOK, SameRequest, HasQuery
<1>3. UpstreamOK'
  BY <1>1 DEF UpstreamOK, SameRequest
<1>4. /\ decision' \in {NoDecision', Evaluated'}
      /\ pc' \in {"token", "body", "policy"} => decision' = NoDecision'
      /\ pc' = "decided" => decision' = Evaluated'
  BY <1>1, SameEvaluation DEF GatewayInv, NoDecision
<1> QED
  BY <1>1, <1>2, <1>3, <1>4 DEF GatewayInv, SameRequest

LEMMA GatewayStep == GatewayInv /\ [Next]_vars => GatewayInv'
<1> SUFFICES ASSUME GatewayInv, [Next]_vars
             PROVE  GatewayInv'
  OBVIOUS
<1> USE DecisionFacts
<1>1. CASE ParseToken
  <2>1. pc = "token" /\ decision = NoDecision
    BY <1>1 DEF ParseToken, GatewayInv
  <2>2. CASE request.token = "invalid"
    <3>1. Refuse(401)
      BY <1>1, <2>2 DEF ParseToken
    <3> QED
      BY <2>1, <3>1, GatewayRefuses
  <2>3. CASE request.token # "invalid"
    <3>1. GoOn("body") /\ decision' = decision
      BY <1>1, <2>3 DEF ParseToken
    <3>2. /\ SameRequest /\ pc' = "body"
          /\ response' = response /\ result' = result /\ upstream' = upstream
      BY <3>1 DEF GoOn, SameRequest
    <3> QED
      BY <2>1, <3>1, <3>2, GatewayGoesOn
  <2> QED
    BY <2>2, <2>3
<1>2. CASE ParseBody
  <2>1. pc = "body" /\ decision = NoDecision
    BY <1>2 DEF ParseBody, GatewayInv
  <2>2. CASE request.body.kind = "notObject"
    <3>1. Refuse(403)
      BY <1>2, <2>2 DEF ParseBody
    <3> QED
      BY <2>1, <3>1, GatewayRefuses
  <2>3. CASE request.body.kind # "notObject"
    <3>1. GoOn("policy") /\ decision' = decision
      BY <1>2, <2>3 DEF ParseBody
    <3>2. /\ SameRequest /\ pc' = "policy"
          /\ response' = response /\ result' = result /\ upstream' = upstream
      BY <3>1 DEF GoOn, SameRequest
    <3> QED
      BY <2>1, <2>3, <3>1, <3>2, GatewayGoesOn
  <2> QED
    BY <2>2, <2>3
<1>3. CASE Evaluate
  <2>1. pc = "policy" /\ GoOn("decided") /\ decision' = Evaluated
    BY <1>3 DEF Evaluate, Evaluated
  <2>2. request.body.kind # "notObject"
    BY <2>1 DEF GatewayInv
  <2>3. /\ SameRequest /\ pc' = "decided"
        /\ response' = response /\ result' = result /\ upstream' = upstream
    BY <2>1 DEF GoOn, SameRequest
  <2> QED
    BY <2>1, <2>2, <2>3, GatewayGoesOn
<1>4. CASE EvaluationFails
  <2>1. pc = "policy" /\ Refuse(403) /\ decision = NoDecision
    BY <1>4 DEF EvaluationFails, GatewayInv
  <2> QED
    BY <2>1, GatewayRefuses
<1>5. CASE DenyByPolicy
  <2>1. pc = "decided" /\ ~decision.allow /\ Refuse(403)
    BY <1>5 DEF DenyByPolicy
  <2> QED
    BY <2>1, GatewayRefuses
<1>6. CASE AllowUnchanged
  <2> DEFINE r == [status |-> "ok", body |-> NoBody]
  <2>1. /\ pc = "decided" /\ Answer(r) /\ decision = Evaluated
        /\ decision.allow /\ decision.denied = {} /\ request.body.kind # "notObject"
        /\ r.status = "ok" /\ r.body = NoBody
    BY <1>6 DEF AllowUnchanged, GatewayInv
  <2> HIDE DEF r
  <2>2. SameRequest /\ response' = r /\ decision' = decision
    BY <2>1 DEF Answer, SameRequest
  <2>3. AnswerOK'
    BY <2>1, <2>2, SameEvaluation DEF AnswerOK, SameRequest, NoBody
  <2> QED
    BY <2>1, <2>3, GatewayAnswers
<1>7. CASE RefuseUnrewritable
  <2>1. /\ pc = "decided" /\ Refuse(403)
        /\ request.get \/ request.multipart \/ ~HasQuery
    BY <1>7 DEF RefuseUnrewritable
  <2> QED
    BY <2>1, GatewayRefuses
<1>8. CASE RewriteQuery
  <2> DEFINE rewritten == RewriteBody(request.body, decision.denied)
             r == [status |-> "ok", body |-> rewritten]
  <2>1. /\ pc = "decided" /\ decision = Evaluated
        /\ decision.allow /\ decision.denied # {} /\ decision.denied = policy
        /\ HasQuery /\ request.body.kind # "notObject" /\ request \in Requests
    BY <1>8 DEF RewriteQuery, GatewayInv
  <2>1a. \/ request.body.kind = "noQuery" /\ request.other = "query"
         \/ request.body.kind \in {"garbled", "document"}
    BY <2>1, RequestAssumption DEF HasQuery
  <2>2. IF rewritten = Failed THEN Refuse(403) ELSE Answer(r)
    BY <1>8 DEF RewriteQuery
  <2>3. /\ request.body.kind = "noQuery" => rewritten = request.body
        /\ request.body.kind = "garbled" => rewritten = Failed
        /\ request.body.kind = "document" =>
             rewritten = RemoveFields(request.body, policy)
    BY <2>1 DEF RewriteBody
  <2>4. r.status = "ok" /\ r.body = rewritten
    OBVIOUS
  <2> HIDE DEF rewritten, r
  <2>5. CASE rewritten = Failed
    <3> DEFINE no == [status |-> "denied", code |-> 403]
    <3>1. Answer(no) /\ no.status = "denied"
      BY <2>2, <2>5 DEF Refuse
    <3> HIDE DEF no
    <3>2. SameRequest /\ response' = no /\ decision' = decision
      BY <3>1 DEF Answer, SameRequest
    <3>3. AnswerOK'
      BY <2>3, <2>5, <3>1, <3>2 DEF AnswerOK, SameRequest, RemoveFields, Failed
    <3> QED
      BY <2>1, <3>1, <3>3, GatewayAnswers
  <2>6. CASE rewritten # Failed
    <3>1. Answer(r)
      BY <2>2, <2>6
    <3>2. SameRequest /\ response' = r /\ decision' = decision
      BY <3>1 DEF Answer, SameRequest
    <3>3. \/ /\ request.body.kind = "document"
             /\ rewritten = RemoveFields(request.body, policy)
          \/ /\ request.body.kind = "noQuery" /\ request.other = "query"
             /\ rewritten = request.body
      BY <2>1a, <2>3, <2>6
    <3>4. AnswerOK'
      BY <2>1, <2>4, <2>6, <3>2, <3>3, SameEvaluation DEF AnswerOK, SameRequest
    <3> QED
      BY <2>1, <2>4, <3>1, <3>4, GatewayAnswers
  <2> QED
    BY <2>5, <2>6
<1>9. CASE Forward
  <2>1. /\ response.status = "ok"
        /\ Finish("forwarded",
                  IF response.body = NoBody THEN request.body ELSE response.body)
    BY <1>9 DEF Forward
  <2> QED
    BY <2>1, GatewayFinishes
<1>10. CASE Reject
  BY <1>10, GatewayFinishes DEF Reject
<1>11. CASE TimeOut
  BY <1>11, GatewayFinishes DEF TimeOut
<1>12. CASE Done \/ UNCHANGED vars
  <2>1. /\ SameRequest /\ result' = result /\ upstream' = upstream
        /\ pc' = pc /\ decision' = decision /\ response' = response
    BY <1>12 DEF Done, vars, SameRequest
  <2>2. AnswerOK'
    BY <2>1, SameEvaluation DEF GatewayInv, AnswerOK, SameRequest, HasQuery
  <2>3. UpstreamOK'
    BY <2>1 DEF GatewayInv, UpstreamOK, SameRequest
  <2>4. /\ decision' \in {NoDecision', Evaluated'}
        /\ pc' \in {"token", "body", "policy"} => decision' = NoDecision'
        /\ pc' = "decided" => decision' = Evaluated'
    BY <2>1, SameEvaluation DEF GatewayInv, NoDecision
  <2> QED
    BY <2>1, <2>2, <2>3, <2>4 DEF GatewayInv, SameRequest
<1> QED
  BY <1>1, <1>2, <1>3, <1>4, <1>5, <1>6, <1>7, <1>8, <1>9, <1>10, <1>11, <1>12
     DEF Next, Check

\* Through every interleaving of Check's steps, a failing evaluation, Envoy's
\* filters and its timeout: what was decided, answered and handed on fits the
\* request's token, its body and the policy.
THEOREM GatewayInvariant == Spec => []GatewayInv
BY GatewayInit, GatewayStep, PTL DEF Spec

\* What is handed on: the request's body when the policy denies nothing or
\* the body has no query under the key the rewriter knows, else what the
\* rewriter made of the document in it.
LEMMA HandedOn ==
  ASSUME GatewayInv, result = "forwarded"
  PROVE  /\ Authenticated /\ request.body.kind # "notObject"
         /\ request \in Requests /\ policy \subseteq Seq(STRING) \ {<<>>}
         /\ \/ Evaluated.denied = {} /\ upstream = request.body
            \/ /\ request.body.kind = "noQuery" /\ request.other = "query"
               /\ upstream = request.body
            \/ /\ policy # {} /\ request.body.kind = "document"
               /\ IsParsed(request.body)
               /\ upstream = Rewritten(request.body, policy)
               /\ Rewriting(request.body, policy, upstream)
               /\ upstream.kind = "document"
               /\ \A op \in Operations(request.body) :
                    Selections(request.body, op) \cap upstream.left # {}
<1> DEFINE doc == request.body
<1>1. /\ response.status = "ok" /\ request \in Requests /\ policy \in Policies
      /\ upstream = IF response.body = NoBody THEN doc ELSE response.body
  BY DEF GatewayInv, UpstreamOK
<1>2. /\ Authenticated /\ doc.kind # "notObject"
      /\ \/ Evaluated.denied = {} /\ response.body = NoBody
         \/ /\ policy # {} /\ doc.kind = "document"
            /\ response.body = RemoveFields(doc, policy)
            /\ response.body # Failed
         \/ /\ doc.kind = "noQuery" /\ request.other = "query"
            /\ response.body = doc
  BY <1>1 DEF GatewayInv, AnswerOK
<1>3. /\ policy \subseteq Seq(STRING) \ {<<>>}
      /\ doc.kind = "document" => IsParsed(doc)
  BY <1>1, RequestAssumption
<1>4. CASE Evaluated.denied = {} /\ response.body = NoBody
  BY <1>1, <1>2, <1>3, <1>4
<1>5. CASE /\ policy # {} /\ doc.kind = "document"
           /\ response.body = RemoveFields(doc, policy)
           /\ response.body # Failed
  <2>1. IsParsed(doc)
    BY <1>3, <1>5
  <2>2. /\ RemoveFields(doc, policy) = Rewritten(doc, policy)
        /\ \A op \in Operations(doc) :
             Selections(doc, op) \cap Rewritten(doc, policy).left # {}
    BY <1>3, <1>5, <2>1, RemoveFieldsIs
  <2>3. Rewriting(doc, policy, Rewritten(doc, policy))
        /\ Rewritten(doc, policy).kind = "document"
    BY <1>3, <2>1, RemoveFieldsIs
  <2>4. response.body # NoBody
    BY <1>5, <2>2, <2>3 DEF NoBody
  <2>5. upstream = Rewritten(doc, policy)
    BY <1>1, <1>5, <2>2, <2>4
  <2> HIDE DEF doc
  <2>6. /\ Rewriting(doc, policy, upstream) /\ upstream.kind = "document"
        /\ \A op \in Operations(doc) : Selections(doc, op) \cap upstream.left # {}
    BY <2>2, <2>3, <2>5
  <2> QED
    BY <1>1, <1>2, <1>3, <1>5, <2>1, <2>5, <2>6 DEF doc
<1>6. CASE doc.kind = "noQuery" /\ request.other = "query" /\ response.body = doc
  BY <1>1, <1>2, <1>3, <1>6
<1> QED
  BY <1>2, <1>4, <1>5, <1>6

LEMMA NothingElseUpstream ==
  ASSUME GatewayInv, result # "forwarded"
  PROVE  upstream = NoBody /\ upstream.kind = "none"
BY DEF GatewayInv, UpstreamOK, NoBody

\* The gateway's variables keep their types, and a document on its way
\* upstream has no empty operation.
THEOREM TypeCorrect == Spec => []TypeOK
<1>1. GatewayInv => TypeOK
  <2> SUFFICES ASSUME GatewayInv
               PROVE  TypeOK
    OBVIOUS
  <2>1. /\ pc \in {"token", "body", "policy", "decided", "answered"}
        /\ response.status \in {"none", "denied", "ok"}
        /\ result \in {"pending", "forwarded", "refused", "timedOut"}
        /\ decision \in {NoDecision, Evaluated}
    BY DEF GatewayInv
  <2>2. decision.allow \in BOOLEAN /\ decision.denied \in {{}, policy}
    <3>1. CASE decision = NoDecision
      BY <3>1 DEF NoDecision
    <3>2. CASE decision = Evaluated
      <4>1. decision.allow = Authenticated /\ Authenticated \in BOOLEAN
        BY <3>2 DEF Evaluated, Authenticated
      <4>2. decision.denied \in {{}, policy}
        BY <3>2, DecisionFacts
      <4> QED
        BY <4>1, <4>2
    <3> QED
      BY <2>1, <3>1, <3>2
  <2>3. /\ upstream.kind \in {"none", "noQuery", "garbled", "document"}
        /\ upstream.kind = "document" =>
             \A op \in Operations(upstream) : Selections(upstream, op) \cap upstream.left # {}
    <3>1. CASE result # "forwarded"
      BY <3>1, NothingElseUpstream
    <3>2. CASE result = "forwarded"
      <4>1. /\ request.body.kind \in {"none", "noQuery", "garbled", "document"}
            /\ request.body.kind = "document" => IsParsed(request.body)
        BY <3>2, HandedOn, RequestAssumption
      <4>2. CASE upstream = request.body
        <5>1. SUFFICES ASSUME IsParsed(upstream), NEW op \in Operations(upstream)
                       PROVE  Selections(upstream, op) \cap upstream.left # {}
          BY <4>1, <4>2
        <5>2. Selections(upstream, op) # {}
          BY <5>1 DEF IsParsed, Operations
        <5>3. Selections(upstream, op) \subseteq upstream.left
          BY <5>1 DEF IsParsed, Selections
        <5> QED
          BY <5>2, <5>3
      <4>3. CASE /\ Rewriting(request.body, policy, upstream)
                 /\ upstream.kind = "document"
                 /\ \A op \in Operations(request.body) :
                      Selections(request.body, op) \cap upstream.left # {}
        <5>1. /\ Operations(upstream) = Operations(request.body)
              /\ \A n : Selections(upstream, n) = Selections(request.body, n)
          BY <4>3, RewritingFacts, SameShape
        <5> QED
          BY <4>3, <5>1
      <4> QED
        BY <3>2, <4>2, <4>3, HandedOn
    <3> QED
      BY <3>1, <3>2
  <2> QED
    BY <2>1, <2>2, <2>3 DEF TypeOK
<1> QED
  BY <1>1, GatewayInvariant, PTL

\* Whatever the query and the policy: what a user without read:salary gets
\* past Envoy under the key `query` asks for nothing the policy denies him,
\* except by a path through a named fragment to a field that is denied at
\* that path only; and a body without a query under that key gets past only
\* if Check finds one under another spelling.
THEOREM OnlyPermitted == Spec => []OnlyPermittedGoesUpstream
<1>1. GatewayInv => OnlyPermittedGoesUpstream
  <2> SUFFICES ASSUME GatewayInv, Restricted, policy # {}, result = "forwarded"
               PROVE  \/ upstream.kind = "noQuery" /\ request.other = "query"
                      \/ /\ upstream.kind = "document"
                         /\ \A leaf \in Requested(upstream) :
                              Denied(policy, leaf.path) =>
                                leaf.named /\ \A i \in DOMAIN leaf.path : <<leaf.path[i]>> \notin policy
    BY DEF OnlyPermittedGoesUpstream
  <2>1. Authenticated /\ ~CanReadSalary
    BY DEF Restricted, Authenticated, CanReadSalary
  <2>2. Evaluated.denied # {}
    BY <2>1, DecisionFacts
  <2>3. CASE upstream = request.body /\ request.body.kind = "noQuery"
               /\ request.other = "query"
    BY <2>3
  <2>4. CASE Rewriting(request.body, policy, upstream) /\ upstream.kind = "document"
    BY <2>4, NothingDeniedIsLeft
  <2> QED
    BY <2>2, <2>3, <2>4, HandedOn
<1> QED
  BY <1>1, GatewayInvariant, PTL

\* Of a valid document that is handed on, everything that is not denied is
\* still asked for.
THEOREM AllPermitted == Spec => []PermittedGoesUpstream
<1>1. GatewayInv => PermittedGoesUpstream
  <2> SUFFICES ASSUME GatewayInv, result = "forwarded", request.body.kind = "document",
                      Valid(request.body, policy)
               PROVE  /\ upstream.kind = "document"
                      /\ {leaf \in Requested(request.body) : ~Denied(policy, leaf.path)}
                           \subseteq Requested(upstream)
    BY DEF PermittedGoesUpstream
  <2>1. CASE upstream = request.body
    BY <2>1
  <2>2. CASE Rewriting(request.body, policy, upstream) /\ upstream.kind = "document"
    <3> SUFFICES ASSUME NEW leaf \in Requested(request.body), ~Denied(policy, leaf.path)
                 PROVE  leaf \in Requested(upstream)
      BY <2>2
    <3>1. PICK op \in Operations(request.body) : leaf \in Leaves(request.body, op)
      BY DEF Requested
    <3>2. leaf \in Leaves(upstream, op)
      BY <2>2, <3>1, OthersAreLeft
    <3>3. Operations(upstream) = Operations(request.body)
      BY <2>2, RewritingFacts, SameShape
    <3> QED
      BY <3>2, <3>3 DEF Requested
  <2> QED
    BY <2>1, <2>2, HandedOn
<1> QED
  BY <1>1, GatewayInvariant, PTL

\* The rewriter refuses a valid document only if one of its operations asks
\* for nothing but denied fields.
THEOREM RefusalHasCause == Spec => []RefusedForCause
<1>1. GatewayInv => RefusedForCause
  <2> DEFINE doc == request.body
  <2> SUFFICES ASSUME GatewayInv, response.status = "denied", decision.allow,
                      ~request.get, ~request.multipart, HasQuery,
                      doc.kind = "document", Valid(doc, policy)
               PROVE  \E op \in Operations(doc) :
                        \A leaf \in Leaves(doc, op) : Denied(policy, leaf.path)
    BY DEF RefusedForCause
  <2>1. RemoveFields(doc, policy) = Failed
    BY DEF GatewayInv, AnswerOK
  <2>2. IsParsed(doc) /\ policy \subseteq Seq(STRING) \ {<<>>}
    BY RequestAssumption DEF GatewayInv
  <2> HIDE DEF doc
  <2> DEFINE up == Rewritten(doc, policy)
  <2>3. /\ Rewriting(doc, policy, up) /\ up.kind # Failed.kind
        /\ ~(\E op \in Operations(doc) :
               \/ op \notin Filter(doc, Refused(doc, policy))
               \/ Selections(doc, op) \cap up.left = {})
             => RemoveFields(doc, policy) = up
    BY <2>2, RemoveFieldsIs
  <2> HIDE DEF up
  <2>4. PICK op \in Operations(doc) :
          \/ op \notin Filter(doc, Refused(doc, policy))
          \/ Selections(doc, op) \cap up.left = {}
    BY <2>1, <2>3
  <2>5. op \notin up.left \/ Selections(doc, op) \cap up.left = {}
    BY <2>3, <2>4, RewritingFacts
  <2> QED
    BY <2>3, <2>5, OthersAreLeft
<1> QED
  BY <1>1, GatewayInvariant, PTL

\* A well-formed document stays so when no fragment is emptied and, if there
\* are fragments, no object field is denied.
THEOREM StaysWellFormed == Spec => []WellFormedGoesUpstream
<1>1. GatewayInv => WellFormedGoesUpstream
  <2> DEFINE doc == request.body
  <2> SUFFICES ASSUME GatewayInv, upstream.kind = "document", WellFormed(doc),
                      Fragments(doc) # {} =>
                        \A rule \in policy : rule[Len(rule)] \notin ObjectFields,
                      \A f \in Fragments(doc) :
                        \E leaf \in Leaves(doc, f) : ~Denied(policy, leaf.path)
               PROVE  WellFormed(upstream)
    BY DEF WellFormedGoesUpstream
  <2>1. result = "forwarded"
    BY NothingElseUpstream
  <2>2. CASE upstream = doc
    BY <2>2
  <2>3. CASE Rewriting(doc, policy, upstream)
    BY <2>3, WellFormedIsLeft
  <2> QED
    BY <2>1, <2>2, <2>3, HandedOn
<1> QED
  BY <1>1, GatewayInvariant, PTL
=============================================================================
