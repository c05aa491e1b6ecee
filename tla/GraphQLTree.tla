----------------------------- MODULE GraphQLTree -----------------------------
(***************************************************************************)
(* GraphQL documents as gqlparser hands them to authz-server's rewriter,   *)
(* and what they ask for.                                                  *)
(*                                                                         *)
(* A document is its nodes, in the order the parser meets them: its        *)
(* operations and fragments, and under them the selections, each with its  *)
(* parent (0 for a definition).  Order, arguments, aliases, directives and *)
(* type conditions decide nothing in this code.  The rewriter takes nodes  *)
(* out of the selection sets: `left` are those it left where they were.    *)
(***************************************************************************)
EXTENDS Integers, Sequences, FiniteSets

CONSTANT ObjectFields  \* names of the fields that need sub-selections

Node(kind, name, parent) == [kind |-> kind, name |-> name, parent |-> parent]

Nodes(doc)       == DOMAIN doc.nodes
Operations(doc)  == {n \in Nodes(doc) : doc.nodes[n].kind = "operation"}
Fragments(doc)   == {n \in Nodes(doc) : doc.nodes[n].kind = "fragment"}
Selections(doc, n) == {m \in Nodes(doc) : doc.nodes[m].parent = n}

IsTree(doc) ==
  /\ doc = [kind |-> "document", nodes |-> doc.nodes, left |-> doc.left]
  /\ Len(doc.nodes) \in Nat /\ Nodes(doc) = 1..Len(doc.nodes)
  /\ doc.left \subseteq Nodes(doc)
  /\ \A n \in Nodes(doc) :
       LET node == doc.nodes[n]
       IN /\ node.kind \in {"operation", "fragment", "field", "inline", "spread"}
          /\ node.name \in STRING
          /\ node.parent \in 0..(n - 1)
          /\ node.parent = 0 <=> node.kind \in {"operation", "fragment"}
          /\ node.parent # 0 => doc.nodes[node.parent].kind # "spread"

\* What the parser makes of a text: braces are never empty.
IsParsed(doc) ==
  /\ IsTree(doc)
  /\ doc.left = Nodes(doc)
  /\ \A n \in Nodes(doc) :
       doc.nodes[n].kind \in {"operation", "fragment", "inline"} =>
         Selections(doc, n) # {}

\* The path below a node that stands at `path`.
Below(node, path) == IF node.kind = "field" THEN Append(path, node.name) ELSE path

\* The definition each node is in, 0 if it was taken out or stands in what
\* was, and the names of the fields around it there.
Places(doc) ==
  LET at[n \in Nodes(doc)] ==
        LET parent == doc.nodes[n].parent
        IN IF parent = 0
           THEN [of |-> IF n \in doc.left THEN n ELSE 0, path |-> <<>>]
           ELSE [of   |-> IF n \in doc.left THEN at[parent].of ELSE 0,
                 path |-> Below(doc.nodes[parent], at[parent].path)]
  IN at

\* The nodes of the definition d, when d is spread at `path`.
Within(doc, d, path, named) ==
  {[at |-> n, path |-> path \o Places(doc)[n].path, named |-> named] :
     n \in {m \in Nodes(doc) : Places(doc)[m].of = d}}

\* The fragments a node spreads.
Spread(doc, n) ==
  {f \in Fragments(doc) : /\ doc.nodes[n].kind = "spread"
                          /\ doc.nodes[f].name = doc.nodes[n].name}

\* Where the nodes of the definition d and of the fragments it spreads stand,
\* by the number of spreads on the way; `named` tells whether there are any.
\* Without cycles there are no more than fragments.
Standing(doc, d) ==
  LET through[k \in 0..Cardinality(Fragments(doc))] ==
        IF k = 0 THEN Within(doc, d, <<>>, FALSE)
        ELSE UNION {UNION {Within(doc, f, c.path, TRUE) : f \in Spread(doc, c.at)}
                      : c \in through[k - 1]}
  IN through

IsLeaf(doc, n) == doc.nodes[n].kind = "field" /\ doc.nodes[n].name \notin ObjectFields

\* The leaf fields a definition asks for, with their paths.
Leaves(doc, d) ==
  UNION {{[path |-> Append(c.path, doc.nodes[c.at].name), named |-> c.named] :
            c \in {s \in Standing(doc, d)[k] : IsLeaf(doc, s.at)}}
         : k \in 0..Cardinality(Fragments(doc))}

Requested(doc) == UNION {Leaves(doc, op) : op \in Operations(doc)}

\* The nodes that are printed.
Present(doc) == {n \in Nodes(doc) : Places(doc)[n].of # 0}

Names(doc, kind) == {doc.nodes[n].name : n \in {m \in Present(doc) : doc.nodes[m].kind = kind}}

\* The rules of GraphQL a removal could break: complete selection sets, no
\* spread without a definition, no definition without a spread.  An empty
\* selection set is printed without its braces.
WellFormed(doc) ==
  /\ \A n \in Present(doc) :
       LET node == doc.nodes[n]
       IN (Selections(doc, n) \cap doc.left # {}) <=>
            \/ node.kind \in {"operation", "fragment", "inline"}
            \/ node.kind = "field" /\ node.name \in ObjectFields
  /\ Names(doc, "spread") = Names(doc, "fragment")
=============================================================================
