----------------------------- MODULE PathRewriter -----------------------------
(***************************************************************************)
(* graphql-rewiter: handleRewrite (server.go) and RewriteQuery             *)
(* (rewriter.go), which removes fields by path and replaces the spreads of *)
(* named fragments by what is left of them.                                *)
(*                                                                         *)
(* The rewriter changes the parsed document in place, and a fragment that  *)
(* is spread twice is one set of nodes that both places share.  So the     *)
(* document is a heap here: a node has an id, a selection set is a         *)
(* sequence of ids.  rewriteSelectionSet calls itself; a step of the model *)
(* is one turn of its loop, or its return, and `stack` has the calls under *)
(* way.                                                                    *)
(***************************************************************************)
EXTENDS Integers, Sequences, FiniteSets

CONSTANTS ObjectFields,  \* names of the fields that need sub-selections
          Requests       \* the requests clients send

VARIABLES request,
          pc,
          nodes,    \* id -> kind, name and ids of the selection set
          removed,  \* removedSet, as paths
          stack,    \* the calls of rewriteSelectionSet under way, the last on top
          out,      \* the operations rewritten so far
          status    \* of the HTTP answer

vars == <<request, pc, nodes, removed, stack, out, status>>

\* What a node stands for: its selection set, or that of the fragment it
\* spreads.
Inner(r, heap, id) ==
  IF heap[id].kind # "spread" THEN heap[id].sub
  ELSE IF heap[id].name \in DOMAIN r.fragments THEN r.fragments[heap[id].name]
  ELSE <<>>

InnerIds(r, heap, id) == {Inner(r, heap, id)[i] : i \in DOMAIN Inner(r, heap, id)}

\* The selection sets of a parsed document, by what they belong to.
Owners(r) ==
  ({"operation"} \X DOMAIN r.operations) \cup ({"fragment"} \X DOMAIN r.fragments)
    \cup ({"node"} \X DOMAIN r.nodes)

SelectionSet(r, owner) ==
  CASE owner[1] = "operation" -> r.operations[owner[2]]
    [] owner[1] = "fragment"  -> r.fragments[owner[2]]
    [] owner[1] = "node"      -> r.nodes[owner[2]].sub

\* The ids with no more than k - 1 others below each other in them.
Settled(r) ==
  LET low[k \in 0..Cardinality(DOMAIN r.nodes)] ==
        IF k = 0 THEN {}
        ELSE LET lower == low[k - 1]
             IN {id \in DOMAIN r.nodes : InnerIds(r, r.nodes, id) \subseteq lower}
  IN low

\* A parsed document, none of whose fragments contains itself: the code would
\* not return from one that does.
IsDocument(r) ==
  LET ids == DOMAIN r.nodes IN
  /\ IsFiniteSet(ids)
  /\ \A id \in ids :
       /\ r.nodes[id] = [kind |-> r.nodes[id].kind, name |-> r.nodes[id].name,
                         sub |-> r.nodes[id].sub]
       /\ r.nodes[id].kind \in {"field", "inline", "spread"}
       /\ r.nodes[id].name \in STRING
       /\ r.nodes[id].kind = "spread" => r.nodes[id].sub = <<>>
  /\ \A owner \in Owners(r) : SelectionSet(r, owner) \in Seq(ids)
  /\ \A x, y \in Owners(r) :
       \A i \in DOMAIN SelectionSet(r, x) : \A j \in DOMAIN SelectionSet(r, y) :
         SelectionSet(r, x)[i] = SelectionSet(r, y)[j] => x = y /\ i = j
  /\ Settled(r)[Cardinality(ids)] = ids

ASSUME RequestAssumption ==
  \A r \in Requests :
    /\ r.operations \in Seq(Seq(DOMAIN r.nodes))
    /\ r.removedFields \subseteq Seq(STRING)
    /\ IsDocument(r)

Init ==
  /\ request \in Requests
  /\ pc = "request"
  /\ nodes = request.nodes
  /\ removed = {}
  /\ stack = <<>>
  /\ out = <<>>
  /\ status = 0

-----------------------------------------------------------------------------
\* A call of rewriteSelectionSet: its arguments, the place of its loop, and
\* its `out`.
Call(set, path) == [set |-> set, at |-> 1, path |-> path, kept |-> <<>>]

\* The same, a turn later.
Passed(call, ids) == [call EXCEPT !.at = @ + 1, !.kept = @ \o ids]

\* Faulty variants of the operators below: each is a mistake one could make
\* in the code, and breaks a property.  No specification uses them.

\* A fragment starts a path of its own ...
PathAnew(node, parentPath) ==
  CASE node.kind = "field"  -> Append(parentPath, node.name)
    [] node.kind = "inline" -> parentPath
    [] node.kind = "spread" -> <<>>

\* ... spreads stay, as in authz-server's rewriter ...
LeftSpread(id, set, kept) == IF kept = <<>> THEN <<>> ELSE <<id>>

\* ... and a node that loses one of its selections goes.
LeftWhole(id, set, kept) ==
  IF Len(kept) < Len(set) THEN <<>>
  ELSE IF nodes[id].kind = "spread" THEN kept ELSE <<id>>

\* appendPath for a field; the other selections have their parent's path.
PathOf(node, parentPath) ==
  IF node.kind = "field" THEN Append(parentPath, node.name) ELSE parentPath

\* What a selection leaves in the set it is in, when `kept` is left of its own.
Left(id, set, kept) ==
  IF kept = <<>> THEN <<>> ELSE IF nodes[id].kind = "spread" THEN kept ELSE <<id>>

\* normalizePath: names with the blanks around them gone, empty ones dropped.
NormalizePath(path) == SelectSeq(path, LAMBDA name : name # "")

-----------------------------------------------------------------------------
Fail(code) ==
  /\ status' = code
  /\ pc' = "answered"
  /\ UNCHANGED <<request, nodes, removed, stack, out>>

\* Another method; no JSON, no graphql, no decision that is valid JSON, a
\* decision against the request or of another shape, no GraphQL.
Refuse ==
  /\ pc = "request"
  /\ \/ ~request.post /\ Fail(405)
     \/ /\ request.post
        /\ ~request.body \/ ~request.decision \/ ~request.allow \/ ~request.parses
        /\ Fail(400)

BuildRemovedSet ==
  /\ pc = "request"
  /\ request.post /\ request.body /\ request.decision
  /\ request.allow /\ request.parses
  /\ removed' = {NormalizePath(path) : path \in request.removedFields} \ {<<>>}
  /\ pc' = "rewriting"
  /\ UNCHANGED <<request, nodes, stack, out, status>>

-----------------------------------------------------------------------------
(* RewriteQuery *)

Depth == Len(stack)
Top   == stack[Depth]
Id    == Top.set[Top.at]             \* the selection the loop is at
Path  == PathOf(nodes[Id], Top.path)

\* The loop over doc.Operations.
RewriteOperation ==
  /\ pc = "rewriting" /\ stack = <<>>
  /\ Len(out) < Len(request.operations)
  /\ stack' = <<Call(request.operations[Len(out) + 1], <<>>)>>
  /\ UNCHANGED <<request, pc, nodes, removed, out, status>>

\* op.SelectionSet gets what is left of it.
FinishOperation ==
  /\ Depth = 1 /\ Top.at > Len(Top.set)
  /\ out' = Append(out, Top.kept)
  /\ stack' = <<>>
  /\ UNCHANGED <<request, pc, nodes, removed, status>>

\* A turn of the loop in rewriteSelectionSet.
Turn ==
  /\ Depth > 0 /\ Top.at <= Len(Top.set)
  /\ UNCHANGED <<request, pc, nodes, removed, out, status>>

IsDropped ==
  \/ nodes[Id].kind = "field" /\ Path \in removed
  \/ nodes[Id].kind = "spread" /\ nodes[Id].name \notin DOMAIN request.fragments

IsKept == nodes[Id].kind = "field" /\ nodes[Id].sub = <<>>

\* shouldRemove, or a spread of an unknown fragment.
DropSelection ==
  Turn /\ IsDropped /\ stack' = [stack EXCEPT ![Depth] = Passed(@, <<>>)]

\* A field without sub-selections.
KeepField ==
  Turn /\ ~IsDropped /\ IsKept /\ stack' = [stack EXCEPT ![Depth] = Passed(@, <<Id>>)]

CallItself ==
  /\ Turn /\ ~IsDropped /\ ~IsKept
  /\ stack' = Append(stack, Call(Inner(request, nodes, Id), Path))

\* s.SelectionSet gets what is left of it; a fragment's is not written.
Return ==
  LET caller == stack[Depth - 1]
      id     == caller.set[caller.at]
  IN /\ Depth > 1 /\ Top.at > Len(Top.set)
     /\ nodes' = IF nodes[id].kind = "spread" THEN nodes
                 ELSE [nodes EXCEPT ![id].sub = Top.kept]
     /\ stack' = [i \in 1..(Depth - 1) |->
                    IF i = Depth - 1 THEN Passed(caller, Left(id, Top.set, Top.kept))
                    ELSE stack[i]]
     /\ UNCHANGED <<request, pc, removed, out, status>>

\* doc.Fragments = nil, and the document is printed.
Finish ==
  /\ pc = "rewriting" /\ stack = <<>>
  /\ Len(out) = Len(request.operations)
  /\ status' = 200
  /\ pc' = "answered"
  /\ UNCHANGED <<request, nodes, removed, stack, out>>

Done == pc = "answered" /\ UNCHANGED vars

Next ==
  \/ Refuse \/ BuildRemovedSet
  \/ RewriteOperation \/ DropSelection \/ KeepField \/ CallItself
  \/ Return \/ FinishOperation \/ Finish \/ Done

Spec == Init /\ [][Next]_vars
-----------------------------------------------------------------------------
(* Properties *)

\* The names a node puts before the paths of what is in it.
Own(node) == IF node.kind = "field" THEN <<node.name>> ELSE <<>>

\* The nodes that each node comes to, fragments expanded, with their paths.
Contents(r, heap) ==
  LET of[id \in DOMAIN heap] ==
        {[node |-> id, path |-> Own(heap[id])]}
          \cup {[node |-> c.node, path |-> Own(heap[id]) \o c.path] :
                  c \in UNION {of[inner] : inner \in InnerIds(r, heap, id)}}
  IN of

InSet(heap, set) == UNION {Contents(request, heap)[set[i]] : i \in DOMAIN set}

\* The leaf fields that a selection set asks for.
Leaves(heap, set) ==
  {c.path : c \in {d \in InSet(heap, set) :
                     heap[d.node].kind = "field" /\ heap[d.node].name \notin ObjectFields}}

Asked(i)   == Leaves(request.nodes, request.operations[i])
Printed(i) == Leaves(nodes, out[i])

\* An empty selection set is printed without its braces, which leaves an
\* object field, an inline fragment or a definition the grammar or the
\* schema refuses.
IsHole(node) ==
  /\ node.kind = "inline" \/ (node.kind = "field" /\ node.name \in ObjectFields)
  /\ node.sub = <<>>

Complete(i) == out[i] # <<>> /\ \A c \in InSet(nodes, out[i]) : ~IsHole(nodes[c.node])

\* A path lies at or below a removed one.
IsRemoved(path) == \E i \in DOMAIN path : SubSeq(path, 1, i) \in removed

\* Types of the variables; what was rewritten has no spread left.
TypeOK ==
  /\ pc \in {"request", "rewriting", "answered"}
  /\ status \in {0, 200, 400, 405}
  /\ DOMAIN nodes = DOMAIN request.nodes
  /\ \A call \in {stack[k] : k \in DOMAIN stack} :
       /\ call.set \in Seq(DOMAIN nodes) /\ call.kept \in Seq(DOMAIN nodes)
       /\ call.at \in 1..(Len(call.set) + 1)
  /\ \A i \in DOMAIN out : \A c \in InSet(nodes, out[i]) : nodes[c.node].kind # "spread"

\* No removed field is printed, at whatever place of the query it is asked
\* for and through however many fragments (readme.md, "Go 实现说明"): also
\* when a later spread changes nodes an earlier one has already returned.
RemovedIsNotPrinted ==
  \A i \in DOMAIN out : \A c \in InSet(nodes, out[i]) : ~IsRemoved(c.path)

\* The query is written against the schema: object fields have selections,
\* the others have none, and no fragment is spread twice.
IsUnshared ==
  \A x, y \in DOMAIN request.nodes :
    /\ request.nodes[x].kind = "field" =>
         (request.nodes[x].sub # <<>> <=> request.nodes[x].name \in ObjectFields)
    /\ request.nodes[x].kind = "inline" => request.nodes[x].sub # <<>>
    /\ ( /\ request.nodes[x].kind = "spread" /\ request.nodes[y].kind = "spread"
         /\ request.nodes[x].name = request.nodes[y].name ) => x = y

\* Every other field is, as long as no fragment is spread twice: each
\* operation asks for exactly the fields that were not removed, and an
\* object field whose fields are all gone is dropped with them.
OthersArePrinted ==
  IsUnshared =>
    \A i \in DOMAIN out :
      /\ Printed(i) = {path \in Asked(i) : ~IsRemoved(path)}
      /\ out[i] # <<>> => Complete(i)

\* "Object field without sub-selections is invalid; drop it."
\* (rewriter.go:81), also when a fragment is spread twice.
ObjectFieldsKeepSelections ==
  status = 200 => \A i \in DOMAIN out : out[i] # <<>> => Complete(i)
=============================================================================
