---------------------------- MODULE FieldRewriter ----------------------------
(***************************************************************************)
(* authz-server/internal/rewriter: removing denied fields from a document. *)
(*                                                                         *)
(* A denied field is a sequence of names, its path split at the dots: one  *)
(* name is denied wherever it stands, a longer path at that path only.     *)
(***************************************************************************)
EXTENDS GraphQLTree

\* deniedFieldSet.isDenied.
IsDenied(rules, path, name) == {<<name>>, Append(path, name)} \cap rules # {}

\* What the denied fields mean: a field is denied by its own name or path,
\* or with a field it belongs to.
Begins(rule, path) ==
  Len(rule) <= Len(path) /\ \A i \in 1..Len(rule) : path[i] = rule[i]

Denied(rules, path) ==
  \/ \E i \in 1..Len(path) : <<path[i]>> \in rules
  \/ \E rule \in rules : Begins(rule, path)

-----------------------------------------------------------------------------
(* Faulty variants of the operators below: each is a mistake one could make  *)
(* in the code, and breaks a property.  No specification uses them.          *)

\* An inline fragment starts a path of its own, as a named one does.
RefusedInlineAnew(doc, rules) ==
  LET since[n \in Nodes(doc)] ==
        LET parent == doc.nodes[n].parent
        IN IF parent = 0 \/ doc.nodes[parent].kind = "inline" THEN <<>>
           ELSE Below(doc.nodes[parent], since[parent])
  IN {n \in Nodes(doc) : /\ doc.nodes[n].kind = "field"
                         /\ IsDenied(rules, since[n], doc.nodes[n].name)}

\* The last name of a path is enough to deny a field.
RefusedByLastName(doc, rules) ==
  {n \in Nodes(doc) : /\ doc.nodes[n].kind = "field"
                      /\ \E r \in rules : r[Len(r)] = doc.nodes[n].name}

\* A field whose sub-selections are all gone stays.
FilterKeepsEmptied(doc, refused) == Nodes(doc) \ refused

\* Operations that asked for denied fields only are handed on ...
RemovedUnchecked(doc, filtered, left) == [doc EXCEPT !.left = left]

\* ... and a fragment that becomes empty is an error.
RemovedNoFragmentMayEmpty(doc, filtered, left) ==
  IF Operations(doc) \cup Fragments(doc) \subseteq filtered
  THEN [doc EXCEPT !.left = left] ELSE [kind |-> "failed"]

-----------------------------------------------------------------------------
\* The fields filterSelectionSet meets and isDenied, each at its path in the
\* operation or fragment it is in.
Refused(doc, rules) ==
  {n \in Nodes(doc) :
     /\ doc.nodes[n].kind = "field"
     /\ IsDenied(rules, Places(doc)[n].path, doc.nodes[n].name)}

\* filterSelectionSet: a denied field is dropped from the set it is in, and so
\* is what had selections and has none left.
Filter(doc, refused) ==
  LET keeps[n \in Nodes(doc)] ==
        /\ n \notin refused
        /\ Selections(doc, n) # {} => \E m \in Selections(doc, n) : keeps[m]
  IN {n \in Nodes(doc) : keeps[n]}

\* removeEmptyFragmentSpreads: what it empties stays.
WithoutSpreads(doc, filtered) ==
  LET emptied == {doc.nodes[f].name : f \in Fragments(doc) \ filtered}
  IN {n \in filtered : doc.nodes[n].kind = "spread" => doc.nodes[n].name \notin emptied}

\* ErrEmptyQuery and the parser's error: the caller tells them from a
\* document only.
Failed == [kind |-> "failed"]

\* An operation is an error when it is empty after the second pass or the third.
Removed(doc, filtered, left) ==
  IF \E op \in Operations(doc) : op \notin filtered \/ Selections(doc, op) \cap left = {}
  THEN Failed ELSE [doc EXCEPT !.left = left]

\* removeFields on a document that parses: the fragments and the operations,
\* then the spreads of fragments that became empty.
RemoveFields(doc, rules) ==
  LET filtered == Filter(doc, Refused(doc, rules))
  IN Removed(doc, filtered, WithoutSpreads(doc, filtered))
=============================================================================
