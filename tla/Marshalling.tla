----------------------------- MODULE Marshalling -----------------------------
(***************************************************************************)
(* From what a resolver returned to what the answer shows: the generated   *)
(* functions, and the rule of the GraphQL specification they follow.       *)
(***************************************************************************)
EXTENDS GraphQLSchemas

-----------------------------------------------------------------------------
(* The generated code.  Null is Nil. *)

RECURSIVE MarshalField(_, _, _)

\* _Todo, _Employee, _User, ___Type and the others: Null if a Null was counted.
MarshalObject(types, object) ==
  LET type == types[object.type]
      out  == [f \in DOMAIN object.fields |->
                 MarshalField(types, type.fields[f], object.fields[f])]
  IN IF \E f \in type.counted \cap DOMAIN out : out[f] = Nil
     THEN Nil
     ELSE [object EXCEPT !.fields = out]

\* A faulty variant of the next: a Null item is looked for in every list.
MarshalListStrictly(types, shape, list) ==
  LET out == [k \in DOMAIN list.items |->
                MarshalField(types, Item(shape), list.items[k])]
  IN IF \E k \in DOMAIN out : out[k] = Nil THEN Nil ELSE List(out)

\* marshalNTodo2[]Todo and the others: a goroutine per item; a Null item is
\* looked for unless items may be null (marshalN_Entity2[]Entity).
MarshalList(types, shape, list) ==
  LET out == [k \in DOMAIN list.items |->
                MarshalField(types, Item(shape), list.items[k])]
  IN IF shape.items /\ \E k \in DOMAIN out : out[k] = Nil
     THEN Nil
     ELSE List(out)

\* ResolveField, and the marshal function of the field.
MarshalField(types, shape, value) ==
  CASE value \in {Nil, Failed} -> Nil
    [] value.kind = "list"     -> MarshalList(types, shape, value)
    [] value.kind = "object"   -> MarshalObject(types, value)
    [] OTHER                   -> value

-----------------------------------------------------------------------------
(* The GraphQL specification: "Handling Field Errors". *)

RECURSIVE IsNull(_, _, _)

\* What is required and null takes the place around it along.
IsNull(schema, type, value) ==
  \/ value \in {Nil, Failed}
  \/ /\ value.kind = "list"
     /\ type.items
     /\ \E k \in DOMAIN value.items : IsNull(schema, Item(type), value.items[k])
  \/ /\ value.kind = "object"
     /\ \E f \in DOMAIN value.fields :
          /\ schema[value.type][f].required
          /\ IsNull(schema, schema[value.type][f], value.fields[f])

RECURSIVE Completed(_, _, _)

Completed(schema, type, value) ==
  IF IsNull(schema, type, value) THEN Nil
  ELSE CASE value.kind = "list" ->
              List([k \in DOMAIN value.items |->
                      Completed(schema, Item(type), value.items[k])])
         [] value.kind = "object" ->
              [value EXCEPT !.fields =
                 [f \in DOMAIN value.fields |->
                    Completed(schema, schema[value.type][f], value.fields[f])]]
         [] OTHER -> value
=============================================================================
