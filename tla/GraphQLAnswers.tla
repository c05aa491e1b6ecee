---------------------------- MODULE GraphQLAnswers ----------------------------
(***************************************************************************)
(* What the clients of the three GraphQL servers get: the data of an       *)
(* answer as the generated code computes it, and as the schema demands.    *)
(***************************************************************************)
EXTENDS GraphQLInvariants, Marshalling

Root(r) == IF IsMutation(r) THEN "Mutation" ELSE "Query"

\* The data of r's answer: the root object, with its fields by position.
Data(r) ==
  LET type == Code[server][Root(r)]
      out  == [i \in Fields(r) |->
                 MarshalField(Code[server], type.fields[Call(r, i).field], slot[r][i].value)]
  IN IF \E i \in Fields(r) : out[i] = Nil /\ Call(r, i).field \in type.counted
     THEN Nil ELSE List(out)

FieldType(r, i) == Schema[server][Root(r)][Call(r, i).field]

Expected(r) ==
  LET out == [i \in Fields(r) |->
                Completed(Schema[server], FieldType(r, i), slot[r][i].value)]
  IN IF \E i \in Fields(r) : out[i] = Nil /\ FieldType(r, i).required
     THEN Nil ELSE List(out)

\* An answer shows what its resolvers returned, and null exactly where the
\* schema and the rule on null in required places put it: a field that failed
\* takes no more with it than it has to, and no less (_Query, _Mutation and
\* the object and list functions of generated.go against schema.graphqls).
AnswerFollowsSchema == \A r \in Answered : Data(r) = Expected(r)
=============================================================================
