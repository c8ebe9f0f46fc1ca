------------------------------ MODULE MCCatalog ------------------------------
(* Instances of Catalog for TLC: a default graph, a model's graph, one       *)
(* schema with four properties, and one object of every other kind.          *)
EXTENDS Catalog

MCNames == {"g", "m", "s", "p", "q", "id", "skip", "bad", "x", "y"}
MCKind == [n \in MCNames |-> CASE n = "id" -> "id" [] n = "skip" -> "ignore"
                               [] n = "bad" -> "bad" [] OTHER -> "plain"]
MCProperties == [s |-> <<"id", "p", "skip", "q">>, y |-> <<"p", "bad", "q">>, bad |-> <<>>]
MCObjects == {<<"g">>, <<"m">>, <<"x">>, <<"g", "s">>, <<"g", "y">>}
             \cup {<<"g", s, p>> : s \in {"s", "y"}, p \in {"p", "q"}}

\* What a call of one statement is about.
ObjectOf(call) == CASE call.kind = "schema" -> <<"g", "s">>
                    [] call.kind = "property" -> <<"g", "s", "p">>
                    [] call.kind = "graph" -> <<"m">>
                    [] OTHER -> <<"x">>
Ask(call, input, to) ==
  [op |-> "single", call |-> call, obj |-> ObjectOf(call), to |-> to, input |-> input]
Singles == {Ask(call, "good", ObjectOf(call)) : call \in AllCalls}
           \cup {Ask(call, "invalid", ObjectOf(call)) : call \in {DropSchema, GetSchema}}
           \cup {Ask(AlterSchema, "good", <<"g", "y">>)}

Graphs == {[op |-> "createGraphIfNotExist", graph |-> n] : n \in {"m", "bad"}}
Schemas == {[op |-> op, config |-> "g", schema |-> s, isCreateProperties |-> TRUE] :
              op \in {"createSchema", "createSchemaIfNotExist"}, s \in {"s", "y", "bad"}}
           \cup {[op |-> "createSchema", config |-> "g", schema |-> "s", isCreateProperties |-> FALSE]}
PropertyCalls == {[op |-> "createPropertyIfNotExist", config |-> "g", schema |-> "s", property |-> p] :
                    p \in {"p", "id", "skip", "bad"}}
Model == [op |-> "initModel", graph |-> "m", config |-> "g", schemas |-> <<"s">>]

\* Two clients create the same things; the second also makes every other call.
MCRequests == [a |-> {r \in Graphs \cup Schemas : r.op # "createSchemaIfNotExist"} \cup {Model},
               b |-> Graphs \cup PropertyCalls \cup Singles
                     \cup {r \in Schemas : r.schema = "s" /\ r.isCreateProperties}]
MCInitial == {<<"g">>, <<"x">>}
MCMaxCalls == [a |-> 2, b |-> 1]

\* One client that calls InitModel twice.
ModelRequests == [a |-> {Model}]
TwoCalls == [a |-> 2]
=============================================================================
