----------------------------- MODULE MCQueryExec -----------------------------
(* Instances of QueryExec for TLC. *)
EXTENDS QueryExec

(* Two aliases of one type around one of another. *)
ThreeAliases == <<"a", "b", "c">>
TwoTypes == [a |-> "node", b |-> "table", c |-> "node"]

(* Two aliases of different types. *)
TwoAliases == <<"a", "b">>
OneEach == [a |-> "node", b |-> "table"]
=============================================================================
