------------------------------ MODULE JsonText ------------------------------
(***************************************************************************)
(* The text of a JSON value, for the runs: compiler/normalize.py, and what *)
(* a caller writes. The modules that are proved about take both as         *)
(* constants, because text is defined by recursion over the value.         *)
(***************************************************************************)
EXTENDS Contract

RECURSIVE Dump(_, _)
Dump(value, sorted) ==
  CASE value.kind = "array" ->
         <<"[">> \o Separated([i \in DOMAIN value.members |-> Dump(value.members[i], sorted)])
         \o <<"]">>
    [] value.kind = "object" ->
         LET keys == SortedKeys(ToSet(KeysOf(value.members)))
             members == IF sorted
                          THEN [i \in DOMAIN keys |-> [key |-> keys[i],
                                                       value |-> Value(value.members, keys[i])]]
                          ELSE value.members
         IN <<"{">> \o Separated([i \in DOMAIN members |->
                          Quoted(members[i].key) \o <<":">> \o Dump(members[i].value, sorted)])
            \o <<"}">>
    [] value.kind = "string" -> Quoted(value.text)
    [] OTHER -> value.text

SortedDump(value) == Dump(value, TRUE)
PlainDump(value) == Dump(value, FALSE)
=============================================================================
