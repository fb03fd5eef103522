---------------------------- MODULE MCSQLiteStore ----------------------------
(***************************************************************************)
(* Collections through five versions of an application: a property is      *)
(* added, dropped, given another type and embedded objects; indexes come,  *)
(* go, become unique and change their properties; one collection is left   *)
(* out and becomes embedded; one has too many properties for a statement,  *)
(* and is called like another one but for case; one has a property with a  *)
(* name that SQLite refuses; one of those that are opened together has no  *)
(* watchers.                                                               *)
(* MCComposite is one collection with an index over two properties, under  *)
(* the name it has when it is not given one.                               *)
(***************************************************************************)
EXTENDS SQLiteStore

T(data, target) == [data |-> data, target |-> target]
I32 == T("i32", None)
Text == T("text", None)
P(name, type) == [name |-> name, type |-> type]
Idx(name, props, unique, hash) == [name |-> name, props |-> props, unique |-> unique, hash |-> hash]
Schema(name, props, indexes, embedded) ==
  [name |-> <<name>>, props |-> props, indexes |-> indexes, embedded |-> embedded]

A1 == Schema("A", <<P("x", I32), P("Y", I32)>>, {Idx(<<"x">>, <<"x">>, FALSE, FALSE)}, FALSE)
A2 == Schema("A", <<P("x", I32), P("y", Text)>>,
             {Idx(<<"x">>, <<"x">>, TRUE, TRUE), Idx(<<"xy">>, <<"x", "y">>, FALSE, FALSE)}, FALSE)
A3 == Schema("A", <<P("y", Text), P("x", T("object", "Json")), P("z", T("object", "B"))>>,
             {Idx(<<"x">>, <<"y">>, FALSE, FALSE), Idx(<<"xy">>, <<"y">>, TRUE, FALSE)}, FALSE)
B(embedded) == Schema("B", <<P("x", I32)>>, {}, embedded)
C == Schema("a", <<P("p", I32), P("q", I32), P("r", I32), P("s", I32)>>, {}, FALSE)
U == Schema("U", <<P("x", I32)>>, {}, FALSE)
D == Schema("D", <<P("x", I32), P("Order", I32)>>, {}, FALSE)

MCSchemas == { <<A1, U>>, <<B(FALSE), A2>>, <<A3, B(TRUE)>>, <<C>>, <<D>> }

MCComposite ==
  { <<Schema("A", <<P("x", I32), P("y", I32)>>, {Idx(<<"x", "y">>, <<"x", "y">>, FALSE, FALSE)}, FALSE)>> }

MCWatched == {<<"A">>, <<"B">>}

MCLower(s) ==
  CASE s = "A" -> "a" [] s = "B" -> "b" [] s = "D" -> "d"
    [] s = "Json" -> "json" [] s = "Order" -> "order" [] s = "U" -> "u"
    [] s = "Y" -> "y" [] OTHER -> s
MCRefused == {<<"order">>}
=============================================================================
