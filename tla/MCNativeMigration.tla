-------------------------- MODULE MCNativeMigration --------------------------
(***************************************************************************)
(* Two collections through three versions of an application.  Of A, a      *)
(* property is dropped, added, given another type and another place, and   *)
(* its indexes are added, redefined and made unique; B comes, goes, and is *)
(* embedded for a while.                                                   *)
(***************************************************************************)
EXTENDS NativeMigration, TLC

P(name, type) == [name |-> name, type |-> type]
Idx(name, props, unique) ==
  [name |-> name, props |-> props, unique |-> unique, hash |-> Len(props) > 1]
Schema(name, props, indexes, embedded) ==
  [name |-> name, props |-> props, indexes |-> indexes, embedded |-> embedded]

A1 == Schema("A", <<P("x", "int"), P("s", "string")>>, {Idx("i", <<"x">>, FALSE)}, FALSE)
A2 == Schema("A", <<P("s", "string"), P("y", "string")>>, {Idx("j", <<"s">>, TRUE), Idx("k", <<"y">>, FALSE)}, FALSE)
A3 == Schema("A", <<P("y", "int"), P("s", "string"), P("x", "int")>>,
             {Idx("j", <<"s", "x">>, TRUE), Idx("k", <<"y">>, FALSE)}, FALSE)
B(embedded) == Schema("B", <<P("x", "int")>>, {}, embedded)

MCSchemas == { <<A1, B(FALSE)>>, <<A2, B(TRUE)>>, <<A3>> }

MCFiles ==
  { <<>>,
    "B" :> [props |-> <<P("x", "int")>>, indexes |-> {Idx("i", <<"x">>, FALSE)}, embedded |-> FALSE,
            version |-> FileVersion - 1] }

MCStrings == {<<2>>, <<2, 3>>}
=============================================================================
