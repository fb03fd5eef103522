----------------------------- MODULE MCWatchers ------------------------------
(***************************************************************************)
(* The change detector reads y and z alike, and x otherwise.  Collection   *)
(* `a' has a unique index on what it reads; `b' has no index.  Watchers    *)
(* are named for what they watch: two of collection a, one of object 1,    *)
(* one of the query for x, and detailed ones.                              *)
(***************************************************************************)
EXTENDS Watchers

CONSTANTS a, b, x, y, z, col1, col2, obj, query, detail, detailB

On(kind, c) == [kind |-> kind, col |-> c, id |-> 1, matches |-> {x}]

MCTarget ==
  [w \in Watcher |-> CASE w \in {col1, col2} -> On("collection", a)
                       [] w = obj -> On("object", a)
                       [] w = query -> On("query", a)
                       [] w = detail -> On("detailed", a)
                       [] OTHER -> On("detailed", b)]

MCShown == [v \in Value |-> IF v = x THEN "one" ELSE "two"]

\* Nothing of the above tells y from z.
MCSymmetry == Permutations({y, z})

MCConflict ==
  [c \in Collection |-> IF c # a THEN {}
                        ELSE {p \in Value \X Value : MCShown[p[1]] = MCShown[p[2]]}]
=============================================================================
