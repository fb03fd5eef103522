---------------------------- MODULE MCNativeQuery ----------------------------
(***************************************************************************)
(* Objects with a nullable integer n, a byte b, which is never null, and a *)
(* nullable string s.  Every condition on n and s is asked for once; a few *)
(* of them with every sort, distinct, offset and limit, and with every     *)
(* aggregate.                                                              *)
(***************************************************************************)
EXTENDS NativeQuery, NativeFilter

\* Code point 1 is the capital of 2.
MCLower == [c \in 0..MaxChar |-> IF c = 1 THEN 2 ELSE c]

\* Code point 2 has two bytes.
MCBytes == [c \in 0..MaxChar |-> IF c = 2 THEN <<2, 12>> ELSE <<c>>]

Strings == {Null} \cup UNION {[1..n -> 0..2] : n \in 0..2}

MCObject ==
  { [n |-> 0, b |-> 0, s |-> Null],
    [n |-> 1, b |-> 3, s |-> <<>>],
    [n |-> 2, b |-> 3, s |-> <<1, 0>>],
    [n |-> 3, b |-> 0, s |-> <<2, 0>>] }

Zero == CHOOSE o \in MCObject : o.n = 0
One == CHOOSE o \in MCObject : o.n = 1
Two == CHOOSE o \in MCObject : o.n = 2
Three == CHOOSE o \in MCObject : o.n = 3

MCDatabase ==
  LET db(a, b, c, d) == (1 :> a) @@ (2 :> b) @@ (3 :> c) @@ (4 :> d)
  IN { db(None, None, None, None), db(One, Zero, Three, Two), db(Two, One, Two, Two),
       db(Three, Two, Three, Zero), db(Zero, None, Zero, Zero), db(Three, None, None, One) }

StringRank(s) == IF s = Null THEN 0 ELSE 1 + Cardinality({t \in Strings \ {Null} : LessThan(t, s)})

MCProp == {"id", "n", "b", "s"}
MCRank ==
  [p \in MCProp |-> [o \in MCObject |->
    CASE p = "n" -> o.n [] p = "b" -> o.b [] p = "s" -> StringRank(o.s) [] OTHER -> 0]]
MCNullRank == [p \in MCProp |-> IF p \in {"n", "s"} THEN 0 ELSE None]
MCLeast == [p \in MCProp |-> IF p = "s" THEN 1 ELSE 0]
MCGreatest == [p \in MCProp |-> IF p \in {"n", "b"} THEN MaxInt ELSE 99]

-----------------------------------------------------------------------------
(* Filters.                                                                *)

Unfiltered == [prop |-> "any", type |-> "isNull", ints |-> <<Null, Null>>,
               strings |-> <<Null, Null>>, caseSensitive |-> TRUE]

OnInt(type, a, b) == [Unfiltered EXCEPT !.prop = "n", !.type = type, !.ints = <<a, b>>]

OnString(type, a, b, caseSensitive) ==
  [Unfiltered EXCEPT !.prop = "s", !.type = type, !.strings = <<a, b>>,
              !.caseSensitive = caseSensitive]

IntTypes == Types \ {"startsWith", "endsWith", "contains", "matches"}
Integers4 == 0..MaxInt \cup {Null}
Bounds == {Null, <<>>, <<0>>, <<1>>, <<2>>, <<2, 1>>, <<1, 2>>}

Patterns == UNION {[1..n -> {0, 2, Asterisk, QuestionMark}] : n \in 0..3}
              \cup {<<Asterisk, 0, 2>> \o p : p \in [1..2 -> {0, Asterisk, QuestionMark}]}
LongStrings == Strings \cup UNION {[1..n -> {0, 2}] : n \in 3..5}

SomeFilters ==
  {Unfiltered, OnInt("greater", 0, Null), OnString("startsWith", <<1>>, Null, FALSE)}

OneValue(types) == types \ {"isNull", "between", "matches"}

MCFilter ==
  SomeFilters
    \cup {OnInt("isNull", Null, Null)} \cup {OnString("isNull", Null, Null, TRUE)}
    \cup {OnInt(t, a, Null) : t \in OneValue(IntTypes), a \in Integers4}
    \cup {OnInt("between", a, b) : a \in Integers4, b \in Integers4}
    \cup {OnString(t, a, Null, c) : t \in OneValue(Types), a \in Bounds, c \in BOOLEAN}
    \cup {OnString("between", a, b, c) : a \in Bounds, b \in Bounds, c \in BOOLEAN}
    \cup {OnString("matches", a, Null, c) : a \in Patterns \cup {Null}, c \in BOOLEAN}

Evaluate(f, o) ==
  CASE f.prop = "any" -> TRUE
    [] f.prop = "n"   -> EvaluateInt(IntCondition(f.type, f.ints), o.n)
    [] f.prop = "s"   -> EvaluateString(StringCondition(f.type, f.strings, f.caseSensitive), o.s)

MCAccepts ==
  [f \in MCFilter |-> {<<id, o>> \in Id \X MCObject : Evaluate(f, o)}]

-----------------------------------------------------------------------------
(* Queries.                                                                *)

Asking(f, sort, distinct, offset, limit, op, prop) ==
  [filter |-> f, sort |-> sort, distinct |-> distinct, offset |-> offset, limit |-> limit,
   op |-> op, prop |-> prop]

By(prop, ascending) == [prop |-> prop, ascending |-> ascending]

Sorts ==
  { <<>>, <<By("b", TRUE)>>, <<By("s", FALSE)>>, <<By("b", FALSE), By("n", TRUE)>>,
    <<By("n", TRUE), By("id", FALSE)>> }

Distincts == {<<>>, <<"b">>, <<"b", "s">>}

MCQuery ==
  {Asking(f, <<>>, <<>>, 0, 0, "count", "id") : f \in MCFilter}
    \cup {Asking(f, s, d, n, m, "find", "id") :
            f \in SomeFilters, s \in Sorts, d \in Distincts, n \in 0..2, m \in 0..2}
    \cup {Asking(f, <<>>, d, 0, 0, op, p) :
            f \in SomeFilters, d \in Distincts,
            op \in {"count", "isEmpty", "min", "max", "sum"}, p \in {"id", "n", "b"}}
    \cup {Asking(f, <<>>, <<>>, 0, 0, op, "s") : f \in SomeFilters, op \in {"min", "max"}}

-----------------------------------------------------------------------------
Exclusive(f) == f.prop = "s" /\ f.type \in {"greater", "less"}

Means(f, n, s) ==
  CASE f.prop = "any" -> TRUE
    [] f.prop = "n"   -> IntMeans(f.type, f.ints, n)
    [] f.prop = "s"   -> StringMeans(f.type, f.strings, f.caseSensitive, s)

\* A question mark stands for one byte, and a code point has several.
SplitsCharacter(f, s) ==
  /\ f.prop = "s" /\ f.type = "matches" /\ f.strings[1] # Null /\ s # Null
  /\ QuestionMark \in Range(f.strings[1])
  /\ \E c \in Range(Folded(s, f.caseSensitive)) : Len(Bytes[c]) > 1

\* The bounds or the pattern that a condition is turned into accept exactly
\* the values that the condition means, null and the ends of the range among
\* them, and a pattern however its match has to go back.  A string that is
\* excluded as a bound is replaced by a neighbour, and the strings in between
\* are lost: there a case-sensitive condition only accepts nothing it should
\* not.  A question mark takes a byte and not a character
\* (condition_to_native, native_between_filter, string_between,
\* fast_wild_match).
FiltersExact ==
  phase = "scanning" /\ ahead = Stored =>
  LET f == query.filter
  IN \A n \in (IF f.prop = "s" THEN {0} ELSE 0..MaxInt),
        s \in (IF f.type = "matches" THEN LongStrings ELSE Strings) :
       LET accepts == Evaluate(f, [n |-> n, b |-> 0, s |-> s])
       IN IF Exclusive(f) THEN f.caseSensitive /\ accepts => Means(f, n, s)
          ELSE SplitsCharacter(f, s) \/ (accepts <=> Means(f, n, s))
=============================================================================
