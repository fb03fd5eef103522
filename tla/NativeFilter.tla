---------------------------- MODULE NativeFilter -----------------------------
(***************************************************************************)
(* Filter conditions of the native engine: how condition_to_native turns a *)
(* condition into bounds, and how the bounds are compared with an object.  *)
(*                                                                         *)
(* Integers are 0..MaxInt with 0 for i32::MIN or i64::MIN, which the       *)
(* engine stores for null; a bool is null, false, true in that order.      *)
(* Strings are sequences of code points 0..MaxChar, compared as their      *)
(* UTF-8 bytes are, and MAX_STRING is the last code point alone.           *)
(***************************************************************************)
EXTENDS WildMatch

CONSTANTS
  Null,      \* no string, no integer
  MaxInt,    \* i32::MAX or i64::MAX
  MaxChar,   \* char::MAX
  Lower      \* Lower[c]: the code point to_lowercase turns c into

ASSUME FilterAssumption ==
  /\ MaxInt \in Nat /\ MaxChar \in Nat
  /\ Lower \in [0..MaxChar -> 0..MaxChar]

Types == {"isNull", "equal", "greater", "greaterOrEqual", "less", "lessOrEqual",
          "between", "startsWith", "endsWith", "contains", "matches"}

\* What condition_to_native returns None for becomes a filter that is false.
Never == [kind |-> "never"]

-----------------------------------------------------------------------------
(* Integers, bools and ids.                                                *)

\* A bound that is null is the least integer, also as an upper bound.
OrNull(v) == IF v = Null THEN 0 ELSE v

\* Mutant: the exclusive bounds wrap.
WrappedBetween(lower, includeLower, upper, includeUpper) ==
  [kind  |-> "int",
   lower |-> IF includeLower THEN lower ELSE (lower + 1) % (MaxInt + 1),
   upper |-> IF includeUpper THEN upper ELSE (upper - 1) % (MaxInt + 1)]

\* Exclusive bounds by checked_add and checked_sub.
IntBetween(lower, includeLower, upper, includeUpper) ==
  IF (~includeLower /\ lower = MaxInt) \/ (~includeUpper /\ upper = 0)
  THEN Never
  ELSE [kind  |-> "int",
        lower |-> IF includeLower THEN lower ELSE lower + 1,
        upper |-> IF includeUpper THEN upper ELSE upper - 1]

IntCondition(type, values) ==
  CASE type = "isNull"         -> [kind |-> "null"]
    [] type = "equal"          -> IntBetween(OrNull(values[1]), TRUE, OrNull(values[1]), TRUE)
    [] type = "greater"        -> IntBetween(OrNull(values[1]), FALSE, MaxInt, TRUE)
    [] type = "greaterOrEqual" -> IntBetween(OrNull(values[1]), TRUE, MaxInt, TRUE)
    [] type = "less"           -> IntBetween(0, TRUE, OrNull(values[1]), FALSE)
    [] type = "lessOrEqual"    -> IntBetween(0, TRUE, OrNull(values[1]), TRUE)
    [] type = "between"        -> IntBetween(OrNull(values[1]), TRUE, OrNull(values[2]), TRUE)
    [] OTHER                   -> Never

-----------------------------------------------------------------------------
(* Strings.                                                                *)

MaxString == <<MaxChar>>

ToLower(s) == [n \in DOMAIN s |-> Lower[s[n]]]

Folded(s, caseSensitive) == IF caseSensitive \/ s = Null THEN s ELSE ToLower(s)

\* Byte order.
LessThan(s, t) ==
  \/ IsStrictPrefix(s, t)
  \/ \E n \in DOMAIN s \cap DOMAIN t :
       s[n] < t[n] /\ \A m \in 1..(n - 1) : s[m] = t[m]

AtMost(s, t) == s = t \/ LessThan(s, t)

\* The last code point is raised or lowered by one.
Raised(s) == IF s = <<>> THEN <<0>> ELSE [s EXCEPT ![Len(s)] = @ + 1]

Lowered(s) ==
  IF s = <<>> THEN Null
  ELSE IF Last(s) = 0 THEN Front(s)
  ELSE [s EXCEPT ![Len(s)] = @ - 1]

\* No lower bound at all, if it is excluded, is the least string that is one.
LowerBound(s, include) ==
  IF s = Null THEN IF include THEN Null ELSE <<>>
              ELSE IF include THEN s ELSE Raised(s)

UpperBound(s, include) == IF include THEN s ELSE Lowered(s)

StringBetween(lower, includeLower, upper, includeUpper, caseSensitive) ==
  IF \/ ~includeLower /\ lower # Null /\ lower # <<>> /\ Last(lower) = MaxChar
     \/ ~includeUpper /\ upper = Null
  THEN Never
  ELSE [kind          |-> "string",
        lower         |-> Folded(LowerBound(lower, includeLower), caseSensitive),
        upper         |-> Folded(UpperBound(upper, includeUpper), caseSensitive),
        caseSensitive |-> caseSensitive]

StartsWith(s, caseSensitive) ==
  StringBetween(s, TRUE, s \o MaxString, TRUE, caseSensitive)

Search(kind, s, caseSensitive) ==
  [kind |-> kind, value |-> Folded(s, caseSensitive), caseSensitive |-> caseSensitive]

StringCondition(type, values, caseSensitive) ==
  LET Between(lower, includeLower, upper, includeUpper) ==
        StringBetween(lower, includeLower, upper, includeUpper, caseSensitive)
  IN CASE type = "isNull"         -> [kind |-> "null"]
       [] type = "equal"          -> Between(values[1], TRUE, values[1], TRUE)
       [] type = "greater"        -> Between(values[1], FALSE, MaxString, TRUE)
       [] type = "greaterOrEqual" -> Between(values[1], TRUE, MaxString, TRUE)
       [] type = "less"           -> Between(Null, TRUE, values[1], FALSE)
       [] type = "lessOrEqual"    -> Between(Null, TRUE, values[1], TRUE)
       [] type = "between"        -> Between(values[1], TRUE, values[2], TRUE)
       [] values[1] = Null        -> Never
       [] type = "startsWith"     -> StartsWith(values[1], caseSensitive)
       [] OTHER                   -> Search(type, values[1], caseSensitive)

-----------------------------------------------------------------------------
(* Evaluation.                                                             *)

\* Mutant: a missing upper bound is no bound.
OpenUpper(s, f) ==
  IF s = Null THEN f.lower = Null
  ELSE /\ f.lower # Null => AtMost(f.lower, s)
       /\ f.upper # Null => AtMost(s, f.upper)

\* string_between: no string is within bounds that have no lower one, and no
\* string that is one is within bounds that have no upper one.
WithinBounds(s, f) ==
  IF s = Null THEN f.lower = Null
  ELSE /\ f.lower # Null => AtMost(f.lower, s)
       /\ f.upper # Null /\ AtMost(s, f.upper)

EvaluateInt(f, v) ==
  \/ f.kind = "null" /\ v = 0
  \/ f.kind = "int" /\ f.lower <= v /\ v <= f.upper

EvaluateString(f, s) ==
  CASE f.kind = "never"      -> FALSE
    [] f.kind = "null"       -> s = Null
    [] f.kind = "string"     -> WithinBounds(Folded(s, f.caseSensitive), f)
    [] s = Null              -> FALSE
    [] f.kind = "endsWith"   -> IsSuffix(f.value, Folded(s, f.caseSensitive))
    [] f.kind = "matches"    -> FastWildMatch(Folded(s, f.caseSensitive), f.value)
    [] OTHER                 ->
         \E n \in 1..(Len(s) + 1) :
           IsPrefix(f.value, SubSeq(Folded(s, f.caseSensitive), n, Len(s)))

-----------------------------------------------------------------------------
(* What the conditions mean: null is smaller than everything else, and     *)
(* case-insensitive conditions compare lower-case strings.                 *)

IntMeans(type, values, v) ==
  LET a == OrNull(values[1])
      b == OrNull(values[2])
  IN CASE type = "isNull"         -> v = 0
       [] type = "equal"          -> v = a
       [] type = "greater"        -> v > a
       [] type = "greaterOrEqual" -> v >= a
       [] type = "less"           -> v < a
       [] type = "lessOrEqual"    -> v <= a
       [] type = "between"        -> a <= v /\ v <= b

\* s before t, either of which may be null.
Precedes(s, t) == t # Null /\ (s = Null \/ LessThan(s, t))

StringMeans(type, values, caseSensitive, str) ==
  LET s == Folded(str, caseSensitive)
      a == Folded(values[1], caseSensitive)
      b == Folded(values[2], caseSensitive)
  IN CASE type = "isNull"         -> s = Null
       [] type = "equal"          -> s = a
       [] type = "greater"        -> Precedes(a, s)
       [] type = "greaterOrEqual" -> ~Precedes(s, a)
       [] type = "less"           -> Precedes(s, a)
       [] type = "lessOrEqual"    -> ~Precedes(a, s)
       [] type = "between"        -> ~Precedes(s, a) /\ ~Precedes(b, s)
       [] s = Null \/ a = Null    -> FALSE
       [] type = "startsWith"     -> IsPrefix(a, s)
       [] type = "endsWith"       -> IsSuffix(a, s)
       [] type = "contains"       -> \E n \in 0..Len(s) : IsPrefix(a, SubSeq(s, n + 1, Len(s)))
       [] type = "matches"        -> WildMeans(s, a)
=============================================================================
