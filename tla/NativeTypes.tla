----------------------------- MODULE NativeTypes -----------------------------
(***************************************************************************)
(* C++ types and their values, as the templates of the library see them:   *)
(* the traits of native-2-web-common.hpp, and the parts of a value in the  *)
(* order in which they travel.  A type is a record, a value is             *)
(*   - an integer, of an arithmetic type or an enumeration;                *)
(*   - a sequence: the bytes of a string, the parts of a structure (bases  *)
(*     first), the elements of an array or of a container, the <<key,      *)
(*     value>> pairs of a map in its order, an optional's one value or     *)
(*     none;                                                               *)
(*   - a record [index, value], of a variant.                              *)
(* The order in which an unordered container is gone through is that of    *)
(* its elements, which stands for any other.  A double is one of a few     *)
(* integers, which stand for its eight bytes, or NaN.                      *)
(***************************************************************************)
EXTENDS Integers, Sequences, SequencesExt

Number(width, signed) == [k |-> "number", width |-> width, signed |-> signed]
Bool   == [k |-> "bool", width |-> 1, signed |-> FALSE]
Char   == [k |-> "char", width |-> 1, signed |-> TRUE]
Char16 == [k |-> "char16", width |-> 2, signed |-> FALSE]
Char32 == [k |-> "char32", width |-> 4, signed |-> FALSE]
Double == [k |-> "double", width |-> 8, signed |-> TRUE]
String == [k |-> "string"]

\* An enumeration, with the values that N2W__SPECIALIZE_ENUM lists.
Enumeration(width, listed) ==
  [k |-> "enum", width |-> width, signed |-> TRUE, listed |-> listed]

\* What N2W__USING_STRUCTURE makes of a class; pair and tuple.
Structure(bases, members) ==
  [k |-> "structure", as |-> "class", bases |-> bases, members |-> members]
Pair(s, t) ==
  [k |-> "structure", as |-> "pair", bases |-> <<>>, members |-> <<s, t>>]
Tuple(ts) ==
  [k |-> "structure", as |-> "tuple", bases |-> <<>>, members |-> ts]

Array(t, n)        == [k |-> "array", of |-> t, n |-> n]         \* array<T, N>
Bounded(t, n)      == [k |-> "bounded", of |-> t, n |-> n]       \* T[N]
MultiArray(t, ext) == [k |-> "multiarray", of |-> t, extents |-> ext]

\* `as' is the container's name.
SequenceOf(as, t)  == [k |-> "sequence", as |-> as, of |-> t]
MapOf(as, key, val) == [k |-> "map", as |-> as, key |-> key, val |-> val]

\* `initially' is what its default member initializer gives an optional.
Optional(t, initially) == [k |-> "optional", of |-> t, initially |-> initially]
Variant(ts)            == [k |-> "variant", of |-> ts]

NaN == -4194304

IsArithmetic(t) ==
  t.k \in {"number", "bool", "char", "char16", "char32", "double"}
IsScalar(t) == IsArithmetic(t) \/ t.k = "enum"

PushBack == {"vector", "list", "deque"}
UnorderedMaps == {"unordered_map", "unordered_multimap"}
Unordered == {"unordered_set", "unordered_multiset"} \cup UnorderedMaps
Multi == {"multiset", "unordered_multiset", "multimap", "unordered_multimap"}

IsPushBack(t) == t.k = "sequence" /\ t.as \in PushBack
IsSet(t) == t.k = "sequence" /\ t.as \notin PushBack
IsUnordered(t) == t.k \in {"sequence", "map"} /\ t.as \in Unordered
IsMulti(t) == t.as \in Multi

\* How a scalar of its own travels: a char16_t goes as a char32_t.
ScalarWidth(t) == IF t.k = "char16" THEN 4 ELSE t.width

\* An element of a container, when arithmetic, is copied as it is in memory.
Element(t) == IF IsArithmetic(t) /\ t.k # "double"
              THEN Number(t.width, t.signed) ELSE t

Same(x, n) == [i \in 1 .. n |-> x]

\* The number in front of a value: a count, an optional's tag or an index.
HeaderWidth(t) == CASE t.k \in {"string", "sequence", "map", "variant"} -> 4
                    [] t.k = "optional" -> 1
                    [] OTHER -> 0

Header(t, v) == CASE t.k \in {"string", "sequence", "map", "optional"} -> Len(v)
                  [] t.k = "variant" -> v.index
                  [] OTHER -> 0

\* The types of the parts that follow a header of n.
Kinds(t, n) ==
  CASE t.k = "string"                -> Same(Number(1, FALSE), n)
    [] t.k = "structure"             -> t.bases \o t.members
    [] t.k = "array"                 -> Same(t.of, t.n)
    [] t.k = "bounded"               -> Same(Element(t.of), t.n)
    [] t.k = "multiarray"            ->
         Same(Element(t.of), FoldLeft(LAMBDA p, e : p * e, 1, t.extents))
    [] t.k = "sequence"              -> Same(Element(t.of), n)
    [] t.k = "map"                   ->
         Same(Element(t.key), n) \o Same(Element(t.val), n)
    [] t.k = "optional"              -> Same(t.of, IF n = 0 THEN 0 ELSE 1)
    [] t.k = "variant"               -> <<t.of[n + 1]>>

\* The parts themselves: a map's keys come before its values.
Values(t, v) ==
  CASE t.k = "map"     -> [i \in DOMAIN v |-> v[i][1]] \o
                          [i \in DOMAIN v |-> v[i][2]]
    [] t.k = "variant" -> <<v.value>>
    [] OTHER           -> v
=============================================================================
