------------------------------ MODULE Comparison ------------------------------
(***************************************************************************)
(* How two objects compare: the operators that N2W__EQUALITY_SPEC gives a  *)
(* class and those that native-2-web-common.hpp adds for unordered         *)
(* containers, among those of the language and of the standard library.    *)
(*                                                                         *)
(* Unordered containers and C arrays are compared by their addresses.  The *)
(* parameter `before' says of two objects whether the parts of the left    *)
(* one lie before those of the right one.                                  *)
(***************************************************************************)
EXTENDS NativeTypes

\* The parts that are compared one after the other: a map's are its pairs.
ComparedKinds(t, n) ==
  IF t.k = "map" THEN Same(Pair(t.key, t.val), n) ELSE Kinds(t, n)

RECURSIVE LessThan(_, _, _, _)

\* Mutant: a part that is less makes the structure less, even if one before
\* it is greater.
LesserGreaterAnywhere(kinds, l, r, before) ==
  FoldLeft(LAMBDA found, i :
             [lesser  |-> \/ found.lesser
                          \/ LessThan(kinds[i], l[i], r[i], before),
              greater |-> ~found.lesser
                            /\ (found.greater
                                  \/ LessThan(kinds[i], r[i], l[i], ~before))],
           [lesser |-> FALSE, greater |-> FALSE],
           [i \in DOMAIN kinds |-> i])

\* lesser_greater of memberwise_less, after the bases and the members
LesserGreater(kinds, l, r, before) ==
  FoldLeft(LAMBDA found, i :
             [lesser  |-> ~found.greater
                            /\ (found.lesser
                                  \/ LessThan(kinds[i], l[i], r[i], before)),
              greater |-> ~found.lesser
                            /\ (found.greater
                                  \/ LessThan(kinds[i], r[i], l[i], ~before))],
           [lesser |-> FALSE, greater |-> FALSE],
           [i \in DOMAIN kinds |-> i])

\* less_unordered sorts addresses by what is there, and compares the addresses:
\* no two objects share an element, so the first decides.
LessUnordered(l, r, before) == r # <<>> /\ (l = <<>> \/ before)

\* std::lexicographical_compare, and < of pair and tuple
LessLexically(t, l, r, before) ==
  \E i \in DOMAIN r :
    LET Ahead(j) == LessThan(ComparedKinds(t, j)[j], l[j], r[j], before)
        Behind(j) == LessThan(ComparedKinds(t, j)[j], r[j], l[j], ~before)
    IN  /\ i <= Len(l) + 1
        /\ \A j \in 1 .. i - 1 : ~Ahead(j) /\ ~Behind(j)
        /\ i <= Len(l) => Ahead(i)

LessThan(t, l, r, before) ==
  CASE t.k = "double"                   -> l # NaN /\ r # NaN /\ l < r
    [] IsScalar(t) /\ t.k # "double"    -> l < r
    [] t.k \in {"bounded", "multiarray"} -> before
    [] IsUnordered(t)                   -> LessUnordered(l, r, before)
    [] t.k = "structure" /\ t.as = "class" ->
         LesserGreater(Kinds(t, 0), l, r, before).lesser
    [] t.k = "variant"                  ->
         \/ l.index < r.index
         \/ /\ l.index = r.index
            /\ LessThan(t.of[l.index + 1], l.value, r.value, before)
    [] OTHER                            -> LessLexically(t, l, r, before)

RECURSIVE Equal(_, _, _)

EqualParts(kinds, l, r) == \A i \in DOMAIN kinds : Equal(kinds[i], l[i], r[i])

\* Mutant: only the first base is compared.
EqualFirstBase(t, l, r) == t.bases # <<>> => Equal(t.bases[1], l[1], r[1])

\* memberwise_equality returns before it comes to the members.
MemberwiseEquality(t, l, r) == EqualParts(t.bases, l, r)

Equal(t, l, r) ==
  CASE t.k = "double"                   -> l # NaN /\ l = r
    [] (IsScalar(t) /\ t.k # "double") \/ t.k = "string" -> l = r
    [] t.k \in {"bounded", "multiarray"} -> FALSE       \* two addresses
    [] t.k = "structure" /\ t.as = "class" -> MemberwiseEquality(t, l, r)
    [] t.k = "variant"                  ->
         l.index = r.index /\ Equal(t.of[l.index + 1], l.value, r.value)
    [] OTHER                            ->
         Len(l) = Len(r) /\ EqualParts(ComparedKinds(t, Len(l)), l, r)
=============================================================================
