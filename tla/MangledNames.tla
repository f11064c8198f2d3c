----------------------------- MODULE MangledNames -----------------------------
(***************************************************************************)
(* The names native-2-web-manglespec.hpp gives to types, and with them the *)
(* names services are registered, advertised and called by.  A name is a   *)
(* sequence of tokens, each of which is written as it stands here.         *)
(***************************************************************************)
EXTENDS NativeTypes

Digit(width) == CASE width = 1 -> "3" [] width = 2 -> "4"
                  [] width = 4 -> "5" [] width = 8 -> "6"

\* mangle<bool> to mangle<double>
ArithmeticName(t) ==
  CASE t.k = "bool"   -> <<"b">>
    [] t.k = "double" -> <<"f", Digit(t.width)>>
    [] t.k = "number" -> <<IF t.signed THEN "i" ELSE "u", Digit(t.width)>>
    [] OTHER          -> <<"'", Digit(t.width)>>

\* mangle_prefix
PrefixOf ==
  [class |-> "{", pair |-> "<", tuple |-> "(",
   vector |-> "v[", list |-> "l[", deque |-> "d[",
   set |-> "s[", multiset |-> "S[",
   unordered_set |-> "h[", unordered_multiset |-> "H[",
   map |-> "m{", multimap |-> "M{",
   unordered_map |-> "h{", unordered_multimap |-> "H{"]

\* Mutant: only what is registered as a class is closed.
SuffixForgotten(as) == IF as = "class" THEN <<"}">> ELSE <<>>

SuffixOf(as) ==
  CASE as = "class" -> <<"}">> [] as = "tuple" -> <<")">> [] OTHER -> <<>>

RECURSIVE Mangled(_)

\* csv
Csv(ts) ==
  FlattenSeq([i \in DOMAIN ts |->
                (IF i > 1 THEN <<",">> ELSE <<>>) \o Mangled(ts[i])])

Listed(numbers) ==
  FlattenSeq([i \in DOMAIN numbers |-> <<",", ToString(numbers[i])>>])

\* mangled: of a structure its members say it all.
Mangled(t) ==
  CASE IsArithmetic(t)      -> ArithmeticName(t)
    [] t.k = "enum"         -> <<"c[">> \o Mangled(Number(t.width, t.signed))
                               \o Listed(t.listed) \o <<"]">>
    [] t.k = "string"       -> <<"\"">> \o Mangled(Char)
    [] t.k = "structure"    -> <<PrefixOf[t.as]>> \o Csv(t.members)
                               \o SuffixOf(t.as)
    [] t.k = "array"        -> <<"a[">> \o Mangled(t.of) \o Listed(<<t.n>>)
    [] t.k = "bounded"      -> <<"p[">> \o Mangled(t.of) \o Listed(<<t.n>>)
    [] t.k = "multiarray"   -> Same("p[", Len(t.extents)) \o Mangled(t.of)
                               \o Listed(Reverse(t.extents))
    [] t.k = "sequence"     -> <<PrefixOf[t.as]>> \o Mangled(t.of)
    [] t.k = "map"          -> <<PrefixOf[t.as]>> \o Mangled(t.key) \o <<"&">>
                               \o Mangled(t.val)
    [] t.k = "optional"     -> <<"?">> \o Mangled(t.of)
    [] t.k = "variant"      -> <<"|[">> \o Csv(t.of) \o <<"]">>

\* function_address: what a function is registered and called by
FunctionAddress(name, returns, takes) ==
  <<"@", name, "^">> \o Mangled(returns) \o <<"=">> \o
  (IF takes = <<>> THEN <<"0">> ELSE Csv(takes))
=============================================================================
