------------------------------- MODULE MCCodec -------------------------------
(* Small instances of Codec for TLC. *)
EXTENDS Codec

Sample(type, values) == [type |-> type, values |-> values]

\* The texts: empty, ASCII, the first and last code point of each length of
\* UTF-8 (the surrogates aside), and one followed by others.
MCTexts == {<<>>, <<65>>, <<127>>, <<128>>, <<2047>>, <<2048>>, <<65535>>,
            <<65536>>, <<1114111>>, <<233, 66>>, <<128512, 65>>, <<8364, 90>>}

A   == Utf8(<<65>>)
E9B == Utf8(<<233, 66>>)
Grin == Utf8(<<128512, 65>>)

Int32 == Number(4, TRUE)
Int64 == Number(8, TRUE)
UInt16 == Number(2, FALSE)

\* Two classes, one of which is the other's base in a third.
Point == Structure(<<>>, <<Int32, Int32>>)
Of(x, y) == <<x, y>>
Wrap == Structure(<<>>, <<Int32>>)

Scalars == <<
  Sample(Number(1, TRUE), <<0, 127, -1, -128>>),
  Sample(Number(1, FALSE), <<0, 255>>),
  Sample(Number(2, TRUE), <<258, -2>>),
  Sample(UInt16, <<65535>>),
  Sample(Int32, <<0, 2147483647, -2147483647, -1, 16909060>>),
  Sample(Number(4, FALSE), <<16777216>>),
  Sample(Int64, <<0, 5, -5>>),
  Sample(Enumeration(1, <<-1, 1>>), <<1, -1>>),
  Sample(Enumeration(1, <<1, 2>>), <<1>>),
  Sample(Double, <<0, 3, -3, NaN>>),
  Sample(Bool, <<0, 1>>),
  Sample(Char, <<65, -23>>),
  Sample(Char16, <<65, 8364>>),
  Sample(Char32, <<0, 65535, 65536, 128512>>),
  Sample(String, <<Utf8(<<>>), Utf8(<<65>>), Utf8(<<127>>), Utf8(<<128>>),
                   Utf8(<<2047>>), Utf8(<<2048>>), Utf8(<<65535>>),
                   Utf8(<<65536>>), Utf8(<<1114111>>), E9B, Grin>>) >>

Containers == <<
  Sample(SequenceOf("vector", Int32), <<<<>>, <<7>>, <<-7, 300>>>>),
  Sample(SequenceOf("vector", Bool), <<<<1, 0>>>>),
  Sample(SequenceOf("vector", Char16), <<<<8364, 65>>>>),
  Sample(SequenceOf("vector", Char32), <<<<128512>>>>),
  Sample(SequenceOf("vector", Int64), <<<<>>, <<9>>>>),
  Sample(SequenceOf("vector", String), <<<<A, E9B>>, <<A, Grin>>>>),
  Sample(Array(Int32, 2), <<<<1, 2>>>>),
  Sample(Array(Char16, 2), <<<<65, 66>>>>),
  Sample(Array(Char16, 0), <<<<>>>>),
  Sample(Array(Char32, 1), <<<<128512>>>>),
  Sample(Array(SequenceOf("vector", UInt16), 2),
         <<<<<<1>>, <<>>>>, <<<<>>, <<>>>>>>),
  Sample(Bounded(Char16, 2), <<<<65, 66>>>>),
  Sample(Bounded(String, 2), <<<<A, A>>>>),
  Sample(MultiArray(Int32, <<2, 2>>), <<<<1, 2, 3, 4>>>>),
  Sample(MultiArray(Int32, <<2, 3>>), <<<<1, 2, 3, 4, 5, 6>>>>),
  Sample(MultiArray(UInt16, <<1, 2, 3>>), <<<<1, 2, 3, 4, 5, 6>>>>),
  Sample(MultiArray(String, <<2, 2>>), <<<<A, A, E9B, A>>>>),
  Sample(MultiArray(Int32, <<1, 1>>), <<<<1>>>>),
  Sample(MapOf("map", Int32, String), <<<<>>, <<<<-2, A>>, <<1, E9B>>>>>>),
  Sample(MapOf("map", String, Int32), <<<<<<A, 1>>, <<E9B, 0>>>>>>),
  Sample(MapOf("multimap", Int32, Int32), <<<<<<1, 5>>, <<2, 6>>>>,
                                           <<<<1, 5>>, <<1, 6>>>>>>),
  Sample(MapOf("map", Pair(Int32, Bool), SequenceOf("vector", Int32)),
         <<<<>>>>),
  Sample(MapOf("unordered_map", Int32, String),
         <<<<<<-2, A>>, <<1, E9B>>>>, <<<<1, A>>>>, <<>>>>),
  Sample(MapOf("map", Point, String),
         <<<<<<Of(1, 2), A>>, <<Of(2, 1), A>>>>, <<<<Of(2, 1), E9B>>>>>>),
  Sample(SequenceOf("list", String), <<<<E9B, A>>, <<A>>>>),
  Sample(SequenceOf("set", String), <<<<A, E9B>>, <<A>>, <<>>>>),
  Sample(SequenceOf("multiset", Pair(Int32, Bool)),
         <<<<<<1, 0>>, <<1, 0>>>>, <<<<0, 1>>, <<1, 1>>>>>>),
  Sample(SequenceOf("unordered_set", String), <<<<A, E9B>>, <<A>>, <<>>>>) >>

Composites == <<
  Sample(Pair(Int32, String), <<<<5, A>>>>),
  Sample(Pair(Array(Char16, 1), Int32), <<<<<<65>>, 3>>>>),
  Sample(Pair(MultiArray(Bool, <<1, 2>>), Bool), <<<<<<1, 0>>, 1>>>>),
  Sample(Pair(Int32, Int32), <<<<5, 5>>, <<5, 0>>>>),
  Sample(Pair(Double, Double), <<<<0, 3>>, <<NaN, 3>>, <<3, 0>>>>),
  Sample(Tuple(<<Tuple(<<Bool>>), Bool>>), <<<<<<1>>, 0>>>>),
  Sample(Tuple(<<Tuple(<<Bool, Bool>>)>>), <<<<<<1, 0>>>>>>),
  Sample(Structure(<<Pair(String, Bool)>>,
                   <<Int32, SequenceOf("vector", String)>>),
         <<<<<<A, 1>>, 9, <<E9B, A>>>>, <<<<Grin, 0>>, 0, <<>>>>>>),
  Sample(Optional(Int32, <<>>), <<<<>>, <<0>>, <<1>>>>),
  Sample(Optional(Bool, <<>>), <<<<0>>, <<1>>>>),
  Sample(Optional(String, <<>>), <<<<Utf8(<<>>)>>, <<A>>>>),
  Sample(Optional(SequenceOf("vector", Int32), <<>>), <<<<<<>>>>, <<<<4>>>>>>),
  Sample(Optional(Optional(Bool, <<>>), <<>>), <<<<<<>>>>, <<<<0>>>>>>),
  Sample(Variant(<<Int32, String>>), <<[index |-> 0, value |-> 0],
                                       [index |-> 1, value |-> Grin]>>),
  Sample(Point, <<Of(1, 2), Of(2, 1), Of(1, 1)>>),
  Sample(Structure(<<Point>>, <<Int32, Int32>>),
         <<<<Of(1, 2), 0, 0>>, <<Of(1, 2), 5, 5>>>>),
  Sample(Structure(<<Wrap, Pair(Int32, Int32)>>, <<Bool>>),
         <<<<<<1>>, <<5, 5>>, 0>>, <<<<1>>, <<5, 6>>, 0>>,
           <<<<2>>, <<5, 6>>, 1>>>>),
  Sample(Structure(<<Pair(Int32, Int32)>>, <<Bool>>),
         <<<<<<5, 5>>, 0>>, <<<<5, 6>>, 0>>>>),
  Sample(Structure(<<>>, <<SequenceOf("unordered_set", String), Bool>>),
         <<<<<<A>>, 0>>, <<<<A>>, 1>>, <<<<>>, 1>>>>),
  Sample(Structure(<<>>, <<Bounded(Int32, 2), Bool>>),
         <<<<<<1, 2>>, 0>>, <<<<1, 2>>, 1>>>>),
  Sample(Structure(<<>>, <<Double, Int32>>),
         <<<<3, 1>>, <<NaN, 2>>, <<0, 3>>>>),
  Sample(Optional(Double, <<>>), <<<<NaN>>, <<3>>>>),
  Sample(Variant(<<Bool, Variant(<<Bool, Bool>>)>>),
         <<[index |-> 0, value |-> 1],
           [index |-> 1, value |-> [index |-> 1, value |-> 0]]>>),
  Sample(Variant(<<Bool, Variant(<<Bool>>), Bool>>),
         <<[index |-> 1, value |-> [index |-> 0, value |-> 1]]>>),
  Sample(Optional(Variant(<<SequenceOf("vector", String),
                            Enumeration(1, <<0>>)>>), <<>>),
         <<<<[index |-> 1, value |-> 0]>>,
           <<[index |-> 0, value |-> <<A>>]>>>>),
  Sample(SequenceOf("vector", Pair(Optional(Int32, <<>>), String)),
         <<<<<<<<2>>, A>>, <<<<>>, E9B>>>>, <<<<<<0>>, A>>>>>>) >>

\* The options the README hooks into the type system, their defaults those
\* of port (9001), worker_threads (0) and port_range (1).
Options ==
  Structure(<<>>, <<Optional(String, <<A>>), Optional(UInt16, <<9001>>),
                    Optional(Number(4, FALSE), <<0>>),
                    Optional(UInt16, <<1>>)>>)

OptionSamples == <<
  Sample(Options, <<<<<<A>>, <<9001>>, <<0>>, <<1>>>>,
                    <<<<E9B>>, <<80>>, <<2>>, <<4>>>>,
                    <<<<A>>, <<0>>, <<0>>, <<1>>>>,
                    <<<<>>, <<9001>>, <<1>>, <<1>>>>,
                    <<<<Utf8(<<>>)>>, <<80>>, <<1>>, <<>>>>>>) >>

AllSamples == Scalars \o Containers \o Composites \o OptionSamples
=============================================================================
