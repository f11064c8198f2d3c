------------------------------ MODULE PageCodec ------------------------------
(***************************************************************************)
(* What the readers and writers of native-2-web.js do, for the type that   *)
(* native-2-web-js.hpp generated the calls for.  A JavaScript value is     *)
(*   [n], [b], [s], [a]      a number, a boolean, a string of UTF-16 code  *)
(*                           units, an array;                              *)
(*   [bases, members]        the object of a structure;                    *)
(*   [m]                     the object of a map, its <<key, value>> pairs *)
(*                           in the order Object.keys gives;               *)
(*   [object], [index, object]   an optional, a variant;                   *)
(* and null and undefined are Null and Undefined.                          *)
(***************************************************************************)
EXTENDS NativeCodec

Num(n) == [n |-> n]
Boolean(b) == [b |-> b]
Str(units) == [s |-> units]
Arr(values) == [a |-> values]
Null == [null |-> 0]
Undefined == [undefined |-> 0]

\* DataView has no accessor the generator could name for 64 bit integers.
HasAccessor(t) == t.width # 8 \/ t.k = "double"

\* Arithmetic elements go through one accessor, whatever their own reader does;
\* all others through their own reader.
PageElement(t) == Element(t)

\* The parts that the generated readers and writers call others for, type by
\* type.  n is the count, tag or index read before them.
SequenceKinds(t, n) == Same(PageElement(t.of), n)

BoundedKinds(t) == Same(PageElement(t.of), t.n)

\* array<T, N> is read as T[N] is, which the serializer does not do.
ArrayKinds(t) == BoundedKinds(t)

\* read_multiarray and write_multiarray add the extents up.
MultiarrayKinds(t) ==
  Same(PageElement(t.of), FoldLeft(LAMBDA p, e : p + e, 0, t.extents))

MapKinds(t, n) == Same(PageElement(t.key), n) \o Same(PageElement(t.val), n)

\* The members of a pair, a tuple or a structure.
TupleKinds(t) == t.members

StructureKinds(t) == t.bases \o TupleKinds(t)

OptionalKinds(t, n) == Same(t.of, IF n = 0 THEN 0 ELSE 1)

VariantKinds(t, n) == <<t.of[n + 1]>>

PageKinds(t, n) ==
  CASE t.k = "sequence"              -> SequenceKinds(t, n)
    [] t.k = "bounded"               -> BoundedKinds(t)
    [] t.k = "array"                 -> ArrayKinds(t)
    [] t.k = "multiarray"            -> MultiarrayKinds(t)
    [] t.k = "map"                   -> MapKinds(t, n)
    [] t.k = "structure"             -> StructureKinds(t)
    [] t.k = "optional"              -> OptionalKinds(t, n)
    [] t.k = "variant"               -> VariantKinds(t, n)

-----------------------------------------------------------------------------
\* Strings: UTF-8 on the wire, UTF-16 in the page.

IsHigh(u) == u \in 55296 .. 56319
IsLow(u)  == u \in 56320 .. 57343
LastPoint == 1114111

\* The code units of a code point, as String.fromCodePoint gives them.
Units(p) == IF p < 65536 THEN <<p>>
            ELSE <<55296 + ((p - 65536) \div 1024),
                   56320 + ((p - 65536) % 1024)>>

\* String.prototype.codePointAt
CodePointAt(units, i) ==
  IF IsHigh(units[i]) /\ i < Len(units) /\ IsLow(units[i + 1])
  THEN 65536 + (units[i] - 55296) * 1024 + (units[i + 1] - 56320)
  ELSE units[i]

\* Mutant: the lead byte is taken for the first of those after it.
ToCodepointEarly(c, bytes, i, count) ==
  FoldLeft(LAMBDA acc, j : acc * 64 + (bytes[i + j - 1] % 64),
           c, [j \in 1 .. count |-> j])

\* to_codepoint: six bits of each of the next `count' bytes
ToCodepoint(c, bytes, i, count) ==
  FoldLeft(LAMBDA acc, j : acc * 64 +
                    (IF i + j <= Len(bytes) THEN bytes[i + j] % 64 ELSE 0),
           c, [j \in 1 .. count |-> j])

\* read_codepoint, and read_string's loop over the bytes from the i-th on
RECURSIVE ReadCodepoints(_, _)
ReadCodepoints(bytes, i) ==
  IF i > Len(bytes) THEN <<>>
  ELSE LET c == bytes[i]
           more == IF c >= 240 THEN 3 ELSE IF c >= 224 THEN 2
                   ELSE IF c >= 192 THEN 1 ELSE 0
           mask == IF c >= 240 THEN 8 ELSE IF c >= 224 THEN 16 ELSE 32
           point == IF more = 0 THEN c
                    ELSE ToCodepoint(c % mask, bytes, i, more)
       IN  <<point>> \o ReadCodepoints(bytes, i + more + 1)

\* Mutant: one code point too many goes into two bytes.
FromCodepointLate(c) ==
  IF c <= 127 THEN <<c>>
  ELSE IF c <= 2048 THEN <<192 + (c \div 64), 128 + (c % 64)>>
  ELSE IF c <= 65535
       THEN <<224 + (c \div 4096), 128 + ((c \div 64) % 64), 128 + (c % 64)>>
  ELSE <<240 + (c \div 262144), 128 + ((c \div 4096) % 64),
         128 + ((c \div 64) % 64), 128 + (c % 64)>>

\* from_codepoint
FromCodepoint(c) ==
  IF c <= 127 THEN <<c>>
  ELSE IF c <= 2047 THEN <<192 + (c \div 64), 128 + (c % 64)>>
  ELSE IF c <= 65535
       THEN <<224 + (c \div 4096), 128 + ((c \div 64) % 64), 128 + (c % 64)>>
  ELSE <<240 + (c \div 262144), 128 + ((c \div 4096) % 64),
         128 + ((c \div 64) % 64), 128 + (c % 64)>>

\* write_string goes over the code units, not over the code points.
WriteString(units) ==
  LET bytes == FlattenSeq([i \in DOMAIN units |->
                              FromCodepoint(CodePointAt(units, i))])
  IN  LittleEndian(4, Len(bytes)) \o bytes

-----------------------------------------------------------------------------
\* Objects of maps, and nested arrays.

\* JSON.stringify of a natural number is an array index: such keys come
\* first and in order, all others in the order they were put in.
IsIndex(key) == DOMAIN key = {"n"} /\ key.n >= 0

\* Assigning to a property: one that exists keeps its place.
Put(entries, entry) ==
  IF \E i \in DOMAIN entries : entries[i][1] = entry[1]
  THEN [i \in DOMAIN entries |->
          IF entries[i][1] = entry[1] THEN entry ELSE entries[i]]
  ELSE IF ~IsIndex(entry[1]) THEN Append(entries, entry)
  ELSE LET smaller == SelectSeq(entries, LAMBDA e :
                        IsIndex(e[1]) /\ e[1].n < entry[1].n)
       IN  smaller \o <<entry>> \o
           SubSeq(entries, Len(smaller) + 1, Len(entries))

\* read_associative_bounded, given the keys and then the values
MapObject(n, parts) ==
  [m |-> FoldLeft(Put, <<>>, [i \in 1 .. n |-> <<parts[i], parts[n + i]>>])]

\* subdivide: what is missing from the source is undefined
RECURSIVE Subdivide(_, _)
Subdivide(source, extents) ==
  LET size == FoldLeft(LAMBDA p, e : p * e, 1, Tail(extents))
      Part(i) == [j \in 1 .. size |-> LET at == (i - 1) * size + j
                     IN IF at <= Len(source) THEN source[at] ELSE Undefined]
  IN  Arr([i \in 1 .. Head(extents) |->
             IF Len(extents) = 1 THEN Part(i)[1]
             ELSE Subdivide(Part(i), Tail(extents))])

-----------------------------------------------------------------------------
\* Readers.  A reader that throws leaves `at' past the end of the data.

\* The object made of a header and the parts read after it.
Assemble(t, n, parts) ==
  CASE t.k = "structure"  ->
         [bases   |-> SubSeq(parts, 1, Len(t.bases)),
          members |-> SubSeq(parts, Len(t.bases) + 1, Len(parts))]
    [] t.k \in {"array", "bounded", "sequence"} -> Arr(parts)
    [] t.k = "multiarray" -> Subdivide(parts, t.extents)
    [] t.k = "map"        -> MapObject(n, parts)
    [] t.k = "optional"   -> [object |-> IF n > 0 THEN parts[1] ELSE Null]
    [] t.k = "variant"    -> [index |-> n, object |-> parts[1]]

\* The value of a scalar: read_char and read_char32 keep one code unit.
ReadScalar(t, n) ==
  CASE t.k \in {"number", "enum", "double"} -> Num(n)
    [] t.k = "bool" -> Boolean(n > 0)
    [] OTHER         -> Str(<<Units(n)[1]>>)

RECURSIVE Read(_, _, _), ReadAll(_, _, _)
ReadAll(kinds, data, at) ==
  IF Len(kinds) = 0 THEN [value |-> <<>>, at |-> at]
  ELSE LET first == Read(Head(kinds), data, at)
           rest  == ReadAll(Tail(kinds), data, first.at)
       IN  [value |-> <<first.value>> \o rest.value, at |-> rest.at]

Read(t, data, at) ==
  IF IsScalar(t)
  THEN LET r == Get(data, at, ScalarWidth(t), t.k # "char" /\ t.signed)
           bad == \/ ~HasAccessor(t)
                  \/ t.k = "char32" /\ r.value > LastPoint
       IN  IF bad \/ r.at > Len(data)
           THEN [value |-> Undefined, at |-> Past(data)]
           ELSE [value |-> ReadScalar(t, r.value), at |-> r.at]
  ELSE LET head == Get(data, at, HeaderWidth(t), FALSE)
           n    == head.value
       IN  IF n > Len(data) \/ (t.k = "variant" /\ n >= Len(t.of))
           THEN [value |-> Undefined, at |-> Past(data)]
           ELSE IF t.k = "string"
           THEN LET points == ReadCodepoints(SubSeq(data, head.at + 1,
                                                    head.at + n), 1)
                IN  IF head.at + n > Len(data)
                       \/ \E i \in DOMAIN points : points[i] > LastPoint
                    THEN [value |-> Undefined, at |-> Past(data)]
                    ELSE [value |-> Str(FlattenSeq([i \in DOMAIN points |->
                                                      Units(points[i])])),
                          at |-> head.at + n]
           ELSE LET parts == ReadAll(PageKinds(t, n), data, head.at)
                IN  [value |-> Assemble(t, n, parts.value), at |-> parts.at]

-----------------------------------------------------------------------------
\* Writers.  One that throws leaves the marker Threw among the bytes.

Threw == 256

Falsy(js) ==
  js \in {Null, Undefined, Num(0), Num(NaN), Boolean(FALSE), Str(<<>>)}

\* The header a writer puts, and the values it goes on to write.
WrittenHeader(t, js) ==
  CASE t.k = "sequence" -> Len(js.a)
    [] t.k = "map"      -> Len(js.m)
    [] t.k = "optional" -> IF Falsy(js.object) THEN 0 ELSE 1
    [] t.k = "variant"  -> js.index
    [] OTHER            -> 0

WrittenValues(t, js) ==
  CASE t.k = "structure" -> js.bases \o js.members
    [] t.k = "map"       -> [i \in DOMAIN js.m |-> js.m[i][1]] \o
                            [i \in DOMAIN js.m |-> js.m[i][2]]
    [] t.k = "optional"  -> IF Falsy(js.object) THEN <<>> ELSE <<js.object>>
    [] t.k = "variant"   -> <<js.object>>
    [] OTHER             -> js.a

\* write_multiarray flattens the object into an array it then ignores, which
\* empties the object; numbers are written from what is left.  For elements
\* that are not numbers the generator passes a reader.
WriteMultiarray(t) ==
  LET kinds == PageKinds(t, 0)
  IN  LittleEndian(4, Len(kinds)) \o
      (IF IsArithmetic(t.of) /\ HasAccessor(t.of)
       THEN Same(0, Len(kinds) * t.of.width) ELSE <<Threw>>)

WriteScalar(t, js) ==
  CASE ~HasAccessor(t) -> <<Threw>>
    [] t.k \in {"number", "enum", "double"} -> LittleEndian(t.width, js.n)
    [] t.k = "bool"    -> LittleEndian(1, IF js.b THEN 1 ELSE 0)
    [] OTHER           ->
         LittleEndian(ScalarWidth(t), CodePointAt(js.s, 1))

RECURSIVE Write(_, _)
Write(t, js) ==
  CASE IsScalar(t)        -> WriteScalar(t, js)
    [] t.k = "string"     -> WriteString(js.s)
    [] t.k = "multiarray" -> WriteMultiarray(t)
    [] OTHER ->
         LET kinds  == PageKinds(t, WrittenHeader(t, js))
             values == WrittenValues(t, js)
         IN  LittleEndian(HeaderWidth(t), WrittenHeader(t, js)) \o
             FlattenSeq([i \in DOMAIN kinds |-> Write(kinds[i], values[i])])
=============================================================================
