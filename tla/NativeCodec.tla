----------------------------- MODULE NativeCodec -----------------------------
(***************************************************************************)
(* What native-2-web-serialize.hpp and native-2-web-deserialize.hpp do to  *)
(* a value of a C++ type.  Both are templates over the type, and recurse   *)
(* over it as the two functions here do.  Bytes are integers from 0 to     *)
(* 255, little endian as the host is.                                      *)
(***************************************************************************)
EXTENDS Comparison

-----------------------------------------------------------------------------
\* Serialization.

\* Byte i of n in two's complement; n is a 31 bit number, whatever its width.
Byte(n, i) == IF i < 4 THEN (n \div 256 ^ i) % 256
              ELSE IF n < 0 THEN 255 ELSE 0

\* Mutant: the bytes the other way round.
BigEndian(width, n) == [i \in 1 .. width |-> Byte(n, width - i)]

\* serialize_number
LittleEndian(width, n) == [i \in 1 .. width |-> Byte(n, i - 1)]

RECURSIVE Serialize(_, _)
Serialize(t, v) ==
  IF IsScalar(t) THEN LittleEndian(ScalarWidth(t), v)
  ELSE LET kinds  == Kinds(t, Header(t, v))
           values == Values(t, v)
       IN  LittleEndian(HeaderWidth(t), Header(t, v)) \o
           FlattenSeq([i \in DOMAIN kinds |-> Serialize(kinds[i], values[i])])

-----------------------------------------------------------------------------
\* Deserialization.  `at' is how many bytes have been consumed.  The code
\* checks no end: a result whose `at' is above Len(data) stands for whatever
\* lies behind the buffer.

MaxNumber == 2147483647         \* bound: unsigned numbers above it are it

\* The number these bytes are; of eight bytes the lower four say it all.
FromBytes(bytes, signed) ==
  LET low   == SubSeq(bytes, 1, IF Len(bytes) = 8 THEN 4 ELSE Len(bytes))
      top   == Last(low)
      minus == signed /\ top >= 128
  IN  IF Len(low) = 4 /\ top >= 128 /\ ~signed THEN MaxNumber
      ELSE FoldRight(LAMBDA b, n : b + 256 * n, Front(low),
                     IF minus THEN top - 256 ELSE top)

Past(data) == Len(data) + 1

\* deserialize_number
Get(data, at, width, signed) ==
  IF width = 0 THEN [value |-> 0, at |-> at]
  ELSE IF at + width > Len(data) THEN [value |-> 0, at |-> Past(data)]
  ELSE [value |-> FromBytes(SubSeq(data, at + 1, at + width), signed),
        at |-> at + width]

\* What a default-constructed variable of the type holds.
RECURSIVE Fresh(_)
Fresh(t) ==
  CASE IsScalar(t)         -> 0
    [] t.k = "optional"    -> t.initially
    [] t.k = "variant"     -> [index |-> 0, value |-> Fresh(t.of[1])]
    [] t.k \in {"string", "sequence", "map"} -> <<>>
    [] OTHER               -> LET kinds == Kinds(t, 0)
                              IN  [i \in DOMAIN kinds |-> Fresh(kinds[i])]

KeyType(t) == IF t.k = "map" THEN t.key ELSE t.of
KeyOf(t, entry) == IF t.k = "map" THEN entry[1] ELSE entry

\* emplace and insert of maps and sets: one without `multi' keeps what it has.
Emplace(t, entries, entry) ==
  LET Precedes(d, e) == LessThan(KeyType(t), KeyOf(t, d), KeyOf(t, e), FALSE)
      upTo == SelectSeq(entries, LAMBDA e : ~Precedes(entry, e))
  IN  IF ~IsMulti(t) /\ \E i \in DOMAIN upTo : ~Precedes(upTo[i], entry)
      THEN entries
      ELSE upTo \o <<entry>> \o SubSeq(entries, Len(upTo) + 1, Len(entries))

\* What becomes of the target `old' when the header was n.  Containers keep
\* what they hold, and so does an optional that is sent empty.
Store(t, n, parts, old) ==
  CASE IsPushBack(t)    -> old \o parts
    [] IsSet(t)         -> FoldLeft(LAMBDA m, e : Emplace(t, m, e), old, parts)
    [] t.k = "map"      ->
         LET entries == [i \in 1 .. n |-> <<parts[i], parts[n + i]>>]
         IN  FoldLeft(LAMBDA m, e : Emplace(t, m, e), old, entries)
    [] t.k = "optional" -> IF n = 0 THEN old ELSE parts
    [] t.k = "variant"  -> [index |-> n, value |-> parts[1]]
    [] OTHER            -> parts

\* The targets of the parts: those of structures and arrays are in place.
Targets(t, kinds, old) ==
  IF t.k \in {"structure", "array"} THEN old
  ELSE [i \in DOMAIN kinds |-> Fresh(kinds[i])]

RECURSIVE Deserialize(_, _, _, _), DeserializeAll(_, _, _, _)
DeserializeAll(kinds, data, at, targets) ==
  IF Len(kinds) = 0 THEN [value |-> <<>>, at |-> at]
  ELSE LET first == Deserialize(Head(kinds), data, at, Head(targets))
           rest  == DeserializeAll(Tail(kinds), data, first.at, Tail(targets))
       IN  [value |-> <<first.value>> \o rest.value, at |-> rest.at]

Deserialize(t, data, at, old) ==
  IF IsScalar(t) THEN Get(data, at, ScalarWidth(t), t.signed)
  ELSE LET head == Get(data, at, HeaderWidth(t), FALSE)
           \* an index without an alternative leaves the variant as it is
           kept  == t.k = "variant" /\ head.value >= Len(t.of)
           n     == IF kept THEN old.index ELSE head.value
           kinds == Kinds(t, n)
           parts == DeserializeAll(kinds, data, head.at,
                                   IF kept THEN <<old.value>>
                                   ELSE Targets(t, kinds, old))
       IN  IF t.k # "variant" /\ n > Len(data)
           THEN [value |-> old, at |-> Past(data)]
           ELSE [value |-> Store(t, n, parts.value, old), at |-> parts.at]
=============================================================================
