-------------------------------- MODULE Codec --------------------------------
(***************************************************************************)
(* A value between a server and a page: the server serializes it, the page *)
(* reads it, or makes one, and writes it, and a server deserializes what   *)
(* it gets, from a page or from another server.  No type travels with the  *)
(* bytes: both sides follow the C++ type, and nothing tells them when they *)
(* do not agree, so a part misread shifts all that follow it.              *)
(*                                                                         *)
(* The types are in the name of the service only, and what a program makes *)
(* of what it got may depend on how it compares.                           *)
(***************************************************************************)
EXTENDS PageCodec, MangledNames

CONSTANTS
  Samples,      \* bound: the types and the values of each, [type, values]
  Texts         \* the code points of the strings among them

VARIABLES
  sample,       \* which sample, and which value of it
  stage,        \* how far the value has come
  via,          \* "direct", "read" or "made": from a server or from a page
  wire,         \* the bytes under way
  at,           \* how many of them the last reader consumed
  page,         \* the page's JavaScript value
  back          \* what the deserializer's target holds

vars == <<sample, stage, via, wire, at, page, back>>

Type  == Samples[sample[1]].type
Value == Samples[sample[1]].values[sample[2]]

-----------------------------------------------------------------------------
\* What the page should have for a value.

\* The bytes of a std::string are the UTF-8 of its text.
Utf8(points) ==
  FlattenSeq([i \in DOMAIN points |->
    LET p == points[i]
        Tail6(shift) == 128 + ((p \div 64 ^ shift) % 64)
    IN  CASE p < 128   -> <<p>>
          [] p \in 128 .. 2047    -> <<192 + (p \div 64), Tail6(0)>>
          [] p \in 2048 .. 65535  -> <<224 + (p \div 4096), Tail6(1), Tail6(0)>>
          [] p > 65535 ->
               <<240 + (p \div 262144), Tail6(2), Tail6(1), Tail6(0)>>])

UnitsOf(points) == FlattenSeq([i \in DOMAIN points |-> Units(points[i])])

RepeatsKey(entries) ==
  \E i, j \in DOMAIN entries : i # j /\ entries[i][1] = entries[j][1]

\* The parts the page should find; a multiarray has the product of its extents.
PartKinds(t, v) ==
  IF t.k = "multiarray" THEN Kinds(t, 0) ELSE PageKinds(t, Header(t, v))

RECURSIVE Meant(_, _)
Meant(t, v) ==
  IF t.k \in {"number", "enum", "double"} THEN Num(v)
  ELSE IF t.k = "bool" THEN Boolean(v = 1)
  ELSE IF t.k = "char" THEN Str(<<v % 256>>)
  ELSE IF IsScalar(t) THEN Str(Units(v))
  ELSE IF t.k = "string"
       THEN Str(UnitsOf(CHOOSE text \in Texts : Utf8(text) = v))
  ELSE LET kinds  == PartKinds(t, v)
           values == Values(t, v)
           parts  == [i \in DOMAIN kinds |-> Meant(kinds[i], values[i])]
       IN  IF t.k = "map" /\ RepeatsKey(v)
           THEN [m |-> [i \in DOMAIN v |-> <<parts[i], parts[Len(v) + i]>>]]
           ELSE Assemble(t, Header(t, v), parts)

\* All the parts of a value, each with its type as the page sees it.
RECURSIVE Parts(_, _)
Parts(t, v) ==
  <<[type |-> t, value |-> v]>> \o
  (IF IsScalar(t) \/ t.k = "string" THEN <<>>
   ELSE LET kinds  == PartKinds(t, v)
            values == Values(t, v)
        IN  FlattenSeq([i \in DOMAIN kinds |-> Parts(kinds[i], values[i])]))

SomePart(parts, Bad(_, _)) ==
  \E i \in DOMAIN parts : Bad(parts[i].type, parts[i].value)

RepeatedKeys(t, v) == t.k = "map" /\ RepeatsKey(v)

-----------------------------------------------------------------------------

Init ==
  /\ \E i \in DOMAIN Samples : \E j \in DOMAIN Samples[i].values :
       sample = <<i, j>>
  /\ stage = "native" /\ via = "direct"
  /\ wire = <<>> /\ at = 0
  /\ page = Undefined
  /\ back = Fresh(Type)

\* The server sends the value.
Send ==
  /\ stage = "native"
  /\ wire' = Serialize(Type, Value)
  /\ stage' = "sent"
  /\ UNCHANGED <<sample, via, at, page, back>>

\* The page reads what the server sent.
ReadOnPage ==
  /\ stage = "sent"
  /\ LET r == Read(Type, wire, 0)
     IN  page' = r.value /\ at' = r.at
  /\ stage' = IF at' > Len(wire) THEN "unread" ELSE "read"
  /\ via' = "read"
  /\ UNCHANGED <<sample, wire, back>>

\* A program of the page makes the value, as an argument of a function that
\* create_service generated; no object holds a key twice.
MakeOnPage ==
  /\ stage = "native"
  /\ ~SomePart(Parts(Type, Value), RepeatedKeys)
  /\ page' = Meant(Type, Value)
  /\ stage' = "read" /\ via' = "made"
  /\ UNCHANGED <<sample, wire, at, back>>

\* The page writes what it has, to send it to a server.
WriteOnPage ==
  /\ stage = "read"
  /\ wire' = Write(Type, page)
  /\ stage' = IF Threw \in ToSet(wire') THEN "unwritten" ELSE "written"
  /\ UNCHANGED <<sample, via, at, page, back>>

\* A server deserializes what a server sent, and may get the same again, into
\* the same variable.
Receive ==
  /\ stage \in {"sent", "received"} /\ via = "direct"
  /\ LET r == Deserialize(Type, wire, 0, back)
     IN  back' = r.value /\ at' = r.at
  /\ stage' = IF stage = "received" THEN "again" ELSE "received"
  /\ UNCHANGED <<sample, via, wire, page>>

\* A service is called with what a page wrote: generic_caller reads it once for
\* every argument, always from the first byte and into a tuple of its own.
Invoke ==
  /\ stage = "written"
  /\ LET r == Deserialize(Type, wire, 0, Fresh(Type))
     IN  back' = r.value /\ at' = r.at
  /\ stage' = "received"
  /\ UNCHANGED <<sample, via, wire, page>>

\* execute hands the parts of a message to a function with as many parameters.
\* deserialize takes its iterator by value: that of the caller stays where it
\* is, and each argument is read from the first byte on.
Execute ==
  /\ stage = "sent" /\ via = "direct"
  /\ Type.k = "structure" /\ Type.as # "class"
  /\ back' = [i \in DOMAIN Type.members |->
                 Deserialize(Type.members[i], wire, 0,
                             Fresh(Type.members[i])).value]
  /\ stage' = "executed"
  /\ UNCHANGED <<sample, via, wire, at, page>>

Next == Send \/ ReadOnPage \/ MakeOnPage \/ WriteOnPage
        \/ Receive \/ Invoke \/ Execute

Spec == Init /\ [][Next]_vars

-----------------------------------------------------------------------------
\* The parts whose target is a part of the target of the whole.
RECURSIVE InPlace(_, _)
InPlace(t, v) ==
  <<[type |-> t, value |-> v]>> \o
  (IF t.k \in {"structure", "array"}
   THEN LET kinds == Kinds(t, 0)
        IN  FlattenSeq([i \in DOMAIN kinds |-> InPlace(kinds[i], v[i])])
   ELSE <<>>)

\* Bytes that mean different things to the two sides: numbers without an
\* accessor, and a char16_t in an array, which is four bytes to one side and
\* two to the other.
Disputed(t, v) ==
  \/ IsScalar(t) /\ ~HasAccessor(t)
  \/ t.k = "array" /\ t.of.k = "char16" /\ Len(v) > 0

\* What a page reads wrongly.
Misread(t, v) ==
  \/ Disputed(t, v)
  \/ t.k = "char32" /\ v > 65535
  \/ RepeatedKeys(t, v)
  \/ t.k = "multiarray" /\ Len(PageKinds(t, 0)) # Len(v)

\* An optional that arrives empty leaves the default of its member, and a
\* page sends an optional of 0, false or "" empty.
Defaulted(t, v) == t.k = "optional" /\ v = <<>> /\ t.initially # <<>>
Dropped(t, v) ==
  /\ t.k = "optional" /\ v # <<>>
  /\ Falsy(Meant(t.of, v[1]))
  /\ v # t.initially

\* What a page writes wrongly; 240 and up begin four bytes of UTF-8.
Miswritten(t, v) ==
  \/ Disputed(t, v)
  \/ t.k = "string" /\ \E i \in DOMAIN v : v[i] >= 240
  \/ t.k = "multiarray"
  \/ Defaulted(t, v) \/ Dropped(t, v)

Consumed == at = Len(wire)

-----------------------------------------------------------------------------

\* A page reads every value a server sends as what was meant, and consumes
\* exactly its bytes, unless a part is one of those named in Misread: the
\* readers of native-2-web.js mirror the serializers in all else.
PageReadsValue ==
  via = "read" /\ stage \in {"read", "unread"} =>
    ((stage = "read" /\ Consumed /\ page = Meant(Type, Value))
       <=> ~SomePart(Parts(Type, Value), Misread))

\* What a page makes, and what a page sends back as it read it, reaches the
\* server as it was, unless a part is one of those named in Miswritten or, sent
\* back, was misread before: the writers mirror the deserializers.
ServerReadsPage ==
  via # "direct" /\ stage \in {"received", "unread", "unwritten"} =>
    ((stage = "received" /\ Consumed /\ back = Value)
       <=> /\ ~SomePart(Parts(Type, Value), Miswritten)
           /\ (via = "read" => ~SomePart(Parts(Type, Value), Misread)))

\* A variable that takes one message after the other, as other_stat of the
\* statistics' receiver does, grows: the containers in it keep what they had.
Accumulates(t, v) ==
  /\ t.k \in {"sequence", "map"} /\ v # <<>>
  /\ IsPushBack(t) \/ IsMulti(t)

\* Execute's second argument is read where the first was.
Begins(t, v) == IsPrefix(Serialize(t, v), wire)

\* Between servers every value arrives in a variable of its own, except that
\* a member's default takes the place of an optional sent empty; in a variable
\* that was used before, unless it has a container that accumulates; and as the
\* arguments of execute, only if the bytes of each begin the message.
NativeRoundTrip ==
  via = "direct" =>
    LET faithful == ~SomePart(Parts(Type, Value), Defaulted)
    IN /\ stage = "received" => (Consumed /\ back = Value <=> faithful)
       /\ stage = "again" /\ faithful =>
            (back = Value <=> ~SomePart(InPlace(Type, Value), Accumulates))
       /\ stage = "executed" /\ faithful =>
            (back = Value <=>
               \A i \in DOMAIN Value : Begins(Type.members[i], Value[i]))

-----------------------------------------------------------------------------
(* Comparisons and names.                                                  *)

\* All that == looks at: of a class, its bases only.
RECURSIVE Compared(_, _)
Compared(t, v) ==
  IF IsScalar(t) \/ t.k \in {"string", "bounded", "multiarray"}
  THEN <<[type |-> t, value |-> v]>>
  ELSE LET kinds == IF t.k = "structure" /\ t.as = "class" THEN t.bases
                    ELSE Kinds(t, Header(t, v))
       IN  <<[type |-> Number(4, FALSE), value |-> Header(t, v)]>> \o
           FlattenSeq([i \in DOMAIN kinds |->
                         Compared(kinds[i], Values(t, v)[i])])

IsNaN(t, v) == t.k = "double" /\ v = NaN

\* What is not equal to a copy of its own.
Incomparable(t, v) == t.k \in {"bounded", "multiarray"} \/ IsNaN(t, v)

\* A program that compares what it received with a value of its own finds them
\* equal exactly when they agree in all but the members of classes: two objects
\* of a class without bases are always equal, and NaN and C arrays never are.
EqualTellsValues ==
  via = "direct" /\ stage = "received" =>
    \A i \in DOMAIN Samples[sample[1]].values :
      LET own == Samples[sample[1]].values[i]
      IN Equal(Type, own, back) <=>
           /\ Compared(Type, own) = Compared(Type, back)
           /\ ~SomePart(Compared(Type, back), Incomparable)

\* < can order what a program received in a std::map, or sort it: of any three
\* objects of a type it is a strict weak order, although C arrays and unordered
\* containers are ordered by where they lie in memory; unless a NaN is among
\* them, when still no two are less than each other.
LessIsStrictOrder ==
  via = "direct" /\ stage = "received" =>
    LET values == ToSet(Samples[sample[1]].values)
        HasNaN(v) == SomePart(Parts(Type, v), IsNaN)
    IN \A a, b \in values :
         LET object == <<a, b, back>>
             Less(x, y) == /\ x # y
                           /\ LessThan(Type, object[x], object[y], x < y)
             Tie(x, y) == ~Less(x, y) /\ ~Less(y, x)
         IN \A x, y, z \in DOMAIN object :
              /\ ~(Less(x, y) /\ Less(y, x))
              /\ (\A o \in DOMAIN object : ~HasNaN(object[o])) =>
                   /\ Less(x, y) /\ Less(y, z) => Less(x, z)
                   /\ Tie(x, y) /\ Tie(y, z) => Tie(x, z)

\* A type as its name describes it: without bases and defaults.
RECURSIVE Described(_)
Described(t) ==
  LET All(ts) == [i \in DOMAIN ts |-> Described(ts[i])]
  IN  CASE t.k = "structure" -> [t EXCEPT !.bases = <<>>, !.members = All(@)]
        [] t.k = "variant"   -> [t EXCEPT !.of = All(@)]
        [] t.k = "map"       -> [t EXCEPT !.key = Described(@),
                                          !.val = Described(@)]
        [] t.k = "optional"  -> [t EXCEPT !.initially = <<>>,
                                          !.of = Described(@)]
        [] t.k \in {"array", "bounded", "multiarray", "sequence"} ->
             [t EXCEPT !.of = Described(@)]
        [] OTHER             -> t

\* A caller and a service that agree on the name agree on the types, and so on
\* the bytes, except for the bases of classes: two classes that have the same
\* members and different bases have one name, and functions of them another.
NamesTellTypes ==
  \A i \in DOMAIN Samples :
    LET other == Samples[i].type
        Address(t) == FunctionAddress("echo", t, <<t, Bool>>)
    IN Address(Type) = Address(other) <=> Described(Type) = Described(other)

-----------------------------------------------------------------------------

\* README.md:58 would have one implement an API "using standard library
\* types" and shows the optional members of server_options: what a page
\* gives is what the API gets.  It is not: write_optional takes a value for
\* none when it is 0, false or empty.
ArgumentsArrive ==
  via = "made" /\ stage = "received" => back = Value
=============================================================================
