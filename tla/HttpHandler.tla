----------------------------- MODULE HttpHandler -----------------------------
(***************************************************************************)
(* What http_handler answers to the target of a request: normalized_uri    *)
(* takes a path out of the target, which names a file below web_root or    *)
(* the module that create_modules makes.                                   *)
(*                                                                         *)
(* A target, and a path, is a sequence of tokens: the characters / : ? #   *)
(* and the words between them.                                             *)
(***************************************************************************)
EXTENDS Naturals, Sequences, FiniteSetsExt, SequencesExt

CONSTANTS
  Files,        \* the kinds of what lies below web_root, by its segments
  Uris          \* bound: what is asked for, as [scheme, path, query, fragment],
                \* all but the path sequences of none or one

\* "html" stands for .htm too, "other" for every other extension.
ASSUME FilesAssumption ==
  \A f \in DOMAIN Files :
    Files[f] \in {"html", "js", "css", "other", "directory"}

\* The request target a peer writes for a URI: it sends no fragment by the
\* rules of HTTP, which the code does not rely on.
Target(u) ==
  (IF u.scheme = <<>> THEN <<>> ELSE u.scheme[1] \o <<":", "/", "/", "host">>)
    \o u.path
    \o (IF u.query = <<>> THEN <<>> ELSE <<"?">> \o u.query[1])
    \o (IF u.fragment = <<>> THEN <<>> ELSE <<"#">> \o u.fragment[1])

-----------------------------------------------------------------------------
(* normalized_uri.                                                         *)

Before(tokens, t) ==
  SubSeq(tokens, 1, Min({i \in DOMAIN tokens : tokens[i] = t}) - 1)

\* scheme_rx: the first :// and the first slash after it
SchemeStarts(uri) ==
  {i \in 1 .. Len(uri) - 2 : SubSeq(uri, i, i + 2) = <<":", "/", "/">>}
SlashesAfterScheme(uri) ==
  {j \in DOMAIN uri : \E i \in SchemeStarts(uri) :
                        uri[j] = "/" /\ i + 2 < j
                          /\ \A h \in SchemeStarts(uri) : i <= h}
WithoutScheme(uri) ==
  IF SlashesAfterScheme(uri) = {} THEN uri
  ELSE SubSeq(uri, Min(SlashesAfterScheme(uri)) + 1, Len(uri))

\* Text in a string that another was assigned to since.
Overwritten == <<"overwritten">>

\* Mutant: the query stays with the path.
PathsWithQuery(target) == {WithoutScheme(target)}

\* The paths normalized_uri can come to.  What is before a fragment becomes the
\* query, and the path keeps the fragment; if there is a query there, the path
\* is read out of a string that was assigned to meanwhile, which is undefined.
PathsOf(target) ==
  LET uri     == WithoutScheme(target)
      query   == IF Contains(uri, "#") THEN Before(uri, "#") ELSE <<>>
      matched == IF query = <<>> THEN uri ELSE query
  IN  IF ~Contains(matched, "?") THEN {uri}
      ELSE IF query = <<>> THEN {Before(uri, "?")}
      ELSE {Before(query, "?"), Overwritten}

\* What a path is made of; one that ends in a slash ends in a dot.  The dots
\* stay: the normalized path goes to a local variable.
Segments(path) ==
  LET cut == FoldLeft(LAMBDA segs, t :
                        IF t = "/" THEN Append(segs, <<>>)
                        ELSE Append(Front(segs), Append(Last(segs), t)),
                      <<<<>>>>, path)
      ends == IF Len(cut) > 1 /\ Last(cut) = <<>>
              THEN Append(Front(cut), <<".">>) ELSE cut
  IN  SelectSeq(ends, LAMBDA seg : seg # <<>>)

Undotted(segments) == SelectSeq(segments, LAMBDA seg : seg # <<".">>)

-----------------------------------------------------------------------------
(* http_handler::operator().                                               *)

Modules == <<<<"modules.js">>>>

\* What the file system finds: only a directory can be left by a dot.
FileAt(segments) ==
  LET file == Undotted(segments)
  IN  IF file \notin DOMAIN Files THEN "none"
      ELSE IF Last(segments) = <<".">> /\ Files[file] # "directory" THEN "none"
      ELSE Files[file]

Response(result, body) == [result |-> result, body |-> body]

Answer(segments) ==
  LET isRoot == Undotted(segments) = <<>>
      path == IF isRoot THEN Append(segments, <<"test.html">>) ELSE segments
      kind == FileAt(path)
  IN  CASE path = Modules         -> Response(200, Modules)
        [] path # Modules /\ kind = "none" -> Response(404, <<>>)
        [] kind = "directory"     -> Response(403, <<>>)
        [] kind = "other"         -> Response(406, <<>>)
        [] kind \in {"html", "js", "css"} -> Response(200, Undotted(path))

Answers(target) == {Answer(Segments(path)) : path \in PathsOf(target)}

\* The requests that make create_modules run.
ModuleUris == {u \in Uris : Response(200, Modules) \in Answers(Target(u))}

-----------------------------------------------------------------------------
(* What a target should name.                                              *)

\* The three places where the path is not what it should be: with a fragment,
\* with a URL in a query, and with dots, which the file system removes but a
\* comparison with modules.js does not.
Misparsed(u) ==
  \/ u.fragment # <<>>
  \/ u.scheme = <<>> /\ SlashesAfterScheme(Target(u)) # {}
  \/ Undotted(Segments(u.path)) = Modules /\ Segments(u.path) # Modules

\* The path a target comes to names what the path of the URI does; of those
\* Misparsed names, something else, if what was meant is there.
UrisNameFiles ==
  \A u \in Uris :
    LET meant == Answer(Undotted(Segments(u.path)))
    IN  IF Misparsed(u) THEN meant.result = 200 => Answers(Target(u)) # {meant}
        ELSE Answers(Target(u)) = {meant}
=============================================================================
