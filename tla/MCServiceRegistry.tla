-------------------------- MODULE MCServiceRegistry --------------------------
(***************************************************************************)
(* An instance of ServiceRegistry: two plugins, a service that both have,  *)
(* and one that only the server has.                                       *)
(***************************************************************************)
EXTENDS ServiceRegistry, TLC

MCOrder == <<"a", "b">>
MCProvides == [p \in {"a", "b"} |-> {"list"}]

\* The demo's files and a directory, a file it does not serve, and requests
\* for them: with a host and without, with a dot before the name, with queries
\* that are empty, plain, another path, and URLs with and without a path.
MCFiles == (<<>> :> "directory") @@ (<<<<"test.html">>>> :> "html") @@
           (<<<<"native-2-web.js">>>> :> "js") @@
           (<<<<"scripts">>>> :> "directory") @@
           (<<<<"scripts">>, <<"n2w.css">>>> :> "css") @@
           (<<<<"Makefile">>>> :> "other")

MCPaths == {<<"/">>, <<"/", ".", "/", "scripts", "/", "n2w.css">>,
            <<"/", "scripts", "/">>, <<"/", "Makefile">>, <<"/", "x">>} \cup
           {<<"/", name>> : name \in {"test.html", "native-2-web.js",
                                     "modules.js", "scripts"}} \cup
           {<<"/", ".", "/", "modules.js">>, <<"/", "scripts", "/", "n2w.css">>}

MCQueries == {<<>>, <<"v">>, <<"v", "?", "/", "x">>,
              <<"from", ":", "/", "/", "x">>,
              <<"from", ":", "/", "/", "host", "/", "x">>}

Perhaps(S) == {<<>>} \cup {<<x>> : x \in S}

MCUris == [scheme : Perhaps({<<"http">>}), path : MCPaths,
           query : Perhaps(MCQueries),
           fragment : Perhaps({<<"top">>, <<"a", "?", "b">>})]

\* Nothing distinguishes one session from another; only safety is checked.
MCSymmetry == Permutations(Sessions)
=============================================================================
