-------------------------------- MODULE MCCatalog --------------------------------
(***************************************************************************)
(* Catalog with up to four schemas of two plugins whose types change, and  *)
(* more schemas and more tables than the cap of rows.                      *)
(***************************************************************************)
EXTENDS Catalog, TLC

MCComponents == {"dfs", "DFS", "tmp", "mongo", "app", "x", "log", "a b"}
MCIdentifiers == MCComponents \ {"a b"}
MCLower == [p \in MCComponents |-> IF p = "DFS" THEN "dfs" ELSE p]

MCTypes == DynamicTypes \cup {"http", "jdbc"}
MCColumns == {<<"id">>, <<"at">>}

tmp == <<"dfs", "tmp">>
mongoApp == <<"mongo", "app">>
mongoX == <<"mongo", "x">>
appX == <<"app", "x">>

\* The contents of a schema: nothing; a table with and one without a sampled row;
\* more tables than the cap.
NoTables == <<>>
TwoTables == <<"log">> :> MCColumns @@ <<"x">> :> {}
ManyTables == [t \in {<<"log">>, <<"x">>, <<"app">>, <<"x", "log">>} |-> {<<"id">>}]

\* `app` is a plugin and also a schema of the plugin `mongo`.
PluginTypes == [{"dfs", "mongo", "app"} -> MCTypes]
Kinds ==
    { kinds \in PluginTypes :
        /\ kinds["dfs"] \in {"file", "jdbc"}
        /\ kinds["mongo"] \in {"mongo", "http"}
        /\ kinds["app"] \in {"jdbc", "splunk"} }

Present == { {}, {tmp}, {mongoApp, mongoX, appX}, {tmp, appX}, {tmp, mongoApp, mongoX, appX} }

MCCatalogues ==
    { [s \in present |-> [type |-> kinds[s[1]], tables |-> tables]] :
        present \in Present, kinds \in Kinds, tables \in {NoTables, TwoTables, ManyTables} }

MCSchemaArgs == { tmp, <<"DFS", "tmp">>, <<"dfs">>, <<"mongo">>, mongoX, <<"app">>, <<"a b">> }
MCTableArgs == { <<"log">>, <<"x", "log">>, <<"a b">> }

MCHiddenLists == { {}, {<<"DFS">>, mongoX}, {<<>>} }
================================================================================
