------------------------------- MODULE MCRunQuery -------------------------------
(***************************************************************************)
(* RunQuery over every text of up to two tables, with EXPLAINs up to one   *)
(* beyond the limit, six policies and short answers.                       *)
(***************************************************************************)
EXTENDS RunQuery

MCComponents == {"dfs", "DFS", "tmp", "secret", "sys"}
MCLower == [p \in MCComponents |-> IF p = "DFS" THEN "dfs" ELSE p]

tmp == <<"dfs", "tmp">>
TMP == <<"DFS", "tmp">>
secret == <<"dfs", "secret">>
nested == <<"dfs", "tmp", "secret">>
sys == <<"sys">>
unqualified == <<>>

\* A table of a schema whose components are quoted one by one, or not at all, and
\* one whose schema is quoted as a whole.
In(schema) == [schema |-> schema, seen |-> IF Len(schema) < 2 THEN Len(schema) ELSE 2]
InQuoted(schema) == [schema |-> schema, seen |-> Len(schema)]

\* Each policy is there for a case: nothing listed; a whole plugin writable and
\* one of its workspaces hidden; entries in another case than the texts; an
\* empty entry, which YAML allows; a schema of three components hidden, or writable.
MCPolicies ==
    { [writable |-> {}, hidden |-> {}],
      [writable |-> {<<"dfs">>}, hidden |-> {secret}],
      [writable |-> {TMP}, hidden |-> {<<"DFS", "secret">>, sys}],
      [writable |-> {tmp, <<>>}, hidden |-> {<<>>}],
      [writable |-> {<<"dfs">>}, hidden |-> {nested}],
      [writable |-> {nested}, hidden |-> {sys}] }

Targets ==
    { {}, {In(unqualified)}, {In(tmp)}, {In(TMP)}, {In(secret)}, {In(tmp), In(sys)},
      {In(nested)}, {InQuoted(nested)} }
Sources ==
    { {}, {In(sys)}, {In(tmp)}, {In(TMP), In(secret)}, {In(nested)}, {InQuoted(nested)} }

Core == [explains |-> 0, kind |-> "read", keyword |-> "", object |-> "",
         targets |-> {}, embedded |-> {}, tables |-> {}, mentions |-> {}]

Cores ==
    { [Core EXCEPT !.kind = kind, !.targets = {In(tmp)}] :
          kind \in {"garbage", "several", "other"} }
    \cup { [Core EXCEPT !.kind = "blank"] }
    \cup { [Core EXCEPT !.tables = t, !.embedded = e, !.mentions = m] :
          t \in Sources \cup {{In(unqualified)}}, e \in {{}, {In(tmp)}}, m \in {{}, {sys}} }
    \cup { [Core EXCEPT !.kind = "command", !.keyword = k, !.mentions = m] :
          k \in {"SHOW", "DESCRIBE", "USE"}, m \in {{}, {tmp}, {secret}, {nested}, {sys}} }
    \cup { [Core EXCEPT !.kind = kind, !.object = o, !.targets = w, !.tables = t] :
          kind \in {"create", "drop"}, o \in {"TABLE", "SCHEMA"}, w \in Targets, t \in Sources }

MCTexts ==
    { [core EXCEPT !.explains = n] :
          core \in Cores, n \in {0, 1, MaxExplainDepth, MaxExplainDepth + 1} }

MCRequests == {NoRequest, -1, 1, 3}

MCAnswers == { <<>>, <<tmp>>, <<TMP, secret>>, <<secret, sys, tmp>>, <<NoValue, tmp, sys>> }
================================================================================
