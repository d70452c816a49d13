------------------------------ MODULE MCManagement ------------------------------
(***************************************************************************)
(* Management with a plugin that has a hidden workspace, one in another    *)
(* case, one whose name contains another one, and texts that name hidden   *)
(* schemas in every spelling.                                              *)
(***************************************************************************)
EXTENDS Management

MCComponents == {"dfs", "DFS", "dfs2", "secret"}
MCLower == [p \in MCComponents |-> IF p = "DFS" THEN "dfs" ELSE p]
MCWithin ==
    [p \in MCComponents |->
        IF p = "secret" THEN {"secret"} ELSE IF p = "dfs2" THEN {"dfs", "DFS", "dfs2"} ELSE {"dfs", "DFS"}]

MCHiddenLists == {{}, {<<"DFS">>}, {<<"dfs", "secret">>}}

Plain(name) == [kind |-> "plain", name |-> name]
Quoted(name) == [kind |-> "quoted", name |-> name]
Token == [kind |-> "secret", name |-> <<>>]
Amp == [kind |-> "&", name |-> <<>>]

\* No text, a hidden schema with dots, in quotes, behind a secret parameter, one
\* that is behind its end, and a longer word that is no hidden schema.
MCTexts ==
    { <<>>, <<Plain(<<"DFS", "secret">>)>>, <<Quoted(<<"dfs", "secret">>)>>,
      <<Token, Plain(<<"dfs", "secret">>)>>, <<Token, Amp, Plain(<<"dfs", "secret">>)>>,
      <<Plain(<<"dfs2">>)>> }

MCLimits == {-1, 0, 1, 2}

MCPayloads ==
    { Scalar, {}, {<<"DFS">>, NoName}, {<<"dfs">>, <<"dfs2">>, NoName, NotADict} }
================================================================================
