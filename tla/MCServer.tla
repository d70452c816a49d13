-------------------------------- MODULE MCServer --------------------------------
(* Server with the calls that differ in what they ask of the server: SQL that is *)
(* permitted and SQL that is not, a hidden schema, a malformed query id, and     *)
(* tools of one request and of two.                                              *)
EXTENDS Server, TLC

Symmetry == Permutations(Calls) \cup Permutations(Sessions)

MCComponents == {"dfs", "tmp", "secret"}
MCLower == [p \in MCComponents |-> p]

MCInForce == [writable |-> {<<"dfs">>}, hidden |-> {<<"dfs", "secret">>}]

CreateIn(schema) ==
    [explains |-> 0, kind |-> "create", keyword |-> "", object |-> "TABLE",
     targets |-> {[schema |-> schema, seen |-> Len(schema)]},
     embedded |-> {}, tables |-> {}, mentions |-> {}]

CallOf(tool) ==
    [tool |-> tool, wellFormed |-> TRUE, schema |-> <<"dfs", "tmp">>,
     text |-> CreateIn(<<"dfs", "tmp">>)]

Refused ==
    { [CallOf("run_query") EXCEPT !.text = CreateIn(<<"dfs", "secret">>)],
      [CallOf("describe_table") EXCEPT !.schema = <<"dfs", "secret">>],
      [CallOf("cancel_query") EXCEPT !.wellFormed = FALSE] }

MCToolCalls == {CallOf("run_query"), CallOf("cluster_status")} \cup Refused
LongToolCalls == {CallOf("cluster_status")}
================================================================================
