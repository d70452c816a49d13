------------------------------ MODULE MCConfigLoad ------------------------------
(***************************************************************************)
(* ConfigLoad with files, environments and flags that contradict each      *)
(* other and themselves.                                                   *)
(***************************************************************************)
EXTENDS ConfigLoad

MCSpellings ==
    {Empty, "rest", "jdbc", "none", "basic", "kerberos", "1000", "60", "http://localhost:8047",
     "http://drill:port", "0", "7", "many", "true", "alice", "drill.jar", "sys"}
MCNumberOf == [n \in {"1000", "60", "0", "7"} |->
                  CASE n = "1000" -> 1000 [] n = "60" -> 60 [] n = "0" -> 0 [] n = "7" -> 7]

Numeral(n) == [kind |-> "int", is |-> n]
List(names) == [kind |-> "list", is |-> names]
Null == [kind |-> "null", is |-> Empty]

\* Every function on some of the keys, with a value among its choices.
Some(choices) ==
    LET all == UNION {choices[k] : k \in DOMAIN choices}
    IN  UNION {{f \in [some -> all] : \A k \in some : f[k] \in choices[k]} :
                   some \in SUBSET DOMAIN choices}

Mapping(keys) == [state |-> "mapping", keys |-> keys]
MCFiles ==
    {[state |-> s, keys |-> <<>>] : s \in FileStates}
    \cup {Mapping(keys) : keys \in Some(
        [max_rows |-> {Numeral("0"), Text("7"), Text("many"), [kind |-> "bool", is |-> "true"]},
         backend |-> {Text("jdbc")}, jdbc_driver_path |-> {Text("drill.jar"), Null}])}
    \cup {Mapping(keys) : keys \in Some(
        [auth |-> {Text("basic")}, password |-> {Numeral("7"), Text("alice")},
         hidden_schemas |-> {List("sys")}, another |-> {Null}])}
    \cup {Mapping([k \in {"not text", "max_rows"} |-> Text(n)]) : n \in {"7", "many"}}

MCEnvs == Some([user |-> {Text("alice")}, password |-> {Text("alice"), Text(Empty)},
                max_rows |-> {Text("7"), Text("0")}, url |-> {Text("http://drill:port"), Text(Empty)}])
MCArgs == Some([backend |-> {Text("rest"), Text("sys")}, max_rows |-> {Text("7")},
                auth |-> {Text("kerberos"), Text("basic")}, hidden_schemas |-> {List(Empty)}])

MCInvalidUrls == {"http://drill:port"}
================================================================================
