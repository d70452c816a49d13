------------------------------- MODULE ConfigLoad -------------------------------
(***************************************************************************)
(* How drill-mcp starts: main() of drill_mcp/server.py, load_config() and  *)
(* Config of drill_mcp/config.py and the construction of the client.       *)
(*                                                                         *)
(* Three sources are merged, each overriding the one before it, and only   *)
(* the result is checked.  A value is what it looks like after YAML, the   *)
(* environment or argparse has read it: its kind and its spelling.         *)
(***************************************************************************)
EXTENDS Integers

CONSTANTS
    Spellings,   \* spellings of values
    NumberOf,    \* what int() makes of the spellings that are numerals
    Files,       \* what --config may name: a file and what it contains
    Envs,        \* values of the DRILL_* variables that may be set
    Args,        \* flags that may be given
    InvalidUrls  \* spellings that httpx refuses as a base URL

\* Stands for the empty text, for null and for the empty list.
Empty == "empty"

IntFields == {"max_rows", "timeout_seconds"}
ListFields == {"writable_plugins", "hidden_schemas"}
OptionalFields == {"user", "password", "jdbc_driver_path"}
Fields == {"url", "backend", "auth"} \cup IntFields \cup ListFields \cup OptionalFields
EnvFields == Fields \ ListFields
ArgFields == {"url", "backend", "auth", "max_rows"} \cup ListFields
\* A key of a YAML mapping may be another text, or no text at all.
FileKeys == Fields \cup {"another", "not text"}

\* "other": a mapping, a fraction, a list of something else than texts.
Value == [kind : {"text", "int", "bool", "null", "list", "other"}, is : Spellings]
Text(spelling) == [kind |-> "text", is |-> spelling]
\* A function on some of the keys.
IsPartial(f, keys) == DOMAIN f \subseteq keys /\ f \in [DOMAIN f -> Value]
FileStates == {"none", "missing", "undecodable", "not YAML", "not a mapping", "mapping"}

ASSUME SpellingAssumption ==
    /\ {Empty, "rest", "jdbc", "none", "basic", "kerberos", "1000", "60",
        "http://localhost:8047"} \subseteq Spellings
    /\ NumberOf \in [DOMAIN NumberOf -> Int]
    /\ {"1000", "60"} \subseteq DOMAIN NumberOf /\ DOMAIN NumberOf \subseteq Spellings
    /\ NumberOf["1000"] = 1000 /\ NumberOf["60"] = 60
\* The empty file, and a top level that is false, 0 or [], is a mapping without keys.
ASSUME FileAssumption ==
    \A file \in Files :
        /\ file.state \in FileStates /\ IsPartial(file.keys, FileKeys)
        /\ \A key \in DOMAIN file.keys :
               file.keys[key].kind = "int" => file.keys[key].is \in DOMAIN NumberOf
ASSUME EnvAssumption ==
    \A env \in Envs :
        IsPartial(env, EnvFields) /\ \A field \in DOMAIN env : env[field].kind = "text"
ASSUME ArgsAssumption ==
    \A args \in Args :
        /\ IsPartial(args, ArgFields)
        /\ \A field \in DOMAIN args :
               args[field].kind = IF field \in ListFields THEN "list" ELSE "text"

VARIABLES
    file, env, args, \* the three sources
    kerberos,        \* the kerberos extra is installed
    stage,           \* what main() does next, or how it has ended
    values,          \* load_config: the merged values
    config           \* the Config that was built

sources == <<file, env, args, kerberos>>
vars == <<sources, stage, values, config>>

Endings == {"usage", "configError", "drillError", "traceback", "serving"}

Init ==
    /\ file \in Files /\ env \in Envs /\ args \in Args /\ kerberos \in BOOLEAN
    /\ stage = "parse" /\ values = <<>> /\ config = <<>>

\* dict.update
Updated(old, new) ==
    [k \in DOMAIN old \cup DOMAIN new |-> IF k \in DOMAIN new THEN new[k] ELSE old[k]]

Default_Unset(field) == [kind |-> "unset", is |-> Empty]
\* The defaults of Config, which pydantic does not check.
Default(field) ==
    CASE field = "url" -> Text("http://localhost:8047")
      [] field = "backend" -> Text("rest")
      [] field = "auth" -> Text("none")
      [] field = "max_rows" -> [kind |-> "int", is |-> "1000"]
      [] field = "timeout_seconds" -> [kind |-> "int", is |-> "60"]
      [] field \in ListFields -> [kind |-> "list", is |-> Empty]
      [] field \in OptionalFields -> [kind |-> "null", is |-> Empty]

--------------------------------------------------------------------------------
(* The sources. *)

\* What argparse refuses, with exit status 2.
ArgsRefused ==
    \/ "backend" \in DOMAIN args /\ args["backend"].is \notin {"rest", "jdbc"}
    \/ "auth" \in DOMAIN args /\ args["auth"].is \notin {"none", "basic", "kerberos"}
    \/ "max_rows" \in DOMAIN args /\ args["max_rows"].is \notin DOMAIN NumberOf

\* A text that is an int from now on.
AsInt(v) == [v EXCEPT !.kind = IF v.kind = "text" THEN "int" ELSE v.kind]
Overrides == [f \in DOMAIN args |-> IF f = "max_rows" THEN AsInt(args[f]) ELSE args[f]]

ParseArgs ==
    /\ stage = "parse"
    /\ stage' = IF ArgsRefused THEN "usage" ELSE "file"
    /\ UNCHANGED <<sources, values, config>>

\* Bytes that are no UTF-8 raise an exception that nothing converts.
ReadFile ==
    /\ stage = "file"
    /\ stage' = CASE file.state \in {"none", "mapping"} -> "environment"
                  [] file.state = "undecodable" -> "traceback"
                  [] OTHER -> "configError"
    /\ values' = IF file.state = "mapping" THEN Updated(values, file.keys) ELSE values
    /\ UNCHANGED <<sources, config>>

WithEnvironment_KeepsFile(some) == Updated(env, some)
WithEnvironment(some) == Updated(some, env)

\* A variable that is set to the empty text counts as set.
ApplyEnvironment ==
    /\ stage = "environment"
    /\ stage' = "overrides"
    /\ values' = WithEnvironment(values)
    /\ UNCHANGED <<sources, config>>

ApplyOverrides ==
    /\ stage = "overrides"
    /\ stage' = "coerce"
    /\ values' = Updated(values, Overrides)
    /\ UNCHANGED <<sources, config>>

--------------------------------------------------------------------------------
(* The checks. *)

NotAnInt(v) == v.kind = "text" /\ v.is \notin DOMAIN NumberOf
Coerced(v, field) == IF field \in IntFields THEN AsInt(v) ELSE v

CoerceInts ==
    /\ stage = "coerce"
    /\ LET bad == \E f \in IntFields \cap DOMAIN values : NotAnInt(values[f])
       IN  /\ stage' = IF bad THEN "configError" ELSE "construct"
           /\ values' = IF bad THEN values
                        ELSE [f \in DOMAIN values |-> Coerced(values[f], f)]
    /\ UNCHANGED <<sources, config>>

\* pydantic takes true for 1 and false for 0.
Number(v) == IF v.kind = "bool" THEN IF v.is = "true" THEN 1 ELSE 0 ELSE NumberOf[v.is]

Acceptable_AnyNumber(field, v) == field \in IntFields => v.kind \in {"int", "bool"}
\* The types and bounds of the fields of Config.
Acceptable(field, v) ==
    /\ field \in IntFields => v.kind \in {"int", "bool"} /\ Number(v) > 0
    /\ field \in {"url", "backend", "auth"} => v.kind = "text"
    /\ field = "backend" => v.is \in {"rest", "jdbc"}
    /\ field = "auth" => v.is \in {"none", "basic", "kerberos"}
    /\ field \in OptionalFields => v.kind \in {"text", "null"}
    /\ field \in ListFields => v.kind = "list"

\* Neither null nor the empty text.
Given(v) == v.kind = "text" /\ v.is # Empty

\* Config._check_consistency
Consistent(c) ==
    /\ c["auth"].is = "basic" => Given(c["user"]) /\ Given(c["password"])
    /\ c["backend"].is = "jdbc" => Given(c["jdbc_driver_path"])

Filled(some) == [f \in Fields |-> IF f \in DOMAIN some THEN some[f] ELSE Default(f)]

Valid_ExtraIgnored(some) ==
    /\ \A f \in DOMAIN some : Acceptable(f, some[f])
    /\ Consistent(Filled(some))
\* extra="forbid"
Valid(some) ==
    /\ DOMAIN some \subseteq Fields
    /\ \A f \in DOMAIN some : Acceptable(f, some[f])
    /\ Consistent(Filled(some))

\* `Config(**values)`, which wants texts for keywords before pydantic sees them.
Construct ==
    /\ stage = "construct"
    /\ stage' = CASE "not text" \in DOMAIN values -> "traceback"
                  [] "not text" \notin DOMAIN values /\ Valid(values) -> "build"
                  [] OTHER -> "configError"
    /\ config' = IF stage' = "build" THEN Filled(values) ELSE config
    /\ UNCHANGED <<sources, values>>

\* RestClient needs the extra for kerberos, JdbcClient nothing until the first call.
BuildClient ==
    /\ stage = "build"
    /\ stage' = CASE config["backend"].is = "jdbc" -> "serving"
                  [] config["backend"].is = "rest" /\ config["auth"].is = "kerberos" /\ ~kerberos
                         -> "drillError"
                  [] OTHER -> IF config["url"].is \in InvalidUrls THEN "traceback" ELSE "serving"
    /\ UNCHANGED <<sources, values, config>>

Next ==
    \/ ParseArgs \/ ReadFile \/ ApplyEnvironment \/ ApplyOverrides
    \/ CoerceInts \/ Construct \/ BuildClient

Spec == Init /\ [][Next]_vars

--------------------------------------------------------------------------------
(* Properties. *)

TypeOK ==
    /\ kerberos \in BOOLEAN
    /\ stage \in Endings \cup
           {"parse", "file", "environment", "overrides", "coerce", "construct", "build"}
    /\ IsPartial(values, FileKeys)
    /\ config = <<>> \/ config \in [Fields -> Value]

\* A server that runs has what the rest of drill_mcp takes for granted: a positive
\* cap of rows and timeout, one of the modes of authentication with what it needs,
\* lists of names (config.py:63-80; the assumptions of RunQuery and RestSession).
ServingIsConfigured ==
    stage = "serving" =>
        /\ \A f \in IntFields : Number(config[f]) > 0
        /\ \A f \in ListFields : config[f].kind = "list"
        /\ config["auth"].is \in {"none", "basic", "kerberos"}
        /\ config["auth"].is = "basic" => Given(config["user"]) /\ Given(config["password"])
        /\ config["auth"].is = "kerberos" /\ config["backend"].is = "rest" => kerberos
        /\ config["backend"].is = "jdbc" => Given(config["jdbc_driver_path"])

\* The source that says something of a field last, and what it says.
Said(field) ==
    CASE field \in DOMAIN args -> args[field]
      [] field \notin DOMAIN args /\ field \in DOMAIN env -> env[field]
      [] field \notin DOMAIN args \cup DOMAIN env /\ file.state = "mapping"
             /\ field \in DOMAIN file.keys -> file.keys[field]
      [] OTHER -> Default(field)

\* Every field of a Config is from the last source that sets it, also if that is the
\* empty text or a list that is shorter than an earlier one (config.py:101-105).
LastSourceWins ==
    config # <<>> => \A f \in Fields : config[f] = Coerced(Said(f), f)

\* What is wrong with the sources when they are taken together.
Faulty ==
    \/ file.state \in FileStates \ {"none", "mapping"}
    \/ file.state = "mapping" /\ ~(DOMAIN file.keys \subseteq Fields)
    \/ \E f \in IntFields : NotAnInt(Said(f))
    \/ \E f \in Fields : ~Acceptable(f, Coerced(Said(f), f))
    \/ ~Consistent([f \in Fields |-> Said(f)])

\* A configuration is refused for a fault of the values that count, never for one
\* that is overridden, and none with such a fault gets to a client (config.py:107-128).
RefusedForAFault ==
    /\ stage = "configError" => Faulty
    /\ config # <<>> => ~Faulty
================================================================================
