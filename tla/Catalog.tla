--------------------------------- MODULE Catalog ---------------------------------
(***************************************************************************)
(* The metadata tools of drill_mcp: list_schemas, list_tables and          *)
(* describe_table (server.py) over fetch_schemas, fetch_plugin_type,       *)
(* fetch_tables and fetch_columns (client_rest.py, shared by both          *)
(* backends).                                                              *)
(*                                                                         *)
(* list_tables and describe_table send two queries: the first looks up the *)
(* type of the storage plugin, which decides what the second one is.       *)
(* Between any two queries other users of Drill reconfigure plugins and    *)
(* create and drop schemas and tables.  The calls share no state, so the   *)
(* behaviour is that of one call.                                          *)
(***************************************************************************)
EXTENDS Names, FiniteSets

CONSTANTS
    Identifiers,    \* components that _IDENTIFIER matches
    Types,          \* storage plugin types
    NoType,         \* None: the type is not known
    Columns,        \* columns a table may have
    Catalogues,     \* what Drill's catalogue may be
    SchemaArgs,     \* values of the argument `schema`
    TableArgs,      \* values of the argument `table`
    HiddenLists,    \* values of config.hidden_schemas
    RowCap          \* 10_000, the cap of rows of every metadata query

DynamicTypes == {"file", "mongo", "splunk"}

\* Catalogue entries: the type of the schema's plugin, and of each table its
\* columns (none when a plugin that samples data has no row to sample, and never
\* more than the cap).  An entry of a file workspace stands under the name that
\* fetch_tables reports, a view without its suffix.
Entry(e) ==
    /\ e.type \in Types
    /\ DOMAIN e.tables \subseteq Name /\ IsFiniteSet(DOMAIN e.tables)
    /\ \A t \in DOMAIN e.tables : e.tables[t] \subseteq Columns

\* Two names have the same storage plugin: all schemas of a plugin have its type.
SamePlugin(name, other) ==
    name # <<>> /\ other # <<>> /\ Lower[name[1]] = Lower[other[1]]

Catalogue(c) ==
    /\ DOMAIN c \subseteq Name \ {<<>>} /\ IsFiniteSet(DOMAIN c)
    /\ \A s \in DOMAIN c : Entry(c[s])
    /\ \A s, t \in DOMAIN c : SamePlugin(s, t) => c[s].type = c[t].type
    /\ \A s, t \in DOMAIN c : Folded(s) = Folded(t) => s = t

ASSUME TypesAssumption == DynamicTypes \cup {"http"} \subseteq Types /\ NoType \notin Types
ASSUME CataloguesAssumption == \A c \in Catalogues : Catalogue(c)
ASSUME ArgsAssumption == SchemaArgs \subseteq Name /\ TableArgs \subseteq Name
ASSUME HiddenAssumption == HiddenLists \subseteq SUBSET Name
ASSUME RowCapAssumption == RowCap \in Nat \ {0}

Requests ==
    [op : {"list_schemas"}, schema : {<<>>}, table : {<<>>}]
        \cup [op : {"list_tables"}, schema : SchemaArgs, table : {<<>>}]
        \cup [op : {"describe_table"}, schema : SchemaArgs, table : TableArgs]

VARIABLES
    catalog,    \* Drill's catalogue at the moment
    hidden,     \* DrillTools._policy.hidden_schemas
    request,    \* the tool and its arguments
    stage,      \* where the call is, or how it ended
    type,       \* plugin_type in fetch_tables and fetch_columns
    result,     \* names of the schemas, tables or columns returned
    named,      \* history: schemas named in what was asked of Drill, folded
    sampled,    \* history: schemas of which a row of data was read
    steady,     \* history: since the lookup the schema has kept its plugin type
    whole       \* history: the lookup was given every schema there was

args == <<hidden, request>>
vars == <<catalog, args, stage, type, result, named, sampled, steady, whole>>

Endings == {"refused", "failed", "undetermined", "returned"}

\* The types, and a result that fits the call: an empty description is an answer
\* of plugins that register their columns only (client_rest.py:427-436, 478-484).
TypeOK ==
    /\ catalog \in Catalogues
    /\ hidden \in HiddenLists
    /\ request \in Requests
    /\ stage \in {"start", "lookup", "ask"} \cup Endings
    /\ type \in Types \cup {NoType}
    /\ result \subseteq Name \cup Columns
    /\ named \subseteq Name
    /\ sampled \subseteq Name
    /\ steady \in BOOLEAN
    /\ whole \in BOOLEAN
    /\ stage # "returned" => result = {}
    /\ stage = "returned" /\ request.op = "describe_table"
           /\ type \in DynamicTypes \cup {"http"} => result # {}

Init ==
    /\ catalog \in Catalogues
    /\ hidden \in HiddenLists
    /\ request \in Requests
    /\ stage = "start"
    /\ type = NoType
    /\ result = {}
    /\ named = {}
    /\ sampled = {}
    /\ steady = TRUE
    /\ whole = TRUE

--------------------------------------------------------------------------------
(* What Drill answers: external. *)

\* A query returns its first RowCap rows, in an order that is Drill's own.
Capped(rows) ==
    {some \in SUBSET rows : Cardinality(some) =
        IF Cardinality(rows) <= RowCap THEN Cardinality(rows) ELSE RowCap}

\* A name stands for the schema of that name, in any case; the bare name of a
\* plugin stands for one of its schemas.
Located(name) ==
    LET spelled == {s \in DOMAIN catalog : Folded(s) = Folded(name)}
    IN  IF spelled # {} THEN spelled
        ELSE {s \in DOMAIN catalog : Len(name) = 1 /\ SamePlugin(s, name)}

\* INFORMATION_SCHEMA.TABLES has the tables of every plugin but file plugins,
\* and `WHERE TABLE_SCHEMA =` compares exactly.
Registered(name) ==
    UNION {DOMAIN catalog[s].tables :
               s \in {s \in DOMAIN catalog : s = name /\ catalog[s].type # "file"}}

--------------------------------------------------------------------------------
Visible(name) == ~MatchesPrefix(name, hidden)

\* The identifier checks: every component between two dots is well formed.
Valid(name) == name # <<>> /\ \A i \in DOMAIN name : name[i] \in Identifiers

Refused_ByEquality ==
    /\ request.op # "list_schemas"
    /\ \/ request.schema \in hidden
       \/ ~Valid(request.schema)
       \/ request.op = "describe_table" /\ ~Valid(request.table)

\* _refuse_if_hidden, and the arguments that are checked before any query.
Refused ==
    /\ request.op # "list_schemas"
    /\ \/ ~Visible(request.schema)
       \/ ~Valid(request.schema)
       \/ request.op = "describe_table" /\ ~Valid(request.table)

\* The tool is called.
Start ==
    /\ stage = "start"
    /\ stage' = IF Refused THEN "refused"
                ELSE IF request.op = "list_schemas" THEN "ask" ELSE "lookup"
    /\ UNCHANGED <<catalog, args, type, result, named, sampled, steady, whole>>

TypeIn_Like(listed) ==
    LET same == {s \in listed : s = request.schema}
        like == {s \in listed : Len(request.schema) = 1 /\ \E i \in DOMAIN s : s[i] = request.schema[1]}
        found == IF same # {} THEN same ELSE like
    IN  IF found = {} THEN {NoType} ELSE {catalog[s].type : s \in found}

\* The loop of fetch_plugin_type over the rows it was given: an exact match wins,
\* else the first schema of the plugin that the argument names.
TypeIn(listed) ==
    LET same == {s \in listed : s = request.schema}
        below == {s \in listed : Len(request.schema) = 1 /\ s[1] = request.schema[1]}
        found == IF same # {} THEN same ELSE below
    IN  IF found = {} THEN {NoType} ELSE {catalog[s].type : s \in found}

LookUpType_HttpToo ==
    /\ stage = "lookup"
    /\ \E listed \in Capped(DOMAIN catalog) : type' \in TypeIn(listed)
    /\ stage' = "ask"
    /\ steady' = TRUE
    /\ whole' = (Cardinality(DOMAIN catalog) <= RowCap)
    /\ UNCHANGED <<catalog, args, result, named, sampled>>

\* fetch_plugin_type, and the error that fetch_columns raises for HTTP plugins.
LookUpType ==
    /\ stage = "lookup"
    /\ \E listed \in Capped(DOMAIN catalog) : type' \in TypeIn(listed)
    /\ stage' = IF request.op = "describe_table" /\ type' = "http"
                THEN "undetermined" ELSE "ask"
    /\ steady' = TRUE
    /\ whole' = (Cardinality(DOMAIN catalog) <= RowCap)
    /\ UNCHANGED <<catalog, args, result, named, sampled>>

\* What the second query is about.  The target of a mongo probe is one path of
\* all components; everywhere else the table is a single quoted identifier.
Target ==
    IF request.op = "describe_table" /\ type = "mongo"
    THEN LET n == Len(request.table)
         IN  [schema |-> request.schema \o SubSeq(request.table, 1, n - 1),
              table |-> SubSeq(request.table, n, n)]
    ELSE [schema |-> request.schema, table |-> request.table]

\* The query is sent, and Drill has an answer to it.
Ask(op) ==
    /\ stage = "ask"
    /\ request.op = op
    /\ named' = Resolved({Target.schema})
    /\ UNCHANGED <<catalog, args, type, steady, whole>>

Return(names) == stage' = "returned" /\ result' = names

\* fetch_schemas, and the filter of list_schemas.
ListSchemas ==
    /\ Ask("list_schemas")
    /\ \E listed \in Capped(DOMAIN catalog) : Return({s \in listed : Visible(s)})
    /\ UNCHANGED sampled

\* fetch_tables for a file plugin: SHOW FILES, which only file plugins answer.
ShowFiles ==
    /\ Ask("list_tables")
    /\ type = "file"
    /\ \E s \in Located(Target.schema) :
           /\ catalog[s].type = "file"
           /\ \E names \in Capped(DOMAIN catalog[s].tables) : Return(names)
    /\ UNCHANGED sampled

QueryTables_FilesToo ==
    /\ Ask("list_tables")
    /\ \E names \in Capped(Registered(Target.schema)) : Return(names)
    /\ UNCHANGED sampled

\* fetch_tables for every other plugin, and for a type that is not known.
QueryTables ==
    /\ Ask("list_tables")
    /\ type # "file"
    /\ \E names \in Capped(Registered(Target.schema)) : Return(names)
    /\ UNCHANGED sampled

\* _probe_columns: one row is read; without one there are no columns to report.
ProbeColumns ==
    /\ Ask("describe_table")
    /\ type \in DynamicTypes
    /\ \E s \in Located(Target.schema) :
           /\ Target.table \in DOMAIN catalog[s].tables
           /\ sampled' = {s}
           /\ LET columns == catalog[s].tables[Target.table]
              IN  \/ columns # {} /\ Return(columns)
                  \/ columns = {} /\ stage' = "undetermined" /\ UNCHANGED result

\* _describe_columns: for a plugin with registered schemas Drill knows the
\* columns; for the others, or without such a table, it may have nothing to say.
DescribeColumns ==
    /\ Ask("describe_table")
    /\ type \notin DynamicTypes
    /\ LET known == {s \in Located(Target.schema) :
                        /\ catalog[s].type \notin DynamicTypes \cup {"http"}
                        /\ Target.table \in DOMAIN catalog[s].tables}
       IN  \/ \E s \in known : Return(catalog[s].tables[Target.table])
           \/ known = {} /\ Return({})
    /\ UNCHANGED sampled

\* A query raises DrillError, which ends the call: no connection, no such table,
\* no permission, or a question the plugin does not answer.
QueryFails ==
    /\ stage \in {"lookup", "ask"}
    /\ stage' = "failed"
    /\ named' = IF stage = "ask" THEN Resolved({Target.schema}) ELSE {}
    /\ UNCHANGED <<catalog, args, type, result, sampled, steady, whole>>

--------------------------------------------------------------------------------
\* What a lookup depends on: the type of the plugin, and whether the schema is
\* there.
Seen(c) ==
    <<request.schema \in DOMAIN c,
      {c[s].type : s \in {s \in DOMAIN c : SamePlugin(s, request.schema)}}>>

\* Somebody else changes the catalogue during the call: external.
Change ==
    /\ stage \notin Endings
    /\ catalog' \in Catalogues
    /\ steady' = (steady /\ Seen(catalog') = Seen(catalog))
    /\ UNCHANGED <<args, stage, type, result, named, sampled, whole>>

Next ==
    \/ Start \/ LookUpType
    \/ ListSchemas \/ ShowFiles \/ QueryTables \/ ProbeColumns \/ DescribeColumns
    \/ QueryFails \/ Change

Spec == Init /\ [][Next]_vars

--------------------------------------------------------------------------------
(* Properties. *)

Returns(op) == request.op = op /\ stage # "returned" /\ stage' = "returned"

\* The lookup and the last query saw a schema of one and the same type, spelled
\* as in the catalogue.
Recognised == steady /\ whole /\ request.schema \in DOMAIN catalog

SchemasOfOneMoment ==
    Returns("list_schemas") /\ Cardinality(DOMAIN catalog) <= RowCap =>
        result' = {s \in DOMAIN catalog : Visible(s)}

TablesOfOneMoment ==
    Returns("list_tables") /\ Recognised =>
        LET tables == DOMAIN catalog[request.schema].tables
        IN  Cardinality(tables) <= RowCap => result' = tables

ColumnsOfOneMoment ==
    Returns("describe_table") /\ Recognised =>
        LET entry == catalog[request.schema]
        IN  (entry.type = "mongo" => Len(request.table) = 1) =>
                IF request.table \in DOMAIN entry.tables
                THEN result' = entry.tables[request.table]
                ELSE entry.type \notin DynamicTypes \cup {"http"}

\* Without `steady` and `whole`: a lookup that was not given the schema, or whose
\* result is out of date, can make an answer empty or short but never foreign.
NothingForeign ==
    request.schema \in DOMAIN catalog =>
        LET tables == catalog[request.schema].tables
        IN  /\ Returns("list_tables") => result' \subseteq DOMAIN tables
            /\ Returns("describe_table") /\ result' # {} =>
                   \/ type = "mongo" /\ Len(request.table) > 1
                   \/ request.table \in DOMAIN tables /\ result' = tables[request.table]

\* Although list_tables and describe_table put their answer together from two
\* queries, and choose the second by the first, what they return is what one look
\* at the catalogue would have shown, whatever other users changed meanwhile, as
\* long as the schema kept its type and the lookup could see it: no file workspace
\* looks empty and no sampled or HTTP table looks like one without columns.  If not,
\* nothing that is returned is of another schema or table (client_rest.py:264-334,
\* 460-489).
AnswersOfOneMoment ==
    [][/\ SchemasOfOneMoment /\ TablesOfOneMoment /\ ColumnsOfOneMoment
       /\ NothingForeign]_vars

\* Rows are read only from plugins whose schemas are found by reading
\* (client_rest.py:486): neither a bare plugin name nor an unknown one makes
\* describe_table sample a table that DESCRIBE can answer for.
SamplesOnlyDynamic ==
    [][\A s \in sampled' \ sampled : steady => catalog[s].type \in DynamicTypes]_vars

\* No metadata query names a hidden schema (server.py:77-79, 186-204), as far as
\* the argument `schema` decides what it names: the probe of a mongo table whose
\* name has dots is left out here, see TableIsOneIdentifier.
HiddenStaysUnnamed ==
    \A s \in named :
        Under(s, hidden) => type = "mongo" /\ Len(request.table) > 1

(* A statement of the documentation that the code does not keep.               *)

\* docs/tools.md:245: a table name with a dot in it is one identifier, not a path
\* below another schema.
TableIsOneIdentifier ==
    request.op = "describe_table" => named \subseteq Resolved({request.schema})
================================================================================
