------------------------------ MODULE CatalogProofs ------------------------------
(***************************************************************************)
(* Proofs about the metadata tools for every catalogue, every change of    *)
(* it, every argument and every cap of rows.                               *)
(***************************************************************************)
EXTENDS Catalog, NamesProofs, FiniteSetTheorems, TLAPS

\* No more rows than the cap are all returned.
LEMMA CappedWhole ==
    ASSUME NEW rows, IsFiniteSet(rows), Cardinality(rows) <= RowCap, NEW some \in Capped(rows)
    PROVE  some = rows
  BY FS_Subset DEF Capped

\* What the sets of arguments say of one request.
LEMMA RequestFields ==
    ASSUME NEW r \in Requests
    PROVE  /\ r.op \in {"list_schemas", "list_tables", "describe_table"}
           /\ r.schema \in Name /\ r.table \in Name
           /\ r.op = "list_schemas" => r.schema = <<>>
<1>1. <<>> \in Name
      BY DEF Name
<1>2. QED
      BY <1>1, ArgsAssumption DEF Requests

\* A schema that Drill takes a non-empty name for belongs to the plugin named.
LEMMA LocatedPlugin ==
    ASSUME catalog \in Catalogues, NEW name \in Name, name # <<>>,
           NEW s \in Located(name)
    PROVE  s \in DOMAIN catalog /\ SamePlugin(s, name)
<1> USE CataloguesAssumption
<1>1. s \in DOMAIN catalog /\ s \in Name /\ s # <<>>
      BY DEF Located, Catalogue
<1>2. CASE Folded(s) = Folded(name)
  <2>1. 1 \in 1..Len(s) /\ 1 \in 1..Len(name)
        BY <1>1 DEF Name
  <2>2. Lower[s[1]] = Lower[name[1]]
        BY <1>1, <1>2, <2>1, FoldedName
  <2>3. QED
        BY <1>1, <2>2 DEF SamePlugin
<1>3. CASE SamePlugin(s, name)
      BY <1>1, <1>3
<1>4. QED
      BY <1>2, <1>3 DEF Located

\* A name in the catalogue, spelled as it is there, stands for itself only.
LEMMA LocatedItself ==
    ASSUME catalog \in Catalogues, NEW name \in DOMAIN catalog
    PROVE  Located(name) = {name}
  BY CataloguesAssumption DEF Located, Catalogue

--------------------------------------------------------------------------------
(* What the second query may rely on.  Known: since the lookup no schema of    *)
(* the plugin has had another type than the one found.                         *)
Known ==
    /\ steady /\ type # NoType =>
           \A s \in DOMAIN catalog : SamePlugin(s, request.schema) => catalog[s].type = type
    /\ steady /\ whole /\ request.schema \in DOMAIN catalog => type # NoType
    /\ request.op = "describe_table" => type # "http"

Permitted ==
    /\ Visible(request.schema) /\ Valid(request.schema)
    /\ request.op = "describe_table" => Valid(request.table)

LookupInv ==
    /\ catalog \in Catalogues /\ hidden \in HiddenLists /\ request \in Requests
    /\ stage \in {"start", "lookup", "ask"} \cup Endings
    /\ type \in Types \cup {NoType} /\ steady \in BOOLEAN /\ whole \in BOOLEAN
    /\ stage \in {"lookup", "ask"} /\ request.op # "list_schemas" => Permitted
    /\ stage = "ask" /\ request.op # "list_schemas" => Known
    /\ stage = "lookup" => request.op # "list_schemas"

\* The first row of the lookup that matches has the type of the whole plugin.
LEMMA TypeFound ==
    ASSUME catalog \in Catalogues, request \in Requests,
           Valid(request.schema),
           NEW listed \in Capped(DOMAIN catalog), NEW t \in TypeIn(listed)
    PROVE  /\ t \in Types \cup {NoType}
           /\ t # NoType => \A s \in DOMAIN catalog :
                               SamePlugin(s, request.schema) => catalog[s].type = t
           /\ Cardinality(DOMAIN catalog) <= RowCap /\ request.schema \in DOMAIN catalog
                  => t # NoType
<1> USE CataloguesAssumption
<1> DEFINE same == {s \in listed : s = request.schema}
           below == {s \in listed : Len(request.schema) = 1 /\ s[1] = request.schema[1]}
           found == IF same # {} THEN same ELSE below
<1>1. /\ listed \subseteq DOMAIN catalog
      /\ IsFiniteSet(DOMAIN catalog) /\ DOMAIN catalog \subseteq Name \ {<<>>}
      /\ \A s \in DOMAIN catalog : catalog[s].type \in Types
      /\ \A s, r \in DOMAIN catalog : SamePlugin(s, r) => catalog[s].type = catalog[r].type
      BY DEF Capped, Catalogue, Entry
<1>2. request.schema # <<>>
      BY DEF Valid
<1>3. t \in IF found = {} THEN {NoType} ELSE {catalog[s].type : s \in found}
      BY DEF TypeIn
<1>4. \A s \in found : s \in DOMAIN catalog /\ SamePlugin(s, request.schema)
      BY <1>1, <1>2 DEF SamePlugin
<1>5. t \in Types \cup {NoType}
      BY <1>1, <1>3, <1>4
<1>6. ASSUME t # NoType, NEW s \in DOMAIN catalog, SamePlugin(s, request.schema)
      PROVE  catalog[s].type = t
  <2>1. PICK r \in found : t = catalog[r].type
        BY <1>3, <1>6
  <2>2. SamePlugin(s, r)
        BY <1>4, <1>6 DEF SamePlugin
  <2>3. QED
        BY <1>1, <1>4, <2>1, <2>2
<1>7. ASSUME Cardinality(DOMAIN catalog) <= RowCap, request.schema \in DOMAIN catalog
      PROVE  t # NoType
  <2>1. listed = DOMAIN catalog
        BY <1>1, <1>7, CappedWhole
  <2>2. request.schema \in found
        BY <1>7, <2>1
  <2>3. QED
        BY <1>1, <1>3, <1>4, <2>2, TypesAssumption
<1>8. QED
      BY <1>5, <1>6, <1>7

\* While others change the catalogue, `steady` keeps what the lookup found.
LEMMA KnownStays ==
    ASSUME LookupInv, Known, Permitted, Change
    PROVE  Known'
<1> USE CataloguesAssumption
<1>1. /\ UNCHANGED <<request, type, whole>> /\ catalog' \in Catalogues
      /\ steady' = (steady /\ Seen(catalog') = Seen(catalog))
      BY DEF Change, args
<1>2. ASSUME steady', type # NoType, NEW s \in DOMAIN catalog', SamePlugin(s, request.schema)
      PROVE  catalog'[s].type = type
  <2>1. catalog'[s].type \in {catalog[r].type : r \in {r \in DOMAIN catalog :
                                                   SamePlugin(r, request.schema)}}
        BY <1>1, <1>2 DEF Seen
  <2>2. QED
        BY <1>1, <1>2, <2>1 DEF Known
<1>3. steady' /\ whole /\ request.schema \in DOMAIN catalog' => type # NoType
      BY <1>1 DEF Known, Seen
<1>4. QED
      BY <1>1, <1>2, <1>3 DEF Known, SamePlugin

THEOREM LookupCorrect == Spec => []LookupInv
<1>1. Init => LookupInv
      BY DEF Init, LookupInv, Endings
<1>2. LookupInv /\ [Next]_vars => LookupInv'
  <2> SUFFICES ASSUME LookupInv, [Next]_vars PROVE LookupInv'
      OBVIOUS
  <2> USE CataloguesAssumption
  <2>1. CASE Start
        BY <2>1, RequestFields
        DEF Start, Refused, LookupInv, Permitted, Visible, args, Endings
  <2>2. CASE LookUpType
    <3>1. Permitted /\ request \in Requests /\ catalog \in Catalogues
          BY <2>2 DEF LookUpType, LookupInv
    <3>2. PICK listed \in Capped(DOMAIN catalog) : type' \in TypeIn(listed)
          BY <2>2 DEF LookUpType
    <3>3. /\ type' \in Types \cup {NoType}
          /\ type' # NoType => \A s \in DOMAIN catalog :
                                  SamePlugin(s, request.schema) => catalog[s].type = type'
          /\ Cardinality(DOMAIN catalog) <= RowCap /\ request.schema \in DOMAIN catalog
                 => type' # NoType
          BY <3>1, <3>2, TypeFound DEF Permitted
    <3>4. stage' = "ask" => Known'
          BY <2>2, <3>3 DEF LookUpType, Known, SamePlugin, args
    <3>5. Permitted'
          BY <2>2, <3>1 DEF LookUpType, Permitted, Visible, args
    <3>6. QED
          BY <2>2, <3>3, <3>4, <3>5 DEF LookUpType, LookupInv, args, Endings
  <2>3. CASE ListSchemas \/ ShowFiles \/ QueryTables \/ ProbeColumns \/ DescribeColumns
        BY <2>3 DEF ListSchemas, ShowFiles, QueryTables, ProbeColumns, DescribeColumns,
                    Ask, Return, LookupInv, args, Endings
  <2>4. CASE QueryFails
        BY <2>4 DEF QueryFails, LookupInv, args, Endings
  <2>5. CASE Change
    <3>1. /\ catalog' \in Catalogues /\ UNCHANGED <<hidden, request, stage, type, whole>>
          /\ steady' \in BOOLEAN
          BY <2>5 DEF Change, args, LookupInv
    <3>2. Permitted => Permitted'
          BY <3>1 DEF Permitted, Visible
    <3>3. stage = "ask" /\ request.op # "list_schemas" => Known'
          BY <2>5, KnownStays DEF LookupInv
    <3>4. QED
          BY <3>1, <3>2, <3>3 DEF LookupInv
  <2>6. CASE UNCHANGED vars
        BY <2>6 DEF vars, args, LookupInv, Known, Permitted, Visible, SamePlugin
  <2>7. QED
        BY <2>1, <2>2, <2>3, <2>4, <2>5, <2>6 DEF Next
<1>3. QED
      BY <1>1, <1>2, PTL DEF Spec

--------------------------------------------------------------------------------
\* What a query is about has the plugin of the argument `schema`, and is that
\* schema itself unless the table's name is a path.
LEMMA TargetNamed ==
    ASSUME NEW schema, schema = request.schema, NEW table, table = request.table,
           schema \in Name, schema # <<>>, table \in Name,
           request.op = "describe_table" => table # <<>>
    PROVE  /\ Target.schema \in Name /\ Target.schema # <<>> /\ Target.schema[1] = schema[1]
           /\ ~(request.op = "describe_table" /\ type = "mongo" /\ Len(table) # 1)
                  => Target.schema = schema /\ Target.table = table
<1> DEFINE n == Len(table)
<1>1. /\ schema \in Seq(Components) /\ table \in Seq(Components) /\ n \in Nat /\ Len(schema) > 0
      BY DEF Name
<1>2. CASE request.op = "describe_table" /\ type = "mongo"
  <2>1. Target.schema = schema \o SubSeq(table, 1, n - 1) /\ Target.table = SubSeq(table, n, n)
        BY <1>2 DEF Target
  <2>2. SubSeq(table, 1, n - 1) \in Seq(Components)
    <3>1. \A i \in 1..(n - 1) : table[i] \in Components
          BY <1>1
    <3>2. n - 1 \in Nat
          BY <1>1, <1>2
    <3>3. QED
          BY <1>1, <3>1, <3>2
  <2>3. Target.schema \in Seq(Components) /\ Len(Target.schema) >= Len(schema)
        /\ Target.schema[1] = schema[1]
    <3>1. \A tail \in Seq(Components) :
              /\ schema \o tail \in Seq(Components)
              /\ Len(schema \o tail) >= Len(schema)
              /\ (schema \o tail)[1] = schema[1]
          BY <1>1
    <3>2. QED
          BY <2>1, <2>2, <3>1
  <2>4. ASSUME n = 1 PROVE Target.schema = schema /\ Target.table = table
    <3>1. SubSeq(table, 1, n - 1) = <<>>
          BY <1>1, <2>4
    <3>2. schema \o <<>> = schema
          BY <1>1
    <3>3. SubSeq(table, n, n) = table
          BY <1>1, <2>4
    <3>4. QED
          BY <2>1, <3>1, <3>2, <3>3
  <2>5. QED
        BY <1>1, <1>2, <2>3, <2>4 DEF Name
<1>3. CASE ~(request.op = "describe_table" /\ type = "mongo")
      BY <1>3 DEF Target
<1>4. QED
      BY <1>2, <1>3

\* The step of a probe reads a row of a plugin that registers no columns.
LEMMA ProbeSamples ==
    ASSUME LookupInv, ProbeColumns, steady,
           NEW s \in sampled'
    PROVE  s \in DOMAIN catalog /\ catalog[s].type \in DynamicTypes
<1> USE CataloguesAssumption
<1>1. /\ Known /\ Permitted /\ type \in DynamicTypes /\ catalog \in Catalogues
      /\ s \in Located(Target.schema)
      BY DEF ProbeColumns, Ask, LookupInv
<1>2. /\ request.schema \in Name /\ request.schema # <<>> /\ request.table \in Name
      /\ request.op = "describe_table" => request.table # <<>>
      BY <1>1, RequestFields DEF LookupInv, Permitted, Valid
<1>3. /\ Target.schema \in Name /\ Target.schema # <<>>
      /\ Target.schema[1] = request.schema[1]
      BY <1>2, TargetNamed
<1>4. s \in DOMAIN catalog /\ SamePlugin(s, Target.schema)
      BY <1>1, <1>3, LocatedPlugin
<1>5. SamePlugin(s, request.schema)
      BY <1>2, <1>3, <1>4 DEF SamePlugin
<1>6. QED
      BY <1>1, <1>4, <1>5, TypesAssumption DEF Known

\* Whatever others change, describe_table samples no table of a plugin that kept a
\* type that registers columns (client_rest.py:486).
THEOREM SamplesOnlyDynamicCorrect == Spec => SamplesOnlyDynamic
<1>1. LookupInv /\ [Next]_vars =>
          [\A s \in sampled' \ sampled : steady => catalog[s].type \in DynamicTypes]_vars
  <2> SUFFICES ASSUME LookupInv, [Next]_vars, steady, NEW s \in sampled' \ sampled
               PROVE  catalog[s].type \in DynamicTypes
      OBVIOUS
  <2>1. CASE ProbeColumns
        BY <2>1, ProbeSamples, CataloguesAssumption
  <2>2. CASE ~ProbeColumns
        BY <2>2 DEF Next, vars, Start, LookUpType, ListSchemas, ShowFiles, QueryTables,
                    DescribeColumns, QueryFails, Change, Ask
  <2>3. QED
        BY <2>1, <2>2
<1>2. QED
      BY <1>1, LookupCorrect, PTL DEF Spec, SamplesOnlyDynamic

--------------------------------------------------------------------------------
\* Nothing has been named to Drill, or the target of a permitted call has.
NamedInv ==
    /\ stage \in {"start", "lookup", "refused"} => named = {}
    /\ named # {} =>
           named = Resolved({Target.schema}) /\ request.op # "list_schemas" /\ Permitted

\* What a call names is decided by its arguments once the type is known.
THEOREM NamedCorrect == Spec => []NamedInv
<1>1. Init => NamedInv
      BY DEF Init, NamedInv
<1>2. LookupInv /\ NamedInv /\ [Next]_vars => NamedInv'
  <2> SUFFICES ASSUME LookupInv, NamedInv, [Next]_vars PROVE NamedInv'
      OBVIOUS
  <2> USE DEF NamedInv
  <2>1. CASE Start
        BY <2>1 DEF Start, Target, Permitted, Visible, args
  <2>2. CASE LookUpType
        BY <2>2 DEF LookUpType
  <2>3. CASE ListSchemas \/ ShowFiles \/ QueryTables \/ ProbeColumns \/ DescribeColumns \/ QueryFails
    <3>1. named' \in {{}, Resolved({Target.schema})}
          /\ UNCHANGED <<hidden, request, type>> /\ stage' \notin {"start", "lookup", "refused"}
          BY <2>3 DEF ListSchemas, ShowFiles, QueryTables, ProbeColumns, DescribeColumns,
                      QueryFails, Ask, Return, args
    <3>2. Target' = Target /\ Permitted' = Permitted
          BY <3>1 DEF Target, Permitted, Visible
    <3>3. request.op = "list_schemas" => named' = {}
      <4>1. ASSUME request.op = "list_schemas" PROVE Target.schema = <<>>
            BY <4>1, RequestFields DEF Target, LookupInv
      <4>2. QED
            BY <3>1, <4>1 DEF Resolved
    <3>4. named' # {} => stage = "ask"
          BY <2>3 DEF ListSchemas, ShowFiles, QueryTables, ProbeColumns, DescribeColumns,
                      QueryFails, Ask
    <3>5. QED
          BY <3>1, <3>2, <3>3, <3>4 DEF LookupInv
  <2>4. CASE Change \/ UNCHANGED vars
        BY <2>4 DEF Change, vars, args, Target, Permitted, Visible
  <2>5. QED
        BY <2>1, <2>2, <2>3, <2>4 DEF Next
<1>3. QED
      BY <1>1, <1>2, LookupCorrect, PTL DEF Spec

\* No metadata query names a hidden schema, up to the paths of mongo tables
\* (server.py:77-79).
THEOREM HiddenStaysUnnamedCorrect == Spec => []HiddenStaysUnnamed
<1>1. LookupInv /\ NamedInv => HiddenStaysUnnamed
  <2> SUFFICES ASSUME LookupInv, NamedInv, NEW s \in named, Under(s, hidden),
                      ~(type = "mongo" /\ Len(request.table) > 1)
               PROVE  FALSE
      BY DEF HiddenStaysUnnamed
  <2>1. /\ named = Resolved({Target.schema}) /\ request.op # "list_schemas" /\ Permitted
        BY DEF NamedInv
  <2>2. /\ request.schema \in Name /\ request.schema # <<>> /\ request.table \in Name
        /\ hidden \in SUBSET Name
        /\ request.op = "describe_table" => request.table # <<>>
        BY <2>1, RequestFields, HiddenAssumption DEF LookupInv, Permitted, Valid
  <2>3. request.op = "describe_table" /\ type = "mongo" => Len(request.table) = 1
    <3>1. request.op = "describe_table" => Len(request.table) > 0
          BY <2>1, <2>2 DEF Permitted, Valid, Name
    <3>2. Len(request.table) \in Nat
          BY <2>2 DEF Name
    <3>3. \A k \in Nat : k > 0 /\ ~(k > 1) => k = 1
          OBVIOUS
    <3>4. type = "mongo" => ~(Len(request.table) > 1)
          OBVIOUS
    <3>5. QED
          BY <3>1, <3>2, <3>3, <3>4
  <2>4. Target.schema = request.schema
        BY <2>2, <2>3, TargetNamed
  <2>5. s = Folded(request.schema)
        BY <2>1, <2>4 DEF Resolved
  <2>6. MatchesPrefix(request.schema, hidden)
        BY <2>2, <2>5, MatchesPrefixMeaning
  <2>7. QED
        BY <2>1, <2>6 DEF Permitted, Visible
<1>2. QED
      BY <1>1, LookupCorrect, NamedCorrect, PTL

--------------------------------------------------------------------------------
ResultInv ==
    /\ sampled \subseteq Name
    /\ result \subseteq Name \cup Columns
    /\ stage # "returned" => result = {}
    /\ stage = "returned" /\ request.op = "describe_table"
           /\ type \in DynamicTypes \cup {"http"} => result # {}

\* Type correctness: a description without columns is never the answer of a plugin
\* that has to read or to be queried first (client_rest.py:427-436, 478-484).
THEOREM TypeCorrect == Spec => []TypeOK
<1>1. Init => ResultInv
      BY DEF Init, ResultInv
<1>2. LookupInv /\ ResultInv /\ [Next]_vars => ResultInv'
  <2> SUFFICES ASSUME LookupInv, ResultInv, [Next]_vars PROVE ResultInv'
      OBVIOUS
  <2> USE CataloguesAssumption DEF ResultInv
  <2>1. \A s \in DOMAIN catalog :
            /\ s \in Name /\ DOMAIN catalog[s].tables \subseteq Name
            /\ \A t \in DOMAIN catalog[s].tables : catalog[s].tables[t] \subseteq Columns
        BY DEF LookupInv, Catalogue, Entry
  <2>2. CASE Start \/ LookUpType \/ QueryFails \/ Change \/ UNCHANGED vars
        BY <2>2 DEF Start, LookUpType, QueryFails, Change, vars, args, Endings
  <2>3. CASE ListSchemas
        BY <2>1, <2>3 DEF ListSchemas, Ask, Return, Capped, args
  <2>4. CASE ShowFiles
        BY <2>1, <2>4 DEF ShowFiles, Ask, Return, Capped, Located, args
  <2>5. CASE QueryTables
        BY <2>1, <2>5 DEF QueryTables, Ask, Return, Capped, Registered, args
  <2>6. CASE ProbeColumns
        BY <2>1, <2>6 DEF ProbeColumns, Ask, Return, Located, args
  <2>7. CASE DescribeColumns
    <3>1. type' = type /\ type \notin DynamicTypes \cup {"http"}
          BY <2>7 DEF DescribeColumns, Ask, LookupInv, Known
    <3>2. stage' = "returned" /\ result' \subseteq Columns /\ UNCHANGED sampled
          BY <2>1, <2>7 DEF DescribeColumns, Return, Located
    <3>3. QED
          BY <3>1, <3>2
  <2>8. QED
        BY <2>2, <2>3, <2>4, <2>5, <2>6, <2>7 DEF Next
<1>3. LookupInv /\ NamedInv /\ ResultInv => TypeOK
  <2> SUFFICES ASSUME LookupInv, NamedInv, ResultInv PROVE TypeOK
      OBVIOUS
  <2>1. named # {} => /\ named = Resolved({Target.schema})
                      /\ Target.schema \in Name /\ Target.schema # <<>>
    <3>1. ASSUME named # {}
          PROVE  /\ request.schema \in Name /\ request.schema # <<>>
                 /\ request.table \in Name
                 /\ request.op = "describe_table" => request.table # <<>>
          BY <3>1, RequestFields DEF NamedInv, LookupInv, Permitted, Valid
    <3>2. QED
          BY <3>1, TargetNamed DEF NamedInv
  <2>2. named \subseteq Name
        BY <2>1, FoldedName DEF Resolved
  <2>3. QED
        BY <2>2 DEF TypeOK, LookupInv, ResultInv
<1>4. QED
      BY <1>1, <1>2, <1>3, LookupCorrect, NamedCorrect, PTL DEF Spec

--------------------------------------------------------------------------------
\* Whatever the lookup has found, the second query is about the schema asked for, or
\* about the path of a mongo table (client_rest.py:309-334, 411-457).
LEMMA ForeignNever ==
    ASSUME LookupInv,
           ListSchemas \/ ShowFiles \/ QueryTables \/ ProbeColumns \/ DescribeColumns
    PROVE  NothingForeign
<1> SUFFICES ASSUME request.schema \in DOMAIN catalog PROVE NothingForeign
    BY DEF NothingForeign
<1> USE CataloguesAssumption
<1> DEFINE tables == catalog[request.schema].tables
<1>1. catalog \in Catalogues /\ request \in Requests /\ Catalogue(catalog)
      BY DEF LookupInv
<1>2. Located(request.schema) = {request.schema}
      BY <1>1, LocatedItself
<1>3. CASE ListSchemas
      BY <1>3 DEF ListSchemas, Ask, NothingForeign, Returns
<1>4. CASE ShowFiles \/ QueryTables
  <2>1. request.op = "list_tables" /\ Target.schema = request.schema
        BY <1>4 DEF ShowFiles, QueryTables, Ask, Target
  <2>2. result' \subseteq DOMAIN tables
    <3>1. CASE ShowFiles
          BY <1>2, <2>1, <3>1 DEF ShowFiles, Return, Capped
    <3>2. CASE QueryTables
          BY <2>1, <3>2 DEF QueryTables, Return, Capped, Registered
    <3>3. QED
          BY <1>4, <3>1, <3>2
  <2>3. QED
        BY <2>1, <2>2 DEF NothingForeign, Returns
<1>5. CASE ProbeColumns \/ DescribeColumns
  <2>1. request.op = "describe_table" /\ stage = "ask" /\ Permitted
        BY <1>5 DEF ProbeColumns, DescribeColumns, Ask, LookupInv
  <2>2. /\ request.schema \in Name /\ request.schema # <<>> /\ request.table \in Name
        /\ request.table # <<>> /\ Len(request.table) \in Nat
        BY <1>1, <2>1, RequestFields DEF Permitted, Valid, Name
  <2>3. ASSUME ~(type = "mongo" /\ Len(request.table) > 1), stage' = "returned", result' # {}
        PROVE  request.table \in DOMAIN tables /\ result' = tables[request.table]
    <3>1. Len(request.table) > 0
      <4>1. ASSUME NEW name \in Seq(Components), name # <<>> PROVE Len(name) > 0
            BY <4>1
      <4>2. QED
            BY <2>2, <4>1 DEF Name
    <3>2. ~(type = "mongo" /\ Len(request.table) # 1)
      <4>1. \A k \in Nat : k > 0 /\ ~(k > 1) => k = 1
            OBVIOUS
      <4>2. QED
            BY <2>2, <2>3, <3>1, <4>1, Zenon
    <3>3. Target.schema = request.schema /\ Target.table = request.table
          BY <2>2, <3>2, TargetNamed
    <3>4. CASE ProbeColumns
          BY <1>2, <2>3, <3>3, <3>4 DEF ProbeColumns, Return
    <3>5. CASE DescribeColumns
          BY <1>2, <2>3, <3>3, <3>5 DEF DescribeColumns, Return
    <3>6. QED
          BY <1>5, <3>4, <3>5
  <2>4. QED
        BY <2>1, <2>3 DEF NothingForeign, Returns
<1>6. QED
      BY <1>3, <1>4, <1>5

\* list_tables and describe_table answer as one look at the catalogue would, as
\* long as the lookup could see the schema and its type is kept; and with nothing
\* of another schema or table if not (client_rest.py:264-334, 460-489).
THEOREM AnswersOfOneMomentCorrect == Spec => AnswersOfOneMoment
<1> DEFINE Right == /\ SchemasOfOneMoment /\ TablesOfOneMoment /\ ColumnsOfOneMoment
                    /\ NothingForeign
<1>1. LookupInv /\ [Next]_vars => [Right]_vars
  <2> SUFFICES ASSUME LookupInv, Next PROVE Right
      OBVIOUS
  <2> USE CataloguesAssumption
  <2>1. /\ catalog \in Catalogues /\ Catalogue(catalog)
        /\ IsFiniteSet(DOMAIN catalog)
        /\ \A s \in DOMAIN catalog : IsFiniteSet(DOMAIN catalog[s].tables)
        BY DEF LookupInv, Catalogue, Entry
  <2>2. ASSUME stage = "ask", request.op # "list_schemas", Recognised
        PROVE  /\ catalog[request.schema].type = type /\ Located(request.schema) = {request.schema}
               /\ request.op = "describe_table" => type # "http"
    <3>1. Known /\ request.schema \in DOMAIN catalog /\ request.schema # <<>>
          BY <2>1, <2>2 DEF LookupInv, Recognised, Catalogue
    <3>2. SamePlugin(request.schema, request.schema)
          BY <3>1 DEF SamePlugin
    <3>3. QED
          BY <2>1, <2>2, <3>1, <3>2, LocatedItself DEF Known, Recognised
  <2>3. CASE Start \/ LookUpType \/ QueryFails \/ Change
        BY <2>3 DEF Start, LookUpType, QueryFails, Change, Returns, SchemasOfOneMoment,
                    TablesOfOneMoment, ColumnsOfOneMoment, NothingForeign, Endings,
                    LookupInv
  <2>4. CASE ListSchemas
    <3>1. PICK listed \in Capped(DOMAIN catalog) : result' = {s \in listed : Visible(s)}
          BY <2>4 DEF ListSchemas, Return
    <3>2. Cardinality(DOMAIN catalog) <= RowCap => listed = DOMAIN catalog
          BY <2>1, <3>1, CappedWhole
    <3>3. request.op = "list_schemas"
          BY <2>4 DEF ListSchemas, Ask
    <3>4. QED
          BY <2>4, <3>1, <3>2, <3>3, ForeignNever
           DEF Returns, SchemasOfOneMoment, TablesOfOneMoment, ColumnsOfOneMoment
  <2>5. CASE ShowFiles \/ QueryTables
    <3>1. request.op = "list_tables" /\ stage = "ask" /\ Target.schema = request.schema
          BY <2>5 DEF ShowFiles, QueryTables, Ask, Target
    <3>2. ASSUME Recognised, Cardinality(DOMAIN catalog[request.schema].tables) <= RowCap
          PROVE  result' = DOMAIN catalog[request.schema].tables
      <4> DEFINE tables == DOMAIN catalog[request.schema].tables
      <4>1. /\ request.schema \in DOMAIN catalog
            /\ catalog[request.schema].type = type
            /\ Located(request.schema) = {request.schema}
            BY <2>2, <3>1, <3>2 DEF Recognised
      <4>2. result' \in Capped(tables)
        <5>1. CASE ShowFiles
              BY <3>1, <4>1, <5>1 DEF ShowFiles, Return
        <5>2. CASE QueryTables
          <6>1. type # "file" /\ result' \in Capped(Registered(request.schema))
                BY <3>1, <5>2 DEF QueryTables, Return
          <6>2. {s \in DOMAIN catalog : s = request.schema /\ catalog[s].type # "file"}
                    = {request.schema}
                BY <4>1, <6>1
          <6>3. Registered(request.schema) = tables
                BY <6>2 DEF Registered
          <6>4. QED
                BY <6>1, <6>3
        <5>3. QED
              BY <2>5, <5>1, <5>2
      <4>3. QED
            BY <2>1, <3>2, <4>1, <4>2, CappedWhole
    <3>3. QED
          BY <2>5, <3>1, <3>2, ForeignNever
             DEF Returns, SchemasOfOneMoment, TablesOfOneMoment, ColumnsOfOneMoment
  <2>6. CASE ProbeColumns \/ DescribeColumns
    <3> DEFINE entry == catalog[request.schema]
    <3>1. request.op = "describe_table" /\ stage = "ask" /\ request \in Requests /\ Permitted
          BY <2>6 DEF ProbeColumns, DescribeColumns, Ask, LookupInv
    <3>2. /\ request.schema \in Name /\ request.schema # <<>> /\ request.table \in Name
          /\ request.table # <<>>
          BY <3>1, RequestFields DEF Permitted, Valid
    <3>3. ASSUME Recognised, stage' = "returned", entry.type = "mongo" => Len(request.table) = 1
          PROVE  IF request.table \in DOMAIN entry.tables
                 THEN result' = entry.tables[request.table]
                 ELSE entry.type \notin DynamicTypes \cup {"http"}
      <4>1. /\ entry.type = type /\ type # "http"
            /\ Located(request.schema) = {request.schema}
            BY <2>2, <3>1, <3>3
      <4>2. Target.schema = request.schema /\ Target.table = request.table
            BY <3>1, <3>2, <3>3, <4>1, TargetNamed
      <4>3. CASE ProbeColumns
            BY <3>3, <4>1, <4>2, <4>3 DEF ProbeColumns, Return
      <4>4. CASE DescribeColumns
            BY <3>3, <4>1, <4>2, <4>4 DEF DescribeColumns, Return
      <4>5. QED
            BY <2>6, <4>3, <4>4
    <3>4. QED
          BY <2>6, <3>1, <3>3, ForeignNever
             DEF Returns, SchemasOfOneMoment, TablesOfOneMoment, ColumnsOfOneMoment
  <2>7. QED
        BY <2>3, <2>4, <2>5, <2>6 DEF Next
<1>2. QED
      BY <1>1, LookupCorrect, PTL DEF Spec, AnswersOfOneMoment
================================================================================
