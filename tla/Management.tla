------------------------------- MODULE Management -------------------------------
(***************************************************************************)
(* The management tools of drill_mcp/server.py with the RestClient methods *)
(* behind them: list_storage_plugins, cluster_status, list_profiles,       *)
(* get_profile and cancel_query.                                           *)
(*                                                                         *)
(* The tools keep nothing between calls, so the behaviour is a sequence of *)
(* calls while Drill, which is external, goes on: queries begin and end,   *)
(* the cluster changes.  A request is one step, taken at the moment Drill  *)
(* answers it; RestSession and Server say how it gets there.               *)
(*                                                                         *)
(* The text of a query is a sequence of items: a name spelled with dots    *)
(* ("plain"), a name whose components are quoted one by one ("quoted"),    *)
(* the beginning of a URL parameter that redact takes for a secret         *)
(* ("secret"), and "&", which ends such a parameter.                       *)
(***************************************************************************)
EXTENDS Names, Integers, FiniteSets

CONSTANTS
    Within,       \* Within[p]: components that p contains, in any case
    HiddenLists,  \* values of hidden_schemas the process may be started with
    Texts,        \* query texts
    MaxQueries,   \* bound: queries that begin
    MaxVersion,   \* bound: changes of the cluster
    Limits,       \* values of the limit argument
    Payloads,     \* JSON bodies of /storage.json: a set of entries, or Scalar,
    Scalar,       \*   a number or null;
    NoName,       \*   an entry that is an object without a name,
    NotADict      \*   and one that is no object

ASSUME WithinAssumption ==
    /\ Within \in [Components -> SUBSET Components]
    /\ \A p, q \in Components : Lower[p] = Lower[q] => p \in Within[q]
ASSUME HiddenAssumption == HiddenLists \subseteq SUBSET Name
ASSUME BoundAssumption == MaxQueries \in Nat /\ MaxVersion \in Nat /\ Limits \subseteq Int
Item == [kind : {"plain", "quoted", "secret", "&"}, name : Name]
ASSUME TextAssumption == Texts \subseteq Seq(Item) /\ <<>> \in Texts
ASSUME PayloadAssumption ==
    /\ {NoName, NotADict} \cap Name = {} /\ NoName # NotADict
    /\ \A payload \in Payloads \ {Scalar} : payload \subseteq Name \cup {NoName, NotADict}

\* Queries are numbered in the order in which they began.
Queries == 1..MaxQueries

VARIABLES
    hidden,    \* DrillTools._policy.hidden_schemas
    running,   \* Drill: queries in progress,
    finished,  \*   queries that have ended,
    text,      \*   their texts,
    version,   \*   and how often the cluster has changed
    call,      \* the last call of a tool: its name, how it ended, what it returned
    listing    \* the last answer of list_profiles, with what Drill had at the time

drillVars == <<running, finished, text, version>>
vars == <<hidden, drillVars, call, listing>>

Tools == {"list_storage_plugins", "cluster_status", "list_profiles", "get_profile",
          "cancel_query"}
Endings == {"answered", "toolError", "hidden", "crashed"}

Ended(tool, ending) == [tool |-> tool, ending |-> ending]
Idle == call.ending # "halfway"

Listing_Swapped(run, fin, limit, isObject) ==
    [running |-> fin, finished |-> run, limit |-> limit, isObject |-> isObject,
     drill |-> [running |-> running, finished |-> finished]]
\* list_profiles has returned `running` and `finished`, in this order and each
\* with the newest first, when Drill had the queries `drill`.
Listing(run, fin, limit, isObject) ==
    [running |-> run, finished |-> fin, limit |-> limit, isObject |-> isObject,
     drill |-> [running |-> running, finished |-> finished]]

Init ==
    /\ hidden \in HiddenLists
    /\ running = {} /\ finished = {}
    /\ text = [q \in Queries |-> <<>>]
    /\ version = 0
    /\ call = Ended("none", "answered")
    /\ listing = Listing({}, {}, 0, TRUE)

--------------------------------------------------------------------------------
(* Drill: external. *)

QueryBegins(q) ==
    /\ q \notin running \cup finished
    /\ \A p \in Queries : p < q => p \in running \cup finished
    /\ running' = running \cup {q}
    /\ \E t \in Texts : text' = [text EXCEPT ![q] = t]
    /\ UNCHANGED <<hidden, finished, version, call, listing>>

QueryEnds(q) ==
    /\ q \in running
    /\ running' = running \ {q}
    /\ finished' = finished \cup {q}
    /\ UNCHANGED <<hidden, text, version, call, listing>>

ClusterChanges ==
    /\ version < MaxVersion
    /\ version' = version + 1
    /\ UNCHANGED <<hidden, running, finished, text, call, listing>>

\* Running and finished queries are two lists of /profiles.json, each with the
\* newest first: what stands before q in the one list put after the other.
Before(q, run, fin) ==
    IF q \in run THEN {p \in run : p > q} ELSE run \cup {p \in fin : p > q}

--------------------------------------------------------------------------------
(* Query texts and hidden schemas. *)

\* `?token=` and the like swallow everything up to the next "&".
Erased(t, i) ==
    \E j \in 1..(i - 1) :
        t[j].kind = "secret" /\ \A k \in (j + 1)..i : t[k].kind # "&"

Items(t) == {t[i] : i \in DOMAIN t}
\* What is left of a text after redact.
Scrubbed(t) == {t[i] : i \in {j \in DOMAIN t : ~Erased(t, j)}}

Occurs_CaseSensitive(entry, item) ==
    \/ entry = <<>>
    \/ item.kind = "plain" /\ \E k \in 0..(Len(item.name) - Len(entry)) :
           \A i \in 1..Len(entry) : entry[i] = item.name[k + i]

\* `schema.lower() in query_text`: the entry as one piece of text, also inside a
\* longer word.  Quotes between the components are part of the text.
Occurs(entry, item) ==
    \/ entry = <<>>
    \/ item.kind = "plain" /\ \E k \in 0..(Len(item.name) - Len(entry)) :
           \A i \in 1..Len(entry) : entry[i] \in Within[item.name[k + i]]
    \/ item.kind = "quoted" /\ Len(entry) = 1 /\ \E i \in DOMAIN item.name :
           entry[1] \in Within[item.name[i]]

Mentions(items) == \E entry \in hidden, item \in items : Occurs(entry, item)

--------------------------------------------------------------------------------
(* The tools. *)

\* An argument of another type, a backend without the method, a query id that is
\* not well formed, a Drill that cannot be reached or answers with an HTTP error or
\* without JSON: a ToolError in every tool, and also halfway in cluster_status.
Fails ==
    /\ \E tool \in Tools :
           /\ Idle \/ tool = "cluster_status"
           /\ call' = Ended(tool, "toolError")
    /\ UNCHANGED <<hidden, drillVars, listing>>

VisiblePlugin_FailsOpen(plugin) == plugin = NoName \/ ~MatchesPrefix(plugin, hidden)
\* DrillTools._visible on the entry's name.
VisiblePlugin(plugin) == plugin # NoName /\ ~MatchesPrefix(plugin, hidden)

\* A comprehension over the body, which raises a TypeError if it is a scalar.
ListStoragePlugins ==
    /\ Idle
    /\ \/ /\ Scalar \in Payloads
          /\ call' = Ended("list_storage_plugins", "crashed")
       \/ \E payload \in Payloads \ {Scalar} :
              call' = [tool |-> "list_storage_plugins", ending |-> "answered",
                       plugins |-> {p \in payload \ {NotADict} : VisiblePlugin(p)}]
    /\ UNCHANGED <<hidden, drillVars, listing>>

\* The bodies of the two requests at one version of the cluster.  They share a
\* key; a body that is no object is put under a key of its own.
ClusterBody(isObject) ==
    IF isObject THEN [drillbits |-> version, shared |-> version] ELSE [cluster |-> version]
StatusBody(isObject) ==
    IF isObject THEN [status |-> version, shared |-> version] ELSE [status |-> version]

\* /cluster.json ...
AskCluster ==
    /\ Idle
    /\ \E isObject \in BOOLEAN :
           call' = [tool |-> "cluster_status", ending |-> "halfway",
                    cluster |-> ClusterBody(isObject)]
    /\ UNCHANGED <<hidden, drillVars, listing>>

Updated(old, new) ==
    [k \in DOMAIN old \cup DOMAIN new |-> IF k \in DOMAIN new THEN new[k] ELSE old[k]]

Merge_KeepsFirst(cluster, status) == Updated(status, cluster)
\* `merged.update(status)`
Merge(cluster, status) == Updated(cluster, status)

\* ... then /status.json, and the merged answer.
AskStatus ==
    /\ ~Idle
    /\ \E isObject \in BOOLEAN :
           call' = [tool |-> "cluster_status", ending |-> "answered",
                    cluster |-> call.cluster, status |-> StatusBody(isObject),
                    merged |-> Merge(call.cluster, StatusBody(isObject))]
    /\ UNCHANGED <<hidden, drillVars, listing>>

\* How many of n elements the slice [:limit] takes: from the end, if negative.
SliceLength(limit, n) == IF limit < 0 THEN n + limit ELSE limit

Clamped_Not(limit) == limit
\* `max(limit, 0)`
Clamped(limit) == IF limit < 0 THEN 0 ELSE limit

\* The slice of running and finished, before anything is filtered.
Taken(limit) ==
    LET n == Cardinality(running) + Cardinality(finished)
    IN  {q \in running \cup finished :
            Cardinality(Before(q, running, finished)) < SliceLength(Clamped(limit), n)}

Shown_RunningAlways(taken) ==
    {q \in taken : q \in running \/ ~Mentions(Scrubbed(text[q]))}
\* The filter works on the redacted profiles.
Shown(taken) == {q \in taken : ~Mentions(Scrubbed(text[q]))}

\* Of a body that is no object nothing is taken.
ListProfiles(limit) ==
    /\ Idle
    /\ call' = Ended("list_profiles", "answered")
    /\ \E isObject \in BOOLEAN :
           LET shown == Shown(IF isObject THEN Taken(limit) ELSE {})
           IN  listing' = Listing(shown \cap running, shown \cap finished, limit, isObject)
    /\ UNCHANGED <<hidden, drillVars>>

\* The text is compared before it is redacted; a body that is no object is returned
\* as it is, without a comparison.
GetProfile(id) ==
    /\ Idle
    /\ id \in running \cup finished
    /\ \E isObject \in BOOLEAN :
           call' = [tool |-> "get_profile", id |-> id, isObject |-> isObject,
                    ending |-> IF isObject /\ Mentions(Items(text[id]))
                               THEN "hidden" ELSE "answered"]
    /\ UNCHANGED <<hidden, drillVars, listing>>

\* The query may have ended already, end at once, or end later.
CancelQuery(id) ==
    /\ Idle
    /\ id \in running \cup finished
    /\ call' = [tool |-> "cancel_query", id |-> id, ending |-> "answered"]
    /\ \/ UNCHANGED <<running, finished>>
       \/ /\ id \in running
          /\ running' = running \ {id}
          /\ finished' = finished \cup {id}
    /\ UNCHANGED <<hidden, text, version, listing>>

Next ==
    \/ \E q \in Queries : QueryBegins(q) \/ QueryEnds(q) \/ GetProfile(q) \/ CancelQuery(q)
    \/ ClusterChanges
    \/ Fails \/ ListStoragePlugins \/ AskCluster \/ AskStatus
    \/ \E limit \in Limits : ListProfiles(limit)

Spec == Init /\ [][Next]_vars

--------------------------------------------------------------------------------
(* Properties. *)

Answered(tool) == call.tool = tool /\ call.ending = "answered"
Listed == listing.running \cup listing.finished

TypeOK ==
    /\ hidden \in HiddenLists
    /\ running \cup finished \subseteq Queries /\ running \cap finished = {}
    /\ text \in [Queries -> Texts]
    /\ version \in 0..MaxVersion
    /\ call.tool \in Tools \cup {"none"} /\ call.ending \in Endings \cup {"halfway"}
    /\ call.tool = "get_profile" /\ call.ending # "toolError" =>
           call.id \in Queries /\ call.isObject \in BOOLEAN
    /\ Listed \subseteq running \cup finished /\ listing.limit \in Int
    /\ listing.running \subseteq listing.drill.running
    /\ listing.finished \subseteq listing.drill.finished
    /\ listing.drill.running \cup listing.drill.finished \subseteq running \cup finished
    /\ listing.drill.running \cap listing.drill.finished = {}

\* No plugin is returned under a hidden name, in whatever case the operator and
\* Drill spell it, and none whose name cannot be read (server.py:102-110, 217-219).
HiddenPluginsOmitted ==
    Answered("list_storage_plugins") =>
        \A plugin \in call.plugins : plugin # NoName /\ ~Under(Folded(plugin), hidden)

\* Profiles that are objects, as Drill's are: a body of get_profile that is none is
\* returned without a look at hidden_schemas (server.py:251).
Shows(q) ==
    \/ q \in Listed
    \/ Answered("get_profile") /\ call.isObject /\ q = call.id

\* A name of a hidden schema that is spelled out in the text of a profile is not
\* returned with it, by neither tool, although the one compares before redact and
\* the other after it (server.py:236-253).
HiddenTextNotShown ==
    \A q \in Queries : Shows(q) =>
        \A item \in Scrubbed(text[q]) :
            item.kind = "plain" => ~Under(Folded(item.name), hidden)

\* An answer of list_profiles has at most `limit` profiles, and one that is missing
\* is filtered, or comes after `limit` others in Drill's lists; hidden ones take
\* places away and finished ones never from a running one (client_rest.py:650-658).
ListingComplete ==
    LET room == IF listing.limit > 0 THEN listing.limit ELSE 0
        drill == listing.drill
    IN  /\ Cardinality(Listed) <= room
        /\ listing.isObject =>
               \A q \in (drill.running \cup drill.finished) \ Listed :
                   \/ Mentions(Scrubbed(text[q]))
                   \/ Cardinality(Before(q, drill.running, drill.finished)) >= room

\* What list_profiles has listed get_profile returns, whatever Drill does between
\* the calls, unless redact has removed a part of the text (server.py:236-253).
ListedCanBeFetched ==
    call.ending = "hidden" /\ call.id \in Listed =>
        Scrubbed(text[call.id]) # Items(text[call.id])

\* cluster_status loses no key, a key of both bodies has the later value, and the
\* answer is of one moment if the cluster has not changed between the requests
\* (client_rest.py:636-648).
ClusterStatusInOrder ==
    Answered("cluster_status") =>
        LET first == call.cluster
            second == call.status
        IN  /\ DOMAIN call.merged = DOMAIN first \cup DOMAIN second
            /\ \A k \in DOMAIN second : call.merged[k] = second[k]
            /\ \A k \in DOMAIN call.merged :
                   \E early \in DOMAIN first : call.merged[k] >= first[early]
            /\ second["status"] = version /\ "drillbits" \in DOMAIN first
                   /\ first["drillbits"] = version =>
                      \A k \in DOMAIN call.merged : call.merged[k] = version
================================================================================
