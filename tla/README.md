# A TLA+ model of drill-mcp

drill-mcp is an MCP server for Apache Drill: a process that serves one MCP
client over stdio, checks the SQL that a model submits, and passes it to Drill
over REST or JDBC. This directory models it in TLA+, checks the models with TLC
and proves the main theorems with TLAPS. Line numbers are those of the
repository's files under `drill_mcp/` unless another path is given.

## The system

| component | state | operations |
|---|---|---|
| REST transport and session (`client_rest.py:495-584`) | `_authenticated`, the cookie jar of the one `httpx.Client`; shared by all worker threads, no lock | `_request`, `_login`, `_transport_error`, `close` |
| REST queries and management (`client_rest.py:588-667`) | none | `query`, `storage_plugins`, `cluster_status`, `profiles`, `profile`, `cancel_query` |
| JDBC backend (`client_jdbc.py`) | a connection and a cursor per call | `_connect`, `query`, `_scrub` |
| metadata (`client_rest.py:264-489`) | none; several queries per call over Drill's changing catalogue | `fetch_plugin_type`, `fetch_schemas`, `fetch_tables`, `fetch_columns` |
| SQL policy guard (`guard.py`) | none; the policy is fixed at start | `check`, `matches_prefix`, `is_show_command` |
| tools (`server.py:63-262`) | none of their own | nine tools, `run_query` first |
| configuration (`config.py`) | none after start | `load_config`, `_check_consistency` |
| redaction (`redact.py`) | none | `redact` |
| start-up (`server.py:265-349`) | none | `main`, `build_client`, `build_server` |
| release scripts (`dev-support/release/`) | files | two shell scripts |

A `tools/call` arrives in the MCP SDK, which runs the tool on a worker thread;
so several calls are in progress together. `run_query` asks the guard, then the
backend, then filters and caps the rows. Metadata tools send fixed SQL through
the same backend. All REST calls meet in `RestClient._request`; JDBC calls share
nothing. Drill, the driver, httpx, sqlglot and the MCP SDK are external.

What is hard here, and what makes each part correct:

* **Session.** Threads race on an unguarded flag and on the jar; sessions
  expire, logins are lost, answers come late. Correct: no request without a
  granted session, no second run of a request because of the retry, one re-login
  enough to recover, every call ends.
* **JDBC.** Every driver call may raise, at any moment. Correct: connection and
  cursor are released in order, and the ending tells the truth about the
  statement.
* **Guard and run_query.** Spelling, nesting and several targets against two
  lists of prefixes; rows filtered after the fact. Correct: Drill is never made
  to change or look into what the lists exclude, no plain statement is refused for
  anything else, nothing hidden is listed, and "not truncated" means complete.
* **Metadata.** A plugin type read in one query decides what the next one is,
  while others change the catalogue; the first rows of an unordered query, a cap
  whose truncation mark is dropped. Correct: an answer is what one look at the
  catalogue would have shown, rows are sampled only where nothing else can answer,
  no hidden schema is asked about.
* **Management tools.** Two requests merged into one answer, a slice taken before
  a filter, a comparison before or after redaction, and names spelled in many
  ways. Correct: nothing under a hidden name is returned, nothing else is left out,
  and what one tool lists another one can fetch.
* **Configuration and start-up.** Three sources that override each other field by
  field, and checks that come after the merge. Correct: the last source wins,
  refusals are for faults of the merged values, and a server that runs has what
  the rest of the code takes for granted.
* **Redaction.** Nested values and several secrets in one text. Correct: all
  secrets go, and nothing else does.
* **Concurrent tools.** Calls of one or two requests over the one session. Correct:
  Drill runs only what the policy permits, and the ending of a call tells what
  Drill has run for it.

## Modules

| module | models | extends / instantiates |
|---|---|---|
| `AtMostOnce` | what a backend promises about one request (abstract) | |
| `RestSession` | `_request` and `_login`, concurrent calls, Drill and the network | `Promise == INSTANCE AtMostOnce` |
| `JdbcQuery` | `JdbcClient.query`, `_connect` | `Promise == INSTANCE AtMostOnce` |
| `JdbcQueryProofs` | theorems about it | `JdbcQuery`, `TLAPS` |
| `Names` | dotted names, `matches_prefix`, and how Drill resolves a name | |
| `NamesProofs` | the two agree | `Names`, `TLAPS` |
| `Guard` | `guard.py` as operators on parsed texts | `Names` |
| `RunQuery` | `DrillTools.run_query` with the backends' `query` | `Guard` |
| `RunQueryProofs` | theorems about both | `RunQuery`, `NamesProofs`, `FiniteSetTheorems` |
| `Catalog` | `list_schemas`, `list_tables`, `describe_table` with the `fetch_*` functions | `Names` |
| `CatalogProofs` | theorems about it | `Catalog`, `NamesProofs`, `FiniteSetTheorems` |
| `Management` | the five management tools, with Drill's queries and cluster changing | `Names` |
| `ManagementProofs` | theorems about it | `Management`, `NamesProofs`, `FiniteSetTheorems` |
| `ConfigLoad` | `main`, `_parse_args`, `load_config`, `Config`, `build_client` | |
| `ConfigLoadProofs` | theorems about it | `ConfigLoad`, `TLAPS` |
| `Redact` | `redact`, `_scrub_value` | |
| `RedactProofs` | theorems about it | `Redact`, `SequenceTheorems`, `WellFoundedInduction` |
| `ToolPromise` | what one tool call promises about its requests (abstract) | |
| `Server` | the nine tools over one `RestClient`, as `build_server` puts them together | `RestSession`, `Guard`, `Promised == INSTANCE ToolPromise` |
| `ServerProofs` | theorems about `RestSession` and `Server` | `Server`, `NamesProofs` |
| `MC*` | small instances for TLC | |

An operator named `X_Something` next to `X` is a plausible bug in `X`. It is used
by nothing; a property is expected to fail when it takes the place of `X`.

### AtMostOnce

One request, named by its call: `outcome` is what its caller knows ("open",
"done", "refused", "lost"), `effects` how often Drill has run it. "done" implies
exactly one run, "refused" none ever, "lost" at most one, perhaps still to come.
Both backends are shown to implement it. For REST, `returned` and `drillError`
(an answer of Drill's own, whose error text is passed on) are "done", the two
authentication errors are "refused", a transport error is "lost". For JDBC an
exception after the connection was made is "lost".

A limit of this reading: it counts a Drill answer with an HTTP status of 400 and
above as one run of the request, whatever Drill's error was.

### RestSession

`authenticated` and `jar` are the two shared pieces of state; `pc[c]` and
`retrying[c]` are the position of call `c` in `_request` and `_login`. A step
makes one access to shared state: the test of the flag (566), the flag raised by
`_login` in the modes without a login form (521-523), the POST
leaving with the jar's cookie (525), the cookie of its answer entering the jar,
the flag being raised (552), the request leaving (569, 573), its answer being
tested and the flag lowered (570-571). Switching threads inside one of these is
not visible in the state. A DrillError from `_login` inside the `try` of
`_request` is no `httpx.HTTPError`, so it ends the call at once.

`wire[c]` and `reply[c]` are what is on its way. `TransportFailure` is any
`httpx.HTTPError`, a timeout included: the message may be lost or still arrive,
and an answer that comes later is dropped. Drill grants and refuses logins,
executes or denies requests, and forgets sessions at any time (`Expire`: idle
time-out, restart, replacement). Identifiers of sessions nobody refers to are
used again for fresh ones, and a call's name for its next call, so the model has
no counter to bound.

Assumed of Drill: a request whose session is unknown is answered with 401.
A server that answered with a 200 login page would never trigger line 570.
Only a granted login changes the jar: a cookie that comes with a refused login or
with an API answer is not modelled, nor are redirects, the pool limit (whose
time-out is one more transport failure) and `close`, which nothing calls.

`disturbed` is history for `QuietCallsSucceed`: the calls whose own message was
lost or refused, all calls running when a session ended, and a call that began
while such a call was still running. The last clause is needed: the login of an
earlier call can be answered late, and put its cookie, of a session that has
ended since, over a newer one in the jar. The call that finds it there may then
get its second 401 with no fault of its own.

### JdbcQuery

The steps are the calls into the driver, each of which may raise, and the two
exits of `closing`. `submitted` is a statement the driver has and Drill has not
run yet. An exception in `close` replaces an earlier result or exception and
still passes through the outer `closing`. There is no timeout on this path (see
`docs/configuration.md`), so no liveness is claimed.

### Guard and RunQuery

A text is what sqlglot makes of it: how many EXPLAINs stand in front, the kind of
statement, and the names it contains (see the header of `Guard`). `CheckAt` is
`_check` at one depth of the recursion, `Check` the conjunction over all depths;
all refusals are a `PolicyError`, so their order does not matter. Names are
sequences of components and `Lower` folds case, as `matches_prefix` does.

Of a table's name the guard sees its first two parts (`_schema_prefix`: catalog and
db); sqlglot puts all others into the table's own place. So a table is its schema
and how many components of it are `seen`: the first two parts, or more if a part is
quoted as a whole with dots inside. Drill resolves all components. `Short` are the
entries that cannot be missed for this reason, those of up to two components, and
`KeptFrom` the hidden entries that the guard keeps a text away from: all of them for
a command or an explained text, whose words it searches, the short ones for a plain
statement. The properties are about these; `HiddenAtAnyDepth` says what the
documentation does, and does not hold.

The regular expression over a command's text is reduced to membership in the set of
its words; the words of the syntax itself (PLAN, FROM, ...) are not in that set,
nor are components with characters that break a word.
A `CREATE` has targets and sources but no statement embedded in its query: the
guard looks for embedded writes in reads only, and Drill's grammar has none.

Drill is taken at its worst: it may run any write and read that a text names,
also in a text that does not parse for sqlglot, has several statements, or is
explained only. So the properties rest on the guard and not on Drill's grammar.

`RunQuery` follows one call: guard, effective cap, the backend's `query`, the
filter of SHOW rows, the second cap. A query that fails may have been run, or be run
later (`RunsLate`). `DrillTools` has no state that a call
changes, so calls do not affect each other here and the call ends where the tool
returns; that is why deadlock is not checked. A row is its first value, and a set
of rows the set of their positions in Drill's answer.

### Catalog

One call of a metadata tool. `Start` is what is refused before any query,
`LookUpType` the query of `fetch_plugin_type` with the loop over its rows, and the
next action the query that the type selects: `ShowFiles`, `QueryTables`,
`ProbeColumns` or `DescribeColumns` (`ListSchemas` sends one query only).
Between any two of these `Change` replaces the catalogue by another one, so the
tables, the schemas and the plugin may be gone or be something else.

Of Drill it is assumed that all schemas of a plugin have the plugin's type, that
names are resolved without regard to case but compared exactly in a `WHERE`, that
file plugins are absent from `INFORMATION_SCHEMA.TABLES` (the code's own comment
at 305), and that a capped query returns any of its rows. Where the code says that
DESCRIBE cannot answer, it may answer with nothing.

`named` and `sampled` are history: what a query named as its schema, and of which
schema a row was read. `steady` and `whole` say whether the premise of the lookup
still holds: the schema has kept its type, and the lookup was given every schema.
Without the first no call in two queries can be right; without the second see
below, where documentation and code differ. What holds without either is
`NothingForeign`, the last part of `AnswersOfOneMoment`: the answer may be empty or
short but is of no other schema or table. A name in another case than the catalogue's is looked up in vain and
treated like an unknown one, so `AnswersOfOneMoment` speaks of exact names only.

Left out: the types and the nullability of what is listed, the `.view.drill`
suffix (an entry stands under the name that is reported), the order of lists, and
tables with more columns than the cap.

### Management

Drill has numbered queries that begin and end, each with a text, and a cluster
with a version. `call` is the last tool call and its result, `listing` the last
answer of `list_profiles` with what Drill had at that time. Each tool is one action
except `cluster_status`, whose two requests are `AskCluster` and `AskStatus`; the
cluster and the queries may change between them, and either may fail (`Fails`).

A query text is a sequence of items: a name spelled out, a name whose components are
quoted one by one, the beginning of a secret query parameter, an `&`. `Occurs` is the
substring test of `_profile_mentions_hidden_schema` on these: case folded, at any
place, also inside a longer word (the constant `Within`), but not across quotes.
`list_profiles` applies it to what `redact` leaves of the text (`Scrubbed`),
`get_profile` to the text itself. It does so if the body is an object, as Drill's
profiles are; any other JSON body is returned without a comparison (`isObject`).

Of Drill it is assumed that each of the two lists of `/profiles.json` has the newest
query first. The endings of a tool are reduced: an argument of a wrong type,
the JDBC backend, a malformed id and any error of the transport are one `toolError`.

### ConfigLoad

The sources are chosen at the start and then fixed; `values` is the dictionary of
`load_config`, and each step of `main`, `_parse_args`, `load_config` and
`build_client` that can end the program is an action. A value is its kind after
YAML, argparse or the environment has read it, and its spelling; `NumberOf` is
`int()` on the spellings that are numerals. `serving` is the `run()` of a server
that was built. `Said` and `Faulty`, in the properties, define precedence and
validity on the sources directly, not along the steps.

The behaviour ends where the program ends or serves; deadlock is not checked.

### Redact

A value is a tree of dicts, lists, tuples, texts and scalars: a node for each path of
keys and positions. Which keys are sensitive is a parameter. `todo` are the paths to
the values that a call of `redact` is still to be made for, `returned` the part of
the result that is there; `Redact(path)` is one such call, with the comprehension
over its items. Python makes the calls depth first; the model leaves their order
open, since none of them looks at another's result. The behaviour ends where nothing
is left to do, so deadlock is not checked.

A text is a sequence of the pieces that the two regular expressions tell apart, and
`Matching` is the scan of `_QUERY_SECRET.sub` from left to right. A piece that is
taken out leaves its place empty, so that a property can say of each piece where it
is. The pieces are complete matches or not part of any: a text in which a
user-and-password pair reaches over the name of a parameter is not in the model.

Nothing is said of a second application. The code makes none, and it could find
more: in `http://a?password=x/y&b:z@` the first one takes out the slash that kept the
other pattern from matching.

### Server and ToolPromise

`Server` composes `RestSession` and `Guard`: a tool call `c` is refused at once
(`Admitted`: the type or form of its arguments, the guard for SQL, the hidden
schemas for a schema), or makes its one or two requests (`Requests`) one after the
other, each as a call of `RestSession` with the same name. `list_tables` and
`describe_table` look up the plugin's type first, `cluster_status` asks twice. A
tool ends with the first request that raises, or with an answer it cannot use.
`Transport` is every step of `RestSession` but `Begin`, which only the tools take;
`ran` adds up what Drill has run for a call over its requests.

`ToolPromise` is what a client may conclude. "refused": Drill ran nothing for the
call; "done": exactly its answered requests, each once; "failed": likewise, and
Drill will run nothing more for it; "lost" (a broken connection or a timeout): the
last request may have run or may still do so, the ones before it have run once.
`EndingsAreTrue` says this of each state, with the number of requests that a tool
makes.

`StepsLeft` and `ToolStepsLeft` count the steps of its own thread that a call has
still to take at most: 11 for a request with its one retry, 12 for each request of a
tool with the step that begins or ends it. `StepsRunOut` and `ToolStepsRunOut` say
that such a step always lowers the count, which stays a natural number, and that no
step of anybody else raises it.

What the requests and the results contain is in `RunQuery`, `Catalog` and
`Management`, which are not repeated here; the JDBC backend shares nothing between
calls and is in `JdbcQuery`.

## Runs

| run | instance | shows |
|---|---|---|
| `session_basic` | 3 calls, 4 sessions, `basic` | `TypeOK`, `NeverAnonymous`, `QuietCallsSucceed`, `KeepsPromise`, `StepsRunOut` |
| `jdbc` | 2 calls | `TypeOK`, `NothingLeftOpen`, `CursorInsideConnection`, `KeepsPromise` |
| `run_query` | 956 texts, 6 policies, 4 arguments, 5 answers | `TypeOK`, `OnlyWritableChanged`, `HiddenStaysUnread`, `RefusedForAReason`, `HiddenNotListed`, `NothingMissing`, `WithinCap` |
| `catalog` | 55 catalogues, 29 requests, 3 hidden lists, cap 3 | `TypeOK`, `HiddenStaysUnnamed`, `AnswersOfOneMoment`, `SamplesOnlyDynamic` |
| `table_identifier` | the same | a violation: `TableIsOneIdentifier` |
| `tool_error_only` | that of `run_query` | a violation: `OnlyToolErrors` |
| `hidden_any_depth` | that of `run_query` | a violation: `HiddenAtAnyDepth` |
| `management` | 2 queries, 6 texts, 3 hidden lists, 4 limits, 1 change of the cluster | `TypeOK`, `HiddenPluginsOmitted`, `HiddenTextNotShown`, `ListingComplete`, `ListedCanBeFetched`, `ClusterStatusInOrder` |
| `config` | 60 files, 54 environments, 36 command lines, with and without the kerberos extra | `TypeOK`, `ServingIsConfigured`, `LastSourceWins`, `RefusedForAFault` |
| `redact` | every text of up to 5 pieces, values nested up to three deep | `TypeOK`, `ShapeKept`, `OnlySecretsGone` |
| `server` | 3 calls, 1 session, `kerberos`, 5 kinds of tool call | `ServerTypeOK`, `OnlyPermittedChanges`, `EndingsAreTrue`, `RecoveryOnlyInBasicMode`, `KeepsToolPromise` |
| `server_ends` | 2 calls of 2 requests, 2 sessions, `basic`, fairness | `EveryToolCallEnds`, `ToolStepsRunOut` |

Bounds. Three calls are one that is slow, one that disturbs it, and one that
begins later; four sessions let each have its own, with one in the jar (with
fewer, `FreshSessions` would block a login and hide behaviours). Two calls are
enough for liveness, where the danger is two calls undoing each other's login,
and symmetry is not used there. JDBC calls share nothing, so a second one only
shows that. The texts have up to two tables, which is what "some but not all"
needs, and 0, 1, 5 and 6 EXPLAINs, the values around the limit of 5; the answers
are shorter than, equal to and longer than the cap of 2. The policies have a
plugin with a hidden workspace inside, entries in the other case, the empty
entry that YAML allows, and a schema of three components that is hidden or
writable; the texts name that schema quoted part by part and as a whole.

The catalogues have up to four schemas of three plugins, one plugin named like a
schema of another one, each plugin with a type that registers its columns or one
that does not, and schemas that are empty, below and above the cap of 3, which
stands for 10 000. Every catalogue may follow every other one.

Two queries of `Management` are enough for an order and for one to be hidden or cut
off by a limit of 1; the limits are negative, zero, below and equal to their number;
the texts name a hidden schema with dots, in quotes, behind a secret parameter and
behind its end, or are a longer word; one change of the cluster falls before,
between or after the two requests.

The files, environments and command lines contradict each other in each kind of
field: numbers (as a numeral, a text, a boolean, zero, no number), choices, texts
(also empty, also null) and lists, and each pair of fields that
`_check_consistency` relates is split between sources.

The values of `redact` are nested up to three deep with a sensitive key at each
level, and the texts up to five pieces, which is a secret parameter, what it
swallows, what ends it, and a second one after or inside of it.

The tools are checked in two instances. `server` is in a mode without a login form,
where the session cookie plays no part and three calls are affordable; its five
kinds of call are one for each outcome of `Admitted` and each number of requests.
`server_ends` is in `basic` mode, where a request may log in again while another
call does, with the longer kind of call only, which has most occasions to be held up
or to be retried, and without symmetry; with two sessions a login may have to wait
for a free identifier, which is one more way for Drill not to answer. In `basic`
mode `OnlyPermittedChanges` and `KeepsToolPromise` are proved, not run.

Fairness. `FairServerSpec` has weak fairness of the steps of each calling thread,
inside `_request` and in the tool around it, and `TransportFailure` is one of them:
the operating system runs a thread that can run, and `timeout_seconds` (positive by
`ServingIsConfigured`) ends each wait. Drill and the network have no fairness. Nothing obliges a call to begin.

## Where documentation and code differ

Three documented statements the code does not keep are shown by runs:

* `tool_error_only`: `docs/tools.md:4-6` promises `ToolError` and no other exception.
  A JSON body of `/query.json` that is not an object raises `AttributeError` at
  `client_rest.py:595`, which `run_query` does not convert.
* `hidden_any_depth`: `docs/tools.md:123-124` says that a statement is rejected whose
  table references "resolve into a hidden schema", and `docs/configuration.md:80-82`
  has a schema of three parts among its examples. With `hidden_schemas:
  [dfs.tmp.secret]`, a SELECT from `dfs.tmp.secret.t` is permitted, because
  `_schema_prefix` keeps two parts of the name (`guard.py:262-263`); its EXPLAIN is
  refused, and so is the SELECT when the schema is quoted as a whole. A write is
  permitted likewise if `dfs` is writable. Hence `KeptFrom` in `OnlyWritableChanged`
  and `HiddenStaysUnread`.
* `table_identifier`: `docs/tools.md:245` says that a table name with a dot is one
  identifier. For a mongo plugin it is a path (`client_rest.py:411-419`, whose
  comment knows the limitation), so the query is about another schema than the one
  that was given and compared with `hidden_schemas`.

Others were met while modelling. No run is about them; the properties named here
say what holds in spite of them:

* The same two parts decide in `writable_plugins`: with the entry `dfs.tmp.secret`
  alone, CREATE TABLE `dfs.tmp.secret.t` is refused (`guard.py:221-232`), against
  `docs/configuration.md:80-82`. Hence `Short` in `RefusedForAReason`.
* `README.md:100-102` says the text behind an EXPLAIN is re-checked by the same
  rules. With `hidden_schemas: [dfs.secret]`, a SELECT from `dfs.tmp` is permitted and
  its EXPLAIN is refused, because a command is searched for the first component of
  each entry (`guard.py:282`); `SHOW TABLES IN dfs.tmp` is refused likewise. The error
  is on the safe side; `RefusedForAReason` is about texts without an EXPLAIN.
* `docs/tools.md:453-454` says that `get_profile` refuses a profile whose text names a
  hidden schema. A JSON body that is no object is returned without a comparison
  (`server.py:251`). Hence `isObject` in `HiddenTextNotShown`.
* `docs/tools.md:207-212` says that `list_tables` uses SHOW FILES for a file plugin,
  so that its workspaces do not look empty. `fetch_plugin_type` reads the first
  10 000 schemas in no order (`client_rest.py:282`) and does not look at the
  truncation mark; a file workspace beyond them has no type and is listed as empty.
  Hence `whole` in `AnswersOfOneMoment`.
* `docs/tools.md:4-6` again: a JSON scalar as the body of `/storage.json` raises
  `TypeError` in `list_storage_plugins` (`server.py:217`; the ending `crashed` of
  `Management`).
* `docs/tools.md:339-340` says that plugins backing a hidden schema are omitted. A
  plugin is omitted if its name lies under an entry; with `hidden_schemas:
  [dfs.secret]` the plugin `dfs` is returned (`server.py:218`). Hence `Under` in
  `HiddenPluginsOmitted`.
* `docs/tools.md:402-404` says that a profile whose text names a hidden schema is
  dropped. The configured spelling is looked for, and a text that quotes each
  component by itself does not contain it (`server.py:98-100`). Hence `plain` in
  `HiddenTextNotShown`.
* `docs/tools.md:387` says newest first. Running queries come first, however old
  (`client_rest.py:658`), as the parameter table at line 393 says. Hence `Before` in
  `ListingComplete`.
* `docs/configuration.md:27-30` says that an unknown key of the file is a
  `ConfigError`. A key that is no text makes `Config(**values)` raise `TypeError`,
  which nothing catches (`config.py:115`). `RefusedForAFault` says that no server
  is built from such a file.
* `config.py:23-24` and `docs/configuration.md:32-34` say that a server that starts
  is configured correctly. `url` is any text (an empty `DRILL_URL` overrides the
  file), and `jdbc_driver_path` is not looked at before the first call.
  `ServingIsConfigured` lists what does hold.
* `client_jdbc.py:96-97` says that `redact` passes a bare text through unchanged. It
  scrubs credentials in it (`redact.py:80-81`), as `OnlySecretsGone` says.

## Proofs

Every theorem holds for all values of the constants under the named assumptions
of the modules (`NoSession` is no session, the mode is one of three; `MaxRows`
positive; policies, texts, requests, answers and catalogues of their types, the
latter with one type per plugin; texts, plugins and limits of `Management`, and the
sources of `ConfigLoad`, of their shapes; the values of `Redact` trees whose inner nodes are
containers), which TLC evaluates in the runs.

* `ServerProofs`, the session. `ExchangeInv` is inductive by itself: a call, its message,
  its reply and `executed` agree; in particular a 401 implies that the request
  was not run, which is what makes the retry harmless. `TypeOK` and
  `RecoveryOnlyInBasicMode` follow. `CookieInv`, on top of it: a raised flag, or
  a program point from which the next step sends a request, implies a granted
  cookie in the jar; `NeverAnonymous` follows. It is inductive because the jar is
  written before the flag and never emptied. `RecoveryInv` says what a running
  call that no fault has hit may rely on: every granted answer still unread, by
  whichever call, is of a live session, so that any late write to the jar is
  harmless; after its own login the jar is live. `QuietCallsSucceed` follows.
  `PromiseKept` proves the refinement: each step is a step of `AtMostOnce` or
  changes neither outcome nor effect. `StepsRunOutCorrect` needs no more than the
  types: `ClientStepsForward` for the steps of the call itself, `OthersDoNotMove` for
  all others.
* `JdbcQueryProofs`. `CallInv` gives the state of both resources and of the
  statement at each program point; both safety properties and the refinement
  follow.
* `RunQueryProofs`. `MatchesPrefixMeaning` relates the guard's comparison, on the
  spelling, to what the lists mean to Drill, which folds case. `PrefixOfTable` (from `HeadMatches`) says
  that the two parts the guard sees lie above the table's schema and that an entry of
  two components at most which lies above the schema lies above them too;
  `CheckedCommand` (from `HeadOfMatch`) that a permitted command contains no hidden
  name at all. With these `CheckedWrites` and
  `CheckedReads` say what a permitted text can do; `PermittedInv` that only
  permitted texts reach Drill, and others are refused. Conversely `RefusedReads` and
  `RefusedWrites` give the reason for the refusal of a plain statement.
  `PolicyMonotone` compares two policies: the stricter one permits no more. `RowsInv`
  follows the rows through cap, filter and second cap. All seven properties follow.
* `CatalogProofs`. `LookupInv` says what the second query may rely on: as long as
  `steady` holds, every schema of the plugin has the type that the lookup found
  (`TypeFound`, from one type per plugin and any order of rows; `KnownStays`, under
  every change). With `LocatedPlugin` and `LocatedItself`, on how Drill resolves a
  name, `SamplesOnlyDynamic` and `AnswersOfOneMoment` follow; for its last
  part, `ForeignNever`, it does not matter what the lookup has found. `NamedInv` ties what
  was named to the arguments that were checked; `HiddenStaysUnnamed` and, with
  `ResultInv`, `TypeOK` follow.
* `ManagementProofs`. `TextInv` ties the listing and a fetched profile to the test
  that each has passed; with `HiddenNameOccurs` (a hidden name that is spelled out
  occurs as a piece of text, in any case) and `ScrubbedPart` (what redaction leaves is
  part of the text) `HiddenTextNotShown` and `ListedCanBeFetched` follow.
  `ListingComplete` rests on counting: `OldestQuery`, `OneMore` and `SliceIsShort` show
  that a slice by rank has no more members than its length. `OrderInv` says that the
  two bodies of `cluster_status` were read at versions in order;
  `ClusterStatusInOrder` follows.
* `ConfigLoadProofs`. `SourcesInv` and `StageInv` say what has been merged and what has
  been checked at each stage (`MergedIsSaid`: after the three updates a field has the
  value of the last source that says something of it). All four properties follow;
  so what `RunQuery` and `RestSession` assume of the configuration holds in every
  server that runs.
* `ServerProofs`, the tools. `UsesSession` shows that the tools begin a request only as
  `RestSession` allows, so every theorem about the session carries over to tools of
  two requests (`QuietToolsSucceed`). `ToolInv` says that a request on its way belongs
  to an admitted call that is open or lost, and that until then `ran` is the answered
  requests and the one in progress if Drill has run it; `OnlyPermittedChanges` and the
  refinement `ToolPromiseKept` follow. `EndingsAreTrueCorrect` uses the refinement:
  `PromiseMeaning` is proved of `ToolPromise` alone. `ToolStepsRunOutCorrect` adds up
  the steps of the requests: the second one is paid for by the answer to the first.
* `RedactProofs`. `RedactInv` says that the part of the result that is there is right
  and that each kept path without a node lies at or below one in `todo`
  (`ParentPath`: a path is secret if the path before its last step is, or its last key
  is). `NothingMissing` then takes a shortest path without a node, whose parent would
  have none either. `MatchingIsOpen` shows by the same principle, least counterexample
  over the places of a text, that the scan from left to right is inside of a match
  exactly after the name of a secret with no "&" behind it; `ScrubbedText` and all
  three properties follow. `Least` is that principle, from the well-foundedness of <.

Model-checked only: `EveryToolCallEnds`, because liveness under fairness is out of the
prover's reach, and the violations. What is proved of the former is the part that does
not depend on a scheduler, `StepsRunOut` and `ToolStepsRunOut`: a call whose thread is
run often enough ends.

## Plan

Done: the session, JDBC, the guard with `run_query`, the metadata tools, the
management tools, configuration and start-up, redaction, and the composition of
concurrent tools over one session.

What could follow: proofs that tie `RunQuery` and `Management` to `Server` by a
refinement, so that results as well as effects are composed; `QuietCallsSucceed`
with a jar that other answers may write as well.

## Not modelled

* The wording, truncation and scrubbing of error messages (`_error_text`,
  `_safe_url`, `JdbcClient._scrub`), URLs (`_jdbc_url`), type names
  (`_type_name`) and the quoting of identifiers character by character: conversions
  of single texts, which unit tests reach well.
* The types, nullability and view suffixes of listed tables and columns, and what
  else plugins and profiles contain.
* `RestClient.close`: nothing calls it.
* The release scripts: sequences of commands whose effects are other programs'.
* sqlglot, httpx, pydantic, PyYAML, the JDBC driver, the MCP SDK and Drill, beyond
  what the code has a branch for; tests, packaging and CI.
