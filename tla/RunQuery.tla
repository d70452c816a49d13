-------------------------------- MODULE RunQuery --------------------------------
(***************************************************************************)
(* DrillTools.run_query of drill_mcp/server.py: one call of the tool, from *)
(* the policy check over the backend's `query` to the payload.             *)
(*                                                                         *)
(* DrillTools holds nothing that a call changes and the policy is fixed    *)
(* when the process starts, so the behaviour is that of one call, for      *)
(* every policy and every pair of arguments.  Both backends treat the rows *)
(* alike, so `query` is one action here; what happens on the way to Drill  *)
(* is in RestSession and JdbcQuery.  Drill is external: it resolves names  *)
(* without regard to case, and is taken to be able to run every write and  *)
(* every read that a text names, in any statement, explained or not.       *)
(*                                                                         *)
(* A row is reduced to its first value; a set of rows of Drill's answer is *)
(* the set of their positions, which also keeps their order.               *)
(***************************************************************************)
EXTENDS Guard, Integers, FiniteSets

CONSTANTS
    Policies,   \* policies the process may be started with
    Texts,      \* SQL texts a model may submit
    Requests,   \* values of the max_rows argument
    NoRequest,  \* max_rows not given
    MaxRows,    \* config.max_rows
    Answers,    \* what Drill can answer: sequences of first values
    NoValue     \* a first value that is null, or a row without columns

ASSUME MaxRowsAssumption == MaxRows \in Nat \ {0}
ASSUME PolicyAssumption == Policies \subseteq Policy
ASSUME RequestAssumption == Requests \subseteq Int \cup {NoRequest} /\ NoRequest \notin Int
ASSUME AnswerAssumption == Answers \subseteq Seq(Name \cup {NoValue}) /\ NoValue \notin Name
ASSUME TextAssumption == \A text \in Texts : SqlText(text)

VARIABLES
    policy,     \* DrillTools._policy
    stage,      \* where the call is, or how it ended
    text,       \* the arguments of the call
    requested,  \*   (sql, max_rows)
    limit,      \* the effective cap of rows
    answer,     \* everything Drill has to say to the text
    rows,       \* positions of the rows that are left of it
    truncated,  \* QueryResult.truncated
    changed,    \* schemas the text has changed, and those it has read or named,
    read        \*   as Drill resolves them

vars == <<policy, stage, text, requested, limit, answer, rows, truncated, changed, read>>
callVars == <<policy, text, requested>>

Endings == {"refused", "failed", "crashed", "returned"}

TypeOK ==
    /\ policy \in Policies
    /\ stage \in {"check", "query", "filter"} \cup Endings
    /\ text \in Texts
    /\ requested \in Requests
    /\ limit \in 1..MaxRows
    /\ answer \in Answers \cup {<<>>}
    /\ rows \subseteq 1..Len(answer)
    /\ truncated \in BOOLEAN
    /\ changed \subseteq Name
    /\ read \subseteq Name

Init ==
    /\ policy \in Policies
    /\ stage = "check"
    /\ text \in Texts
    /\ requested \in Requests
    /\ limit = MaxRows
    /\ answer = <<>>
    /\ rows = {}
    /\ truncated = FALSE
    /\ changed = {}
    /\ read = {}

EffectiveMaxRows_Trusting(n) == IF n = NoRequest \/ n <= 0 THEN MaxRows ELSE n

\* DrillTools._effective_max_rows.
EffectiveMaxRows(n) ==
    IF n = NoRequest \/ n <= 0 \/ n > MaxRows THEN MaxRows ELSE n

--------------------------------------------------------------------------------
(* Drill's side: external.  *)

\* What running a text can change, and what it can look at.
Writes(t) == Schemas(t.targets \cup t.embedded)
Reads(t) == Schemas(t.tables) \cup IF t.kind = "command" THEN Resolved(t.mentions) ELSE {}

--------------------------------------------------------------------------------
\* `check(sql, self._policy)`, then the effective cap.
CheckPolicy ==
    /\ stage = "check"
    /\ \/ /\ Check(text, policy)
          /\ stage' = "query"
          /\ limit' = EffectiveMaxRows(requested)
       \/ /\ ~Check(text, policy)
          /\ stage' = "refused"
          /\ UNCHANGED limit
    /\ UNCHANGED <<callVars, answer, rows, truncated, changed, read>>

Truncated_NextRow(n) == n > limit
\* `max_rows > 0 and len(rows) >= max_rows`, n being what the backend was sent.
Truncated(n) == n >= limit

\* The backend's `query`: Drill runs the text and answers.  Over REST it honours
\* autoLimit or not, over JDBC fetchmany stops at the limit.
Query ==
    /\ stage = "query"
    /\ stage' = "filter"
    /\ changed' = Writes(text)
    /\ read' = Reads(text)
    /\ answer' \in Answers
    /\ \E n \in {Len(answer'), IF limit < Len(answer') THEN limit ELSE Len(answer')} :
           /\ truncated' = Truncated(n)
           /\ rows' = {i \in 1..n : i <= limit}
    /\ UNCHANGED <<callVars, limit>>

\* The backend raises DrillError; Drill may have run the text all the same.
QueryFails ==
    /\ stage = "query"
    /\ stage' = "failed"
    /\ \/ changed' = Writes(text) /\ read' = Reads(text)
       \/ UNCHANGED <<changed, read>>
    /\ UNCHANGED <<callVars, limit, answer, rows, truncated>>

\* It may also do so only after the tool has failed, on a timeout for one.
RunsLate ==
    /\ stage = "failed"
    /\ changed' = Writes(text)
    /\ read' = Reads(text)
    /\ UNCHANGED <<callVars, stage, limit, answer, rows, truncated>>

\* Over REST, a body that is JSON but not an object has no `get`: an
\* AttributeError, which run_query does not catch.
PayloadNotAnObject ==
    /\ stage = "query"
    /\ stage' = "crashed"
    /\ changed' = Writes(text)
    /\ read' = Reads(text)
    /\ UNCHANGED <<callVars, limit, answer, rows, truncated>>

Visible_FailsOpen(value) == value = NoValue \/ ~MatchesPrefix(value, policy.hidden)
\* DrillTools._visible on _first_value: a value that cannot be read is dropped.
Visible(value) == value # NoValue /\ ~MatchesPrefix(value, policy.hidden)

\* The rows of a SHOW lose those named after a hidden schema.
Filtered ==
    IF policy.hidden # {} /\ IsShowCommand(text)
    THEN {i \in rows : Visible(answer[i])}
    ELSE rows

\* `rows[:limit]`, once more.
FirstRows(some) == {i \in some : Cardinality({j \in some : j <= i}) <= limit}

Reply ==
    /\ stage = "filter"
    /\ stage' = "returned"
    /\ rows' = FirstRows(Filtered)
    /\ UNCHANGED <<callVars, limit, answer, truncated, changed, read>>

Next ==
    CheckPolicy \/ Query \/ QueryFails \/ RunsLate \/ PayloadNotAnObject \/ Reply

Spec == Init /\ [][Next]_vars

--------------------------------------------------------------------------------
(* Properties. *)

\* Whatever the spelling, the quoting, the EXPLAINs in front and the number of
\* targets, and however deep they are nested, a text that reaches Drill changes
\* nothing outside writable_plugins.  It changes nothing in a hidden schema either,
\* if the text is explained or the entry has two components at most: of the target
\* of a plain statement the guard sees no more (guard.py:154-284).
OnlyWritableChanged ==
    \A schema \in changed :
        Under(schema, policy.writable) /\ ~Under(schema, KeptFrom(text, policy))

\* No text that reaches Drill looks into a hidden schema, by the name in a SHOW
\* or behind an EXPLAIN at any depth, by a table that a plain statement reads
\* if the entry has two components at most (guard.py:262-284).
HiddenStaysUnread == \A schema \in read : ~Under(schema, KeptFrom(text, policy))

\* Nor does the guard close more than the operator said: one statement without an
\* EXPLAIN that reads, creates or drops is refused only for what it would change, or
\* for a hidden schema it would look into; but an entry of writable_plugins of three
\* components or more need not count (guard.py:83-97, 186-235, 262-273).
RefusedForAReason ==
    stage = "refused" /\ text.explains = 0 /\ text.kind \in {"read", "create", "drop"} =>
        \/ text.embedded # {}
        \/ \E schema \in Reads(text) \cup Writes(text) : Under(schema, policy.hidden)
        \/ /\ text.kind # "read"
           /\ \/ text.object \notin {"TABLE", "VIEW"}
              \/ text.targets = {} \/ \E t \in text.targets : t.schema = <<>>
              \/ \E schema \in Writes(text) : ~Under(schema, Short(policy.writable))

\* What a SHOW returns names no hidden schema, and a row whose first value could
\* be one, because it cannot be read, is not returned either (server.py:153-155).
HiddenNotListed ==
    stage = "returned" /\ IsShowCommand(text) /\ policy.hidden # {} =>
        \A i \in rows :
            answer[i] # NoValue /\ \A name \in Resolved({answer[i]}) : ~Under(name, policy.hidden)

\* A result that is not marked truncated is everything Drill had to say, but for
\* the hidden rows of a SHOW, whether or not the backend's limit was honoured
\* (client_rest.py:595-602, client_jdbc.py:145-156, server.py:153-172).
NothingMissing ==
    stage = "returned" /\ ~truncated =>
        \A i \in (1..Len(answer)) \ rows :
            IsShowCommand(text) /\ ~Visible(answer[i]) /\ policy.hidden # {}

\* max_rows may lower the configured cap and never raise it (server.py:71-75).
WithinCap ==
    stage = "returned" =>
        /\ Cardinality(rows) <= MaxRows
        /\ requested # NoRequest /\ requested > 0 => Cardinality(rows) <= requested

(* Two statements of the documentation that the code does not keep.            *)

\* docs/tools.md:4-6: every tool raises ToolError and never another exception.
OnlyToolErrors == stage # "crashed"

\* docs/tools.md:123-124, with docs/configuration.md:80-82: no statement with a
\* table in a hidden schema reaches Drill, as deep as the schema may be nested.
HiddenAtAnyDepth == \A schema \in read : ~Under(schema, policy.hidden)
================================================================================
