--------------------------------- MODULE Server ---------------------------------
(***************************************************************************)
(* The server as build_server of drill_mcp/server.py puts it together for  *)
(* REST: nine tools over one RestClient.  Tool calls run at the same time; *)
(* each is refused, or makes its one or two requests to Drill one after    *)
(* the other through the session that all of them share (RestSession).     *)
(* The call c of RestSession is the request that the tool call c has in    *)
(* progress.  What the requests and the results contain is in RunQuery,    *)
(* Catalog and Management.                                                 *)
(***************************************************************************)
EXTENDS RestSession, Guard

CONSTANTS
    ToolCalls,  \* calls a client may make
    NoToolCall,
    InForce     \* the policy the process was started with

\* How many requests a tool makes, if nothing goes wrong.
Requests ==
    [run_query |-> 1, list_schemas |-> 1, list_tables |-> 2, describe_table |-> 2,
     list_storage_plugins |-> 1, cluster_status |-> 2, list_profiles |-> 1,
     get_profile |-> 1, cancel_query |-> 1]

ASSUME InForceAssumption == InForce \in Policy
\* Every call has all fields; its tool looks at some of them.
ASSUME ToolCallAssumption ==
    /\ NoToolCall \notin ToolCalls
    /\ \A j \in ToolCalls :
           /\ j.tool \in DOMAIN Requests
           /\ j.wellFormed \in BOOLEAN
           /\ j.schema \in Name
           /\ SqlText(j.text)

VARIABLES
    job,        \* job[c]: the tool call c
    stage,      \* stage[c]: what its client knows of it
    answers,    \* answers[c]: how many of its requests were answered
    ran         \* ran[c]: how often Drill has run one of its requests

toolVars == <<job, stage, answers, ran>>
serverVars == <<vars, toolVars>>

Size(c) == Requests[job[c].tool]

ServerTypeOK ==
    /\ TypeOK
    /\ job \in [Calls -> ToolCalls \cup {NoToolCall}]
    /\ stage \in [Calls -> {"new", "open", "refused", "done", "failed", "lost"}]
    /\ \A c \in Calls : stage[c] # "new" => job[c] \in ToolCalls /\ ran[c] <= Size(c)
    /\ answers \in [Calls -> 0..2]
    /\ ran \in [Calls -> 0..2]

ServerInit ==
    /\ Init
    /\ job = [c \in Calls |-> NoToolCall]
    /\ stage = [c \in Calls |-> "new"]
    /\ answers = [c \in Calls |-> 0]
    /\ ran = [c \in Calls |-> 0]

Admitted_UncheckedSql(j) ==
    j.wellFormed /\ j.tool \in {"list_tables", "describe_table"}
        => ~MatchesPrefix(j.schema, InForce.hidden)

\* What the tools test before their first request: the type or the form of the
\* arguments, the policy for SQL, the hidden schemas for a schema.
Admitted(j) ==
    /\ j.wellFormed
    /\ j.tool = "run_query" => Check(j.text, InForce)
    /\ j.tool \in {"list_tables", "describe_table"}
           => ~MatchesPrefix(j.schema, InForce.hidden)

\* A client calls a tool; c is free once Drill can no longer act on its last use.
Invoke(c, j) ==
    /\ stage[c] # "open"
    /\ wire[c] = Silence
    /\ \/ Admitted(j) /\ Begin(c) /\ stage' = [stage EXCEPT ![c] = "open"]
       \/ ~Admitted(j) /\ stage' = [stage EXCEPT ![c] = "refused"] /\ UNCHANGED vars
    /\ job' = [job EXCEPT ![c] = j]
    /\ answers' = [answers EXCEPT ![c] = 0]
    /\ ran' = [ran EXCEPT ![c] = 0]

NextRequest_AfterAnyEnding(c) ==
    /\ stage[c] = "open"
    /\ pc[c] \in {"returned", "unreachable"}
    /\ answers[c] + 1 < Size(c)
    /\ Begin(c)
    /\ answers' = [answers EXCEPT ![c] = @ + 1]
    /\ UNCHANGED <<job, stage, ran>>

NextRequest_AfterRejection(c) ==
    /\ stage[c] = "open"
    /\ \/ pc[c] = "returned" /\ answers[c] + 1 < Size(c)
       \/ pc[c] = "authRejected"
    /\ Begin(c)
    /\ answers' = [answers EXCEPT ![c] = IF pc[c] = "returned" THEN @ + 1 ELSE @]
    /\ UNCHANGED <<job, stage, ran>>

NextRequest_OneMore(c) ==
    /\ stage[c] = "open"
    /\ pc[c] = "returned"
    /\ answers[c] + 1 <= Size(c)
    /\ Begin(c)
    /\ answers' = [answers EXCEPT ![c] = @ + 1]
    /\ UNCHANGED <<job, stage, ran>>

\* The second query of list_tables and describe_table, and the second request of
\* cluster_status.
NextRequest(c) ==
    /\ stage[c] = "open"
    /\ pc[c] = "returned"
    /\ answers[c] + 1 < Size(c)
    /\ Begin(c)
    /\ answers' = [answers EXCEPT ![c] = @ + 1]
    /\ UNCHANGED <<job, stage, ran>>

\* The tool returns its result.
Return(c) ==
    /\ stage[c] = "open"
    /\ pc[c] = "returned"
    /\ answers[c] + 1 = Size(c)
    /\ stage' = [stage EXCEPT ![c] = "done"]
    /\ answers' = [answers EXCEPT ![c] = @ + 1]
    /\ UNCHANGED <<vars, job, ran>>

\* A DrillError of the backend ends the tool, whichever request raised it.  So
\* does an answer that is not JSON or not of the shape the tool can read, and a
\* plugin whose columns cannot be described.
Fail(c) ==
    /\ stage[c] = "open"
    /\ \/ /\ pc[c] \in {"returned", "drillError"}
          /\ stage' = [stage EXCEPT ![c] = "failed"]
          /\ answers' = [answers EXCEPT ![c] = @ + 1]
       \/ /\ pc[c] \in AuthEndings
          /\ stage' = [stage EXCEPT ![c] = "failed"]
          /\ UNCHANGED answers
       \/ /\ pc[c] = "unreachable"
          /\ stage' = [stage EXCEPT ![c] = "lost"]
          /\ UNCHANGED answers
    /\ UNCHANGED <<vars, job, ran>>

\* What goes on below the tools.
Transport ==
    /\ \/ \E c \in Calls : ClientStep(c) \/ DrillStep(c)
       \/ \E s \in Sessions : Expire(s)
    /\ ran' = [c \in Calls |-> ran[c] + (executed'[c] - executed[c])]
    /\ UNCHANGED <<job, stage, answers>>

ToolStep(c) == NextRequest(c) \/ Return(c) \/ Fail(c)

ServerNext ==
    \/ \E c \in Calls : ToolStep(c) \/ \E j \in ToolCalls : Invoke(c, j)
    \/ Transport

ServerSpec == ServerInit /\ [][ServerNext]_serverVars

\* A worker thread that can run is run, below a request as well as between two, and
\* config.timeout_seconds (positive by validation) ends every wait for Drill.  Drill
\* itself owes no answer.
FairServerSpec ==
    /\ ServerSpec
    /\ \A c \in Calls : WF_vars(ClientStep(c)) /\ WF_serverVars(ToolStep(c))

--------------------------------------------------------------------------------
(* Properties. *)

\* Whatever is lost, answered late or retried, and whichever calls share the
\* session: the SQL that Drill has run for a call, even after its client was told
\* of a failure, changes only writable schemas, and no hidden schema that the guard
\* can see (server.py:121-138, guard.py:262-284, client_rest.py:565-584).
OnlyPermittedChanges ==
    \A c \in Calls : ran[c] > 0 /\ job[c].tool = "run_query" =>
        \A schema \in Schemas(job[c].text.targets \cup job[c].text.embedded) :
            /\ Under(schema, InForce.writable)
            /\ ~Under(schema, KeptFrom(job[c].text, InForce))

\* Every tool call ends, also one of two requests during which other calls renew
\* the session or let it expire (client_rest.py:565-584, 636-648, 301-331).
EveryToolCallEnds == \A c \in Calls : stage[c] = "open" ~> stage[c] # "open"

\* The steps that a tool call has still to take, at most: one to begin or to end and
\* 11 inside of _request, for each request that has not been answered.
ToolStepsLeft(c) == 12 * (Size(c) - answers[c]) + StepsLeft(c)

\* Of that, what no scheduler decides: whatever other tool calls do to the session
\* between its two requests, a tool call is never set back.
ToolStepsRunOut ==
    [][\A c \in Calls : stage[c] = "open" =>
           \/ stage'[c] # "open"
           \/ ToolStepsLeft(c)' \in 0..(ToolStepsLeft(c) - 1)
           \/ UNCHANGED <<pc[c], retrying[c], answers[c]>>]_serverVars

\* What a client is told of a call is true of what Drill has run for it: nothing if
\* it was refused, each answered request once, and nothing more after an error
\* that is not a broken connection (server.py:114-262).
Promised == INSTANCE ToolPromise WITH outcome <- stage, effects <- ran
KeepsToolPromise == Promised!Spec

\* In every state that comes to this: a result stands for every request of the tool,
\* each run once by Drill; an error for those that were answered and no more; after
\* a broken connection at most one request is in doubt; a refusal has cost nothing.
EndingsAreTrue ==
    \A c \in Calls :
        /\ ran[c] \in {answers[c], answers[c] + 1}
        /\ stage[c] = "refused" => ran[c] = 0
        /\ stage[c] \in {"done", "failed"} => ran[c] = answers[c]
        /\ stage[c] = "done" => ran[c] = Size(c)
================================================================================
