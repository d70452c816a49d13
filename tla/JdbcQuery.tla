------------------------------- MODULE JdbcQuery -------------------------------
(***************************************************************************)
(* JdbcClient.query and JdbcClient._connect of drill_mcp/client_jdbc.py:   *)
(* one connection and one cursor per call, released by the two nested      *)
(* `closing` contexts however the call goes.  Every call into the driver   *)
(* (connect, cursor, execute, fetchmany, both closes) may raise.           *)
(*                                                                         *)
(* Calls share nothing, so their interleavings matter only for what is     *)
(* open at the same time and for statements Drill runs late.  The driver   *)
(* and Drill are external.                                                 *)
(***************************************************************************)
EXTENDS Naturals

CONSTANT Calls

VARIABLES
    pc,          \* pc[c]: where call c is in query(), or how it ended
    raised,      \* raised[c]: an exception is on its way to the except clause
    connection,  \* connection[c], cursor[c]: the two resources of the call
    cursor,
    submitted,   \* submitted[c]: statement given to the driver, not yet run
    executed     \* executed[c]: how often Drill has run c's statement

vars == <<pc, raised, connection, cursor, submitted, executed>>

Busy == {"connect", "cursor", "execute", "executing", "fetch",
         "closeCursor", "closeConnection"}
Endings == {"returned", "notConnected", "failed"}

\* "none": never opened; "broken": its close() was called and raised.
Resource == {"none", "open", "closed", "broken"}

TypeOK ==
    /\ pc \in [Calls -> {"new"} \cup Busy \cup Endings]
    /\ raised \in [Calls -> BOOLEAN]
    /\ connection \in [Calls -> Resource]
    /\ cursor \in [Calls -> Resource]
    /\ submitted \in [Calls -> BOOLEAN]
    /\ executed \in [Calls -> 0..1]

Init ==
    /\ pc = [c \in Calls |-> "new"]
    /\ raised = [c \in Calls |-> FALSE]
    /\ connection = [c \in Calls |-> "none"]
    /\ cursor = [c \in Calls |-> "none"]
    /\ submitted = [c \in Calls |-> FALSE]
    /\ executed = [c \in Calls |-> 0]

Goto(c, label) == pc' = [pc EXCEPT ![c] = label]
Raise(c) == raised' = [raised EXCEPT ![c] = TRUE]

\* The name c is free again once Drill can no longer run its last statement.
Begin(c) ==
    /\ pc[c] \notin Busy
    /\ ~submitted[c]
    /\ Goto(c, "connect")
    /\ raised' = [raised EXCEPT ![c] = FALSE]
    /\ connection' = [connection EXCEPT ![c] = "none"]
    /\ cursor' = [cursor EXCEPT ![c] = "none"]
    /\ executed' = [executed EXCEPT ![c] = 0]
    /\ UNCHANGED submitted

\* _connect: outside the try block, with an error path of its own for a missing
\* driver package and for a connect() that raises.
Connect(c) ==
    /\ pc[c] = "connect"
    /\ \/ /\ connection' = [connection EXCEPT ![c] = "open"]
          /\ Goto(c, "cursor")
       \/ /\ Goto(c, "notConnected")
          /\ UNCHANGED connection
    /\ UNCHANGED <<raised, cursor, submitted, executed>>

\* `connection.cursor()` runs inside closing(connection).
OpenCursor(c) ==
    /\ pc[c] = "cursor"
    /\ \/ /\ cursor' = [cursor EXCEPT ![c] = "open"]
          /\ Goto(c, "execute")
          /\ UNCHANGED raised
       \/ /\ Raise(c)
          /\ Goto(c, "closeConnection")
          /\ UNCHANGED cursor
    /\ UNCHANGED <<connection, submitted, executed>>

\* `cursor.execute(sql)` hands the statement to the driver ...
Execute(c) ==
    /\ pc[c] = "execute"
    /\ submitted' = [submitted EXCEPT ![c] = TRUE]
    /\ Goto(c, "executing")
    /\ UNCHANGED <<raised, connection, cursor, executed>>

\* ... which Drill runs (external), also when the caller is no longer there ...
DrillRuns(c) ==
    /\ submitted[c]
    /\ submitted' = [submitted EXCEPT ![c] = FALSE]
    /\ executed' = [executed EXCEPT ![c] = @ + 1]
    /\ UNCHANGED <<pc, raised, connection, cursor>>

ExecuteEnds_Retries(c) ==
    /\ pc[c] = "executing"
    /\ \/ /\ executed[c] = 1
          /\ Goto(c, "fetch")
          /\ UNCHANGED <<raised, submitted>>
       \/ /\ Goto(c, "execute")
          /\ submitted' \in {submitted, [submitted EXCEPT ![c] = FALSE]}
          /\ UNCHANGED raised
    /\ UNCHANGED <<connection, cursor, executed>>

\* ... and which returns once Drill has, or raises at any moment: Drill may not
\* get the statement, may have run it, or may still run it.
ExecuteEnds(c) ==
    /\ pc[c] = "executing"
    /\ \/ /\ executed[c] = 1
          /\ Goto(c, "fetch")
          /\ UNCHANGED <<raised, submitted>>
       \/ /\ Raise(c)
          /\ Goto(c, "closeCursor")
          /\ submitted' \in {submitted, [submitted EXCEPT ![c] = FALSE]}
    /\ UNCHANGED <<connection, cursor, executed>>

Fetch_SkipsCursor(c) ==
    /\ pc[c] = "fetch"
    /\ Raise(c) \/ UNCHANGED raised
    /\ Goto(c, "closeConnection")
    /\ UNCHANGED <<connection, cursor, submitted, executed>>

\* fetchmany and the reads of cursor.description.
Fetch(c) ==
    /\ pc[c] = "fetch"
    /\ Raise(c) \/ UNCHANGED raised
    /\ Goto(c, "closeCursor")
    /\ UNCHANGED <<connection, cursor, submitted, executed>>

CloseCursor_SkipsConnection(c) ==
    /\ pc[c] = "closeCursor"
    /\ \/ /\ cursor' = [cursor EXCEPT ![c] = "closed"]
          /\ Goto(c, "closeConnection")
          /\ UNCHANGED raised
       \/ /\ cursor' = [cursor EXCEPT ![c] = "broken"]
          /\ Goto(c, "failed")
          /\ Raise(c)
    /\ UNCHANGED <<connection, submitted, executed>>

\* Leaving closing(cursor): a close that raises replaces the result and any
\* earlier exception, and the connection is still closed.
CloseCursor(c) ==
    /\ pc[c] = "closeCursor"
    /\ \/ /\ cursor' = [cursor EXCEPT ![c] = "closed"]
          /\ UNCHANGED raised
       \/ /\ cursor' = [cursor EXCEPT ![c] = "broken"]
          /\ Raise(c)
    /\ Goto(c, "closeConnection")
    /\ UNCHANGED <<connection, submitted, executed>>

\* Leaving closing(connection), and the except clause around both contexts.
CloseConnection(c) ==
    /\ pc[c] = "closeConnection"
    /\ \/ /\ connection' = [connection EXCEPT ![c] = "closed"]
          /\ UNCHANGED raised
       \/ /\ connection' = [connection EXCEPT ![c] = "broken"]
          /\ Raise(c)
    /\ Goto(c, IF raised'[c] THEN "failed" ELSE "returned")
    /\ UNCHANGED <<cursor, submitted, executed>>

Next ==
    \E c \in Calls :
        \/ Begin(c) \/ Connect(c) \/ OpenCursor(c) \/ Execute(c) \/ DrillRuns(c)
        \/ ExecuteEnds(c) \/ Fetch(c) \/ CloseCursor(c) \/ CloseConnection(c)

Spec == Init /\ [][Next]_vars

--------------------------------------------------------------------------------
(* Properties. *)

\* Whichever driver call raised, a call that has ended has called close() on
\* everything it had opened, and what it reports as a result was closed without
\* an error (client_jdbc.py:140-150).
NothingLeftOpen ==
    \A c \in Calls :
        /\ pc[c] \in Endings => "open" \notin {connection[c], cursor[c]}
        /\ pc[c] = "returned" => "broken" \notin {connection[c], cursor[c]}

\* A connection is never closed, or lost, under its open cursor.
CursorInsideConnection ==
    \A c \in Calls : cursor[c] = "open" => connection[c] = "open"

Outcome(label) ==
    CASE label = "new" -> "new"
      [] label \in Busy -> "open"
      [] label = "returned" -> "done"
      [] label = "notConnected" -> "refused"
      [] label = "failed" -> "lost"

Promise == INSTANCE AtMostOnce
               WITH outcome <- [c \in Calls |-> Outcome(pc[c])], effects <- executed

\* The JDBC backend keeps the same promise as the REST backend: a statement runs
\* at most once, exactly once when rows are returned, and never when the
\* connection failed.  An error after that leaves open whether it ran.
KeepsPromise == Promise!Spec
================================================================================
