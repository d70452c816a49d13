----------------------------- MODULE JdbcQueryProofs -----------------------------
(***************************************************************************)
(* Proofs about JdbcQuery for any number of concurrent calls.  One         *)
(* inductive invariant ties the program point of a call to the state of    *)
(* its two resources and to what Drill has done with its statement.        *)
(***************************************************************************)
EXTENDS JdbcQuery, TLAPS

(* Where a call's connection and cursor are, at each program point.            *)
ResourcesOK(c) ==
    /\ pc[c] \in {"new", "connect", "notConnected"}
           => connection[c] = "none" /\ cursor[c] = "none"
    /\ pc[c] = "cursor" => connection[c] = "open" /\ cursor[c] = "none"
    /\ pc[c] \in {"execute", "executing", "fetch", "closeCursor"}
           => connection[c] = "open" /\ cursor[c] = "open"
    /\ pc[c] = "closeConnection" => connection[c] = "open" /\ cursor[c] # "open"
    /\ pc[c] \in {"returned", "failed"}
           => connection[c] \in {"closed", "broken"} /\ cursor[c] # "open"
    /\ pc[c] = "returned" => connection[c] = "closed"
    /\ pc[c] = "closeConnection" /\ ~raised[c] => cursor[c] = "closed"
    /\ pc[c] = "returned" => cursor[c] = "closed"

(* What Drill has done with the statement of c.                                *)
StatementOK(c) ==
    /\ submitted[c] => executed[c] = 0 /\ pc[c] \notin {"new", "notConnected"}
    /\ pc[c] \in {"new", "connect", "notConnected", "cursor", "execute"}
           => executed[c] = 0 /\ ~submitted[c]
    /\ pc[c] = "fetch" => executed[c] = 1
    /\ pc[c] \in {"closeCursor", "closeConnection"} /\ ~raised[c] => executed[c] = 1
    /\ pc[c] = "returned" => executed[c] = 1

CallInv == TypeOK /\ \A c \in Calls : ResourcesOK(c) /\ StatementOK(c)

--------------------------------------------------------------------------------
\* Every step of query(), and Drill running a statement, keeps the invariant.
LEMMA CallStep ==
    ASSUME CallInv, [Next]_vars
    PROVE  CallInv'
<1> USE DEF CallInv, ResourcesOK, StatementOK, TypeOK, Resource, Busy, Endings, Goto, Raise
<1>1. ASSUME NEW c \in Calls, Begin(c) PROVE CallInv'
      BY <1>1 DEF Begin
<1>2. ASSUME NEW c \in Calls, Connect(c) PROVE CallInv'
      BY <1>2 DEF Connect
<1>3. ASSUME NEW c \in Calls, OpenCursor(c) PROVE CallInv'
  <2>1. CASE Goto(c, "execute")
        BY <1>3, <2>1 DEF OpenCursor
  <2>2. CASE Goto(c, "closeConnection") /\ Raise(c)
        BY <1>3, <2>2 DEF OpenCursor
  <2>3. QED
        BY <1>3, <2>1, <2>2 DEF OpenCursor
<1>4. ASSUME NEW c \in Calls, Execute(c) PROVE CallInv'
      BY <1>4 DEF Execute
<1>5. ASSUME NEW c \in Calls, DrillRuns(c) PROVE CallInv'
      BY <1>5 DEF DrillRuns
<1>6. ASSUME NEW c \in Calls, ExecuteEnds(c) PROVE CallInv'
  <2>1. CASE Goto(c, "fetch")
        BY <1>6, <2>1 DEF ExecuteEnds
  <2>2. CASE Goto(c, "closeCursor") /\ Raise(c)
        BY <1>6, <2>2 DEF ExecuteEnds
  <2>3. QED
        BY <1>6, <2>1, <2>2 DEF ExecuteEnds
<1>7. ASSUME NEW c \in Calls, Fetch(c) PROVE CallInv'
      BY <1>7 DEF Fetch
<1>8. ASSUME NEW c \in Calls, CloseCursor(c) PROVE CallInv'
      BY <1>8 DEF CloseCursor
<1>9. ASSUME NEW c \in Calls, CloseConnection(c) PROVE CallInv'
  <2> USE <1>9 DEF CloseConnection
  <2>1. CASE UNCHANGED raised
    <3>1. CASE raised[c]
          BY <2>1, <3>1
    <3>2. CASE ~raised[c]
          BY <2>1, <3>2
    <3>3. QED
          BY <3>1, <3>2
  <2>2. CASE Raise(c) /\ connection' = [connection EXCEPT ![c] = "broken"]
    <3>1. raised' = [raised EXCEPT ![c] = TRUE] /\ raised'[c]
          BY <2>2
    <3>2. Goto(c, "failed")
          BY <3>1
    <3>3. raised' \in [Calls -> BOOLEAN]
          BY <3>1
    <3>4. QED
          BY <2>2, <3>1, <3>2, <3>3
  <2>3. QED
        BY <2>1, <2>2
<1>10. CASE UNCHANGED vars
      BY <1>10 DEF vars
<1>11. QED
      BY <1>1, <1>2, <1>3, <1>4, <1>5, <1>6, <1>7, <1>8, <1>9, <1>10 DEF Next

\* Resources, exception and statement of every call agree with its program point
\* (client_jdbc.py:139-158).
THEOREM CallCorrect == Spec => []CallInv
<1>1. Init => CallInv
      BY DEF Init, CallInv, ResourcesOK, StatementOK, TypeOK, Resource, Busy, Endings
<1>2. QED
      BY <1>1, CallStep, PTL DEF Spec

\* Type correctness of JdbcQuery: in particular no statement runs twice.
THEOREM TypeCorrect == Spec => []TypeOK
<1>1. CallInv => TypeOK
      BY DEF CallInv
<1>2. QED
      BY <1>1, CallCorrect, PTL

\* However a call ends, both its resources have been released
\* (client_jdbc.py:140-150).
THEOREM NothingLeftOpenCorrect == Spec => []NothingLeftOpen
<1>1. CallInv => NothingLeftOpen
      BY DEF CallInv, ResourcesOK, NothingLeftOpen, Endings
<1>2. QED
      BY <1>1, CallCorrect, PTL

\* The cursor lives inside its connection (client_jdbc.py:141-144).
THEOREM CursorInsideCorrect == Spec => []CursorInsideConnection
<1>1. CallInv => CursorInsideConnection
      BY DEF CallInv, TypeOK, ResourcesOK, CursorInsideConnection, Busy, Endings
<1>2. QED
      BY <1>1, CallCorrect, PTL

--------------------------------------------------------------------------------
(* The refinement, with the outcomes of the two backends named alike.          *)
Outcomes == [c \in Calls |-> Outcome(pc[c])]

\* What each program point of query() shows the caller.
LEMMA OutcomeValues ==
    /\ Outcome("new") = "new"
    /\ \A label \in Busy : Outcome(label) = "open"
    /\ Outcome("returned") = "done"
    /\ Outcome("notConnected") = "refused"
    /\ Outcome("failed") = "lost"
<1>1. ASSUME NEW label \in Busy PROVE Outcome(label) = "open"
  <2>1. label \notin {"new", "returned", "notConnected", "failed"}
        BY DEF Busy
  <2>2. QED
        BY <2>1 DEF Outcome
<1>2. QED
      BY <1>1 DEF Outcome, Busy

\* A step that moves the one call c changes the outcome of c only.
LEMMA OutcomeOfMove ==
    ASSUME TypeOK, NEW c \in Calls, NEW label, Goto(c, label)
    PROVE  Outcomes' = [Outcomes EXCEPT ![c] = Outcome(label)]
<1>1. pc' = [pc EXCEPT ![c] = label] /\ DOMAIN pc = Calls
      BY DEF TypeOK, Goto
<1>2. QED
      BY <1>1 DEF Outcomes

\* A move between two program points inside query() is not visible outside.
LEMMA OutcomeInside ==
    ASSUME TypeOK, NEW c \in Calls, NEW label \in Busy, Goto(c, label), pc[c] \in Busy
    PROVE  Outcomes' = Outcomes
<1>1. Outcome(label) = "open" /\ Outcomes[c] = "open"
      BY OutcomeValues DEF Outcomes
<1>2. Outcomes' = [Outcomes EXCEPT ![c] = "open"]
      BY <1>1, OutcomeOfMove
<1>3. DOMAIN Outcomes = Calls /\ Outcomes = [d \in Calls |-> Outcomes[d]]
      BY DEF Outcomes
<1>4. QED
      BY <1>1, <1>2, <1>3

\* The end of a call is the abstract Return with the outcome of its new label.
LEMMA OutcomeReturn ==
    ASSUME TypeOK, NEW c \in Calls, NEW label, Goto(c, label), pc[c] \in Busy,
           executed' = executed, Outcome(label) \in Promise!Endings,
           Outcome(label) = "done" => executed[c] = 1,
           Outcome(label) = "refused" => executed[c] = 0
    PROVE  \E how \in Promise!Endings : Promise!Return(c, how)
<1>1. Outcomes' = [Outcomes EXCEPT ![c] = Outcome(label)] /\ Outcomes[c] = "open"
      BY OutcomeOfMove, OutcomeValues DEF Outcomes
<1>2. Promise!Return(c, Outcome(label))
      BY <1>1 DEF Promise!Return, Outcomes
<1>3. QED
      BY <1>2

\* Every step of JdbcQuery is a step of the promise, or invisible to it.
LEMMA PromiseStep ==
    ASSUME CallInv, [Next]_vars
    PROVE  [Promise!Next]_(Promise!promiseVars)
<1> DEFINE Same == Outcomes' = Outcomes /\ executed' = executed
           Ends(c) == \E how \in Promise!Endings : Promise!Return(c, how)
<1>s. Same => UNCHANGED Promise!promiseVars
      BY DEF Promise!promiseVars, Outcomes
<1>t. TypeOK /\ \A c \in Calls : ResourcesOK(c) /\ StatementOK(c)
      BY DEF CallInv
<1>e. {"done", "refused", "lost"} \subseteq Promise!Endings
      BY DEF Promise!Endings
<1> HIDE DEF Same, Ends
<1>1. ASSUME NEW c \in Calls, Begin(c) PROVE Promise!Start(c)
  <2>1. Outcomes' = [Outcomes EXCEPT ![c] = "open"]
        BY <1>1, <1>t, OutcomeOfMove, OutcomeValues DEF Begin, Busy
  <2>2. Outcomes[c] # "open"
        BY <1>1, <1>t, OutcomeValues DEF Begin, Outcomes, Endings, TypeOK
  <2>3. QED
        BY <1>1, <2>1, <2>2 DEF Promise!Start, Begin, Outcomes
<1>2. ASSUME NEW c \in Calls, Connect(c) PROVE Same \/ Ends(c)
  <2>1. CASE Goto(c, "cursor")
        BY <1>2, <1>t, <2>1, OutcomeInside DEF Connect, Busy, Same
  <2>2. CASE Goto(c, "notConnected")
        BY <1>2, <1>t, <1>e, <2>2, OutcomeReturn, OutcomeValues
           DEF Connect, StatementOK, Busy, Ends
  <2>3. QED
        BY <1>2, <2>1, <2>2 DEF Connect
<1>3. ASSUME NEW c \in Calls,
             \/ OpenCursor(c) \/ Execute(c) \/ ExecuteEnds(c)
             \/ Fetch(c) \/ CloseCursor(c)
      PROVE  Same
      BY <1>3, <1>t, OutcomeInside
         DEF OpenCursor, Execute, ExecuteEnds, Fetch, CloseCursor, Busy, Same
<1>4. ASSUME NEW c \in Calls, DrillRuns(c) PROVE Promise!TakeEffect(c)
  <2>1. executed[c] = 0 /\ pc[c] \in Busy \cup {"returned", "failed"}
        BY <1>4, <1>t DEF DrillRuns, StatementOK, TypeOK, Endings
  <2>2. pc[c] # "returned"
        BY <1>t, <2>1 DEF StatementOK
  <2>3. pc' = pc /\ executed' = [executed EXCEPT ![c] = 1]
        BY <1>4, <2>1 DEF DrillRuns
  <2>4. Outcomes' = Outcomes /\ Outcomes[c] \in {"open", "lost"}
        BY <2>1, <2>2, <2>3, OutcomeValues DEF Outcomes
  <2>5. QED
        BY <2>1, <2>3, <2>4 DEF Promise!TakeEffect, Outcomes
<1>5. ASSUME NEW c \in Calls, CloseConnection(c) PROVE Ends(c)
  <2>1. CASE Goto(c, "failed")
        BY <1>5, <1>t, <1>e, <2>1, OutcomeReturn, OutcomeValues
           DEF CloseConnection, Busy, Ends
  <2>2. CASE Goto(c, "returned") /\ ~raised[c]
        BY <1>5, <1>t, <1>e, <2>2, OutcomeReturn, OutcomeValues
           DEF CloseConnection, StatementOK, Busy, Ends
  <2>3. raised[c] => raised'[c]
        BY <1>5, <1>t DEF CloseConnection, Raise, TypeOK
  <2>4. QED
        BY <1>5, <2>1, <2>2, <2>3 DEF CloseConnection
<1>6. CASE UNCHANGED vars
      BY <1>6, <1>s DEF vars, Same, Outcomes
<1>7. QED
      BY <1>s, <1>1, <1>2, <1>3, <1>4, <1>5, <1>6 DEF Next, Promise!Next, Ends

\* JdbcQuery implements AtMostOnce: one connection per call and no retry, so rows
\* are returned only for a statement that ran exactly once
\* (client_jdbc.py:139-158).
THEOREM PromiseKept == Spec => KeepsPromise
<1>1. Init => Promise!Init
      BY OutcomeValues DEF Init, Promise!Init
<1>2. QED
      BY <1>1, PromiseStep, CallCorrect, PTL DEF Spec, KeepsPromise, Promise!Spec
================================================================================
