------------------------------ MODULE ToolPromise ------------------------------
(***************************************************************************)
(* What one call of a tool promises to its MCP client about the requests   *)
(* it makes to Drill, one after the other:                                 *)
(*                                                                         *)
(*   "refused"  the tool turned the call down: Drill ran nothing for it    *)
(*   "done"     a result: Drill ran exactly the requests that were         *)
(*              answered, each once, and at least one                      *)
(*   "failed"   an error: the requests answered so far ran once, and       *)
(*              Drill will run nothing more                                *)
(*   "lost"     the last request may have run once, or may still run; the  *)
(*              ones before it ran once                                    *)
(***************************************************************************)
EXTENDS Naturals

CONSTANT Calls

VARIABLES
    outcome,    \* outcome[c]: how far the call is, for its client
    effects,    \* effects[c]: how often Drill has run a request of the call
    answers     \* answers[c]: how many requests of the call were answered

promiseVars == <<outcome, effects, answers>>

Init ==
    /\ outcome = [c \in Calls |-> "new"]
    /\ effects = [c \in Calls |-> 0]
    /\ answers = [c \in Calls |-> 0]

\* A call is made and taken or refused; the identity of one that has ended is free.
Start(c) ==
    /\ outcome[c] # "open"
    /\ \E taken \in {"open", "refused"} : outcome' = [outcome EXCEPT ![c] = taken]
    /\ effects' = [effects EXCEPT ![c] = 0]
    /\ answers' = [answers EXCEPT ![c] = 0]

\* Drill runs the one request that has no answer yet.
TakeEffect(c) ==
    /\ outcome[c] \in {"open", "lost"}
    /\ effects[c] = answers[c]
    /\ effects' = [effects EXCEPT ![c] = @ + 1]
    /\ UNCHANGED <<outcome, answers>>

\* The answer of a request that is followed by another one.
GoOn(c) ==
    /\ outcome[c] = "open"
    /\ effects[c] = answers[c] + 1
    /\ answers' = [answers EXCEPT ![c] = @ + 1]
    /\ UNCHANGED <<outcome, effects>>

Finish(c, how) ==
    /\ outcome[c] = "open"
    /\ outcome' = [outcome EXCEPT ![c] = how]
    /\ \/ how = "done" /\ effects[c] = answers[c] + 1
       \/ how = "failed"
       \/ how = "lost"
    /\ answers' = IF how = "lost" THEN answers ELSE [answers EXCEPT ![c] = effects[c]]
    /\ UNCHANGED effects

Next ==
    \E c \in Calls :
        \/ Start(c) \/ TakeEffect(c) \/ GoOn(c)
        \/ \E how \in {"done", "failed", "lost"} : Finish(c, how)

Spec == Init /\ [][Next]_promiseVars
================================================================================
