------------------------------ MODULE AtMostOnce ------------------------------
(***************************************************************************)
(* What a backend promises about ONE request it sends to Drill on behalf   *)
(* of a tool call, whatever happens on the way: how often the request took *)
(* effect on the Drill side, and what the way the call ended tells its     *)
(* caller about that.                                                      *)
(*                                                                         *)
(*   "done"     Drill's own answer (rows, or Drill's error text) was       *)
(*              returned: Drill ran the request exactly once               *)
(*   "refused"  the caller was told it is not authenticated or could not   *)
(*              connect: Drill did not run the request and never will      *)
(*   "lost"     the exchange broke: Drill ran the request at most once,    *)
(*              and may still do so after the caller has gone              *)
(*                                                                         *)
(* A run of CREATE TABLE AS or DROP is such a request, so a second effect  *)
(* is not harmless.                                                        *)
(***************************************************************************)
EXTENDS Naturals

CONSTANT Calls

VARIABLES
    outcome,    \* outcome[c]: how far the call is, for its caller
    effects     \* effects[c]: how often Drill has run it

promiseVars == <<outcome, effects>>

Endings == {"done", "refused", "lost"}

TypeOK ==
    /\ outcome \in [Calls -> {"new", "open"} \cup Endings]
    /\ effects \in [Calls -> {0, 1}]

Init ==
    /\ outcome = [c \in Calls |-> "new"]
    /\ effects = [c \in Calls |-> 0]

\* A call is made; the identity of a call that has ended may be used again.
Start(c) ==
    /\ outcome[c] # "open"
    /\ outcome' = [outcome EXCEPT ![c] = "open"]
    /\ effects' = [effects EXCEPT ![c] = 0]

\* Drill runs the request: once, and never after a refusal.
TakeEffect(c) ==
    /\ outcome[c] \in {"open", "lost"}
    /\ effects[c] = 0
    /\ effects' = [effects EXCEPT ![c] = 1]
    /\ UNCHANGED outcome

\* The call ends, and its ending says what is known of the effect.
Return(c, how) ==
    /\ outcome[c] = "open"
    /\ how = "done" => effects[c] = 1
    /\ how = "refused" => effects[c] = 0
    /\ outcome' = [outcome EXCEPT ![c] = how]
    /\ UNCHANGED effects

Next ==
    \E c \in Calls :
        \/ Start(c)
        \/ TakeEffect(c)
        \/ \E how \in Endings : Return(c, how)

Spec == Init /\ [][Next]_promiseVars
===============================================================================
