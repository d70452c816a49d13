------------------------------ MODULE ServerProofs ------------------------------
(***************************************************************************)
(* Proofs about RestSession and, on top of it, Server: for any number of   *)
(* concurrent calls, any set of sessions, every kind of tool call, every   *)
(* policy and every authentication mode.                                   *)
(*                                                                         *)
(* Of the session, three invariants are proved one on top of the other:    *)
(*   ExchangeInv  a call, its message, its reply and the effect agree      *)
(*   CookieInv    the flag and the program points that precede a request   *)
(*                imply a granted cookie in the jar                        *)
(*   RecoveryInv  what an undisturbed call may rely on: every grant still  *)
(*                to be read, and the jar after its own login, are live    *)
(* Then the tools are shown to use the session only as RestSession lets    *)
(* its callers, so that all of this holds below them, and                  *)
(*   ToolInv      relates a tool call, the request it has in progress, and *)
(*                what Drill has run for it.                               *)
(***************************************************************************)
EXTENDS Server, NamesProofs

(* The exchange of one call.  At any time at most one of its message and its   *)
(* reply exists, of the kind its program point waits for; and Drill has run    *)
(* its request exactly when that is what the reply or the ending says.         *)
ExchangeOK(c) ==
    /\ pc[c] \in {"new"} \cup (Busy \ Waiting) \cup (Endings \ {"unreachable"})
           => wire[c].kind = "none" /\ reply[c].kind = "none"
    /\ pc[c] = "unreachable" => reply[c].kind = "none"
    /\ pc[c] = "loginSent" =>
           \/ wire[c].kind = "login" /\ reply[c].kind = "none"
           \/ wire[c].kind = "none" /\ reply[c].kind \in {"granted", "refused"}
    /\ pc[c] = "sent" =>
           \/ wire[c].kind = "api" /\ reply[c].kind = "none"
           \/ wire[c].kind = "none" /\ reply[c].kind \in {"ok", "error", "401"}
    /\ reply[c].kind = "granted" => reply[c].session \in Sessions
    /\ wire[c].kind # "none" => executed[c] = 0
    /\ reply[c].kind = "401" => executed[c] = 0
    /\ reply[c].kind \in {"ok", "error"} => executed[c] = 1
    /\ pc[c] \in {"new"} \cup (Busy \ {"sent"}) \cup AuthEndings => executed[c] = 0
    /\ pc[c] \in {"returned", "drillError"} => executed[c] = 1
    /\ retrying[c] => Basic
    /\ pc[c] \in {"loginSent", "loggedIn"} \/ wire[c].kind = "login" => Basic

ExchangeInv == TypeOK /\ \A c \in Calls : ExchangeOK(c)

CookieOK(c) ==
    /\ pc[c] \in {"loggedIn", "send"} => jar \in Sessions
    /\ wire[c].kind = "api" => wire[c].session \in Sessions

CookieInv ==
    Basic => /\ authenticated => jar \in Sessions
             /\ \A c \in Calls : CookieOK(c)

(* What a running call that no fault has hit may rely on.                      *)
GrantsLive == \A d \in Calls : reply[d].kind = "granted" => reply[d].session \in live

RecoveryOK(c) ==
    /\ GrantsLive
    /\ pc[c] = "check" => ~retrying[c]
    /\ pc[c] = "loggedIn" => jar \in live
    /\ retrying[c] /\ pc[c] = "send" => jar \in live
    /\ retrying[c] /\ wire[c].kind = "api" => wire[c].session \in live
    /\ retrying[c] \/ ~Basic => reply[c].kind # "401"
    /\ reply[c].kind # "refused"

RecoveryInv ==
    /\ \A c \in Running \ disturbed : RecoveryOK(c)
    /\ QuietCallsSucceed

--------------------------------------------------------------------------------
\* Initially no call has begun, and nothing is on its way.
LEMMA ExchangeInit == Init => ExchangeInv
<1> SUFFICES ASSUME Init PROVE ExchangeInv
    OBVIOUS
<1>1. Silence \in Message /\ Silence \in Reply
      BY DEF Silence, Message, Reply
<1>2. TypeOK
  <2>1. pc \in [Calls -> {"new"} \cup Busy \cup Endings]
        BY DEF Init
  <2>2. wire \in [Calls -> Message] /\ reply \in [Calls -> Reply]
        BY <1>1 DEF Init
  <2>3. executed \in [Calls -> 0..1]
        BY DEF Init
  <2>4. authenticated \in BOOLEAN /\ retrying \in [Calls -> BOOLEAN]
        BY Zenon DEF Init
  <2>5. QED
        BY <2>1, <2>2, <2>3, <2>4 DEF Init, TypeOK
<1>3. ASSUME NEW c \in Calls PROVE ExchangeOK(c)
      BY DEF Init, ExchangeOK, Silence, Busy, Waiting, Endings, AuthEndings
<1>4. QED
      BY <1>2, <1>3 DEF ExchangeInv

\* Every step of a calling thread keeps each exchange consistent.
LEMMA ExchangeClient ==
    ASSUME ExchangeInv, NEW c \in Calls, Begin(c) \/ ClientStep(c)
    PROVE  ExchangeInv'
<1> USE DEF ExchangeInv, ExchangeOK, TypeOK, Message, Reply, Silence, Busy,
            Waiting, Endings, AuthEndings, Goto
<1>1. CASE Begin(c)
      BY <1>1 DEF Begin
<1>2. CASE CheckSession(c)
      BY <1>2 DEF CheckSession
<1>3. CASE StartLogin(c)
  <2>1. CASE Basic
    <3>1. /\ pc[c] = "login"
          /\ wire' = [wire EXCEPT ![c] = [kind |-> "login", session |-> jar]]
          /\ Goto(c, "loginSent")
          /\ UNCHANGED <<authenticated, jar, retrying, reply, live, executed, disturbed>>
          BY <1>3, <2>1 DEF StartLogin
    <3>2. QED
          BY <2>1, <3>1
  <2>2. CASE ~Basic
        BY <1>3, <2>2 DEF StartLogin
  <2>3. QED
        BY <2>1, <2>2
<1>4. CASE ReceiveLogin(c)
  <2>1. CASE Goto(c, "loggedIn")
        BY <1>4, <2>1 DEF ReceiveLogin
  <2>2. CASE Goto(c, "authFailed")
        BY <1>4, <2>2 DEF ReceiveLogin
  <2>3. QED
        BY <1>4, <2>1, <2>2 DEF ReceiveLogin
<1>5. CASE FinishLogin(c)
      BY <1>5 DEF FinishLogin
<1>6. CASE SendRequest(c)
      BY <1>6 DEF SendRequest
<1>7. CASE ReceiveAnswer(c)
  <2> USE <1>7 DEF ReceiveAnswer
  <2>1. CASE reply[c].kind = "ok"
        BY <2>1 DEF Retries
  <2>2. CASE Retries(c)
    <3> USE <2>2 DEF Retries
    <3>1. /\ Goto(c, "login") /\ Basic
          /\ reply' = [reply EXCEPT ![c] = Silence]
          /\ retrying' = [retrying EXCEPT ![c] = TRUE]
          /\ authenticated' = FALSE
          /\ UNCHANGED <<jar, wire, live, executed, disturbed>>
          OBVIOUS
    <3>2. TypeOK'
      <4>1. /\ pc' \in [Calls -> {"new"} \cup Busy \cup Endings]
            /\ reply' \in [Calls -> Reply]
            BY <3>1
      <4>2. retrying' \in [Calls -> BOOLEAN] /\ authenticated' \in BOOLEAN
            BY <3>1
      <4>3. QED
            BY <3>1, <4>1, <4>2
    <3>3. ASSUME NEW d \in Calls PROVE ExchangeOK(d)'
          BY <3>1
    <3>4. QED
          BY <3>2, <3>3
  <2>3. CASE reply[c].kind = "401" /\ ~Retries(c)
        BY <2>3
  <2>4. CASE reply[c].kind = "error"
        BY <2>4 DEF Retries
  <2>5. QED
        BY <2>1, <2>2, <2>3, <2>4
<1>8. CASE TransportFailure(c)
      BY <1>8 DEF TransportFailure
<1>9. QED
      BY <1>1, <1>2, <1>3, <1>4, <1>5, <1>6, <1>7, <1>8 DEF ClientStep

\* So does everything Drill does, early or late.
LEMMA ExchangeDrill ==
    ASSUME ExchangeInv, NEW c \in Calls, DrillStep(c)
    PROVE  ExchangeInv'
<1> USE DEF ExchangeInv, ExchangeOK, TypeOK, Message, Reply, Silence, Busy,
            Waiting, Endings, AuthEndings, Handled, Answer, clientVars
<1>1. CASE DrillGrants(c)
      BY <1>1 DEF DrillGrants, FreshSessions
<1>2. CASE DrillRefuses(c)
      BY <1>2 DEF DrillRefuses
<1>3. CASE DrillExecutes(c)
      BY <1>3 DEF DrillExecutes
<1>4. CASE DrillUnauthorized(c)
      BY <1>4 DEF DrillUnauthorized
<1>5. CASE DrillDenies(c)
      BY <1>5 DEF DrillDenies
<1>6. QED
      BY <1>1, <1>2, <1>3, <1>4, <1>5 DEF DrillStep

\* And the end of a session.
LEMMA ExchangeExpire ==
    ASSUME ExchangeInv, NEW s \in Sessions, Expire(s)
    PROVE  ExchangeInv'
BY DEF ExchangeInv, ExchangeOK, TypeOK, Expire, clientVars, Running

\* Type correctness, and the agreement of every call with its message, its reply
\* and what Drill has run (client_rest.py:520-584).
THEOREM ExchangeCorrect == Spec => []ExchangeInv
<1>1. ExchangeInv /\ [Next]_vars => ExchangeInv'
  <2> SUFFICES ASSUME ExchangeInv, [Next]_vars
               PROVE  ExchangeInv'
      OBVIOUS
  <2>1. CASE UNCHANGED vars
        BY <2>1 DEF ExchangeInv, ExchangeOK, TypeOK, vars, clientVars
  <2>2. CASE Next
        BY <2>2, ExchangeClient, ExchangeDrill, ExchangeExpire DEF Next
  <2>3. QED
        BY <2>1, <2>2
<1>2. QED
      BY ExchangeInit, <1>1, PTL DEF Spec

\* Type correctness of RestSession.
THEOREM TypeCorrect == Spec => []TypeOK
<1>1. ExchangeInv => TypeOK
      BY DEF ExchangeInv
<1>2. QED
      BY <1>1, ExchangeCorrect, PTL

\* The password never leaves in the modes without a login form, and no request is
\* sent again there (client_rest.py:521, 570).
THEOREM RecoveryOnlyInBasicModeCorrect == Spec => []RecoveryOnlyInBasicMode
<1>1. ExchangeInv => RecoveryOnlyInBasicMode
      BY DEF ExchangeInv, ExchangeOK, RecoveryOnlyInBasicMode
<1>2. QED
      BY <1>1, ExchangeCorrect, PTL

--------------------------------------------------------------------------------
\* A granted cookie is in the jar whenever a request may be sent.
LEMMA CookieStep ==
    ASSUME ExchangeInv, CookieInv, [Next]_vars
    PROVE  CookieInv'
<1> SUFFICES ASSUME Basic PROVE CookieInv'
    BY DEF CookieInv, Basic
<1> USE DEF CookieInv, CookieOK, Basic
<1>t. /\ pc \in [Calls -> {"new"} \cup Busy \cup Endings]
      /\ wire \in [Calls -> Message]
      BY DEF ExchangeInv, TypeOK
<1>1. ASSUME NEW c \in Calls, Begin(c) PROVE CookieInv'
      BY <1>1, <1>t DEF Begin, Goto
<1>2. ASSUME NEW c \in Calls, CheckSession(c) PROVE CookieInv'
      BY <1>2, <1>t DEF CheckSession, Goto
<1>3. ASSUME NEW c \in Calls, StartLogin(c) PROVE CookieInv'
      BY <1>3, <1>t DEF StartLogin, Goto
<1>4. ASSUME NEW c \in Calls, ReceiveLogin(c) PROVE CookieInv'
  <2>1. reply[c].kind = "granted" => reply[c].session \in Sessions
        BY DEF ExchangeInv, ExchangeOK
  <2>2. QED
        BY <1>4, <1>t, <2>1 DEF ReceiveLogin, Goto
<1>5. ASSUME NEW c \in Calls, FinishLogin(c) PROVE CookieInv'
      BY <1>5, <1>t DEF FinishLogin, Goto
<1>6. ASSUME NEW c \in Calls, SendRequest(c) PROVE CookieInv'
      BY <1>6, <1>t DEF SendRequest, Goto
<1>7. ASSUME NEW c \in Calls, ReceiveAnswer(c) PROVE CookieInv'
      BY <1>7, <1>t DEF ReceiveAnswer, Goto
<1>8. ASSUME NEW c \in Calls, TransportFailure(c) PROVE CookieInv'
      BY <1>8, <1>t DEF TransportFailure, Goto, Silence
<1>9. ASSUME NEW c \in Calls, DrillStep(c) PROVE CookieInv'
      BY <1>9, <1>t DEF DrillStep, DrillGrants, DrillRefuses, DrillExecutes,
         DrillUnauthorized, DrillDenies, Handled, Silence, clientVars
<1>10. ASSUME NEW s \in Sessions, Expire(s) PROVE CookieInv'
      BY <1>10 DEF Expire, clientVars
<1>11. CASE UNCHANGED vars
      BY <1>11 DEF vars, clientVars
<1>12. QED
      BY <1>1, <1>2, <1>3, <1>4, <1>5, <1>6, <1>7, <1>8, <1>9, <1>10, <1>11
         DEF Next, ClientStep

\* In basic mode no request leaves anonymously, for any number of threads
\* (client_rest.py:552, 566, 571).
THEOREM NeverAnonymousCorrect == Spec => []NeverAnonymous
<1>1. Init => CookieInv
      BY DEF Init, CookieInv, CookieOK, Silence
<1>2. CookieInv => NeverAnonymous
      BY DEF CookieInv, CookieOK, NeverAnonymous
<1>3. QED
      BY <1>1, <1>2, CookieStep, ExchangeCorrect, PTL DEF Spec

--------------------------------------------------------------------------------
\* No step of a calling thread takes away what an undisturbed call relies on: the
\* jar changes only to a granted session, and every granted session is live.
LEMMA RecoveryClient ==
    ASSUME ExchangeInv, RecoveryInv, NEW c \in Calls, ClientStep(c)
    PROVE  RecoveryInv'
<1> USE DEF RecoveryInv, RecoveryOK, GrantsLive, QuietCallsSucceed, Running,
            Busy, Waiting, AuthEndings
<1>t. /\ pc \in [Calls -> {"new"} \cup Busy \cup Endings]
      /\ retrying \in [Calls -> BOOLEAN]
      /\ wire \in [Calls -> Message]
      /\ reply \in [Calls -> Reply]
      BY DEF ExchangeInv, TypeOK
<1>x. \A d \in Calls : ExchangeOK(d)
      BY DEF ExchangeInv
<1>1. CASE CheckSession(c)
      BY <1>1, <1>t DEF CheckSession, Goto
<1>2. CASE StartLogin(c)
      BY <1>2, <1>t, <1>x DEF StartLogin, Goto, ExchangeOK
<1>3. CASE ReceiveLogin(c)
      BY <1>3, <1>t DEF ReceiveLogin, Goto, Silence
<1>4. CASE FinishLogin(c)
      BY <1>4, <1>t DEF FinishLogin, Goto
<1>5. CASE SendRequest(c)
      BY <1>5, <1>t DEF SendRequest, Goto
<1>6. CASE ReceiveAnswer(c)
      BY <1>6, <1>t, <1>x DEF ReceiveAnswer, Retries, Goto, Silence, ExchangeOK
<1>7. CASE TransportFailure(c)
      BY <1>7, <1>t DEF TransportFailure, Goto, Silence
<1>8. QED
      BY <1>1, <1>2, <1>3, <1>4, <1>5, <1>6, <1>7 DEF ClientStep

\* A call that begins while every running call is undisturbed inherits their
\* assurances; if none is running, no grant is waiting to be read.
LEMMA RecoveryBegin ==
    ASSUME ExchangeInv, RecoveryInv, NEW c \in Calls, Begin(c)
    PROVE  RecoveryInv'
<1> USE DEF RecoveryInv, RecoveryOK, GrantsLive, QuietCallsSucceed, Running,
            Busy, Waiting, AuthEndings, Endings
<1>t. /\ pc \in [Calls -> {"new"} \cup Busy \cup Endings]
      /\ retrying \in [Calls -> BOOLEAN]
      BY DEF ExchangeInv, TypeOK
<1>x. \A d \in Calls : ExchangeOK(d)
      BY DEF ExchangeInv
<1>1. CASE Running \cap disturbed # {}
      BY <1>1, <1>t DEF Begin, Goto
<1>2. CASE Running \cap disturbed = {}
  <2>1. GrantsLive
        BY <1>2, <1>t, <1>x DEF ExchangeOK
  <2>2. reply[c].kind = "none" /\ wire[c].kind = "none"
        BY <1>t, <1>x DEF Begin, ExchangeOK, Silence
  <2>3. QED
        BY <1>2, <1>t, <2>1, <2>2 DEF Begin, Goto
<1>3. QED
      BY <1>1, <1>2

\* Drill grants only live sessions, and turns down a live one only by a fault.
LEMMA RecoveryDrill ==
    ASSUME ExchangeInv, RecoveryInv, NEW c \in Calls, DrillStep(c)
    PROVE  RecoveryInv'
<1> USE DEF RecoveryInv, RecoveryOK, GrantsLive, QuietCallsSucceed, Running,
            Busy, Waiting, AuthEndings, Handled, Silence, Answer, clientVars
<1>t. /\ pc \in [Calls -> {"new"} \cup Busy \cup Endings]
      /\ wire \in [Calls -> Message]
      /\ reply \in [Calls -> Reply]
      BY DEF ExchangeInv, TypeOK
<1>x. \A d \in Calls : ExchangeOK(d)
      BY DEF ExchangeInv
<1>1. CASE DrillGrants(c)
      BY <1>1, <1>t DEF DrillGrants
<1>2. CASE DrillRefuses(c)
      BY <1>2, <1>t DEF DrillRefuses
<1>3. CASE DrillExecutes(c)
      BY <1>3, <1>t DEF DrillExecutes
<1>4. CASE DrillUnauthorized(c)
      BY <1>4, <1>t, <1>x DEF DrillUnauthorized, Accepted, ExchangeOK
<1>5. CASE DrillDenies(c)
      BY <1>5, <1>t DEF DrillDenies
<1>6. QED
      BY <1>1, <1>2, <1>3, <1>4, <1>5 DEF DrillStep

\* A call fails on authentication or transport only if a fault reached it: the
\* retry recovers from every state the other threads can leave behind
\* (client_rest.py:565-579).
THEOREM QuietCallsCorrect == Spec => []QuietCallsSucceed
<1>1. Init => RecoveryInv
      BY DEF Init, RecoveryInv, QuietCallsSucceed, Running, Busy, Waiting, AuthEndings
<1>2. ExchangeInv /\ RecoveryInv /\ [Next]_vars => RecoveryInv'
  <2> SUFFICES ASSUME ExchangeInv, RecoveryInv, [Next]_vars
               PROVE  RecoveryInv'
      OBVIOUS
  <2> USE DEF RecoveryInv, RecoveryOK, GrantsLive, QuietCallsSucceed, Running
  <2>1. ASSUME NEW s \in Sessions, Expire(s) PROVE RecoveryInv'
        BY <2>1 DEF Expire, clientVars
  <2>2. CASE UNCHANGED vars
        BY <2>2 DEF vars, clientVars
  <2>3. QED
        BY <2>1, <2>2, RecoveryClient, RecoveryBegin, RecoveryDrill DEF Next
<1>3. RecoveryInv => QuietCallsSucceed
      BY DEF RecoveryInv
<1>4. QED
      BY <1>1, <1>2, <1>3, ExchangeCorrect, PTL DEF Spec

--------------------------------------------------------------------------------
(* The refinement.  A call's outcome changes where its pc enters or leaves Busy; *)
(* `executed` is the effect itself.                                            *)
Outcomes == [c \in Calls |-> Outcome(pc[c])]

\* What each program point of _request shows the caller.
LEMMA OutcomeValues ==
    /\ Outcome("new") = "new"
    /\ \A label \in Busy : Outcome(label) = "open"
    /\ Outcome("returned") = "done" /\ Outcome("drillError") = "done"
    /\ Outcome("authFailed") = "refused" /\ Outcome("authRejected") = "refused"
    /\ Outcome("unreachable") = "lost"
<1>1. ASSUME NEW label \in Busy PROVE Outcome(label) = "open"
  <2>1. label \notin {"new", "returned", "drillError", "unreachable"} \cup AuthEndings
        BY DEF Busy, Waiting, AuthEndings
  <2>2. QED
        BY <2>1 DEF Outcome
<1>2. QED
      BY <1>1 DEF Outcome, Busy, Waiting, AuthEndings

\* A step that moves the one call c changes the outcome of c only.
LEMMA OutcomeOfMove ==
    ASSUME TypeOK, NEW c \in Calls, NEW label, Goto(c, label)
    PROVE  Outcomes' = [Outcomes EXCEPT ![c] = Outcome(label)]
<1>1. pc' = [pc EXCEPT ![c] = label] /\ DOMAIN pc = Calls
      BY DEF TypeOK, Goto
<1>2. QED
      BY <1>1 DEF Outcomes

\* A move between two program points inside _request is not visible outside.
LEMMA OutcomeInside ==
    ASSUME TypeOK, NEW c \in Calls, NEW label \in Busy, Goto(c, label), pc[c] \in Busy
    PROVE  Outcomes' = Outcomes
<1>1. Outcome(label) = "open" /\ Outcomes[c] = "open"
      BY OutcomeValues DEF Outcomes
<1>2. Outcomes' = [Outcomes EXCEPT ![c] = "open"]
      BY <1>1, OutcomeOfMove
<1>3. DOMAIN Outcomes = Calls /\ Outcomes = [d \in Calls |-> Outcomes[d]]
      BY DEF Outcomes
<1>4. QED
      BY <1>1, <1>2, <1>3

\* The end of a call is the abstract Return with the outcome of its new label.
LEMMA OutcomeReturn ==
    ASSUME TypeOK, NEW c \in Calls, NEW label, Goto(c, label), pc[c] \in Busy,
           executed' = executed, Outcome(label) \in Promise!Endings,
           Outcome(label) = "done" => executed[c] = 1,
           Outcome(label) = "refused" => executed[c] = 0
    PROVE  \E how \in Promise!Endings : Promise!Return(c, how)
<1>1. Outcomes' = [Outcomes EXCEPT ![c] = Outcome(label)] /\ Outcomes[c] = "open"
      BY OutcomeOfMove, OutcomeValues DEF Outcomes
<1>2. Promise!Return(c, Outcome(label))
      BY <1>1 DEF Promise!Return, Outcomes
<1>3. QED
      BY <1>2

\* Every step of RestSession is a step of the promise, or invisible to it.
LEMMA PromiseStep ==
    ASSUME ExchangeInv, [Next]_vars
    PROVE  [Promise!Next]_(Promise!promiseVars)
<1> DEFINE Same == Outcomes' = Outcomes /\ executed' = executed
           Ends(c) == \E how \in Promise!Endings : Promise!Return(c, how)
<1>s. Same => UNCHANGED Promise!promiseVars
      BY DEF Promise!promiseVars, Outcomes
<1>t. TypeOK /\ \A c \in Calls : ExchangeOK(c)
      BY DEF ExchangeInv
<1>e. {"done", "refused", "lost"} \subseteq Promise!Endings
      BY DEF Promise!Endings
<1> HIDE DEF Same, Ends
<1>1. ASSUME NEW c \in Calls, Begin(c) PROVE Promise!Start(c)
  <2>1. Outcomes' = [Outcomes EXCEPT ![c] = "open"]
        BY <1>1, <1>t, OutcomeOfMove, OutcomeValues DEF Begin, Busy
  <2>2. Outcomes[c] # "open"
        BY <1>1, <1>t, OutcomeValues DEF Begin, Outcomes, Endings, AuthEndings, TypeOK
  <2>3. QED
        BY <1>1, <2>1, <2>2 DEF Promise!Start, Begin, Outcomes
<1>2. ASSUME NEW c \in Calls,
             \/ CheckSession(c) \/ StartLogin(c)
             \/ FinishLogin(c) \/ SendRequest(c)
      PROVE  Same
      BY <1>2, <1>t, OutcomeInside
         DEF CheckSession, StartLogin, FinishLogin, SendRequest, Busy, Waiting, Same
<1>3. ASSUME NEW c \in Calls, ReceiveLogin(c) PROVE Same \/ Ends(c)
  <2>1. CASE Goto(c, "loggedIn")
        BY <1>3, <1>t, <2>1, OutcomeInside DEF ReceiveLogin, Busy, Waiting, Same
  <2>2. CASE Goto(c, "authFailed")
        BY <1>3, <1>t, <1>e, <2>2, OutcomeReturn, OutcomeValues
           DEF ReceiveLogin, ExchangeOK, Busy, Waiting, Ends
  <2>3. QED
        BY <1>3, <2>1, <2>2 DEF ReceiveLogin
<1>4. ASSUME NEW c \in Calls, ReceiveAnswer(c) PROVE Same \/ Ends(c)
  <2>1. pc[c] \in Busy /\ executed' = executed
        BY <1>4 DEF ReceiveAnswer, Busy, Waiting
  <2>2. CASE Goto(c, "login")
        BY <1>t, <2>1, <2>2, OutcomeInside DEF Busy, Same
  <2>3. CASE Goto(c, "returned") /\ reply[c].kind = "ok"
        BY <1>t, <1>e, <2>1, <2>3, OutcomeReturn, OutcomeValues DEF ExchangeOK, Ends
  <2>4. CASE Goto(c, "drillError") /\ reply[c].kind = "error"
        BY <1>t, <1>e, <2>1, <2>4, OutcomeReturn, OutcomeValues DEF ExchangeOK, Ends
  <2>5. CASE Goto(c, "authRejected") /\ reply[c].kind = "401"
        BY <1>t, <1>e, <2>1, <2>5, OutcomeReturn, OutcomeValues DEF ExchangeOK, Ends
  <2>6. QED
        BY <1>4, <2>2, <2>3, <2>4, <2>5 DEF ReceiveAnswer
<1>5. ASSUME NEW c \in Calls, TransportFailure(c) PROVE Ends(c)
      BY <1>5, <1>t, <1>e, OutcomeReturn, OutcomeValues DEF TransportFailure, Busy, Ends
<1>6. ASSUME NEW c \in Calls, DrillExecutes(c) PROVE Promise!TakeEffect(c)
  <2>1. executed[c] = 0 /\ pc[c] \in {"sent", "unreachable"}
        BY <1>6, <1>t DEF DrillExecutes, ExchangeOK, TypeOK, Busy, Waiting, Endings, AuthEndings
  <2>2. pc' = pc /\ executed' = [executed EXCEPT ![c] = 1]
        BY <1>6, <2>1 DEF DrillExecutes, clientVars
  <2>3. Outcomes' = Outcomes /\ Outcomes[c] \in {"open", "lost"}
        BY <2>1, <2>2, OutcomeValues DEF Outcomes, Busy, Waiting
  <2>4. QED
        BY <2>1, <2>2, <2>3 DEF Promise!TakeEffect, Outcomes
<1>7. ASSUME NEW c \in Calls,
             \/ DrillGrants(c) \/ DrillRefuses(c)
             \/ DrillUnauthorized(c) \/ DrillDenies(c)
      PROVE  Same
  <2>1. pc' = pc /\ executed' = executed
        BY <1>7 DEF DrillGrants, DrillRefuses, DrillUnauthorized, DrillDenies, clientVars
  <2>2. QED
        BY <2>1 DEF Same, Outcomes
<1>8. ASSUME NEW s \in Sessions, Expire(s) PROVE Same
      BY <1>8 DEF Expire, clientVars, Same, Outcomes
<1>9. CASE UNCHANGED vars
      BY <1>9, <1>s DEF vars, clientVars, Same, Outcomes
<1>10. QED
      BY <1>s, <1>1, <1>2, <1>3, <1>4, <1>5, <1>6, <1>7, <1>8, <1>9
         DEF Next, ClientStep, DrillStep, Promise!Next, Ends

\* RestSession implements AtMostOnce: retried 401s never run a request twice, and
\* the way a call ends says truly whether Drill ran it (client_rest.py:565-584).
THEOREM PromiseKept == Spec => KeepsPromise
<1>1. Init => Promise!Init
      BY OutcomeValues DEF Init, Promise!Init
<1>2. QED
      BY <1>1, PromiseStep, ExchangeCorrect, PTL DEF Spec, KeepsPromise, Promise!Spec

--------------------------------------------------------------------------------
(* The bound on the steps of a call. *)

\* What is ahead of a call at each place.
LEMMA StepsLeftAt ==
    ASSUME NEW c \in Calls
    PROVE  LET again == IF retrying[c] THEN 0 ELSE 5
           IN  /\ pc[c] = "check" => StepsLeft(c) = 6 + again
               /\ pc[c] = "login" => StepsLeft(c) = 5 + again
               /\ pc[c] = "loginSent" => StepsLeft(c) = 4 + again
               /\ pc[c] = "loggedIn" => StepsLeft(c) = 3 + again
               /\ pc[c] = "send" => StepsLeft(c) = 2 + again
               /\ pc[c] = "sent" => StepsLeft(c) = 1 + again
               /\ pc[c] \notin Busy => StepsLeft(c) = 0
BY DEF StepsLeft, Busy, Waiting

\* Its value is a number, and positive as long as the call runs.
LEMMA StepsLeftRange ==
    ASSUME NEW c \in Calls
    PROVE  /\ StepsLeft(c) \in 0..11
           /\ pc[c] \in Busy => StepsLeft(c) > 0
BY StepsLeftAt DEF Busy, Waiting

\* A step of a call's own thread takes one or more of them away.
LEMMA ClientStepsForward ==
    ASSUME TypeOK, NEW c \in Calls, ClientStep(c)
    PROVE  /\ pc[c] \in Busy
           /\ StepsLeft(c)' \in 0..(StepsLeft(c) - 1)
<1>1. pc \in [Calls -> {"new"} \cup Busy \cup Endings] /\ retrying \in [Calls -> BOOLEAN]
      BY DEF TypeOK
<1> USE <1>1 DEF Goto, StepsLeft, Busy, Waiting
<1>2. CASE CheckSession(c)
      BY <1>2 DEF CheckSession
<1>3. CASE StartLogin(c)
      BY <1>3 DEF StartLogin
<1>4. CASE ReceiveLogin(c)
      BY <1>4 DEF ReceiveLogin
<1>5. CASE FinishLogin(c)
      BY <1>5 DEF FinishLogin
<1>6. CASE SendRequest(c)
      BY <1>6 DEF SendRequest
<1>7. CASE ReceiveAnswer(c)
      BY <1>7 DEF ReceiveAnswer, Retries
<1>8. CASE TransportFailure(c)
      BY <1>8 DEF TransportFailure
<1>9. QED
      BY <1>2, <1>3, <1>4, <1>5, <1>6, <1>7, <1>8 DEF ClientStep

\* Nobody else moves it.
LEMMA OthersDoNotMove ==
    ASSUME TypeOK, NEW c \in Calls,
           \/ \E d \in Calls \ {c} : Begin(d) \/ ClientStep(d)
           \/ \E d \in Calls : DrillStep(d)
           \/ \E s \in Sessions : Expire(s)
           \/ UNCHANGED vars
    PROVE  UNCHANGED <<pc[c], retrying[c]>>
<1>1. pc \in [Calls -> {"new"} \cup Busy \cup Endings] /\ retrying \in [Calls -> BOOLEAN]
      BY DEF TypeOK
<1>2. ASSUME NEW d \in Calls, d # c, Begin(d) PROVE UNCHANGED <<pc[c], retrying[c]>>
      BY <1>1, <1>2 DEF Begin, Goto
<1>3. ASSUME NEW d \in Calls, d # c, ClientStep(d) PROVE UNCHANGED <<pc[c], retrying[c]>>
      BY <1>1, <1>3 DEF ClientStep, CheckSession, StartLogin, ReceiveLogin, FinishLogin,
                        SendRequest, ReceiveAnswer, TransportFailure, Goto
<1>4. ASSUME NEW d \in Calls, DrillStep(d) PROVE UNCHANGED <<pc[c], retrying[c]>>
      BY <1>4 DEF DrillStep, DrillGrants, DrillRefuses, DrillExecutes, DrillUnauthorized,
                  DrillDenies, clientVars
<1>5. ASSUME NEW s \in Sessions, Expire(s) PROVE UNCHANGED <<pc[c], retrying[c]>>
      BY <1>5 DEF Expire, clientVars
<1>6. CASE UNCHANGED vars
      BY <1>6 DEF vars, clientVars
<1>7. QED
      BY <1>2, <1>3, <1>4, <1>5, <1>6

\* Whatever the other calls do, a call is at most 11 of its own steps from its end,
\* and no step takes it back: the retry cannot loop (client_rest.py:565-584).
THEOREM StepsRunOutCorrect == Spec => StepsRunOut
<1>1. ASSUME TypeOK, [Next]_vars, NEW c \in Calls, pc[c] \in Busy
      PROVE  StepsLeft(c)' \in 0..(StepsLeft(c) - 1) \/ UNCHANGED <<pc[c], retrying[c]>>
      BY <1>1, ClientStepsForward, OthersDoNotMove DEF Next, Begin
<1>2. TypeOK /\ [Next]_vars =>
          [\A c \in Calls : pc[c] \in Busy =>
               StepsLeft(c)' \in 0..(StepsLeft(c) - 1) \/ UNCHANGED <<pc[c], retrying[c]>>]_vars
      BY <1>1
<1>3. QED
      BY <1>2, TypeCorrect, PTL DEF Spec, StepsRunOut

--------------------------------------------------------------------------------
(* The tools on top of the session. *)

\* One step of the server is one step of the transport, or invisible to it.
LEMMA SessionStep ==
    ASSUME [ServerNext]_serverVars
    PROVE  [Next]_vars
<1>1. ASSUME NEW c \in Calls, NEW j \in ToolCalls, Invoke(c, j) PROVE [Next]_vars
      BY <1>1 DEF Invoke, Next
<1>2. ASSUME NEW c \in Calls, ToolStep(c) PROVE [Next]_vars
      BY <1>2 DEF ToolStep, NextRequest, Return, Fail, Next
<1>3. CASE Transport
      BY <1>3 DEF Transport, Next
<1>4. QED
      BY <1>1, <1>2, <1>3 DEF ServerNext, serverVars

\* The tools begin a request only when their last one has ended: what is proved
\* of concurrent requests holds of the requests of concurrent tools
\* (server.py:114-262).
THEOREM UsesSession == ServerSpec => Spec
<1>1. ServerInit => Init
      BY DEF ServerInit
<1>2. QED
      BY <1>1, SessionStep, PTL DEF ServerSpec, Spec

\* So a tool call fails on authentication or transport only if a fault reached it,
\* also the second request of a call, made when another one has renewed the session.
THEOREM QuietToolsSucceed == ServerSpec => []QuietCallsSucceed
BY UsesSession, QuietCallsCorrect, PTL

--------------------------------------------------------------------------------
ToolOK(c) ==
    /\ job[c] \in ToolCalls \cup {NoToolCall}
    /\ stage[c] \in {"new", "open", "refused", "done", "failed", "lost"}
    /\ answers[c] \in 0..2
    /\ ran[c] \in 0..2
    /\ stage[c] # "new" => job[c] \in ToolCalls /\ ran[c] <= Size(c)
    /\ stage[c] \in {"new", "refused"} => ran[c] = 0
    /\ ran[c] > 0 => Admitted(job[c])
    /\ stage[c] \in {"open", "lost"} =>
           /\ Admitted(job[c])
           /\ ran[c] = answers[c] + executed[c]
           /\ answers[c] < Size(c)
    /\ pc[c] \in Busy => stage[c] = "open"
    /\ wire[c].kind # "none" => stage[c] \in {"open", "lost"}
    /\ stage[c] = "lost" => pc[c] = "unreachable"

(* A request on its way belongs to a call that was admitted and that has not   *)
(* ended, or has lost it; until then what Drill ran for the call is what was   *)
(* answered, and the request in progress if Drill has run that.                *)
ToolInv ==
    /\ DOMAIN job = Calls /\ DOMAIN stage = Calls
    /\ DOMAIN answers = Calls /\ DOMAIN ran = Calls
    /\ job = [c \in Calls |-> job[c]] /\ stage = [c \in Calls |-> stage[c]]
    /\ answers = [c \in Calls |-> answers[c]] /\ ran = [c \in Calls |-> ran[c]]
    /\ \A c \in Calls : ToolOK(c)

\* Every tool makes one request or two.
LEMMA SizeRange == \A c : job[c] \in ToolCalls => Size(c) \in {1, 2}
<1>1. \A tool \in DOMAIN Requests : Requests[tool] \in {1, 2}
      BY DEF Requests
<1>2. QED
      BY <1>1, ToolCallAssumption DEF Size

\* Initially no tool has been called.
LEMMA ToolInit == ServerInit => ToolInv
BY DEF ServerInit, Init, ToolInv, ToolOK, Busy, Waiting, Silence

\* Calling a tool.
LEMMA ToolInvoke ==
    ASSUME ExchangeInv, ToolInv, NEW c \in Calls, NEW j \in ToolCalls, Invoke(c, j)
    PROVE  ToolInv'
<1>1. Requests[j.tool] \in {1, 2}
      BY ToolCallAssumption DEF Requests
<1>2. ASSUME NEW d \in Calls PROVE ToolOK(d)'
  <2>t. /\ pc \in [Calls -> {"new"} \cup Busy \cup Endings]
        /\ executed \in [Calls -> 0..1]
        BY DEF ExchangeInv, TypeOK
  <2>1. /\ job' = [job EXCEPT ![c] = j]
        /\ answers' = [answers EXCEPT ![c] = 0] /\ ran' = [ran EXCEPT ![c] = 0]
        /\ wire' = wire /\ wire[c].kind = "none" /\ stage[c] # "open"
        /\ DOMAIN job = Calls /\ DOMAIN stage = Calls
        /\ DOMAIN answers = Calls /\ DOMAIN ran = Calls
        BY DEF Invoke, Begin, vars, Silence, ToolInv
  <2>2. ToolOK(d)
        BY DEF ToolInv
  <2>3. CASE Admitted(j) /\ Begin(c) /\ stage' = [stage EXCEPT ![c] = "open"]
    <3>1. /\ pc' = [pc EXCEPT ![c] = "check"] /\ executed' = [executed EXCEPT ![c] = 0]
          BY <2>3 DEF Begin, Goto
    <3>2. CASE d = c
          BY <1>1, <2>t, <2>1, <2>3, <3>1, <3>2 DEF ToolOK, Size, Admitted
    <3>3. CASE d # c
          BY <2>1, <2>2, <2>3, <3>1, <3>3 DEF ToolOK, Size, Admitted
    <3>4. QED
          BY <3>2, <3>3
  <2>4. CASE stage' = [stage EXCEPT ![c] = "refused"] /\ UNCHANGED vars
    <3>1. pc' = pc /\ executed' = executed
          BY <2>4 DEF vars, clientVars
    <3>2. CASE d = c
          BY <1>1, <2>t, <2>1, <2>2, <2>4, <3>1, <3>2 DEF ToolOK, Size
    <3>3. CASE d # c
          BY <2>1, <2>2, <2>4, <3>1, <3>3 DEF ToolOK, Size, Admitted
    <3>4. QED
          BY <3>2, <3>3
  <2>5. QED
        BY <2>3, <2>4 DEF Invoke
<1>3. QED
      BY <1>2 DEF ToolInv, Invoke

\* A tool reads the end of its request.
LEMMA ToolToolStep ==
    ASSUME ExchangeInv, ToolInv, NEW c \in Calls, ToolStep(c)
    PROVE  ToolInv'
<1>t. /\ pc \in [Calls -> {"new"} \cup Busy \cup Endings]
      /\ executed \in [Calls -> 0..1]
      /\ ExchangeOK(c)
      /\ \A d \in Calls : ToolOK(d)
      /\ DOMAIN stage = Calls /\ DOMAIN answers = Calls
      BY DEF ExchangeInv, TypeOK, ToolInv
<1>s. job[c] \in ToolCalls => Size(c) \in {1, 2}
      BY SizeRange
<1>1. CASE NextRequest(c)
  <2>1. /\ pc' = [pc EXCEPT ![c] = "check"] /\ executed' = [executed EXCEPT ![c] = 0]
        /\ wire' = wire /\ answers' = [answers EXCEPT ![c] = @ + 1]
        /\ job' = job /\ stage' = stage /\ ran' = ran
        /\ stage[c] = "open" /\ pc[c] = "returned" /\ answers[c] + 1 < Size(c)
        BY <1>1 DEF NextRequest, Begin, Goto
  <2>2. executed[c] = 1 /\ wire[c].kind = "none"
        BY <1>t, <2>1 DEF ExchangeOK, Endings
  <2>3. \A d \in Calls : ToolOK(d)'
        BY <1>t, <1>s, <2>1, <2>2 DEF ToolOK, Size, Admitted
  <2>4. QED
        BY <2>1, <2>3 DEF ToolInv
<1>2. CASE Return(c)
  <2>1. UNCHANGED <<pc, executed, wire, job, ran>>
        BY <1>2 DEF Return, vars, clientVars
  <2>2. executed[c] = 1 /\ wire[c].kind = "none"
        BY <1>2, <1>t DEF Return, ExchangeOK, Endings
  <2>3. \A d \in Calls : ToolOK(d)'
        BY <1>2, <1>t, <1>s, <2>1, <2>2 DEF Return, ToolOK, Size, Admitted, Busy, Waiting
  <2>4. QED
        BY <1>2, <2>1, <2>3 DEF ToolInv, Return
<1>3. CASE Fail(c)
  <2>1. UNCHANGED <<pc, executed, wire, job, ran>>
        BY <1>3 DEF Fail, vars, clientVars
  <2>2. pc[c] # "unreachable" => wire[c].kind = "none"
        BY <1>3, <1>t DEF Fail, ExchangeOK, Endings, AuthEndings
  <2>3. \A d \in Calls : ToolOK(d)'
        BY <1>3, <1>t, <1>s, <2>1, <2>2
           DEF Fail, ToolOK, Size, Admitted, Busy, Waiting, AuthEndings
  <2>4. QED
        BY <1>3, <2>1, <2>3 DEF ToolInv, Fail
<1>4. QED
      BY <1>1, <1>2, <1>3 DEF ToolStep

\* What a step below the tools can do to the request of any call.
LEMMA TransportEffect ==
    ASSUME ExchangeInv, NEW c \in Calls, ClientStep(c) \/ DrillStep(c), NEW d \in Calls
    PROVE  /\ pc'[d] # pc[d] => pc[d] \in Busy
           /\ wire'[d].kind # "none" => wire[d].kind # "none" \/ pc[d] \in Busy
           /\ \/ executed'[d] = executed[d]
              \/ wire[d].kind # "none" /\ executed[d] = 0 /\ executed'[d] = 1
<1>t. /\ pc \in [Calls -> {"new"} \cup Busy \cup Endings]
      /\ wire \in [Calls -> Message]
      /\ executed \in [Calls -> 0..1]
      /\ \A e \in Calls : ExchangeOK(e)
      BY DEF ExchangeInv, TypeOK
<1> USE DEF Busy, Waiting, Goto, Silence
<1>1. CASE CheckSession(c) \/ FinishLogin(c)
      BY <1>1, <1>t DEF CheckSession, FinishLogin
<1>2. CASE StartLogin(c) \/ SendRequest(c)
      BY <1>2, <1>t DEF StartLogin, SendRequest
<1>3. CASE ReceiveLogin(c) \/ ReceiveAnswer(c)
      BY <1>3, <1>t DEF ReceiveLogin, ReceiveAnswer
<1>4. CASE TransportFailure(c)
      BY <1>4, <1>t DEF TransportFailure
<1>5. CASE DrillStep(c) /\ ~DrillExecutes(c)
      BY <1>5, <1>t DEF DrillStep, DrillGrants, DrillRefuses, DrillUnauthorized,
         DrillDenies, Handled, clientVars
<1>6. CASE DrillExecutes(c)
      BY <1>6, <1>t DEF DrillExecutes, Handled, clientVars, ExchangeOK
<1>7. QED
      BY <1>1, <1>2, <1>3, <1>4, <1>5, <1>6 DEF ClientStep, DrillStep

\* Below the tools, only Drill adds to what was run, and only for a request that
\* its tool still waits for or has lost.
LEMMA ToolTransport ==
    ASSUME ExchangeInv, ToolInv, Transport
    PROVE  ToolInv'
<1>t. /\ executed \in [Calls -> 0..1]
      /\ \A d \in Calls : ToolOK(d)
      /\ ran' = [d \in Calls |-> ran[d] + (executed'[d] - executed[d])]
      /\ UNCHANGED <<job, stage, answers>>
      BY DEF ExchangeInv, TypeOK, ToolInv, Transport
<1>1. ASSUME NEW d \in Calls
      PROVE  /\ pc'[d] # pc[d] => pc[d] \in Busy
             /\ wire'[d].kind # "none" => wire[d].kind # "none" \/ pc[d] \in Busy
             /\ \/ executed'[d] = executed[d]
                \/ wire[d].kind # "none" /\ executed[d] = 0 /\ executed'[d] = 1
  <2>1. CASE \E s \in Sessions : Expire(s)
        BY <2>1 DEF Expire, clientVars
  <2>2. CASE \E c \in Calls : ClientStep(c) \/ DrillStep(c)
        BY <2>2, TransportEffect
  <2>3. QED
        BY <2>1, <2>2 DEF Transport
<1>2. ASSUME NEW d \in Calls PROVE ToolOK(d)'
  <2>1. /\ job[d] \in ToolCalls => Size(d) \in {1, 2}
        /\ Busy \cap {"unreachable"} = {}
        BY SizeRange DEF Busy, Waiting
  <2>2. Size(d)' = Size(d) /\ Admitted(job[d])' = Admitted(job[d])
        BY <1>t DEF Size, Admitted
  <2>3. ran'[d] = ran[d] + (executed'[d] - executed[d])
        BY <1>t
  <2>4. QED
        BY <1>t, <1>1, <2>1, <2>2, <2>3 DEF ToolOK
<1>3. QED
      BY <1>t, <1>2 DEF ToolInv

\* What Drill has run for a tool call is what was answered, and at most the one
\* request in progress; and only admitted calls have one (server.py:114-262).
THEOREM ToolsCorrect == ServerSpec => []ToolInv
<1>1. ExchangeInv /\ ToolInv /\ [ServerNext]_serverVars => ToolInv'
  <2> SUFFICES ASSUME ExchangeInv, ToolInv, [ServerNext]_serverVars PROVE ToolInv'
      OBVIOUS
  <2>1. CASE UNCHANGED serverVars
        BY <2>1 DEF serverVars, toolVars, vars, clientVars, ToolInv, ToolOK, Size, Admitted
  <2>2. CASE ServerNext
        BY <2>2, ToolInvoke, ToolToolStep, ToolTransport DEF ServerNext
  <2>3. QED
        BY <2>1, <2>2
<1>2. QED
      BY ToolInit, <1>1, UsesSession, ExchangeCorrect, PTL DEF ServerSpec

\* Type correctness of Server; a call never makes more requests than its tool has.
THEOREM ServerTypeCorrect == ServerSpec => []ServerTypeOK
<1>1. ExchangeInv /\ ToolInv => ServerTypeOK
      BY DEF ExchangeInv, ToolInv, ToolOK, ServerTypeOK
<1>2. QED
      BY <1>1, UsesSession, ExchangeCorrect, ToolsCorrect, PTL

--------------------------------------------------------------------------------
\* SQL that the guard lets through writes to writable schemas only, and to no
\* hidden ones that it can see (guard.py:186-235, 262-284).
LEMMA CheckedTargets ==
    ASSUME NEW t, SqlText(t), Check(t, InForce),
           NEW schema \in Schemas(t.targets \cup t.embedded)
    PROVE  Under(schema, InForce.writable) /\ ~Under(schema, KeptFrom(t, InForce))
<1>1. CheckAt(t, InForce, t.explains) /\ ~IsExplain(t, t.explains)
      BY DEF Check, SqlText, IsExplain
<1>2. PICK table \in t.targets \cup t.embedded :
          table.schema # <<>> /\ schema = Folded(table.schema)
      BY DEF Schemas, Resolved, Folded
<1>3. /\ table.schema \in Name /\ table.seen \in Nat
      /\ table.seen <= Len(table.schema)
      /\ table.seen = Len(table.schema) \/ table.seen >= 2
      /\ InForce.writable \in SUBSET Name /\ InForce.hidden \in SUBSET Name
      /\ Short(InForce.hidden) \in SUBSET Name
      BY InForceAssumption DEF SqlText, Table, Policy, Short
<1>4. t.kind \in {"create", "drop"} /\ CheckTargets(t, InForce) /\ table \in t.targets
      BY <1>1, <1>2 DEF CheckAt, CheckWrite, OneStatement, SqlText
<1>5. MatchesPrefix(table.schema, InForce.writable)
      BY <1>3, <1>4, HeadMatches DEF CheckTargets, SchemaPrefix
<1>6. ~MatchesPrefix(table.schema, Short(InForce.hidden))
  <2>1. ~MatchesPrefix(SchemaPrefix(table), InForce.hidden)
        BY <1>1, <1>4 DEF CheckAt, CheckHidden, ParsedTables, IsCommand
  <2>2. QED
        BY <1>3, <2>1, HeadMatches DEF SchemaPrefix, Short
<1>7. CASE ~IsCommand(t, 0)
      BY <1>2, <1>3, <1>5, <1>6, <1>7, MatchesPrefixMeaning DEF KeptFrom
<1>8. CASE IsCommand(t, 0)
  <2>1. \A entry \in InForce.hidden : ~HeadMentioned(entry, t)
        BY <1>8 DEF Check, CheckAt, CheckHidden, SqlText
  <2>2. ASSUME NEW entry \in InForce.hidden, entry # <<>>, Len(entry) <= Len(table.schema)
        PROVE  Lower[table.schema[1]] # Lower[entry[1]]
    <3>1. 1 \in DOMAIN table.schema
          BY <1>3, <2>2 DEF Name
    <3>2. Lower[table.schema[1]] \in Words(t)
          BY <1>4, <3>1 DEF Words
    <3>3. QED
          BY <2>1, <3>2 DEF HeadMentioned
  <2>3. ~MatchesPrefix(table.schema, InForce.hidden)
    <3> SUFFICES ASSUME NEW entry \in InForce.hidden, entry # <<>>,
                        Len(entry) <= Len(table.schema)
                 PROVE  \E i \in 1..Len(entry) : Lower[table.schema[i]] # Lower[entry[i]]
        BY DEF MatchesPrefix
    <3>1. 1 \in 1..Len(entry)
          BY <1>3 DEF Name
    <3>2. QED
          BY <2>2, <3>1
  <2>4. QED
        BY <1>2, <1>3, <1>5, <1>8, <2>3, MatchesPrefixMeaning DEF KeptFrom
<1>9. QED
      BY <1>7, <1>8

\* Whatever Drill has run for a tool call, however late, changes only what the
\* policy permits (server.py:121-138, client_rest.py:565-584).
THEOREM OnlyPermittedChangesCorrect == ServerSpec => []OnlyPermittedChanges
<1>1. ToolInv => OnlyPermittedChanges
  <2> SUFFICES ASSUME ToolInv, NEW c \in Calls, ran[c] > 0, job[c].tool = "run_query",
                      NEW schema \in Schemas(job[c].text.targets \cup job[c].text.embedded)
               PROVE  /\ Under(schema, InForce.writable)
                      /\ ~Under(schema, KeptFrom(job[c].text, InForce))
      BY DEF OnlyPermittedChanges
  <2>1. Admitted(job[c]) /\ job[c] \in ToolCalls
        BY DEF ToolInv, ToolOK
  <2>2. SqlText(job[c].text) /\ Check(job[c].text, InForce)
        BY <2>1, ToolCallAssumption DEF Admitted
  <2>3. QED
        BY <2>2, CheckedTargets
<1>2. QED
      BY <1>1, ToolsCorrect, PTL

--------------------------------------------------------------------------------
(* The refinement: stage, ran and answers are the promise's own variables.     *)

\* A step of a tool is a step of the promise.
LEMMA PromiseOfTool ==
    ASSUME ExchangeInv, ToolInv, NEW c \in Calls, ToolStep(c)
    PROVE  Promised!Next
<1>t. /\ ExchangeOK(c) /\ ToolOK(c)
      /\ answers = [d \in Calls |-> answers[d]]
      BY DEF ExchangeInv, ToolInv
<1>1. CASE NextRequest(c)
  <2>1. executed[c] = 1
        BY <1>1, <1>t DEF NextRequest, ExchangeOK
  <2>2. Promised!GoOn(c)
        BY <1>1, <1>t, <2>1 DEF NextRequest, ToolOK, Promised!GoOn
  <2>3. QED
        BY <2>2 DEF Promised!Next
<1>2. CASE Return(c)
  <2>1. executed[c] = 1
        BY <1>2, <1>t DEF Return, ExchangeOK
  <2>2. Promised!Finish(c, "done")
        BY <1>2, <1>t, <2>1 DEF Return, ToolOK, Promised!Finish
  <2>3. QED
        BY <2>2 DEF Promised!Next
<1>3. CASE Fail(c)
  <2>1. CASE pc[c] \in {"returned", "drillError"}
    <3>1. executed[c] = 1 /\ stage' = [stage EXCEPT ![c] = "failed"]
          BY <1>3, <1>t, <2>1 DEF Fail, ExchangeOK, AuthEndings
    <3>2. answers' = [answers EXCEPT ![c] = @ + 1]
          BY <1>3, <2>1 DEF Fail, AuthEndings
    <3>3. Promised!Finish(c, "failed")
          BY <1>3, <1>t, <3>1, <3>2 DEF Fail, ToolOK, Promised!Finish
    <3>4. QED
          BY <3>3 DEF Promised!Next
  <2>2. CASE pc[c] \in AuthEndings
    <3>1. executed[c] = 0 /\ stage' = [stage EXCEPT ![c] = "failed"] /\ answers' = answers
          BY <1>3, <1>t, <2>2 DEF Fail, ExchangeOK, AuthEndings
    <3>2. stage[c] = "open" /\ ran' = ran
          BY <1>3 DEF Fail
    <3>3. ran[c] = answers[c]
          BY <1>t, <3>1, <3>2 DEF ToolOK
    <3>4. answers = [answers EXCEPT ![c] = ran[c]]
          BY <1>t, <3>3
    <3>5. Promised!Finish(c, "failed")
          BY <3>1, <3>2, <3>4 DEF Promised!Finish
    <3>6. QED
          BY <3>5 DEF Promised!Next
  <2>3. CASE pc[c] = "unreachable"
    <3>1. Promised!Finish(c, "lost")
          BY <1>3, <2>3 DEF Fail, AuthEndings, Promised!Finish
    <3>2. QED
          BY <3>1 DEF Promised!Next
  <2>4. QED
        BY <1>3, <2>1, <2>2, <2>3 DEF Fail
<1>4. QED
      BY <1>1, <1>2, <1>3 DEF ToolStep

\* Below the tools, a run of a request is the one step the client's view knows.
LEMMA PromiseOfTransport ==
    ASSUME ExchangeInv, ToolInv, Transport
    PROVE  [Promised!Next]_(Promised!promiseVars)
<1>t. /\ ran' = [d \in Calls |-> ran[d] + (executed'[d] - executed[d])]
      /\ ran = [d \in Calls |-> ran[d]]
      /\ \A d \in Calls : ran[d] \in 0..2
      /\ executed \in [Calls -> 0..1]
      /\ UNCHANGED <<job, stage, answers>>
      BY DEF Transport, ToolInv, ToolOK, ExchangeInv, TypeOK
<1>1. CASE \E c \in Calls : DrillExecutes(c)
  <2>1. PICK c \in Calls : DrillExecutes(c)
        BY <1>1
  <2>2. ExchangeOK(c) /\ ToolOK(c)
        BY DEF ExchangeInv, ToolInv
  <2>3. executed' = [executed EXCEPT ![c] = @ + 1] /\ executed[c] = 0
        BY <2>1, <2>2 DEF DrillExecutes, ExchangeOK
  <2>4. ran' = [ran EXCEPT ![c] = @ + 1]
    <3>1. \A d \in Calls : ran'[d] = IF d = c THEN ran[d] + 1 ELSE ran[d]
          BY <1>t, <2>3
    <3>2. QED
          BY <1>t, <3>1
  <2>5. stage[c] \in {"open", "lost"} /\ ran[c] = answers[c]
        BY <2>1, <2>2, <2>3 DEF DrillExecutes, ToolOK
  <2>6. Promised!TakeEffect(c)
        BY <1>t, <2>4, <2>5 DEF Promised!TakeEffect
  <2>7. QED
        BY <2>6 DEF Promised!Next
<1>2. CASE ~\E c \in Calls : DrillExecutes(c)
  <2>1. executed' = executed
    <3>1. ASSUME NEW s \in Sessions, Expire(s) PROVE executed' = executed
          BY <3>1 DEF Expire
    <3>2. ASSUME NEW c \in Calls, ClientStep(c) PROVE executed' = executed
          BY <3>2 DEF ClientStep, CheckSession, StartLogin, ReceiveLogin, FinishLogin,
             SendRequest, ReceiveAnswer, TransportFailure
    <3>3. ASSUME NEW c \in Calls, DrillStep(c) PROVE executed' = executed
          BY <1>2, <3>3 DEF DrillStep, DrillGrants, DrillRefuses, DrillUnauthorized,
             DrillDenies
    <3>4. QED
          BY <3>1, <3>2, <3>3 DEF Transport
  <2>2. ran' = ran
    <3>1. \A d \in Calls : ran'[d] = ran[d]
          BY <1>t, <2>1
    <3>2. QED
          BY <1>t, <3>1
  <2>3. QED
        BY <1>t, <2>2 DEF Promised!promiseVars
<1>3. QED
      BY <1>1, <1>2

\* Server implements ToolPromise: the ending of a tool call says truly what Drill
\* has run for it, over one request or two (server.py:114-262).
THEOREM ToolPromiseKept == ServerSpec => KeepsToolPromise
<1>1. ServerInit => Promised!Init
      BY DEF ServerInit, Promised!Init
<1>2. ExchangeInv /\ ToolInv /\ [ServerNext]_serverVars
          => [Promised!Next]_(Promised!promiseVars)
  <2> SUFFICES ASSUME ExchangeInv, ToolInv, [ServerNext]_serverVars
               PROVE  [Promised!Next]_(Promised!promiseVars)
      OBVIOUS
  <2>1. ASSUME NEW c \in Calls, NEW j \in ToolCalls, Invoke(c, j) PROVE Promised!Start(c)
        BY <2>1 DEF Invoke, Promised!Start
  <2>2. CASE UNCHANGED serverVars
        BY <2>2 DEF serverVars, toolVars, Promised!promiseVars
  <2>3. QED
        BY <2>1, <2>2, PromiseOfTool, PromiseOfTransport DEF ServerNext, Promised!Next
<1>3. QED
      BY <1>1, <1>2, UsesSession, ExchangeCorrect, ToolsCorrect, PTL
         DEF ServerSpec, KeepsToolPromise, Promised!Spec

--------------------------------------------------------------------------------
(* What the promise means in a state, from the promise alone.                  *)
PromiseInv ==
    /\ DOMAIN stage = Calls /\ DOMAIN answers = Calls /\ DOMAIN ran = Calls
    /\ \A c \in Calls :
           /\ answers[c] \in Nat /\ ran[c] \in {answers[c], answers[c] + 1}
           /\ stage[c] \in {"new", "refused", "done", "failed"} => ran[c] = answers[c]
           /\ stage[c] = "refused" => ran[c] = 0

LEMMA PromiseMeaning == KeepsToolPromise => []PromiseInv
<1>1. Promised!Init => PromiseInv
      BY DEF Promised!Init, PromiseInv
<1>2. PromiseInv /\ [Promised!Next]_(Promised!promiseVars) => PromiseInv'
  <2> SUFFICES ASSUME PromiseInv, [Promised!Next]_(Promised!promiseVars)
               PROVE  PromiseInv'
      OBVIOUS
  <2> USE DEF PromiseInv
  <2>1. ASSUME NEW c \in Calls, Promised!Start(c) PROVE PromiseInv'
        BY <2>1 DEF Promised!Start
  <2>2. ASSUME NEW c \in Calls, Promised!TakeEffect(c) PROVE PromiseInv'
        BY <2>2 DEF Promised!TakeEffect
  <2>3. ASSUME NEW c \in Calls, Promised!GoOn(c) PROVE PromiseInv'
        BY <2>3 DEF Promised!GoOn
  <2>4. ASSUME NEW c \in Calls, NEW how \in {"done", "failed", "lost"},
               Promised!Finish(c, how)
        PROVE  PromiseInv'
        BY <2>4 DEF Promised!Finish
  <2>5. CASE UNCHANGED Promised!promiseVars
        BY <2>5 DEF Promised!promiseVars
  <2>6. QED
        BY <2>1, <2>2, <2>3, <2>4, <2>5 DEF Promised!Next
<1>3. QED
      BY <1>1, <1>2, PTL DEF KeepsToolPromise, Promised!Spec

\* A result means that every request of the tool has been answered
\* (server.py:114-262).
AllAnswered ==
    /\ DOMAIN stage = Calls /\ DOMAIN answers = Calls /\ DOMAIN job = Calls
    /\ \A c \in Calls : stage[c] = "done" => answers[c] = Size(c)

LEMMA DoneIsComplete == ServerSpec => []AllAnswered
<1>1. ServerInit => AllAnswered
      BY DEF ServerInit, AllAnswered
<1>2. AllAnswered /\ [ServerNext]_serverVars => AllAnswered'
  <2> SUFFICES ASSUME AllAnswered, [ServerNext]_serverVars PROVE AllAnswered'
      OBVIOUS
  <2> USE DEF AllAnswered, Size
  <2>1. ASSUME NEW c \in Calls, NEW j \in ToolCalls, Invoke(c, j) PROVE AllAnswered'
        BY <2>1 DEF Invoke
  <2>2. ASSUME NEW c \in Calls, NextRequest(c) PROVE AllAnswered'
        BY <2>2 DEF NextRequest
  <2>3. ASSUME NEW c \in Calls, Return(c) PROVE AllAnswered'
        BY <2>3 DEF Return
  <2>4. ASSUME NEW c \in Calls, Fail(c) PROVE AllAnswered'
        BY <2>4 DEF Fail
  <2>5. CASE Transport
        BY <2>5 DEF Transport
  <2>6. CASE UNCHANGED serverVars
        BY <2>6 DEF serverVars, toolVars
  <2>7. QED
        BY <2>1, <2>2, <2>3, <2>4, <2>5, <2>6 DEF ServerNext, ToolStep
<1>3. QED
      BY <1>1, <1>2, PTL DEF ServerSpec

\* What a client can read off the way a tool call has ended (server.py:114-262,
\* client_rest.py:565-584).
THEOREM EndingsAreTrueCorrect == ServerSpec => []EndingsAreTrue
<1>1. PromiseInv /\ AllAnswered => EndingsAreTrue
      BY DEF PromiseInv, AllAnswered, EndingsAreTrue
<1>2. QED
      BY <1>1, ToolPromiseKept, PromiseMeaning, DoneIsComplete, PTL

--------------------------------------------------------------------------------
(* The bound on the steps of a tool call. *)

\* Between requests as within one, what is left of a call is a number.
LEMMA ToolStepsLeftRange ==
    ASSUME ToolInv, NEW c \in Calls, stage[c] = "open"
    PROVE  ToolStepsLeft(c) \in 1..35
<1>1. ToolOK(c)
      BY DEF ToolInv
<1>2. Size(c) \in {1, 2} /\ answers[c] \in 0..2 /\ answers[c] < Size(c)
      BY <1>1, SizeRange DEF ToolOK
<1>3. QED
      BY <1>2, StepsLeftRange DEF ToolStepsLeft

\* A tool begins its second request, for which the first has paid.
LEMMA NextRequestForward ==
    ASSUME ExchangeInv, ToolInv, NEW c \in Calls, NextRequest(c)
    PROVE  ToolStepsLeft(c)' \in 0..(ToolStepsLeft(c) - 1)
<1>1. /\ pc \in [Calls -> {"new"} \cup Busy \cup Endings]
      /\ retrying \in [Calls -> BOOLEAN]
      /\ ToolOK(c) /\ DOMAIN answers = Calls
      BY DEF ExchangeInv, TypeOK, ToolInv
<1>2. Size(c) \in {1, 2} /\ answers[c] \in 0..2 /\ StepsLeft(c) \in 0..11
      BY <1>1, SizeRange, StepsLeftRange DEF ToolOK, NextRequest
<1>3. Size(c)' = Size(c) /\ answers'[c] = answers[c] + 1
      BY <1>1 DEF NextRequest, Size
<1>4. pc'[c] = "check" /\ retrying'[c] = FALSE
      BY <1>1 DEF NextRequest, Begin, Goto
<1>5. StepsLeft(c)' = 11
      BY <1>4 DEF StepsLeft, Busy, Waiting
<1>6. StepsLeft(c) = 0
      BY DEF NextRequest, StepsLeft, Busy, Waiting
<1>7. /\ ToolStepsLeft(c) = 12 * (Size(c) - answers[c])
      /\ ToolStepsLeft(c)' = 12 * (Size(c) - (answers[c] + 1)) + 11
      BY <1>2, <1>3, <1>5, <1>6 DEF ToolStepsLeft
<1>8. Size(c) - answers[c] = 2
      BY <1>2 DEF NextRequest
<1>9. QED
      BY <1>2, <1>7, <1>8

\* The steps below the tools.
LEMMA TransportForward ==
    ASSUME ExchangeInv, ToolInv, Transport, NEW c \in Calls, stage[c] = "open"
    PROVE  \/ ToolStepsLeft(c)' \in 0..(ToolStepsLeft(c) - 1)
           \/ UNCHANGED <<pc[c], retrying[c], answers[c]>>
<1>1. Size(c)' = Size(c) /\ answers'[c] = answers[c] /\ TypeOK /\ ToolOK(c)
      BY DEF Transport, Size, ExchangeInv, ToolInv
<1>2. Size(c) - answers[c] \in 1..2
      BY <1>1, SizeRange DEF ToolOK
<1>3. CASE ClientStep(c)
  <2>1. /\ StepsLeft(c) \in 0..11 /\ StepsLeft(c)' \in 0..(StepsLeft(c) - 1)
        BY <1>1, <1>3, ClientStepsForward, StepsLeftRange
  <2>2. /\ ToolStepsLeft(c) = 12 * (Size(c) - answers[c]) + StepsLeft(c)
        /\ ToolStepsLeft(c)' = 12 * (Size(c) - answers[c]) + StepsLeft(c)'
        BY <1>1 DEF ToolStepsLeft
  <2>3. QED
        BY <1>2, <2>1, <2>2
<1>4. CASE ~ClientStep(c)
      BY <1>1, <1>4, OthersDoNotMove DEF Transport
<1>5. QED
      BY <1>3, <1>4

\* Whatever the other tools do, a tool call is at most 35 steps of its own from its
\* end, and no step takes it back: neither the retry of a request nor the second
\* request can loop (server.py:114-262, client_rest.py:301-331, 565-584).
THEOREM ToolStepsRunOutCorrect == ServerSpec => ToolStepsRunOut
<1>1. ASSUME ExchangeInv, ToolInv, [ServerNext]_serverVars,
             NEW c \in Calls, stage[c] = "open"
      PROVE  \/ stage'[c] # "open"
             \/ ToolStepsLeft(c)' \in 0..(ToolStepsLeft(c) - 1)
             \/ UNCHANGED <<pc[c], retrying[c], answers[c]>>
  <2>t. TypeOK /\ DOMAIN stage = Calls /\ DOMAIN answers = Calls
        BY <1>1 DEF ExchangeInv, ToolInv
  <2>1. ASSUME NEW d \in Calls, NEW j \in ToolCalls, Invoke(d, j)
        PROVE  UNCHANGED <<pc[c], retrying[c], answers[c]>>
    <3>1. d # c /\ answers'[c] = answers[c]
          BY <1>1, <2>t, <2>1 DEF Invoke
    <3>2. QED
          BY <2>t, <2>1, <3>1, OthersDoNotMove DEF Invoke
  <2>2. ASSUME NEW d \in Calls, d # c, ToolStep(d)
        PROVE  UNCHANGED <<pc[c], retrying[c], answers[c]>>
    <3>1. answers'[c] = answers[c]
          BY <2>t, <2>2 DEF ToolStep, NextRequest, Return, Fail
    <3>2. QED
          BY <2>t, <2>2, <3>1, OthersDoNotMove DEF ToolStep, NextRequest, Return, Fail
  <2>3. ASSUME Return(c) \/ Fail(c) PROVE stage'[c] # "open"
        BY <2>t, <2>3 DEF Return, Fail
  <2>4. CASE UNCHANGED serverVars
        BY <2>4 DEF serverVars, vars, clientVars, toolVars
  <2>5. QED
        BY <1>1, <2>1, <2>2, <2>3, <2>4, NextRequestForward, TransportForward
           DEF ServerNext, ToolStep
<1>2. ExchangeInv /\ ToolInv /\ [ServerNext]_serverVars =>
          [\A c \in Calls : stage[c] = "open" =>
               \/ stage'[c] # "open"
               \/ ToolStepsLeft(c)' \in 0..(ToolStepsLeft(c) - 1)
               \/ UNCHANGED <<pc[c], retrying[c], answers[c]>>]_serverVars
      BY <1>1
<1>3. QED
      BY <1>2, UsesSession, ExchangeCorrect, ToolsCorrect, PTL DEF ServerSpec, ToolStepsRunOut
================================================================================
