------------------------------ MODULE RestSession ------------------------------
(***************************************************************************)
(* The transport of drill_mcp/client_rest.py: RestClient._request and      *)
(* RestClient._login, run by several tool calls at the same time.          *)
(*                                                                         *)
(* One RestClient serves the whole process and the MCP SDK runs tools on   *)
(* worker threads, so the calls share, without a lock, the flag            *)
(* `_authenticated` and the cookie jar inside `httpx.Client`.  A step here *)
(* makes at most one access to that shared state.  A call is one execution *)
(* of `_request`; what the Drillbit and the network do is external, and    *)
(* is allowed everything the code has a branch for.                        *)
(***************************************************************************)
EXTENDS Naturals

CONSTANTS
    Calls,      \* executions of _request that may be in progress together
    Sessions,   \* session cookies the Drillbit can hand out
    NoSession,  \* an empty cookie jar
    AuthMode    \* config.auth

ASSUME SessionAssumption == NoSession \notin Sessions
ASSUME AuthModeAssumption == AuthMode \in {"none", "basic", "kerberos"}

VARIABLES
    authenticated,  \* RestClient._authenticated
    jar,            \* session cookie in the jar of RestClient._http
    pc,             \* pc[c]: where call c is in _request / _login, or its ending
    retrying,       \* retrying[c]: c is past the first 401 (lines 571-573)
    wire,           \* wire[c]: c's message that Drill has not handled yet
    reply,          \* reply[c]: Drill's reply that c has not read yet
    live,           \* sessions the Drillbit accepts
    executed,       \* executed[c]: how often Drill has run c's request
    disturbed       \* history: calls that overlap a fault (see QuietCallsSucceed)

clientVars == <<authenticated, jar, pc, retrying>>
vars == <<clientVars, wire, reply, live, executed, disturbed>>

Basic == AuthMode = "basic"

Waiting == {"loginSent", "sent"}
Busy == {"check", "login", "loggedIn", "send"} \cup Waiting
AuthEndings == {"authFailed", "authRejected"}
Endings == {"returned", "drillError", "unreachable"} \cup AuthEndings

Running == {c \in Calls : pc[c] \in Busy}

Message == [kind : {"none", "login", "api"}, session : Sessions \cup {NoSession}]
Reply == [kind : {"none", "granted", "refused", "ok", "error", "401"},
          session : Sessions \cup {NoSession}]

Silence == [kind |-> "none", session |-> NoSession]
Answer(kind) == [kind |-> kind, session |-> NoSession]

TypeOK ==
    /\ authenticated \in BOOLEAN
    /\ jar \in Sessions \cup {NoSession}
    /\ pc \in [Calls -> {"new"} \cup Busy \cup Endings]
    /\ retrying \in [Calls -> BOOLEAN]
    /\ wire \in [Calls -> Message]
    /\ reply \in [Calls -> Reply]
    /\ live \subseteq Sessions
    /\ executed \in [Calls -> 0..1]
    /\ disturbed \subseteq Calls

Init ==
    /\ authenticated = FALSE
    /\ jar = NoSession
    /\ pc = [c \in Calls |-> "new"]
    /\ retrying = [c \in Calls |-> FALSE]
    /\ wire = [c \in Calls |-> Silence]
    /\ reply = [c \in Calls |-> Silence]
    /\ live = {}
    /\ executed = [c \in Calls |-> 0]
    /\ disturbed = {}

Goto(c, label) == pc' = [pc EXCEPT ![c] = label]

--------------------------------------------------------------------------------
(* The calling thread. *)

\* A tool reaches _request.  The name c is free again once its previous call
\* has ended and left nothing behind that Drill could still act on.
Begin(c) ==
    /\ pc[c] \notin Busy
    /\ wire[c] = Silence
    /\ Goto(c, "check")
    /\ retrying' = [retrying EXCEPT ![c] = FALSE]
    /\ executed' = [executed EXCEPT ![c] = 0]
    /\ disturbed' = IF Running \cap disturbed = {}
                    THEN disturbed \ {c}
                    ELSE disturbed \cup {c}
    /\ UNCHANGED <<authenticated, jar, wire, reply, live>>

\* `if not self._authenticated: self._login()`.
CheckSession(c) ==
    /\ pc[c] = "check"
    /\ Goto(c, IF authenticated THEN "send" ELSE "login")
    /\ UNCHANGED <<authenticated, jar, retrying, wire, reply, live, executed, disturbed>>

StartLogin_MarksFirst(c) ==
    /\ pc[c] = "login"
    /\ authenticated' = TRUE
    /\ IF Basic
       THEN /\ wire' = [wire EXCEPT ![c] = [kind |-> "login", session |-> jar]]
            /\ Goto(c, "loginSent")
       ELSE /\ Goto(c, "send")
            /\ UNCHANGED wire
    /\ UNCHANGED <<jar, retrying, reply, live, executed, disturbed>>

StartLogin_InEveryMode(c) ==
    /\ pc[c] = "login"
    /\ wire' = [wire EXCEPT ![c] = [kind |-> "login", session |-> jar]]
    /\ Goto(c, "loginSent")
    /\ UNCHANGED <<authenticated, jar, retrying, reply, live, executed, disturbed>>

\* _login up to its POST to /j_security_check, which leaves with whatever cookie
\* the jar holds.  In a mode without a login form it only raises the flag.
StartLogin(c) ==
    /\ pc[c] = "login"
    /\ IF Basic
       THEN /\ wire' = [wire EXCEPT ![c] = [kind |-> "login", session |-> jar]]
            /\ Goto(c, "loginSent")
            /\ UNCHANGED authenticated
       ELSE /\ authenticated' = TRUE
            /\ Goto(c, "send")
            /\ UNCHANGED wire
    /\ UNCHANGED <<jar, retrying, reply, live, executed, disturbed>>

\* httpx stores the cookie of the login's answer in the shared jar; an HTTP
\* error or the invalid-credentials marker in the body ends the call.
ReceiveLogin(c) ==
    /\ pc[c] = "loginSent"
    /\ \/ /\ reply[c].kind = "granted"
          /\ jar' = reply[c].session
          /\ Goto(c, "loggedIn")
       \/ /\ reply[c].kind = "refused"
          /\ Goto(c, "authFailed")
          /\ UNCHANGED jar
    /\ reply' = [reply EXCEPT ![c] = Silence]
    /\ UNCHANGED <<authenticated, retrying, wire, live, executed, disturbed>>

\* `self._authenticated = True`, the last statement of _login.
FinishLogin(c) ==
    /\ pc[c] = "loggedIn"
    /\ authenticated' = TRUE
    /\ Goto(c, "send")
    /\ UNCHANGED <<jar, retrying, wire, reply, live, executed, disturbed>>

\* `self._http.request(...)`: the first attempt, or the one after the re-login.
SendRequest(c) ==
    /\ pc[c] = "send"
    /\ wire' = [wire EXCEPT ![c] = [kind |-> "api", session |-> jar]]
    /\ Goto(c, "sent")
    /\ UNCHANGED <<authenticated, jar, retrying, reply, live, executed, disturbed>>

Retries_EveryError(c) ==
    reply[c].kind \in {"401", "error"} /\ Basic /\ ~retrying[c]
Retries_Always(c) == reply[c].kind = "401" /\ Basic
Retries_InEveryMode(c) == reply[c].kind = "401" /\ ~retrying[c]
Retries_Never(c) == FALSE

\* `response.status_code == 401 and self._config.auth == "basic"`, a test that
\* only the first attempt reaches.
Retries(c) == reply[c].kind = "401" /\ Basic /\ ~retrying[c]

\* The answer to the request.  A first 401 in basic mode lowers the flag and
\* logs in again; every other answer ends the call.
ReceiveAnswer(c) ==
    /\ pc[c] = "sent"
    /\ \/ /\ reply[c].kind = "ok"
          /\ Goto(c, "returned")
          /\ UNCHANGED <<authenticated, retrying>>
       \/ /\ Retries(c)
          /\ authenticated' = FALSE
          /\ retrying' = [retrying EXCEPT ![c] = TRUE]
          /\ Goto(c, "login")
       \/ /\ reply[c].kind = "401" /\ ~Retries(c)
          /\ Goto(c, "authRejected")
          /\ UNCHANGED <<authenticated, retrying>>
       \/ /\ reply[c].kind = "error" /\ ~Retries(c)
          /\ Goto(c, "drillError")
          /\ UNCHANGED <<authenticated, retrying>>
    /\ reply' = [reply EXCEPT ![c] = Silence]
    /\ UNCHANGED <<jar, wire, live, executed, disturbed>>

\* httpx raises HTTPError: no connection, a broken one, or a timeout.  Drill may
\* never see the message, may have answered it already, or may still get to it.
TransportFailure(c) ==
    /\ pc[c] \in Waiting
    /\ Goto(c, "unreachable")
    /\ wire' \in {wire, [wire EXCEPT ![c] = Silence]}
    /\ reply' = [reply EXCEPT ![c] = Silence]
    /\ disturbed' = disturbed \cup {c}
    /\ UNCHANGED <<authenticated, jar, retrying, live, executed>>

--------------------------------------------------------------------------------
(* The Drillbit and the network: external. *)

\* Drill has handled c's message; a caller that has given up hears nothing.
Handled(c, answer) ==
    /\ wire' = [wire EXCEPT ![c] = Silence]
    /\ reply' = IF pc[c] \in Waiting
                THEN [reply EXCEPT ![c] = answer]
                ELSE reply

\* Session identifiers nobody refers to any more stand for fresh ones.
FreshSessions ==
    Sessions \ (live \cup {jar} \cup {wire[c].session : c \in Calls}
                     \cup {reply[c].session : c \in Calls})

DrillGrants(c) ==
    /\ wire[c].kind = "login"
    /\ \E s \in FreshSessions :
           /\ live' = live \cup {s}
           /\ Handled(c, [kind |-> "granted", session |-> s])
    /\ UNCHANGED <<clientVars, executed, disturbed>>

\* A wrong password (HTTP 200 and the marker) or an HTTP error from the form.
DrillRefuses(c) ==
    /\ wire[c].kind = "login"
    /\ Handled(c, Answer("refused"))
    /\ disturbed' = disturbed \cup {c}
    /\ UNCHANGED <<clientVars, live, executed>>

\* Without a login form (auth: none, kerberos) Drill does not need the cookie.
Accepted(c) == Basic => wire[c].session \in live

\* Drill runs the request and answers with its result or with an error text.
DrillExecutes(c) ==
    /\ wire[c].kind = "api"
    /\ Accepted(c)
    /\ executed' = [executed EXCEPT ![c] = @ + 1]
    /\ \E kind \in {"ok", "error"} : Handled(c, Answer(kind))
    /\ UNCHANGED <<clientVars, live, disturbed>>

DrillUnauthorized(c) ==
    /\ wire[c].kind = "api"
    /\ ~Accepted(c)
    /\ Handled(c, Answer("401"))
    /\ UNCHANGED <<clientVars, live, executed, disturbed>>

\* Drill turns down a request although its session is good.
DrillDenies(c) ==
    /\ wire[c].kind = "api"
    /\ Accepted(c)
    /\ Handled(c, Answer("401"))
    /\ disturbed' = disturbed \cup {c}
    /\ UNCHANGED <<clientVars, live, executed>>

\* A session ends: its idle time runs out, the Drillbit restarts, or a login
\* replaces it.  Every call in progress may notice.
Expire(s) ==
    /\ s \in live
    /\ live' = live \ {s}
    /\ disturbed' = disturbed \cup Running
    /\ UNCHANGED <<clientVars, wire, reply, executed>>

--------------------------------------------------------------------------------
ClientStep(c) ==
    \/ CheckSession(c) \/ StartLogin(c) \/ ReceiveLogin(c)
    \/ FinishLogin(c) \/ SendRequest(c) \/ ReceiveAnswer(c) \/ TransportFailure(c)

DrillStep(c) ==
    \/ DrillGrants(c) \/ DrillRefuses(c)
    \/ DrillExecutes(c) \/ DrillUnauthorized(c) \/ DrillDenies(c)

Next ==
    \/ \E c \in Calls : Begin(c) \/ ClientStep(c) \/ DrillStep(c)
    \/ \E s \in Sessions : Expire(s)

Spec == Init /\ [][Next]_vars

--------------------------------------------------------------------------------
(* Properties. *)

\* In basic mode no API request leaves without a session cookie that Drill
\* granted, in whatever order the threads test, lower and raise the unguarded
\* `_authenticated` (client_rest.py:566, 571, 552).
NeverAnonymous ==
    Basic => \A c \in Calls : wire[c].kind = "api" => wire[c].session \in Sessions

\* Logging in and asking again are for basic mode only: in the other modes no
\* message to the login form is ever on its way to Drill, whichever call finds the
\* flag down, and after a 401 no call sends its request again
\* (client_rest.py:521, 570).
RecoveryOnlyInBasicMode ==
    ~Basic => \A c \in Calls : wire[c].kind # "login" /\ ~retrying[c]

\* However stale the flag and the jar were left by expired sessions, lost
\* logins and racing re-logins, a call fails on authentication or transport
\* only if a fault hit it: a message of its own was lost or refused, a session
\* ended while it ran, or it began while a call hit by one was still running.
\* One re-login (client_rest.py:570-573) is enough to recover.
QuietCallsSucceed ==
    \A c \in Calls : pc[c] \in AuthEndings \cup {"unreachable"} => c \in disturbed

\* How many steps a call has still to take, at most: those to its answer, and once
\* more those from the login form if it has not been sent back there yet.
StepsLeft(c) ==
    LET ahead == [check |-> 6, login |-> 5, loginSent |-> 4, loggedIn |-> 3, send |-> 2, sent |-> 1]
    IN  IF pc[c] \notin Busy THEN 0
        ELSE IF retrying[c] THEN ahead[pc[c]] ELSE ahead[pc[c]] + 5

\* Every step of its thread brings a call nearer to its end, within 11 steps: the
\* retry cannot loop (client_rest.py:569-584).  Nothing that another call, Drill or
\* an expiring session does to the shared flag and jar takes it back.
StepsRunOut ==
    [][\A c \in Calls : pc[c] \in Busy =>
           StepsLeft(c)' \in 0..(StepsLeft(c) - 1) \/ UNCHANGED <<pc[c], retrying[c]>>]_vars

(* The promise of one call, with the endings of _request as the caller sees    *)
(* them: an answer, an authentication error, or a transport error.             *)
Outcome(label) ==
    CASE label = "new" -> "new"
      [] label \in Busy -> "open"
      [] label \in {"returned", "drillError"} -> "done"
      [] label \in AuthEndings -> "refused"
      [] label = "unreachable" -> "lost"

Promise == INSTANCE AtMostOnce
               WITH outcome <- [c \in Calls |-> Outcome(pc[c])], effects <- executed

\* Drill runs a request at most once although 401s are retried, never after an
\* authentication error was reported, and exactly once when its answer was
\* returned (client_rest.py:565-584).
KeepsPromise == Promise!Spec
================================================================================
