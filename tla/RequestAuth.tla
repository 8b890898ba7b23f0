---------------------------- MODULE RequestAuth ----------------------------
(***************************************************************************)
(* An HTTP request on its way to the application: origin check, local      *)
(* token, service token, and OAuth introspection at a control service,     *)
(* which concurrent requests with one token and one required scope share.  *)
(*                                                                         *)
(* Tokens, claims and bodies are reduced to the scopes they stand for.     *)
(* A claims object is its set of scopes; {} is None, for every claims      *)
(* object the code builds has a scope.                                     *)
(***************************************************************************)
EXTENDS Integers, FiniteSets

CONSTANTS
    Requests,       \* connections, each with one request at a time
    Tokens,         \* OAuth access tokens
    Entitled,       \* Entitled[t]: scopes control grants to t until it is revoked
    Modes,          \* sets of configured credentials: "local", "service", "oauth"
    ServiceScopes,  \* service_token_scopes()
    Arrivals,       \* requests that may arrive: records of Request
    MaxInflight     \* _OAUTH_INTROSPECTION_MAX_INFLIGHT

Scopes == {"connect", "invoke", "review", "status", "chat"}
Tools  == {"agent_result", "review_pull_request", "list_models", "agent"}
Request == [path : {"public", "status", "v1", "mcp"}, post : BOOLEAN,
            cred : {"none", "local", "service"} \cup Tokens,
            tools : SUBSET Tools, peer : {"near", "far"}, origin : BOOLEAN]

ASSUME AuthConstants ==
    /\ Entitled \in [Tokens -> SUBSET Scopes]
    /\ Modes \subseteq SUBSET {"local", "service", "oauth"}
    /\ ServiceScopes \in (SUBSET Scopes) \ {{}}
    /\ Arrivals \subseteq Request
    /\ MaxInflight \in Nat \ {0}
    /\ Tokens \cap {"none", "local", "service"} = {}

VARIABLES
    mode,      \* what is configured
    revoked,   \* tokens control no longer calls active
    flight,    \* flight[k]: the entry of _oauth_introspection_tasks for key k
    answer,    \* answer[k]: what that task returned (scopes), once it is done
    old,       \* keys whose task began before its token was revoked
    broken,    \* keys whose task ended with OAuthIntrospectionUnavailable
    req,       \* req[r]: the request
    at,        \* at[r]: where r is, or how it was answered
    claims,    \* claims[r]: the claims r has so far
    asked,     \* asked[r]: the key of the task r waits for, <<>> if none
    runs,      \* runs[r]: the tools of the body the application gets
    late       \* late[r]: r came when its token was revoked and no task begun
               \* before that was left

inflights == <<flight, answer, broken, old>>
authVars == <<mode, revoked, inflights, req, at, claims, asked, runs, late>>

Answered == {"served", "denied", "unavailable", "too_large", "forbidden", "limited", "left"}
Nobody == [path |-> "public", post |-> FALSE, cred |-> "none", tools |-> {},
           peer |-> "near", origin |-> TRUE]

\* _tool_scope: whoever knows a job id may poll it.
ToolScope(tool) == CASE tool = "agent_result" -> "connect"
                     [] tool = "review_pull_request" -> "review"
                     [] tool = "list_models" -> "status"
                     [] OTHER -> "invoke"

\* required_scope.  A body that does not parse has no tool calls.
RequiredScope(path, tools) ==
    CASE path = "v1" -> {"chat"}
      [] path = "mcp" -> {"connect"} \cup {ToolScope(tool) : tool \in tools}
      [] OTHER -> {"status"}

\* What is introspected: a body is read only by a request with claims.
Needs == {RequiredScope(p, {}) : p \in {"v1", "mcp", "status"}}

\* _oauth_introspection_key.
IntrospectionKey(t, need) == <<t, need>>
\* Any bearer value that is not recognised before is taken to control.
Bearers == Tokens \cup {"local", "service"}
Keys == Bearers \X Needs

AuthTypeOK ==
    /\ mode \in SUBSET {"local", "service", "oauth"}
    /\ revoked \in SUBSET Tokens
    /\ flight \in [Keys -> {"none", "asking", "done"}]
    /\ answer \in [Keys -> SUBSET Scopes]
    /\ broken \in SUBSET Keys /\ old \in SUBSET Keys
    /\ req \in [Requests -> Request]
    /\ at \in [Requests -> {"idle", "local", "remote", "connect", "body", "scope",
                            "ask", "wait_connect", "wait_scope"} \cup Answered]
    /\ claims \in [Requests -> SUBSET Scopes]
    /\ asked \in [Requests -> Keys \cup {<<>>}]
    /\ runs \in [Requests -> SUBSET Tools]
    /\ late \in [Requests -> BOOLEAN]

AuthInit ==
    /\ mode \in Modes /\ revoked = {}
    /\ flight = [k \in Keys |-> "none"] /\ answer = [k \in Keys |-> {}]
    /\ broken = {} /\ old = {}
    /\ req = [r \in Requests |-> Nobody] /\ at = [r \in Requests |-> "idle"]
    /\ claims = [r \in Requests |-> {}] /\ asked = [r \in Requests |-> <<>>]
    /\ runs = [r \in Requests |-> {}] /\ late = [r \in Requests |-> FALSE]

\* auth_enforcement_active.
Enforced == mode \cap {"oauth", "service"} # {}
Granted(t) == IF "oauth" \in mode /\ t \in Tokens \ revoked THEN Entitled[t] ELSE {}

Goto(r, where) == at' = [at EXCEPT ![r] = where]
Holds(r, scopes) == claims' = [claims EXCEPT ![r] = scopes]

-----------------------------------------------------------------------------
(* The middlewares around the application, outermost first.                *)

\* A request arrives; RemoteOriginMiddleware refuses a foreign origin on the
\* paths it guards.
Arrive(r) ==
    /\ at[r] = "idle"
    /\ \E a \in Arrivals :
         /\ req' = [req EXCEPT ![r] = a]
         /\ Goto(r, IF a.path \in {"mcp", "v1"} /\ ~a.origin THEN "forbidden" ELSE "local")
         /\ late' = [late EXCEPT ![r] = a.cred \in revoked
                        /\ \A k \in old : k[1] # a.cred]
    /\ UNCHANGED <<mode, revoked, inflights, claims, asked, runs>>

\* LocalMcpAuthMiddleware: only on /mcp and /v1, only for near peers, and the
\* failure limiter turns some 401s into 429s.
LocalAuth(r) ==
    /\ at[r] = "local"
    /\ LET q == req[r] IN
       IF "local" \notin mode \/ q.path \notin {"mcp", "v1"}
       THEN Goto(r, "remote") /\ UNCHANGED claims
       ELSE IF q.peer = "far" THEN Goto(r, "forbidden") /\ UNCHANGED claims
       ELSE IF q.cred = "local" THEN Goto(r, "remote") /\ Holds(r, Scopes)
       ELSE at' \in {[at EXCEPT ![r] = s] : s \in {"denied", "limited"}} /\ UNCHANGED claims
    /\ UNCHANGED <<mode, revoked, inflights, req, asked, runs, late>>

\* match_service_token.
MatchServiceToken(r) ==
    IF "service" \in mode /\ req[r].cred = "service" THEN ServiceScopes ELSE {}

\* RemoteOAuthMiddleware up to its first await: what needs no introspection.
\* A POST to /mcp must hold a connection's claims before its body is read.
RemoteAuth(r) ==
    /\ at[r] = "remote"
    /\ LET q == req[r]
           known == IF claims[r] # {} THEN claims[r] ELSE MatchServiceToken(r)
       IN IF q.path = "public" \/ ~Enforced
          THEN /\ Goto(r, "served") /\ UNCHANGED claims
               /\ runs' = [runs EXCEPT ![r] = IF q.path = "mcp" THEN q.tools ELSE {}]
          ELSE /\ Holds(r, known) /\ UNCHANGED runs
               /\ Goto(r, IF q.path = "mcp" /\ q.post
                          THEN IF known = {} THEN "connect" ELSE "body"
                          ELSE "scope")
    /\ UNCHANGED <<mode, revoked, inflights, req, asked, late>>

\* The body is buffered: too large, cut off by a disconnect (what there is
\* does not parse), or complete.
ReadBody(r) ==
    /\ at[r] = "body"
    /\ \/ Goto(r, "too_large") /\ UNCHANGED runs
       \/ /\ Goto(r, "scope")
          /\ \E tools \in {{}, req[r].tools} : runs' = [runs EXCEPT ![r] = tools]
    /\ UNCHANGED <<mode, revoked, inflights, req, claims, asked, late>>

NeededBy(r) == RequiredScope(req[r].path, runs[r])

\* The scope check.  Claims that are there decide; there is no second
\* introspection.
CheckScope(r) ==
    /\ at[r] = "scope"
    /\ Goto(r, IF claims[r] = {} THEN "ask"
               ELSE IF NeededBy(r) \subseteq claims[r] THEN "served" ELSE "denied")
    /\ UNCHANGED <<mode, revoked, inflights, req, claims, asked, runs, late>>

-----------------------------------------------------------------------------
(* introspect_oauth_token *)

\* What a request does with the claims it got ({} is None).
Resumed(where, scopes) ==
    IF scopes = {} THEN "denied" ELSE IF where = "wait_connect" THEN "body" ELSE "served"

\* A request asks: it joins the task of its key, or starts one if there is
\* room.  A task that is done, its callbacks still to run, answers at once.
Introspect(r) ==
    /\ at[r] \in {"connect", "ask"}
    /\ LET need == IF at[r] = "connect" THEN {"connect"} ELSE NeededBy(r)
           wait == IF at[r] = "connect" THEN "wait_connect" ELSE "wait_scope"
           t == req[r].cred
           k == IntrospectionKey(t, need)
       IN \/ /\ t = "none" /\ Goto(r, "denied")
             /\ UNCHANGED <<flight, claims, asked>>
          \/ /\ t # "none" /\ flight[k] = "none" /\ UNCHANGED claims
             /\ IF Cardinality({i \in Keys : flight[i] # "none"}) >= MaxInflight
                THEN Goto(r, "unavailable") /\ UNCHANGED <<flight, asked>>
                ELSE /\ flight' = [flight EXCEPT ![k] = "asking"]
                     /\ Goto(r, wait) /\ asked' = [asked EXCEPT ![r] = k]
          \/ /\ t # "none" /\ flight[k] = "asking"
             /\ Goto(r, wait) /\ asked' = [asked EXCEPT ![r] = k]
             /\ UNCHANGED <<flight, claims>>
          \/ /\ t # "none" /\ flight[k] = "done"
             /\ IF k \in broken
                THEN Goto(r, "unavailable") /\ UNCHANGED claims
                ELSE Goto(r, Resumed(wait, answer[k])) /\ Holds(r, answer[k])
             /\ UNCHANGED <<flight, asked>>
    /\ UNCHANGED <<mode, revoked, answer, broken, old, req, runs, late>>

\* Mutant: a control service that does not answer counts as a refusal.
PerformRefuses(k) ==
    /\ flight[k] = "asking"
    /\ flight' = [flight EXCEPT ![k] = "done"]
    /\ answer' = [answer EXCEPT ![k] = {}]
    /\ UNCHANGED <<mode, revoked, broken, old, req, at, claims, asked, runs, late>>

\* _perform_oauth_introspection ends: no usable response (unreachable, status,
\* size, JSON, no "active"; never without a URL to ask), or the token's scopes if the required ones are
\* among them and issuer, subject and audience are right, else None.
Perform(k) ==
    /\ flight[k] = "asking"
    /\ flight' = [flight EXCEPT ![k] = "done"]
    /\ \/ "oauth" \in mode /\ answer' = [answer EXCEPT ![k] = {}] /\ broken' = broken \cup {k}
       \/ /\ answer' = [answer EXCEPT ![k] = IF k[2] \subseteq Granted(k[1])
                                             THEN Granted(k[1]) ELSE {}]
          /\ broken' = broken \ {k}
    /\ UNCHANGED <<mode, revoked, old, req, at, claims, asked, runs, late>>

\* What happens to the requests that wait for the task of k when it is done.
Deliver(k) ==
    LET waiters == {r \in Requests : asked[r] = k} IN
    /\ at' = [r \in Requests |->
                IF r \notin waiters THEN at[r]
                ELSE IF k \in broken THEN "unavailable" ELSE Resumed(at[r], answer[k])]
    /\ claims' = [r \in Requests |->
                    IF r \in waiters /\ k \notin broken THEN answer[k] ELSE claims[r]]
    /\ asked' = [r \in Requests |-> IF r \in waiters THEN <<>> ELSE asked[r]]

\* Mutant: a finished introspection stays in the table and answers later ones.
FinishKeeps(k) ==
    /\ flight[k] = "done"
    /\ UNCHANGED <<flight, answer, broken>>
    /\ old' = old \ {k} /\ Deliver(k)
    /\ UNCHANGED <<mode, revoked, req, runs, late>>

\* The callbacks of the done task, in one go: _finish_oauth_introspection_task
\* removes it from the table, then the shields of its waiters resume.
Finish(k) ==
    /\ flight[k] = "done"
    /\ flight' = [flight EXCEPT ![k] = "none"]
    /\ answer' = [answer EXCEPT ![k] = {}] /\ broken' = broken \ {k} /\ old' = old \ {k}
    /\ Deliver(k)
    /\ UNCHANGED <<mode, revoked, req, runs, late>>

\* A waiting request is cancelled; asyncio.shield keeps the task going.
Cancel(r) ==
    /\ at[r] \in {"wait_connect", "wait_scope"}
    /\ Goto(r, "left") /\ asked' = [asked EXCEPT ![r] = <<>>]
    /\ UNCHANGED <<mode, revoked, inflights, req, claims, runs, late>>

\* External: control stops calling a token active.
Revoke(t) ==
    /\ "oauth" \in mode /\ t \notin revoked /\ revoked' = revoked \cup {t}
    /\ old' = old \cup {k \in Keys : k[1] = t /\ flight[k] # "none"}
    /\ UNCHANGED <<mode, flight, answer, broken, req, at, claims, asked, runs, late>>

\* The response to r is out; r is free for another request.
Respond(r) ==
    /\ at[r] \in Answered /\ Goto(r, "idle")
    /\ req' = [req EXCEPT ![r] = Nobody] /\ Holds(r, {})
    /\ runs' = [runs EXCEPT ![r] = {}] /\ late' = [late EXCEPT ![r] = FALSE]
    /\ UNCHANGED <<mode, revoked, inflights, asked>>

AuthStep(r) ==
    LocalAuth(r) \/ RemoteAuth(r) \/ ReadBody(r) \/ CheckScope(r) \/ Introspect(r)

RequestNext(r) == Arrive(r) \/ AuthStep(r) \/ Cancel(r) \/ Respond(r)

ControlNext ==
    \/ \E k \in Keys : Perform(k) \/ Finish(k)
    \/ \E t \in Tokens : Revoke(t)

AuthNext == ControlNext \/ \E r \in Requests : RequestNext(r)

AuthSpec == AuthInit /\ [][AuthNext]_authVars

-----------------------------------------------------------------------------
\* The scopes a request may use: its own credential's.  A token is worth
\* nothing to a request that came after its revocation and after every
\* introspection begun before it.
May(r) ==
    LET c == req[r].cred IN
    IF c = "local" /\ "local" \in mode THEN Scopes
    ELSE IF c = "service" /\ "service" \in mode THEN ServiceScopes
    ELSE IF c \in Tokens /\ "oauth" \in mode /\ ~late[r] THEN Entitled[c]
    ELSE {}

\* The application gets a protected request only with the scopes that its path
\* and the tools of its body need, whoever shared, joined or left the
\* introspection.
ServedWithinGrant ==
    \A r \in Requests :
        at[r] = "served" /\ Enforced /\ req[r].path # "public" => NeededBy(r) \subseteq May(r)

\* A request with a token that was good all along is never told that it is
\* not authorised: trouble at the control service is reported as such.
DeniedForCause ==
    \A r \in Requests :
        at[r] = "denied" /\ "local" \notin mode /\ req[r].cred \in Tokens \ revoked
            => "oauth" \notin mode \/ ~(NeededBy(r) \subseteq Entitled[req[r].cred])
=============================================================================
