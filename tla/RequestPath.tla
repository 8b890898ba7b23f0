---------------------------- MODULE RequestPath ----------------------------
(***************************************************************************)
(* The way of a request through RequestAuth and, for a tool that works on  *)
(* the xAI API plane, on through ApiPool.  What is between the two (jobs,  *)
(* budgets, routing) is the subject of other modules; here it only decides *)
(* whether and when the call is made.                                      *)
(***************************************************************************)
EXTENDS RequestAuth, ApiPool

ASSUME CallsAreRequests == Calls \subseteq Requests

vars == <<authVars, apiVars>>

Init == AuthInit /\ ApiInit

\* A served request's agent tool, as any other of scope "invoke", may call an
\* operation of the API plane; the call goes on in a detached task.
Invoke(c) == at[c] = "served" /\ "agent" \in runs[c] /\ Respond(c) /\ Begin(c)

\* A connection is busy until the call made for it is over.
AuthPart(r) == (r \in Calls => st[r] = "idle") /\ RequestNext(r)

ApiPart == Tick \/ \E c \in Calls : ApiStep(c) \/ CancelCall(c)

Next ==
    \/ \E c \in Calls : Invoke(c)
    \/ (ControlNext \/ \E r \in Requests : AuthPart(r)) /\ UNCHANGED apiVars
    \/ ApiPart /\ UNCHANGED authVars

\* Introspection has a timeout, RPCs end by the SDK's deadline, not because the
\* provider answers, and time passes; asyncio's semaphore and the executor serve
\* their queues in order, hence SF.  A body comes when the client sends it.
Fairness ==
    /\ \A r \in Requests : WF_vars(AuthStep(r) /\ at[r] # "body" /\ UNCHANGED apiVars)
    /\ \A k \in Keys : WF_vars((Perform(k) \/ Finish(k)) /\ UNCHANGED apiVars)
    /\ \A c \in Calls : WF_vars(ApiDue(c) /\ UNCHANGED authVars)
    /\ \A c \in Calls : SF_vars((Acquire(c) \/ StartThread(c)) /\ UNCHANGED authVars)
    /\ WF_vars(Tick /\ UNCHANGED authVars)

Spec == Init /\ [][Next]_vars /\ Fairness

Busy(r) == at[r] \notin Answered \cup {"idle", "body"} \/ st[r] \notin Over

\* A request is answered, or waits for its client's body, and its API call
\* ends: no shared introspection, pool, thread or retry keeps it for ever.
RequestEnds == \A r \in Calls : Busy(r) ~> ~Busy(r)
=============================================================================
