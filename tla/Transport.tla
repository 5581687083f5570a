----------------------------- MODULE Transport -----------------------------
(***************************************************************************)
(* transport.py: threads send requests to Lakekeeper through one           *)
(* Transport, whose Auth is a ClientCredentials object.  A request asks    *)
(* the Auth for a header, and when the server answers 401 it invalidates   *)
(* the token and is sent once more with whatever header comes next.  The   *)
(* threads interleave at every step of the Auth, the server may refuse a   *)
(* token at any time, and an exchange may be lost on either way.           *)
(***************************************************************************)
EXTENDS AuthCache, Sequences

CONSTANT MaxRequests   \* bound on the requests each thread makes

\* Each request calls the Auth three times at most.
ASSUME RequestAssumption == MaxRequests \in Nat /\ 3 * MaxRequests <= MaxCalls

VARIABLES
    stage,      \* where each thread is in request
    sent,       \* history: the tokens of the current request's exchanges
    executed,   \* server: how often it has carried the current request out
    outcome,    \* what each thread's last request returned or raised
    requests,   \* requests each thread has made
    refused     \* server: the tokens it does not accept any more

requestVars   == <<stage, sent, executed, outcome, requests, refused>>
transportVars == <<cacheVars, requestVars>>

Credentials == INSTANCE ClientCredentials

TransportInit ==
    /\ CacheInit
    /\ stage = [t \in Threads |-> "ready"]
    /\ sent = [t \in Threads |-> << >>]
    /\ executed = [t \in Threads |-> 0]
    /\ outcome = [t \in Threads |-> "none"]
    /\ requests = [t \in Threads |-> 0]
    /\ refused = {}

-----------------------------------------------------------------------------
Enter(t, from, to) == stage[t] = from /\ stage' = [stage EXCEPT ![t] = to]

\* The Auth call that t made has come back.
Returned(t) == pc[t] = "idle"

\* request is called; _send asks the Auth for the header first.
Request(t) ==
    /\ requests[t] < MaxRequests
    /\ Enter(t, "ready", "first")
    /\ CallHeader(t)
    /\ sent' = [sent EXCEPT ![t] = << >>]
    /\ executed' = [executed EXCEPT ![t] = 0]
    /\ outcome' = [outcome EXCEPT ![t] = "none"]
    /\ requests' = [requests EXCEPT ![t] = @ + 1]
    /\ UNCHANGED refused

End(t, from, how) ==
    /\ Enter(t, from, "ready")
    /\ outcome' = [outcome EXCEPT ![t] = how]

\* auth_header raises: nothing in request or _send catches it.
HeaderFails(t) ==
    /\ Returned(t)
    /\ ret[t].kind \in {"AuthError", "AssertionError", "ValueError"}
    /\ \E from \in {"first", "second"} : End(t, from, ret[t].kind)
    /\ UNCHANGED <<cacheVars, sent, executed, requests, refused>>

Accepted(tok) == tok # NoToken /\ tok \notin refused /\ now < dies[tok]

\* _send hands the request and the header to the HTTP client.
Exchange(t) ==
    /\ Returned(t)
    /\ ret[t].kind = "header"
    /\ stage[t] \in {"first", "second"}
    /\ sent' = [sent EXCEPT ![t] = Append(@, ret[t].token)]
    /\ UNCHANGED <<cacheVars, requests, refused>>

Execute(t, times) == executed' = [executed EXCEPT ![t] = @ + times]

\* 401 to the first exchange.
FirstRefused(t) ==
    /\ Exchange(t) /\ ~Accepted(ret[t].token)
    /\ Enter(t, "first", "rejected")
    /\ UNCHANGED <<executed, outcome>>

\* 401 to the second: an error status like any other.
SecondRefused(t) ==
    /\ Exchange(t) /\ ~Accepted(ret[t].token)
    /\ End(t, "second", "LakekeeperHttpError")
    /\ UNCHANGED executed

\* A status below 400.
Succeeds(t) ==
    /\ Exchange(t) /\ Accepted(ret[t].token)
    /\ End(t, stage[t], "response")
    /\ Execute(t, 1)

\* Another status from 400 on; a 5xx may come after the work was done.
FailsOnServer(t) ==
    /\ Exchange(t) /\ Accepted(ret[t].token)
    /\ End(t, stage[t], "LakekeeperHttpError")
    /\ \E times \in 0..1 : Execute(t, times)

\* Mutant: the request is sent again after a network error as after a 401.
LostRetried(t) ==
    /\ Exchange(t)
    /\ Enter(t, "first", "rejected")
    /\ \E times \in 0..(IF Accepted(ret[t].token) THEN 1 ELSE 0) : Execute(t, times)
    /\ UNCHANGED outcome

\* The HTTP client raises: the request or its answer was lost.
Lost(t) ==
    /\ Exchange(t)
    /\ End(t, stage[t], "httpx.HTTPError")
    /\ \E times \in 0..(IF Accepted(ret[t].token) THEN 1 ELSE 0) : Execute(t, times)

\* Mutant: the retry without invalidate.
InvalidateNothing(t) ==
    /\ Enter(t, "rejected", "dropping")
    /\ UNCHANGED <<cacheVars, sent, executed, outcome, requests, refused>>

\* The branch of request for a 401: invalidate, then _send again.
Invalidate(t) ==
    /\ Enter(t, "rejected", "dropping")
    /\ CallInvalidate(t)
    /\ UNCHANGED <<sent, executed, outcome, requests, refused>>

Retry(t) ==
    /\ Returned(t)
    /\ Enter(t, "dropping", "second")
    /\ CallHeader(t)
    /\ UNCHANGED <<sent, executed, outcome, requests, refused>>

\* The server stops accepting a token before it expires.
Refuse ==
    /\ \E tok \in 1..issued : refused' = refused \cup {tok}
    /\ UNCHANGED <<cacheVars, stage, sent, executed, outcome, requests>>

AuthStep(t) == Credentials!Step(t) /\ UNCHANGED requestVars

RequestStep(t) ==
    \/ HeaderFails(t)
    \/ FirstRefused(t) \/ SecondRefused(t) \/ Succeeds(t) \/ FailsOnServer(t)
    \/ Lost(t) \/ Invalidate(t) \/ Retry(t)

\* Every thread has made its requests.
AllDone ==
    /\ \A t \in Threads : stage[t] = "ready" /\ requests[t] = MaxRequests
    /\ UNCHANGED transportVars

TransportNext ==
    \/ Tick /\ UNCHANGED requestVars
    \/ Refuse
    \/ AllDone
    \/ \E t \in Threads : Request(t) \/ AuthStep(t) \/ RequestStep(t)

TransportSpec == TransportInit /\ [][TransportNext]_transportVars

\* A thread keeps running, and each exchange with the identity provider or
\* the server ends: the HTTP clients have timeouts.  Nobody has to start a
\* request, and the lock is not fair.
TransportFairSpec ==
    /\ TransportSpec
    /\ \A t \in Threads : WF_transportVars(AuthStep(t)) /\ WF_transportVars(RequestStep(t))

-----------------------------------------------------------------------------
TransportTypeOK ==
    /\ CacheTypeOK
    /\ stage \in [Threads -> {"ready", "first", "rejected", "dropping", "second"}]
    /\ sent \in [Threads -> Seq(Nat)]
    /\ executed \in [Threads -> Nat]
    /\ outcome \in [Threads -> {"none", "response", "LakekeeperHttpError", "AuthError",
                                "ValueError", "AssertionError", "httpx.HTTPError"}]
    /\ requests \in [Threads -> Nat]
    /\ refused \subseteq 1..issued

\* "Send a request, retrying once on 401 after invalidating the token"
\* (transport.py:42): the retry never carries the token that was refused, nor
\* an older one, whatever the other threads fetch and drop meanwhile.
RetryCarriesNewerToken ==
    \A t \in Threads : Len(sent[t]) = 2 /\ sent[t][1] # NoToken =>
        sent[t][2] = NoToken \/ sent[t][2] > sent[t][1]

\* The retry repeats no work: a request that the server may have carried out,
\* a create for instance, is not sent again.
ExecutedAtMostOnce == \A t \in Threads : executed[t] <= 1

-----------------------------------------------------------------------------
\* The parts of the inductive invariant.

\* A request calls the Auth at certain stages only, and sends at most twice;
\* what is sent again has not been executed.
RequestInv ==
    \A t \in Threads :
        /\ stage[t] \in {"ready", "rejected"} => pc[t] = "idle"
        /\ stage[t] = "dropping" => pc[t] \in {"want_drop", "drop_token", "drop_expiry", "idle"}
        /\ stage[t] = "first" => Len(sent[t]) = 0
        /\ stage[t] \in {"rejected", "dropping", "second"} => Len(sent[t]) = 1
        /\ Len(sent[t]) <= 2
        /\ stage[t] # "ready" => executed[t] = 0

\* The newest token that was ever in the cache: tokens come into it in order.
Newest == IF token # NoToken THEN token ELSE dropped

\* What was read and sent had been in the cache; and what was refused has been
\* dropped, by this thread or another, before the second header is asked for.
SentInv ==
    \A t \in Threads :
        /\ ret[t].token <= Newest
        /\ \A i \in DOMAIN sent[t] : sent[t][i] <= Newest
        /\ stage[t] = "dropping" /\ pc[t] \in {"drop_expiry", "idle"} => sent[t][1] <= dropped
        /\ stage[t] = "second" => sent[t][1] <= call[t].dropped

TransportInv ==
    /\ TransportTypeOK /\ CacheInv /\ RequestInv /\ SentInv
    /\ RetryCarriesNewerToken /\ ExecutedAtMostOnce

-----------------------------------------------------------------------------
\* Every request comes back, with a response or an error.
RequestsEnd == \A t \in Threads : stage[t] # "ready" ~> stage[t] = "ready"
=============================================================================
