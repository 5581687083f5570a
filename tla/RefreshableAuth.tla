-------------------------- MODULE RefreshableAuth --------------------------
(***************************************************************************)
(* auth.py, class _RefreshableAuth: the cache of AuthCache filled by a     *)
(* refresh token while there is one, and by an interactive login (_acquire *)
(* of DeviceCodeFlow or AuthorizationCodeFlow) otherwise.  The identity    *)
(* provider may rotate the refresh token: the old one is then refused.     *)
(***************************************************************************)
EXTENDS AuthCache

CONSTANT MaxRefreshTokens   \* bound on the refresh tokens that are issued

ASSUME RefreshBoundAssumption == MaxRefreshTokens \in Nat

VARIABLES
    refreshToken,   \* _refresh_token
    bundle,         \* the refresh token in each thread's last response
    granted,        \* identity provider: number of the newest refresh token
    usable,         \* identity provider: the refresh tokens it accepts
    revoked         \* history: those that were revoked, have expired, or were
                    \* replaced in an answer that could not be read

refreshVars == <<refreshToken, bundle, granted, usable, revoked>>
vars        == <<cacheVars, refreshVars>>

Init ==
    /\ CacheInit
    /\ refreshToken = NoToken
    /\ bundle = [t \in Threads |-> NoToken]
    /\ granted = 0
    /\ usable = {}
    /\ revoked = {}

\* The branch of _ensure_token.
EnsureToken(t) ==
    /\ Goto(t, "fetch", IF refreshToken # NoToken THEN "refresh" ELSE "login")
    /\ UNCHANGED <<lockVars, reply, ret, now, idpVars, dropped, callVars, refreshVars>>

\* The identity provider puts a new refresh token in its answer and from now
\* on refuses those in `old`.
IssueRefreshToken(t, old) ==
    /\ granted < MaxRefreshTokens
    /\ granted' = granted + 1
    /\ bundle' = [bundle EXCEPT ![t] = granted + 1]
    /\ usable' = (usable \ old) \cup {granted + 1}
    /\ UNCHANGED <<refreshToken, revoked>>

\* The answer holds an access token only.
KeepRefreshToken(t) ==
    /\ bundle' = [bundle EXCEPT ![t] = NoToken]
    /\ UNCHANGED <<refreshToken, granted, usable, revoked>>

\* _refresh: the token endpoint grants the refresh token.
RefreshGranted(t) ==
    /\ refreshToken \in usable
    /\ Grant(t, "refresh")
    /\ KeepRefreshToken(t) \/ IssueRefreshToken(t, {refreshToken})

\* Any AuthError of _refresh, an outage of the network as well as a refusal:
\* _ensure_token forgets the refresh token and goes on to the login.  (Whether
\* the endpoint had replaced the token before its answer was lost no longer
\* matters then.)
RefreshFails(t) ==
    /\ Goto(t, "refresh", "login")
    /\ refreshToken' = NoToken
    /\ UNCHANGED <<lockVars, reply, ret, now, idpVars, dropped, callVars,
                   bundle, granted, usable, revoked>>

\* Mutant: payload["access_token"] without the test for it.
RefreshWithoutToken(t) ==
    Abort(t, "refresh", "KeyError") /\ UNCHANGED refreshVars

\* resp.json() or float() raises: `except AuthError` lets it pass.  When the
\* answer held a successor of the refresh token, that one is lost with it.
RefreshUnreadable(t) ==
    /\ Abort(t, "refresh", "ValueError")
    /\ \/ UNCHANGED <<usable, revoked>>
       \/ /\ refreshToken \in usable
          /\ usable' = usable \ {refreshToken}
          /\ revoked' = revoked \cup {refreshToken}
    /\ UNCHANGED <<refreshToken, bundle, granted>>

\* _acquire, run to its end by the user and the flow.
LoginGranted(t) ==
    /\ Grant(t, "login")
    /\ KeepRefreshToken(t) \/ IssueRefreshToken(t, {})

LoginFails(t) ==
    /\ \E error \in {"AuthError", "ValueError"} : Abort(t, "login", error)
    /\ UNCHANGED refreshVars

\* Mutant: the refresh token of the login is kept for good.
ApplyUnrotated(t) ==
    /\ StoreExpiry(t)
    /\ refreshToken' = IF refreshToken = NoToken THEN bundle[t] ELSE refreshToken
    /\ bundle' = [bundle EXCEPT ![t] = NoToken]
    /\ UNCHANGED <<granted, usable, revoked>>

\* The second half of _apply_bundle: the deadline and the refresh token.
ApplyBundle(t) ==
    /\ StoreExpiry(t)
    /\ refreshToken' = IF bundle[t] # NoToken THEN bundle[t] ELSE refreshToken
    /\ bundle' = [bundle EXCEPT ![t] = NoToken]
    /\ UNCHANGED <<granted, usable, revoked>>

\* The identity provider ends a session.
Revoke ==
    /\ \E r \in usable : usable' = usable \ {r} /\ revoked' = revoked \cup {r}
    /\ UNCHANGED <<cacheVars, refreshToken, bundle, granted>>

\* Mutant: invalidate forgets the refresh token too.
CacheStepForgetful(t) ==
    \/ HeaderStep(t) /\ UNCHANGED refreshVars
    \/ /\ InvalidateStep(t)
       /\ refreshToken' = NoToken
       /\ UNCHANGED <<bundle, granted, usable, revoked>>

\* auth_header and invalidate, which read no refresh token.
CacheStep(t) == (HeaderStep(t) \/ InvalidateStep(t)) /\ UNCHANGED refreshVars

Fetch(t) ==
    \/ EnsureToken(t)
    \/ RefreshGranted(t) \/ RefreshFails(t) \/ RefreshUnreadable(t)
    \/ LoginGranted(t) \/ LoginFails(t)
    \/ ApplyBundle(t)

Next ==
    \/ (Tick \/ Finished) /\ UNCHANGED refreshVars
    \/ Revoke
    \/ \E t \in Threads :
         \/ Calls(t) /\ UNCHANGED refreshVars
         \/ CacheStep(t) \/ Fetch(t)

Spec == Init /\ [][Next]_vars

\* A thread keeps running, and a request to the token endpoint ends by its
\* timeout.  Nothing is assumed of a login, which may never end (see HeldBySilence
\* of AuthorizationCodeFlow); nobody has to call, and the lock is not fair.
FairSpec ==
    /\ Spec
    /\ \A t \in Threads :
         WF_vars(CacheStep(t)) /\ WF_vars(pc[t] # "login" /\ Fetch(t))

-----------------------------------------------------------------------------
TypeOK ==
    /\ CacheTypeOK
    /\ refreshToken \in Nat /\ granted \in Nat
    /\ bundle \in [Threads -> Nat]
    /\ usable \subseteq 1..granted /\ revoked \subseteq 1..granted

\* "Honour refresh-token rotation" (auth.py:230): the refresh token the client
\* holds is one that the identity provider accepts or has revoked on its own,
\* never one it has replaced, unless the response with the replacement is still
\* to be stored or was unreadable; and such a replacement is good.
NeverRotatedOut ==
    /\ refreshToken # NoToken =>
          \/ refreshToken \in usable \cup revoked
          \/ \E t \in Threads : pc[t] \in {"apply", "store_expiry"} /\ bundle[t] # NoToken
    /\ \A t \in Threads : pc[t] \in {"apply", "store_expiry"} /\ bundle[t] # NoToken =>
          bundle[t] \in usable \cup revoked

\* "Drop the access token but KEEP the refresh token" (auth.py:210): only a
\* refresh that failed makes the client give a refresh token up; no 401, no
\* unreadable answer and no other thread's login does.
SessionKept ==
    [][refreshToken # NoToken /\ refreshToken' = NoToken =>
          \E t \in Threads : pc[t] = "refresh" /\ pc'[t] = "login"]_vars

\* _ensure_token runs with the lock held (auth.py:225): the only thing that can
\* keep an auth_header or an invalidate, of any thread, from coming back with a
\* header or an error is one login that never ends.  (The lock is not fair: that
\* the others make at most MaxCalls calls keeps them from taking it for ever.)
CallsEnd ==
    \A t \in Threads : []<>(pc[t] = "idle") \/ \E u \in Threads : <>[](pc[u] = "login")
=============================================================================
