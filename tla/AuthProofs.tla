----------------------------- MODULE AuthProofs -----------------------------
(***************************************************************************)
(* The theorems about the three modules that are built on AuthCache, for   *)
(* any set of threads, any margin, any lifetimes and any bounds:           *)
(* RefreshableAuth, Transport (many requests through one ClientCredentials *)
(* object), and ClientCredentials itself, whose calls and steps Transport  *)
(* makes.  The steps of the cache are ruled by the lemmas of               *)
(* AuthCacheProofs; what is left is the refresh token on the one hand, and *)
(* what was sent, refused and executed on the other.                       *)
(***************************************************************************)
EXTENDS RefreshableAuth, Transport, AuthCacheProofs

(***************************************************************************)
(* RefreshableAuth                                                         *)
(***************************************************************************)

\* Every step of a thread preserves the invariant of the cache.
LEMMA CacheStepInv ==
    ASSUME CacheTypeOK, CacheInv, NEW t \in Threads,
           Calls(t) \/ CacheStep(t) \/ Fetch(t)
    PROVE  CacheTypeOK' /\ CacheInv'
<1>1. CASE Calls(t)
  BY <1>1, BeginInv DEF Calls, CallHeader, CallInvalidate
<1>2. CASE CacheStep(t)
  <2>1. CASE HeaderStep(t)
    BY <2>1, CheckTokenInv, CheckExpiryInv, AcquireInv, RecheckInv, StoreTokenInv,
       AssertTokenInv, ReadTokenInv DEF HeaderStep
  <2>2. CASE InvalidateStep(t)
    BY <2>2, DropTokenInv, DropExpiryInv DEF InvalidateStep
  <2> QED
    BY <1>2, <2>1, <2>2 DEF CacheStep
<1>3. CASE EnsureToken(t)
  BY <1>3, ProceedInv DEF EnsureToken
<1>4. CASE RefreshFails(t)
  BY <1>4, ProceedInv DEF RefreshFails
<1>5. CASE RefreshGranted(t) \/ LoginGranted(t)
  BY <1>5, GrantInv DEF RefreshGranted, LoginGranted
<1>6. CASE RefreshUnreadable(t) \/ LoginFails(t)
  BY <1>6, AbortInv DEF RefreshUnreadable, LoginFails
<1>7. CASE ApplyBundle(t)
  BY <1>7, StoreExpiryInv DEF ApplyBundle
<1> QED
  BY <1>1, <1>2, <1>3, <1>4, <1>5, <1>6, <1>7 DEF Fetch

\* The types of the refresh tokens.
RefreshTypeOK ==
    /\ refreshToken \in Nat /\ granted \in Nat
    /\ bundle \in [Threads -> Nat]
    /\ usable \subseteq 1..granted /\ revoked \subseteq 1..granted

\* What a response does to the tokens of the identity provider.
LEMMA IssueTypes ==
    ASSUME RefreshTypeOK, NEW t \in Threads, NEW old,
           KeepRefreshToken(t) \/ IssueRefreshToken(t, old)
    PROVE  RefreshTypeOK'
<1>1. CASE KeepRefreshToken(t)
  BY <1>1 DEF KeepRefreshToken, RefreshTypeOK, NoToken
<1>2. CASE IssueRefreshToken(t, old)
  <2>1. granted' = granted + 1 /\ granted \in Nat /\ UNCHANGED <<refreshToken, revoked>>
    BY <1>2 DEF IssueRefreshToken, RefreshTypeOK
  <2>2. 1..granted \subseteq 1..granted' /\ granted + 1 \in 1..granted'
    BY <2>1
  <2>3. usable' \subseteq 1..granted' /\ revoked' \subseteq 1..granted'
    <3>1. usable' = (usable \ old) \cup {granted + 1}
      BY <1>2 DEF IssueRefreshToken
    <3> QED
      BY <2>1, <2>2, <3>1, Zenon DEF RefreshTypeOK
  <2>4. bundle' \in [Threads -> Nat]
    BY <1>2 DEF IssueRefreshToken, RefreshTypeOK
  <2> QED
    BY <2>1, <2>3, <2>4 DEF RefreshTypeOK
<1> QED
  BY <1>1, <1>2

\* Every step preserves the types of the refresh tokens.
LEMMA RefreshTypes ==
    ASSUME RefreshTypeOK, [Next]_vars
    PROVE  RefreshTypeOK'
<1>1. CASE UNCHANGED refreshVars
  BY <1>1 DEF RefreshTypeOK, refreshVars
<1>2. CASE Revoke
  BY <1>2 DEF Revoke, RefreshTypeOK
<1>5. ASSUME NEW t \in Threads, RefreshUnreadable(t)
      PROVE  RefreshTypeOK'
  BY <1>5 DEF RefreshUnreadable, RefreshTypeOK
<1>3. ASSUME NEW t \in Threads, RefreshGranted(t) \/ LoginGranted(t)
      PROVE  RefreshTypeOK'
  BY <1>3, IssueTypes DEF RefreshGranted, LoginGranted
<1>4. ASSUME NEW t \in Threads, RefreshFails(t) \/ ApplyBundle(t)
      PROVE  RefreshTypeOK'
  <2>1. refreshToken' \in Nat /\ bundle' \in [Threads -> Nat]
    BY <1>4 DEF RefreshFails, ApplyBundle, RefreshTypeOK, NoToken
  <2>2. UNCHANGED <<granted, usable, revoked>>
    BY <1>4 DEF RefreshFails, ApplyBundle
  <2> QED
    BY <2>1, <2>2 DEF RefreshTypeOK
<1> QED
  BY <1>1, <1>2, <1>3, <1>4, <1>5 DEF Next, Fetch, EnsureToken, LoginFails, CacheStep, vars

\* The fields have their types and the invariant of AuthCache holds in every
\* reachable state.
THEOREM RefreshableInvariant == Spec => [](TypeOK /\ CacheInv)
<1> USE DEF TypeOK, RefreshTypeOK
<1>1. Init => TypeOK /\ CacheInv
  BY InitInv DEF Init, NoToken
<1>2. TypeOK /\ CacheInv /\ [Next]_vars => TypeOK' /\ CacheInv'
  <2> SUFFICES ASSUME CacheTypeOK, CacheInv, RefreshTypeOK, [Next]_vars
               PROVE  CacheTypeOK' /\ CacheInv' /\ RefreshTypeOK'
    OBVIOUS
  <2>1. RefreshTypeOK'
    BY RefreshTypes
  <2>2. CASE Tick
    BY <2>1, <2>2, TickInv
  <2>3. CASE Finished \/ Revoke \/ UNCHANGED vars
    BY <2>1, <2>3, StutterInv DEF Finished, Revoke, vars
  <2>4. ASSUME NEW t \in Threads, Calls(t) \/ CacheStep(t) \/ Fetch(t)
        PROVE  CacheTypeOK' /\ CacheInv'
    BY <2>4, CacheStepInv
  <2> QED
    BY <2>1, <2>2, <2>3, <2>4 DEF Next
<1> QED
  BY <1>1, <1>2, PTL DEF Spec

\* Type correctness.
THEOREM RefreshableTypeOK == Spec => []TypeOK
  BY RefreshableInvariant, PTL

\* The identity provider never has to refuse the refresh token for having been
\* rotated, unless it said so in an answer that could not be read: who applies
\* a bundle is alone inside the lock, so that no second response can come
\* between a rotation and its store.
THEOREM RefreshableNeverRotatedOut == Spec => []NeverRotatedOut
<1> DEFINE Storing == {"apply", "store_expiry"}
<1>1. Init => NeverRotatedOut
  BY DEF Init, CacheInit, NeverRotatedOut
<1>2. TypeOK /\ CacheInv /\ NeverRotatedOut /\ [Next]_vars => NeverRotatedOut'
  <2> SUFFICES ASSUME TypeOK, CacheInv, NeverRotatedOut, [Next]_vars
               PROVE  NeverRotatedOut'
    OBVIOUS
  <2>1. ASSUME NEW t \in Threads, pc[t] \in Locked
        PROVE  \A u \in Threads : u # t => pc[u] \notin Storing
    BY <2>1 DEF CacheInv, LockInv, Locked, Fetching
  <2>2. ASSUME \A u \in Threads : pc'[u] \in Storing <=> pc[u] \in Storing,
               UNCHANGED refreshVars
        PROVE  NeverRotatedOut'
    BY <2>2 DEF NeverRotatedOut, refreshVars
  <2>3. ASSUME NEW t \in Threads, NEW from, NEW to, Goto(t, from, to),
               from \in Storing <=> to \in Storing, UNCHANGED refreshVars
        PROVE  NeverRotatedOut'
    BY <2>2, <2>3 DEF Goto, TypeOK, CacheTypeOK
  <2>4. CASE Tick /\ UNCHANGED refreshVars
    BY <2>2, <2>4 DEF Tick
  <2>5. CASE (Finished /\ UNCHANGED refreshVars) \/ UNCHANGED vars
    BY <2>2, <2>5 DEF Finished, vars, cacheVars
  <2>6. CASE Revoke
    BY <2>6 DEF Revoke, cacheVars, NeverRotatedOut
  <2>7. ASSUME NEW t \in Threads, Calls(t) /\ UNCHANGED refreshVars
        PROVE  NeverRotatedOut'
    BY <2>3, <2>7 DEF Calls, CallHeader, CallInvalidate, Begin
  <2>8. ASSUME NEW t \in Threads, CacheStep(t)
        PROVE  NeverRotatedOut'
    <3>1. UNCHANGED refreshVars
      BY <2>8 DEF CacheStep
    <3>2. \E from, to : Goto(t, from, to) /\ (from \in Storing <=> to \in Storing)
      BY <2>8 DEF CacheStep, HeaderStep, InvalidateStep, CheckToken, CheckExpiry, Acquire,
                  Recheck, StoreToken, AssertToken, ReadToken, DropToken, DropExpiry
    <3> QED
      BY <2>3, <3>1, <3>2
  <2>9. ASSUME NEW t \in Threads, EnsureToken(t) \/ LoginFails(t)
        PROVE  NeverRotatedOut'
    BY <2>3, <2>9 DEF EnsureToken, LoginFails, Abort
  <2>13. ASSUME NEW t \in Threads, RefreshUnreadable(t)
         PROVE  NeverRotatedOut'
    <3>1. \A u \in Threads : pc'[u] \in Storing <=> pc[u] \in Storing
      BY <2>13 DEF RefreshUnreadable, Abort, Goto, TypeOK, CacheTypeOK
    <3>2. UNCHANGED <<refreshToken, bundle>> /\ usable' \cup revoked' = usable \cup revoked
      BY <2>13 DEF RefreshUnreadable
    <3> QED
      BY <3>1, <3>2 DEF NeverRotatedOut
  <2>10. ASSUME NEW t \in Threads, RefreshFails(t)
         PROVE  NeverRotatedOut'
    <3>1. \A u \in Threads : pc'[u] \in Storing <=> pc[u] \in Storing
      BY <2>10 DEF RefreshFails, Goto, TypeOK, CacheTypeOK
    <3>2. refreshToken' = NoToken /\ UNCHANGED <<bundle, usable, revoked>>
      BY <2>10 DEF RefreshFails
    <3> QED
      BY <3>1, <3>2 DEF NeverRotatedOut
  <2>11. ASSUME NEW t \in Threads, RefreshGranted(t) \/ LoginGranted(t)
         PROVE  NeverRotatedOut'
    <3>1. pc[t] \in {"refresh", "login"} /\ pc' = [pc EXCEPT ![t] = "apply"]
      BY <2>11 DEF RefreshGranted, LoginGranted, Grant, Goto
    <3>2. \A u \in Threads : pc[u] \notin Storing /\ (pc'[u] \in Storing <=> u = t)
      BY <2>1, <3>1 DEF TypeOK, CacheTypeOK, Locked, Fetching
    <3>3. refreshToken # NoToken => refreshToken \in usable \cup revoked
      BY <3>2 DEF NeverRotatedOut
    <3>4. pc'[t] \in Storing /\ UNCHANGED <<refreshToken, revoked>>
      BY <2>11, <3>2 DEF RefreshGranted, LoginGranted, KeepRefreshToken, IssueRefreshToken
    <3>5. \/ bundle'[t] = NoToken /\ usable' = usable
          \/ bundle'[t] # NoToken /\ bundle'[t] \in usable'
      BY <2>11 DEF RefreshGranted, LoginGranted, KeepRefreshToken, IssueRefreshToken,
                   TypeOK, NoToken
    <3> QED
      BY <3>2, <3>3, <3>4, <3>5 DEF NeverRotatedOut
  <2>12. ASSUME NEW t \in Threads, ApplyBundle(t)
         PROVE  NeverRotatedOut'
    <3>1. pc[t] = "store_expiry" /\ pc' = [pc EXCEPT ![t] = "assert"]
      BY <2>12 DEF ApplyBundle, StoreExpiry, Goto
    <3>2. \A u \in Threads : pc'[u] \notin Storing /\ (pc[u] \in Storing <=> u = t)
      BY <2>1, <3>1 DEF TypeOK, CacheTypeOK, Locked, Fetching
    <3>3. /\ refreshToken' = IF bundle[t] # NoToken THEN bundle[t] ELSE refreshToken
          /\ UNCHANGED <<usable, revoked>>
      BY <2>12 DEF ApplyBundle
    <3> QED
      BY <3>1, <3>2, <3>3 DEF NeverRotatedOut
  <2> QED
    BY <2>4, <2>5, <2>6, <2>7, <2>8, <2>9, <2>10, <2>11, <2>12, <2>13
       DEF Next, Fetch
<1> QED
  BY <1>1, <1>2, RefreshableInvariant, PTL DEF Spec

\* "Drop the access token but KEEP the refresh token" (auth.py:210): whatever
\* threads do, only a refresh that failed costs the client its refresh token.
THEOREM RefreshableSessionKept == Spec => SessionKept
<1>1. TypeOK /\ [Next]_vars
        => [refreshToken # NoToken /\ refreshToken' = NoToken =>
              \E t \in Threads : pc[t] = "refresh" /\ pc'[t] = "login"]_vars
  <2> SUFFICES ASSUME TypeOK, [Next]_vars, refreshToken # NoToken, refreshToken' = NoToken
               PROVE  \E t \in Threads : pc[t] = "refresh" /\ pc'[t] = "login"
    OBVIOUS
  <2>1. refreshToken' # refreshToken
    OBVIOUS
  <2>2. \E t \in Threads : RefreshFails(t) \/ ApplyBundle(t)
    BY <2>1 DEF Next, Fetch, Revoke, CacheStep, EnsureToken, RefreshGranted, RefreshUnreadable,
                LoginGranted, LoginFails, KeepRefreshToken, IssueRefreshToken, refreshVars, vars
  <2>3. PICK t \in Threads : RefreshFails(t) \/ ApplyBundle(t)
    BY <2>2
  <2>4. ~ApplyBundle(t)
    BY <2>1 DEF ApplyBundle
  <2> QED
    BY <2>3, <2>4 DEF RefreshFails, Goto, TypeOK, CacheTypeOK
<1> QED
  BY <1>1, RefreshableInvariant, PTL DEF Spec, SessionKept

\* No header carries a token that invalidate had dropped before its call.
THEOREM RefreshableNoDroppedToken == Spec => []NoDroppedToken
<1>1. CacheInv => NoDroppedToken
  BY DEF CacheInv
<1> QED
  BY <1>1, RefreshableInvariant, PTL

\* A token from before the call is handed out only if it was alive when the
\* call began, the interactive login included.
THEOREM RefreshableNoExpiredToken == Spec => []NoExpiredToken
<1>1. CacheInv => NoExpiredToken
  BY DEF CacheInv
<1> QED
  BY <1>1, RefreshableInvariant, PTL

\* The refresh, the fallback to the login and the two stores are one request
\* of TokenSource.
THEOREM RefreshableImplementsTokenSource == Spec => ImplementsTokenSource
<1>1. Init => Source!Init
  BY DEF Init, CacheInit, Source!Init, Entry, Valid, InFlight, Fetching, Source!Empty, NoToken
<1>2. TypeOK /\ CacheInv /\ [Next]_vars => [Source!Next]_(Source!vars)
  <2> SUFFICES ASSUME CacheTypeOK, CacheInv, [Next]_vars
               PROVE  [Source!Next]_(Source!vars)
    BY DEF TypeOK
  <2>1. CASE Tick
    BY <2>1, TickSource DEF Source!Next
  <2>2. CASE Finished \/ Revoke \/ UNCHANGED vars
    <3>1. UNCHANGED <<token, expiresAt, now, issued, InFlight>>
      BY <2>2 DEF Finished, Revoke, vars, cacheVars, InFlight
    <3> QED
      BY <3>1, SourceStutter
  <2>3. ASSUME NEW t \in Threads, Calls(t)
        PROVE  [Source!Next]_(Source!vars)
    BY <2>3, ReadStepSource DEF Calls, CallHeader, CallInvalidate
  <2>4. ASSUME NEW t \in Threads, CacheStep(t)
        PROVE  [Source!Next]_(Source!vars)
    <3>1. CASE StoreToken(t)
      BY <3>1, ProceedSource DEF StoreToken, idpVars, Fetching
    <3>2. CASE HeaderStep(t)
      BY <3>1, <3>2, ReadStepSource, RecheckSource DEF HeaderStep
    <3>3. CASE InvalidateStep(t)
      BY <3>3, InvalidateStepSource DEF Source!Next
    <3> QED
      BY <2>4, <3>2, <3>3 DEF CacheStep
  <2>5. ASSUME NEW t \in Threads, EnsureToken(t) \/ RefreshFails(t)
        PROVE  [Source!Next]_(Source!vars)
    <3>1. UNCHANGED <<now, issued>>
      BY <2>5 DEF EnsureToken, RefreshFails, idpVars
    <3>2. \E from \in Fetching, to \in Fetching : Goto(t, from, to)
      BY <2>5 DEF EnsureToken, RefreshFails, Fetching
    <3> QED
      BY <3>1, <3>2, ProceedSource
  <2>6. ASSUME NEW t \in Threads, RefreshGranted(t) \/ LoginGranted(t)
        PROVE  [Source!Next]_(Source!vars)
    BY <2>6, GrantSource DEF RefreshGranted, LoginGranted, Fetching, Source!Next
  <2>7. ASSUME NEW t \in Threads, RefreshUnreadable(t) \/ LoginFails(t)
        PROVE  [Source!Next]_(Source!vars)
    BY <2>7, AbortSource DEF RefreshUnreadable, LoginFails, Fetching, Source!Next
  <2>8. ASSUME NEW t \in Threads, ApplyBundle(t)
        PROVE  [Source!Next]_(Source!vars)
    BY <2>8, StoreExpirySource DEF ApplyBundle, Source!Next
  <2> QED
    BY <2>1, <2>2, <2>3, <2>4, <2>5, <2>6, <2>7, <2>8 DEF Next, Fetch
<1> QED
  BY <1>1, <1>2, RefreshableInvariant, PTL DEF Spec, ImplementsTokenSource, Source!Spec

\* At most one thread is in a token request, the interactive login included.
THEOREM RefreshableSingleFlight == Spec => []SingleFlight
<1>1. CacheInv => SingleFlight
  BY ThreadAssumption DEF CacheInv, LockInv, SingleFlight, Locked
<1> QED
  BY <1>1, RefreshableInvariant, PTL

(***************************************************************************)
(* Transport and ClientCredentials                                         *)
(***************************************************************************)

\* A step of ClientCredentials, in the terms of AuthCache.
AuthMove(t) ==
    \/ HeaderStep(t) \/ InvalidateStep(t)
    \/ Grant(t, "fetch")
    \/ \E from \in {"fetch", "apply"} : Abort(t, from, "AuthError")
    \/ Abort(t, "fetch", "ValueError")
    \/ StoreExpiry(t)

LEMMA AuthMoves == \A t \in Threads : Credentials!Step(t) <=> AuthMove(t)
  BY DEF AuthMove, Credentials!Step, Credentials!Refresh, Credentials!RequestGranted,
     Credentials!RequestFails, Credentials!RequestUnreadable,
     Credentials!HeaderStep, Credentials!InvalidateStep, Credentials!CheckToken,
     Credentials!CheckExpiry, Credentials!Acquire, Credentials!Recheck,
     Credentials!StoreToken, Credentials!AssertToken, Credentials!ReadToken,
     Credentials!DropToken, Credentials!DropExpiry, Credentials!Grant, Credentials!Abort,
     Credentials!StoreExpiry, 
     Credentials!Goto, Credentials!Valid, Credentials!Unexpired, Credentials!Header,
     Credentials!Raised, Credentials!NoReply, Credentials!NoToken, Credentials!lockVars,
     Credentials!idpVars, Credentials!callVars,
     HeaderStep, InvalidateStep, CheckToken, CheckExpiry, Acquire, Recheck,
     StoreToken, AssertToken, ReadToken, DropToken, DropExpiry, Grant, Abort,
     StoreExpiry, Goto, Valid, Unexpired, Header, Raised, NoReply, NoToken, lockVars,
     idpVars, callVars

\* What a step of the Auth leaves alone, and where it goes.
LEMMA AuthMoveFrame ==
    ASSUME CacheTypeOK, NEW t \in Threads, AuthMove(t)
    PROVE  /\ pc[t] # "idle" /\ call' = call
           /\ \A u \in Threads : u # t => pc'[u] = pc[u] /\ ret'[u] = ret[u]
           /\ pc[t] = "want_drop" => pc'[t] = "drop_token"
           /\ pc[t] = "drop_token" => pc'[t] = "drop_expiry" /\ DropToken(t)
           /\ pc[t] = "drop_expiry" => pc'[t] = "idle"
           /\ ret'[t].token \in {ret[t].token, token, NoToken}
<1> USE DEF Goto, lockVars, idpVars, callVars, CacheTypeOK
<1>1. CASE CheckToken(t) \/ CheckExpiry(t) \/ Acquire(t) \/ Recheck(t) \/ StoreToken(t)
  BY <1>1 DEF CheckToken, CheckExpiry, Acquire, Recheck, StoreToken
<1>2. CASE AssertToken(t)
  BY <1>2 DEF AssertToken, Raised
<1>3. CASE ReadToken(t)
  BY <1>3 DEF ReadToken, Header
<1>4. CASE DropToken(t) \/ DropExpiry(t)
  BY <1>4 DEF DropToken, DropExpiry
<1>5. CASE Grant(t, "fetch")
  BY <1>5 DEF Grant
<1>6. ASSUME NEW from \in {"fetch", "apply"}, NEW error, Abort(t, from, error)
      PROVE  /\ pc[t] = from /\ pc' = [pc EXCEPT ![t] = "idle"] /\ call' = call
             /\ ret' = [ret EXCEPT ![t] = Raised(error)] /\ Raised(error).token = NoToken
  BY <1>6 DEF Abort, Raised
<1>7. CASE StoreExpiry(t)
  BY <1>7 DEF StoreExpiry
<1>8. CASE \/ \E from \in {"fetch", "apply"} : Abort(t, from, "AuthError")
           \/ Abort(t, "fetch", "ValueError")
  BY <1>6, <1>8
<1> QED
  BY <1>1, <1>2, <1>3, <1>4, <1>5, <1>7, <1>8 DEF AuthMove, HeaderStep, InvalidateStep

\* Tokens come into the cache in order, and what was dropped stays dropped.
LEMMA NewestGrows ==
    ASSUME CacheTypeOK, CacheInv, NEW t \in Threads, AuthMove(t)
    PROVE  Newest <= Newest' /\ dropped <= dropped' /\ Newest \in Nat /\ Newest' \in Nat
<1>0. /\ token \in Nat /\ dropped \in Nat /\ issued \in Nat
      /\ token # NoToken => token > dropped
      /\ token <= issued /\ dropped <= issued
  BY DEF CacheTypeOK, CacheInv, TokenInv
<1>1. CASE UNCHANGED <<token, dropped>>
  BY <1>0, <1>1 DEF Newest, NoToken
<1>2. CASE StoreToken(t)
  <2>1. pc[t] = "apply" /\ token' = reply[t].token /\ dropped' = dropped
    BY <1>2 DEF StoreToken, Goto
  <2>2. reply[t].token = issued /\ issued > dropped
    BY <2>1 DEF CacheInv, ReplyInv
  <2> QED
    BY <1>0, <2>1, <2>2 DEF Newest, NoToken
<1>3. CASE DropToken(t)
  BY <1>0, <1>3 DEF DropToken, Newest, NoToken
<1>4. AuthMove(t) /\ ~StoreToken(t) /\ ~DropToken(t) => UNCHANGED <<token, dropped>>
  BY DEF AuthMove, HeaderStep, InvalidateStep, CheckToken, CheckExpiry, Acquire, Recheck,
     AssertToken, ReadToken, DropExpiry, Grant, Abort, StoreExpiry, lockVars
<1> QED
  BY <1>1, <1>2, <1>3, <1>4

\* Every step of a thread preserves the invariant.
LEMMA AuthMoveInv ==
    ASSUME CacheTypeOK, CacheInv, NEW t \in Threads, AuthMove(t)
    PROVE  CacheTypeOK' /\ CacheInv'
<1>2. CASE HeaderStep(t)
  BY <1>2, CheckTokenInv, CheckExpiryInv, AcquireInv, RecheckInv, StoreTokenInv,
     AssertTokenInv, ReadTokenInv DEF HeaderStep
<1>3. CASE InvalidateStep(t)
  BY <1>3, DropTokenInv, DropExpiryInv DEF InvalidateStep
<1>4. CASE Grant(t, "fetch")
  BY <1>4, GrantInv
<1>5. CASE \/ \E from \in {"fetch", "apply"} : Abort(t, from, "AuthError")
           \/ Abort(t, "fetch", "ValueError")
  BY <1>5, AbortInv
<1>6. CASE StoreExpiry(t)
  BY <1>6, StoreExpiryInv
<1> QED
  BY <1>2, <1>3, <1>4, <1>5, <1>6 DEF AuthMove

-----------------------------------------------------------------------------
\* A step of the Auth that one thread's call makes.
LEMMA AuthStepInv ==
    ASSUME TransportInv, NEW t \in Threads, AuthMove(t), UNCHANGED requestVars
    PROVE  TransportInv'
<1> USE DEF requestVars
<1>1. CacheTypeOK' /\ CacheInv'
  BY AuthMoveInv DEF TransportInv, TransportTypeOK
<1>2. /\ pc[t] # "idle" /\ call' = call
      /\ \A u \in Threads : u # t => pc'[u] = pc[u] /\ ret'[u] = ret[u]
      /\ pc[t] = "want_drop" => pc'[t] = "drop_token"
      /\ pc[t] = "drop_token" => pc'[t] = "drop_expiry" /\ DropToken(t)
      /\ pc[t] = "drop_expiry" => pc'[t] = "idle"
      /\ ret'[t].token \in {ret[t].token, token, NoToken}
  BY AuthMoveFrame DEF TransportInv, TransportTypeOK
<1>3. Newest <= Newest' /\ dropped <= dropped' /\ Newest \in Nat /\ Newest' \in Nat
  BY NewestGrows DEF TransportInv, TransportTypeOK
<1>4. TransportTypeOK'
  <2>1. refused' \subseteq 1..issued'
    <3>1. issued \in Nat /\ issued' \in Nat /\ issued <= issued'
      BY <1>1 DEF TransportInv, TransportTypeOK, CacheTypeOK, AuthMove, HeaderStep, InvalidateStep,
         CheckToken, CheckExpiry, Acquire, Recheck, AssertToken, ReadToken, DropExpiry, Grant,
         Abort, StoreExpiry, StoreToken, DropToken, idpVars
    <3> QED
      BY <3>1 DEF TransportInv, TransportTypeOK
  <2> QED
    BY <1>1, <2>1 DEF TransportInv, TransportTypeOK
<1>5. RequestInv'
  BY <1>2 DEF TransportInv, RequestInv
<1>6. SentInv'
  <2> SUFFICES ASSUME NEW u \in Threads
               PROVE  /\ ret'[u].token <= Newest'
                      /\ \A i \in DOMAIN sent[u] : sent[u][i] <= Newest'
                      /\ stage[u] = "dropping" /\ pc'[u] \in {"drop_expiry", "idle"}
                           => sent[u][1] <= dropped'
                      /\ stage[u] = "second" => sent[u][1] <= call'[u].dropped
    BY DEF SentInv
  <2>0. /\ sent[u] \in Seq(Nat) /\ ret[u].token \in Nat /\ ret'[u].token \in Nat
        /\ dropped \in Nat /\ dropped' \in Nat /\ token \in Nat
    BY <1>1 DEF TransportInv, TransportTypeOK, CacheTypeOK, Return
  <2>1. token <= Newest
    BY <2>0 DEF Newest, NoToken
  <2>2. ret'[u].token <= Newest'
    <3>1. ret[u].token <= Newest
      BY DEF TransportInv, SentInv
    <3> QED
      BY <1>2, <1>3, <2>0, <2>1, <3>1 DEF NoToken
  <2>3. \A i \in DOMAIN sent[u] : sent[u][i] \in Nat /\ sent[u][i] <= Newest
    BY <2>0 DEF TransportInv, SentInv
  <2>4. \A i \in DOMAIN sent[u] : sent[u][i] <= Newest'
    BY <1>3, <2>3
  <2>5. ASSUME stage[u] = "dropping", pc'[u] \in {"drop_expiry", "idle"}
        PROVE  sent[u][1] <= dropped'
    <3>1. Len(sent[u]) = 1 /\ pc[u] \in {"want_drop", "drop_token", "drop_expiry", "idle"}
      BY <2>5 DEF TransportInv, RequestInv
    <3>2. sent[u][1] \in Nat /\ sent[u][1] <= Newest
      BY <2>0, <2>3, <3>1
    <3>3. CASE pc[u] \in {"drop_expiry", "idle"}
      <4>1. sent[u][1] <= dropped
        BY <2>5, <3>3 DEF TransportInv, SentInv
      <4> QED
        BY <1>3, <2>0, <3>2, <4>1
    <3>4. CASE pc[u] \in {"want_drop", "drop_token"}
      <4>1. u = t /\ DropToken(t)
        BY <1>2, <2>5, <3>4
      <4>2. Newest <= dropped'
        BY <2>0, <4>1 DEF DropToken, Newest, NoToken
      <4> QED
        BY <1>3, <2>0, <3>2, <4>2
    <3> QED
      BY <3>1, <3>3, <3>4
  <2>6. stage[u] = "second" => sent[u][1] <= call'[u].dropped
    BY <1>2 DEF TransportInv, SentInv
  <2> QED
    BY <2>2, <2>4, <2>5, <2>6
<1>7. RetryCarriesNewerToken' /\ ExecutedAtMostOnce'
  BY DEF TransportInv, RetryCarriesNewerToken, ExecutedAtMostOnce
<1> QED
  BY <1>1, <1>4, <1>5, <1>6, <1>7 DEF TransportInv

\* A call of the Auth begins, for a request that goes on to the stage `to`.
LEMMA BeginFrame ==
    ASSUME CacheTypeOK, CacheInv, NEW t \in Threads, NEW first \in {"check_token", "want_drop"},
           Begin(t, first)
    PROVE  /\ CacheTypeOK' /\ CacheInv'
           /\ Newest' = Newest /\ dropped' = dropped /\ issued' = issued
           /\ pc[t] = "idle" /\ pc'[t] = first
           /\ \A u \in Threads : u # t => pc'[u] = pc[u] /\ ret'[u] = ret[u] /\ call'[u] = call[u]
           /\ ret'[t].token = 0 /\ call'[t].dropped = dropped
<1>1. CacheTypeOK' /\ CacheInv'
  BY BeginInv
<1> QED
  BY <1>1 DEF Begin, Goto, lockVars, idpVars, CacheTypeOK, Newest, NotReturned, NoToken

LEMMA RequestBeginsInv ==
    ASSUME TransportInv, NEW t \in Threads, Request(t)
    PROVE  TransportInv'
<1>1. /\ stage[t] = "ready" /\ stage' = [stage EXCEPT ![t] = "first"]
      /\ sent' = [sent EXCEPT ![t] = << >>] /\ executed' = [executed EXCEPT ![t] = 0]
      /\ outcome' = [outcome EXCEPT ![t] = "none"]
      /\ requests' = [requests EXCEPT ![t] = @ + 1] /\ refused' = refused
      /\ Begin(t, "check_token")
  BY DEF Request, Enter, CallHeader
<1>2. /\ CacheTypeOK' /\ CacheInv' /\ Newest' = Newest /\ dropped' = dropped /\ issued' = issued
      /\ pc[t] = "idle" /\ pc'[t] = "check_token"
      /\ \A u \in Threads : u # t => pc'[u] = pc[u] /\ ret'[u] = ret[u] /\ call'[u] = call[u]
      /\ ret'[t].token = 0 /\ call'[t].dropped = dropped
  BY <1>1, BeginFrame DEF TransportInv, TransportTypeOK
<1>3. TransportTypeOK'
  BY <1>1, <1>2 DEF TransportInv, TransportTypeOK
<1>4. RequestInv'
  BY <1>1, <1>2 DEF TransportInv, TransportTypeOK, RequestInv
<1>5. SentInv'
  <2>1. Newest \in Nat
    BY DEF TransportInv, TransportTypeOK, CacheTypeOK, Newest
  <2>2. stage \in [Threads -> {"ready", "first", "rejected", "dropping", "second"}]
        /\ sent \in [Threads -> Seq(Nat)]
    BY DEF TransportInv, TransportTypeOK
  <2> SUFFICES ASSUME NEW u \in Threads
               PROVE  /\ ret'[u].token <= Newest'
                      /\ \A i \in DOMAIN sent'[u] : sent'[u][i] <= Newest'
                      /\ stage'[u] = "dropping" /\ pc'[u] \in {"drop_expiry", "idle"}
                           => sent'[u][1] <= dropped'
                      /\ stage'[u] = "second" => sent'[u][1] <= call'[u].dropped
    BY DEF SentInv
  <2>3. CASE u = t
    BY <1>1, <1>2, <2>1, <2>2, <2>3 DEF TransportInv, SentInv
  <2>4. CASE u # t
    BY <1>1, <1>2, <2>2, <2>4 DEF TransportInv, SentInv
  <2> QED
    BY <2>3, <2>4
<1>6. RetryCarriesNewerToken' /\ ExecutedAtMostOnce'
  BY <1>1 DEF TransportInv, TransportTypeOK, RetryCarriesNewerToken, ExecutedAtMostOnce
<1> QED
  BY <1>2, <1>3, <1>4, <1>5, <1>6 DEF TransportInv

LEMMA InvalidateInv ==
    ASSUME TransportInv, NEW t \in Threads, Invalidate(t)
    PROVE  TransportInv'
<1>1. /\ stage[t] = "rejected" /\ stage' = [stage EXCEPT ![t] = "dropping"]
      /\ UNCHANGED <<sent, executed, outcome, requests, refused>>
      /\ Begin(t, "want_drop")
  BY DEF Invalidate, Enter, CallInvalidate
<1>2. /\ CacheTypeOK' /\ CacheInv' /\ Newest' = Newest /\ dropped' = dropped /\ issued' = issued
      /\ pc[t] = "idle" /\ pc'[t] = "want_drop"
      /\ \A u \in Threads : u # t => pc'[u] = pc[u] /\ ret'[u] = ret[u] /\ call'[u] = call[u]
      /\ ret'[t].token = 0 /\ call'[t].dropped = dropped
  BY <1>1, BeginFrame DEF TransportInv, TransportTypeOK
<1>3. TransportTypeOK'
  BY <1>1, <1>2 DEF TransportInv, TransportTypeOK
<1>4. RequestInv'
  BY <1>1, <1>2 DEF TransportInv, TransportTypeOK, RequestInv
<1>5. SentInv'
  <2>1. Newest \in Nat
    BY DEF TransportInv, TransportTypeOK, CacheTypeOK, Newest
  <2>2. stage \in [Threads -> {"ready", "first", "rejected", "dropping", "second"}]
        /\ sent \in [Threads -> Seq(Nat)]
    BY DEF TransportInv, TransportTypeOK
  <2> SUFFICES ASSUME NEW u \in Threads
               PROVE  /\ ret'[u].token <= Newest'
                      /\ \A i \in DOMAIN sent'[u] : sent'[u][i] <= Newest'
                      /\ stage'[u] = "dropping" /\ pc'[u] \in {"drop_expiry", "idle"}
                           => sent'[u][1] <= dropped'
                      /\ stage'[u] = "second" => sent'[u][1] <= call'[u].dropped
    BY DEF SentInv
  <2>3. CASE u = t
    BY <1>1, <1>2, <2>1, <2>2, <2>3 DEF TransportInv, SentInv
  <2>4. CASE u # t
    BY <1>1, <1>2, <2>2, <2>4 DEF TransportInv, SentInv
  <2> QED
    BY <2>3, <2>4
<1>6. RetryCarriesNewerToken' /\ ExecutedAtMostOnce'
  BY <1>1 DEF TransportInv, TransportTypeOK, RetryCarriesNewerToken, ExecutedAtMostOnce
<1> QED
  BY <1>2, <1>3, <1>4, <1>5, <1>6 DEF TransportInv

LEMMA RetryInv ==
    ASSUME TransportInv, NEW t \in Threads, Retry(t)
    PROVE  TransportInv'
<1>1. /\ pc[t] = "idle" /\ stage[t] = "dropping" /\ stage' = [stage EXCEPT ![t] = "second"]
      /\ UNCHANGED <<sent, executed, outcome, requests, refused>>
      /\ Begin(t, "check_token")
  BY DEF Retry, Returned, Enter, CallHeader
<1>2. /\ CacheTypeOK' /\ CacheInv' /\ Newest' = Newest /\ dropped' = dropped /\ issued' = issued
      /\ pc'[t] = "check_token"
      /\ \A u \in Threads : u # t => pc'[u] = pc[u] /\ ret'[u] = ret[u] /\ call'[u] = call[u]
      /\ ret'[t].token = 0 /\ call'[t].dropped = dropped
  BY <1>1, BeginFrame DEF TransportInv, TransportTypeOK
<1>3. TransportTypeOK'
  BY <1>1, <1>2 DEF TransportInv, TransportTypeOK
<1>4. RequestInv'
  BY <1>1, <1>2 DEF TransportInv, TransportTypeOK, RequestInv
<1>5. SentInv'
  <2>1. Newest \in Nat
    BY DEF TransportInv, TransportTypeOK, CacheTypeOK, Newest
  <2>2. stage \in [Threads -> {"ready", "first", "rejected", "dropping", "second"}]
        /\ sent \in [Threads -> Seq(Nat)]
    BY DEF TransportInv, TransportTypeOK
  <2> SUFFICES ASSUME NEW u \in Threads
               PROVE  /\ ret'[u].token <= Newest'
                      /\ \A i \in DOMAIN sent'[u] : sent'[u][i] <= Newest'
                      /\ stage'[u] = "dropping" /\ pc'[u] \in {"drop_expiry", "idle"}
                           => sent'[u][1] <= dropped'
                      /\ stage'[u] = "second" => sent'[u][1] <= call'[u].dropped
    BY DEF SentInv
  <2>3. CASE u = t
    BY <1>1, <1>2, <2>1, <2>2, <2>3 DEF TransportInv, SentInv
  <2>4. CASE u # t
    BY <1>1, <1>2, <2>2, <2>4 DEF TransportInv, SentInv
  <2> QED
    BY <2>3, <2>4
<1>6. RetryCarriesNewerToken' /\ ExecutedAtMostOnce'
  BY <1>1 DEF TransportInv, TransportTypeOK, RetryCarriesNewerToken, ExecutedAtMostOnce
<1> QED
  BY <1>2, <1>3, <1>4, <1>5, <1>6 DEF TransportInv

\* The Auth stands still: cacheVars unchanged.
LEMMA AuthStill ==
    ASSUME TransportInv, UNCHANGED cacheVars
    PROVE  /\ CacheTypeOK' /\ CacheInv' /\ Newest' = Newest /\ pc' = pc /\ ret' = ret
           /\ call' = call /\ dropped' = dropped /\ issued' = issued
<1>1. CacheTypeOK' /\ CacheInv'
  BY StutterInv DEF TransportInv, TransportTypeOK
<1> QED
  BY <1>1 DEF cacheVars, Newest

LEMMA HeaderFailsInv ==
    ASSUME TransportInv, NEW t \in Threads, HeaderFails(t)
    PROVE  TransportInv'
<1>1. PICK how \in {"AuthError", "AssertionError", "ValueError"} :
        /\ pc[t] = "idle" /\ stage[t] \in {"first", "second"}
        /\ stage' = [stage EXCEPT ![t] = "ready"] /\ outcome' = [outcome EXCEPT ![t] = how]
        /\ UNCHANGED <<cacheVars, sent, executed, requests, refused>>
  BY DEF HeaderFails, Returned, End, Enter
<1>2. /\ CacheTypeOK' /\ CacheInv' /\ Newest' = Newest /\ pc' = pc /\ ret' = ret
      /\ call' = call /\ dropped' = dropped /\ issued' = issued
  BY <1>1, AuthStill
<1>3. TransportTypeOK'
  BY <1>1, <1>2 DEF TransportInv, TransportTypeOK
<1>4. RequestInv'
  BY <1>1, <1>2 DEF TransportInv, TransportTypeOK, RequestInv
<1>5. SentInv'
  BY <1>1, <1>2 DEF TransportInv, TransportTypeOK, SentInv
<1>6. RetryCarriesNewerToken' /\ ExecutedAtMostOnce'
  BY <1>1 DEF TransportInv, RetryCarriesNewerToken, ExecutedAtMostOnce
<1> QED
  BY <1>2, <1>3, <1>4, <1>5, <1>6 DEF TransportInv

\* One exchange: the token that is sent is the first, or newer than the first, or
\* there is none.
LEMMA ExchangeSends ==
    ASSUME TransportInv, NEW t \in Threads, Exchange(t)
    PROVE  /\ pc[t] = "idle" /\ stage[t] \in {"first", "second"}
           /\ ret[t].token \in Nat /\ ret[t].token <= Newest
           /\ sent' = [sent EXCEPT ![t] = Append(sent[t], ret[t].token)]
           /\ sent'[t] \in Seq(Nat)
           /\ stage[t] = "first" => Len(sent'[t]) = 1 /\ sent'[t][1] = ret[t].token
           /\ stage[t] = "second" =>
                 /\ Len(sent'[t]) = 2 /\ sent'[t][1] = sent[t][1] /\ sent'[t][2] = ret[t].token
                 /\ ret[t].token = NoToken \/ ret[t].token > sent[t][1]
<1>1. /\ pc[t] = "idle" /\ stage[t] \in {"first", "second"} /\ ret[t].kind = "header"
      /\ sent' = [sent EXCEPT ![t] = Append(sent[t], ret[t].token)]
  BY DEF Exchange, Returned
<1>2. /\ sent \in [Threads -> Seq(Nat)] /\ ret[t].token \in Nat /\ call[t].dropped \in Nat
  BY DEF TransportInv, TransportTypeOK, CacheTypeOK, Return, Call
<1>3. ret[t].token <= Newest
  BY DEF TransportInv, SentInv
<1>4. /\ stage[t] = "first" => Len(sent[t]) = 0
      /\ stage[t] = "second" => Len(sent[t]) = 1 /\ sent[t][1] <= call[t].dropped
  BY DEF TransportInv, RequestInv, SentInv
<1>5. ret[t].token = NoToken \/ ret[t].token > call[t].dropped
  BY <1>1 DEF TransportInv, CacheInv, NoDroppedToken
<1>6. stage[t] = "second" => sent[t][1] \in Nat
  <2>1. sent[t] \in Seq(Nat)
    BY <1>2
  <2> QED
    BY <1>4, <2>1
<1>7. sent'[t] = Append(sent[t], ret[t].token)
  BY <1>1, <1>2
<1> QED
  BY <1>1, <1>2, <1>3, <1>4, <1>5, <1>6, <1>7

\* An exchange that ends the request, or that goes on after a 401 to the first.
LEMMA ExchangeInv ==
    ASSUME TransportInv, NEW t \in Threads,
           FirstRefused(t) \/ SecondRefused(t) \/ Succeeds(t) \/ FailsOnServer(t) \/ Lost(t)
    PROVE  TransportInv'
<1>1. Exchange(t) /\ UNCHANGED <<cacheVars, requests, refused>>
  BY DEF FirstRefused, SecondRefused, Succeeds, FailsOnServer, Lost, Exchange
<1>2. /\ CacheTypeOK' /\ CacheInv' /\ Newest' = Newest /\ pc' = pc /\ ret' = ret
      /\ call' = call /\ dropped' = dropped /\ issued' = issued
  BY <1>1, AuthStill
<1>3. /\ pc[t] = "idle" /\ stage[t] \in {"first", "second"}
      /\ ret[t].token \in Nat /\ ret[t].token <= Newest
      /\ sent' = [sent EXCEPT ![t] = Append(sent[t], ret[t].token)]
      /\ sent'[t] \in Seq(Nat)
      /\ stage[t] = "first" => Len(sent'[t]) = 1 /\ sent'[t][1] = ret[t].token
      /\ stage[t] = "second" =>
            /\ Len(sent'[t]) = 2 /\ sent'[t][1] = sent[t][1] /\ sent'[t][2] = ret[t].token
            /\ ret[t].token = NoToken \/ ret[t].token > sent[t][1]
  BY <1>1, ExchangeSends
<1>4. executed \in [Threads -> Nat] /\ executed[t] = 0
  BY <1>3 DEF TransportInv, TransportTypeOK, RequestInv
<1>5. /\ executed' \in [Threads -> Nat] /\ executed'[t] \in {0, 1}
      /\ \A u \in Threads : u # t => executed'[u] = executed[u]
      /\ stage' \in [Threads -> {"ready", "rejected"} \cup {stage[u] : u \in Threads}]
      /\ \A u \in Threads : u # t => stage'[u] = stage[u]
      /\ \/ stage'[t] = "ready"
         \/ stage'[t] = "rejected" /\ stage[t] = "first" /\ executed'[t] = 0
      /\ outcome' \in [Threads -> {"none", "response", "LakekeeperHttpError", "AuthError",
                                   "ValueError", "AssertionError", "httpx.HTTPError"}]
  <2> USE <1>4 DEF TransportInv, TransportTypeOK, Enter, End, Execute
  <2>1. CASE FirstRefused(t)
    BY <2>1 DEF FirstRefused
  <2>2. CASE SecondRefused(t)
    BY <2>2 DEF SecondRefused
  <2>3. CASE Succeeds(t)
    BY <2>3 DEF Succeeds
  <2>4. CASE FailsOnServer(t)
    <3>1. PICK times \in 0..1 : executed' = [executed EXCEPT ![t] = @ + times]
      BY <2>4 DEF FailsOnServer
    <3> QED
      BY <2>4, <3>1 DEF FailsOnServer
  <2>5. CASE Lost(t)
    <3>1. PICK times \in 0..(IF Accepted(ret[t].token) THEN 1 ELSE 0) :
            executed' = [executed EXCEPT ![t] = @ + times]
      BY <2>5 DEF Lost
    <3>2. times \in 0..1
      OBVIOUS
    <3> QED
      BY <2>5, <3>1, <3>2 DEF Lost
  <2> QED
    BY <2>1, <2>2, <2>3, <2>4, <2>5
<1>6. TransportTypeOK'
  BY <1>1, <1>2, <1>3, <1>5 DEF TransportInv, TransportTypeOK
<1>7. \A u \in Threads : u # t => sent'[u] = sent[u]
  BY <1>3 DEF TransportInv, TransportTypeOK
<1>8. RequestInv'
  <2> SUFFICES ASSUME NEW u \in Threads
               PROVE  /\ stage'[u] \in {"ready", "rejected"} => pc[u] = "idle"
                      /\ stage'[u] = "dropping" =>
                            pc[u] \in {"want_drop", "drop_token", "drop_expiry", "idle"}
                      /\ stage'[u] = "first" => Len(sent'[u]) = 0
                      /\ stage'[u] \in {"rejected", "dropping", "second"} => Len(sent'[u]) = 1
                      /\ Len(sent'[u]) <= 2
                      /\ stage'[u] # "ready" => executed'[u] = 0
    BY <1>2 DEF RequestInv
  <2>1. CASE u = t
    <3>1. Len(sent'[u]) \in {1, 2} /\ (stage[u] = "first" => Len(sent'[u]) = 1)
      BY <1>3, <2>1
    <3>2. Len(sent'[u]) <= 2
      <4>1. \A n : n \in {1, 2} => n <= 2
        OBVIOUS
      <4> QED
        BY <3>1, <4>1
    <3>3. pc[u] = "idle"
      BY <1>3, <2>1
    <3>4. \/ stage'[u] = "ready"
          \/ stage'[u] = "rejected" /\ Len(sent'[u]) = 1 /\ executed'[u] = 0
      BY <1>5, <2>1, <3>1
    <3> QED
      BY <3>1, <3>2, <3>3, <3>4
  <2>2. CASE u # t
    <3>1. sent'[u] = sent[u] /\ stage'[u] = stage[u] /\ executed'[u] = executed[u]
      BY <1>5, <1>7, <2>2
    <3> QED
      BY <3>1 DEF TransportInv, RequestInv
  <2> QED
    BY <2>1, <2>2
<1>9. SentInv'
  <2> SUFFICES ASSUME NEW u \in Threads
               PROVE  /\ ret[u].token <= Newest
                      /\ \A i \in DOMAIN sent'[u] : sent'[u][i] <= Newest
                      /\ stage'[u] = "dropping" /\ pc[u] \in {"drop_expiry", "idle"}
                           => sent'[u][1] <= dropped
                      /\ stage'[u] = "second" => sent'[u][1] <= call[u].dropped
    BY <1>2 DEF SentInv
  <2>1. CASE u # t
    <3>1. sent'[u] = sent[u] /\ stage'[u] = stage[u]
      BY <1>5, <1>7, <2>1
    <3> QED
      BY <3>1 DEF TransportInv, SentInv
  <2>2. CASE u = t
    <3>1. \A i \in DOMAIN sent'[t] : sent'[t][i] <= Newest
      <4>1. stage[t] = "second" => sent[t][1] <= Newest
        <5>1. stage[t] = "second" => 1 \in DOMAIN sent[t]
          BY DEF TransportInv, TransportTypeOK, RequestInv
        <5> QED
          BY <5>1 DEF TransportInv, SentInv
      <4>2. DOMAIN sent'[t] = 1..Len(sent'[t])
        BY <1>3
      <4>3. \A i \in DOMAIN sent'[t] : i = 1 \/ (i = 2 /\ stage[t] = "second")
        BY <1>3, <4>2
      <4> QED
        BY <1>3, <4>1, <4>3
    <3> QED
      BY <1>3, <1>5, <2>2, <3>1
  <2> QED
    BY <2>1, <2>2
<1>10. RetryCarriesNewerToken'
  BY <1>3, <1>7 DEF TransportInv, RetryCarriesNewerToken
<1>11. ExecutedAtMostOnce'
  BY <1>5 DEF TransportInv, ExecutedAtMostOnce
<1> QED
  BY <1>2, <1>6, <1>8, <1>9, <1>10, <1>11 DEF TransportInv

\* The clock and the server's refusals, and steps that change nothing.
LEMMA OutsideInv ==
    ASSUME TransportInv, (Tick /\ UNCHANGED requestVars) \/ Refuse \/ UNCHANGED transportVars
    PROVE  TransportInv'
<1>1. /\ CacheTypeOK' /\ CacheInv'
      /\ UNCHANGED <<token, pc, ret, call, dropped, issued>>
      /\ UNCHANGED <<stage, sent, executed, outcome, requests>>
      /\ refused' \subseteq 1..issued
  <2>1. CASE Tick /\ UNCHANGED requestVars
    BY <2>1, TickInv DEF Tick, lockVars, idpVars, callVars, requestVars, TransportInv, TransportTypeOK
  <2>2. CASE Refuse
    <3>1. UNCHANGED cacheVars
      BY <2>2 DEF Refuse
    <3>2. CacheTypeOK' /\ CacheInv'
      BY <3>1, AuthStill
    <3> QED
      BY <2>2, <3>2 DEF Refuse, cacheVars, TransportInv, TransportTypeOK
  <2>3. CASE UNCHANGED transportVars
    <3>1. CacheTypeOK' /\ CacheInv'
      BY <2>3, AuthStill DEF transportVars
    <3> QED
      BY <2>3, <3>1 DEF transportVars, requestVars, cacheVars, TransportInv, TransportTypeOK
  <2> QED
    BY <2>1, <2>2, <2>3
<1>2. Newest' = Newest
  BY <1>1 DEF Newest
<1>3. TransportTypeOK'
  BY <1>1 DEF TransportInv, TransportTypeOK
<1> QED
  BY <1>1, <1>2, <1>3 DEF TransportInv, RequestInv, SentInv, RetryCarriesNewerToken,
     ExecutedAtMostOnce

-----------------------------------------------------------------------------
\* ClientCredentials, in the terms of AuthCache.
LEMMA CredentialsIs ==
    /\ Credentials!Init <=> CacheInit
    /\ Credentials!Next <=> Tick \/ Finished \/ \E t \in Threads : Calls(t) \/ AuthMove(t)
    /\ Credentials!vars = cacheVars
<1>1. Credentials!Next <=>
        Credentials!Tick \/ Credentials!Finished
        \/ \E t \in Threads : Credentials!Calls(t) \/ Credentials!Step(t)
  BY DEF Credentials!Next
<1>2. Credentials!vars = cacheVars
  BY DEF Credentials!vars, Credentials!cacheVars, cacheVars
<1>3. Credentials!Tick <=> Tick
  BY DEF Credentials!Tick, Tick, Credentials!lockVars, lockVars, Credentials!idpVars, idpVars,
     Credentials!callVars, callVars
<1>4. Credentials!Finished <=> Finished
  BY <1>2 DEF Credentials!Finished, Finished, Credentials!cacheVars, cacheVars
<1>5. \A t \in Threads : Credentials!Calls(t) <=> Calls(t)
  BY DEF Credentials!Calls, Calls, Credentials!CallHeader, CallHeader, Credentials!CallInvalidate,
     CallInvalidate, Credentials!Begin, Begin, Credentials!Goto, Goto, Credentials!NotReturned,
     NotReturned, Credentials!NoToken, NoToken,
     Credentials!lockVars, lockVars, Credentials!idpVars, idpVars
<1>6. Credentials!Init <=> CacheInit
  BY DEF Credentials!Init, Credentials!CacheInit, CacheInit, Credentials!NoReply, NoReply,
     Credentials!NotReturned, NotReturned, Credentials!NoToken, NoToken
<1> QED
  BY <1>1, <1>2, <1>3, <1>4, <1>5, <1>6, AuthMoves

-----------------------------------------------------------------------------
\* The invariant of Transport holds at the start ...
LEMMA TransportStarts == TransportInit => TransportInv
<1> SUFFICES ASSUME TransportInit PROVE TransportInv
  OBVIOUS
<1>1. CacheTypeOK /\ CacheInv
  BY InitInv DEF TransportInit
<1>2. /\ \A t \in Threads : pc[t] = "idle" /\ ret[t].token = 0
      /\ token = 0 /\ dropped = 0
  BY DEF TransportInit, CacheInit, NotReturned, NoToken
<1>3. Newest = 0
  BY <1>2 DEF Newest, NoToken
<1>4. \A t \in Threads : stage[t] = "ready" /\ sent[t] = << >> /\ executed[t] = 0
  BY DEF TransportInit
<1>5. TransportTypeOK
  BY <1>1 DEF TransportInit, TransportTypeOK
<1>9. \A t \in Threads : Len(sent[t]) = 0 /\ Len(sent[t]) <= 2 /\ DOMAIN sent[t] = {}
  <2> TAKE t \in Threads
  <2>1. sent[t] \in Seq(Nat) /\ sent[t] = << >>
    BY <1>4, <1>5 DEF TransportTypeOK
  <2>2. Len(sent[t]) = 0
    BY <2>1
  <2>3. DOMAIN sent[t] = 1..Len(sent[t])
    BY <2>1
  <2> QED
    BY <2>2, <2>3
<1>6. RequestInv
  BY <1>2, <1>4, <1>9 DEF RequestInv
<1>7. SentInv
  <2> USE DEF SentInv
  <2> TAKE t \in Threads
  <2>1. ret[t].token <= Newest
    BY <1>2, <1>3
  <2>2. \A i \in DOMAIN sent[t] : sent[t][i] <= Newest
    BY <1>9
  <2>3. stage[t] = "ready"
    BY <1>4
  <2> QED
    BY <2>1, <2>2, <2>3
<1>8. RetryCarriesNewerToken /\ ExecutedAtMostOnce
  BY <1>4 DEF RetryCarriesNewerToken, ExecutedAtMostOnce
<1> QED
  BY <1>1, <1>5, <1>6, <1>7, <1>8 DEF TransportInv

\* ... and every step preserves it.
LEMMA TransportSteps == TransportInv /\ [TransportNext]_transportVars => TransportInv'
<1> SUFFICES ASSUME TransportInv, [TransportNext]_transportVars PROVE TransportInv'
  OBVIOUS
<1>1. CASE (Tick /\ UNCHANGED requestVars) \/ Refuse \/ UNCHANGED transportVars
  BY <1>1, OutsideInv
<1>2. CASE AllDone
  BY <1>2, OutsideInv DEF AllDone
<1>3. ASSUME NEW t \in Threads, AuthStep(t) PROVE TransportInv'
  BY <1>3, AuthMoves, AuthStepInv DEF AuthStep
<1>4. ASSUME NEW t \in Threads, Request(t) \/ RequestStep(t) PROVE TransportInv'
  BY <1>4, RequestBeginsInv, HeaderFailsInv, ExchangeInv, InvalidateInv, RetryInv
     DEF RequestStep
<1> QED
  BY <1>1, <1>2, <1>3, <1>4 DEF TransportNext

\* Types, the cache, what was sent and what was executed.
THEOREM TransportInvariant == TransportSpec => []TransportInv
  BY TransportStarts, TransportSteps, PTL DEF TransportSpec

\* Type correctness.
THEOREM TransportTypes == TransportSpec => []TransportTypeOK
<1>1. TransportInv => TransportTypeOK
  BY DEF TransportInv
<1> QED
  BY <1>1, TransportInvariant, PTL

\* "Send a request, retrying once on 401 after invalidating the token"
\* (transport.py:42): the retry carries no token as old as the refused one.
THEOREM TransportRetryCarriesNewerToken == TransportSpec => []RetryCarriesNewerToken
<1>1. TransportInv => RetryCarriesNewerToken
  BY DEF TransportInv
<1> QED
  BY <1>1, TransportInvariant, PTL

\* A request is carried out once at most, although it may be sent twice.
THEOREM TransportExecutedAtMostOnce == TransportSpec => []ExecutedAtMostOnce
<1>1. TransportInv => ExecutedAtMostOnce
  BY DEF TransportInv
<1> QED
  BY <1>1, TransportInvariant, PTL

-----------------------------------------------------------------------------
\* What the requests do to the Auth are calls and steps that ClientCredentials
\* has: each theorem about it holds below Transport too.
THEOREM TransportRunsCredentials == TransportSpec => Credentials!Spec
<1>1. TransportInit => Credentials!Init
  BY CredentialsIs DEF TransportInit
<1>2. [TransportNext]_transportVars => [Credentials!Next]_(Credentials!vars)
  <2> SUFFICES ASSUME [TransportNext]_transportVars
               PROVE  Credentials!Next \/ UNCHANGED cacheVars
    BY DEF Credentials!vars, Credentials!cacheVars, cacheVars
  <2>1. CASE Refuse \/ AllDone \/ UNCHANGED transportVars
    BY <2>1 DEF Refuse, AllDone, transportVars
  <2>2. CASE Tick
    BY <2>2, CredentialsIs
  <2>3. ASSUME NEW t \in Threads, AuthStep(t) PROVE Credentials!Next
    BY <2>3, AuthMoves, CredentialsIs DEF AuthStep
  <2>4. ASSUME NEW t \in Threads, Request(t) \/ Invalidate(t) \/ Retry(t)
        PROVE  Credentials!Next
    BY <2>4, CredentialsIs DEF Request, Invalidate, Retry, Calls
  <2>5. ASSUME NEW t \in Threads,
               \/ HeaderFails(t) \/ FirstRefused(t) \/ SecondRefused(t)
               \/ Succeeds(t) \/ FailsOnServer(t) \/ Lost(t)
        PROVE  UNCHANGED cacheVars
    BY <2>5 DEF HeaderFails, FirstRefused, SecondRefused, Succeeds, FailsOnServer, Lost,
       Exchange
  <2> QED
    BY <2>1, <2>2, <2>3, <2>4, <2>5 DEF TransportNext, RequestStep
<1> QED
  BY <1>1, <1>2, PTL DEF TransportSpec, Credentials!Spec

-----------------------------------------------------------------------------
\* ClientCredentials by itself, called in any order by any thread.
\* The fields, the lock and the histories have their types, and the invariant
\* of AuthCache holds in every reachable state.
THEOREM CredentialsInvariant == Credentials!Spec => [](CacheTypeOK /\ CacheInv)
<1>1. Credentials!Init => CacheTypeOK /\ CacheInv
  BY InitInv, CredentialsIs
<1>2. CacheTypeOK /\ CacheInv /\ [Credentials!Next]_(Credentials!vars)
        => CacheTypeOK' /\ CacheInv'
  <2> SUFFICES ASSUME CacheTypeOK, CacheInv, Credentials!Next \/ UNCHANGED cacheVars
               PROVE  CacheTypeOK' /\ CacheInv'
    BY DEF Credentials!vars, Credentials!cacheVars, cacheVars
  <2>1. CASE Tick
    BY <2>1, TickInv
  <2>2. CASE Finished \/ UNCHANGED cacheVars
    BY <2>2, StutterInv DEF Finished
  <2>3. ASSUME NEW t \in Threads, Calls(t) PROVE CacheTypeOK' /\ CacheInv'
    BY <2>3, BeginInv DEF Calls, CallHeader, CallInvalidate
  <2>4. ASSUME NEW t \in Threads, AuthMove(t) PROVE CacheTypeOK' /\ CacheInv'
    BY <2>4, AuthMoveInv
  <2> QED
    BY <2>1, <2>2, <2>3, <2>4, CredentialsIs
<1> QED
  BY <1>1, <1>2, PTL DEF Credentials!Spec

\* Type correctness.
THEOREM CredentialsTypeOK == Credentials!Spec => []Credentials!TypeOK
<1>1. CacheTypeOK => Credentials!TypeOK
  BY DEF Credentials!TypeOK, Credentials!CacheTypeOK, CacheTypeOK, Credentials!Locked, Locked,
     Credentials!Fetching, Fetching, Credentials!Reply, Reply, Credentials!Return, Return,
     Credentials!Call, Call
<1> QED
  BY <1>1, CredentialsInvariant, PTL

\* "Refresh is single-flight" (auth.py:20): at most one thread is in a token
\* request.
THEOREM CredentialsSingleFlight == Credentials!Spec => []SingleFlight
<1>1. CacheTypeOK /\ CacheInv => SingleFlight
  BY ThreadAssumption DEF CacheInv, LockInv, SingleFlight, Locked
<1> QED
  BY <1>1, CredentialsInvariant, PTL

\* No header carries a token that invalidate had dropped before its call.
THEOREM CredentialsNoDroppedToken == Credentials!Spec => []NoDroppedToken
<1>1. CacheInv => NoDroppedToken
  BY DEF CacheInv
<1> QED
  BY <1>1, CredentialsInvariant, PTL

\* A token from before the call is handed out only if it was alive when the
\* call began; this rests on DelayAssumption.
THEOREM CredentialsNoExpiredToken == Credentials!Spec => []NoExpiredToken
<1>1. CacheInv => NoExpiredToken
  BY DEF CacheInv
<1> QED
  BY <1>1, CredentialsInvariant, PTL

\* Threads, lock, fields and the reads without the lock implement TokenSource.
THEOREM CredentialsImplementTokenSource == Credentials!Spec => ImplementsTokenSource
<1>1. Credentials!Init => Source!Init
  BY CredentialsIs DEF CacheInit, Source!Init, Entry, Valid, InFlight, Fetching, Source!Empty,
     NoToken
<1>2. CacheTypeOK /\ CacheInv /\ [Credentials!Next]_(Credentials!vars)
        => [Source!Next]_(Source!vars)
  <2> SUFFICES ASSUME CacheTypeOK, CacheInv, Credentials!Next \/ UNCHANGED cacheVars
               PROVE  [Source!Next]_(Source!vars)
    BY DEF Credentials!vars, Credentials!cacheVars, cacheVars
  <2>1. CASE Tick
    BY <2>1, TickSource DEF Source!Next
  <2>2. CASE Finished \/ UNCHANGED cacheVars
    <3>1. UNCHANGED <<token, expiresAt, now, issued, InFlight>>
      BY <2>2 DEF Finished, cacheVars, InFlight
    <3> QED
      BY <3>1, SourceStutter
  <2>3. ASSUME NEW t \in Threads, Calls(t) \/ AuthMove(t)
        PROVE  [Source!Next]_(Source!vars)
    <3>1. CASE Calls(t)
      BY <3>1, ReadStepSource DEF Calls, CallHeader, CallInvalidate
    <3>2. CASE StoreToken(t)
      BY <3>2, ProceedSource DEF StoreToken, idpVars, Fetching
    <3>3. CASE HeaderStep(t)
      BY <3>2, <3>3, ReadStepSource, RecheckSource DEF HeaderStep
    <3>4. CASE InvalidateStep(t)
      BY <3>4, InvalidateStepSource DEF Source!Next
    <3>5. CASE Grant(t, "fetch")
      BY <3>5, GrantSource DEF Fetching, Source!Next
    <3>6. CASE \/ \E from \in {"fetch", "apply"} : Abort(t, from, "AuthError")
               \/ Abort(t, "fetch", "ValueError")
      BY <3>6, AbortSource DEF Fetching, Source!Next
    <3>7. CASE StoreExpiry(t)
      BY <3>7, StoreExpirySource DEF Source!Next
    <3> QED
      BY <2>3, <3>1, <3>3, <3>4, <3>5, <3>6, <3>7 DEF AuthMove
  <2> QED
    BY <2>1, <2>2, <2>3, CredentialsIs
<1> QED
  BY <1>1, <1>2, CredentialsInvariant, PTL
     DEF Credentials!Spec, ImplementsTokenSource, Source!Spec

\* A client that sends requests, with the retry after a 401, uses its cache as
\* TokenSource allows: the threads inside Transport.request never take the entry
\* of another source, fill it twice at once or empty half of it.
THEOREM TransportImplementsTokenSource == TransportSpec => ImplementsTokenSource
BY TransportRunsCredentials, CredentialsImplementTokenSource, PTL
=============================================================================
