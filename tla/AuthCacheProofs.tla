-------------------------- MODULE AuthCacheProofs --------------------------
(***************************************************************************)
(* CacheInv is inductive: the steps that ClientCredentials and             *)
(* RefreshableAuth share preserve it, one lemma per step.  The steps that  *)
(* fill the cache are ruled here by their frame (Grant, Abort, a move      *)
(* between two places of a token request), so that both modules, and those *)
(* built on them, use the same lemmas.                                     *)
(*                                                                         *)
(* The core of the argument is UnexpiredAnswers: between the two stores    *)
(* the new token stands beside the old deadline, and a reader without the  *)
(* lock is not misled because that deadline is past (FetchInv), which is   *)
(* why invalidate has to reset it with the token (TokenInv).               *)
(***************************************************************************)
EXTENDS AuthCache, TLAPS

\* What the constructors of the records return.
LEMMA Records ==
    /\ NotReturned \in Return /\ NotReturned.kind = "none" /\ NotReturned.token = 0
    /\ NoReply \in Reply
  BY DEF NotReturned, NoReply, Return, Reply, NoToken

\* The initial state has the types and the invariant.
LEMMA InitInv ==
    ASSUME CacheInit
    PROVE  CacheTypeOK /\ CacheInv
<1>1. CacheTypeOK
  <2>1. [issued |-> 0, dropped |-> 0, at |-> 0] \in Call
    BY DEF Call
  <2> QED
    BY <2>1, Records DEF CacheInit, CacheTypeOK, NoToken, Locked, Fetching
<1>2. \A t \in Threads :
        /\ pc[t] = "idle" /\ lock # t
        /\ call[t].issued = 0 /\ call[t].dropped = 0 /\ call[t].at = 0
        /\ ret[t].kind = "none" /\ ret[t].token = 0
  BY Records, ThreadAssumption DEF CacheInit
<1>3. LockInv /\ ReplyInv /\ TokenInv /\ FetchInv /\ CallInv /\ PassedInv
  BY <1>2, ThreadAssumption, DelayAssumption, MarginAssumption
     DEF CacheInit, LockInv, ReplyInv, TokenInv, FetchInv, CallInv, PassedInv,
         InFlight, Unexpired, Locked, Fetching, NoToken
<1>4. NoDroppedToken /\ NoExpiredToken
  BY <1>2 DEF NoDroppedToken, NoExpiredToken
<1> QED
  BY <1>1, <1>3, <1>4 DEF CacheInv

\* Steps that leave the cache alone preserve the invariant.
LEMMA StutterInv ==
    ASSUME CacheTypeOK, CacheInv, UNCHANGED cacheVars
    PROVE  CacheTypeOK' /\ CacheInv'
  BY DEF cacheVars, CacheTypeOK, CacheInv, LockInv, ReplyInv, TokenInv, FetchInv,
         CallInv, PassedInv, NoDroppedToken, NoExpiredToken, InFlight, Unexpired, Answers

\* A token whose deadline has not come near may answer every call that has
\* begun, and no request is under way that could replace it by one that may not.
LEMMA UnexpiredAnswers ==
    ASSUME CacheTypeOK, CacheInv, Unexpired
    PROVE  /\ \A t \in Threads : pc[t] \notin Fetching
           /\ \A t \in Threads : token # NoToken => Answers(token, t)
<1>1. \A t \in Threads : pc[t] \notin Fetching
  BY DEF CacheInv, FetchInv, InFlight
<1>2. ASSUME NEW t \in Threads, token # NoToken
      PROVE  dies[token] > call[t].at
  <2>1. expiresAt <= dies[token] + MaxDelay
    BY <1>1, <1>2 DEF CacheInv, TokenInv, Fetching
  <2>2. call[t].at \in Nat /\ call[t].at <= now
    BY DEF CacheTypeOK, Call, CacheInv, CallInv
  <2>3. dies[token] \in Nat
    BY <1>2 DEF CacheTypeOK, CacheInv, TokenInv, NoToken
  <2> QED
    BY <2>1, <2>2, <2>3, MarginAssumption, DelayAssumption DEF Unexpired, CacheTypeOK
<1> QED
  BY <1>1, <1>2 DEF Answers

\* A call begins: its history is what holds now.
LEMMA BeginInv ==
    ASSUME CacheTypeOK, CacheInv, NEW t \in Threads,
           NEW to \in {"check_token", "want_drop"}, Begin(t, to)
    PROVE  CacheTypeOK' /\ CacheInv'
<1> USE DEF Begin, Goto, lockVars, idpVars, callVars
<1>a. NotReturned \in Return /\ NotReturned.kind = "none" /\ NotReturned.token = 0
  BY DEF NotReturned, Return, NoToken
<1>b. [issued |-> issued, dropped |-> dropped, at |-> now] \in Call
  BY <1>a DEF NotReturned, NoReply, Header, Raised, Return, Reply, Call, CacheTypeOK, NoToken
<1>1. CacheTypeOK'
  BY <1>a, <1>b DEF CacheTypeOK, Locked, Fetching
<1>2. LockInv'
  BY <1>a, <1>b, <1>1 DEF CacheTypeOK, CacheInv, LockInv, Locked, Fetching
<1>3. ReplyInv'
  BY <1>a, <1>b, <1>1 DEF CacheTypeOK, CacheInv, ReplyInv
<1>4. TokenInv'
  BY <1>a, <1>b, <1>1 DEF CacheTypeOK, CacheInv, TokenInv
<1>5. FetchInv'
  BY <1>a, <1>b, <1>1 DEF CacheTypeOK, CacheInv, FetchInv, InFlight, Unexpired, Locked, Fetching
<1>6. CallInv'
  BY <1>a, <1>b, <1>1 DEF CacheTypeOK, CacheInv, CallInv
<1>7. PassedInv'
  BY <1>a, <1>b, <1>1 DEF CacheTypeOK, CacheInv, PassedInv, Answers
<1>8. NoDroppedToken'
  BY <1>a, <1>b, <1>1 DEF CacheTypeOK, CacheInv, NoDroppedToken
<1>9. NoExpiredToken'
  BY <1>a, <1>b, <1>1 DEF CacheTypeOK, CacheInv, NoExpiredToken
<1> QED
  BY <1>1, <1>2, <1>3, <1>4, <1>5, <1>6, <1>7, <1>8, <1>9 DEF CacheInv

\* The first read of the fast path moves the reader only.
LEMMA CheckTokenInv ==
    ASSUME CacheTypeOK, CacheInv, NEW t \in Threads, CheckToken(t)
    PROVE  CacheTypeOK' /\ CacheInv'
<1> USE DEF CheckToken, Goto, lockVars, idpVars, callVars
<1>1. CacheTypeOK'
  BY DEF CacheTypeOK, Locked, Fetching
<1>2. LockInv'
  BY <1>1 DEF CacheTypeOK, CacheInv, LockInv, Locked, Fetching
<1>3. ReplyInv'
  BY <1>1 DEF CacheTypeOK, CacheInv, ReplyInv
<1>4. TokenInv'
  BY <1>1 DEF CacheTypeOK, CacheInv, TokenInv
<1>5. FetchInv'
  BY <1>1 DEF CacheTypeOK, CacheInv, FetchInv, InFlight, Unexpired, Locked, Fetching
<1>6. CallInv'
  BY <1>1 DEF CacheTypeOK, CacheInv, CallInv
<1>7. PassedInv'
  BY <1>1 DEF CacheTypeOK, CacheInv, PassedInv, Answers
<1>8. NoDroppedToken'
  BY <1>1 DEF CacheTypeOK, CacheInv, NoDroppedToken
<1>9. NoExpiredToken'
  BY <1>1 DEF CacheTypeOK, CacheInv, NoExpiredToken
<1> QED
  BY <1>1, <1>2, <1>3, <1>4, <1>5, <1>6, <1>7, <1>8, <1>9 DEF CacheInv

\* The second read: a reader that passes may answer with what is stored, and
\* with whatever is stored until it reads (UnexpiredAnswers).
LEMMA CheckExpiryInv ==
    ASSUME CacheTypeOK, CacheInv, NEW t \in Threads, CheckExpiry(t)
    PROVE  CacheTypeOK' /\ CacheInv'
<1> USE DEF CheckExpiry, Goto, lockVars, idpVars, callVars
<1>1. CacheTypeOK'
  BY DEF CacheTypeOK, Locked, Fetching
<1>2. LockInv'
  BY <1>1 DEF CacheTypeOK, CacheInv, LockInv, Locked, Fetching
<1>3. ReplyInv'
  BY <1>1 DEF CacheTypeOK, CacheInv, ReplyInv
<1>4. TokenInv'
  BY <1>1 DEF CacheTypeOK, CacheInv, TokenInv
<1>5. FetchInv'
  BY <1>1 DEF CacheTypeOK, CacheInv, FetchInv, InFlight, Unexpired, Locked, Fetching
<1>6. CallInv'
  BY <1>1 DEF CacheTypeOK, CacheInv, CallInv
<1>7. PassedInv'
  <2> SUFFICES ASSUME NEW u \in Threads, pc'[u] \in {"assert", "read"}
               PROVE  /\ token' # NoToken => Answers(token, u)'
                      /\ \A w \in Threads : pc'[w] = "apply" => Answers(reply[w].token, u)'
    BY DEF CacheTypeOK, CacheInv, PassedInv, Answers
  <2>1. CASE u = t
    BY <2>1, UnexpiredAnswers DEF CacheTypeOK, Answers, NoToken, Locked, Fetching
  <2>2. CASE u # t
    BY <2>2 DEF CacheTypeOK, CacheInv, PassedInv, Answers
  <2> QED BY <2>1, <2>2
<1>8. NoDroppedToken'
  BY <1>1 DEF CacheTypeOK, CacheInv, NoDroppedToken
<1>9. NoExpiredToken'
  BY <1>1 DEF CacheTypeOK, CacheInv, NoExpiredToken
<1> QED
  BY <1>1, <1>2, <1>3, <1>4, <1>5, <1>6, <1>7, <1>8, <1>9 DEF CacheInv

\* The lock was free, so that its new holder is alone inside.
LEMMA AcquireInv ==
    ASSUME CacheTypeOK, CacheInv, NEW t \in Threads, Acquire(t)
    PROVE  CacheTypeOK' /\ CacheInv'
<1> USE DEF Acquire, Goto, lockVars, idpVars, callVars
<1>1. CacheTypeOK'
  BY DEF CacheTypeOK, Locked, Fetching
<1>2. LockInv'
  BY <1>1, ThreadAssumption DEF CacheTypeOK, CacheInv, LockInv, Locked, Fetching, InFlight,
     TokenInv, ReplyInv, FetchInv, Unexpired, Valid, NoToken, Call, Reply
<1>3. ReplyInv'
  BY <1>1 DEF CacheTypeOK, CacheInv, ReplyInv
<1>4. TokenInv'
  BY <1>1 DEF CacheTypeOK, CacheInv, TokenInv
<1>5. FetchInv'
  BY <1>1 DEF CacheTypeOK, CacheInv, FetchInv, InFlight, Unexpired, Locked, Fetching
<1>6. CallInv'
  BY <1>1 DEF CacheTypeOK, CacheInv, CallInv
<1>7. PassedInv'
  BY <1>1 DEF CacheTypeOK, CacheInv, PassedInv, Answers
<1>8. NoDroppedToken'
  BY <1>1 DEF CacheTypeOK, CacheInv, NoDroppedToken
<1>9. NoExpiredToken'
  BY <1>1 DEF CacheTypeOK, CacheInv, NoExpiredToken
<1> QED
  BY <1>1, <1>2, <1>3, <1>4, <1>5, <1>6, <1>7, <1>8, <1>9 DEF CacheInv

\* The double check: a thread that finds no valid token starts the request, and
\* the deadline is past from here to the end of the stores.
LEMMA RecheckInv ==
    ASSUME CacheTypeOK, CacheInv, NEW t \in Threads, Recheck(t)
    PROVE  CacheTypeOK' /\ CacheInv'
<1> USE DEF Recheck, Goto, lockVars, idpVars, callVars
<1>1. CacheTypeOK'
  BY DEF CacheTypeOK, Locked, Fetching
<1>2. LockInv'
  BY <1>1, ThreadAssumption DEF CacheTypeOK, CacheInv, LockInv, Locked, Fetching, InFlight,
     TokenInv, ReplyInv, FetchInv, Unexpired, Valid, NoToken, Call, Reply
<1>3. ReplyInv'
  BY <1>1 DEF CacheTypeOK, CacheInv, ReplyInv
<1>4. TokenInv'
  BY <1>1 DEF CacheTypeOK, CacheInv, TokenInv
<1>5. FetchInv'
  BY MarginAssumption DEF CacheTypeOK, CacheInv, LockInv, TokenInv, FetchInv, InFlight,
     Unexpired, Valid, Locked, Fetching, NoToken
<1>6. CallInv'
  BY <1>1 DEF CacheTypeOK, CacheInv, CallInv
<1>7. PassedInv'
  <2> SUFFICES ASSUME NEW u \in Threads, pc'[u] \in {"assert", "read"}
               PROVE  /\ token' # NoToken => Answers(token, u)'
                      /\ \A w \in Threads : pc'[w] = "apply" => Answers(reply[w].token, u)'
    BY DEF CacheTypeOK, CacheInv, PassedInv, Answers
  <2>1. CASE u = t
    BY <2>1, UnexpiredAnswers DEF CacheTypeOK, Valid, Answers, NoToken, Locked, Fetching
  <2>2. CASE u # t
    BY <2>2 DEF CacheTypeOK, CacheInv, PassedInv, Answers
  <2> QED BY <2>1, <2>2
<1>8. NoDroppedToken'
  BY <1>1 DEF CacheTypeOK, CacheInv, NoDroppedToken
<1>9. NoExpiredToken'
  BY <1>1 DEF CacheTypeOK, CacheInv, NoExpiredToken
<1> QED
  BY <1>1, <1>2, <1>3, <1>4, <1>5, <1>6, <1>7, <1>8, <1>9 DEF CacheInv

\* A token request goes on from one attempt to the next.
LEMMA ProceedInv ==
    ASSUME CacheTypeOK, CacheInv, NEW t \in Threads,
           NEW from \in {"fetch", "refresh"}, NEW to \in {"refresh", "login"},
           Goto(t, from, to),
           UNCHANGED <<lockVars, reply, ret, now, idpVars, dropped, callVars>>
    PROVE  CacheTypeOK' /\ CacheInv'
<1> USE DEF Goto, lockVars, idpVars, callVars
<1>1. CacheTypeOK'
  BY DEF CacheTypeOK, Locked, Fetching
<1>2. LockInv'
  BY <1>1 DEF CacheTypeOK, CacheInv, LockInv, Locked, Fetching
<1>3. ReplyInv'
  BY <1>1 DEF CacheTypeOK, CacheInv, ReplyInv
<1>4. TokenInv'
  BY <1>1 DEF CacheTypeOK, CacheInv, TokenInv
<1>5. FetchInv'
  BY <1>1 DEF CacheTypeOK, CacheInv, FetchInv, InFlight, Unexpired, Locked, Fetching
<1>6. CallInv'
  BY <1>1 DEF CacheTypeOK, CacheInv, CallInv
<1>7. PassedInv'
  BY <1>1 DEF CacheTypeOK, CacheInv, PassedInv, Answers
<1>8. NoDroppedToken'
  BY <1>1 DEF CacheTypeOK, CacheInv, NoDroppedToken
<1>9. NoExpiredToken'
  BY <1>1 DEF CacheTypeOK, CacheInv, NoExpiredToken
<1> QED
  BY <1>1, <1>2, <1>3, <1>4, <1>5, <1>6, <1>7, <1>8, <1>9 DEF CacheInv

\* The identity provider issues a token that is newer than every call.
LEMMA GrantInv ==
    ASSUME CacheTypeOK, CacheInv, NEW t \in Threads,
           NEW from \in {"fetch", "refresh", "login"}, Grant(t, from)
    PROVE  CacheTypeOK' /\ CacheInv'
<1> USE DEF Goto, lockVars, idpVars, callVars, NoToken
<1>1. /\ issued' = issued + 1 /\ pc[t] = from /\ pc' = [pc EXCEPT ![t] = "apply"]
      /\ UNCHANGED <<lock, token, expiresAt, ret, now, dropped, call, calls>>
      /\ \A k \in 1..issued : dies'[k] = dies[k]
  BY DEF Grant, CacheTypeOK
<1>2. PICK life \in Lifetimes :
        /\ reply' = [reply EXCEPT ![t] = [token |-> issued + 1, life |-> life, at |-> now]]
        /\ dies' = [k \in 1..(issued + 1) |-> IF k = issued + 1 THEN now + life ELSE dies[k]]
  BY DEF Grant
<1>3. \A u \in Threads : u # t => pc[u] \notin Locked
  BY <1>1 DEF CacheInv, LockInv, Locked, Fetching
<1>4. life \in Nat BY MarginAssumption
<1>5. CacheTypeOK'
  <2>1. [token |-> issued + 1, life |-> life, at |-> now] \in Reply
     BY <1>4 DEF Reply, CacheTypeOK
  <2>2. reply' \in [Threads -> Reply]
     BY <1>2, <2>1 DEF CacheTypeOK
  <2>3. dies' \in [1..issued' -> Nat]
     BY <1>1, <1>2, <1>4 DEF CacheTypeOK
  <2>4. pc' \in [Threads -> Locked \cup {"idle", "check_token", "check_expiry", "want_lock",
                                       "want_drop", "assert", "read"}]
     BY <1>1 DEF CacheTypeOK, Locked, Fetching
  <2>5. QED BY <1>1, <2>2, <2>3, <2>4 DEF CacheTypeOK
<1>6. /\ reply'[t].token = issued' /\ reply'[t].at = now
      /\ dies'[issued'] = reply'[t].at + reply'[t].life
      /\ \A u \in Threads : u # t => reply'[u] = reply[u] /\ pc'[u] = pc[u]
  BY <1>1, <1>2, <1>4 DEF CacheTypeOK
<1>7. ReplyInv'
  <2> SUFFICES ASSUME NEW u \in Threads, pc'[u] \in {"apply", "store_expiry"}
               PROVE  /\ u = t
                      /\ issued' > call[u].issued /\ issued' > dropped
                      /\ now <= now + MaxDelay
    BY <1>1, <1>6 DEF ReplyInv, CacheTypeOK
  <2>1. u = t
    BY <1>3, <1>6 DEF Locked, Fetching
  <2> QED BY <2>1, <1>1, DelayAssumption DEF CacheInv, CallInv, TokenInv, CacheTypeOK, Call
<1>8. TokenInv'
  <2>1. \A u \in Threads : pc[u] \notin {"store_expiry", "drop_expiry"}
    BY <1>1, <1>3 DEF Locked, Fetching
  <2> QED BY <1>1, <2>1 DEF CacheInv, TokenInv, CacheTypeOK
<1>9. CallInv'
  BY <1>1 DEF CacheInv, CallInv, CacheTypeOK, Call, Return
<1>10. PassedInv'
  <2> SUFFICES ASSUME NEW w \in Threads, pc'[w] \in {"assert", "read"}
               PROVE  /\ token # NoToken => Answers(token, w)'
                      /\ \A u \in Threads : pc'[u] = "apply" => Answers(reply[u].token, w)'
    BY <1>1 DEF PassedInv, Answers
  <2>1. pc[w] \in {"assert", "read"}
    BY <1>1, <1>6
  <2>2. token # NoToken => Answers(token, w)'
    BY <1>1, <2>1 DEF CacheInv, PassedInv, TokenInv, Answers, CacheTypeOK
  <2>3. \A u \in Threads : pc'[u] = "apply" => Answers(reply[u].token, w)'
    <3>1. issued' > call[w].issued
      BY <1>1 DEF CacheInv, CallInv, CacheTypeOK, Call
    <3>2. \A u \in Threads : pc'[u] = "apply" => u = t
      BY <1>3, <1>6 DEF Locked, Fetching
    <3> QED BY <1>1, <1>6, <3>1, <3>2 DEF Answers
  <2> QED BY <2>2, <2>3
<1>11. NoExpiredToken'
  <2> SUFFICES ASSUME NEW u \in Threads, ret[u].kind = "header", ret[u].token \in 1..call[u].issued
               PROVE  dies'[ret[u].token] > call[u].at
    BY <1>1 DEF NoExpiredToken
  <2>1. ret[u].token \in 1..issued
    BY DEF CacheInv, CallInv, CacheTypeOK, Call
  <2> QED BY <1>1, <2>1 DEF CacheInv, NoExpiredToken
<1>12. LockInv' /\ FetchInv' /\ NoDroppedToken'
  BY <1>1, <1>6 DEF CacheInv, LockInv, FetchInv, NoDroppedToken, InFlight, Unexpired,
     Locked, Fetching
<1> QED
  BY <1>5, <1>7, <1>8, <1>9, <1>10, <1>11, <1>12 DEF CacheInv

\* A token request fails and the lock is free again.
LEMMA AbortInv ==
    ASSUME CacheTypeOK, CacheInv, NEW t \in Threads,
           NEW from \in {"fetch", "refresh", "login", "apply"},
           NEW error \in {"AuthError", "ValueError"}, Abort(t, from, error)
    PROVE  CacheTypeOK' /\ CacheInv'
<1> USE DEF Abort, Goto, lockVars, idpVars, callVars
<1>a. Raised(error) \in Return /\ Raised(error).kind = error /\ Raised(error).token = 0
  BY DEF NotReturned, NoReply, Header, Raised, Return, Reply, Call, CacheTypeOK, NoToken
<1>b. NoReply \in Reply
  BY <1>a DEF NotReturned, NoReply, Header, Raised, Return, Reply, Call, CacheTypeOK, NoToken
<1>1. CacheTypeOK'
  BY <1>a, <1>b DEF CacheTypeOK, Locked, Fetching
<1>2. LockInv'
  BY <1>a, <1>b, <1>1, ThreadAssumption DEF CacheTypeOK, CacheInv, LockInv, Locked,
     Fetching, InFlight, TokenInv, ReplyInv, FetchInv, Unexpired, Valid, NoToken, Call,
     Reply
<1>3. ReplyInv'
  BY <1>a, <1>b, <1>1 DEF CacheTypeOK, CacheInv, ReplyInv
<1>4. TokenInv'
  BY <1>a, <1>b, <1>1 DEF CacheTypeOK, CacheInv, TokenInv
<1>5. FetchInv'
  BY <1>a, <1>b, <1>1 DEF CacheTypeOK, CacheInv, FetchInv, InFlight, Unexpired, Locked, Fetching
<1>6. CallInv'
  BY <1>a, <1>b, <1>1 DEF CacheTypeOK, CacheInv, CallInv
<1>7. PassedInv'
  BY <1>a, <1>b, <1>1 DEF CacheTypeOK, CacheInv, PassedInv, Answers
<1>8. NoDroppedToken'
  BY <1>a, <1>b, <1>1 DEF CacheTypeOK, CacheInv, NoDroppedToken
<1>9. NoExpiredToken'
  BY <1>a, <1>b, <1>1 DEF CacheTypeOK, CacheInv, NoExpiredToken
<1> QED
  BY <1>1, <1>2, <1>3, <1>4, <1>5, <1>6, <1>7, <1>8, <1>9 DEF CacheInv

\* self._token = token: the new token stands beside the old deadline.
LEMMA StoreTokenInv ==
    ASSUME CacheTypeOK, CacheInv, NEW t \in Threads, StoreToken(t)
    PROVE  CacheTypeOK' /\ CacheInv'
<1> USE DEF StoreToken, Goto, lockVars, idpVars, callVars
<1>1. CacheTypeOK'
  BY DEF CacheTypeOK, CacheInv, ReplyInv, Locked, Fetching, Reply
<1>2. LockInv'
  BY <1>1 DEF CacheTypeOK, CacheInv, LockInv, Locked, Fetching
<1>3. ReplyInv'
  BY <1>1 DEF CacheTypeOK, CacheInv, ReplyInv
<1>4. TokenInv'
  BY <1>1 DEF CacheTypeOK, CacheInv, TokenInv, LockInv, Locked, Fetching, ReplyInv, NoToken
<1>5. FetchInv'
  BY <1>1 DEF CacheTypeOK, CacheInv, FetchInv, InFlight, Unexpired, Locked, Fetching
<1>6. CallInv'
  BY <1>1 DEF CacheTypeOK, CacheInv, CallInv
<1>7. PassedInv'
  BY <1>1 DEF CacheTypeOK, CacheInv, PassedInv, Answers
<1>8. NoDroppedToken'
  BY <1>1 DEF CacheTypeOK, CacheInv, NoDroppedToken
<1>9. NoExpiredToken'
  BY <1>1 DEF CacheTypeOK, CacheInv, NoExpiredToken
<1> QED
  BY <1>1, <1>2, <1>3, <1>4, <1>5, <1>6, <1>7, <1>8, <1>9 DEF CacheInv

\* self._expires_at = ...: the deadline is late by MaxDelay at most.
LEMMA StoreExpiryInv ==
    ASSUME CacheTypeOK, CacheInv, NEW t \in Threads, StoreExpiry(t)
    PROVE  CacheTypeOK' /\ CacheInv'
<1> USE DEF StoreExpiry, Goto, lockVars, idpVars, callVars
<1>a. NoReply \in Reply /\ reply[t] \in Reply /\ reply[t].life \in Nat /\ reply[t].at \in Nat
  BY DEF NotReturned, NoReply, Header, Raised, Return, Reply, Call, CacheTypeOK, NoToken
<1>b. pc[t] = "store_expiry" /\ \A u \in Threads : u # t => pc[u] \notin Locked
  BY <1>a DEF CacheTypeOK, CacheInv, LockInv, Locked, Fetching, NoToken
<1>1. CacheTypeOK'
  BY <1>a DEF CacheTypeOK, Locked, Fetching
<1>2. LockInv'
  BY <1>a, <1>b, <1>1, ThreadAssumption DEF CacheTypeOK, CacheInv, LockInv, Locked,
     Fetching, InFlight, TokenInv, ReplyInv, FetchInv, Unexpired, Valid, NoToken, Call,
     Reply
<1>3. ReplyInv'
  BY <1>a, <1>b, <1>1 DEF CacheTypeOK, CacheInv, ReplyInv
<1>4. TokenInv'
  <2>1. token = issued /\ expiresAt' <= dies[token] + MaxDelay
    BY <1>a, <1>b, DelayAssumption DEF CacheTypeOK, CacheInv, ReplyInv
  <2>2. token # NoToken
    BY <1>b, <2>1 DEF CacheTypeOK, CacheInv, ReplyInv, NoToken
  <2>3. \A u \in Threads : pc'[u] # "drop_expiry"
    BY <1>b DEF CacheTypeOK, Locked, Fetching
  <2> QED
    BY <2>1, <2>2, <2>3 DEF CacheInv, TokenInv
<1>5. FetchInv'
  BY <1>a, <1>b, <1>1 DEF CacheTypeOK, CacheInv, FetchInv, InFlight, Unexpired, Locked, Fetching
<1>6. CallInv'
  BY <1>a, <1>b, <1>1 DEF CacheTypeOK, CacheInv, CallInv
<1>7. PassedInv'
  <2> SUFFICES ASSUME NEW u \in Threads, pc'[u] \in {"assert", "read"}
               PROVE  /\ token' # NoToken => Answers(token, u)'
                      /\ \A w \in Threads : pc'[w] = "apply" => Answers(reply[w].token, u)'
    BY <1>a, <1>b DEF CacheTypeOK, CacheInv, PassedInv, Answers
  <2>1. CASE u = t
    BY <2>1, <1>a, <1>b DEF CacheTypeOK, CacheInv, PassedInv, Answers, LockInv, Locked,
       Fetching, TokenInv, ReplyInv, NoToken
  <2>2. CASE u # t
    BY <2>2, <1>a, <1>b DEF CacheTypeOK, CacheInv, PassedInv, Answers
  <2> QED BY <2>1, <2>2
<1>8. NoDroppedToken'
  BY <1>a, <1>b, <1>1 DEF CacheTypeOK, CacheInv, NoDroppedToken
<1>9. NoExpiredToken'
  BY <1>a, <1>b, <1>1 DEF CacheTypeOK, CacheInv, NoExpiredToken
<1> QED
  BY <1>1, <1>2, <1>3, <1>4, <1>5, <1>6, <1>7, <1>8, <1>9 DEF CacheInv

\* The assertion of auth_header holds, or its caller gets no header.
LEMMA AssertTokenInv ==
    ASSUME CacheTypeOK, CacheInv, NEW t \in Threads, AssertToken(t)
    PROVE  CacheTypeOK' /\ CacheInv'
<1> USE DEF Goto, lockVars, idpVars, callVars
<1>a. /\ Raised("AssertionError") \in Return
      /\ Raised("AssertionError").kind # "header" /\ Raised("AssertionError").token = 0
  BY DEF NotReturned, NoReply, Header, Raised, Return, Reply, Call, CacheTypeOK, NoToken
<1>b. /\ pc[t] = "assert" /\ pc' = [pc EXCEPT ![t] = pc'[t]]
      /\ \/ token # NoToken /\ pc'[t] = "read" /\ ret' = ret
         \/ pc'[t] = "idle" /\ ret' = [ret EXCEPT ![t] = Raised("AssertionError")]
      /\ UNCHANGED <<lockVars, reply, now, idpVars, dropped, callVars>>
  BY DEF AssertToken, CacheTypeOK
<1>c. \A u \in Threads : \/ ret'[u] = ret[u]
                         \/ ret'[u].token = 0 /\ ret'[u].kind # "header"
  <2>1. CASE ret' = ret
    BY <2>1
  <2>2. CASE ret' = [ret EXCEPT ![t] = Raised("AssertionError")]
    BY <1>a, <2>2 DEF CacheTypeOK
  <2> QED BY <1>b, <2>1, <2>2
<1>1. CacheTypeOK'
  BY <1>a, <1>b DEF CacheTypeOK, Locked, Fetching
<1>2. LockInv'
  BY <1>a, <1>b, <1>1 DEF CacheTypeOK, CacheInv, LockInv, Locked, Fetching
<1>3. ReplyInv'
  BY <1>a, <1>b, <1>1 DEF CacheTypeOK, CacheInv, ReplyInv
<1>4. TokenInv'
  BY <1>a, <1>b DEF CacheTypeOK, TokenInv, CacheInv
<1>5. FetchInv'
  BY <1>a, <1>b, <1>1 DEF CacheTypeOK, CacheInv, FetchInv, InFlight, Unexpired, Locked, Fetching
<1>6. CallInv'
  BY <1>b, <1>c DEF CacheTypeOK, CacheInv, CallInv
<1>7. PassedInv'
  BY <1>a, <1>b, <1>1 DEF CacheTypeOK, CacheInv, PassedInv, Answers
<1>8. NoDroppedToken'
  BY <1>a, <1>b, <1>1 DEF CacheTypeOK, CacheInv, NoDroppedToken
<1>9. NoExpiredToken'
  BY <1>a, <1>b, <1>1 DEF CacheTypeOK, CacheInv, NoExpiredToken
<1> QED
  BY <1>1, <1>2, <1>3, <1>4, <1>5, <1>6, <1>7, <1>8, <1>9 DEF CacheInv

\* What auth_header returns was stored by then: PassedInv makes it an answer.
LEMMA ReadTokenInv ==
    ASSUME CacheTypeOK, CacheInv, NEW t \in Threads, ReadToken(t)
    PROVE  CacheTypeOK' /\ CacheInv'
<1> USE DEF ReadToken, Goto, lockVars, idpVars, callVars
<1>a. Header(token) \in Return /\ Header(token).token = token /\ Header(token).kind = "header"
  BY DEF NotReturned, NoReply, Header, Raised, Return, Reply, Call, CacheTypeOK, NoToken
<1>b. pc[t] = "read" /\ \A u \in Threads : ret'[u] = IF u = t THEN Header(token) ELSE ret[u]
  BY <1>a DEF NotReturned, NoReply, Header, Raised, Return, Reply, Call, CacheTypeOK, NoToken
<1>1. CacheTypeOK'
  BY <1>a, <1>b DEF CacheTypeOK, Locked, Fetching
<1>2. LockInv'
  BY <1>a, <1>b, <1>1 DEF CacheTypeOK, CacheInv, LockInv, Locked, Fetching
<1>3. ReplyInv'
  BY <1>a, <1>b, <1>1 DEF CacheTypeOK, CacheInv, ReplyInv
<1>4. TokenInv'
  BY <1>a, <1>b, <1>1 DEF CacheTypeOK, CacheInv, TokenInv
<1>5. FetchInv'
  BY <1>a, <1>b, <1>1 DEF CacheTypeOK, CacheInv, FetchInv, InFlight, Unexpired, Locked, Fetching
<1>6. CallInv'
  BY <1>a, <1>b, <1>1 DEF CacheTypeOK, CacheInv, CallInv, TokenInv, Call, NoToken
<1>7. PassedInv'
  BY <1>a, <1>b, <1>1 DEF CacheTypeOK, CacheInv, PassedInv, Answers
<1>8. NoDroppedToken'
  BY <1>a, <1>b DEF CacheTypeOK, NoToken, NoDroppedToken, CacheInv, TokenInv, CallInv, Call
<1>9. NoExpiredToken'
  <2> SUFFICES ASSUME NEW u \in Threads,
                      ret'[u].kind = "header", ret'[u].token \in 1..call[u].issued
               PROVE  dies[ret'[u].token] > call[u].at
    BY <1>a, <1>b DEF CacheTypeOK, CacheInv, NoExpiredToken
  <2>1. CASE u = t
    <3>1. token \in 1..call[t].issued
      BY <2>1, <1>a, <1>b DEF CacheTypeOK, CacheInv, NoExpiredToken
    <3>2. Answers(token, t)
      BY <1>b, <3>1 DEF CacheTypeOK, CacheInv, PassedInv, Call, NoToken
    <3> QED
      BY <2>1, <1>a, <1>b, <3>1, <3>2 DEF CacheTypeOK, Answers, Call
  <2>2. CASE u # t
    BY <2>2, <1>a, <1>b DEF CacheTypeOK, CacheInv, NoExpiredToken
  <2> QED BY <2>1, <2>2
<1> QED
  BY <1>1, <1>2, <1>3, <1>4, <1>5, <1>6, <1>7, <1>8, <1>9 DEF CacheInv

\* self._token = None: the cached token becomes the newest dropped one.
LEMMA DropTokenInv ==
    ASSUME CacheTypeOK, CacheInv, NEW t \in Threads, DropToken(t)
    PROVE  CacheTypeOK' /\ CacheInv'
<1> USE DEF DropToken, Goto, lockVars, idpVars, callVars
<1>1. CacheTypeOK'
  BY DEF CacheTypeOK, Locked, Fetching, NoToken
<1>2. LockInv'
  BY <1>1 DEF CacheTypeOK, CacheInv, LockInv, Locked, Fetching
<1>3. ReplyInv'
  BY <1>1 DEF CacheTypeOK, CacheInv, ReplyInv, LockInv, Locked, Fetching
<1>4. TokenInv'
  BY <1>1 DEF CacheTypeOK, CacheInv, TokenInv, CallInv, Call, NoToken
<1>5. FetchInv'
  BY <1>1 DEF CacheTypeOK, CacheInv, FetchInv, InFlight, Unexpired, Locked, Fetching
<1>6. CallInv'
  BY <1>1 DEF CacheTypeOK, CacheInv, CallInv, TokenInv, Call, NoToken
<1>7. PassedInv'
  BY <1>1 DEF CacheTypeOK, CacheInv, PassedInv, Answers
<1>8. NoDroppedToken'
  BY <1>1 DEF CacheTypeOK, CacheInv, NoDroppedToken
<1>9. NoExpiredToken'
  BY <1>1 DEF CacheTypeOK, CacheInv, NoExpiredToken
<1> QED
  BY <1>1, <1>2, <1>3, <1>4, <1>5, <1>6, <1>7, <1>8, <1>9 DEF CacheInv

\* self._expires_at = 0.0: no deadline outlives its token.
LEMMA DropExpiryInv ==
    ASSUME CacheTypeOK, CacheInv, NEW t \in Threads, DropExpiry(t)
    PROVE  CacheTypeOK' /\ CacheInv'
<1> USE DEF DropExpiry, Goto, lockVars, idpVars, callVars
<1>1. CacheTypeOK'
  BY DEF CacheTypeOK, Locked, Fetching
<1>2. LockInv'
  BY <1>1, ThreadAssumption DEF CacheTypeOK, CacheInv, LockInv, Locked, Fetching, InFlight,
     TokenInv, ReplyInv, FetchInv, Unexpired, Valid, NoToken, Call, Reply
<1>3. ReplyInv'
  BY <1>1 DEF CacheTypeOK, CacheInv, ReplyInv
<1>4. TokenInv'
  BY DelayAssumption DEF CacheTypeOK, CacheInv, LockInv, TokenInv, Locked, NoToken
<1>5. FetchInv'
  BY <1>1 DEF CacheTypeOK, CacheInv, FetchInv, InFlight, Unexpired, Locked, Fetching, LockInv
<1>6. CallInv'
  BY <1>1 DEF CacheTypeOK, CacheInv, CallInv
<1>7. PassedInv'
  BY <1>1 DEF CacheTypeOK, CacheInv, PassedInv, Answers
<1>8. NoDroppedToken'
  BY <1>1 DEF CacheTypeOK, CacheInv, NoDroppedToken
<1>9. NoExpiredToken'
  BY <1>1 DEF CacheTypeOK, CacheInv, NoExpiredToken
<1> QED
  BY <1>1, <1>2, <1>3, <1>4, <1>5, <1>6, <1>7, <1>8, <1>9 DEF CacheInv

\* Time passes: a past deadline stays past, and a response is stored in time.
LEMMA TickInv ==
    ASSUME CacheTypeOK, CacheInv, Tick
    PROVE  CacheTypeOK' /\ CacheInv'
<1> USE DEF Tick, Goto, lockVars, idpVars, callVars
<1>1. CacheTypeOK'
  BY DEF CacheTypeOK, Locked, Fetching
<1>2. LockInv'
  BY <1>1 DEF CacheTypeOK, CacheInv, LockInv, Locked, Fetching
<1>3. ReplyInv'
  BY DelayAssumption DEF CacheTypeOK, CacheInv, ReplyInv, Reply
<1>4. TokenInv'
  BY <1>1 DEF CacheTypeOK, CacheInv, TokenInv
<1>5. FetchInv'
  BY MarginAssumption DEF CacheTypeOK, CacheInv, FetchInv, InFlight, Unexpired
<1>6. CallInv'
  BY <1>1 DEF CacheTypeOK, CacheInv, CallInv, TokenInv, Call, NoToken
<1>7. PassedInv'
  BY <1>1 DEF CacheTypeOK, CacheInv, PassedInv, Answers
<1>8. NoDroppedToken'
  BY <1>1 DEF CacheTypeOK, CacheInv, NoDroppedToken
<1>9. NoExpiredToken'
  BY <1>1 DEF CacheTypeOK, CacheInv, NoExpiredToken
<1> QED
  BY <1>1, <1>2, <1>3, <1>4, <1>5, <1>6, <1>7, <1>8, <1>9 DEF CacheInv

-----------------------------------------------------------------------------
(***************************************************************************)
(* The same steps seen as steps of TokenSource.                            *)
(***************************************************************************)

\* A stutter of TokenSource: nothing that Entry is made of changes.
LEMMA SourceStutter ==
    ASSUME UNCHANGED <<token, expiresAt, now, issued, InFlight>>
    PROVE  UNCHANGED Source!vars
  BY DEF Source!vars, Entry, Valid, Unexpired

\* The entry of a request under way is empty, and so is one without a valid token.
LEMMA EntryEmpty ==
    /\ InFlight # {} \/ ~Valid => Entry = Source!Empty
    /\ InFlight' # {} \/ ~Valid' => Entry' = Source!Empty
  BY DEF Entry, Source!Empty, NoToken

\* InFlight before and after the move of one thread.
LEMMA MoveInFlight ==
    ASSUME CacheTypeOK, NEW t \in Threads, NEW from, NEW to, Goto(t, from, to)
    PROVE  /\ t \in InFlight <=> from \in Fetching
           /\ InFlight' = IF to \in Fetching THEN InFlight \cup {t} ELSE InFlight \ {t}
<1>1. pc[t] = from /\ pc'[t] = to /\ \A u \in Threads : u # t => pc'[u] = pc[u]
  BY DEF Goto, CacheTypeOK
<1> QED
  BY <1>1 DEF InFlight

\* Who is inside the lock is alone there, and when it goes on to a place outside
\* a token request no request is left.
LEMMA AloneInFlight ==
    ASSUME CacheTypeOK, CacheInv, NEW t \in Threads, NEW from \in Locked, NEW to,
           Goto(t, from, to)
    PROVE  /\ InFlight = IF from \in Fetching THEN {t} ELSE {}
           /\ InFlight' = IF to \in Fetching THEN {t} ELSE {}
<1>1. \A u \in Threads : u # t => pc[u] \notin Fetching
  BY DEF Goto, CacheInv, LockInv, Locked
<1>2. pc[t] = from
  BY DEF Goto
<1>3. InFlight = IF from \in Fetching THEN {t} ELSE {}
  BY <1>1, <1>2 DEF InFlight
<1> QED
  BY <1>3, MoveInFlight

\* TokenSource sees nothing of a call and of the reads of auth_header.
LEMMA ReadStepSource ==
    ASSUME CacheTypeOK, NEW t \in Threads,
           \/ \E to \in {"check_token", "want_drop"} : Begin(t, to)
           \/ CheckToken(t) \/ CheckExpiry(t) \/ Acquire(t)
           \/ AssertToken(t) \/ ReadToken(t)
    PROVE  UNCHANGED Source!vars
<1> USE DEF idpVars, lockVars, Fetching
<1>1. ASSUME NEW from, NEW to, Goto(t, from, to), from \notin Fetching, to \notin Fetching,
             UNCHANGED <<token, expiresAt, now, issued>>
      PROVE  UNCHANGED Source!vars
  BY <1>1, MoveInFlight, SourceStutter
<1>2. CASE \E to \in {"check_token", "want_drop"} : Begin(t, to)
  BY <1>1, <1>2 DEF Begin
<1>3. CASE CheckToken(t)
  BY <1>1, <1>3 DEF CheckToken
<1>4. CASE CheckExpiry(t)
  BY <1>1, <1>4 DEF CheckExpiry
<1>5. CASE Acquire(t)
  BY <1>1, <1>5 DEF Acquire
<1>6. CASE AssertToken(t)
  BY <1>1, <1>6 DEF AssertToken
<1>7. CASE ReadToken(t)
  BY <1>1, <1>7 DEF ReadToken
<1> QED
  BY <1>2, <1>3, <1>4, <1>5, <1>6, <1>7

\* The double check starts a request exactly when there is nothing usable.
LEMMA RecheckSource ==
    ASSUME CacheTypeOK, CacheInv, NEW t \in Threads, Recheck(t)
    PROVE  [Source!Next]_(Source!vars)
<1>1. InFlight = {} /\ InFlight' = IF Valid THEN {} ELSE {t}
  BY AloneInFlight DEF Recheck, Locked, Fetching
<1>2. UNCHANGED <<token, expiresAt, now, issued>>
  BY DEF Recheck, idpVars
<1>3. CASE Valid
  BY <1>1, <1>2, <1>3, SourceStutter
<1>4. CASE ~Valid
  BY <1>1, <1>2, <1>4, EntryEmpty DEF Source!Next, Source!Request
<1> QED
  BY <1>3, <1>4

\* The attempts within one token request are one request, also when the first
\* store has been made.
LEMMA ProceedSource ==
    ASSUME CacheTypeOK, NEW t \in Threads, NEW from \in Fetching, NEW to \in Fetching,
           Goto(t, from, to), UNCHANGED <<now, issued>>
    PROVE  UNCHANGED Source!vars
<1>1. InFlight' = InFlight /\ InFlight # {}
  BY MoveInFlight
<1> QED
  BY <1>1, EntryEmpty DEF Source!vars

\* The identity provider issues a token.
LEMMA GrantSource ==
    ASSUME CacheTypeOK, NEW t \in Threads, NEW from \in Fetching, Grant(t, from)
    PROVE  Source!Issue
<1>1. InFlight' = InFlight /\ InFlight # {}
  BY MoveInFlight DEF Grant, Fetching
<1>2. issued' = issued + 1 /\ now' = now
  BY DEF Grant
<1> QED
  BY <1>1, <1>2, EntryEmpty DEF Source!Issue

\* A request that fails leaves nothing usable behind.
LEMMA AbortSource ==
    ASSUME CacheTypeOK, CacheInv, NEW t \in Threads, NEW from \in Fetching, NEW error,
           Abort(t, from, error)
    PROVE  Source!Fail
<1>1. InFlight = {t} /\ InFlight' = {}
  BY AloneInFlight DEF Abort, Locked, Fetching
<1>2. UNCHANGED <<token, expiresAt, now, issued>>
  BY DEF Abort, idpVars
<1>3. ~Valid /\ ~Valid'
  BY <1>1, <1>2 DEF CacheInv, FetchInv, Valid, Unexpired
<1> QED
  BY <1>1, <1>2, <1>3, EntryEmpty DEF Source!Fail

\* The second store fills the entry, unless the token does not last.
LEMMA StoreExpirySource ==
    ASSUME CacheTypeOK, CacheInv, NEW t \in Threads, StoreExpiry(t)
    PROVE  Source!Fill \/ Source!Fail
<1>1. InFlight = {t} /\ InFlight' = {}
  BY AloneInFlight DEF StoreExpiry, Locked, Fetching
<1>2. token' = issued /\ issued # NoToken /\ UNCHANGED <<now, issued>>
  BY DEF StoreExpiry, Goto, idpVars, CacheInv, ReplyInv, CacheTypeOK, NoToken
<1>3. CASE Unexpired'
  <2>1. Entry' = [token |-> issued, until |-> expiresAt']
    BY <1>1, <1>2, <1>3 DEF Entry, Valid
  <2>2. Source!Lasts(Entry', now)
    BY <2>1, <1>2, <1>3 DEF Source!Lasts, Unexpired
  <2> QED
    BY <1>1, <1>2, <2>1, <2>2 DEF Source!Fill
<1>4. CASE ~Unexpired'
  <2>1. ~Valid'
    BY <1>4 DEF Valid
  <2> QED
    BY <1>1, <1>2, <2>1, EntryEmpty DEF Source!Fail
<1> QED
  BY <1>3, <1>4

\* invalidate empties the entry at its first assignment.
LEMMA InvalidateStepSource ==
    ASSUME CacheTypeOK, CacheInv, NEW t \in Threads, InvalidateStep(t)
    PROVE  Source!Drop
<1>1. InFlight = {} /\ InFlight' = {}
  <2>1. \E from \in {"drop_token", "drop_expiry"}, to \in {"drop_expiry", "idle"} :
          Goto(t, from, to)
    BY DEF InvalidateStep, DropToken, DropExpiry
  <2> QED
    BY <2>1, AloneInFlight DEF Locked, Fetching
<1>2. UNCHANGED <<now, issued>>
  BY DEF InvalidateStep, DropToken, DropExpiry, idpVars
<1>3. ~Valid'
  BY DEF InvalidateStep, DropToken, DropExpiry, Goto, CacheInv, TokenInv, Valid
<1> QED
  BY <1>1, <1>2, <1>3, EntryEmpty DEF Source!Drop

\* The entry lapses when its token comes near its deadline.
LEMMA TickSource ==
    ASSUME CacheTypeOK, Tick
    PROVE  Source!Tick
<1>1. InFlight' = InFlight
  BY DEF Tick, InFlight
<1>2. now' = now + 1 /\ UNCHANGED <<token, expiresAt, issued>>
  BY DEF Tick, lockVars, idpVars
<1>3. CASE Valid /\ InFlight = {}
  BY <1>1, <1>2, <1>3
     DEF Source!Tick, Source!Lasts, Source!Empty, Entry, Valid, Unexpired, NoToken
<1>4. CASE ~(Valid /\ InFlight = {})
  <2>1. InFlight' # {} \/ ~Valid'
    BY <1>1, <1>2, <1>4, MarginAssumption DEF Valid, Unexpired, CacheTypeOK
  <2> QED
    BY <1>1, <1>2, <1>4, <2>1, EntryEmpty DEF Source!Tick
<1> QED
  BY <1>3, <1>4
=============================================================================
