----------------------------- MODULE AuthCache -----------------------------
(***************************************************************************)
(* The token cache that ClientCredentials and _RefreshableAuth (auth.py)   *)
(* have in common: a lock, a cached access token with the monotonic        *)
(* deadline it is used until, the lock-free fast path of auth_header, the  *)
(* double check under the lock, and invalidate.  What happens between the  *)
(* double check and the two stores of the answer (the token request) is    *)
(* left to the modules that extend this one: they add the steps that leave *)
(* "fetch" and "apply".                                                    *)
(*                                                                         *)
(* Every read or write of a field outside the lock is a step of its own,   *)
(* as the interpreter may switch threads between any two of them.  Reads   *)
(* under the lock are not split: no other thread writes then.              *)
(***************************************************************************)
EXTENDS Naturals

CONSTANTS
    Threads,     \* the callers that share one Auth object
    NoThread,    \* the lock is free
    Margin,      \* refresh_margin, in clock units
    Lifetimes,   \* the values of expires_in the identity provider answers
    MaxDelay,    \* longest time from issuing a token to storing its deadline
    MaxTime,     \* bound on the clock
    MaxTokens,   \* bound on the tokens the identity provider issues
    MaxCalls     \* bound on the calls each thread makes

NoToken == 0     \* None; the tokens are numbered from 1 as they are issued

ASSUME ThreadAssumption == NoThread \notin Threads
ASSUME MarginAssumption == Margin \in Nat /\ Lifetimes \subseteq Nat
\* The request timeout (30 s by default) is below the margin (60 s).
ASSUME DelayAssumption == MaxDelay \in Nat /\ MaxDelay <= Margin
ASSUME BoundAssumption == {MaxTime, MaxTokens, MaxCalls} \subseteq Nat

VARIABLES
    lock,        \* _lock: its holder
    token,       \* _token
    expiresAt,   \* _expires_at
    pc,          \* where each thread is in auth_header or invalidate
    reply,       \* the token response each thread received last
    ret,         \* what each thread's last auth_header returned or raised
    now,         \* time.monotonic()
    issued,      \* identity provider: number of the newest token
    dies,        \* identity provider: when each issued token expires
    dropped,     \* history: the newest token invalidate has dropped
    call,        \* history: what held when each thread's call began
    calls        \* calls each thread has made

lockVars   == <<lock, token, expiresAt>>
idpVars    == <<issued, dies>>
callVars   == <<call, calls>>
cacheVars  == <<lock, token, expiresAt, pc, reply, ret, now, issued, dies,
                dropped, call, calls>>

\* The places at which a thread holds the lock.
\* "refresh" and "login" are reached in RefreshableAuth only.
Fetching == {"fetch", "refresh", "login", "apply", "store_expiry"}
Locked   == Fetching \cup {"recheck", "drop_token", "drop_expiry"}

Header(tok)   == [token |-> tok, kind |-> "header"]
Raised(error) == [token |-> NoToken, kind |-> error]
NotReturned   == [token |-> NoToken, kind |-> "none"]

NoReply       == [token |-> NoToken, life |-> 0, at |-> 0]

\* Mutant: the token is used to the end of its life.
UnexpiredToTheEnd == now < expiresAt

\* The second operand of the test in _valid: the deadline has not come near.
Unexpired == now + Margin < expiresAt
Valid     == token # NoToken /\ Unexpired

\* The threads whose token request has been decided on and is not done with.
InFlight == {t \in Threads : pc[t] \in Fetching}

-----------------------------------------------------------------------------
CacheInit ==
    /\ lock = NoThread
    /\ token = NoToken
    /\ expiresAt = 0
    /\ pc = [t \in Threads |-> "idle"]
    /\ reply = [t \in Threads |-> NoReply]
    /\ ret = [t \in Threads |-> NotReturned]
    /\ now = 0
    /\ issued = 0
    /\ dies = [k \in 1..0 |-> 0]
    /\ dropped = 0
    /\ call = [t \in Threads |-> [issued |-> 0, dropped |-> 0, at |-> 0]]
    /\ calls = [t \in Threads |-> 0]

Goto(t, from, to) == pc[t] = from /\ pc' = [pc EXCEPT ![t] = to]

\* A call begins: the history variable keeps what held at that moment.
Begin(t, to) ==
    /\ calls[t] < MaxCalls
    /\ Goto(t, "idle", to)
    /\ calls' = [calls EXCEPT ![t] = @ + 1]
    /\ call' = [call EXCEPT ![t] =
                  [issued |-> issued, dropped |-> dropped, at |-> now]]
    /\ ret' = [ret EXCEPT ![t] = NotReturned]
    /\ UNCHANGED <<lockVars, reply, now, idpVars, dropped>>

CallHeader(t)     == Begin(t, "check_token")
CallInvalidate(t) == Begin(t, "want_drop")

\* The fast path of auth_header: _valid without the lock, first operand ...
CheckToken(t) ==
    /\ Goto(t, "check_token",
            IF token # NoToken THEN "check_expiry" ELSE "want_lock")
    /\ UNCHANGED <<lockVars, reply, ret, now, idpVars, dropped, callVars>>

\* ... and second operand.
CheckExpiry(t) ==
    /\ Goto(t, "check_expiry", IF Unexpired THEN "assert" ELSE "want_lock")
    /\ UNCHANGED <<lockVars, reply, ret, now, idpVars, dropped, callVars>>

\* Mutant: auth_header and invalidate do not wait for the lock.
AcquireAtOnce(t) ==
    /\ lock' = t
    /\ \/ Goto(t, "want_lock", "recheck")
       \/ Goto(t, "want_drop", "drop_token")
    /\ UNCHANGED <<token, expiresAt, reply, ret, now, idpVars, dropped, callVars>>

\* `with self._lock` in auth_header and in invalidate.
Acquire(t) ==
    /\ lock = NoThread
    /\ lock' = t
    /\ \/ Goto(t, "want_lock", "recheck")
       \/ Goto(t, "want_drop", "drop_token")
    /\ UNCHANGED <<token, expiresAt, reply, ret, now, idpVars, dropped, callVars>>

\* Mutant: who has waited for the lock requests a token in any case.
RecheckNothing(t) ==
    /\ Goto(t, "recheck", "fetch")
    /\ UNCHANGED <<lockVars, reply, ret, now, idpVars, dropped, callVars>>

\* The double check: the lock is left at once when the token is valid.
Recheck(t) ==
    /\ Goto(t, "recheck", IF Valid THEN "assert" ELSE "fetch")
    /\ lock' = IF Valid THEN NoThread ELSE lock
    /\ UNCHANGED <<token, expiresAt, reply, ret, now, idpVars, dropped, callVars>>

\* The identity provider grants the request of a thread that is at `from`.
Grant(t, from) ==
    /\ issued < MaxTokens
    /\ Goto(t, from, "apply")
    /\ \E life \in Lifetimes :
         /\ reply' = [reply EXCEPT ![t] =
                        [token |-> issued + 1, life |-> life, at |-> now]]
         /\ dies' = [k \in 1..(issued + 1) |->
                        IF k = issued + 1 THEN now + life ELSE dies[k]]
    /\ issued' = issued + 1
    /\ UNCHANGED <<lockVars, ret, now, dropped, callVars>>

\* Mutant: acquire and release by hand, and no `finally`.
AbortLocked(t, from, error) ==
    /\ Goto(t, from, "idle")
    /\ reply' = [reply EXCEPT ![t] = NoReply]
    /\ ret' = [ret EXCEPT ![t] = Raised(error)]
    /\ UNCHANGED <<lockVars, now, idpVars, dropped, callVars>>

\* The call raises `error` and the lock is released on the way out.
Abort(t, from, error) ==
    /\ Goto(t, from, "idle")
    /\ lock' = NoThread
    /\ reply' = [reply EXCEPT ![t] = NoReply]
    /\ ret' = [ret EXCEPT ![t] = Raised(error)]
    /\ UNCHANGED <<token, expiresAt, now, idpVars, dropped, callVars>>

\* self._token = token
StoreToken(t) ==
    /\ Goto(t, "apply", "store_expiry")
    /\ token' = reply[t].token
    /\ UNCHANGED <<lock, expiresAt, reply, ret, now, idpVars, dropped, callVars>>

\* self._expires_at = time.monotonic() + expires_in, then the lock is left.
StoreExpiry(t) ==
    /\ Goto(t, "store_expiry", "assert")
    /\ expiresAt' = now + reply[t].life
    /\ lock' = NoThread
    /\ reply' = [reply EXCEPT ![t] = NoReply]
    /\ UNCHANGED <<token, ret, now, idpVars, dropped, callVars>>

\* assert self._token is not None: a read outside the lock ...
AssertToken(t) ==
    /\ \/ token # NoToken /\ Goto(t, "assert", "read") /\ UNCHANGED ret
       \/ /\ token = NoToken
          /\ Goto(t, "assert", "idle")
          /\ ret' = [ret EXCEPT ![t] = Raised("AssertionError")]
    /\ UNCHANGED <<lockVars, reply, now, idpVars, dropped, callVars>>

\* ... and `return f"Bearer {self._token}"`, another one.
ReadToken(t) ==
    /\ Goto(t, "read", "idle")
    /\ ret' = [ret EXCEPT ![t] = Header(token)]
    /\ UNCHANGED <<lockVars, reply, now, idpVars, dropped, callVars>>

\* invalidate, under the lock: the two assignments.
DropToken(t) ==
    /\ Goto(t, "drop_token", "drop_expiry")
    /\ token' = NoToken
    /\ dropped' = IF token > dropped THEN token ELSE dropped
    /\ UNCHANGED <<lock, expiresAt, reply, ret, now, idpVars, callVars>>

\* Mutant: invalidate leaves the deadline standing.
DropNoExpiry(t) ==
    /\ Goto(t, "drop_expiry", "idle")
    /\ lock' = NoThread
    /\ UNCHANGED <<token, expiresAt, reply, ret, now, idpVars, dropped, callVars>>

DropExpiry(t) ==
    /\ Goto(t, "drop_expiry", "idle")
    /\ expiresAt' = 0
    /\ lock' = NoThread
    /\ UNCHANGED <<token, reply, ret, now, idpVars, dropped, callVars>>

\* The clock; a response that is under way is stored within MaxDelay.
Tick ==
    /\ now < MaxTime
    /\ \A t \in Threads :
         pc[t] \in {"apply", "store_expiry"} => now < reply[t].at + MaxDelay
    /\ now' = now + 1
    /\ UNCHANGED <<lockVars, pc, reply, ret, idpVars, dropped, callVars>>

\* The calls an environment makes when nothing but the Auth is modelled.
Calls(t) == CallHeader(t) \/ CallInvalidate(t)

\* The steps of auth_header and invalidate outside the token request; the
\* stores are apart, for _apply_bundle adds to the second.
HeaderStep(t) ==
    \/ CheckToken(t) \/ CheckExpiry(t) \/ Acquire(t) \/ Recheck(t)
    \/ StoreToken(t) \/ AssertToken(t) \/ ReadToken(t)

InvalidateStep(t) == DropToken(t) \/ DropExpiry(t)

\* Every thread has made its calls.
Finished ==
    /\ \A t \in Threads : pc[t] = "idle" /\ calls[t] = MaxCalls
    /\ UNCHANGED cacheVars

-----------------------------------------------------------------------------
Reply  == [token : Nat, life : Nat, at : Nat]
Call   == [issued : Nat, dropped : Nat, at : Nat]
Return == [token : Nat,
           kind : {"none", "header", "AuthError", "AssertionError", "ValueError"}]

CacheTypeOK ==
    /\ lock \in Threads \cup {NoThread}
    /\ token \in Nat /\ expiresAt \in Nat
    /\ pc \in [Threads -> Locked \cup {"idle", "check_token", "check_expiry",
                                       "want_lock", "want_drop", "assert", "read"}]
    /\ reply \in [Threads -> Reply]
    /\ ret \in [Threads -> Return]
    /\ now \in Nat /\ issued \in Nat /\ dropped \in Nat
    /\ dies \in [1..issued -> Nat]
    /\ call \in [Threads -> Call]
    /\ calls \in [Threads -> Nat]

-----------------------------------------------------------------------------
\* "Refresh is single-flight: under concurrent callers exactly one token
\* request is in flight at a time" (auth.py:20): no two threads are between
\* the double check and the end of the stores.
SingleFlight ==
    \A t, u \in Threads : pc[t] \in Fetching /\ pc[u] \in Fetching => t = u

\* A header never carries a token that invalidate had dropped before the call
\* began: what a 401 discarded is gone for every later caller, whatever
\* refreshes were under way.
NoDroppedToken ==
    \A t \in Threads : ret[t].kind = "header" =>
        ret[t].token = NoToken \/ ret[t].token > call[t].dropped

\* A token that is older than the call is handed out only if it was alive at
\* the identity provider when the call began.  The fast path reads token and
\* deadline without the lock, so this is what the order of the two stores and
\* the margin are for.
NoExpiredToken ==
    \A t \in Threads :
        ret[t].kind = "header" /\ ret[t].token \in 1..call[t].issued =>
            dies[ret[t].token] > call[t].at

-----------------------------------------------------------------------------
\* The parts of the inductive invariant.

\* Who is inside a `with self._lock` block holds the lock.
LockInv == \A t \in Threads : pc[t] \in Locked <=> lock = t

\* A response under way is the newest token, newer than the call it answers
\* and than all that was dropped.
ReplyInv ==
    \A t \in Threads : pc[t] \in {"apply", "store_expiry"} =>
        /\ reply[t].token = issued
        /\ issued > call[t].issued /\ issued > dropped
        /\ dies[issued] = reply[t].at + reply[t].life
        /\ now <= reply[t].at + MaxDelay
        /\ pc[t] = "store_expiry" => token = issued

\* The cached token was not dropped; outside the two stores, its deadline is
\* late by the delay of its response at most, and None has no deadline.
TokenInv ==
    /\ token <= issued /\ dropped <= issued
    /\ token # NoToken => token > dropped
    /\ \/ token = NoToken
       \/ expiresAt <= dies[token] + MaxDelay
       \/ \E t \in Threads : pc[t] = "store_expiry"
    /\ \/ token # NoToken
       \/ expiresAt = 0
       \/ \E t \in Threads : pc[t] = "drop_expiry"
    /\ \A t \in Threads : pc[t] = "drop_expiry" => token = NoToken

\* During a token request the old deadline stays past, also while it stands
\* beside the new token.
FetchInv == InFlight # {} => ~Unexpired

CallInv ==
    \A t \in Threads :
        /\ call[t].issued <= issued /\ call[t].dropped <= dropped
        /\ call[t].at <= now
        /\ ret[t].token <= issued

\* Token k may answer t's call: it is newer, or was alive when the call began.
Answers(k, t) == k > call[t].issued \/ dies[k] > call[t].at

\* A thread that is past the check may read whatever is stored until it does.
PassedInv ==
    \A t \in Threads : pc[t] \in {"assert", "read"} =>
        /\ token # NoToken => Answers(token, t)
        /\ \A u \in Threads : pc[u] = "apply" => Answers(reply[u].token, t)

CacheInv ==
    /\ LockInv /\ ReplyInv /\ TokenInv /\ FetchInv /\ CallInv /\ PassedInv
    /\ NoDroppedToken /\ NoExpiredToken

-----------------------------------------------------------------------------
\* The cache as TokenSource sees it: there is nothing in it from the start of
\* a token request to its end, and when the token has come near its deadline.
Entry == IF Valid /\ InFlight = {}
         THEN [token |-> token, until |-> expiresAt]
         ELSE [token |-> NoToken, until |-> 0]

Source == INSTANCE TokenSource WITH
    Callers <- Threads, entry <- Entry, inFlight <- InFlight

\* The fields, the lock and the fast path together are one single-flight
\* cache, whose entry is replaced and dropped as a whole.
ImplementsTokenSource == Source!Spec

\* auth_header "Return[s] the full header value, e.g. "Bearer <token>""
\* (auth.py:49), and asserts that there is a token (auth.py:110).
HeaderHasToken ==
    \A t \in Threads :
        /\ ret[t].kind # "AssertionError"
        /\ ret[t].kind = "header" => ret[t].token # NoToken
=============================================================================
