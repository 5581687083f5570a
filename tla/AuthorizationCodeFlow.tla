----------------------- MODULE AuthorizationCodeFlow -----------------------
(***************************************************************************)
(* auth.py, AuthorizationCodeFlow._acquire: a loopback HTTP server waits   *)
(* for the redirect that carries the authorization code of this login.     *)
(* The server is single-threaded: it accepts one connection at a time, and *)
(* reads its request to the end before it looks at the clock or at another *)
(* connection.  Connections come from the browser: the redirect of this    *)
(* login, that of an earlier one in another tab, requests for other paths, *)
(* and connections opened ahead that carry no request yet.                 *)
(* This is the step "login" of RefreshableAuth in detail.                  *)
(***************************************************************************)
EXTENDS Naturals, Sequences

CONSTANTS
    Requests,       \* the requests that may come in: see Request
    Codes,          \* authorization codes
    States,         \* the values of the state parameter
    Mine,           \* the one that _acquire has put in the authorization URL
    None,           \* None
    LoginTimeout,   \* login_timeout
    Slice,          \* server.timeout: the 1.0 s that handle_request waits
    MaxTime,        \* bound on the clock
    MaxConnections  \* bound on the connections

\* What do_GET looks at: whether the path is redirect_path, and the parameters.
Request == [redirect : BOOLEAN, code : Codes \cup {None}, state : States \cup {None},
            error : BOOLEAN]

ASSUME RequestAssumption ==
    Requests \subseteq Request /\ Mine \in States /\ None \notin Codes \cup States
ASSUME TimeAssumption == {LoginTimeout, Slice, MaxTime, MaxConnections} \subseteq Nat

VARIABLES
    pc,        \* where _acquire is
    auth,      \* auth_code, returned_state and auth_error
    deadline,  \* deadline of wait_for_code
    sliceEnd,  \* when handle_request gives up waiting for a connection
    outcome,   \* what _acquire has returned or raised
    exchanged, \* the code that was sent to the token endpoint
    now,       \* time.monotonic()
    backlog,   \* connections not yet served, with their request or Silent
    opened,    \* number of connections so far
    served     \* history: the requests do_GET has handled

loopVars == <<deadline, sliceEnd>>
netVars  == <<backlog, opened>>
vars     == <<pc, auth, deadline, sliceEnd, outcome, exchanged, now, backlog, opened, served>>

\* A connection on which no request has been sent.
Silent == [silent |-> TRUE]

Nothing == [code |-> None, state |-> None, error |-> FALSE]

Init ==
    /\ pc = "test"
    /\ auth = Nothing
    /\ deadline = LoginTimeout /\ sliceEnd = 0
    /\ outcome = "none" /\ exchanged = None
    /\ now = 0
    /\ backlog = << >> /\ opened = 0 /\ served = {}

Goto(from, to) == pc = from /\ pc' = to

\* _acquire returns or raises; server_close has run.
End(from, how) ==
    /\ Goto(from, "done")
    /\ outcome' = how
    /\ UNCHANGED <<auth, loopVars, exchanged, now, netVars, served>>

\* The loop condition of wait_for_code.
Redirected == auth.code # None \/ auth.error

-----------------------------------------------------------------------------
\* The loop goes on: handle_request waits for a connection, a slice at most.
HandleRequest ==
    /\ ~Redirected /\ now < deadline
    /\ Goto("test", "select")
    /\ sliceEnd' = now + Slice
    /\ UNCHANGED <<auth, deadline, outcome, exchanged, now, netVars, served>>

\* Mutant: the deadline is looked at first.
TimeOutFirst == now >= deadline /\ End("test", "timed_out")

\* The loop body raises: the deadline is past and no redirect has come in.
TimeOut == ~Redirected /\ now >= deadline /\ End("test", "timed_out")

\* Mutant: handle_request without a time-out.
SliceNeverEnds ==
    /\ backlog # << >> /\ now >= sliceEnd
    /\ Goto("select", "test")
    /\ UNCHANGED <<auth, loopVars, outcome, exchanged, now, netVars, served>>

\* No connection in this slice.
SliceEnds ==
    /\ backlog = << >> /\ now >= sliceEnd
    /\ Goto("select", "test")
    /\ UNCHANGED <<auth, loopVars, outcome, exchanged, now, netVars, served>>

Accept ==
    /\ backlog # << >>
    /\ Goto("select", "read")
    /\ UNCHANGED <<auth, loopVars, outcome, exchanged, now, netVars, served>>

\* Mutant: do_GET keeps what an earlier request has set.
ServeSome ==
    /\ Goto("read", "test")
    /\ Head(backlog) # Silent
    /\ LET r == Head(backlog) IN
         /\ auth' = IF ~r.redirect THEN auth
                    ELSE [code  |-> IF r.code = None THEN auth.code ELSE r.code,
                          state |-> IF r.state = None THEN auth.state ELSE r.state,
                          error |-> auth.error \/ r.error]
         /\ served' = served \cup {r}
    /\ backlog' = Tail(backlog)
    /\ UNCHANGED <<loopVars, outcome, exchanged, now, opened>>

\* do_GET: a request for another path is answered 404; of the others, the
\* last one counts, and what it does not carry is None.
Serve ==
    /\ Goto("read", "test")
    /\ Head(backlog) # Silent
    /\ LET r == Head(backlog) IN
         /\ auth' = IF r.redirect THEN [code |-> r.code, state |-> r.state, error |-> r.error]
                                  ELSE auth
         /\ served' = served \cup {r}
    /\ backlog' = Tail(backlog)
    /\ UNCHANGED <<loopVars, outcome, exchanged, now, opened>>

\* The peer has closed a connection without a request.
ServeNothing ==
    /\ Goto("read", "test")
    /\ backlog' = Tail(backlog)
    /\ UNCHANGED <<auth, loopVars, outcome, exchanged, now, opened, served>>

\* After the loop: error, foreign state, or the code.
Refused  == auth.error /\ End("test", "AuthError")
Mismatch == Redirected /\ ~auth.error /\ auth.state # Mine /\ End("test", "mismatch")

ExchangeCode ==
    /\ Redirected /\ ~auth.error /\ auth.state = Mine
    /\ Goto("test", "exchange")
    /\ exchanged' = auth.code
    /\ UNCHANGED <<auth, loopVars, outcome, now, netVars, served>>

\* Mutant: payload["access_token"] without the test for it.
ExchangedWithoutToken == End("exchange", "KeyError")

\* _exchange_code: the token endpoint's answer.
Exchanged ==
    \E how \in {"bundle", "AuthError", "ValueError"} : End("exchange", how)

-----------------------------------------------------------------------------
\* The browser opens a connection while the server listens.
Connect ==
    /\ opened < MaxConnections /\ pc \in {"test", "select", "read"}
    /\ \E c \in Requests \cup {Silent} : backlog' = Append(backlog, c)
    /\ opened' = opened + 1
    /\ UNCHANGED <<pc, auth, loopVars, outcome, exchanged, now, served>>

\* The request of a silent connection arrives ...
Send(i) ==
    /\ i \in DOMAIN backlog /\ backlog[i] = Silent
    /\ \E r \in Requests : backlog' = [backlog EXCEPT ![i] = r]
    /\ UNCHANGED <<pc, auth, loopVars, outcome, exchanged, now, opened, served>>

\* ... or its peer closes it, which the server notices when it reads.
Close == backlog # << >> /\ Head(backlog) = Silent /\ ServeNothing

\* Time passes anywhere, but the wait for a connection ends with its slice.
Tick ==
    /\ now < MaxTime
    /\ pc = "select" => now < sliceEnd
    /\ now' = now + 1
    /\ UNCHANGED <<pc, auth, loopVars, outcome, exchanged, netVars, served>>

Done == pc = "done" /\ UNCHANGED vars

Wait ==
    \/ HandleRequest \/ TimeOut \/ SliceEnds \/ Accept \/ Serve
    \/ Refused \/ Mismatch \/ ExchangeCode \/ Exchanged

Next ==
    \/ Wait \/ Connect \/ Close \/ Tick \/ Done
    \/ \E i \in 1..MaxConnections : Send(i)

Spec == Init /\ [][Next]_vars

\* The thread runs, time goes on, and the request to the token endpoint ends.
\* Nothing is assumed of the peers: one may stay silent for ever.
FairSpec == Spec /\ WF_vars(Wait) /\ WF_vars(Tick)

-----------------------------------------------------------------------------
TypeOK ==
    /\ pc \in {"test", "select", "read", "exchange", "done"}
    /\ auth \in [code : Codes \cup {None}, state : States \cup {None}, error : BOOLEAN]
    /\ {deadline, sliceEnd, now, opened} \subseteq Nat
    /\ outcome \in {"none", "bundle", "timed_out", "mismatch", "AuthError", "ValueError"}
    /\ exchanged \in Codes \cup {None}
    /\ backlog \in Seq(Requests \cup {Silent})
    /\ served \subseteq Requests
    /\ pc = "read" => backlog # << >>

\* A redirect that was handled, for better or worse.
Decisive(r) == r.redirect /\ (r.code # None \/ r.error)

\* The code that is exchanged came in one request together with this login's
\* state: no code of another login, and no mixture of two requests.
CodeCameWithState ==
    exchanged # None =>
        \E r \in served : r.redirect /\ r.code = exchanged /\ r.state = Mine /\ ~r.error

\* "skip stray requests ... without giving up" (auth.py:464), and no redirect
\* that was served is reported as a time-out: the login is decided by the clock
\* or by a redirect, and by the redirect when there was one.
RedirectDecides ==
    pc = "done" => (outcome # "timed_out" <=> \E r \in served : Decisive(r))

-----------------------------------------------------------------------------
\* The inductive invariant: the fields hold what one served request carried,
\* and the wait is left as soon as a decisive one was served.
FieldsInv ==
    \/ auth = Nothing
    \/ \E r \in served : /\ r.redirect
                         /\ auth = [code |-> r.code, state |-> r.state, error |-> r.error]

WaitInv ==
    /\ pc # "done" => outcome = "none"
    /\ pc \in {"select", "read"} => ~Redirected
    /\ pc = "exchange" => Redirected
    /\ Redirected <=> \E r \in served : Decisive(r)

LoginInv == FieldsInv /\ WaitInv /\ CodeCameWithState /\ RedirectDecides

\* do_GET is about to read a request that is not sent.
HeldBySilence == pc = "read" /\ Head(backlog) = Silent

\* "Poll in short slices so we can honour the overall deadline" (auth.py:464):
\* the login ends whatever connections come in and whatever is sent on them,
\* unless one that was accepted stays silent for good, which nothing in the
\* wait guards against (auth.py:470).
LoginEndsUnlessHeld == <>(pc = "done") \/ <>[]HeldBySilence
=============================================================================
