----------------------------- MODULE VendedTable -----------------------------
(***************************************************************************)
(* pylakekeeper.agents._common.VendedTable: threads share a handle of one  *)
(* generic table and ask it for the load response, which it keeps until    *)
(* its credentials come near their end.  Nothing is locked: _cached is     *)
(* looked at twice, loaded into and returned in four steps.  On the other  *)
(* side an operator drops the table, or takes the grant away (to the       *)
(* client both are a 404), and gives it back.                              *)
(***************************************************************************)
EXTENDS LoadResponse, Integers, FiniteSets

CONSTANTS
    Threads,
    Margin,     \* REFRESH_MARGIN_SECONDS
    Vended,     \* what the server may vend: [scheme, creds, config]; see Stamp
    Lifetimes,  \* of vended credentials
    Overrides,  \* the client's storage_overrides
    MaxDelay,   \* bound on a call of resp, which is the time-out of its request
    MaxTime, MaxCalls  \* bounds on clock and calls

ASSUME VendedAssumption ==
    /\ Margin \in Nat /\ Lifetimes \subseteq Nat /\ Lifetimes # {} /\ MaxDelay \in Nat
    /\ MaxTime \in Nat /\ MaxCalls \in Nat /\ None \notin Nat /\ NoNumber \notin Nat

\* "it always does for vended S3, ADLS and GCS credentials" (models.py:94): the server
\* says when the credentials end, and nothing else does.
ASSUME ExpiryAssumption ==
    /\ \A v \in Vended :
         LET sent == v.creds \o v.config IN
         /\ v.creds \in Seq(STRING \X STRING) /\ v.config \in Seq(STRING \X STRING)
         /\ \E i \in DOMAIN sent : sent[i][2] = "expiry"
         /\ \A i \in DOMAIN sent :
              sent[i][2] = "expiry" <=> sent[i][1] \in ExpiryKeys \cup SasExpiry
    /\ Overrides \in Seq(STRING \X STRING)
    /\ \A i \in DOMAIN Overrides : Overrides[i][1] \notin ExpiryKeys \cup SasExpiry

VARIABLES
    clock,
    readable,  \* the catalog lets the principal load the table
    lost,      \* history: when it last ceased to
    cached,    \* _cached
    pc,        \* where each thread is
    answer,    \* the response a thread has loaded
    since,     \* history: when its call of resp began
    begun

vars == <<clock, readable, lost, cached, pc, answer, since, begun>>

Init ==
    /\ clock = 0 /\ readable \in BOOLEAN /\ lost = 0
    /\ cached = None
    /\ pc = [t \in Threads |-> "idle"] /\ answer = [t \in Threads |-> None]
    /\ since = [t \in Threads |-> 0]
    /\ begun = 0

-----------------------------------------------------------------------------
\* A dict of what is vended, with the expiry filled in.
Filled(d, expiry) ==
    [i \in DOMAIN d |-> <<d[i][1], IF d[i][2] = "expiry" THEN expiry ELSE d[i][2]>>]

\* What the server vends at a time; when it dies and was issued is not sent.
Stamp(v, life, at) ==
    [scheme |-> v.scheme, dies |-> at + life, issued |-> at,
     config |-> Filled(v.config, at + life), creds |-> Filled(v.creds, at + life)]

\* What the client makes of it.
Response(v, life, at) == ApplyOverrides(Stamp(v, life, at), Overrides)

Goto(t, to) == pc' = [pc EXCEPT ![t] = to]

\* A method asks for resp.
Resp(t) ==
    /\ pc[t] = "idle" /\ begun < MaxCalls
    /\ Goto(t, "check") /\ begun' = begun + 1
    /\ since' = [since EXCEPT ![t] = clock]
    /\ UNCHANGED <<clock, readable, lost, cached, answer>>

\* ensure creates the table first, and the grant comes with it; or the table is there
\* (409), for a principal that may read it or not.
Ensure(t) ==
    /\ pc[t] = "idle" /\ begun < MaxCalls
    /\ Goto(t, "invalidate") /\ begun' = begun + 1
    /\ readable' = TRUE \/ UNCHANGED readable
    /\ UNCHANGED <<clock, lost, cached, answer, since>>

\* invalidate
Invalidate(t) ==
    /\ pc[t] = "invalidate"
    /\ cached' = None
    /\ Goto(t, "check")
    /\ since' = [since EXCEPT ![t] = clock]
    /\ UNCHANGED <<clock, readable, lost, answer, begun>>

\* _cached is None, ...
CheckCached(t) ==
    /\ pc[t] = "check"
    /\ Goto(t, IF cached = None THEN "load" ELSE "expiry")
    /\ UNCHANGED <<clock, readable, lost, cached, answer, since, begun>>

\* ... or, read once more, near its expiry.
CheckExpiry(t) ==
    /\ pc[t] = "expiry" /\ cached # None
    /\ Goto(t, IF ExpiresWithin(cached, Margin, clock) THEN "load" ELSE "return")
    /\ UNCHANGED <<clock, readable, lost, cached, answer, since, begun>>

\* It was invalidated in between: None has no expires_within, an AttributeError.
CheckRaises(t) ==
    /\ pc[t] = "expiry" /\ cached = None
    /\ Goto(t, "idle")
    /\ since' = [since EXCEPT ![t] = 0]
    /\ UNCHANGED <<clock, readable, lost, cached, answer, begun>>

\* generic_tables.load(vended=True): the server answers, ...
Load(t) ==
    /\ pc[t] = "load" /\ readable
    /\ \E v \in Vended, life \in Lifetimes :
         answer' = [answer EXCEPT ![t] = Response(v, life, clock)]
    /\ Goto(t, "store")
    /\ UNCHANGED <<clock, readable, lost, cached, since, begun>>

\* ... and, some time later, _cached is assigned.
StoreCached(t) ==
    /\ pc[t] = "store"
    /\ cached' = answer[t]
    /\ answer' = [answer EXCEPT ![t] = None]
    /\ Goto(t, "return")
    /\ UNCHANGED <<clock, readable, lost, since, begun>>

\* return self._cached: the call returns cached as it is by now, also None.
ReturnCached(t) ==
    /\ pc[t] = "return"
    /\ Goto(t, "idle")
    /\ since' = [since EXCEPT ![t] = 0]
    /\ UNCHANGED <<clock, readable, lost, cached, answer, begun>>

\* The request fails or is answered 404, or the creation is refused.
Raise(t) ==
    /\ pc[t] \in {"invalidate", "load", "store"}
    /\ Goto(t, "idle")
    /\ answer' = [answer EXCEPT ![t] = None] /\ since' = [since EXCEPT ![t] = 0]
    /\ UNCHANGED <<clock, readable, lost, cached, begun>>

\* An operator drops the table or revokes the grant.
Revoke ==
    /\ readable /\ readable' = FALSE /\ lost' = clock
    /\ UNCHANGED <<clock, cached, pc, answer, since, begun>>

\* No call of resp takes longer than MaxDelay.
Tick ==
    /\ clock < MaxTime /\ clock' = clock + 1
    /\ \A t \in Threads : pc[t] \in {"idle", "invalidate"} \/ clock < since[t] + MaxDelay
    /\ UNCHANGED <<readable, lost, cached, pc, answer, since, begun>>

Step(t) ==
    \/ Resp(t) \/ Ensure(t) \/ Invalidate(t) \/ CheckCached(t) \/ CheckExpiry(t)
    \/ CheckRaises(t) \/ Load(t) \/ StoreCached(t) \/ ReturnCached(t) \/ Raise(t)

AllIdle == (\A t \in Threads : pc[t] = "idle") /\ begun = MaxCalls /\ UNCHANGED vars

Next == Revoke \/ Tick \/ AllIdle \/ \E t \in Threads : Step(t)

Spec == Init /\ [][Next]_vars

-----------------------------------------------------------------------------
TypeOK ==
    /\ clock \in 0..MaxTime /\ lost \in 0..MaxTime /\ begun \in 0..MaxCalls
    /\ readable \in BOOLEAN
    /\ pc \in [Threads -> {"idle", "invalidate", "check", "expiry", "load", "store", "return"}]
    /\ answer = [t \in Threads |-> answer[t]] /\ since \in [Threads -> 0..MaxTime]
    /\ \A t \in Threads : pc[t] # "store" => answer[t] = None

\* The responses that are about.
Responses == ({cached} \cup {answer[t] : t \in Threads}) \ {None}

\* "an override placed here reaches every downstream shape" (generic_tables.py:38),
\* and all shapes of an S3 response have the key of one and the same credential,
\* whatever the server vends in which order (regions are another matter); and
\* expires_at finds, in whichever keys, when the credentials end.
ShapesAgree ==
    TypeOK /\ \A r \in Responses :
        /\ ExpiresAt(Credentials(r)) = r.dies
        /\ r.scheme = "s3" =>
             LET lance == Lance(Credentials(r)) fs == Fsspec(r) s3 == Objects(r) IN
             /\ lance.key = fs.key /\ fs.key = s3.key
             /\ \A shape \in {lance, fs, s3} : Has(Overrides, "s3.endpoint") =>
                   shape.endpoint = Value(Overrides, "s3.endpoint")

\* What t's call returns now has the margin left but for the time the call itself
\* may have taken, or is as fresh as can be.
ReturnsFresh(t) ==
    pc[t] = "return" /\ pc'[t] = "idle" /\ cached # None =>
        \/ cached.issued + MaxDelay >= since[t]
        \/ clock + Margin < cached.dies + MaxDelay

\* "a slow multi-object write started just under the wire still finishes with
\* valid keys" (_common.py:15): so it is whatever other threads load, store and
\* invalidate between the steps of a call.
FreshEnough == [][\A t \in Threads : ReturnsFresh(t)]_vars

\* What t's call returns now, while the catalog refuses, is not older than that by
\* more than the lifetime less the margin, or than an answer may have been under way.
ReturnsGranted(t) ==
    pc[t] = "return" /\ pc'[t] = "idle" /\ cached # None /\ ~readable =>
        \/ \E life \in Lifetimes : clock + Margin < lost + life + MaxDelay
        \/ clock <= lost + 2 * MaxDelay

\* "an agent whose grant is revoked stops being able to read its memory -- mid-run,
\* without redeploying anything" (langgraph.py:13): so it is for every thread that
\* shares the cache, and when grants come and go.
RevocationBites == [][\A t \in Threads : ReturnsGranted(t)]_vars

-----------------------------------------------------------------------------
\* The parts of the inductive invariant.

\* A response is what the server vended in the past, at a time at which the table could
\* be read, with the overrides.
Genuine(r) ==
    /\ r.issued \in 0..clock
    /\ \E v \in Vended, life \in Lifetimes : r = Response(v, life, r.issued)
    /\ readable \/ r.issued <= lost

\* No call is under way for longer than MaxDelay, and what it has loaded it has
\* loaded itself.
CallInv(t) ==
    /\ pc[t] \notin {"idle", "invalidate"} => since[t] <= clock /\ clock <= since[t] + MaxDelay
    /\ pc[t] = "store" => Genuine(answer[t]) /\ since[t] <= answer[t].issued

\* What a call that is past the check may find in the cache when it returns: what
\* it has checked, what somebody has stored since, or nothing.
PassedInv(t) ==
    pc[t] = "return" /\ cached # None =>
        cached.issued + MaxDelay >= since[t] \/ since[t] + Margin < cached.dies

VendedInv ==
    /\ TypeOK /\ lost <= clock
    /\ cached # None => Genuine(cached)
    /\ \A t \in Threads : CallInv(t) /\ PassedInv(t)
=============================================================================
