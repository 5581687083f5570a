---------------------------- MODULE TokenSource ----------------------------
(***************************************************************************)
(* What the token caches of auth.py promise, without threads, locks and    *)
(* fields: an entry that is a usable token or nothing; one request at a    *)
(* time, only when there is nothing; filled with the newest token the      *)
(* identity provider has issued; emptied as a whole, and by a caller never *)
(* while a request is in flight.                                           *)
(***************************************************************************)
EXTENDS Naturals

CONSTANTS Callers, Margin

VARIABLES
    entry,      \* the usable token and the time it is used until, or Empty
    inFlight,   \* the callers whose token request has not ended
    issued,     \* number of the newest token of the identity provider
    now

vars == <<entry, inFlight, issued, now>>

Empty == [token |-> 0, until |-> 0]

\* A token is used until Margin before its deadline.
Lasts(e, time) == time + Margin < e.until

Init == entry = Empty /\ inFlight = {} /\ issued = 0 /\ now = 0

Request ==
    /\ inFlight = {} /\ entry = Empty
    /\ \E c \in Callers : inFlight' = {c}
    /\ UNCHANGED <<entry, issued, now>>

Issue ==
    /\ inFlight # {}
    /\ issued' = issued + 1
    /\ UNCHANGED <<entry, inFlight, now>>

Fill ==
    /\ inFlight # {}
    /\ inFlight' = {}
    /\ entry' = [token |-> issued, until |-> entry'.until]
    /\ Lasts(entry', now)
    /\ UNCHANGED <<issued, now>>

\* The request failed, or what it brought does not last.
Fail ==
    /\ inFlight # {}
    /\ inFlight' = {}
    /\ UNCHANGED <<entry, issued, now>>

Drop ==
    /\ inFlight = {}
    /\ entry' = Empty
    /\ UNCHANGED <<inFlight, issued, now>>

Tick ==
    /\ now' = now + 1
    /\ entry' = IF Lasts(entry, now') THEN entry ELSE Empty
    /\ UNCHANGED <<inFlight, issued>>

Next == Request \/ Issue \/ Fill \/ Fail \/ Drop \/ Tick

Spec == Init /\ [][Next]_vars
=============================================================================
