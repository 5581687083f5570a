---------------------------- MODULE GenericTables ----------------------------
(***************************************************************************)
(* GenericTables of both clients: create, drop and list the generic tables *)
(* of a namespace.  list is an iterator over pages: the Python one a       *)
(* generator, the Java one an object with hasNext and next; the caller     *)
(* takes one table at a time, others create and drop tables meanwhile, and *)
(* a request may fail.  A caller names a namespace in one of several ways; *)
(* text is a sequence of characters.                                       *)
(* The server (not under src/) keeps the tables of all namespaces in an    *)
(* order, here 1..Last; a page token is the place it has come to.  It may  *)
(* answer with fewer tables than asked for, or none, and yet a token; the  *)
(* last page comes with no token or, for a Python loop, with an empty one. *)
(***************************************************************************)
EXTENDS Naturals, Sequences, FiniteSets, SequencesExt

CONSTANTS
    Listers,
    Lang,       \* whose iterator a lister has, "python" or "java"
    Calls,      \* how the callers name namespaces: [ns, means], see ParseNamespace
    Wants,      \* the one of Calls with which a lister calls list
    LastTable, Initial,  \* number of tables, and how many are there at first
    PageSize,
    MaxFailures,         \* bound on failing requests
    Spaced,     \* the tables that have a space in their names
    Ends,       \* what the server sends a lister for a token with the last page
    EmptyToken, \* an empty text for a token
    Nowhere

ASSUME ListingAssumption ==
    /\ Lang \in [Listers -> {"python", "java"}] /\ Wants \in [Listers -> Calls]
    /\ \A c \in Calls : c.means # Nowhere
    /\ LastTable \in Nat /\ Initial \in 0..LastTable
    /\ PageSize \in Nat \ {0} /\ MaxFailures \in Nat /\ EmptyToken \notin Nat

Tables == 1..LastTable
NoToken == 0

\* A Java loop asks again when the last page comes with an empty token, and so starts
\* over; it is taken that the server sends it none.
ASSUME EndsAssumption ==
    \A l \in Listers :
        /\ Ends[l] # {} /\ Ends[l] \subseteq {NoToken, EmptyToken}
        /\ Lang[l] = "java" => EmptyToken \notin Ends[l]

VARIABLES
    home,     \* the levels of the namespace the server has each table in, or Nowhere
    created,  \* the tables that were ever created
    meant,    \* history: the levels of the namespace its creator meant, or Nowhere
    loop,     \* where each iteration is
    first,    \* firstPage
    current,  \* what is left of the page, which is in the server's order
    token,    \* page_token, nextPageToken
    listed,   \* history: what the iteration has returned
    stayed,   \* history: what has been there all the time
    was,      \* history: what has been there at some time
    broken,   \* history: a request has failed that cannot be repeated, see FetchFails
    cut,      \* history: an empty page has ended a Java loop, see Fetch
    failures

iterators == <<loop, first, current, token, listed, broken, cut>>
listVars  == <<home, created, meant, iterators, stayed, was, failures>>

-----------------------------------------------------------------------------
Separator == "US"
Unreserved == {"a", "b", "."}

\* text.split(sep)
Split(text, sep) ==
    FoldLeft(LAMBDA parts, c : IF c = sep THEN Append(parts, << >>)
                               ELSE [parts EXCEPT ![Len(parts)] = Append(@, c)],
             << << >> >>, text)

Joined(parts, sep) ==
    FoldLeft(LAMBDA text, part : IF text = << >> THEN part ELSE text \o <<sep>> \o part, << >>, parts)

\* Mutant: empty levels are kept.
ParseAll(ns) ==
    IF ns.form = "levels" THEN ns.value
    ELSE Split(ns.value, IF Contains(ns.value, Separator) THEN Separator ELSE ".")

\* parse_namespace, of a text or a sequence of levels
ParseNamespace(ns) ==
    LET sep    == IF Contains(ns.value, Separator) THEN Separator ELSE "."
        levels == IF ns.form = "text" THEN Split(ns.value, sep) ELSE ns.value
    IN  SelectSeq(levels, LAMBDA level : level # << >>)

\* join_namespace
JoinNamespace(ns) == Joined(ParseNamespace(ns), Separator)

\* encode_namespace: quote escapes every character that is not unreserved.
EncodeNamespace(ns) ==
    LET text == JoinNamespace(ns)
    IN  [i \in DOMAIN text |-> [char |-> text[i], escaped |-> text[i] \notin Unreserved]]

\* The server takes the path apart at the slashes, then unescapes the segment.
Decode(segment) ==
    IF \E i \in DOMAIN segment : segment[i].char = "/" /\ ~segment[i].escaped THEN Nowhere
    ELSE Split([i \in DOMAIN segment |-> segment[i].char], Separator)

\* The levels at which each caller's namespace arrives.
Arrives == [call \in Calls |-> Decode(EncodeNamespace(call.ns))]

-----------------------------------------------------------------------------
\* The tables of a namespace that lie after one place, up to another.
Between(call, from, to) == {i \in (from + 1)..to : home[i] = Arrives[call]}

\* The answers to l's request with token t: one without a place, which asks for the
\* first page, and so does an empty one, comes when all is covered.
Pages(l, t) ==
    LET from == IF t \in Tables THEN t ELSE 0
    IN  {p \in {[identifiers |-> Between(Wants[l], from, IF n \in Tables THEN n ELSE LastTable),
                 next |-> n] : n \in Ends[l] \cup (from + 1)..LastTable} :
           Cardinality(p.identifiers) <= PageSize}

ListInit ==
    /\ \E c \in Calls : meant = [i \in Tables |-> IF i <= Initial THEN c.means ELSE Nowhere]
    /\ home = meant /\ created = 1..Initial
    /\ loop = [l \in Listers |-> "idle"]
    /\ first = [l \in Listers |-> TRUE] /\ token = [l \in Listers |-> NoToken]
    /\ current = [l \in Listers |-> {}] /\ listed = [l \in Listers |-> << >>]
    /\ stayed = [l \in Listers |-> {}] /\ was = [l \in Listers |-> {}]
    /\ broken = [l \in Listers |-> FALSE] /\ cut = [l \in Listers |-> FALSE]
    /\ failures = 0

\* create: the server refuses a name that is taken.
Create(i, call) ==
    /\ i \notin created
    /\ created' = created \cup {i}
    /\ home' = [home EXCEPT ![i] = Arrives[call]]
    /\ meant' = [meant EXCEPT ![i] = call.means]
    /\ was' = [l \in Listers |-> IF loop[l] # "idle" /\ Wants[l].means = call.means
                                 THEN was[l] \cup {i} ELSE was[l]]
    /\ UNCHANGED <<stayed, failures, iterators>>

\* drop; the server answers 404 when there is no such table in that namespace, and that
\* there is none of a name with a space, for the Java client writes "+" for it.  (It is
\* taken that no other table is called so: it would be dropped.)
Drop(i, call, lang) ==
    /\ home[i] # Nowhere /\ home[i] = Arrives[call]
    /\ lang = "java" => i \notin Spaced
    /\ home' = [home EXCEPT ![i] = Nowhere]
    /\ meant' = [meant EXCEPT ![i] = Nowhere]
    /\ stayed' = [l \in Listers |-> stayed[l] \ (IF Wants[l].means = call.means THEN {i} ELSE {})]
    /\ UNCHANGED <<created, was, failures, iterators>>

-----------------------------------------------------------------------------
\* list, and the first request for an element
Start(l) ==
    /\ loop[l] = "idle"
    /\ loop' = [loop EXCEPT ![l] = "next"]
    /\ LET there == {i \in Tables : meant[i] = Wants[l].means} IN
       stayed' = [stayed EXCEPT ![l] = there] /\ was' = [was EXCEPT ![l] = there]
    /\ UNCHANGED <<home, created, meant, first, current, token, listed, broken, cut, failures>>

\* if not page_token, nextPageToken == null
HasMore(l) == token[l] # NoToken /\ (Lang[l] = "python" => token[l] # EmptyToken)

\* hasNext: whether another page is to be fetched
Fetches(l) == loop[l] = "next" /\ current[l] = {} /\ (first[l] \/ HasMore(l))

\* Mutant: the token for the page after this one is kept for the rest of the listing.
FetchOnce(l) ==
    /\ Fetches(l)
    /\ \E p \in Pages(l, token[l]) :
         /\ current' = [current EXCEPT ![l] = p.identifiers]
         /\ token' = [token EXCEPT ![l] = IF first[l] THEN p.next ELSE @]
    /\ first' = [first EXCEPT ![l] = FALSE]
    /\ UNCHANGED <<home, created, meant, loop, listed, stayed, was, broken, cut, failures>>

\* A page is fetched.  hasNext of the Java client answers no when it is empty.
Fetch(l) ==
    /\ Fetches(l)
    /\ \E p \in Pages(l, token[l]) :
         /\ current' = [current EXCEPT ![l] = p.identifiers]
         /\ token' = [token EXCEPT ![l] = p.next]
         /\ LET ends == Lang[l] = "java" /\ p.identifiers = {} IN
            /\ loop' = [loop EXCEPT ![l] = IF ends THEN "ended" ELSE @]
            /\ cut' = [cut EXCEPT ![l] = ends /\ p.next # NoToken]
    /\ first' = [first EXCEPT ![l] = FALSE]
    /\ UNCHANGED <<home, created, meant, listed, stayed, was, broken, failures>>

\* The request raises, and the caller asks again for an element.  A generator that
\* raised has ended; hasNext repeats the request, but not the first one.
FetchFails(l) ==
    /\ Fetches(l) /\ failures < MaxFailures
    /\ failures' = failures + 1
    /\ first' = [first EXCEPT ![l] = FALSE]
    /\ LET over == Lang[l] = "python" \/ token[l] = NoToken IN
       /\ loop' = [loop EXCEPT ![l] = IF over THEN "ended" ELSE @]
       /\ broken' = [broken EXCEPT ![l] = over]
    /\ UNCHANGED <<home, created, meant, current, token, listed, stayed, was, cut>>

\* next, yield
Take(l) ==
    /\ loop[l] = "next"
    /\ \E i \in current[l] :
         /\ \A j \in current[l] : i <= j
         /\ listed' = [listed EXCEPT ![l] = Append(@, i)]
         /\ current' = [current EXCEPT ![l] = @ \ {i}]
    /\ UNCHANGED <<home, created, meant, loop, first, token, stayed, was, broken, cut, failures>>

\* No more pages.
End(l) ==
    /\ loop[l] = "next" /\ current[l] = {} /\ ~Fetches(l)
    /\ loop' = [loop EXCEPT ![l] = "ended"]
    /\ UNCHANGED <<home, created, meant, first, current, token, listed, stayed, was, broken, cut,
                   failures>>

Advance(l) == Fetch(l) \/ Take(l) \/ End(l)

ListNext ==
    \/ \E i \in Tables, call \in Calls :
          Create(i, call) \/ \E lang \in {"python", "java"} : Drop(i, call, lang)
    \/ \E l \in Listers : Start(l) \/ Advance(l) \/ FetchFails(l)

\* A loop over the listing asks for element after element, and requests are answered.
ListSpec == ListInit /\ [][ListNext]_listVars /\ \A l \in Listers : WF_listVars(Advance(l))

-----------------------------------------------------------------------------
ListTypeOK ==
    /\ meant \in [Tables -> {c.means : c \in Calls} \cup {Nowhere}]
    /\ created \subseteq Tables
    /\ loop \in [Listers -> {"idle", "next", "ended"}]
    /\ first \in [Listers -> BOOLEAN]
    /\ token = [l \in Listers |-> token[l]]
    /\ \A l \in Listers : token[l] \in {NoToken} \cup Ends[l] \cup Tables
    /\ broken \in [Listers -> BOOLEAN] /\ cut \in [Listers -> BOOLEAN]
    /\ stayed \in [Listers -> SUBSET Tables] /\ was \in [Listers -> SUBSET Tables]
    /\ current \in [Listers -> SUBSET Tables] /\ listed \in [Listers -> Seq(Tables)]
    /\ failures \in 0..MaxFailures

\* The iteration of l has not returned a table twice.
ListedOnce(l) == \A i, j \in DOMAIN listed[l] : listed[l][i] = listed[l][j] => i = j

\* "Iterate every table identifier in a namespace, following next-page-token"
\* (generic_tables.py:97), whichever way the namespace is written: every table is
\* where its creator meant it to be, and at the end every table that was there all
\* the time has been listed, unless a request failed for good or an empty page has
\* ended a Java loop; and no table is listed twice, or was never there.
ListsWhatStayed ==
    /\ ListTypeOK /\ home = meant
    /\ \A l \in Listers :
        /\ loop[l] = "ended" /\ ~broken[l] /\ ~cut[l] => stayed[l] \subseteq ToSet(listed[l])
        /\ ToSet(listed[l]) \subseteq was[l]
        /\ ListedOnce(l)

-----------------------------------------------------------------------------
\* Every way to write a namespace reaches the server as what the caller means.
NamesArrive == \A call \in Calls : Arrives[call] = call.means

\* The parts of the inductive invariant.

\* What there is was created.
TablesInv == \A i \in Tables : home[i] # Nowhere => i \in created

\* The place in the server's order up to which l has fetched the pages.
Reached(l) == IF first[l] THEN 0 ELSE IF token[l] \in Tables THEN token[l] ELSE LastTable

\* What the histories say of the namespace l lists.
SeenInv(l) ==
    /\ stayed[l] \subseteq {i \in Tables : meant[i] = Wants[l].means}
    /\ loop[l] # "idle" => {i \in Tables : meant[i] = Wants[l].means} \subseteq was[l]

\* What l has fetched is listed, or is on the page at hand: once, all of it was
\* there, and nothing that stayed is missing.
PagesInv(l) ==
    /\ loop[l] = "idle" => first[l] /\ stayed[l] = {}
    /\ first[l] => token[l] = NoToken /\ current[l] = {} /\ listed[l] = << >>
    /\ current[l] \cup ToSet(listed[l]) \subseteq was[l] \cap 1..Reached(l)
    /\ current[l] \cap ToSet(listed[l]) = {}
    /\ ~broken[l] => stayed[l] \cap 1..Reached(l) \subseteq current[l] \cup ToSet(listed[l])
    /\ loop[l] = "ended" => current[l] = {}
    /\ broken[l] => loop[l] = "ended"
    /\ loop[l] = "ended" /\ ~broken[l] /\ ~cut[l] => ~first[l] /\ token[l] \notin Tables

ListInv ==
    /\ ListsWhatStayed /\ TablesInv
    /\ \A l \in Listers : SeenInv(l) /\ PagesInv(l)

-----------------------------------------------------------------------------
\* However the server cuts its pages, a loop over a listing comes to an end.
ListEnds == \A l \in Listers : loop[l] = "next" ~> loop[l] = "ended"
=============================================================================
